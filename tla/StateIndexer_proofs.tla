------------------------ MODULE StateIndexer_proofs -------------------------
(***************************************************************************)
(* Ingestion and commitment call the memory graph as its own theorems      *)
(* assume, so that those hold of the graph they build; and whatever order  *)
(* of ingestion, correction, commitment and consolidation, no disagreement *)
(* is lost, no correction is reverted by a plain statement and the index   *)
(* offers what is not history.                                             *)
(***************************************************************************)
EXTENDS StateIndexer, SequenceTheorems, TLAPS

\* Where a call is: what is left of its span, and the fact it is settling.
CallInv ==
    /\ source \in Spans \cup {NoId} /\ todo \in Seq(Id)
    /\ source # NoId => \A i \in DOMAIN todo : todo[i] \in Facts(source)
    /\ node # NoId => node \in present /\ status[node] # "superseded"
    /\ node = NoId => rivals = {} /\ contested = NoId
    /\ source # NoId \/ node # NoId => draining = {}
    /\ planning = FALSE

\* The rivals still to take are standing claims of its key that say otherwise.
RivalsInv ==
    /\ rivals \subseteq present
    /\ \A m \in rivals : /\ Kind[m] = "claim" /\ Kind[node] = "claim" /\ m # node
                         /\ status[m] # "superseded" /\ Disagree(node, m)
    /\ contested # NoId => contested \in rivals /\ contested \in contradicts[node]
    /\ contested # NoId => MaySupersede(contested, node)

\* A disagreement is marked, and settled, or is one the call has still to take.
Untaken(n, m) == node \in {n, m} /\ {n, m} \cap rivals # {}
AccountInv ==
    \A n, m \in Standing : Disagree(n, m) /\ ~Untaken(n, m) =>
        /\ m \in contradicts[n]
        /\ SupersedeOnConflict => {n, m} \cap corrective # {}

IndexInv == indexed = {n \in present : status[n] # "superseded"}

IndexerInv ==
    /\ G!TypeOK /\ corrective \subseteq Id
    /\ CallInv /\ RivalsInv /\ AccountInv /\ IndexInv

-----------------------------------------------------------------------------
(* Every call is a graph call of the kind the graph's invariants assume.   *)

LEMMA GraphIsTyped == G!GraphAssumption
  BY IndexerAssumption DEF IndexerAssumption, G!GraphAssumption, G!Kinds, Spans

LEMMA SpansAreIds == Spans \subseteq Id /\ NoId \notin Spans /\ \A e \in Spans : Kind[e] = "evidence"
  BY IndexerAssumption DEF IndexerAssumption, Spans

\* A call that leaves the graph alone.
LEMMA NoGraphCall == ASSUME UNCHANGED graph PROVE UNCHANGED G!vars
  BY DEF graph, G!vars, G!nodeVars, G!queueVars

LEMMA UpsertCall ==
    ASSUME G!Idle, NEW n \in G!Offered, NEW D \in SUBSET Id, G!Upsert(n, D)
    PROVE  G!Next
<1>1. n \in Id
  BY DEF G!Offered
<1>2. D \in [m \in Id |-> SUBSET Id][n]
  BY <1>1
<1> QED BY <1>2, Zenon DEF G!Next

LEMMA ContradictCall ==
    ASSUME G!Idle, NEW n \in Id, NEW m \in Id, G!Rivals(n, m), G!Contradict(n, m)
    PROVE  G!Next
  BY Zenon DEF G!Next

LEMMA SupersedeCall ==
    ASSUME G!Idle, NEW old \in Id, NEW new \in Id, G!Rivals(old, new),
           old \in contradicts[new], G!Supersede(old, new)
    PROVE  G!Next
  BY Zenon DEF G!Next

LEMMA ReferenceCall ==
    ASSUME G!Idle, NEW n \in present, NEW m \in present, G!Corroborate(n, m) \/ G!Refer(n, m)
    PROVE  G!Next
  BY Zenon DEF G!Next

LEMMA RevalidateCall ==
    ASSUME G!Idle, NEW n \in present, status[n] = "stale", G!Revalidate(n)
    PROVE  G!Next
  BY Zenon DEF G!Next

LEMMA DrainCall ==
    ASSUME \/ G!Idle /\ pending # {} /\ G!BeginDrain(FALSE)
           \/ G!DrainStep
    PROVE  G!Next
  BY Zenon DEF G!Next

LEMMA StepCallsGraph ==
    ASSUME IndexerInv, [Next]_vars
    PROVE  [G!Next]_(G!vars)
<1> USE DEF IndexerInv
<1>1. planning = FALSE /\ (source # NoId \/ node # NoId => draining = {})
  BY DEF CallInv
<1>2. source # NoId \/ node # NoId \/ Idle => G!Idle
  BY <1>1 DEF G!Idle, Idle
<1>3. CASE UNCHANGED graph
  BY <1>3, NoGraphCall
<1>4. CASE AddEvidence
  <2>1. source \in G!Offered /\ G!Idle
    BY <1>2, <1>4, SpansAreIds DEF AddEvidence, G!Offered, CallInv
  <2> QED BY <1>4, <2>1, UpsertCall DEF AddEvidence
<1>5. ASSUME NEW n \in Id, NEW twin \in Id, Merge(n, twin)
      PROVE  [G!Next]_(G!vars)
  <2>1. source # NoId /\ source \in present /\ n = Head(todo) /\ todo # <<>>
    BY <1>5, IndexerAssumption DEF Merge, Considered, G!TypeOK, IndexerAssumption
  <2>2. G!Idle /\ source \in Spans /\ n \in Facts(source)
    BY <1>2, <2>1 DEF CallInv
  <2>3. twin \in present /\ SameFact(n, twin)
    BY <1>5 DEF Merge, Twins, SameFact
  <2>4. CASE source \in deps[twin]
    BY <1>5, <2>4, NoGraphCall DEF Merge
  <2>5. CASE source \notin deps[twin]
    BY <1>5, <2>1, <2>2, <2>3, <2>5, ReferenceCall DEF Merge
  <2> QED BY <2>4, <2>5
<1>6. ASSUME NEW n \in Id, Admit(n)
      PROVE  [G!Next]_(G!vars)
  <2>1. source # NoId /\ source \in Id /\ n \in G!Offered
    BY <1>6, SpansAreIds, IndexerAssumption
       DEF Admit, Considered, G!TypeOK, G!Offered, IndexerAssumption
  <2>2. PICK L \in Links(n, source) : G!Upsert(n, {source} \cup L)
    BY <1>6 DEF Admit
  <2>3. L \subseteq present /\ present \subseteq Id
    BY DEF Links, G!TypeOK
  <2> QED BY <1>2, <2>1, <2>2, <2>3, UpsertCall
<1>7. ASSUME NEW n \in Id, Commit(n)
      PROVE  [G!Next]_(G!vars)
  <2>1. PICK D \in CommitDeps[n] : G!Upsert(n, D)
    BY <1>7 DEF Commit
  <2>2. D \in SUBSET Id /\ n \in G!Offered
    BY <2>1, IndexerAssumption DEF IndexerAssumption, G!Offered
  <2> QED BY <1>2, <1>7, <2>1, <2>2, UpsertCall DEF Commit
<1>8. ASSUME NEW m \in Id, Backfill(m)
      PROVE  [G!Next]_(G!vars)
  <2>1. node \in present /\ m \in present
    BY <1>8 DEF Backfill, Mentioners, CallInv
  <2> QED BY <1>2, <1>8, <2>1, ReferenceCall DEF Backfill
<1>9. ASSUME NEW m \in Id, Dispute(m)
      PROVE  [G!Next]_(G!vars)
  <2>1. node \in Id /\ G!Rivals(node, m)
    BY <1>9 DEF Dispute, CallInv, RivalsInv, Disagree, G!Rivals, G!TypeOK
  <2> QED BY <1>2, <1>9, <2>1, ContradictCall DEF Dispute
<1>10. CASE Revise
  <2>1. node # NoId /\ contested \in rivals
    BY <1>10 DEF Revise, CallInv, RivalsInv
  <2>2. node \in Id /\ contested \in Id /\ G!Rivals(contested, node)
    BY <2>1 DEF CallInv, RivalsInv, Disagree, G!Rivals, G!TypeOK
  <2> QED BY <1>2, <1>10, <2>1, <2>2, SupersedeCall DEF Revise, RivalsInv
<1>11. ASSUME NEW n \in Id, Revalidate(n)
       PROVE  [G!Next]_(G!vars)
  BY <1>2, <1>11, RevalidateCall DEF Revalidate
<1>12. CASE Consolidate
  BY <1>2, <1>12, DrainCall DEF Consolidate
<1>13. (\E e \in Spans : Ingest(e)) \/ (\E n \in Id : SkipKnown(n)) \/ Settle \/ Return
         \/ UNCHANGED vars => UNCHANGED graph
  BY DEF Ingest, SkipKnown, Settle, Return, vars
<1> QED BY <1>3, <1>4, <1>5, <1>6, <1>7, <1>8, <1>9, <1>10, <1>11, <1>12, <1>13 DEF Next

-----------------------------------------------------------------------------
(* What each graph call does to what stands.                               *)

SameHistory ==
    present' = present /\ \A m \in Id : status'[m] = "superseded" <=> status[m] = "superseded"

LEMMA HistoryKept ==
    ASSUME G!TypeOK, SameHistory
    PROVE  /\ Standing' = Standing
           /\ {n \in present' : status'[n] # "superseded"} = {n \in present : status[n] # "superseded"}
  BY DEF G!TypeOK, SameHistory, Standing

LEMMA ReferenceKeepsHistory ==
    ASSUME NEW n, NEW m, G!Corroborate(n, m) \/ G!Refer(n, m)
    PROVE  SameHistory /\ UNCHANGED <<contradicts, draining, planning>>
  BY DEF G!Corroborate, G!Refer, SameHistory, G!queueVars

LEMMA RevalidateKeepsHistory ==
    ASSUME G!TypeOK, NEW n \in Id, status[n] = "stale", G!Revalidate(n)
    PROVE  SameHistory /\ UNCHANGED <<contradicts, draining, planning>>
  BY DEF G!TypeOK, G!Revalidate, SameHistory, G!queueVars

LEMMA DrainKeepsHistory ==
    ASSUME G!TypeOK, G!BeginDrain(FALSE) \/ G!DrainStep
    PROVE  SameHistory /\ contradicts' = contradicts /\ planning' \in {FALSE, planning}
<1>1. CASE G!BeginDrain(FALSE)
  BY <1>1 DEF G!BeginDrain, SameHistory, G!nodeVars
<1>2. CASE G!DrainStep
  <2>1. PICK n \in draining : \E c \in G!Cascades(edges, {n}, 0, status) :
           status' = G!Stale(status, c) /\ pending' = pending \cup c.deferred
    BY <1>2, Zenon DEF G!DrainStep
  <2>2. G!SameHistory(status')
    BY <2>1, GraphIsTyped, G!CascadeLeavesHistory DEF G!TypeOK
  <2> QED BY <1>2, <2>2 DEF G!DrainStep, SameHistory, G!SameHistory
<1> QED BY <1>1, <1>2

\* A node admitted, or admitted again, stands, and says of nothing yet that it
\* disagrees; every other keeps its place.
LEMMA UpsertEffect ==
    ASSUME G!TypeOK, NEW n \in Id, NEW D \in SUBSET Id, G!Upsert(n, D)
    PROVE  /\ present' = present \cup {n} /\ status'[n] # "superseded"
           /\ \A m \in Id \ {n} : status'[m] = "superseded" <=> status[m] = "superseded"
           /\ \A m \in Id \ {n} : contradicts'[m] = contradicts[m]
           /\ UNCHANGED <<draining, planning>>
<1>1. G!Admits(n)
  BY GraphIsTyped, G!UpsertAdmits
<1> QED BY <1>1 DEF G!Admits, G!Upsert, G!TypeOK

\* A revised node is history, and only the two of it forget that they disagreed.
LEMMA SupersedeEffect ==
    ASSUME G!TypeOK, NEW old \in Id, NEW new \in Id, G!Rivals(old, new), G!Supersede(old, new)
    PROVE  /\ present' = present /\ old # new
           /\ \A m \in Id : status'[m] = "superseded" <=> (m = old \/ status[m] = "superseded")
           /\ \A m \in Id : contradicts[m] \ {old} \subseteq contradicts'[m] \/ m = old
           /\ UNCHANGED <<draining, planning>>
<1>1. G!Revises(old, new)
  BY GraphIsTyped, G!SupersedeRevises
<1>2. contradicts' = [contradicts EXCEPT ![new] = contradicts[new] \ {old}, ![old] = @ \ {new}]
      /\ UNCHANGED <<draining, planning>>
  BY DEF G!Supersede
<1> QED BY <1>1, <1>2 DEF G!Revises, G!TypeOK

LEMMA ContradictEffect ==
    ASSUME G!TypeOK, NEW n \in Id, NEW m \in Id, G!Contradict(n, m)
    PROVE  /\ SameHistory /\ UNCHANGED <<draining, planning>>
           /\ m \in contradicts'[n] /\ n \in contradicts'[m]
           /\ \A i \in Id : contradicts[i] \subseteq contradicts'[i]
  BY DEF G!TypeOK, G!Contradict, SameHistory, G!queueVars

-----------------------------------------------------------------------------
(* The invariant, call by call.                                            *)

LEMMA GraphTyped ==
    ASSUME IndexerInv, [Next]_vars PROVE G!TypeOK'
  BY StepCallsGraph, GraphIsTyped, G!StepShapes DEF IndexerInv

\* Whatever leaves what stands alone leaves the accounts and the index.
LEMMA NothingRevised ==
    ASSUME IndexerInv, SameHistory, contradicts' = contradicts,
           UNCHANGED <<indexed, corrective, node, rivals, contested>>,
           contested # NoId => source' = source
    PROVE  /\ RivalsInv' /\ AccountInv' /\ IndexInv'
           /\ node' # NoId => node' \in present' /\ status'[node'] # "superseded"
<1>1. G!TypeOK /\ CallInv /\ RivalsInv /\ AccountInv /\ IndexInv
  BY DEF IndexerInv
<1>2. Standing' = Standing /\ IndexInv'
  BY <1>1, HistoryKept DEF IndexInv
<1>3. RivalsInv'
  BY <1>1 DEF RivalsInv, SameHistory, G!TypeOK, Disagree, MaySupersede
<1>4. AccountInv'
  BY <1>1, <1>2 DEF AccountInv, Untaken, Disagree
<1>5. node' # NoId => node' \in present' /\ status'[node'] # "superseded"
  BY <1>1 DEF CallInv, SameHistory, G!TypeOK
<1> QED BY <1>2, <1>3, <1>4, <1>5

\* What is left of a span are still facts of it.
LEMMA RestOfSpan ==
    ASSUME NEW q \in Seq(Id), q # <<>>, NEW F, \A i \in DOMAIN q : q[i] \in F
    PROVE  /\ Head(q) \in Id \cap F /\ Tail(q) \in Seq(Id)
           /\ \A i \in DOMAIN Tail(q) : Tail(q)[i] \in F
  OBVIOUS

\* A node admitted by ingestion or commitment: all it disagrees with is taken
\* down before it is admitted.
LEMMA AdmissionAccounts ==
    ASSUME IndexerInv, node = NoId, NEW n \in Id, NEW D \in SUBSET Id, G!Upsert(n, D),
           indexed' = indexed \cup {n}, corrective \ {n} \subseteq corrective',
           node' = n, rivals' = Conflicts(n), contested' = contested
    PROVE  /\ RivalsInv' /\ AccountInv' /\ IndexInv'
           /\ node' \in present' /\ status'[node'] # "superseded"
           /\ UNCHANGED <<draining, planning>>
<1>1. G!TypeOK /\ CallInv /\ RivalsInv /\ AccountInv /\ IndexInv /\ rivals = {} /\ contested = NoId
  BY DEF IndexerInv, CallInv
<1>2. /\ present' = present \cup {n} /\ status'[n] # "superseded"
      /\ \A m \in Id \ {n} : status'[m] = "superseded" <=> status[m] = "superseded"
      /\ \A m \in Id \ {n} : contradicts'[m] = contradicts[m]
      /\ UNCHANGED <<draining, planning>>
  BY <1>1, UpsertEffect
<1>3. present \subseteq Id
  BY <1>1 DEF G!TypeOK
<1>4. \A m \in rivals' : /\ m \in present \ {n} /\ Kind[m] = "claim" /\ Kind[n] = "claim"
                          /\ status[m] # "superseded" /\ Disagree(n, m)
  BY DEF Conflicts, Disagree
<1>5. RivalsInv'
  BY <1>1, <1>2, <1>3, <1>4 DEF RivalsInv, Disagree
<1>6. ASSUME NEW i \in Standing', NEW j \in Standing', Disagree(i, j), ~Untaken(i, j)'
      PROVE  j \in contradicts'[i] /\ (SupersedeOnConflict => {i, j} \cap corrective' # {})
  <2>1. i \in Id /\ j \in Id /\ Kind[i] = "claim" /\ Kind[j] = "claim"
    BY <1>2, <1>3 DEF Standing
  <2>2. i # n /\ j # n
    <3>1. \A m \in Standing' \ {n} : m \in present /\ status[m] # "superseded" /\ Kind[m] = "claim"
      BY <1>2, <1>3 DEF Standing
    <3>2. i = n => j \in rivals'
      BY <1>6, <2>1, <3>1 DEF Disagree, Conflicts
    <3>3. j = n => i \in rivals'
      BY <1>6, <2>1, <3>1 DEF Disagree, Conflicts
    <3> QED BY <1>6, <3>2, <3>3 DEF Untaken
  <2>3. i \in Standing /\ j \in Standing
    BY <1>2, <2>1, <2>2 DEF Standing
  <2>4. ~Untaken(i, j)
    BY <1>1 DEF Untaken
  <2>5. j \in contradicts[i] /\ (SupersedeOnConflict => {i, j} \cap corrective # {})
    BY <1>1, <1>6, <2>3, <2>4 DEF AccountInv
  <2> QED BY <1>2, <2>1, <2>2, <2>5
<1>7. AccountInv'
  BY <1>6 DEF AccountInv, Disagree
<1>8. IndexInv'
  BY <1>1, <1>2, <1>3 DEF IndexInv
<1> QED BY <1>2, <1>5, <1>7, <1>8

LEMMA DisputeAccounts ==
    ASSUME IndexerInv, NEW m \in Id, Dispute(m)
    PROVE  RivalsInv' /\ AccountInv' /\ IndexInv' /\ CallInv'
<1>1. G!TypeOK /\ CallInv /\ RivalsInv /\ AccountInv /\ IndexInv
  BY DEF IndexerInv
<1>2. /\ node \in Id /\ node \in present /\ status[node] # "superseded"
      /\ contested = NoId /\ m \in rivals
  BY <1>1 DEF Dispute, CallInv, G!TypeOK
<1>3. /\ SameHistory /\ UNCHANGED <<draining, planning>>
      /\ m \in contradicts'[node] /\ node \in contradicts'[m]
      /\ \A i \in Id : contradicts[i] \subseteq contradicts'[i]
  BY <1>1, <1>2, ContradictEffect DEF Dispute
<1>4. /\ UNCHANGED <<indexed, corrective, source, todo, node>>
      /\ IF MaySupersede(m, node)
         THEN contested' = m /\ UNCHANGED rivals
         ELSE rivals' = rivals \ {m} /\ UNCHANGED contested
  BY DEF Dispute
<1>5. Standing' = Standing /\ IndexInv'
  BY <1>1, <1>3, <1>4, HistoryKept DEF IndexInv
<1>6. RivalsInv'
  BY <1>1, <1>2, <1>3, <1>4, IndexerAssumption
     DEF RivalsInv, SameHistory, G!TypeOK, Disagree, MaySupersede, IndexerAssumption
<1>7. ASSUME NEW i \in Standing, NEW j \in Standing, Disagree(i, j), ~Untaken(i, j)'
      PROVE  j \in contradicts'[i] /\ (SupersedeOnConflict => {i, j} \cap corrective' # {})
  <2>1. i \in Id /\ j \in Id
    BY <1>1 DEF Standing, G!TypeOK
  <2>2. CASE ~Untaken(i, j)
    BY <1>1, <1>3, <1>4, <1>7, <2>1, <2>2 DEF AccountInv
  <2>3. CASE Untaken(i, j)
    <3>1. rivals' = rivals \ {m} /\ ~MaySupersede(m, node)
      BY <1>4, <1>7, <2>3 DEF Untaken
    <3>2. i # j
      BY <1>7 DEF Disagree
    <3>3. {i, j} = {node, m}
      BY <1>1, <1>4, <1>7, <2>3, <3>1, <3>2 DEF Untaken, RivalsInv
    <3>4. SupersedeOnConflict => m \in corrective
      BY <3>1 DEF MaySupersede
    <3> QED BY <1>3, <1>4, <3>2, <3>3, <3>4
  <2> QED BY <2>2, <2>3
<1>8. AccountInv'
  BY <1>5, <1>7 DEF AccountInv, Disagree
<1>9. CallInv'
  BY <1>1, <1>2, <1>3, <1>4, IndexerAssumption
     DEF CallInv, SameHistory, Facts, IndexerAssumption
<1> QED BY <1>5, <1>6, <1>8, <1>9

LEMMA ReviseAccounts ==
    ASSUME IndexerInv, Revise
    PROVE  RivalsInv' /\ AccountInv' /\ IndexInv' /\ CallInv'
<1>1. G!TypeOK /\ CallInv /\ RivalsInv /\ AccountInv /\ IndexInv
  BY DEF IndexerInv
<1> DEFINE old == contested
<1>2. /\ node \in Id /\ node \in present /\ status[node] # "superseded"
      /\ old \in rivals /\ old \in Id
  BY <1>1 DEF Revise, CallInv, RivalsInv, G!TypeOK
<1>3. G!Rivals(old, node)
  BY <1>1, <1>2 DEF RivalsInv, Disagree, G!Rivals
<1>4. /\ present' = present /\ old # node
      /\ \A m \in Id : status'[m] = "superseded" <=> (m = old \/ status[m] = "superseded")
      /\ \A m \in Id : contradicts[m] \ {old} \subseteq contradicts'[m] \/ m = old
      /\ UNCHANGED <<draining, planning>>
  BY <1>1, <1>2, <1>3, SupersedeEffect DEF Revise
<1>5. /\ indexed' = indexed \ {old} /\ rivals' = rivals \ {old} /\ contested' = NoId
      /\ UNCHANGED <<corrective, source, todo, node>>
  BY DEF Revise
<1> HIDE DEF old
<1>6. Standing' = Standing \ {old}
  BY <1>1, <1>4 DEF Standing, G!TypeOK
<1>7. IndexInv'
  BY <1>1, <1>4, <1>5 DEF IndexInv, G!TypeOK
<1>8. RivalsInv'
  BY <1>1, <1>2, <1>4, <1>5 DEF RivalsInv, G!TypeOK, Disagree
<1>9. ASSUME NEW i \in Standing', NEW j \in Standing', Disagree(i, j), ~Untaken(i, j)'
      PROVE  j \in contradicts'[i] /\ (SupersedeOnConflict => {i, j} \cap corrective' # {})
  <2>1. i \in Standing /\ j \in Standing /\ i # old /\ j # old /\ i \in Id
    BY <1>1, <1>6 DEF Standing, G!TypeOK
  <2>2. ~Untaken(i, j)
    BY <1>5, <1>9, <2>1 DEF Untaken
  <2>3. j \in contradicts[i] /\ (SupersedeOnConflict => {i, j} \cap corrective # {})
    BY <1>1, <1>9, <2>1, <2>2 DEF AccountInv
  <2> QED BY <1>4, <1>5, <2>1, <2>3
<1>10. AccountInv'
  BY <1>9 DEF AccountInv, Disagree
<1>11. CallInv'
  BY <1>1, <1>2, <1>4, <1>5 DEF CallInv, Facts, G!TypeOK
<1> QED BY <1>7, <1>8, <1>10, <1>11

LEMMA IndexerStep ==
    ASSUME IndexerInv, [Next]_vars
    PROVE  IndexerInv'
<1>1. G!TypeOK /\ corrective \subseteq Id /\ CallInv /\ RivalsInv /\ AccountInv /\ IndexInv
  BY DEF IndexerInv
<1>2. G!TypeOK'
  BY GraphTyped
<1>3. NoId \notin Id /\ Extracted \in [Id -> Seq(Id)] /\ Corrections \subseteq Id
  BY IndexerAssumption DEF IndexerAssumption
<1>4. ASSUME UNCHANGED graph PROVE SameHistory /\ UNCHANGED <<contradicts, draining, planning>>
  BY <1>4 DEF graph, SameHistory
<1>5. CASE UNCHANGED vars
  BY <1>1, <1>2, <1>4, <1>5, NothingRevised DEF IndexerInv, CallInv, Facts, vars, call
<1>6. ASSUME NEW e \in Spans, Ingest(e) PROVE IndexerInv'
  <2>1. node = NoId /\ contested = NoId /\ draining = {} /\ e \in Id
    BY <1>1, <1>6, SpansAreIds DEF Ingest, Idle, CallInv
  <2>2. SameHistory /\ UNCHANGED <<contradicts, draining, planning>>
    BY <1>4, <1>6 DEF Ingest
  <2>3. RivalsInv' /\ AccountInv' /\ IndexInv'
    BY <1>6, <2>1, <2>2, NothingRevised DEF Ingest
  <2>4. CallInv'
    BY <1>1, <1>3, <1>6, <2>1, <2>2 DEF Ingest, CallInv, Facts
  <2> QED BY <1>1, <1>2, <1>6, <2>3, <2>4 DEF IndexerInv, Ingest
<1>7. CASE AddEvidence
  <2>1. source \in Id /\ source \notin present /\ Kind[source] = "evidence"
    BY <1>1, <1>3, <1>7, SpansAreIds DEF AddEvidence, CallInv
  <2>2. /\ present' = present \cup {source} /\ status'[source] # "superseded"
        /\ \A m \in Id \ {source} : status'[m] = "superseded" <=> status[m] = "superseded"
        /\ \A m \in Id \ {source} : contradicts'[m] = contradicts[m]
        /\ UNCHANGED <<draining, planning>>
    BY <1>1, <1>7, <2>1, UpsertEffect DEF AddEvidence
  <2>3. /\ UNCHANGED <<corrective, source, todo, node, rivals, contested>>
        /\ indexed' = indexed \cup {source}
    BY <1>7 DEF AddEvidence, call
  <2>4. \A n \in present : n \in Id \ {source}
    BY <1>1, <2>1 DEF G!TypeOK
  <2>5. Standing' = Standing
    BY <2>1, <2>2, <2>4 DEF Standing
  <2>6. IndexInv' /\ RivalsInv'
    BY <1>1, <2>2, <2>3, <2>4 DEF IndexInv, RivalsInv, Disagree, MaySupersede, CallInv
  <2>7. AccountInv'
    BY <1>1, <2>2, <2>3, <2>4, <2>5 DEF AccountInv, Untaken, Disagree, Standing
  <2>8. CallInv'
    BY <1>1, <2>2, <2>3, <2>4 DEF CallInv, Facts
  <2> QED BY <1>1, <1>2, <2>3, <2>6, <2>7, <2>8 DEF IndexerInv
<1>8. ASSUME NEW n \in Id, SkipKnown(n) PROVE IndexerInv'
  <2>1. SameHistory /\ UNCHANGED <<contradicts, draining, planning>>
    BY <1>4, <1>8 DEF SkipKnown
  <2>2. RivalsInv' /\ AccountInv' /\ IndexInv'
        /\ (node' # NoId => node' \in present' /\ status'[node'] # "superseded")
    BY <1>8, <2>1, NothingRevised DEF SkipKnown
  <2>3. todo' \in Seq(Id) /\ (source # NoId => \A i \in DOMAIN todo' : todo'[i] \in Facts(source))
    BY <1>1, <1>8, RestOfSpan DEF SkipKnown, Considered, CallInv
  <2>4. CallInv'
    BY <1>1, <1>8, <2>1, <2>2, <2>3 DEF SkipKnown, CallInv, Facts
  <2> QED BY <1>1, <1>2, <1>8, <2>2, <2>4 DEF IndexerInv, SkipKnown
<1>9. ASSUME NEW n \in Id, NEW twin \in Id, Merge(n, twin) PROVE IndexerInv'
  <2>1. SameHistory /\ UNCHANGED <<contradicts, draining, planning>>
    BY <1>4, <1>9, ReferenceKeepsHistory DEF Merge
  <2>2. twin \in indexed
    BY <1>1, <1>9 DEF Merge, Twins, IndexInv
  <2>3. UNCHANGED <<indexed, corrective, source, node, rivals, contested>>
    BY <1>9, <2>2 DEF Merge
  <2>4. RivalsInv' /\ AccountInv' /\ IndexInv'
        /\ (node' # NoId => node' \in present' /\ status'[node'] # "superseded")
    BY <2>1, <2>3, NothingRevised
  <2>5. todo' \in Seq(Id) /\ (source # NoId => \A i \in DOMAIN todo' : todo'[i] \in Facts(source))
    BY <1>1, <1>9, RestOfSpan DEF Merge, Considered, CallInv
  <2>6. CallInv'
    BY <1>1, <2>1, <2>3, <2>4, <2>5 DEF CallInv, Facts
  <2> QED BY <1>1, <1>2, <2>3, <2>4, <2>6 DEF IndexerInv
<1>10. ASSUME NEW n \in Id, Admit(n) PROVE IndexerInv'
  <2>1. node = NoId /\ source \in Id /\ contested = NoId /\ draining = {}
    BY <1>1, <1>3, <1>10 DEF Admit, Considered, CallInv, G!TypeOK
  <2>2. PICK L \in Links(n, source) : G!Upsert(n, {source} \cup L)
    BY <1>10 DEF Admit
  <2>3. {source} \cup L \in SUBSET Id
    BY <1>1, <2>1 DEF Links, G!TypeOK
  <2>4. /\ indexed' = indexed \cup {n} /\ corrective \subseteq corrective' /\ corrective' \subseteq Id
        /\ node' = n /\ rivals' = Conflicts(n) /\ todo' = Tail(todo)
        /\ UNCHANGED <<source, contested>>
    BY <1>1, <1>3, <1>10 DEF Admit
  <2>5. /\ RivalsInv' /\ AccountInv' /\ IndexInv'
        /\ node' \in present' /\ status'[node'] # "superseded"
        /\ UNCHANGED <<draining, planning>>
    BY <2>1, <2>2, <2>3, <2>4, AdmissionAccounts
  <2>6. todo' \in Seq(Id) /\ (source # NoId => \A i \in DOMAIN todo' : todo'[i] \in Facts(source))
    BY <1>1, <1>10, RestOfSpan DEF Admit, Considered, CallInv
  <2>7. CallInv'
    BY <1>1, <1>3, <2>1, <2>4, <2>5, <2>6 DEF CallInv, Facts
  <2> QED BY <1>2, <2>4, <2>5, <2>7 DEF IndexerInv
<1>11. ASSUME NEW n \in Id, Commit(n) PROVE IndexerInv'
  <2>1. node = NoId /\ source = NoId /\ contested = NoId /\ draining = {}
    BY <1>1, <1>11 DEF Commit, Idle, CallInv
  <2>2. PICK D \in CommitDeps[n] : G!Upsert(n, D)
    BY <1>11 DEF Commit
  <2>3. D \in SUBSET Id
    BY IndexerAssumption DEF IndexerAssumption
  <2>4. /\ indexed' = indexed \cup {n} /\ corrective' = corrective \ {n}
        /\ node' = n /\ rivals' = Conflicts(n)
        /\ UNCHANGED <<source, todo, contested>>
    BY <1>11 DEF Commit
  <2>5. /\ RivalsInv' /\ AccountInv' /\ IndexInv'
        /\ node' \in present' /\ status'[node'] # "superseded"
        /\ UNCHANGED <<draining, planning>>
    BY <2>1, <2>2, <2>3, <2>4, AdmissionAccounts
  <2>6. CallInv'
    BY <1>1, <1>3, <2>1, <2>4, <2>5 DEF CallInv, Facts
  <2> QED BY <1>1, <1>2, <2>4, <2>5, <2>6 DEF IndexerInv
<1>12. ASSUME NEW m \in Id, Backfill(m) PROVE IndexerInv'
  <2>1. SameHistory /\ UNCHANGED <<contradicts, draining, planning>>
    BY <1>12, ReferenceKeepsHistory DEF Backfill
  <2>2. UNCHANGED <<indexed, corrective, source, todo, node, rivals, contested>>
    BY <1>12 DEF Backfill, call
  <2>3. RivalsInv' /\ AccountInv' /\ IndexInv'
        /\ (node' # NoId => node' \in present' /\ status'[node'] # "superseded")
    BY <2>1, <2>2, NothingRevised
  <2> QED BY <1>1, <1>2, <2>1, <2>2, <2>3 DEF IndexerInv, CallInv, Facts
<1>13. ASSUME NEW m \in Id, Dispute(m) PROVE IndexerInv'
  BY <1>1, <1>2, <1>13, DisputeAccounts DEF IndexerInv, Dispute
<1>14. CASE Revise
  BY <1>1, <1>2, <1>14, ReviseAccounts DEF IndexerInv, Revise
<1>15. CASE Settle
  <2>1. SameHistory /\ UNCHANGED <<contradicts, draining, planning>>
    BY <1>4, <1>15 DEF Settle
  <2>2. Standing' = Standing /\ IndexInv'
    BY <1>1, <1>15, <2>1, HistoryKept DEF IndexInv, Settle
  <2>3. rivals' = {} /\ contested' = NoId /\ rivals = {}
    BY <1>1, <1>15 DEF Settle, RivalsInv
  <2>4. RivalsInv' /\ AccountInv'
    BY <1>1, <1>15, <2>1, <2>2, <2>3 DEF RivalsInv, AccountInv, Untaken, Disagree, Settle
  <2>5. CallInv'
    BY <1>1, <1>15, <2>1, <2>3 DEF CallInv, Facts, Settle
  <2> QED BY <1>1, <1>2, <1>15, <2>2, <2>4, <2>5 DEF IndexerInv, Settle
<1>16. CASE Return
  <2>1. SameHistory /\ UNCHANGED <<contradicts, draining, planning>>
    BY <1>4, <1>16 DEF Return
  <2>2. contested = NoId
    BY <1>1, <1>16 DEF Return, CallInv
  <2>3. RivalsInv' /\ AccountInv' /\ IndexInv'
        /\ (node' # NoId => node' \in present' /\ status'[node'] # "superseded")
    BY <1>16, <2>1, <2>2, NothingRevised DEF Return
  <2> QED BY <1>1, <1>2, <1>16, <2>1, <2>3 DEF IndexerInv, CallInv, Facts, Return
<1>17. ASSUME NEW n \in Id, Revalidate(n) PROVE IndexerInv'
  <2>1. SameHistory /\ UNCHANGED <<contradicts, draining, planning>>
    BY <1>1, <1>17, RevalidateKeepsHistory DEF Revalidate
  <2>2. n \in indexed
    BY <1>1, <1>17 DEF Revalidate, IndexInv
  <2>3. UNCHANGED <<indexed, corrective, source, todo, node, rivals, contested>>
    BY <1>17, <2>2 DEF Revalidate, call
  <2>4. RivalsInv' /\ AccountInv' /\ IndexInv'
        /\ (node' # NoId => node' \in present' /\ status'[node'] # "superseded")
    BY <2>1, <2>3, NothingRevised
  <2> QED BY <1>1, <1>2, <2>1, <2>3, <2>4 DEF IndexerInv, CallInv, Facts
<1>18. CASE Consolidate
  <2>1. source = NoId /\ node = NoId
    BY <1>1, <1>18 DEF Consolidate, Idle, CallInv, G!DrainStep
  <2>2. SameHistory /\ contradicts' = contradicts /\ planning' \in {FALSE, planning}
    BY <1>1, <1>18, DrainKeepsHistory DEF Consolidate
  <2>3. UNCHANGED <<indexed, corrective, source, todo, node, rivals, contested>>
    BY <1>18 DEF Consolidate, call
  <2>4. RivalsInv' /\ AccountInv' /\ IndexInv'
    BY <2>2, <2>3, NothingRevised
  <2>5. CallInv'
    BY <1>1, <2>1, <2>2, <2>3 DEF CallInv
  <2> QED BY <1>1, <1>2, <2>3, <2>4, <2>5 DEF IndexerInv
<1> QED BY <1>5, <1>6, <1>7, <1>8, <1>9, <1>10, <1>11, <1>12, <1>13, <1>14, <1>15, <1>16, <1>17, <1>18
        DEF Next

LEMMA IndexerInit == Init => IndexerInv
<1> SUFFICES ASSUME Init PROVE IndexerInv
  OBVIOUS
<1>1. present = {} /\ draining = {} /\ planning = FALSE /\ G!TypeOK
  BY IndexerAssumption DEF IndexerAssumption, Init, G!Init, G!TypeOK, G!Status
<1> QED BY <1>1 DEF Init, IndexerInv, CallInv, RivalsInv, AccountInv, Standing, IndexInv

-----------------------------------------------------------------------------
\* At every step the call in progress knows its rivals, every disagreement is
\* marked or still to be taken, and the index is the graph without history.
THEOREM IndexerInvariant == Spec => []IndexerInv
  BY IndexerInit, IndexerStep, PTL DEF Spec

\* Ingestion and commitment are a use of the graph its own specification allows:
\* each of their steps is a graph call, or no graph call at all.
THEOREM GraphIsImplemented == Spec => CallsGraphAsAssumed
<1>1. Init => G!Init
  BY DEF Init
<1> QED BY <1>1, IndexerInvariant, StepCallsGraph, PTL DEF Spec, CallsGraphAsAssumed, G!Spec

\* So what is proved of the graph holds of the one they build: it is grounded,
\* its live index is exact, its corrections are kept, evidence that supports
\* only history is flagged, and no cascade forgets a dependent.
THEOREM GraphKeepsItsPromises ==
    Spec => /\ [](G!GroundedInEvidence /\ G!LiveIndexExact /\ G!CorrectionsAreKept
                    /\ G!OrphansAreFlagged)
            /\ G!CascadeReachesDependents
  BY GraphIsTyped, GraphIsImplemented, G!AllGrounded, G!LiveIndexIsExact, G!CorrectionsKept,
     G!OrphansAreAlwaysFlagged, G!CascadeIsNeverLost, PTL
     DEF CallsGraphAsAssumed

\* A conclusion names, of evidence, only what some ingestion admitted: spans have
\* no other source of ids (commit_fact).
ConcludesFromKnown ==
    \A n \in Id : Commit(n) => \A e \in deps'[n] : Kind[e] = "evidence" => e \in present'

LEMMA EvidenceStaysKnown ==
    ASSUME IndexerInv, G!EvidenceIsKnown, [Next /\ ConcludesFromKnown]_vars
    PROVE  G!EvidenceIsKnown'
<1> USE DEF IndexerInv, G!EvidenceIsKnown
<1>1. G!TypeOK /\ present \subseteq Id /\ deps \in [Id -> SUBSET Id]
  BY DEF G!TypeOK
<1>2. ASSUME NEW n \in Id, NEW D \in SUBSET Id, G!Upsert(n, D),
             \A e \in D : Kind[e] = "evidence" => e \in present'
      PROVE  G!EvidenceIsKnown'
  <2>1. present' = present \cup {n} /\ deps' = [deps EXCEPT ![n] = D]
    BY <1>2 DEF G!Upsert
  <2> QED BY <1>1, <1>2, <2>1
<1>3. ASSUME UNCHANGED <<present, deps>> PROVE G!EvidenceIsKnown'
  BY <1>3
<1>4. ASSUME NEW n \in Id, NEW m \in present, G!Corroborate(n, m) \/ G!Refer(n, m)
      PROVE  G!EvidenceIsKnown'
  <2>1. present' = present /\ deps' = [deps EXCEPT ![n] = @ \cup {m}]
    BY <1>4 DEF G!Corroborate, G!Refer
  <2> QED BY <1>1, <2>1
<1>5. CASE AddEvidence
  BY <1>1, <1>2, <1>5, SpansAreIds DEF AddEvidence, CallInv
<1>6. ASSUME NEW n \in Id, Admit(n) PROVE G!EvidenceIsKnown'
  <2>1. PICK L \in Links(n, source) : G!Upsert(n, {source} \cup L)
    BY <1>6 DEF Admit
  <2>2. L \subseteq present /\ source \in present
    BY <1>6 DEF Admit, Considered, Links
  <2>3. present \subseteq present'
    BY <2>1 DEF G!Upsert
  <2>4. {source} \cup L \in SUBSET Id
    BY <1>1, <2>2
  <2> QED BY <1>2, <2>1, <2>2, <2>3, <2>4
<1>7. ASSUME NEW n \in Id, Commit(n), ConcludesFromKnown PROVE G!EvidenceIsKnown'
  <2>1. PICK D \in CommitDeps[n] : G!Upsert(n, D)
    BY <1>7 DEF Commit
  <2>2. D \in SUBSET Id
    BY IndexerAssumption DEF IndexerAssumption
  <2>3. deps'[n] = D
    BY <1>1, <2>1 DEF G!Upsert
  <2> QED BY <1>2, <1>7, <2>1, <2>2, <2>3 DEF ConcludesFromKnown
<1>8. ASSUME NEW n \in Id, NEW twin \in Id, Merge(n, twin) PROVE G!EvidenceIsKnown'
  <2>1. CASE source \in deps[twin]
    BY <1>3, <1>8, <2>1 DEF Merge, graph
  <2>2. CASE source \notin deps[twin]
    BY <1>4, <1>8, <2>2 DEF Merge, Considered
  <2> QED BY <2>1, <2>2
<1>9. ASSUME NEW m \in Id, Backfill(m) PROVE G!EvidenceIsKnown'
  BY <1>4, <1>9 DEF Backfill, CallInv
<1>10. (\E m \in Id : Dispute(m) \/ Revalidate(m)) \/ Revise \/ Consolidate
         => G!EvidenceIsKnown'
  BY <1>3 DEF Dispute, Revise, Revalidate, Consolidate, G!Contradict, G!Supersede,
              G!Revalidate, G!BeginDrain, G!DrainStep, G!nodeVars
<1>11. (\E e \in Spans : Ingest(e)) \/ (\E n \in Id : SkipKnown(n)) \/ Settle \/ Return
         \/ UNCHANGED vars => G!EvidenceIsKnown'
  BY <1>3 DEF Ingest, SkipKnown, Settle, Return, vars, graph
<1> QED BY <1>5, <1>6, <1>7, <1>8, <1>9, <1>10, <1>11 DEF Next

\* Ingestion admits a span's evidence before any fact that names it, so every
\* correction it makes reaches the evidence of what it corrects, in whatever order
\* texts come; so does one made between conclusions drawn from known evidence.
THEOREM CorrectionsReachSpans ==
    Spec /\ [][ConcludesFromKnown]_vars => []G!CorrectionReachesEvidence
<1>1. Init => G!EvidenceIsKnown
  BY DEF Init, G!Init, G!EvidenceIsKnown
<1>2. IndexerInv /\ G!EvidenceIsKnown /\ [Next]_vars /\ [ConcludesFromKnown]_vars
         => G!EvidenceIsKnown'
  BY EvidenceStaysKnown
<1>3. Spec /\ [][ConcludesFromKnown]_vars => []G!EvidenceIsKnown
  BY <1>1, <1>2, IndexerInvariant, PTL DEF Spec
<1> QED BY <1>3, GraphIsTyped, GraphIsImplemented, G!CorrectionsReachEvidence, PTL
           DEF CallsGraphAsAssumed

\* Between calls two standing claims that disagree both say so, and unless a
\* correction stands one key has one standing value, however claims were
\* ingested, corrected, committed and consolidated.
THEOREM RivalsAccounted == Spec => []RivalsAreAccountedFor
<1>1. IndexerInv => RivalsAreAccountedFor
  <2> SUFFICES ASSUME IndexerInv, Idle PROVE RivalsAreAccountedFor
    BY DEF RivalsAreAccountedFor, DisagreementIsMarked, OneValueUnlessCorrected
  <2>1. rivals = {} /\ AccountInv
    BY DEF IndexerInv, CallInv, Idle
  <2> QED BY <2>1 DEF AccountInv, Untaken, RivalsAreAccountedFor, DisagreementIsMarked,
                     OneValueUnlessCorrected
<1> QED BY <1>1, IndexerInvariant, PTL

\* The retrieval index, kept in step by hand at each call, offers exactly what
\* is not history.
THEOREM IndexAgrees == Spec => []IndexMatchesGraph
<1>1. IndexerInv => IndexMatchesGraph
  BY DEF IndexerInv, IndexInv, IndexMatchesGraph
<1> QED BY <1>1, IndexerInvariant, PTL

\* A correction that stands still stands after a step, unless something is
\* committed, or the step revises it for another correction.
LEMMA CorrectionOutlived ==
    ASSUME IndexerInv, [Next]_vars, ~Concluding, ~Concluding',
           NEW c \in Standing \cap corrective
    PROVE  \E n \in (Standing \cap corrective)' : KeyOf[n] = KeyOf[c]
<1>1. G!TypeOK /\ CallInv /\ RivalsInv /\ IndexerAssumption
  BY IndexerAssumption DEF IndexerInv
<1>2. c \in Id /\ c \in present /\ Kind[c] = "claim" /\ status[c] # "superseded" /\ c \in corrective
  BY <1>1 DEF Standing, G!TypeOK
<1>3. ASSUME UNCHANGED graph PROVE SameHistory
  BY <1>3 DEF graph, SameHistory
<1>4. ASSUME SameHistory, corrective' = corrective PROVE c \in (Standing \cap corrective)'
  BY <1>1, <1>2, <1>4, HistoryKept
<1>5. ASSUME NEW n \in Id, NEW D \in SUBSET Id, G!Upsert(n, D), c \in corrective'
      PROVE  c \in (Standing \cap corrective)'
  BY <1>1, <1>2, <1>5, UpsertEffect DEF Standing
<1>6. CASE AddEvidence
  <2>1. source \in Id /\ c \in corrective'
    BY <1>1, <1>2, <1>6, SpansAreIds DEF AddEvidence, CallInv
  <2> QED BY <1>5, <1>6, <2>1 DEF AddEvidence
<1>7. ASSUME NEW n \in Id, Admit(n) PROVE c \in (Standing \cap corrective)'
  <2>1. PICK L \in Links(n, source) : G!Upsert(n, {source} \cup L)
    BY <1>7 DEF Admit
  <2>2. {source} \cup L \in SUBSET Id /\ c \in corrective'
    BY <1>1, <1>2, <1>7 DEF Admit, Considered, Links, G!TypeOK
  <2> QED BY <1>5, <2>1, <2>2
<1>8. ASSUME NEW n \in Id, Commit(n) PROVE FALSE
  <2>1. node' = n /\ source' = NoId
    BY <1>8 DEF Commit, Idle
  <2> QED BY <1>1, <2>1 DEF Concluding, IndexerAssumption
<1>9. ASSUME NEW m \in Id, Dispute(m) PROVE c \in (Standing \cap corrective)'
  <2>1. node \in Id
    BY <1>1, <1>9 DEF Dispute, CallInv, G!TypeOK
  <2>2. SameHistory /\ corrective' = corrective
    BY <1>1, <1>9, <2>1, ContradictEffect DEF Dispute
  <2> QED BY <1>4, <2>2
<1>10. CASE Revise
  <2>1. /\ node \in Id /\ node \in present /\ status[node] # "superseded"
        /\ contested \in rivals /\ contested \in Id /\ MaySupersede(contested, node)
        /\ Kind[node] = "claim" /\ KeyOf[node] = KeyOf[contested] /\ node # NoId
    BY <1>1, <1>10 DEF Revise, CallInv, RivalsInv, Disagree, G!TypeOK
  <2>2. G!Rivals(contested, node)
    BY <1>1, <2>1 DEF RivalsInv, Disagree, G!Rivals
  <2>3. /\ present' = present /\ contested # node
        /\ \A m \in Id : status'[m] = "superseded" <=> (m = contested \/ status[m] = "superseded")
        /\ corrective' = corrective
    BY <1>1, <1>10, <2>1, <2>2, SupersedeEffect DEF Revise
  <2>4. CASE c # contested
    BY <1>2, <2>3, <2>4 DEF Standing
  <2>5. CASE c = contested
    <3>1. node \in corrective
      BY <1>2, <2>1, <2>5 DEF MaySupersede, Concluding
    <3> QED BY <2>1, <2>3, <2>5, <3>1 DEF Standing
  <2> QED BY <2>4, <2>5
<1>11. ASSUME NEW n \in Id, NEW twin \in Id, Merge(n, twin) PROVE c \in (Standing \cap corrective)'
  BY <1>3, <1>4, <1>11, ReferenceKeepsHistory DEF Merge
<1>12. ASSUME NEW m \in Id, Backfill(m) PROVE c \in (Standing \cap corrective)'
  BY <1>4, <1>12, ReferenceKeepsHistory DEF Backfill
<1>13. ASSUME NEW n \in Id, Revalidate(n) PROVE c \in (Standing \cap corrective)'
  BY <1>1, <1>4, <1>13, RevalidateKeepsHistory DEF Revalidate
<1>14. CASE Consolidate
  BY <1>1, <1>4, <1>14, DrainKeepsHistory DEF Consolidate
<1>15. (\E e \in Spans : Ingest(e)) \/ (\E n \in Id : SkipKnown(n)) \/ Settle \/ Return
         \/ UNCHANGED vars => UNCHANGED graph /\ corrective' = corrective
  BY DEF Ingest, SkipKnown, Settle, Return, vars
<1>16. UNCHANGED graph /\ corrective' = corrective => c \in (Standing \cap corrective)'
  BY <1>3, <1>4
<1> QED BY <1>6, <1>7, <1>8, <1>9, <1>10, <1>11, <1>12, <1>13, <1>14, <1>15, <1>16 DEF Next

\* No plain statement reverts a correction: while a key was corrected, only a
\* conclusion committed over it takes its last correction away.
THEOREM CorrectionsStand == Spec => CorrectionStands
<1> DEFINE Holds(k) == Corrected(k) => Corrected(k)' \/ Concluding \/ Concluding'
<1>1. IndexerInv /\ [Next]_vars => [\A k \in Key : Holds(k)]_vars
  <2> SUFFICES ASSUME IndexerInv, [Next]_vars, NEW k \in Key, Corrected(k),
                      ~Concluding, ~Concluding'
               PROVE  Corrected(k)'
    OBVIOUS
  <2>1. PICK c \in Standing \cap corrective : KeyOf[c] = k
    BY DEF Corrected
  <2>2. \E n \in (Standing \cap corrective)' : KeyOf[n] = k
    BY <2>1, CorrectionOutlived
  <2> QED BY <2>2 DEF Corrected
<1> QED BY <1>1, IndexerInvariant, PTL DEF Spec, CorrectionStands

=============================================================================
