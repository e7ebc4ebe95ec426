---------------------------- MODULE StateIndexer ----------------------------
(***************************************************************************)
(* The calls that put facts into the memory graph: ingestion (indexer.rs)  *)
(* and commit_fact (runtime.rs).  A call is a sequence of graph calls: it  *)
(* admits a node, lets older facts refer to it, then takes its rivals one  *)
(* by one, disputing each and superseding it when it may.  The retrieval   *)
(* index is kept in step by hand.                                          *)
(*                                                                         *)
(* The graph is MemoryGraph, whose actions are the graph calls used here.  *)
(* A span is named by its evidence node.  Texts are constants: what a span *)
(* states, whether as a correction, and which keys a fact mentions.        *)
(***************************************************************************)
EXTENDS Naturals, FiniteSets, Sequences

CONSTANTS
    Id, Kind, Key, KeyOf, Sourced, Mentions, MaxCascade, MaxDepth, DrainLimit,
    NoKey, NoId,                       \* as in MemoryGraph
    ValueOf,       \* ValueOf[n]: the value hashed into n, up to case
    Extracted,     \* Extracted[e]: the facts the extractor finds in e's span
    Corrections,   \* facts stated as corrections
    CommitDeps,    \* CommitDeps[n]: the dependencies n may be committed with
    SupersedeOnConflict

VARIABLES
    present, status, deps, edges, live, contradicts, supersededBy, orphaned,
    correctedBy, drifted, pending, draining, planning,   \* the graph
    indexed,       \* nodes in the retrieval index
    corrective,    \* meta.corrective
    source,        \* the span being ingested, or NoId
    todo,          \* its facts still to be admitted
    node,          \* the fact whose references and rivals are being seen to
    rivals,        \* conflicts computed before it was admitted, still to take
    contested      \* the rival it has disputed and may supersede, or NoId

graph == <<present, status, deps, edges, live, contradicts, supersededBy, orphaned,
           correctedBy, drifted, pending, draining, planning>>
call  == <<source, todo, node, rivals, contested>>
vars  == <<graph, indexed, corrective, call>>

SameFact(m, n) == Kind[m] = Kind[n] /\ KeyOf[m] = KeyOf[n] /\ ValueOf[m] = ValueOf[n]

Spans == {e \in Id : Kind[e] = "evidence"}
Facts(e) == {Extracted[e][i] : i \in DOMAIN Extracted[e]}

\* The graph, with what is proved of it.
G == INSTANCE MemoryGraph_proofs WITH
        DepChoices <- [n \in Id |-> SUBSET Id],
        Restated <- [n \in Id |-> {e \in Spans : \E m \in Facts(e) : SameFact(m, n)}]

\* What is found in a span are facts, and what is committed is a conclusion:
\* only evidence_node() makes evidence.
ASSUME IndexerAssumption ==
    /\ Kind \in [Id -> G!Kinds]
    /\ KeyOf \in [Id -> Key \cup {NoKey}] /\ NoKey \notin Key
    /\ NoId \notin Id
    /\ Sourced \subseteq Id /\ Mentions \in [Id -> SUBSET Id]
    /\ {MaxCascade, MaxDepth, DrainLimit} \subseteq Nat \ {0}
    /\ Extracted \in [Id -> Seq(Id)]
    /\ Corrections \subseteq Id
    /\ CommitDeps \in [Id -> SUBSET SUBSET Id]
    /\ \A n \in Id : CommitDeps[n] # {} => Kind[n] # "evidence"
    /\ SupersedeOnConflict \in BOOLEAN

-----------------------------------------------------------------------------
\* duplicate(): a fresh node that asserts the same.
Twins(n) == {m \in present \ {n} : status[m] = "fresh" /\ SameFact(m, n)}

\* conflicts(): claims of the key that are not history and differ in value.
ConflictsIfFresh(n) ==
    {m \in present \ {n} : /\ Kind[n] = "claim" /\ Kind[m] = "claim"
                           /\ KeyOf[n] # NoKey /\ KeyOf[m] = KeyOf[n]
                           /\ status[m] = "fresh"
                           /\ ValueOf[m] # ValueOf[n]}
Conflicts(n) ==
    {m \in present \ {n} : /\ Kind[n] = "claim" /\ Kind[m] = "claim"
                           /\ KeyOf[n] # NoKey /\ KeyOf[m] = KeyOf[n]
                           /\ status[m] # "superseded"
                           /\ ValueOf[m] # ValueOf[n]}

\* reference_links(): up to three fresh claims, from other spans, it mentions.
Links(n, e) ==
    LET found == {m \in present \cap Mentions[n] :
                    /\ Kind[m] = "claim" /\ status[m] = "fresh" /\ KeyOf[m] # NoKey
                    /\ e \notin deps[m]}
    IN  {L \in SUBSET found :
           Cardinality(L) = IF Cardinality(found) < 3 THEN Cardinality(found) ELSE 3}

\* backfill_references(): fresh claims that mention it and do not depend on it.
Mentioners(n) ==
    {m \in present \ {n} : /\ Kind[m] = "claim" /\ Kind[n] = "claim"
                           /\ status[m] = "fresh" /\ n \in Mentions[m] \ deps[m]}

MaySupersedeAlways(old, new) == SupersedeOnConflict
MaySupersede(old, new) ==
    SupersedeOnConflict /\ (old \notin corrective \/ new \in corrective \/ source = NoId)

Idle == source = NoId /\ node = NoId /\ draining = {}

Init ==
    /\ G!Init
    /\ indexed = {} /\ corrective = {}
    /\ source = NoId /\ todo = <<>> /\ node = NoId /\ rivals = {} /\ contested = NoId

\* ingest() of a text of one span.
Ingest(e) ==
    /\ Idle /\ Extracted[e] # <<>>
    /\ source' = e /\ todo' = Extracted[e]
    /\ UNCHANGED <<graph, indexed, corrective, node, rivals, contested>>

\* evidence_node(): once per span.
AddEvidenceAgain ==
    /\ source # NoId /\ todo # <<>> /\ node = NoId
    /\ G!Upsert(source, {})
    /\ indexed' = indexed \cup {source}
    /\ UNCHANGED <<corrective, call>>
AddEvidence ==
    /\ source # NoId /\ source \notin present /\ todo # <<>>
    /\ G!Upsert(source, {})
    /\ indexed' = indexed \cup {source}
    /\ UNCHANGED <<corrective, call>>

Considered(n) == /\ source \in present /\ node = NoId
                 /\ todo # <<>> /\ n = Head(todo)

\* admit(): the same fact of the same span...
SkipKnown(n) ==
    /\ Considered(n) /\ n \in present
    /\ todo' = Tail(todo)
    /\ UNCHANGED <<graph, indexed, corrective, source, node, rivals, contested>>

\* ...a fact already known from elsewhere, which gains a source...
Merge(n, twin) ==
    /\ Considered(n) /\ n \notin present /\ twin \in Twins(n)
    /\ IF source \in deps[twin] THEN UNCHANGED graph ELSE G!Corroborate(twin, source)
    /\ indexed' = indexed \cup {twin}
    /\ todo' = Tail(todo)
    /\ UNCHANGED <<corrective, source, node, rivals, contested>>

\* ...or a new fact, its rivals found before it is admitted.
Admit(n) ==
    /\ Considered(n) /\ n \notin present /\ Twins(n) = {}
    /\ \E L \in Links(n, source) : G!Upsert(n, {source} \cup L)
    /\ indexed' = indexed \cup {n}
    /\ corrective' = IF n \in Corrections THEN corrective \cup {n} ELSE corrective
    /\ node' = n /\ rivals' = Conflicts(n)
    /\ todo' = Tail(todo)
    /\ UNCHANGED <<source, contested>>

\* commit_fact(): a settled conclusion, admitted again if it is known already.
Commit(n) ==
    /\ Idle
    /\ \E D \in CommitDeps[n] : G!Grounded(n, D) /\ G!Upsert(n, D)
    /\ indexed' = indexed \cup {n}
    /\ corrective' = corrective \ {n}
    /\ node' = n /\ rivals' = Conflicts(n)
    /\ UNCHANGED <<source, todo, contested>>

Backfill(m) ==
    /\ node # NoId /\ source # NoId /\ m \in Mentioners(node)
    /\ G!Refer(m, node)
    /\ UNCHANGED <<indexed, corrective, call>>

\* The rivals, one by one: a dispute, and a revision unless a plain statement
\* would undo a correction.
Dispute(other) ==
    /\ node # NoId /\ (source # NoId => Mentioners(node) = {})
    /\ contested = NoId /\ other \in rivals
    /\ G!Contradict(node, other)
    /\ IF MaySupersede(other, node)
       THEN contested' = other /\ UNCHANGED rivals
       ELSE rivals' = rivals \ {other} /\ UNCHANGED contested
    /\ UNCHANGED <<indexed, corrective, source, todo, node>>

ReviseUnindexed ==
    /\ contested # NoId
    /\ G!Supersede(contested, node)
    /\ rivals' = rivals \ {contested} /\ contested' = NoId
    /\ UNCHANGED <<indexed, corrective, source, todo, node>>
Revise ==
    /\ contested # NoId
    /\ G!Supersede(contested, node)
    /\ indexed' = indexed \ {contested}
    /\ rivals' = rivals \ {contested} /\ contested' = NoId
    /\ UNCHANGED <<corrective, source, todo, node>>

Settle ==
    /\ node # NoId /\ (source # NoId => Mentioners(node) = {})
    /\ rivals = {}
    /\ node' = NoId
    /\ UNCHANGED <<graph, indexed, corrective, source, todo, rivals, contested>>

Return ==
    /\ source # NoId /\ todo = <<>> /\ node = NoId
    /\ source' = NoId
    /\ UNCHANGED <<graph, indexed, corrective, todo, node, rivals, contested>>

\* Dcr::revalidate and consolidate between calls.
Revalidate(n) ==
    /\ Idle /\ n \in present /\ status[n] = "stale"
    /\ G!Revalidate(n)
    /\ indexed' = indexed \cup {n}
    /\ UNCHANGED <<corrective, call>>

Consolidate ==
    /\ \/ Idle /\ pending # {} /\ G!BeginDrain(FALSE)
       \/ G!DrainStep
    /\ UNCHANGED <<indexed, corrective, call>>

Next ==
    \/ \E e \in Spans : Ingest(e)
    \/ AddEvidence
    \/ \E n \in Id : SkipKnown(n) \/ Admit(n) \/ Commit(n)
    \/ \E n, twin \in Id : Merge(n, twin)
    \/ \E m \in Id : Backfill(m) \/ Dispute(m)
    \/ Revise \/ Settle \/ Return
    \/ \E n \in Id : Revalidate(n)
    \/ Consolidate

Spec == Init /\ [][Next]_vars

-----------------------------------------------------------------------------
TypeOK ==
    /\ G!TypeOK
    /\ indexed \subseteq Id /\ corrective \subseteq Id
    /\ source \in Spans \cup {NoId} /\ todo \in Seq(Id)
    /\ node \in Id \cup {NoId} /\ rivals \subseteq Id
    /\ contested \in rivals \cup {NoId}

\* The graph is only ever called the way its invariants assume: never two nodes
\* in dispute that are not different live claims of one key, no evidence
\* admitted twice, no revision of history.
CallsGraphAsAssumed == G!Spec

Standing == {n \in present : Kind[n] = "claim" /\ status[n] # "superseded"}
Disagree(n, m) == KeyOf[n] # NoKey /\ KeyOf[n] = KeyOf[m] /\ ValueOf[n] # ValueOf[m]

\* Between calls, two standing claims that disagree both say so: no order of
\* ingestion, correction, commitment and cascade loses a disagreement.
DisagreementIsMarked ==
    Idle => \A n, m \in Standing : Disagree(n, m) => m \in contradicts[n]

\* Between calls, one key has one standing value, unless a correction stands.
OneValueUnlessCorrected ==
    Idle /\ SupersedeOnConflict =>
        \A n, m \in Standing : Disagree(n, m) => {n, m} \cap corrective # {}

\* Once a key was corrected some correction stands: however many plain statements
\* are ingested and whatever is consolidated, none reverts it.  Only a conclusion
\* committed over it may.
Corrected(k) == \E n \in Standing \cap corrective : KeyOf[n] = k
Concluding == source = NoId /\ node # NoId
CorrectionStands ==
    [][\A k \in Key : Corrected(k) => Corrected(k)' \/ Concluding \/ Concluding']_vars

\* What ingestion and commitment owe a key with rival values.
RivalsAreAccountedFor == DisagreementIsMarked /\ OneValueUnlessCorrected

\* The index offers exactly what is not history, except inside a call.
IndexMatchesGraph ==
    Idle => indexed = {n \in present : status[n] # "superseded"}

-----------------------------------------------------------------------------
(* Statements of the source that the code does not keep.                   *)

\* graph.rs:379: "Return a node to `fresh` once nothing live contradicts it any
\* more."  Only the survivor of a revision is looked at again.
DisputeNeedsOpponent ==
    Idle => \A n \in present : status[n] = "contradicted" =>
                \E m \in contradicts[n] \cap present : G!IsLive(status[m])
=============================================================================
