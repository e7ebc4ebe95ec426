----------------------------- MODULE Turn_proofs -----------------------------
(***************************************************************************)
(* What a turn promises about the prompt it sends and the answer it        *)
(* returns, and what it leaves of the graph, for any graph, any hook and   *)
(* any bounds.                                                             *)
(***************************************************************************)
EXTENDS Turn, FiniteSetTheorems, TLAPS

\* The graph as far as a turn reads it, and the drain that runs only before a plan.
GraphShape ==
    /\ present \subseteq Id
    /\ DOMAIN status = Id
    /\ at # "planning" => draining = {}

\* The check has been passed: what the graph has recorded is not in the window.
Untouched == at = "done" /\ retries < MaxRetries => NodesOf(entries) \cap touched = {}

\* What the hook took the ground from is recorded, or put off.
ShakenIsKnown == at \in {"thinking", "done"} => shaken \cap Id \subseteq touched \cup pending

\* Lines are kept only within a working set, and what makes a window entry stale
\* after the plan is recorded.
TurnInv ==
    /\ GraphShape
    /\ NodesOf(entries) \subseteq Id
    /\ retries \in 0 .. MaxRetries
    /\ \A p \in prompt : p.epoch = retries
    /\ WindowIsShown
    /\ at \in {"thinking", "done"} =>
         \A n \in NodesOf(entries) : status[n] = "stale" => n \in escalated \cup touched
    /\ ShakenIsKnown
    /\ Untouched

LEMMA InitTurn == Init => TurnInv
BY TurnAssumption DEF Init, TurnInv, GraphShape, NodesOf, WindowIsShown,
                      ShakenIsKnown, Untouched

\* A plan shows every line it admits, and admits a stale node only on request.
LEMMA PlanShows ==
    ASSUME TurnInv, Plan
    PROVE  TurnInv'
<1>1. /\ \A l \in entries' : /\ l.epoch = retries
                             /\ l.node \in Admissible
      /\ prompt' = prompt \cup Delta(entries')
      /\ at' = "thinking" /\ retries' = retries /\ escalated' = escalated
  BY DEF Plan, Render
<1>2. \A l \in entries' : \E p \in prompt' : Text(p) = Text(l)
  BY <1>1 DEF Delta
<1>3. \A n \in NodesOf(entries') : n \in Id /\ (status[n] = "stale" => n \in escalated)
  BY <1>1 DEF NodesOf, Admissible, Pinned, TurnInv, GraphShape
<1>4. status' = status /\ GraphShape'
  BY <1>1 DEF Plan, G!TakeSnapshot, G!nodeVars, TurnInv, GraphShape
<1>5. \A p \in prompt' : p.epoch = retries'
  BY <1>1 DEF TurnInv, Delta
<1>6. WindowIsShown' /\ Untouched'
  BY <1>1, <1>2 DEF WindowIsShown, Untouched, Text
<1>7. ShakenIsKnown'
  BY DEF Plan, ShakenIsKnown
<1> QED BY <1>1, <1>3, <1>4, <1>5, <1>6, <1>7 DEF TurnInv, NodesOf

-----------------------------------------------------------------------------
\* Whatever the hook calls, a node that becomes stale is one it touched, and one
\* that loses its ground is touched or put off.
Noticed ==
    /\ present' \subseteq Id /\ DOMAIN status' = Id /\ draining' = draining
    /\ touched \subseteq touched' /\ pending \subseteq pending'
    /\ \A n \in Id : status'[n] = "stale" /\ status[n] # "stale" => n \in touched'
    /\ \A n \in Id : n \in shaken' => n \in shaken \cup touched' \cup pending'

LEMMA TouchingNotices ==
    ASSUME GraphShape, NEW E, NEW roots, NEW R, NEW d \in {0, 1}, Touching(E, roots, d),
           R \subseteq roots, \A m : G!Dependents(edges, m) \subseteq G!Dependents(E, m),
           Shaking(R)
    PROVE  /\ touched \subseteq touched' /\ pending \subseteq pending'
           /\ \A n \in Id : status'[n] = "stale" /\ status[n] # "stale" => n \in touched'
           /\ \A n \in Id : n \in shaken' => n \in shaken \cup touched' \cup pending'
<1>1. PICK c \in Made(E, roots, d) : touched' = touched \cup c.marked
  BY DEF Touching, Recorded
<1>2. /\ c \in G!Cascades(E, roots, d, status')
      /\ \A n \in Id : status'[n] = "stale" /\ status[n] # "stale" => n \in c.marked
      /\ pending' = pending \cup c.deferred
  BY <1>1 DEF Made
<1>3. G!IsFiniteSet(present)
  <2>1. IsFiniteSet(present)
    BY TurnAssumption, FS_Subset DEF GraphShape
  <2> QED BY <2>1 DEF IsFiniteSet, G!IsFiniteSet
<1>4. /\ \A n \in roots \cap Id : n \in c.marked \cup G!Skipped(status') \cup c.deferred
      /\ \A m \in c.marked : \A n \in G!Dependents(E, m) \cap Id :
            n \in c.marked \cup G!Skipped(status') \cup c.deferred
  BY <1>2, <1>3, TurnAssumption, G!MetIsReached, Zenon
<1>5. Fell \subseteq c.marked
  BY <1>2 DEF Fell, GraphShape
<1>6. ASSUME NEW n \in Id, n \in Shaken(R)
      PROVE  n \in c.marked \cup c.deferred
  <2>1. status'[n] # "superseded"
        /\ n \in roots \cup c.marked \cup UNION {G!Dependents(E, m) : m \in c.marked}
    BY <1>5, <1>6 DEF Shaken
  <2>2. n \notin G!Skipped(status')
    BY <2>1 DEF G!Skipped
  <2> QED BY <1>4, <2>1, <2>2
<1> QED BY <1>1, <1>2, <1>6 DEF Shaking

LEMMA HookNotices ==
    ASSUME GraphShape, Hook
    PROVE  Noticed
<1>1. ASSUME NEW n \in present, G!Invalidate(n), Touching(edges, {n}, 0), Shaking({n})
      PROVE  Noticed
  <2>1. DOMAIN status' = Id
    BY <1>1 DEF G!Invalidate, G!Stale
  <2>2. present' = present /\ draining' = draining
    BY <1>1 DEF G!Invalidate
  <2> QED BY <1>1, <2>1, <2>2, TouchingNotices DEF Noticed, GraphShape
<1>2. ASSUME NEW old \in present, NEW new \in present, G!Supersede(old, new),
             Touching(edges', G!Dependents(edges', old), 1),
             Shaking(G!Dependents(edges, old))
      PROVE  Noticed
  <2>1. DOMAIN status' = Id
    BY <1>2 DEF G!Supersede, G!Stale
  <2>2. present' = present /\ draining' = draining /\ edges \subseteq edges'
    BY <1>2 DEF G!Supersede
  <2>3. \A m : G!Dependents(edges, m) \subseteq G!Dependents(edges', m)
    BY <2>2 DEF G!Dependents
  <2> QED BY <1>2, <2>1, <2>2, <2>3, TouchingNotices DEF Noticed, GraphShape
<1>3. ASSUME NEW n \in present, NEW D \in DepChoices[n], G!Upsert(n, D),
             Touching(edges, G!Dependents(edges, n), 1), Shaking(G!Dependents(edges, n))
      PROVE  Noticed
  <2>1. DOMAIN status' = Id
    BY <1>3 DEF G!Upsert, G!Stale
  <2>2. present' = present /\ draining' = draining
    BY <1>3 DEF G!Upsert
  <2> QED BY <1>3, <2>1, <2>2, TouchingNotices DEF Noticed, GraphShape
<1>4. ASSUME NEW m \in present, NEW n \in present, G!Contradict(m, n),
             UNCHANGED <<touched, shaken>>
      PROVE  Noticed
  BY <1>4 DEF Noticed, GraphShape, G!Contradict, G!queueVars
<1>5. ASSUME NEW n \in present, G!Revalidate(n), UNCHANGED <<touched, shaken>>
      PROVE  Noticed
  BY <1>5 DEF Noticed, GraphShape, G!Revalidate, G!queueVars
<1> QED BY <1>1, <1>2, <1>3, <1>4, <1>5 DEF Hook

LEMMA HookKeeps ==
    ASSUME TurnInv, Hook
    PROVE  TurnInv'
<1>1. Noticed
  BY HookNotices DEF TurnInv
<1>2. at = "thinking" /\ UNCHANGED turn
  BY DEF Hook
<1>3. GraphShape'
  BY <1>1, <1>2 DEF Noticed, GraphShape, turn, TurnInv
<1>4. \A n \in NodesOf(entries) : status'[n] = "stale" => n \in escalated \cup touched'
  BY <1>1, <1>2 DEF Noticed, TurnInv
<1>5. WindowIsShown' /\ Untouched'
  BY <1>2 DEF TurnInv, WindowIsShown, Untouched, turn, Text
<1>6. ShakenIsKnown'
  BY <1>1, <1>2 DEF Noticed, TurnInv, ShakenIsKnown, turn
<1> QED BY <1>2, <1>3, <1>4, <1>5, <1>6 DEF TurnInv, turn, NodesOf

-----------------------------------------------------------------------------
LEMMA TurnStep == TurnInv /\ [Next]_vars => TurnInv'
<1> SUFFICES ASSUME TurnInv, [Next]_vars PROVE TurnInv'
  OBVIOUS
<1> USE TurnAssumption
<1>1. ASSUME G!BeginDrain(TRUE), at' = "planning" PROVE GraphShape' /\ WindowIsShown'
                                                        /\ ShakenIsKnown' /\ Untouched'
  BY <1>1 DEF TurnInv, GraphShape, WindowIsShown, ShakenIsKnown, Untouched,
              G!BeginDrain, G!nodeVars
<1>2. CASE Ask
  BY <1>1, <1>2 DEF Ask, TurnInv, NodesOf
<1>3. CASE Drain
  <2>1. draining # {} /\ present' = present /\ DOMAIN status' = Id /\ UNCHANGED <<touched, shaken, turn>>
    BY <1>3 DEF Drain, G!DrainStep, G!Stale
  <2>2. at = "planning" /\ at' = "planning"
    BY <2>1 DEF TurnInv, GraphShape, turn
  <2> QED BY <2>1, <2>2 DEF TurnInv, GraphShape, turn, NodesOf, WindowIsShown,
                                   ShakenIsKnown, Untouched
<1>4. CASE Plan
  BY <1>4, PlanShows
<1>5. CASE Hook
  BY <1>5, HookKeeps
<1>6. CASE Discard
  <2>1. retries' \in 0 .. MaxRetries /\ prompt' = {} /\ entries' = entries /\ at' = "planning"
    BY <1>6 DEF Discard, TurnInv
  <2> QED BY <1>1, <1>6, <2>1 DEF Discard, TurnInv, NodesOf
<1>7. CASE \E n \in Id : Escalate(n)
  <2>1. UNCHANGED <<retries, prompt, entries>> /\ at' = "planning" /\ G!BeginDrain(TRUE)
    BY <1>7 DEF Escalate
  <2> QED BY <1>1, <2>1 DEF TurnInv, NodesOf
<1>8. CASE Return
  <2>1. UNCHANGED <<graph, touched, shaken, entries, prompt, escalated, retries>> /\ at' = "done"
        /\ at = "thinking" /\ ~(Falsified /\ retries < MaxRetries)
    BY <1>8 DEF Return, Judged
  <2>2. Untouched'
    BY <2>1 DEF Untouched, Falsified, NodesOf
  <2>3. ShakenIsKnown'
    BY <2>1 DEF TurnInv, ShakenIsKnown, graph
  <2> QED BY <2>1, <2>2, <2>3 DEF TurnInv, GraphShape, graph, WindowIsShown, Text, NodesOf
<1>9. CASE UNCHANGED vars
  BY <1>9 DEF vars, graph, turn, TurnInv, GraphShape, NodesOf, WindowIsShown, Text,
              ShakenIsKnown, Untouched
<1> QED BY <1>2, <1>3, <1>4, <1>5, <1>6, <1>7, <1>8, <1>9 DEF Next

-----------------------------------------------------------------------------
LEMMA TurnInvHolds == Spec => []TurnInv
BY InitTurn, TurnStep, PTL DEF Spec

\* Every line of the window planned is in the prompt sent, whichever of its turns'
\* prompts it was first rendered in (plan_with, ask_with_consolidation).
THEOREM WindowShown == Spec => []WindowIsShown
<1>1. TurnInv => WindowIsShown
  BY DEF TurnInv
<1> QED BY <1>1, TurnInvHolds, PTL

\* An answer given with a retry left shows nothing that lost its ground while the
\* reasoner was asked, but what a bounded cascade has queued: every cascade records,
\* passes on or queues whatever it meets (MetIsReached), and what is recorded is
\* what the answer is checked against (consistency_violation).
THEOREM Unretried == Spec => []UnretriedKeepsItsGround
<1>1. TurnInv => UnretriedKeepsItsGround
  BY DEF TurnInv, ShakenIsKnown, Untouched, UnretriedKeepsItsGround
<1> QED BY <1>1, TurnInvHolds, PTL

\* A discarded working set leaves nothing in a later prompt.
THEOREM DiscardsStick == Spec => []DiscardedNotReused
<1>1. TurnInv => DiscardedNotReused
  BY DEF TurnInv, DiscardedNotReused
<1> QED BY <1>1, TurnInvHolds, PTL

\* What the reasoner is shown is this round's window, all of it and no discard.
THEOREM PromptOfThisRound == Spec => []PromptIsOfThisRound
<1>1. WindowIsShown /\ DiscardedNotReused => PromptIsOfThisRound
  BY DEF PromptIsOfThisRound
<1> QED BY <1>1, WindowShown, DiscardsStick, PTL

\* A stale node an answer rests on was asked for, or is one the check saw when no
\* retry was left.
THEOREM StaleReads == Spec => []StaleReadsExplained
<1>1. TurnInv => StaleReadsExplained
  <2> SUFFICES ASSUME TurnInv, at = "done", NEW n \in NodesOf(entries),
                      status[n] = "stale", n \notin escalated
               PROVE  n \in touched /\ retries = MaxRetries
    BY DEF StaleReadsExplained
  <2>1. n \in touched
    BY DEF TurnInv
  <2>2. ~(retries < MaxRetries)
    BY <2>1 DEF TurnInv, Untouched
  <2> QED BY <2>1, <2>2, TurnAssumption DEF TurnInv
<1> QED BY <1>1, TurnInvHolds, PTL

-----------------------------------------------------------------------------
(* The graph underneath.  A turn calls it as its specification allows, so  *)
(* what every call keeps is kept for as long as turns last.                *)

TurnTyped ==
    /\ TypeOK
    /\ planning <=> at = "planning"
    /\ at # "planning" => draining = {}

LEMMA GraphIsTyped == G!GraphAssumption
  BY TurnAssumption

LEMMA NoGraphCall == ASSUME UNCHANGED graph PROVE UNCHANGED G!vars
  BY DEF graph, G!vars, G!nodeVars, G!queueVars

\* Planning, the hook and the drains are each one call of the graph.
LEMMA StepCallsGraph ==
    ASSUME TurnTyped, [Next]_vars
    PROVE  [G!Next]_(G!vars)
<1>1. /\ at # "planning" => G!Idle
      /\ present \subseteq Id
  BY DEF TurnTyped, G!Idle, TypeOK, G!TypeOK
<1>2. ASSUME G!BeginDrain(TRUE), at # "planning" PROVE G!Next
  BY <1>1, <1>2, Zenon DEF G!Next
<1>3. CASE Ask
  BY <1>2, <1>3 DEF Ask
<1>4. CASE Drain
  BY <1>4, Zenon DEF Drain, G!Next
<1>5. CASE Plan
  BY <1>5, Zenon DEF Plan, G!Next
<1>6. CASE Hook
  <2>1. G!Idle
    BY <1>1, <1>6 DEF Hook
  <2>2. ASSUME NEW n \in present, G!Invalidate(n) PROVE G!Next
    BY <2>1, <2>2, Zenon DEF G!Next
  <2>3. ASSUME NEW old \in present, NEW new \in present, G!Rivals(old, new),
               old \in contradicts[new], G!Supersede(old, new)
        PROVE  G!Next
    <3>1. old \in Id /\ new \in Id
      BY <1>1
    <3> QED BY <2>1, <2>3, <3>1, Zenon DEF G!Next
  <2>4. ASSUME NEW n \in present, NEW D \in DepChoices[n], Kind[n] # "evidence",
               G!Upsert(n, D)
        PROVE  G!Next
    <3>1. n \in G!Offered
      BY <1>1, <2>4 DEF G!Offered
    <3> QED BY <2>1, <2>4, <3>1, Zenon DEF G!Next
  <2>5. ASSUME NEW m \in present, NEW n \in present, G!Rivals(m, n), G!Contradict(m, n)
        PROVE  G!Next
    <3>1. m \in Id /\ n \in Id
      BY <1>1
    <3> QED BY <2>1, <2>5, <3>1, Zenon DEF G!Next
  <2>6. ASSUME NEW n \in present, status[n] = "stale", G!Revalidate(n)
        PROVE  G!Next
    BY <2>1, <2>6, Zenon DEF G!Next
  <2> QED BY <1>6, <2>2, <2>3, <2>4, <2>5, <2>6 DEF Hook
<1>7. CASE Discard
  BY <1>2, <1>7 DEF Discard
<1>8. CASE \E n \in Id : Escalate(n)
  BY <1>2, <1>8 DEF Escalate, Judged
<1>9. CASE Return
  BY <1>9, NoGraphCall DEF Return
<1>10. CASE UNCHANGED vars
  BY <1>10, NoGraphCall DEF vars
<1> QED BY <1>3, <1>4, <1>5, <1>6, <1>7, <1>8, <1>9, <1>10 DEF Next

LEMMA LinesAreLines ==
    ASSUME TypeOK, Plan
    PROVE  entries' \subseteq Line
<1>1. \A n \in Id : Levels(n) \subseteq {"L0", "L2", "L3"}
  BY DEF Levels, Available
<1>2. \A n \in Id, v \in {"L0", "L2", "L3"} : Render(n, v) \in Line
  BY TurnAssumption DEF Render, Line, TypeOK, G!TypeOK
<1>3. entries' \subseteq UNION {{Render(n, v) : v \in Levels(n)} : n \in Admissible}
  BY DEF Plan
<1>4. Admissible \subseteq Id
  BY DEF Admissible, TypeOK, G!TypeOK
<1> QED BY <1>1, <1>2, <1>3, <1>4

LEMMA TypedStep ==
    ASSUME TurnTyped, [Next]_vars
    PROVE  TurnTyped'
<1> USE TurnAssumption
<1>1. G!TypeOK'
  BY StepCallsGraph, GraphIsTyped, G!StepShapes DEF TurnTyped, TypeOK
<1>2. CASE Ask
  BY <1>1, <1>2 DEF Ask, TurnTyped, TypeOK, G!BeginDrain
<1>3. CASE Drain
  BY <1>1, <1>3 DEF Drain, TurnTyped, TypeOK, G!DrainStep, turn
<1>4. CASE Plan
  <2>1. entries' \subseteq Line /\ prompt' \subseteq Line
    BY <1>4, LinesAreLines DEF TurnTyped, TypeOK, Plan, Delta
  <2>2. touched' = {} /\ shaken' = {} /\ at' = "thinking" /\ UNCHANGED <<escalated, escalations, retries, calls>>
    BY <1>4 DEF Plan
  <2>3. planning' = FALSE /\ draining' = {}
    BY <1>4 DEF Plan, G!TakeSnapshot
  <2> QED BY <1>1, <2>1, <2>2, <2>3 DEF TurnTyped, TypeOK
<1>5. CASE Hook
  <2>1. touched' \subseteq Id
    <3>1. ASSUME NEW E, NEW roots, NEW d, Touching(E, roots, d)
          PROVE  touched' \subseteq Id
      <4>1. PICK M \in Recorded(E, roots, d) : touched' = touched \cup M
        BY <3>1 DEF Touching
      <4>2. PICK c \in G!Cascades(E, roots, d, status') : M = c.marked
        BY <4>1 DEF Recorded, Made
      <4>3. M \subseteq present
        BY <4>2, G!CascadeBounds
      <4> QED BY <4>1, <4>3 DEF TurnTyped, TypeOK, G!TypeOK
    <3> QED BY <1>5, <3>1 DEF Hook, TurnTyped, TypeOK
  <2>4. shaken' \subseteq Id
    <3>1. \A n : G!Dependents(edges, n) \subseteq Id
      BY DEF TurnTyped, TypeOK, G!TypeOK, G!Dependents, G!Edge
    <3>2. ASSUME NEW R \in SUBSET Id, Shaking(R)
          PROVE  shaken' \subseteq Id
      BY <3>1, <3>2 DEF Shaking, Shaken, Fell, TurnTyped, TypeOK, G!TypeOK
    <3>3. (\E R \in SUBSET Id : Shaking(R)) \/ shaken' = shaken
      <4>1. \A n \in present : {n} \in SUBSET Id
        BY DEF TurnTyped, TypeOK, G!TypeOK
      <4>2. \A n : G!Dependents(edges, n) \in SUBSET Id
        BY <3>1
      <4> QED BY <1>5, <4>1, <4>2 DEF Hook
    <3> QED BY <3>2, <3>3 DEF TurnTyped, TypeOK
  <2>2. draining' = draining /\ planning' = planning
    BY <1>5 DEF Hook, G!Invalidate, G!Supersede, G!Upsert, G!Contradict, G!Revalidate, G!queueVars
  <2>3. at = "thinking" /\ calls' \in 0 .. MaxCalls /\ UNCHANGED turn
    BY <1>5 DEF Hook, TurnTyped, TypeOK
  <2> QED BY <1>1, <2>1, <2>2, <2>3, <2>4 DEF TurnTyped, TypeOK, turn
<1>6. CASE Discard
  BY <1>1, <1>6 DEF Discard, TurnTyped, TypeOK, G!BeginDrain
<1>7. CASE \E n \in Id : Escalate(n)
  BY <1>1, <1>7 DEF Escalate, Judged, TurnTyped, TypeOK, G!BeginDrain
<1>8. CASE Return
  BY <1>1, <1>8 DEF Return, Judged, TurnTyped, TypeOK, graph
<1>9. CASE UNCHANGED vars
  BY <1>1, <1>9 DEF vars, graph, turn, TurnTyped, TypeOK
<1> QED BY <1>2, <1>3, <1>4, <1>5, <1>6, <1>7, <1>8, <1>9 DEF Next

LEMMA TypedInit == Init => TurnTyped
<1> SUFFICES ASSUME Init PROVE TurnTyped
  OBVIOUS
<1> USE TurnAssumption
<1>1. \A n \in Id : G!BirthStatus(n) \in G!Status
  BY DEF G!BirthStatus, G!Status
<1>2. edges \subseteq G!Edge
  BY DEF Init, G!DependencyEdges, G!Edge, G!EdgeType
<1>3. live \in [Key -> SUBSET Id] /\ status \in [Id -> G!Status]
  BY <1>1 DEF Init
<1>4. G!TypeOK
  BY <1>2, <1>3 DEF Init, G!TypeOK
<1> QED BY <1>4 DEF Init, TurnTyped, TypeOK

\* What every call keeps, and the nodes a turn starts with: its hook admits none.
GraphInv ==
    /\ present = Id
    /\ G!EdgesJoinPresent
    /\ G!LiveIndexExact
    /\ G!SupersededIffCorrected /\ G!CorrectionChainEndsLive
    /\ G!OrphansAreFlagged /\ G!CorrectionIsAnnounced

LEMMA GraphInit == Init => GraphInv
<1> SUFFICES ASSUME Init PROVE GraphInv
  OBVIOUS
<1> USE TurnAssumption
<1>1. \A n \in Id : status[n] # "superseded"
  BY DEF Init, G!BirthStatus
<1>2. present = Id /\ \A n \in Id : supersededBy[n] = NoId
  BY DEF Init
<1>3. G!EdgesJoinPresent
  BY DEF Init, G!EdgesJoinPresent, G!DependencyEdges
<1>4. G!LiveIndexExact
  BY <1>1, <1>2 DEF Init, G!LiveIndexExact, G!ByKey
<1>5. G!SupersededIffCorrected /\ G!CorrectionChainEndsLive
  BY <1>1, <1>2 DEF G!SupersededIffCorrected, G!CorrectionChainEndsLive, G!GraphAssumption
<1>6. G!OrphansAreFlagged
  <2>1. \A n \in Id : G!Dependents(edges, n) \subseteq Id
    BY <1>2, <1>3 DEF G!Dependents, G!EdgesJoinPresent
  <2> QED BY <1>1, <1>2, <2>1 DEF G!OrphansAreFlagged
<1>7. G!CorrectionIsAnnounced
  BY <1>1, <1>2 DEF G!CorrectionIsAnnounced
<1> QED BY <1>2, <1>3, <1>4, <1>5, <1>6, <1>7 DEF GraphInv

LEMMA PresentStays ==
    ASSUME TurnTyped, present = Id, [Next]_vars
    PROVE  present' = Id
<1>1. CASE Hook
  <2>1. \A n \in present : \A D : G!Upsert(n, D) => present' = present
    BY DEF G!Upsert
  <2>2. \A m, n : G!Supersede(m, n) \/ G!Contradict(m, n) => present' = present
    BY DEF G!Supersede, G!Contradict
  <2>3. \A n : G!Invalidate(n) \/ G!Revalidate(n) => present' = present
    BY DEF G!Invalidate, G!Revalidate
  <2> QED BY <1>1, <2>1, <2>2, <2>3 DEF Hook
<1>2. CASE ~Hook
  BY <1>2 DEF Next, Ask, Drain, Plan, Discard, Escalate, Return, graph, vars,
              G!BeginDrain, G!DrainStep, G!TakeSnapshot
<1> QED BY <1>1, <1>2

LEMMA GraphKept ==
    ASSUME TurnTyped, GraphInv, [Next]_vars
    PROVE  GraphInv'
<1>1. G!TypeOK /\ [G!Next]_(G!vars)
  BY StepCallsGraph DEF TurnTyped, TypeOK
<1>2. G!EvidenceIsKnown
  BY <1>1 DEF GraphInv, G!EvidenceIsKnown, G!TypeOK
<1>3. present' = Id
  BY PresentStays DEF GraphInv
<1>4. G!EdgesJoinPresent' /\ G!LiveIndexExact'
  BY <1>1, GraphIsTyped, G!EdgesStayJoined, G!LiveIndexStays DEF GraphInv
<1>5. G!SupersededIffCorrected' /\ G!CorrectionChainEndsLive'
  BY <1>1, GraphIsTyped, G!HistoryStaysNamed, G!CorrectionsStayLive DEF GraphInv
<1>6. G!OrphansAreFlagged' /\ G!CorrectionIsAnnounced'
  BY <1>1, <1>2, GraphIsTyped, G!OrphansStayFlagged, G!CorrectionsStayAnnounced DEF GraphInv
<1> QED BY <1>3, <1>4, <1>5, <1>6 DEF GraphInv

LEMMA TurnsInvHolds == Spec => [](TurnTyped /\ GraphInv)
<1>1. Init => TurnTyped /\ GraphInv
  BY TypedInit, GraphInit
<1>2. (TurnTyped /\ GraphInv) /\ [Next]_vars => (TurnTyped /\ GraphInv)'
  BY TypedStep, GraphKept
<1> QED BY <1>1, <1>2, PTL DEF Spec

\* Lines, counters and the graph keep their types, the graph is being planned over
\* exactly while a turn plans, and every drain ends before the prompt is built.
THEOREM TypeCorrect == Spec => []TurnTyped
  BY TurnsInvHolds, PTL

\* While turns plan, are discarded and escalate, and their hooks call the graph, it
\* stays what planning relies on: its live index is exact, its corrections lead to
\* nodes that hold and have reached the evidence they correct, and no cascade
\* forgets a dependent, each step being a call its specification allows.
THEOREM GraphHoldsInTurns ==
    Spec => /\ [][G!Next]_(G!vars)
            /\ [](G!LiveIndexExact /\ G!CorrectionsAreKept /\ G!CorrectionReachesEvidence)
            /\ G!CascadeReachesDependents
<1>1. GraphInv => /\ G!LiveIndexExact /\ G!CorrectionsAreKept
                  /\ G!CorrectionReachesEvidence
  BY DEF GraphInv, G!CorrectionsAreKept, G!CorrectionReachesEvidence
<1>2. TurnTyped /\ [Next]_vars => [G!Next]_(G!vars)
  BY StepCallsGraph
<1>3. TurnTyped /\ GraphInv /\ [Next]_vars =>
         [\A d \in present :
             \/ status'[d] # status[d] /\ status'[d] \in {"stale", "superseded"}
             \/ deps[d] \ deps'[d] # {}
             => \A s \in G!Dependents(edges, d) :
                \/ Kind[s] = "evidence"
                \/ status'[s] \in {"stale", "superseded"}
                \/ s \in pending' \cup draining']_(G!vars)
  <2> SUFFICES ASSUME TurnTyped, GraphInv, [Next]_vars
               PROVE  [G!Reaches]_(G!vars)
    BY DEF G!Reaches, G!Changes, G!Told
  <2>1. G!TypeOK /\ [G!Next]_(G!vars)
    BY StepCallsGraph DEF TurnTyped, TypeOK
  <2>2. G!PresentFinite
    BY TurnAssumption DEF GraphInv, G!PresentFinite, IsFiniteSet, G!IsFiniteSet
  <2> QED BY <2>1, <2>2, GraphIsTyped, G!StepReaches
<1> QED BY <1>1, <1>2, <1>3, TurnsInvHolds, PTL DEF Spec, G!CascadeReachesDependents
=============================================================================
