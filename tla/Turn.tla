-------------------------------- MODULE Turn --------------------------------
(***************************************************************************)
(* One turn of the runtime (ask_with_consolidation, runtime.rs): plan a    *)
(* window over the memory graph, send it, and while the reasoner thinks    *)
(* let the consolidation hook change the graph underneath.  What comes     *)
(* back is discarded and planned again if the window was invalidated       *)
(* meanwhile, extended by the node the reasoner asks for, or returned.     *)
(*                                                                         *)
(* The graph is MemoryGraph, whose actions are the calls the hook may      *)
(* make.  What relevance, the caps and the budget pick is left open: any   *)
(* set of admissible nodes, each once and at one level.                    *)
(***************************************************************************)
EXTENDS Naturals, FiniteSets

CONSTANTS
    Id, Kind, Key, KeyOf, Sourced, DepChoices, MaxCascade, MaxDepth,
    DrainLimit, NoKey, NoId,           \* as in MemoryGraph
    InitDeps,          \* InitDeps[n]: what n was derived from before the turn
    AutoEscalate,      \* the runtime may infer an escalation
    MaxEscalations,    \* max_escalations
    MaxRetries,        \* consistency_retries allowed: 1
    MaxCalls           \* bound on the hook's graph calls explored

VARIABLES
    present, status, deps, edges, live, contradicts, supersededBy, orphaned,
    correctedBy, drifted, pending, draining, planning,   \* the graph
    touched,       \* invalidated_since the snapshot of the last plan
    shaken,        \* history: what the hook took the ground from since that plan
    at,            \* "idle", "planning", "thinking" or "done"
    entries,       \* context.entries, as the lines they are rendered to
    prompt,        \* lines sent, or kept for the next prompt to append to
    escalated,     \* nodes escalated this turn: pinned, and forced to L0
    escalations, retries,
    calls          \* graph calls the hook has made, in all turns

graph == <<present, status, deps, edges, live, contradicts, supersededBy, orphaned,
           correctedBy, drifted, pending, draining, planning>>
turn  == <<at, entries, prompt, escalated, escalations, retries>>
vars  == <<graph, touched, shaken, turn, calls>>

\* The graph, with what is proved of it.
G == INSTANCE MemoryGraph_proofs WITH
        Restated <- [n \in Id |-> {}],
        Mentions <- [n \in Id |-> {}]

\* A turn starts over a finite graph of well-formed nodes.
ASSUME TurnAssumption ==
    /\ G!GraphAssumption
    /\ IsFiniteSet(Id)
    /\ InitDeps \in [Id -> SUBSET Id]
    /\ AutoEscalate \in BOOLEAN
    /\ {MaxEscalations, MaxRetries, MaxCalls} \subseteq Nat

\* A line names its node and level; at L2 it also shows the status.  Whole lines are
\* compared, so the rest of what a line says is left out.  The epoch is the number
\* of working sets the turn had discarded when it was rendered.
Line == [node : Id, level : {"L0", "L2", "L3"}, status : G!Status, epoch : Nat]
Text(l) == IF l.level = "L2" THEN <<l.node, l.level, l.status>> ELSE <<l.node, l.level>>
Render(n, level) == [node |-> n, level |-> level, status |-> status[n], epoch |-> retries]

NodesOf(L) == {l.node : l \in L}

-----------------------------------------------------------------------------
\* pinned(): what was asked for by name, and goals and constraints (by_kind
\* takes fresh nodes only).
Pinned == escalated \cup {n \in present : Kind[n] \in {"goal", "constraint"}
                                          /\ status[n] = "fresh"}

\* seed(), expand() and the scoring loop: never history, never the evidence of
\* history, and a stale node only if it is pinned.
AdmissibleUnlessHistory == {n \in present \ orphaned : status[n] # "superseded"}
Admissible ==
    {n \in present \ orphaned :
        status[n] # "superseded" /\ (status[n] = "stale" => n \in Pinned)}

\* Ladder::available, or the level an escalation forces where there is one.  L1 is
\* for long spans only, and shows no more of the state than L0.
Available(n) ==
    LET spans == n \in Sourced /\ Kind[n] # "skill"
    IN  {"L2"} \cup (IF spans THEN {"L0"} ELSE {})
              \cup (IF Kind[n] = "calculation" THEN {"L3"} ELSE {})
Levels(n) == IF n \in escalated /\ "L0" \in Available(n) THEN {"L0"} ELSE Available(n)

\* What relevance, the candidate cap and the budget leave: a node once, at one level.
Window(W) == \A x, y \in W : x.node = y.node => x = y

\* Lines the prompt does not have yet.
DeltaByNode(W) == {l \in W : \A p \in prompt : p.node # l.node}
Delta(W) == {l \in W : \A p \in prompt : Text(p) # Text(l)}

Init ==
    /\ present = Id
    /\ status = [n \in Id |-> G!BirthStatus(n)]
    /\ deps = InitDeps
    /\ edges = UNION {G!DependencyEdges(n, InitDeps[n]) : n \in Id}
    /\ live = [k \in Key |-> {n \in Id : KeyOf[n] = k}]
    /\ contradicts = [n \in Id |-> {}]
    /\ supersededBy = [n \in Id |-> NoId]
    /\ orphaned = {} /\ drifted = {}
    /\ correctedBy = [n \in Id |-> {}]
    /\ pending = {} /\ draining = {} /\ planning = FALSE
    /\ touched = {} /\ shaken = {} /\ calls = 0
    /\ at = "idle" /\ entries = {} /\ prompt = {}
    /\ escalated = {} /\ escalations = 0 /\ retries = 0

Ask ==
    /\ at \in {"idle", "done"}
    /\ G!BeginDrain(TRUE)
    /\ at' = "planning" /\ entries' = {} /\ prompt' = {}
    /\ escalated' = {} /\ escalations' = 0 /\ retries' = 0
    /\ UNCHANGED <<touched, shaken, calls>>

Drain == G!DrainStep /\ UNCHANGED <<touched, shaken, turn, calls>>

\* plan() over the graph as the drain left it, and the prompt: the full rendering
\* when nothing is kept, else what is kept and the lines it lacks.
Plan ==
    /\ G!TakeSnapshot
    /\ touched' = {} /\ shaken' = {}
    /\ entries' \in {W \in SUBSET UNION {{Render(n, v) : v \in Levels(n)} : n \in Admissible} :
                        Window(W)}
    /\ prompt' = prompt \cup Delta(entries')
    /\ at' = "thinking"
    /\ UNCHANGED <<escalated, escalations, retries, calls>>

-----------------------------------------------------------------------------
\* The cascades from roots that account for the new statuses and the new queue, and
\* what each pushes on invalidated_since: all that it marked.
Made(E, roots, d) ==
    {c \in G!Cascades(E, roots, d, status') :
        /\ \A n \in c.marked : Kind[n] = "evidence" \/ status'[n] = "stale"
        /\ \A n \in Id : status'[n] = "stale" /\ status[n] # "stale" => n \in c.marked
        /\ pending' = pending \cup c.deferred}
RecordedUnlessEvidence(E, roots, d) ==
    {{n \in c.marked : Kind[n] # "evidence"} : c \in Made(E, roots, d)}
Recorded(E, roots, d) == {c.marked : c \in Made(E, roots, d)}

Touching(E, roots, d) == touched' \in {touched \cup M : M \in Recorded(E, roots, d)}

\* What a call takes the ground from, told by its effect and not by what it recorded:
\* the nodes the cascade starts at, those that went stale, and what depends on them.
\* History has no ground to lose.
Fell == {n \in present : status'[n] = "stale" /\ status[n] # "stale"}
Shaken(roots) ==
    {n \in roots \cup Fell \cup UNION {G!Dependents(edges, m) : m \in Fell} :
        status'[n] # "superseded"}
Shaking(roots) == shaken' = shaken \cup Shaken(roots)

\* The hook calls the graph, between the prompt and the check.
Hook ==
    /\ at = "thinking" /\ calls < MaxCalls
    /\ \/ \E n \in present :
             G!Invalidate(n) /\ Touching(edges, {n}, 0) /\ Shaking({n})
       \/ \E old, new \in present :
             /\ G!Rivals(old, new) /\ old \in contradicts[new]
             /\ G!Supersede(old, new)
             /\ Touching(edges', G!Dependents(edges', old), 1)
             /\ Shaking(G!Dependents(edges, old))
       \/ \E n \in present : \E D \in DepChoices[n] :
             /\ Kind[n] # "evidence" /\ (D # deps[n] \/ n \in drifted)
             /\ G!Upsert(n, D) /\ Touching(edges, G!Dependents(edges, n), 1)
             /\ Shaking(G!Dependents(edges, n))
       \/ /\ \/ \E m, n \in present : G!Rivals(m, n) /\ G!Contradict(m, n)
             \/ \E n \in present : status[n] = "stale" /\ G!Revalidate(n)
          /\ UNCHANGED <<touched, shaken>>
    /\ calls' = calls + 1
    /\ UNCHANGED turn

\* consistency_violation(): something in the window was invalidated.
Falsified == NodesOf(entries) \cap touched # {}

\* The working set is discarded and the prompt with it.
Discard ==
    /\ at = "thinking" /\ Falsified /\ retries < MaxRetries
    /\ retries' = retries + 1
    /\ prompt' = {}
    /\ at' = "planning"
    /\ G!BeginDrain(TRUE)
    /\ UNCHANGED <<touched, shaken, entries, escalated, escalations, calls>>

Judged == at = "thinking" /\ ~(Falsified /\ retries < MaxRetries)

\* What may be asked for: any node, by its id, or, inferred, one of the window
\* that is not shown in full.
Requestable(n) ==
    \/ n \in present
    \/ AutoEscalate /\ n \notin escalated /\ Kind[n] # "skill"
       /\ \E l \in entries : l.node = n /\ l.level # "L0"

EscalateUncounted(n) ==
    /\ Judged /\ Requestable(n) /\ escalations < MaxEscalations
    /\ escalated' = escalated \cup {n}
    /\ at' = "planning"
    /\ G!BeginDrain(TRUE)
    /\ UNCHANGED <<touched, shaken, entries, prompt, escalations, retries, calls>>
Escalate(n) ==
    /\ Judged /\ Requestable(n) /\ escalations < MaxEscalations
    /\ escalated' = escalated \cup {n}
    /\ escalations' = escalations + 1
    /\ at' = "planning"
    /\ G!BeginDrain(TRUE)
    /\ UNCHANGED <<touched, shaken, entries, prompt, retries, calls>>

\* The answer, or the refusal of a request that cannot be served.
Return ==
    /\ Judged
    /\ at' = "done"
    /\ UNCHANGED <<graph, touched, shaken, entries, prompt, escalated, escalations,
                   retries, calls>>

Next == Ask \/ Drain \/ Plan \/ Hook \/ Discard \/ (\E n \in Id : Escalate(n)) \/ Return

\* A turn is straight-line code around two calls, the reasoner's and the hook's,
\* which are taken to come back.
Spec ==
    Init /\ [][Next]_vars
         /\ WF_vars(Drain) /\ WF_vars(Plan)
         /\ WF_vars(Discard \/ (\E n \in Id : Escalate(n)) \/ Return)
-----------------------------------------------------------------------------
TypeOK ==
    /\ G!TypeOK
    /\ touched \subseteq Id /\ shaken \subseteq Id
    /\ at \in {"idle", "planning", "thinking", "done"}
    /\ entries \subseteq Line /\ prompt \subseteq Line
    /\ escalated \subseteq Id
    /\ escalations \in 0 .. MaxEscalations
    /\ retries \in 0 .. MaxRetries
    /\ calls \in 0 .. MaxCalls

\* What the planner admitted is what the reasoner was shown, also when the prompt
\* is the previous one extended: a node shown again at a richer level, or in
\* another status, is shown again.
WindowIsShown ==
    at \in {"thinking", "done"} =>
        \A l \in entries : \E p \in prompt : Text(p) = Text(l)

\* An answer given while a retry was left keeps the ground its window stood on: of
\* what any of the hook's calls invalidated, passed through, or left without
\* something it depends on, it shows only what a bounded cascade has put off.
UnretriedKeepsItsGround ==
    at = "done" /\ retries < MaxRetries => NodesOf(entries) \cap shaken \subseteq pending

\* Nothing rendered before a discard is shown after it.
DiscardedNotReused ==
    at \in {"thinking", "done"} => \A p \in prompt : p.epoch = retries

\* The prompt shows what this round admitted and nothing that was discarded.
PromptIsOfThisRound == WindowIsShown /\ DiscardedNotReused

\* The stale nodes an answer rests on were asked for by name, or went stale
\* after the plan in a turn that had spent its retry.
StaleReadsExplained ==
    at = "done" =>
        \A n \in NodesOf(entries) :
            status[n] = "stale" => \/ n \in escalated
                                   \/ n \in touched /\ retries = MaxRetries

\* Every turn is answered: discards and escalations together come to an end.
TurnEnds == at = "planning" ~> at = "done"

-----------------------------------------------------------------------------
(* Statements of the documentation that the code does not keep.            *)

\* failure-modes.md:171: "the answer is not returned if it rests on state that no
\* longer holds".  Only cascades are recorded, so a node superseded meanwhile is
\* not noticed, and only one violation is acted on.
AnswerStillHolds ==
    at = "done" => \A l \in entries : G!IsLive(l.status) => G!IsLive(status[l.node])
=============================================================================
