------------------------------- MODULE Planner -------------------------------
(***************************************************************************)
(* The relevance planner (planner.rs) over the memory graph: a query seeds *)
(* it with the index's hits, edges carry it from the seeds to their        *)
(* neighbourhood, goals and constraints join whether or not anything       *)
(* reached them, what may not be believed is dropped, and the budget picks *)
(* one level for each node it can afford.                                  *)
(*                                                                         *)
(* What a text is about and how many tokens it takes are constants, what   *)
(* the index finds is an input.  One call plans; between two the graph     *)
(* changes as its callers change it.                                       *)
(***************************************************************************)
EXTENDS Budget

CONSTANTS
    Id, Kind, Key, KeyOf, Sourced, DepChoices, MaxCascade, DrainLimit,
    NoKey, NoId,        \* as in MemoryGraph
    GraphDepth,         \* MemoryGraph's MaxDepth, explain()'s too
    InitDeps,           \* InitDeps[n]: what n was derived from before the plans
    Order,              \* the ids in the order of their indices
    Long,               \* nodes whose spans are over 40 tokens
    Cost,               \* Cost[n][level]: tokens of n rendered at the level
    Worth,              \* Worth[n]: base utility
    SeedHits, SpanHits, \* what a search may return: sequences of nodes, best first
    Queries, Budgets, Pins,          \* inputs of plan(): types, tokens, escalated nodes
    MaxDepth, MaxFanout, MaxCandidates,        \* and MaxDpBuckets, of Budget
    MaxChanges,         \* bound on the graph calls explored
    NoPlan

VARIABLES
    present, status, deps, edges, live, contradicts, supersededBy, orphaned,
    correctedBy, drifted, pending, draining, planning,   \* the graph
    window,             \* the ActiveContext of the last plan of this graph
    changes             \* graph calls made

graph == <<present, status, deps, edges, live, contradicts, supersededBy, orphaned,
           correctedBy, drifted, pending, draining, planning>>
vars  == <<graph, window, changes>>

G == INSTANCE MemoryGraph WITH
        MaxDepth <- GraphDepth,
        Restated <- [n \in Id |-> {}],
        Mentions <- [n \in Id |-> {}]

\* The classes of query (policy.rs).
QueryType == {"quote_exact", "value_lookup", "justify", "recompute", "summarize", "open"}

ASSUME PlannerAssumption ==
    /\ Queries \subseteq QueryType
    /\ IsFiniteSet(Id)
    /\ Order \in [1 .. Cardinality(Id) -> Id] /\ ToSet(Order) = Id
    /\ Cost \in [Id -> [{"L0", "L1", "L2", "L3"} -> Nat \ {0}]]
    /\ Worth \in [Id -> Nat \ {0}]
    /\ Budgets \subseteq Nat /\ Pins \subseteq SUBSET Id
    /\ \A hits \in SeedHits \cup SpanHits : hits \in Seq(Id)
    /\ {MaxDpBuckets, MaxCandidates} \subseteq Nat \ {0}
    /\ {GraphDepth, MaxDepth, MaxFanout, MaxChanges} \subseteq Nat

-----------------------------------------------------------------------------
(* The decision policy (policy.rs).                                        *)

\* QueryType::routing: preferred levels, cheapest sufficient first.
Routing(q) ==
    CASE q = "quote_exact" -> <<"L0", "L1", "L2">>
      [] q = "recompute"   -> <<"L3", "L2", "L0">>
      [] q = "summarize"   -> <<"L1", "L2", "L0">>
      [] OTHER             -> <<"L2", "L1", "L0">>

\* level_fit, in twentieths.
Fit(q, level) ==
    LET at(l0, l1, l2, l3) == CASE level = "L0" -> l0 [] level = "L1" -> l1
                                [] level = "L2" -> l2 [] OTHER -> l3
    IN  CASE q = "quote_exact"  -> at(20, 11, 7, 8)
          [] q = "value_lookup" -> at(17, 16, 20, 18)
          [] q = "justify"      -> at(18, 17, 19, 18)
          [] q = "recompute"    -> at(14, 10, 16, 20)
          [] q = "summarize"    -> at(14, 20, 17, 12)
          [] OTHER              -> at(14, 17, 20, 16)

\* Ladder::available, cheapest first.
Available(n) ==
    LET spans == n \in Sourced /\ Kind[n] # "skill"
        has(v) == CASE v = "L2" -> TRUE
                    [] v = "L1" -> spans /\ n \in Long
                    [] v = "L3" -> Kind[n] = "calculation"
                    [] OTHER    -> spans
    IN  Among(<<"L2", "L1", "L3", "L0">>, {v \in {"L0", "L1", "L2", "L3"} : has(v)})

Preferred(n, q) ==
    Head(Among(Routing(q), ToSet(Available(n))) \o Available(n))

PinnedKindsOfQuery(q) ==
    CASE q = "justify" -> {"decision"} [] q = "recompute" -> {"calculation"}
      [] q = "open" -> {"open_question"} [] OTHER -> {"goal", "constraint"}
PinnedKinds(q) ==
    {"goal", "constraint"} \cup
    (CASE q = "justify" -> {"decision"} [] q = "recompute" -> {"calculation"}
       [] q = "open" -> {"open_question"} [] OTHER -> {})

\* pinned(): by_kind takes fresh nodes only.
Pinned(q, pin) == pin \cup {n \in present : Kind[n] \in PinnedKinds(q) /\ status[n] = "fresh"}

-----------------------------------------------------------------------------
InOrder(S) == Among(Order, S)
UpTo(k, s) == SubSeq(s, 1, IF k < Len(s) THEN k ELSE Len(s))

\* seed(): history, its evidence and stale nodes never seed; when fewer than two
\* nodes are left, the evidence of the spans a search finds does.  The recency
\* prefilter and the score floor only shorten what the search returns.
Seeds(hits, spans) ==
    LET believed == Among(hits, {n \in Id \ orphaned : G!IsLive(status[n])})
    IN  IF Len(believed) >= 2 THEN believed
        ELSE believed \o Among(spans, Id \ ToSet(believed))

\* expand(): a breadth-first walk w, what was reached and what is to be visited.
\* The evidence of history is refused at this door too.
PushAnyone(w, n, depth, visit) ==
    IF n \in ToSet(w.reached) THEN w
    ELSE [reached |-> Append(w.reached, n),
          queue   |-> IF visit THEN Append(w.queue, <<n, depth>>) ELSE w.queue]
Push(w, n, depth, visit) ==
    IF n \in orphaned \/ n \in ToSet(w.reached) THEN w
    ELSE [reached |-> Append(w.reached, n),
          queue   |-> IF visit THEN Append(w.queue, <<n, depth>>) ELSE w.queue]
PushAll(w, ns, depth, visit) ==
    LET pushed[i \in 0 .. Len(ns)] ==
          IF i = 0 THEN w ELSE Push(pushed[i - 1], ns[i], depth, visit)
    IN  pushed[Len(ns)]

\* One node of the queue: down to what it rests on, one hop up from a seed (and
\* no further from there), across to what disputes it.
Visit(w) ==
    LET n     == Head(w.queue)[1]
        depth == Head(w.queue)[2]
        rest  == [reached |-> w.reached, queue |-> Tail(w.queue)]
        down  == PushAll(rest, Among(UpTo(MaxFanout, InOrder(deps[n])), present),
                         depth + 1, TRUE)
        above == {e.src : e \in {x \in edges : x.dst = n}}
        up    == IF depth > 0 THEN down
                 ELSE PushAll(down, UpTo(MaxFanout, InOrder(above)), MaxDepth, TRUE)
        rivals == {e.dst : e \in {x \in edges : x.src = n /\ x.kind = "contradicts"
                                                /\ status[x.dst] # "superseded"}}
    IN  IF Len(w.reached) >= MaxCandidates \/ depth >= MaxDepth THEN rest
        ELSE PushAll(up, InOrder(rivals), depth + 1, FALSE)

\* MemoryGraph::explain: the nodes from root down, nearest first.
Explained(root) ==
    LET below(S) == {e.dst : e \in {x \in edges : x.src \in S /\ G!IsDependency(x)}}
        path[k \in 0 .. GraphDepth] ==
            IF k = 0 THEN <<root>>
            ELSE path[k - 1] \o InOrder(below(ToSet(path[k - 1])) \ ToSet(path[k - 1]))
    IN  path[GraphDepth]

Expand(seeds, q, pin) ==
    LET start == PushAll([reached |-> <<>>, queue |-> <<>>], seeds \o InOrder(pin), 0, TRUE)
        walk[k \in 0 .. Cardinality(Id)] ==
            IF k = 0 THEN start
            ELSE LET w == walk[k - 1] IN IF w.queue = <<>> THEN w ELSE Visit(w)
        roots == IF q = "justify" THEN UpTo(2, seeds) ELSE <<>>
        audited[i \in 0 .. Len(roots)] ==
            IF i = 0 THEN walk[Cardinality(Id)]
            ELSE PushAll(audited[i - 1], Explained(roots[i]), 0, FALSE)
    IN  audited[Len(roots)].reached

\* Goals and constraints join at the end of what was reached.
Reached(seeds, q, pin) ==
    LET found == Expand(seeds, q, pin)
    IN  found \o InOrder((Pinned(q, pin) \ pin) \ ToSet(found))

\* The scoring loop: the first max_candidates, without history, without what is
\* stale unless pinned, each at the levels it has or the one an escalation forces.
Levels(n, pin) ==
    IF n \in pin /\ "L0" \in ToSet(Available(n)) THEN <<"L0">> ELSE Available(n)
Candidate(n, q, pin) ==
    [node |-> n, index |-> CHOOSE i \in DOMAIN Order : Order[i] = n,
     pinned |-> n \in Pinned(q, pin),
     options |-> [i \in DOMAIN Levels(n, pin) |->
                    LET v == Levels(n, pin)[i]
                    IN  [level |-> v, cost |-> Cost[n][v], utility |-> Worth[n] * Fit(q, v)]]]
Considered(reached, q, pin) ==
    Among(UpTo(MaxCandidates, reached),
          {n \in Id : status[n] # "superseded"
                      /\ (status[n] = "stale" => n \in Pinned(q, pin))})

-----------------------------------------------------------------------------
Init ==
    /\ present = Id
    /\ status = [n \in Id |-> G!BirthStatus(n)]
    /\ deps = InitDeps
    /\ edges = UNION {G!DependencyEdges(n, InitDeps[n]) : n \in Id}
    /\ live = [k \in Key |-> {n \in Id : KeyOf[n] = k}]
    /\ contradicts = [n \in Id |-> {}]
    /\ supersededBy = [n \in Id |-> NoId]
    /\ orphaned = {} /\ drifted = {}
    /\ correctedBy = [n \in Id |-> {}]
    /\ pending = {} /\ draining = {} /\ planning = FALSE
    /\ window = NoPlan /\ changes = 0

\* plan(), over a graph whose deferred queue is drained (the cascades of the runs
\* defer nothing; the drain of plan_with is Turn's subject).
Plan ==
    /\ window = NoPlan
    /\ \E q \in Queries, budget \in Budgets, pin \in Pins, hits \in SeedHits, spans \in SpanHits :
         LET reached == Reached(Seeds(hits, spans), q, pin)
             ns      == Considered(reached, q, pin)
             cands   == [i \in DOMAIN ns |-> Candidate(ns[i], q, pin)]
             alloc   == Solve(cands, budget)
         IN  window' = [query |-> q, budget |-> budget, pin |-> pin,
                        candidates |-> cands,
                        entries |-> ToSet(alloc.chosen),
                        tokens |-> alloc.tokens, overflow |-> alloc.overflow,
                        capped |-> Len(reached) > MaxCandidates]
    /\ UNCHANGED <<graph, changes>>

\* What callers do to the graph between two plans.
Change ==
    /\ changes < MaxChanges
    /\ changes' = changes + 1
    /\ window' = NoPlan
    /\ \/ \E n \in present : G!Invalidate(n)
       \/ \E a, b \in present : G!Rivals(a, b) /\ G!Contradict(a, b)
       \/ \E old, new \in present :
             G!Rivals(old, new) /\ old \in contradicts[new] /\ G!Supersede(old, new)
       \/ \E n \in present : \E D \in DepChoices[n] : Kind[n] # "evidence" /\ G!Upsert(n, D)
       \/ \E n \in present : status[n] = "stale" /\ G!Revalidate(n)

Next == Plan \/ Change

Spec == Init /\ [][Next]_vars

-----------------------------------------------------------------------------
Planned == window # NoPlan
Shown == {e.node : e \in window.entries}

\* What is history is never shown, nor the evidence that says only what was
\* corrected, by whichever way the planner came to it; what is stale is shown
\* when it was asked for by name.
HistoryStaysOut ==
    Planned => \A n \in Shown : /\ status[n] # "superseded" /\ n \notin orphaned
                                /\ status[n] = "stale" => n \in window.pin

\* A goal or constraint that holds is in every window, unless the plan says that
\* what is mandatory overflows the budget or there were more nodes than
\* max_candidates.
MandatoryAdmitted ==
    Planned /\ ~window.overflow /\ ~window.capped =>
        \A n \in present : Kind[n] \in {"goal", "constraint"} /\ status[n] = "fresh" => n \in Shown

Mandatory == Total(Reserved(window.candidates))

\* The window fits the budget, except that one token more is spent when what is
\* mandatory takes exactly all of it (solve() never has fewer than one bucket).
FitsTheBudget ==
    Planned => window.tokens <= window.budget + (IF Mandatory = window.budget THEN 1 ELSE 0)

\* Without overflow, and where costs are not rounded, what a candidate lost was
\* lost to the budget: any level of more use to the query than the one it has, and
\* any level at all where it has none, would not have fitted beside the rest of
\* the window.  A pinned candidate is only ever upgraded to a level that costs more.
LossIsPressure ==
    Planned /\ ~window.overflow /\ window.budget - Mandatory <= MaxDpBuckets =>
        \A i \in DOMAIN window.candidates :
            LET lost  == window.candidates[i]
                mine  == {e \in window.entries : e.node = lost.node}
                spent == IF mine = {} THEN 0 ELSE (CHOOSE e \in mine : TRUE).cost
                want  == {o \in ToSet(lost.options) :
                            /\ lost.pinned => o.cost > Cheapest(lost.options).cost
                            /\ \A e \in mine : o.utility > e.utility}
            IN  \A o \in want : window.tokens - spent + o.cost > window.budget

\* The budget is neither overrun nor left unspent while something was wanted.
BudgetIsSpent == FitsTheBudget /\ LossIsPressure

-----------------------------------------------------------------------------
(* Statements of the documentation that the code does not keep.            *)

\* budget.rs:26-28: "Costs always round *up*, so the solution can never exceed
\* `B_attention`."
NeverExceeds == Planned => window.tokens <= window.budget

\* planner.rs:1073-1074: "Goals and constraints are admitted every turn whether or
\* not the query mentioned them".
AlwaysAdmitted ==
    Planned /\ ~window.overflow =>
        \A n \in present : Kind[n] \in {"goal", "constraint"} /\ status[n] = "fresh" => n \in Shown
=============================================================================
