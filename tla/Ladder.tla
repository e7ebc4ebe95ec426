------------------------------- MODULE Ladder -------------------------------
(***************************************************************************)
(* What is kept so that it need not be made again: the levels cached on a  *)
(* node (ladder.rs), the results of derivations and the memo they are      *)
(* served from (execute.rs), and the levels speculation builds before they *)
(* are asked for (speculation.rs).  All over the memory graph, whose calls *)
(* change what the caches were made from.                                  *)
(*                                                                         *)
(* A text is named by what it is made of: a summary by the spans it        *)
(* concatenates, a vector by the value and the spans.  A derivation is a   *)
(* closure of its literal inputs; registering its name again replaces it.  *)
(***************************************************************************)
EXTENDS Naturals, FiniteSets, Sequences, SequencesExt, Functions

CONSTANTS
    Id, Kind, Key, KeyOf, Sourced, DepChoices, Restated,
    MaxCascade, MaxDepth, DrainLimit, NoKey, NoId,      \* as in MemoryGraph
    Stored,            \* the nodes, evidence and claims, at the start
    InitDeps,          \* InitDeps[n]: their dependencies
    SpansOf,           \* SpansOf[n]: the source spans hashed into n
    ValueOf,           \* ValueOf[n]: the value hashed into n
    Long,              \* spans of more than 40 tokens
    Input,             \* literal inputs of the one derivation
    Result,            \* Result[version][input]: what its closures return
    CalcOf,            \* CalcOf[value]: the id of the calculation of a value
    Reach,             \* what a plan may reach: sets of nodes
    PrefetchBudget,    \* materialization_budget
    MaxCalls,          \* bound on the calls explored
    None

VARIABLES
    present, status, deps, edges, live, contradicts, supersededBy, orphaned,
    correctedBy, drifted, pending, draining, planning,   \* the graph
    spans, value,      \* Node.source_spans, Node.value
    cache,             \* Node.level_cache
    inputs,            \* Node.meta.derivation: the inputs of a calculation
    registered,        \* how often the derivation was registered
    memo, executions,  \* ExecutionLayer
    answer,            \* what call() returned last, and for what
    outstanding,       \* Speculator.outstanding
    spent,             \* level builds of the last prefetch
    calls

graph == <<present, status, deps, edges, live, contradicts, supersededBy, orphaned,
           correctedBy, drifted, pending, draining, planning>>
execution == <<registered, memo, executions>>
speculator == <<outstanding, spent>>
vars  == <<graph, spans, value, cache, inputs, execution, answer, speculator, calls>>

G == INSTANCE MemoryGraph WITH Mentions <- [n \in Id |-> {}]

\* A graph holds finitely many nodes, a node finitely many spans; what a closure
\* returns is the value some calculation is named by.
ASSUME LadderAssumption ==
    /\ Stored \subseteq Id /\ IsFiniteSet(Stored)
    /\ InitDeps \in [Id -> SUBSET Id]
    /\ SpansOf \in [Id -> Range(SpansOf)] /\ \A n \in Id : IsFiniteSet(SpansOf[n])
    /\ ValueOf \in [Id -> Range(ValueOf)]
    /\ Result \in Seq([Input -> DOMAIN CalcOf]) /\ Result # <<>>
    /\ {CalcOf[v] : v \in DOMAIN CalcOf} \subseteq Id
    /\ \A v \in DOMAIN CalcOf : /\ Kind[CalcOf[v]] = "calculation"
                                /\ ValueOf[CalcOf[v]] = v /\ SpansOf[CalcOf[v]] = {}
    /\ PrefetchBudget \in Nat \ {0} /\ MaxCalls \in Nat

-----------------------------------------------------------------------------
(* The levels (ladder.rs).                                                 *)

Blank == [l0 |-> None, l1 |-> None, l2 |-> None, l3 |-> None]   \* LevelCache::default()

\* l0_sizes() reuses its memo while the number of spans (and the length of the
\* value, which spans outrank) is the one it was made for; summary() and
\* vector() reuse theirs for as long as they are there.
Sized(n, c) == IF c.l0 # None /\ c.l0.key = Cardinality(spans[n]) THEN c
               ELSE [c EXCEPT !.l0 = [key |-> Cardinality(spans[n]), text |-> spans[n]]]
Summarised(n, c) == IF c.l1 # None THEN c ELSE [c EXCEPT !.l1 = spans[n]]
Embedded(n, c) == IF c.l2 # None THEN c ELSE [c EXCEPT !.l2 = <<value[n], spans[n]>>]

\* A plan prices and scores what it reaches, the index key and the sizes with
\* it; it summarises what is long enough for L1 to be offered.
HasL1(n) == spans[n] \cap Long # {}
ViewedSizesOnly(n, c) == Sized(n, c)
Viewed(n, c) ==
    LET seen == Embedded(n, Sized(n, c))
    IN  IF HasL1(n) THEN Summarised(n, seen) ELSE seen

\* The cascade clears the result of what it marks.  A stale node holds no result
\* from before, so that clears the result of whatever is stale after the call.
Unresulted(caches, st) ==
    [n \in Id |-> IF st[n] = "stale" THEN [caches[n] EXCEPT !.l3 = None] ELSE caches[n]]

-----------------------------------------------------------------------------
(* Derivations and their memo (execute.rs).                                *)

\* fingerprint(): kind, value, dependencies and spans; the status is no part.
Fingerprint(n) == [id |-> n, value |-> value[n], deps |-> deps[n], spans |-> spans[n]]
Content(D) == {IF d \in present THEN Fingerprint(d) ELSE [id |-> d] : d \in D}

KeyForDeps(i, D) == [inputs |-> i, deps |-> D]
KeyFor(i, D) == [inputs |-> i, deps |-> Content(D)]

\* call(): the memo's answer, or the closure's, which the memo then keeps.
Call(i, D) ==
    LET key == KeyFor(i, D)
        run == [value |-> Result[registered][i], seen |-> Content(D)]
        kept == [k \in DOMAIN memo \cup {key} |-> IF k = key THEN run ELSE memo[k]]
    IN  /\ registered > 0
        /\ memo' = IF key \in DOMAIN memo THEN memo ELSE kept
        /\ executions' = IF key \in DOMAIN memo THEN executions ELSE executions + 1
        /\ answer' = [inputs |-> i, deps |-> D, value |-> memo'[key].value,
                      seen |-> memo'[key].seen]
        /\ UNCHANGED registered

Unanswered == answer' = None /\ UNCHANGED execution

\* run(): the derivation of n, if it has one, over its inputs.
Run(n) ==
    IF inputs[n] = None THEN Unanswered /\ UNCHANGED value
    ELSE Call(inputs[n], deps[n]) /\ value' = [value EXCEPT ![n] = answer'.value]

\* The value of a node is the one its id was made of, unless a derivation that
\* ran again gave another.
Drifts == drifted' = {n \in Id : value'[n] # ValueOf[n]}

-----------------------------------------------------------------------------
Init ==
    /\ present = Stored
    /\ status = [n \in Id |-> "fresh"]
    /\ deps = InitDeps
    /\ edges = UNION {G!DependencyEdges(n, InitDeps[n]) : n \in Stored}
    /\ live = [k \in Key |-> {n \in Stored : KeyOf[n] = k}]
    /\ contradicts = [n \in Id |-> {}] /\ supersededBy = [n \in Id |-> NoId]
    /\ orphaned = {} /\ drifted = {} /\ correctedBy = [n \in Id |-> {}]
    /\ pending = {} /\ draining = {} /\ planning = FALSE
    /\ spans = SpansOf /\ value = ValueOf
    /\ cache = [n \in Id |-> Blank]
    /\ inputs = [n \in Id |-> None]
    /\ registered = 0 /\ memo = <<>> /\ executions = 0 /\ answer = None
    /\ outstanding = <<>> /\ spent = 0 /\ calls = 0

\* Dcr::register.
Register ==
    /\ registered < Len(Result)
    /\ registered' = registered + 1
    /\ answer' = None
    /\ UNCHANGED <<graph, spans, value, cache, inputs, memo, executions, speculator>>

\* Dcr::compute: compute_node(), whose node upsert() admits or puts in the place
\* of the one that has its id, level cache and derivation included.
Compute ==
    \E i \in Input : \E D \in UNION {DepChoices[n] : n \in Range(CalcOf)} :
        /\ Call(i, D)
        /\ LET v == answer'.value
               n == CalcOf[v]
           IN  /\ G!Upsert(n, D)
               /\ value' = [value EXCEPT ![n] = v]
               /\ spans' = [spans EXCEPT ![n] = {}]
               /\ inputs' = [inputs EXCEPT ![n] = i]
               /\ cache' = Unresulted([cache EXCEPT ![n] = [Blank EXCEPT !.l3 = v]], status')
        /\ UNCHANGED speculator

\* reinforce(): one more span, so what was made from the spans goes.
CorroborateKeepingLevels(n, e) ==
    /\ G!Corroborate(n, e)
    /\ spans' = [spans EXCEPT ![n] = @ \cup SpansOf[e]]
    /\ UNCHANGED <<value, cache, inputs, speculator>>
    /\ Unanswered
Corroborate(n, e) ==
    /\ G!Corroborate(n, e)
    /\ spans' = [spans EXCEPT ![n] = @ \cup SpansOf[e]]
    /\ cache' = [cache EXCEPT ![n].l1 = None, ![n].l2 = None]
    /\ UNCHANGED <<value, inputs, speculator>>
    /\ Unanswered

\* A correction, as ingest and commit_fact make it.
Correct(old, new) ==
    /\ \/ G!Rivals(old, new) /\ old \notin contradicts[new] /\ G!Contradict(new, old)
       \/ G!Rivals(old, new) /\ old \in contradicts[new] /\ G!Supersede(old, new)
    /\ cache' = Unresulted(cache, status')
    /\ UNCHANGED <<spans, value, inputs, speculator>>
    /\ Unanswered

\* Dcr::revalidate: a calculation runs again, over the inputs it had; then its
\* cheap levels are dropped and it is fresh.
Revalidate(n) ==
    /\ status[n] = "stale"
    /\ Run(n)
    /\ G!Revalidate(n) /\ Drifts
    /\ cache' = [cache EXCEPT ![n].l1 = None, ![n].l2 = None,
                              ![n].l3 = IF inputs[n] = None THEN @ ELSE value'[n]]
    /\ UNCHANGED <<spans, inputs, speculator>>

\* prewarm(): the levels of n that are not there yet, and how many they are.
Prewarm(w, n) ==
    LET warm == Embedded(n, IF spans[n] = {} THEN w.cache[n] ELSE Summarised(n, w.cache[n]))
    IN  [cache  |-> [w.cache EXCEPT ![n] = warm],
         spent  |-> w.spent + Cardinality({v \in {"l1", "l2"} : warm[v] # w.cache[n][v]}),
         issued |-> Append(w.issued, n)]

\* predict(): by a score learned from use, so in any order; those below tau are left.
Predictions(S) == UNION {SetToSeqs(P) : P \in SUBSET S}

\* prefetch(): down the predictions until the builds are spent.
Prefetched(caches, predicted) ==
    LET w[i \in 0 .. Len(predicted)] ==
          IF i = 0 THEN [cache |-> caches, spent |-> 0, issued |-> <<>>]
          ELSE IF w[i - 1].spent >= PrefetchBudget THEN w[i - 1]
               ELSE Prewarm(w[i - 1], predicted[i])
    IN  w[Len(predicted)]

\* plan(), as far as the levels go: what is reached is priced and scored, what
\* is not admitted may be prefetched.
Planned(caches) ==
    /\ \E R \in Reach : \E admitted \in SUBSET (R \cap present) :
         LET reached == R \cap present
             viewed  == [n \in Id |-> IF n \in reached THEN Viewed(n, caches[n]) ELSE caches[n]]
         IN  \E predicted \in Predictions({n \in reached \ admitted : status[n] # "superseded"}) :
                LET w == Prefetched(viewed, predicted)
                IN  /\ cache' = w.cache
                    /\ spent' = w.spent
                    /\ outstanding' = outstanding \o w.issued
    /\ UNCHANGED <<graph, spans, value, inputs>>
    /\ Unanswered

\* rebuild_workspace(): every cached level goes, then a plan makes them again.
Plan == Planned(cache) \/ Planned([n \in Id |-> Blank])

\* feedback(): the turn is over, and what was prefetched was cited or was not.
Feedback ==
    /\ outstanding # <<>>
    /\ outstanding' = <<>>
    /\ UNCHANGED <<graph, spans, value, cache, inputs, spent>>
    /\ Unanswered

Next ==
    /\ calls < MaxCalls /\ calls' = calls + 1
    /\ \/ Register
       \/ Compute
       \/ \E n, e \in present : Corroborate(n, e)
       \/ \E old, new \in present : Correct(old, new)
       \/ \E n \in present : Revalidate(n)
       \/ Plan
       \/ Feedback

Spec == Init /\ [][Next]_vars

-----------------------------------------------------------------------------
\* What the ladder serves from a cache is what it would make now: a summary of
\* the spans the node has, a vector of its value and spans, prices of that text,
\* and a result that is its value.
LevelsAreCurrent ==
    \A n \in present :
        LET c == cache[n]
        IN  /\ c.l0 # None /\ c.l0.key = Cardinality(spans[n]) => c.l0.text = spans[n]
            /\ c.l1 \in {None, spans[n]}
            /\ c.l2 \in {None, <<value[n], spans[n]>>}
            /\ c.l3 \in {None, value[n]}

\* What call() returns was computed by a closure of that name, for these inputs,
\* over the dependencies as they read when it was called.
MemoAnswersThisCall ==
    [][answer' # None =>
          /\ \E version \in 1 .. registered : answer'.value = Result[version][answer'.inputs]
          /\ answer'.seen = Content(answer'.deps)]_vars

\* Speculation builds no more levels in a plan than it may, although it counts
\* only after it has built.
SpeculationInBudget == spent <= PrefetchBudget

-----------------------------------------------------------------------------
(* Statements of the documentation that the code does not keep.            *)

\* execute.rs:4-7: "when an upstream fact is corrected the key changes, the memo
\* misses, and the value is recomputed rather than silently served stale".
CorrectionIsRecomputed ==
    [][\A n \in present :
          /\ status[n] = "stale" /\ status'[n] = "fresh" /\ Kind[n] = "calculation"
          /\ \E d \in deps[n] : status[d] = "superseded"
          => executions' = executions + 1]_vars
=============================================================================
