---------------------------- MODULE Ladder_proofs ----------------------------
(***************************************************************************)
(* What is kept is what would be made now, for every set of nodes, spans,  *)
(* closures and budgets: the levels cached on a node, what the memo of     *)
(* derivations answers, and how many levels speculation builds.            *)
(*                                                                         *)
(* LadderInv says what a cache entry, a memo entry and a node's inputs may *)
(* be.  A plan is a loop over its predictions: PrefetchKeeps shows what    *)
(* the loop keeps by taking the least round in which it would fail.        *)
(***************************************************************************)
EXTENDS Ladder, FiniteSetTheorems, SequenceTheorems, WellFoundedInduction, TLAPS

\* A cache that is right for a node with these spans and this value.
Current(S, v, c) ==
    /\ c = [l0 |-> c.l0, l1 |-> c.l1, l2 |-> c.l2, l3 |-> c.l3]
    /\ c.l0 # None => c.l0.key = Cardinality(c.l0.text) /\ c.l0.text \subseteq S
    /\ c.l1 \in {None, S}
    /\ c.l2 \in {None, <<v, S>>}
    /\ c.l3 \in {None, v}

\* caches has a right entry for every node, and no result for a stale one.
AllCurrent(caches) ==
    /\ caches = [n \in Id |-> caches[n]]
    /\ \A n \in Id : Current(spans[n], value[n], caches[n])
    /\ \A n \in Id : status[n] = "stale" => caches[n].l3 = None

NodeInv ==
    /\ present \subseteq Id /\ IsFiniteSet(present)
    /\ status = [n \in Id |-> status[n]]
    /\ spans = [n \in Id |-> spans[n]] /\ \A n \in Id : IsFiniteSet(spans[n])
    /\ value = [n \in Id |-> value[n]]
    /\ inputs \in [Id -> Input \cup {None}]

MemoInv ==
    /\ registered \in 0 .. Len(Result)
    /\ \A key \in DOMAIN memo :
          /\ key.inputs \in Input
          /\ \E version \in 1 .. registered : memo[key].value = Result[version][key.inputs]
          /\ memo[key].seen = key.deps

LadderInv == NodeInv /\ AllCurrent(cache) /\ MemoInv /\ SpeculationInBudget

-----------------------------------------------------------------------------
(* The memo.                                                               *)

Answered ==
    /\ \E version \in 1 .. registered : answer'.value = Result[version][answer'.inputs]
    /\ answer'.seen = Content(answer'.deps)

\* call() answers for these inputs over this content, from the memo or anew.
LEMMA CallAnswers ==
    ASSUME MemoInv, NEW i \in Input, NEW D, Call(i, D)
    PROVE  MemoInv' /\ Answered /\ answer'.value \in DOMAIN CalcOf
<1> DEFINE key == KeyFor(i, D)
           run == [value |-> Result[registered][i], seen |-> Content(D)]
<1>1. Result \in Seq([Input -> DOMAIN CalcOf])
  BY LadderAssumption
<1>2. registered' = registered /\ registered \in Nat /\ registered \in 1 .. registered
      /\ registered \in 1 .. Len(Result)
  BY <1>1 DEF MemoInv, Call
<1>3. key.inputs = i /\ key.deps = Content(D)
  BY DEF KeyFor
<1>4. memo' = IF key \in DOMAIN memo THEN memo
              ELSE [k \in DOMAIN memo \cup {key} |-> IF k = key THEN run ELSE memo[k]]
  BY DEF Call
<1>5. answer' = [inputs |-> i, deps |-> D, value |-> memo'[key].value, seen |-> memo'[key].seen]
  BY DEF Call
<1>6. run.value = Result[registered][i] /\ run.seen = Content(D)
  OBVIOUS
<1> HIDE DEF key, run
<1>7. /\ DOMAIN memo' = DOMAIN memo \cup {key}
      /\ \A k \in DOMAIN memo' : memo'[k] = IF k \in DOMAIN memo THEN memo[k] ELSE run
  BY <1>4
<1>8. ASSUME NEW k \in DOMAIN memo'
      PROVE  /\ k.inputs \in Input
             /\ \E version \in 1 .. registered : memo'[k].value = Result[version][k.inputs]
             /\ memo'[k].seen = k.deps
  <2>1. CASE k \in DOMAIN memo
    BY <1>7, <2>1 DEF MemoInv
  <2>2. CASE k \notin DOMAIN memo
    <3>1. k = key /\ memo'[k] = run
      BY <1>7, <2>2
    <3> QED BY <1>2, <1>3, <1>6, <3>1
  <2> QED BY <2>1, <2>2
<1>9. MemoInv'
  BY <1>2, <1>8 DEF MemoInv
<1>10. Answered
  BY <1>3, <1>5, <1>7, <1>8 DEF Answered
<1>11. answer'.value \in DOMAIN CalcOf
  <2>1. PICK version \in 1 .. registered : answer'.value = Result[version][i]
    BY <1>5, <1>10 DEF Answered
  <2>2. version \in 1 .. Len(Result)
    BY <1>2, <2>1
  <2>3. Result[version] \in [Input -> DOMAIN CalcOf]
    BY <1>1, <2>2
  <2> QED BY <2>1, <2>3
<1> QED BY <1>9, <1>10, <1>11

LEMMA UnansweredKeeps ==
    ASSUME MemoInv, Unanswered
    PROVE  MemoInv' /\ answer' = None
  BY DEF MemoInv, Unanswered, execution

-----------------------------------------------------------------------------
(* The levels.                                                             *)

LEMMA ViewKeeps ==
    ASSUME NEW n \in Id, NEW c, Current(spans[n], value[n], c)
    PROVE  /\ Current(spans[n], value[n], Viewed(n, c)) /\ Viewed(n, c).l3 = c.l3
           /\ Embedded(n, Viewed(n, c)) = Viewed(n, c)
<1> DEFINE S == spans[n]
           v == value[n]
           sized == Sized(n, c)
           seen == Embedded(n, sized)
<1>1. Current(S, v, sized) /\ sized.l3 = c.l3
  BY DEF Sized, Current
<1> HIDE DEF sized
<1>2. Current(S, v, seen) /\ seen.l3 = c.l3 /\ seen.l2 = (IF sized.l2 = None THEN <<v, S>> ELSE sized.l2)
  BY <1>1 DEF Embedded, Current
<1>3. seen.l2 = <<v, S>>
  BY <1>1, <1>2 DEF Current
<1> HIDE DEF seen
<1>4. Viewed(n, c) = IF HasL1(n) THEN Summarised(n, seen) ELSE seen
  BY DEF Viewed, seen, sized
<1>5. Current(S, v, Summarised(n, seen)) /\ Summarised(n, seen).l3 = c.l3
      /\ Summarised(n, seen).l2 = <<v, S>>
  BY <1>2, <1>3 DEF Summarised, Current
<1>6. Current(S, v, Viewed(n, c)) /\ Viewed(n, c).l3 = c.l3 /\ Viewed(n, c).l2 = <<v, S>>
  BY <1>2, <1>3, <1>4, <1>5
<1> HIDE DEF S, v
<1>7. ASSUME NEW x, Current(S, v, x), x.l2 = <<v, S>>
      PROVE  [x EXCEPT !.l2 = <<v, S>>] = x
  BY <1>7 DEF Current
<1>8. Embedded(n, Viewed(n, c)) = Viewed(n, c)
  BY <1>6, <1>7 DEF Embedded, S, v
<1> QED BY <1>6, <1>8 DEF S, v

\* What the loop of prefetch() keeps: the caches right, the vectors of what the
\* plan has scored in place, and the builds within the budget.
Warm(P, caches, w) ==
    /\ w.spent \in Nat /\ w.spent <= PrefetchBudget
    /\ w.cache = [n \in Id |-> w.cache[n]]
    /\ \A n \in Id : /\ Current(spans[n], value[n], w.cache[n])
                     /\ w.cache[n].l3 = caches[n].l3
    /\ \A n \in P : Embedded(n, w.cache[n]) = w.cache[n]

LEMMA PrewarmKeeps ==
    ASSUME NEW P \in SUBSET Id, NEW caches, NEW w, Warm(P, caches, w),
           ~ (w.spent >= PrefetchBudget), NEW n \in P
    PROVE  Warm(P, caches, Prewarm(w, n))
<1> DEFINE S == spans[n]
           v == value[n]
           c == w.cache[n]
           x == IF spans[n] = {} THEN c ELSE Summarised(n, c)
           warm == Embedded(n, x)
           built == {l \in {"l1", "l2"} : warm[l] # c[l]}
<1>1. Prewarm(w, n).cache = [w.cache EXCEPT ![n] = warm]
      /\ Prewarm(w, n).spent = w.spent + Cardinality(built)
  BY DEF Prewarm
<1>2. Current(S, v, c) /\ Embedded(n, c) = c
  BY DEF Warm
<1> HIDE DEF c
<1>3. Current(S, v, x) /\ x.l3 = c.l3 /\ x.l2 = c.l2
  BY <1>2 DEF Summarised, Current
<1> HIDE DEF x
<1>4. c.l2 # None \/ c.l2 = <<v, S>>
  <2>1. CASE c.l2 = None
    <3>1. [c EXCEPT !.l2 = <<v, S>>] = c
      BY <1>2, <2>1 DEF Embedded
    <3>2. [c EXCEPT !.l2 = <<v, S>>].l2 = <<v, S>>
      BY <1>2 DEF Current
    <3> QED BY <3>1, <3>2
  <2> QED BY <2>1
<1>5. Current(S, v, warm) /\ warm.l3 = c.l3 /\ warm.l2 = c.l2
  BY <1>3, <1>4 DEF Embedded, Current
<1>6. Embedded(n, warm) = warm
  <2>1. warm.l2 # None \/ warm.l2 = <<v, S>>
    BY <1>4, <1>5
  <2> HIDE DEF warm, S, v
  <2>2. warm.l2 = <<v, S>> => [warm EXCEPT !.l2 = <<v, S>>] = warm
    BY <1>5 DEF Current
  <2> QED BY <2>1, <2>2 DEF Embedded, S, v
<1>7. Cardinality(built) \in {0, 1}
  <2>1. built = {} \/ built = {"l1"}
    BY <1>5
  <2> QED BY <2>1, FS_EmptySet, FS_Singleton
<1> HIDE DEF warm, built, S, v
<1>8. Prewarm(w, n).spent \in Nat /\ Prewarm(w, n).spent <= PrefetchBudget
  BY <1>1, <1>7, LadderAssumption DEF Warm
<1>9. n \in Id /\ w.cache = [m \in Id |-> w.cache[m]]
  BY DEF Warm
<1>10. Prewarm(w, n).cache = [m \in Id |-> IF m = n THEN warm ELSE w.cache[m]]
  BY <1>1, <1>9
<1>11. \A m \in Id : Prewarm(w, n).cache[m] = IF m = n THEN warm ELSE w.cache[m]
  BY <1>10
<1>12. \A m \in Id : /\ Current(spans[m], value[m], Prewarm(w, n).cache[m])
                     /\ Prewarm(w, n).cache[m].l3 = caches[m].l3
  BY <1>5, <1>9, <1>11 DEF Warm, S, v, c
<1>13. \A m \in P : Embedded(m, Prewarm(w, n).cache[m]) = Prewarm(w, n).cache[m]
  BY <1>6, <1>11 DEF Warm
<1>14. Prewarm(w, n).cache = [m \in Id |-> Prewarm(w, n).cache[m]]
  BY <1>10
<1> QED BY <1>8, <1>12, <1>13, <1>14 DEF Warm

\* A round of the loop, given what w says of the round before.
Round(caches, predicted, w, i) ==
    IF i = 0 THEN [cache |-> caches, spent |-> 0, issued |-> <<>>]
    ELSE IF w[i - 1].spent >= PrefetchBudget THEN w[i - 1]
         ELSE Prewarm(w[i - 1], predicted[i])

IsLoop(caches, predicted, N, w) == w = [i \in 0 .. N |-> Round(caches, predicted, w, i)]

LEMMA LeastExists ==
    ASSUME NEW S \in SUBSET Nat, S # {}
    PROVE  \E x \in S : \A y \in S : x <= y
<1>1. PICK x \in S : \A y \in S : ~ (<<y, x>> \in OpToRel(<, Nat))
  BY NatLessThanWellFounded, WFMin
<1>2. \A y \in S : ~ (y < x)
  BY <1>1 DEF OpToRel
<1> QED BY <1>2

LEMMA LoopExists ==
    ASSUME NEW caches, NEW predicted, NEW N \in Nat
    PROVE  \E w : IsLoop(caches, predicted, N, w)
<1> DEFINE Short == {n \in Nat : ~ \E w : IsLoop(caches, predicted, n, w)}
<1> SUFFICES ASSUME Short # {} PROVE FALSE
  OBVIOUS
<1>1. PICK m \in Short : \A k \in Short : m <= k
  BY LeastExists, Zenon
<1>2. m \in Nat /\ ~ \E w : IsLoop(caches, predicted, m, w)
  BY <1>1
<1>3. m # 0
  <2> DEFINE w == [k \in 0 .. 0 |-> [cache |-> caches, spent |-> 0, issued |-> <<>>]]
  <2>1. IsLoop(caches, predicted, 0, w)
    BY DEF IsLoop, Round
  <2> QED BY <1>2, <2>1
<1>4. m - 1 \in Nat /\ m - 1 \notin Short
  BY <1>1, <1>2, <1>3
<1>5. PICK v : IsLoop(caches, predicted, m - 1, v)
  BY <1>4
<1> DEFINE w == [k \in 0 .. m |-> IF k = m THEN Round(caches, predicted, v, k) ELSE v[k]]
<1>6. ASSUME NEW k \in 0 .. m
      PROVE  w[k] = Round(caches, predicted, w, k)
  <2>1. CASE k = 0
    <3>1. v[0] = Round(caches, predicted, v, 0)
      BY <1>2, <1>3, <1>5 DEF IsLoop
    <3> QED BY <2>1, <3>1, <1>2, <1>3 DEF Round
  <2>2. CASE k # 0
    <3>1. k - 1 \in 0 .. m - 1 /\ k - 1 # m /\ w[k - 1] = v[k - 1]
      BY <2>2, <1>2
    <3>2. Round(caches, predicted, v, k) = Round(caches, predicted, w, k)
      BY <3>1 DEF Round
    <3>3. k # m => v[k] = Round(caches, predicted, v, k)
      BY <1>2, <1>5 DEF IsLoop
    <3> HIDE DEF w
    <3>4. w[k] = IF k = m THEN Round(caches, predicted, v, k) ELSE v[k]
      BY DEF w
    <3> QED BY <3>2, <3>3, <3>4
  <2> QED BY <2>1, <2>2
<1>7. IsLoop(caches, predicted, m, w)
  <2>1. w = [k \in 0 .. m |-> w[k]]
    OBVIOUS
  <2> HIDE DEF w
  <2> QED BY <2>1, <1>6 DEF IsLoop
<1> QED BY <1>2, <1>7

\* Down any list of nodes the plan has scored, the loop keeps the caches right
\* and the builds within the budget.
LEMMA PrefetchKeeps ==
    ASSUME NEW P \in SUBSET Id, NEW caches, NEW predicted \in Seq(P),
           caches = [n \in Id |-> caches[n]],
           \A n \in Id : Current(spans[n], value[n], caches[n]),
           \A n \in P : Embedded(n, caches[n]) = caches[n]
    PROVE  Warm(P, caches, Prefetched(caches, predicted))
<1> DEFINE N == Len(predicted)
           w == CHOOSE x : IsLoop(caches, predicted, N, x)
           Cold == {i \in 0 .. N : ~ Warm(P, caches, w[i])}
<1>1. N \in Nat /\ predicted \in [1 .. N -> P]
  BY LenProperties
<1>2. Prefetched(caches, predicted) = w[N]
  BY DEF Prefetched, IsLoop, Round
<1>3. IsLoop(caches, predicted, N, w)
  <2>1. \E x : IsLoop(caches, predicted, N, x)
    BY <1>1, LoopExists
  <2> QED BY <2>1
<1> HIDE DEF w, N
<1>4. \A i \in 0 .. N : w[i] = Round(caches, predicted, w, i)
  BY <1>3 DEF IsLoop
<1> SUFFICES ASSUME Cold # {} PROVE FALSE
  BY <1>1, <1>2
<1>5. PICK i \in Cold : \A j \in Cold : i <= j
  <2>1. Cold \in SUBSET Nat
    BY <1>1
  <2> HIDE DEF Cold
  <2> QED BY <2>1, LeastExists, Zenon
<1>6. i \in 0 .. N /\ ~ Warm(P, caches, w[i]) /\ w[i] = Round(caches, predicted, w, i)
  BY <1>4, <1>5
<1>7. CASE i = 0
  <2>1. w[i] = [cache |-> caches, spent |-> 0, issued |-> <<>>]
    BY <1>6, <1>7 DEF Round
  <2>2. w[i].cache = caches /\ w[i].spent = 0
    BY <2>1
  <2>3. 0 <= PrefetchBudget
    BY LadderAssumption
  <2> HIDE DEF Cold
  <2>4. \A n \in Id : Current(spans[n], value[n], w[i].cache[n]) /\ w[i].cache[n].l3 = caches[n].l3
    BY <2>2
  <2>5. /\ w[i].cache = [n \in Id |-> w[i].cache[n]]
        /\ \A n \in P : Embedded(n, w[i].cache[n]) = w[i].cache[n]
    BY <2>2
  <2>6. Warm(P, caches, w[i])
    BY <2>2, <2>3, <2>4, <2>5 DEF Warm
  <2> QED BY <1>6, <2>6
<1>8. CASE i # 0
  <2>1. i - 1 \in 0 .. N /\ i \in 1 .. N
    BY <1>1, <1>6, <1>8
  <2>2. Warm(P, caches, w[i - 1])
    BY <1>5, <1>6, <2>1
  <2>3. predicted[i] \in P
    BY <1>1, <2>1
  <2>4. w[i] = IF w[i - 1].spent >= PrefetchBudget THEN w[i - 1]
               ELSE Prewarm(w[i - 1], predicted[i])
    BY <1>6, <1>8 DEF Round
  <2>5. Warm(P, caches, w[i])
    BY <2>2, <2>3, <2>4, PrewarmKeeps
  <2> QED BY <1>6, <2>5
<1> QED BY <1>7, <1>8

\* A prediction is a list of nodes, each once.
LEMMA PredictionsAreLists ==
    ASSUME NEW S, IsFiniteSet(S), NEW predicted \in Predictions(S)
    PROVE  predicted \in Seq(S)
<1>1. PICK P \in SUBSET S : predicted \in [1 .. Cardinality(P) -> P]
  BY DEF Predictions, SetToSeqs
<1>2. IsFiniteSet(P)
  BY FS_Subset
<1>3. Cardinality(P) \in Nat
  BY <1>2, FS_CardinalityType
<1> QED BY <1>1, <1>3

\* A plan, from caches that are right, leaves them right and keeps its budget.
LEMMA PlannedKeeps ==
    ASSUME NodeInv, MemoInv, NEW caches, AllCurrent(caches), Planned(caches)
    PROVE  LadderInv' /\ answer' = None
<1>1. PICK R \in Reach : \E admitted \in SUBSET (R \cap present) :
         \E predicted \in Predictions({n \in (R \cap present) \ admitted :
                                          status[n] # "superseded"}) :
           LET reached == R \cap present
               viewed  == [n \in Id |-> IF n \in reached THEN Viewed(n, caches[n])
                                        ELSE caches[n]]
               w       == Prefetched(viewed, predicted)
           IN  cache' = w.cache /\ spent' = w.spent
  BY Zenon DEF Planned
<1> DEFINE reached == R \cap present
           viewed == [n \in Id |-> IF n \in reached THEN Viewed(n, caches[n]) ELSE caches[n]]
           left(admitted) == {n \in reached \ admitted : status[n] # "superseded"}
<1>2. PICK admitted \in SUBSET reached :
          \E predicted \in Predictions(left(admitted)) :
             /\ cache' = Prefetched(viewed, predicted).cache
             /\ spent' = Prefetched(viewed, predicted).spent
  BY <1>1
<1> DEFINE P == left(admitted)
<1>3. PICK predicted \in Predictions(P) :
          /\ cache' = Prefetched(viewed, predicted).cache
          /\ spent' = Prefetched(viewed, predicted).spent
  BY <1>2
<1> DEFINE w == Prefetched(viewed, predicted)
<1>4. P \in SUBSET Id /\ P \subseteq reached /\ predicted \in Seq(P)
  <2>1. P \in SUBSET present
    OBVIOUS
  <2>2. IsFiniteSet(P)
    BY <2>1, FS_Subset DEF NodeInv
  <2>3. predicted \in Predictions(P)
    BY <1>3
  <2> HIDE DEF P
  <2>4. predicted \in Seq(P)
    BY <2>2, <2>3, PredictionsAreLists
  <2> QED BY <2>1, <2>4 DEF NodeInv, P
<1>5. cache' = w.cache /\ spent' = w.spent
  BY <1>3
<1> HIDE DEF P
<1>6. \A n \in Id : /\ Current(spans[n], value[n], viewed[n]) /\ viewed[n].l3 = caches[n].l3
                    /\ n \in reached => Embedded(n, viewed[n]) = viewed[n]
  <2> SUFFICES ASSUME NEW n \in Id
               PROVE  /\ Current(spans[n], value[n], viewed[n]) /\ viewed[n].l3 = caches[n].l3
                      /\ n \in reached => Embedded(n, viewed[n]) = viewed[n]
    OBVIOUS
  <2>1. Current(spans[n], value[n], caches[n])
    BY DEF AllCurrent
  <2>2. viewed[n] = IF n \in reached THEN Viewed(n, caches[n]) ELSE caches[n]
    OBVIOUS
  <2> HIDE DEF viewed, reached
  <2> QED BY <2>1, <2>2, ViewKeeps
<1>7. viewed = [n \in Id |-> viewed[n]]
  OBVIOUS
<1> HIDE DEF viewed, reached
<1>8. Warm(P, viewed, w)
  BY <1>4, <1>6, <1>7, PrefetchKeeps
<1> HIDE DEF w
<1>9. UNCHANGED <<present, status, spans, value, inputs>> /\ Unanswered
  BY DEF Planned, graph
<1>10. NodeInv' /\ MemoInv' /\ answer' = None
  BY <1>9, UnansweredKeeps DEF NodeInv
<1>11. AllCurrent(cache)'
  BY <1>5, <1>6, <1>8, <1>9 DEF Warm, AllCurrent
<1>12. SpeculationInBudget'
  BY <1>5, <1>8 DEF Warm, SpeculationInBudget
<1> QED BY <1>10, <1>11, <1>12 DEF LadderInv

-----------------------------------------------------------------------------
(* The calls.                                                              *)

\* What upsert() and the cascades leave of a result is none for a stale node.
LEMMA UnresultedKeeps ==
    ASSUME NEW caches, NEW st, NEW S, NEW v,
           caches = [n \in Id |-> caches[n]],
           \A n \in Id : Current(S[n], v[n], caches[n])
    PROVE  /\ Unresulted(caches, st) = [n \in Id |-> Unresulted(caches, st)[n]]
           /\ \A n \in Id : /\ Current(S[n], v[n], Unresulted(caches, st)[n])
                            /\ st[n] = "stale" => Unresulted(caches, st)[n].l3 = None
<1>1. \A n \in Id : Unresulted(caches, st)[n] =
         IF st[n] = "stale" THEN [caches[n] EXCEPT !.l3 = None] ELSE caches[n]
  BY DEF Unresulted
<1>2. ASSUME NEW n \in Id
      PROVE  /\ Current(S[n], v[n], [caches[n] EXCEPT !.l3 = None])
             /\ [caches[n] EXCEPT !.l3 = None].l3 = None
  BY <1>2 DEF Current
<1>3. Unresulted(caches, st) = [n \in Id |-> Unresulted(caches, st)[n]]
  BY DEF Unresulted
<1> HIDE DEF Unresulted
<1> QED BY <1>1, <1>2, <1>3

LEMMA ComputeKeeps ==
    ASSUME LadderInv, Compute
    PROVE  LadderInv' /\ Answered
<1>1. PICK i \in Input, D \in UNION {DepChoices[n] : n \in Range(CalcOf)} :
         /\ Call(i, D)
         /\ G!Upsert(CalcOf[answer'.value], D)
         /\ value' = [value EXCEPT ![CalcOf[answer'.value]] = answer'.value]
         /\ spans' = [spans EXCEPT ![CalcOf[answer'.value]] = {}]
         /\ inputs' = [inputs EXCEPT ![CalcOf[answer'.value]] = i]
         /\ cache' = Unresulted([cache EXCEPT ![CalcOf[answer'.value]] =
                                    [Blank EXCEPT !.l3 = answer'.value]], status')
         /\ UNCHANGED speculator
  BY Zenon DEF Compute
<1> DEFINE v == answer'.value
           n == CalcOf[v]
           fresh == [cache EXCEPT ![n] = [Blank EXCEPT !.l3 = v]]
<1>2. MemoInv' /\ Answered /\ v \in DOMAIN CalcOf
  BY <1>1, CallAnswers DEF LadderInv
<1>3. n \in Id
  BY <1>2, LadderAssumption
<1>4. present' = present \cup {n}
  BY <1>1 DEF G!Upsert
<1> HIDE DEF v, n
<1>5. status' = [m \in Id |-> status'[m]]
  <2>1. G!Upsert(n, D)
    BY <1>1 DEF n, v
  <2>2. \E st, c : status' = G!Stale(st, c)
    BY <2>1, Zenon DEF G!Upsert
  <2> QED BY <2>2 DEF G!Stale
<1>6. NodeInv'
  <2>1. present' \subseteq Id /\ IsFiniteSet(present')
    BY <1>3, <1>4, FS_AddElement DEF LadderInv, NodeInv
  <2>2. spans' = [m \in Id |-> spans'[m]] /\ \A m \in Id : IsFiniteSet(spans'[m])
    BY <1>1, <1>3, FS_EmptySet DEF LadderInv, NodeInv, n, v
  <2>3. value' = [m \in Id |-> value'[m]] /\ inputs' \in [Id -> Input \cup {None}]
    BY <1>1, <1>3 DEF LadderInv, NodeInv, n, v
  <2> QED BY <1>5, <2>1, <2>2, <2>3 DEF NodeInv
<1>7. fresh = [m \in Id |-> fresh[m]]
      /\ \A m \in Id : Current(spans'[m], value'[m], fresh[m])
  <2>1. spans' = [spans EXCEPT ![n] = {}] /\ value' = [value EXCEPT ![n] = v]
    BY <1>1 DEF n, v
  <2>2. /\ cache = [m \in Id |-> cache[m]]
        /\ spans = [m \in Id |-> spans[m]] /\ value = [m \in Id |-> value[m]]
        /\ \A m \in Id : Current(spans[m], value[m], cache[m])
    BY DEF LadderInv, AllCurrent, NodeInv
  <2>3. fresh = [m \in Id |-> IF m = n THEN [Blank EXCEPT !.l3 = v] ELSE cache[m]]
    BY <1>3, <2>2
  <2>4. Current({}, v, [Blank EXCEPT !.l3 = v])
    BY DEF Current, Blank
  <2>5. /\ \A m \in Id : spans'[m] = IF m = n THEN {} ELSE spans[m]
        /\ \A m \in Id : value'[m] = IF m = n THEN v ELSE value[m]
    BY <1>3, <2>1, <2>2
  <2> QED BY <2>2, <2>3, <2>4, <2>5
<1>8. cache' = Unresulted(fresh, status')
  BY <1>1 DEF n, v
<1> HIDE DEF fresh
<1>9. AllCurrent(cache)'
  BY <1>7, <1>8, UnresultedKeeps DEF AllCurrent
<1>10. SpeculationInBudget'
  BY <1>1 DEF LadderInv, SpeculationInBudget, speculator
<1> QED BY <1>2, <1>6, <1>9, <1>10 DEF LadderInv

LEMMA CorroborateKeeps ==
    ASSUME LadderInv, NEW n \in present, NEW e \in present, Corroborate(n, e)
    PROVE  LadderInv' /\ answer' = None
<1>1. n \in Id /\ e \in Id
  BY DEF LadderInv, NodeInv
<1>2. /\ UNCHANGED <<present, status, value, inputs, spent>>
      /\ spans' = [spans EXCEPT ![n] = @ \cup SpansOf[e]]
      /\ cache' = [cache EXCEPT ![n].l1 = None, ![n].l2 = None]
      /\ Unanswered
  BY DEF Corroborate, G!Corroborate, speculator
<1>3. MemoInv' /\ answer' = None
  BY <1>2, UnansweredKeeps DEF LadderInv
<1>4. spans' = [m \in Id |-> IF m = n THEN spans[n] \cup SpansOf[e] ELSE spans[m]]
  BY <1>1, <1>2 DEF LadderInv, NodeInv
<1>5. NodeInv'
  <2>1. IsFiniteSet(spans[n] \cup SpansOf[e])
    BY <1>1, LadderAssumption, FS_Union DEF LadderInv, NodeInv
  <2>2. spans' = [m \in Id |-> spans'[m]] /\ \A m \in Id : IsFiniteSet(spans'[m])
    BY <1>4, <2>1 DEF LadderInv, NodeInv
  <2> QED BY <1>2, <2>2 DEF LadderInv, NodeInv
<1>6. cache' = [m \in Id |-> IF m = n THEN [[cache[n] EXCEPT !.l1 = None] EXCEPT !.l2 = None]
                             ELSE cache[m]]
  BY <1>1, <1>2 DEF LadderInv, AllCurrent
<1>7. ASSUME NEW m \in Id
      PROVE  Current(spans'[m], value'[m], cache'[m]) /\ cache'[m].l3 = cache[m].l3
  <2>1. Current(spans[m], value[m], cache[m])
    BY DEF LadderInv, AllCurrent
  <2>2. CASE m = n
    <3>1. cache'[m] = [[cache[n] EXCEPT !.l1 = None] EXCEPT !.l2 = None]
          /\ spans'[m] = spans[n] \cup SpansOf[e] /\ value'[m] = value[n]
      BY <1>2, <1>4, <1>6, <2>2
    <3> QED BY <2>1, <2>2, <3>1 DEF Current
  <2>3. CASE m # n
    BY <1>2, <1>4, <1>6, <2>1, <2>3
  <2> QED BY <2>2, <2>3
<1>8. AllCurrent(cache)'
  <2>1. cache' = [m \in Id |-> cache'[m]]
    BY <1>6
  <2> QED BY <1>2, <1>7, <2>1 DEF LadderInv, AllCurrent
<1> QED BY <1>2, <1>3, <1>5, <1>8 DEF LadderInv, SpeculationInBudget

LEMMA CorrectKeeps ==
    ASSUME LadderInv, NEW old, NEW new, Correct(old, new)
    PROVE  LadderInv' /\ answer' = None
<1>1. /\ UNCHANGED <<present, spans, value, inputs, spent>>
      /\ cache' = Unresulted(cache, status') /\ Unanswered
  BY DEF Correct, G!Contradict, G!Supersede, speculator
<1>2. MemoInv' /\ answer' = None
  BY <1>1, UnansweredKeeps DEF LadderInv
<1>3. status' = [m \in Id |-> status'[m]]
  <2>1. CASE G!Contradict(new, old)
    BY <2>1 DEF G!Contradict
  <2>2. CASE G!Supersede(old, new)
    <3>1. \E st, c : status' = G!Stale(st, c)
      BY <2>2, Zenon DEF G!Supersede
    <3> QED BY <3>1 DEF G!Stale
  <2> QED BY <2>1, <2>2 DEF Correct
<1>4. NodeInv'
  BY <1>1, <1>3 DEF LadderInv, NodeInv
<1>5. AllCurrent(cache)'
  BY <1>1, UnresultedKeeps DEF LadderInv, AllCurrent
<1> QED BY <1>1, <1>2, <1>4, <1>5 DEF LadderInv, SpeculationInBudget

LEMMA RevalidateKeeps ==
    ASSUME LadderInv, NEW n \in present, Revalidate(n)
    PROVE  LadderInv' /\ (answer' # None => Answered)
<1>1. n \in Id
  BY DEF LadderInv, NodeInv
<1>2. /\ UNCHANGED <<present, spans, inputs, spent>>
      /\ status' = [status EXCEPT ![n] = "fresh"]
      /\ cache' = [cache EXCEPT ![n].l1 = None, ![n].l2 = None,
                                ![n].l3 = IF inputs[n] = None THEN @ ELSE value'[n]]
  BY DEF Revalidate, G!Revalidate, speculator
<1>3. /\ MemoInv' /\ (answer' # None => Answered)
      /\ value' = [m \in Id |-> value'[m]]
      /\ \A m \in Id \ {n} : value'[m] = value[m]
      /\ inputs[n] = None => value'[n] = value[n]
  <2>1. CASE inputs[n] = None
    <3>1. Unanswered /\ value' = value
      BY <2>1 DEF Revalidate, Run
    <3> QED BY <3>1, UnansweredKeeps DEF LadderInv, NodeInv
  <2>2. CASE inputs[n] # None
    <3>1. Call(inputs[n], deps[n]) /\ value' = [value EXCEPT ![n] = answer'.value]
      BY <2>2 DEF Revalidate, Run
    <3>2. inputs[n] \in Input
      BY <1>1, <2>2 DEF LadderInv, NodeInv
    <3>3. MemoInv' /\ Answered
      BY <3>1, <3>2, CallAnswers DEF LadderInv
    <3> QED BY <1>1, <2>2, <3>1, <3>3 DEF LadderInv, NodeInv
  <2> QED BY <2>1, <2>2
<1>4. NodeInv'
  BY <1>2, <1>3 DEF LadderInv, NodeInv
<1> DEFINE r == IF inputs[n] = None THEN cache[n].l3 ELSE value'[n]
<1>5. cache' = [m \in Id |->
                  IF m = n THEN [[[cache[n] EXCEPT !.l1 = None] EXCEPT !.l2 = None] EXCEPT !.l3 = r]
                  ELSE cache[m]]
  <2>1. Current(spans[n], value[n], cache[n])
    BY <1>1 DEF LadderInv, AllCurrent
  <2>2. cache = [m \in Id |-> cache[m]]
    BY DEF LadderInv, AllCurrent
  <2> QED BY <1>1, <1>2, <2>1, <2>2 DEF Current
<1>6. ASSUME NEW m \in Id
      PROVE  /\ Current(spans'[m], value'[m], cache'[m])
             /\ status'[m] = "stale" => cache'[m].l3 = None
  <2>1. /\ Current(spans[m], value[m], cache[m])
        /\ status[m] = "stale" => cache[m].l3 = None
    BY DEF LadderInv, AllCurrent
  <2>2. CASE m = n
    <3>1. cache'[m] = [[[cache[n] EXCEPT !.l1 = None] EXCEPT !.l2 = None] EXCEPT !.l3 = r]
      BY <1>5, <2>2
    <3>2. r \in {None, value'[n]}
      BY <1>3, <2>1, <2>2 DEF Current
    <3> HIDE DEF r
    <3> DEFINE c == cache[n]
    <3>3. c = [l0 |-> c.l0, l1 |-> c.l1, l2 |-> c.l2, l3 |-> c.l3]
          /\ (c.l0 # None => c.l0.key = Cardinality(c.l0.text) /\ c.l0.text \subseteq spans[n])
      BY <2>1, <2>2 DEF Current
    <3>4. cache'[m] = [l0 |-> c.l0, l1 |-> None, l2 |-> None, l3 |-> r]
      BY <3>1, <3>3
    <3> DEFINE x == cache'[m]
    <3>5. x.l0 = c.l0 /\ x.l1 = None /\ x.l2 = None /\ x.l3 = r
          /\ x = [l0 |-> x.l0, l1 |-> x.l1, l2 |-> x.l2, l3 |-> x.l3]
      BY <3>4
    <3> HIDE DEF c, x
    <3>6. Current(spans[n], value'[n], x)
      BY <3>2, <3>3, <3>5 DEF Current
    <3>7. Current(spans'[m], value'[m], cache'[m])
      BY <1>2, <2>2, <3>6 DEF x
    <3>8. status'[m] # "stale"
      BY <1>1, <1>2, <2>2 DEF LadderInv, NodeInv
    <3> QED BY <3>7, <3>8
  <2>3. CASE m # n
    BY <1>2, <1>3, <1>5, <2>1, <2>3 DEF LadderInv, NodeInv
  <2> QED BY <2>2, <2>3
<1>7. AllCurrent(cache)'
  <2>1. cache' = [m \in Id |-> cache'[m]]
    BY <1>5
  <2> QED BY <1>6, <2>1 DEF AllCurrent
<1> QED BY <1>2, <1>3, <1>4, <1>7 DEF LadderInv, SpeculationInBudget

LEMMA LadderStep ==
    ASSUME LadderInv, [Next]_vars
    PROVE  LadderInv' /\ [answer' # None => Answered]_vars
<1>1. CASE UNCHANGED vars
  <2>1. NodeInv' /\ MemoInv' /\ AllCurrent(cache)' /\ SpeculationInBudget'
    BY <1>1 DEF LadderInv, NodeInv, MemoInv, AllCurrent, SpeculationInBudget, vars, graph,
                execution, speculator
  <2> QED BY <1>1, <2>1 DEF LadderInv
<1>2. CASE Register
  <2>1. UNCHANGED <<graph, spans, value, cache, inputs, memo, spent>> /\ answer' = None
        /\ registered < Len(Result) /\ registered' = registered + 1
    BY <1>2 DEF Register, speculator
  <2>2. Len(Result) \in Nat
    BY LadderAssumption, LenProperties
  <2>3. MemoInv'
    BY <2>1, <2>2 DEF LadderInv, MemoInv
  <2>4. NodeInv' /\ AllCurrent(cache)' /\ SpeculationInBudget'
    BY <2>1 DEF LadderInv, NodeInv, AllCurrent, SpeculationInBudget, graph
  <2> QED BY <2>1, <2>3, <2>4 DEF LadderInv
<1>3. CASE Compute
  BY <1>3, ComputeKeeps
<1>4. CASE \E n, e \in present : Corroborate(n, e)
  BY <1>4, CorroborateKeeps
<1>5. CASE \E old, new \in present : Correct(old, new)
  BY <1>5, CorrectKeeps
<1>6. CASE \E n \in present : Revalidate(n)
  BY <1>6, RevalidateKeeps
<1>7. CASE Plan
  <2> DEFINE blank == [n \in Id |-> Blank]
  <2>1. AllCurrent(cache) /\ AllCurrent(blank)
    BY DEF LadderInv, AllCurrent, Current, Blank
  <2> HIDE DEF blank
  <2>2. Planned(cache) \/ Planned(blank)
    BY <1>7 DEF Plan, blank
  <2> QED BY <2>1, <2>2, PlannedKeeps DEF LadderInv
<1>8. CASE Feedback
  <2>1. UNCHANGED <<graph, spans, value, cache, inputs, spent>> /\ Unanswered
    BY <1>8 DEF Feedback
  <2>2. MemoInv' /\ answer' = None
    BY <2>1, UnansweredKeeps DEF LadderInv
  <2>3. NodeInv' /\ AllCurrent(cache)' /\ SpeculationInBudget'
    BY <2>1 DEF LadderInv, NodeInv, AllCurrent, SpeculationInBudget, graph
  <2> QED BY <2>2, <2>3 DEF LadderInv
<1> QED BY <1>1, <1>2, <1>3, <1>4, <1>5, <1>6, <1>7, <1>8 DEF Next

LEMMA LadderInit == Init => LadderInv
<1> SUFFICES ASSUME Init PROVE LadderInv
  OBVIOUS
<1>1. NodeInv
  BY LadderAssumption DEF Init, NodeInv
<1>2. MemoInv
  <2>1. Len(Result) \in Nat
    BY LadderAssumption, LenProperties
  <2> QED BY <2>1 DEF Init, MemoInv
<1>3. AllCurrent(cache)
  BY DEF Init, AllCurrent, Current, Blank
<1>4. SpeculationInBudget
  BY LadderAssumption DEF Init, SpeculationInBudget
<1> QED BY <1>1, <1>2, <1>3, <1>4 DEF LadderInv

-----------------------------------------------------------------------------
\* At every step what is cached is right for its node, what the memo holds was
\* computed for its key, and prefetching has kept to its budget.
THEOREM LadderInvariant == Spec => []LadderInv
  BY LadderInit, LadderStep, PTL DEF Spec

\* No cached level outlives what it was made from: not the spans a corroboration
\* adds to, not the value a derivation run again replaces.  That a size memo is
\* keyed on the number of spans is enough, because a node never loses one.
THEOREM LevelsStayCurrent == Spec => []LevelsAreCurrent
<1>1. LadderInv => LevelsAreCurrent
  <2> SUFFICES ASSUME LadderInv, NEW n \in present
               PROVE  /\ cache[n].l0 # None /\ cache[n].l0.key = Cardinality(spans[n])
                            => cache[n].l0.text = spans[n]
                      /\ cache[n].l1 \in {None, spans[n]}
                      /\ cache[n].l2 \in {None, <<value[n], spans[n]>>}
                      /\ cache[n].l3 \in {None, value[n]}
    BY DEF LevelsAreCurrent
  <2>1. Current(spans[n], value[n], cache[n]) /\ IsFiniteSet(spans[n])
    BY DEF LadderInv, NodeInv, AllCurrent
  <2>2. ASSUME cache[n].l0 # None, cache[n].l0.key = Cardinality(spans[n])
        PROVE  cache[n].l0.text = spans[n]
    <3>1. cache[n].l0.text \in SUBSET spans[n]
          /\ Cardinality(spans[n]) = Cardinality(cache[n].l0.text)
      BY <2>1, <2>2 DEF Current
    <3> QED BY <2>1, <3>1, FS_Subset
  <2> QED BY <2>1, <2>2 DEF Current
<1> QED BY <1>1, LadderInvariant, PTL

\* What the memo answers was computed by a closure of that name, for these inputs,
\* over the dependencies as they read at the call.
THEOREM MemoAnswers == Spec => MemoAnswersThisCall
<1>1. LadderInv /\ [Next]_vars => [answer' # None => Answered]_vars
  BY LadderStep
<1>2. [answer' # None => Answered]_vars =>
         [answer' # None =>
             /\ \E version \in 1 .. registered : answer'.value = Result[version][answer'.inputs]
             /\ answer'.seen = Content(answer'.deps)]_vars
  BY DEF Answered
<1> QED BY <1>1, <1>2, LadderInvariant, PTL DEF Spec, MemoAnswersThisCall

\* Prefetching never builds more levels than it may, because a plan has embedded
\* everything it predicts.
THEOREM PrefetchKeepsItsBudget == Spec => []SpeculationInBudget
<1>1. LadderInv => SpeculationInBudget
  BY DEF LadderInv
<1> QED BY <1>1, LadderInvariant, PTL

=============================================================================
