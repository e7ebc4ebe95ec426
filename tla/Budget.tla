------------------------------- MODULE Budget -------------------------------
(***************************************************************************)
(* The attention budget (budget.rs): at most one choice, a level with its  *)
(* cost and utility, for each candidate node, worth as much as possible    *)
(* within the budget.  A multiple-choice knapsack solved by dynamic        *)
(* programming over quantised costs.                                       *)
(*                                                                         *)
(* Choice == [level, cost, utility]; candidate == [node, index, options, pinned]  *)
(* with options a sequence.  Utilities are whole numbers here.             *)
(***************************************************************************)
EXTENDS Integers, Sequences, FiniteSets, FiniteSetsExt, SequencesExt

CONSTANT MaxDpBuckets      \* MAX_DP_BUCKETS: 400

Keep == [level |-> "none", cost |-> 0, utility |-> 0]   \* Option<Choice>::None

CeilDiv(a, b) == (a + b - 1) \div b

Rank(level) == CASE level = "L2" -> 0 [] level = "L1" -> 1
                 [] level = "L3" -> 2 [] OTHER -> 3

\* What of a sequence is in S, in its order.
Among(s, S) ==
    LET kept[i \in 0 .. Len(s)] ==
          IF i = 0 THEN <<>>
          ELSE IF s[i] \in S THEN Append(kept[i - 1], s[i]) ELSE kept[i - 1]
    IN  kept[Len(s)]

\* Candidate::cheapest(): the lowest cost, the compacter level first.
Cheapest(options) ==
    CHOOSE o \in ToSet(options) : \A p \in ToSet(options) :
        o.cost < p.cost \/ (o.cost = p.cost /\ Rank(o.level) <= Rank(p.level))

Total(choices) ==
    LET sum[i \in 0 .. Len(choices)] ==
          IF i = 0 THEN 0 ELSE sum[i - 1] + choices[i].cost
    IN  sum[Len(choices)]

\* A candidate without options is passed over.
Priced(cands) == Among(cands, {c \in ToSet(cands) : c.options # <<>>})

\* Where a candidate starts from: a pinned one from its cheapest option, which is
\* reserved for it before anything else competes, another from nothing.
Base(cand) == IF cand.pinned THEN Cheapest(cand.options) ELSE Keep
Reserved(cands) == [i \in DOMAIN Priced(cands) |-> Base(Priced(cands)[i])]

\* One item of the knapsack: doing nothing first, then for a pinned candidate the
\* upgrades from what is reserved for it, for another its admission.
Item(cand, quantum) ==
    LET base  == Base(cand)
        moves == Among(cand.options,
                       {o \in ToSet(cand.options) : cand.pinned => o.cost > base.cost})
    IN  <<[cost |-> 0, value |-> 0, choice |-> base]>>
        \o [i \in DOMAIN moves |->
              [cost |-> CeilDiv(moves[i].cost - base.cost, quantum),
               value |-> moves[i].utility - base.utility, choice |-> moves[i]]]

\* dp: the most the first i items are worth within capacity c.
Table(items, buckets) ==
    LET dp[i \in 0 .. Len(items)] ==
          IF i = 0 THEN [c \in 0 .. buckets |-> 0]
          ELSE LET before == dp[i - 1]
                   moves  == ToSet(items[i])
               IN  [c \in 0 .. buckets |->
                      Max({before[c - x.cost] + x.value :
                             x \in {y \in moves : y.cost <= c}})]
    IN  [i \in 0 .. Len(items) |-> dp[i]]

\* The choice of item i that gives the value of the table at capacity c: the first.
Taken(items, dp, i, c) ==
    LET item     == items[i]
        gives(j) == item[j].cost <= c
                    /\ dp[i - 1][c - item[j].cost] + item[j].value = dp[i][c]
    IN  item[CHOOSE j \in DOMAIN item : gives(j) /\ \A k \in 1 .. j - 1 : ~gives(k)]

\* The walk back: item by item from the smallest best capacity.
Backtrack(items, dp, buckets) ==
    LET n     == Len(items)
        start == Min({c \in 0 .. buckets : \A d \in 0 .. buckets : dp[n][d] <= dp[n][c]})
        left[i \in 0 .. n] ==      \* the capacity left after the last i items
            IF i = 0 THEN start
            ELSE LET room == left[i - 1] IN room - Taken(items, dp, n - i + 1, room).cost
    IN  [i \in 1 .. n |-> Taken(items, dp, i, left[n - i]).choice]

\* An allocation: the choices made, one record per node admitted.
Entry(cand, choice) ==
    [node |-> cand.node, level |-> choice.level, cost |-> choice.cost,
     utility |-> choice.utility]
Allocation(chosen, overflow) ==
    [chosen |-> chosen, tokens |-> Total(chosen), overflow |-> overflow]

\* Not even the mandatory set fits: it is admitted in utility order until full.
MoreUseful(c, d) ==
    \/ Base(c).utility > Base(d).utility
    \/ Base(c).utility = Base(d).utility /\ c.index <= d.index
AdmitNext(w, budget) ==
    LET best == CHOOSE x \in w.left : \A y \in w.left : MoreUseful(x, y)
        e == Entry(best, Base(best))
    IN  [got  |-> IF Total(w.got) + e.cost <= budget THEN Append(w.got, e) ELSE w.got,
         left |-> w.left \ {best}]
MandatoryFirst(cands, budget) ==
    LET forced == {c \in ToSet(Priced(cands)) : c.pinned}
        round[k \in 0 .. Cardinality(forced)] ==
            IF k = 0 THEN [got |-> <<>>, left |-> forced]
            ELSE AdmitNext(round[k - 1], budget)
    IN  Allocation(round[Cardinality(forced)].got, TRUE)

Quantum(free) == Max({CeilDiv(free, MaxDpBuckets), 1})
BucketsShort(free, quantum) == Max({free \div quantum - 1, 1})
Buckets(free, quantum) == Max({free \div quantum, 1})

\* The knapsack for what the mandatory set leaves of the budget.
Knapsack(cands, free) ==
    LET priced  == Priced(cands)
        items   == [i \in DOMAIN priced |-> Item(priced[i], Quantum(free))]
        buckets == Buckets(free, Quantum(free))
        picked  == Backtrack(items, Table(items, buckets), buckets)
    IN  [i \in DOMAIN priced |-> Entry(priced[i], picked[i])]
Admitted(all) == Among(all, {e \in ToSet(all) : e.level # "none"})

Solve(cands, budget) ==
    LET mandatory == Total(Reserved(cands))
    IN  IF budget = 0 \/ cands = <<>>
        THEN Allocation(<<>>, \E c \in ToSet(cands) : c.pinned)
        ELSE IF mandatory > budget THEN MandatoryFirst(cands, budget)
        ELSE Allocation(Admitted(Knapsack(cands, budget - mandatory)), FALSE)
=============================================================================
