---------------------------- MODULE Planner_proofs -----------------------------
(***************************************************************************)
(* What a plan admits, for any graph, query and budget.                    *)
(***************************************************************************)
EXTENDS Planner, Prompt, FiniteSetTheorems, SequenceTheorems, WellFoundedInduction, TLAPS

-----------------------------------------------------------------------------
(* Loops.  A claim about each round of a loop is a set of rounds, closed   *)
(* under going on to the next.                                             *)

LEMMA LeastExists ==
    ASSUME NEW S \in SUBSET Nat, S # {}
    PROVE  \E x \in S : \A y \in S : x <= y
<1>1. PICK x \in S : \A y \in S : ~ (<<y, x>> \in OpToRel(<, Nat))
  BY NatLessThanWellFounded, WFMin
<1>2. \A y \in S : ~ (y < x)
  BY <1>1 DEF OpToRel
<1> QED BY <1>2

LEMMA EveryRound ==
    ASSUME NEW N \in Nat, NEW S, 0 \in S, \A i \in 1 .. N : i - 1 \in S => i \in S
    PROVE  \A i \in 0 .. N : i \in S
<1> DEFINE Missing == {i \in 0 .. N : i \notin S}
<1> SUFFICES ASSUME Missing # {} PROVE FALSE
  OBVIOUS
<1>1. Missing \in SUBSET Nat
  OBVIOUS
<1> HIDE DEF Missing
<1>2. PICK i \in Missing : \A j \in Missing : i <= j
  BY <1>1, LeastExists, Zenon
<1>3. i \in 0 .. N /\ i \notin S /\ i # 0
  BY <1>2 DEF Missing
<1>4. i \in 1 .. N /\ i - 1 \in 0 .. N /\ i - 1 \in Nat /\ ~ (i <= i - 1)
  BY <1>3
<1>5. i - 1 \in S
  BY <1>2, <1>4 DEF Missing
<1> QED BY <1>3, <1>4, <1>5

IsWalk(w, N, X, base, step) ==
    /\ w \in [0 .. N -> X] /\ w[0] = base
    /\ \A i \in 1 .. N : w[i] = step[i][w[i - 1]]

LEMMA WalkExists ==
    ASSUME NEW N \in Nat, NEW X, NEW base \in X, NEW step \in [1 .. N -> [X -> X]]
    PROVE  \E w : IsWalk(w, N, X, base, step)
<1> DEFINE Goes(n) == \E w \in [0 .. n -> X] :
                         w[0] = base /\ \A i \in 1 .. n : w[i] = step[i][w[i - 1]]
           Good == {n \in 0 .. N : Goes(n)}
<1>1. 0 \in Good
  <2> DEFINE w == [i \in 0 .. 0 |-> base]
  <2>1. w \in [0 .. 0 -> X] /\ w[0] = base
    OBVIOUS
  <2>2. \A i \in 1 .. 0 : w[i] = step[i][w[i - 1]]
    OBVIOUS
  <2> HIDE DEF w
  <2>3. Goes(0)
    BY <2>1, <2>2
  <2> QED BY <2>3
<1>2. ASSUME NEW n \in 1 .. N, n - 1 \in Good
      PROVE  n \in Good
  <2>1. PICK v \in [0 .. n - 1 -> X] :
            v[0] = base /\ \A i \in 1 .. n - 1 : v[i] = step[i][v[i - 1]]
    BY <1>2
  <2>2. n - 1 \in 0 .. n - 1 /\ v[n - 1] \in X
    BY <2>1
  <2> DEFINE w == [i \in 0 .. n |-> IF i = n THEN step[n][v[n - 1]] ELSE v[i]]
  <2>3. step[n][v[n - 1]] \in X
    BY <2>2
  <2>4. w \in [0 .. n -> X]
    BY <2>1, <2>3
  <2>5. w[0] = base /\ w[n] = step[n][v[n - 1]]
    BY <2>1
  <2>6. \A i \in 0 .. n - 1 : w[i] = v[i]
    OBVIOUS
  <2> HIDE DEF w
  <2>7. \A i \in 1 .. n : w[i] = step[i][w[i - 1]]
    <3> SUFFICES ASSUME NEW i \in 1 .. n PROVE w[i] = step[i][w[i - 1]]
      OBVIOUS
    <3>1. i - 1 \in 0 .. n - 1 /\ w[i - 1] = v[i - 1]
      BY <2>6
    <3>2. CASE i = n
      BY <2>5, <3>1, <3>2
    <3>3. CASE i # n
      <4>1. i \in 1 .. n - 1 /\ i \in 0 .. n - 1
        BY <3>3
      <4> QED BY <2>1, <2>6, <3>1, <4>1
    <3> QED BY <3>2, <3>3
  <2>8. Goes(n)
    BY <2>4, <2>5, <2>7
  <2> QED BY <2>8
<1> HIDE DEF Good
<1>3. \A n \in 0 .. N : n \in Good
  BY <1>1, <1>2, EveryRound
<1>4. Goes(N)
  BY <1>3 DEF Good
<1> QED BY <1>4 DEF IsWalk

-----------------------------------------------------------------------------
(* Lists: what Among and Total compute.                                    *)

KeptRound(s, S, f, i) ==
    IF i = 0 THEN <<>> ELSE IF s[i] \in S THEN Append(f[i - 1], s[i]) ELSE f[i - 1]
IsKept(s, S, f) == f = [i \in 0 .. Len(s) |-> KeptRound(s, S, f, i)]

LEMMA KeptRounds ==
    ASSUME NEW s, NEW S, NEW f, Len(s) \in Nat, IsKept(s, S, f)
    PROVE  /\ f = [i \in 0 .. Len(s) |-> f[i]] /\ f[0] = <<>>
           /\ \A i \in 1 .. Len(s) :
                 f[i] = IF s[i] \in S THEN Append(f[i - 1], s[i]) ELSE f[i - 1]
<1>1. \A i \in 0 .. Len(s) : f[i] = KeptRound(s, S, f, i)
  BY DEF IsKept
<1>2. 0 \in 0 .. Len(s) /\ \A i \in 1 .. Len(s) : i \in 0 .. Len(s) /\ i # 0
  OBVIOUS
<1>3. f = [i \in 0 .. Len(s) |-> f[i]]
  BY DEF IsKept
<1> QED BY <1>1, <1>2, <1>3 DEF KeptRound

LEMMA AppendSet ==
    ASSUME NEW T, NEW s \in Seq(T), NEW x \in T
    PROVE  /\ Append(s, x) \in Seq(T) /\ Len(Append(s, x)) = Len(s) + 1
           /\ ToSet(Append(s, x)) = ToSet(s) \cup {x}
<1> DEFINE n == Len(s)
           t == Append(s, x)
<1>1. /\ t \in Seq(T) /\ Len(t) = n + 1 /\ t[n + 1] = x
      /\ \A j \in 1 .. n : t[j] = s[j]
  BY AppendProperties
<1>2. DOMAIN s = 1 .. n /\ DOMAIN t = 1 .. n + 1 /\ n \in Nat
  BY <1>1, LenProperties
<1> HIDE DEF n, t
<1>3. 1 .. n + 1 = (1 .. n) \cup {n + 1}
  BY <1>2
<1>4. {t[j] : j \in 1 .. n + 1} = {t[j] : j \in 1 .. n} \cup {t[n + 1]}
  BY <1>3
<1>5. {t[j] : j \in 1 .. n} = {s[j] : j \in 1 .. n}
  BY <1>1
<1> QED BY <1>1, <1>2, <1>4, <1>5 DEF ToSet, n, t

LEMMA AmongWalk ==
    ASSUME NEW T, NEW s \in Seq(T), NEW S
    PROVE  \E f \in [0 .. Len(s) -> Seq(T)] : IsKept(s, S, f) /\ Among(s, S) = f[Len(s)]
<1>1. Len(s) \in Nat /\ s \in [1 .. Len(s) -> T]
  BY LenProperties
<1>2. PICK step \in [1 .. Len(s) -> [Seq(T) -> Seq(T)]] :
         \A i \in 1 .. Len(s), t \in Seq(T) :
            step[i][t] = IF s[i] \in S THEN Append(t, s[i]) ELSE t
  <2> DEFINE next == [i \in 1 .. Len(s) |-> [t \in Seq(T) |->
                        IF s[i] \in S THEN Append(t, s[i]) ELSE t]]
  <2>1. ASSUME NEW i \in 1 .. Len(s), NEW t \in Seq(T)
        PROVE  (IF s[i] \in S THEN Append(t, s[i]) ELSE t) \in Seq(T)
    BY <1>1, AppendProperties
  <2>2. next \in [1 .. Len(s) -> [Seq(T) -> Seq(T)]]
    BY <2>1
  <2>3. \A i \in 1 .. Len(s), t \in Seq(T) :
            next[i][t] = IF s[i] \in S THEN Append(t, s[i]) ELSE t
    OBVIOUS
  <2> QED BY <2>2, <2>3
<1>3. <<>> \in Seq(T)
  OBVIOUS
<1>4. PICK w \in [0 .. Len(s) -> Seq(T)] :
         w[0] = <<>> /\ \A i \in 1 .. Len(s) : w[i] = step[i][w[i - 1]]
  <2>1. Len(s) \in Nat /\ step \in [1 .. Len(s) -> [Seq(T) -> Seq(T)]]
    BY <1>1, <1>2
  <2>2. \E w : IsWalk(w, Len(s), Seq(T), <<>>, step)
    BY <2>1, <1>3, WalkExists
  <2> QED BY <2>2 DEF IsWalk
<1>5. ASSUME NEW i \in 1 .. Len(s)
      PROVE  w[i] = IF s[i] \in S THEN Append(w[i - 1], s[i]) ELSE w[i - 1]
  <2>1. i - 1 \in 0 .. Len(s)
    BY <1>1
  <2>2. w[i - 1] \in Seq(T)
    BY <1>4, <2>1
  <2> QED BY <1>2, <1>4, <2>2
<1>6. IsKept(s, S, w)
  <2>1. w = [i \in 0 .. Len(s) |-> w[i]]
    BY <1>4
  <2>2. \A i \in 0 .. Len(s) : w[i] = KeptRound(s, S, w, i)
    <3> TAKE i \in 0 .. Len(s)
    <3>1. i # 0 => i \in 1 .. Len(s)
      BY <1>1
    <3> QED BY <1>4, <1>5, <3>1 DEF KeptRound
  <2> QED BY <2>1, <2>2 DEF IsKept
<1>7. PICK f : IsKept(s, S, f) /\ Among(s, S) = f[Len(s)]
  <2> DEFINE kept == CHOOSE x : IsKept(s, S, x)
  <2>1. Among(s, S) = kept[Len(s)]
    BY DEF Among, IsKept, KeptRound
  <2>2. IsKept(s, S, kept)
    BY <1>6
  <2> QED BY <2>1, <2>2
<1>8. /\ f[0] = <<>>
      /\ \A i \in 1 .. Len(s) : f[i] = IF s[i] \in S THEN Append(f[i - 1], s[i]) ELSE f[i - 1]
  BY <1>1, <1>7, KeptRounds
<1>9. \A i \in 0 .. Len(s) : f[i] = w[i]
  <2> DEFINE Good == {i \in 0 .. Len(s) : f[i] = w[i]}
  <2>1. 0 \in Good
    BY <1>1, <1>4, <1>8
  <2>2. \A i \in 1 .. Len(s) : i - 1 \in Good => i \in Good
    <3> TAKE i \in 1 .. Len(s)
    <3>1. i \in 0 .. Len(s)
      BY <1>1
    <3> QED BY <1>5, <1>8, <3>1
  <2> HIDE DEF Good
  <2>3. \A i \in 0 .. Len(s) : i \in Good
    BY <1>1, <2>1, <2>2, EveryRound
  <2> QED BY <2>3 DEF Good
<1>10. f \in [0 .. Len(s) -> Seq(T)]
  <2>1. f = [i \in 0 .. Len(s) |-> KeptRound(s, S, f, i)]
    BY <1>7 DEF IsKept
  <2>2. \A i \in 0 .. Len(s) : KeptRound(s, S, f, i) = w[i] /\ w[i] \in Seq(T)
    BY <1>4, <1>9, <2>1
  <2> QED BY <2>1, <2>2
<1> QED BY <1>7, <1>10

\* Among keeps what is in the set, and only that.
LEMMA AmongIs ==
    ASSUME NEW T, NEW s \in Seq(T), NEW S
    PROVE  /\ Among(s, S) \in Seq(T)
           /\ ToSet(Among(s, S)) = ToSet(s) \cap S
           /\ Len(Among(s, S)) <= Len(s)
<1> DEFINE N == Len(s)
<1>1. N \in Nat /\ s \in [1 .. N -> T] /\ DOMAIN s = 1 .. N
  BY LenProperties
<1>2. PICK f \in [0 .. N -> Seq(T)] : IsKept(s, S, f) /\ Among(s, S) = f[N]
  BY AmongWalk
<1>3. /\ f[0] = <<>>
      /\ \A i \in 1 .. N : f[i] = IF s[i] \in S THEN Append(f[i - 1], s[i]) ELSE f[i - 1]
  BY <1>1, <1>2, KeptRounds
<1> DEFINE Good == {i \in 0 .. N : ToSet(f[i]) = {s[j] : j \in 1 .. i} \cap S /\ Len(f[i]) <= i}
<1> HIDE DEF N
<1>4. 0 \in Good
  BY <1>1, <1>3 DEF ToSet
<1>5. ASSUME NEW i \in 1 .. N, i - 1 \in Good
      PROVE  i \in Good
  <2>1. f[i - 1] \in Seq(T) /\ s[i] \in T
    BY <1>1, <1>2
  <2>2. {s[j] : j \in 1 .. i} = {s[j] : j \in 1 .. i - 1} \cup {s[i]}
    <3>1. 1 .. i = (1 .. i - 1) \cup {i}
      OBVIOUS
    <3> QED BY <3>1
  <2>3. CASE s[i] \in S
    <3>1. f[i] = Append(f[i - 1], s[i])
      BY <1>3, <2>3
    <3>2. Len(f[i]) = Len(f[i - 1]) + 1
      BY <2>1, <3>1, AppendSet
    <3>3. ToSet(f[i]) = ToSet(f[i - 1]) \cup {s[i]}
      BY <2>1, <3>1, AppendSet
    <3>4. Len(f[i - 1]) <= i - 1 /\ Len(f[i - 1]) \in Nat
      BY <1>5, <2>1, LenProperties
    <3> QED BY <1>5, <2>2, <2>3, <3>2, <3>3, <3>4
  <2>4. CASE s[i] \notin S
    <3>1. f[i] = f[i - 1]
      BY <1>3, <2>4
    <3>2. Len(f[i - 1]) <= i - 1 /\ Len(f[i - 1]) \in Nat
      BY <1>5, <2>1, LenProperties
    <3> QED BY <1>5, <2>2, <2>4, <3>1, <3>2
  <2> QED BY <2>3, <2>4
<1> HIDE DEF Good
<1>6. N \in Good
  <2>1. \A i \in 0 .. N : i \in Good
    BY <1>1, <1>4, <1>5, EveryRound
  <2> QED BY <1>1, <2>1
<1> QED BY <1>1, <1>2, <1>6 DEF Good, ToSet, N

\* Where all of a sequence is in the set, Among is that sequence.
LEMMA AmongAll ==
    ASSUME NEW T, NEW s \in Seq(T), NEW S, ToSet(s) \subseteq S
    PROVE  Among(s, S) = s
<1>1. Len(s) \in Nat /\ s \in [1 .. Len(s) -> T] /\ DOMAIN s = 1 .. Len(s)
  BY LenProperties
<1>2. PICK f \in [0 .. Len(s) -> Seq(T)] : IsKept(s, S, f) /\ Among(s, S) = f[Len(s)]
  BY AmongWalk
<1>3. \A i \in 1 .. Len(s) : s[i] \in S
  BY <1>1 DEF ToSet
<1>4. f[0] = <<>> /\ \A i \in 1 .. Len(s) : f[i] = Append(f[i - 1], s[i])
  BY <1>1, <1>2, <1>3, KeptRounds, ZenonT(30)
<1> DEFINE Good == {i \in 0 .. Len(s) : Len(f[i]) = i /\ \A j \in 1 .. i : f[i][j] = s[j]}
<1>5. 0 \in Good
  BY <1>1, <1>4
<1>6. ASSUME NEW i \in 1 .. Len(s), i - 1 \in Good
      PROVE  i \in Good
  <2>1. f[i - 1] \in Seq(T) /\ s[i] \in T /\ i \in 0 .. Len(s) /\ i - 1 \in Nat
    BY <1>1, <1>2
  <2>2. Len(f[i - 1]) = i - 1 /\ \A j \in 1 .. i - 1 : f[i - 1][j] = s[j]
    BY <1>6
  <2>3. f[i] = Append(f[i - 1], s[i])
    BY <1>4
  <2>4. /\ Len(f[i]) = Len(f[i - 1]) + 1 /\ f[i][Len(f[i - 1]) + 1] = s[i]
        /\ \A j \in 1 .. Len(f[i - 1]) : f[i][j] = f[i - 1][j]
    BY <2>1, <2>3, AppendProperties
  <2>5. Len(f[i]) = i /\ f[i][i] = s[i]
    BY <2>2, <2>4
  <2>6. \A j \in 1 .. i : f[i][j] = s[j]
    BY <2>2, <2>4, <2>5
  <2> QED BY <2>1, <2>5, <2>6
<1> HIDE DEF Good
<1>7. \A i \in 0 .. Len(s) : i \in Good
  BY <1>1, <1>5, <1>6, EveryRound
<1>8. f[Len(s)] \in Seq(T) /\ Len(f[Len(s)]) = Len(s)
  BY <1>1, <1>2, <1>7 DEF Good
<1>9. \A j \in 1 .. Len(s) : f[Len(s)][j] = s[j]
  BY <1>1, <1>7 DEF Good
<1> QED BY <1>2, <1>8, <1>9, SeqEqual

\* Total adds from the front.
SumRound(s, f, i) == IF i = 0 THEN 0 ELSE f[i - 1] + s[i].cost
Sums(s, f) == f = [i \in 0 .. Len(s) |-> SumRound(s, f, i)]
Priceable(s) == Len(s) \in Nat /\ \A i \in 1 .. Len(s) : s[i].cost \in Int

LEMMA SumRounds ==
    ASSUME NEW s, NEW f, Priceable(s), Sums(s, f)
    PROVE  /\ f[0] = 0 /\ \A i \in 1 .. Len(s) : f[i] = f[i - 1] + s[i].cost
           /\ \A i \in 0 .. Len(s) : f[i] \in Int
           /\ Total(s) = f[Len(s)]
<1>1. Len(s) \in Nat /\ \A i \in 1 .. Len(s) : s[i].cost \in Int
  BY DEF Priceable
<1>2. \A i \in 0 .. Len(s) : f[i] = SumRound(s, f, i)
  BY DEF Sums
<1>3. f[0] = 0 /\ \A i \in 1 .. Len(s) : f[i] = f[i - 1] + s[i].cost
  BY <1>1, <1>2 DEF SumRound
<1> DEFINE sum == CHOOSE g : Sums(s, g)
<1>4. Sums(s, sum)
  OBVIOUS
<1>5. Total(s) = sum[Len(s)]
  BY DEF Total, Sums, SumRound
<1> HIDE DEF sum
<1>6. \A i \in 0 .. Len(s) : sum[i] = SumRound(s, sum, i)
  BY <1>4 DEF Sums
<1>7. sum[0] = 0 /\ \A i \in 1 .. Len(s) : sum[i] = sum[i - 1] + s[i].cost
  BY <1>1, <1>6 DEF SumRound
<1> DEFINE Good == {i \in 0 .. Len(s) : f[i] \in Int /\ sum[i] = f[i]}
<1>8. 0 \in Good
  BY <1>1, <1>3, <1>7
<1>9. ASSUME NEW i \in 1 .. Len(s), i - 1 \in Good PROVE i \in Good
  <2>1. i \in 0 .. Len(s) /\ f[i - 1] \in Int /\ sum[i - 1] = f[i - 1]
    BY <1>1, <1>9
  <2>2. f[i] = f[i - 1] + s[i].cost /\ sum[i] = sum[i - 1] + s[i].cost /\ s[i].cost \in Int
    BY <1>1, <1>3, <1>7
  <2> QED BY <2>1, <2>2
<1> HIDE DEF Good
<1>10. \A i \in 0 .. Len(s) : i \in Good
  BY <1>1, <1>8, <1>9, EveryRound
<1> QED BY <1>1, <1>3, <1>5, <1>10 DEF Good

LEMMA SumsExist ==
    ASSUME NEW s, Priceable(s)
    PROVE  \E f : Sums(s, f)
<1>1. Len(s) \in Nat /\ \A i \in 1 .. Len(s) : s[i].cost \in Int
  BY DEF Priceable
<1> DEFINE step == [i \in 1 .. Len(s) |-> [t \in Int |-> t + s[i].cost]]
<1>2. step \in [1 .. Len(s) -> [Int -> Int]] /\ 0 \in Int
  BY <1>1
<1>3. \A i \in 1 .. Len(s), t \in Int : step[i][t] = t + s[i].cost
  OBVIOUS
<1> HIDE DEF step
<1>4. PICK w : IsWalk(w, Len(s), Int, 0, step)
  BY <1>1, <1>2, WalkExists
<1>5. w \in [0 .. Len(s) -> Int] /\ w[0] = 0
  BY <1>4 DEF IsWalk
<1>6. ASSUME NEW i \in 0 .. Len(s) PROVE w[i] = SumRound(s, w, i)
  <2>1. CASE i = 0
    BY <1>5, <2>1 DEF SumRound
  <2>2. CASE i # 0
    <3>1. i \in 1 .. Len(s) /\ i - 1 \in 0 .. Len(s)
      BY <1>1, <2>2
    <3>2. w[i] = step[i][w[i - 1]] /\ w[i - 1] \in Int
      BY <1>4, <1>5, <3>1 DEF IsWalk
    <3> QED BY <1>3, <2>2, <3>1, <3>2 DEF SumRound
  <2> QED BY <2>1, <2>2
<1>7. Sums(s, w)
  BY <1>5, <1>6 DEF Sums
<1> QED BY <1>7

LEMMA TotalEmpty == Total(<<>>) = 0
<1>1. Priceable(<<>>)
  BY DEF Priceable
<1>2. PICK h : Sums(<<>>, h)
  BY <1>1, SumsExist
<1>3. Total(<<>>) = h[Len(<<>>)] /\ h[0] = 0
  BY <1>1, <1>2, SumRounds
<1> QED BY <1>3

LEMMA TotalAppend ==
    ASSUME NEW T, NEW s \in Seq(T), NEW e \in T, \A x \in T : x.cost \in Int
    PROVE  Total(Append(s, e)) = Total(s) + e.cost
<1> DEFINE t == Append(s, e)
<1>1. /\ t \in Seq(T) /\ Len(s) \in Nat /\ Len(t) = Len(s) + 1 /\ t[Len(s) + 1] = e
      /\ \A j \in 1 .. Len(s) : t[j] = s[j]
  BY AppendProperties, LenProperties
<1> HIDE DEF t
<1>2. Priceable(s) /\ Priceable(t)
  BY <1>1, ElementOfSeq DEF Priceable
<1>3. PICK f : Sums(t, f)
  BY <1>2, SumsExist
<1>4. /\ f[0] = 0 /\ \A i \in 1 .. Len(t) : f[i] = f[i - 1] + t[i].cost
      /\ Total(t) = f[Len(t)]
  BY <1>2, <1>3, SumRounds
<1> DEFINE g == [i \in 0 .. Len(s) |-> f[i]]
<1>5. ASSUME NEW i \in 0 .. Len(s) PROVE f[i] = SumRound(s, g, i)
  <2>1. CASE i = 0
    BY <1>4, <2>1 DEF SumRound
  <2>2. CASE i # 0
    <3>1. i \in 1 .. Len(s) /\ i \in 1 .. Len(t) /\ i - 1 \in 0 .. Len(s)
      BY <1>1, <2>2
    <3>2. g[i - 1] = f[i - 1]
      BY <3>1
    <3> QED BY <1>1, <1>4, <2>2, <3>1, <3>2 DEF SumRound
  <2> QED BY <2>1, <2>2
<1>6. Sums(s, g)
  BY <1>5 DEF Sums
<1>7. g[Len(s)] = f[Len(s)]
  BY <1>1
<1> HIDE DEF g
<1>8. Total(s) = f[Len(s)]
  BY <1>2, <1>6, <1>7, SumRounds
<1>9. Len(t) \in 1 .. Len(t) /\ Len(t) - 1 = Len(s) /\ t[Len(t)] = e
  BY <1>1
<1> QED BY <1>4, <1>8, <1>9 DEF t

LEMMA TotalType ==
    ASSUME NEW T, NEW s \in Seq(T), \A x \in T : x.cost \in Int
    PROVE  Total(s) \in Int
<1>1. Len(s) \in Nat /\ s \in [1 .. Len(s) -> T]
  BY LenProperties
<1>2. Priceable(s)
  BY <1>1 DEF Priceable
<1>3. PICK f : Sums(s, f)
  BY <1>2, SumsExist
<1>4. Total(s) = f[Len(s)] /\ \A i \in 0 .. Len(s) : f[i] \in Int
  BY <1>2, <1>3, SumRounds
<1> QED BY <1>1, <1>4

\* What Among drops without cost does not change the total.
LEMMA TotalAmong ==
    ASSUME NEW T, NEW s \in Seq(T), \A x \in T : x.cost \in Int, NEW S,
           \A x \in ToSet(s) : x \notin S => x.cost = 0
    PROVE  Total(Among(s, S)) = Total(s)
<1>1. Len(s) \in Nat /\ s \in [1 .. Len(s) -> T] /\ DOMAIN s = 1 .. Len(s)
  BY LenProperties
<1>2. PICK f \in [0 .. Len(s) -> Seq(T)] : IsKept(s, S, f) /\ Among(s, S) = f[Len(s)]
  BY AmongWalk
<1>3. /\ f[0] = <<>>
      /\ \A i \in 1 .. Len(s) : f[i] = IF s[i] \in S THEN Append(f[i - 1], s[i]) ELSE f[i - 1]
  BY <1>1, <1>2, KeptRounds
<1>4. Priceable(s)
  BY <1>1 DEF Priceable
<1>5. PICK g : Sums(s, g)
  BY <1>4, SumsExist
<1>6. /\ g[0] = 0 /\ \A i \in 1 .. Len(s) : g[i] = g[i - 1] + s[i].cost
      /\ \A i \in 0 .. Len(s) : g[i] \in Int
      /\ Total(s) = g[Len(s)]
  BY <1>4, <1>5, SumRounds
<1> DEFINE Good == {i \in 0 .. Len(s) : Total(f[i]) = g[i]}
<1>7. 0 \in Good
  BY <1>1, <1>3, <1>6, TotalEmpty
<1>8. ASSUME NEW i \in 1 .. Len(s), i - 1 \in Good PROVE i \in Good
  <2>1. /\ i \in 0 .. Len(s) /\ Total(f[i - 1]) = g[i - 1] /\ s[i] \in T
        /\ f[i - 1] \in Seq(T) /\ g[i - 1] \in Int
    BY <1>1, <1>2, <1>6, <1>8
  <2>2. g[i] = g[i - 1] + s[i].cost
    BY <1>6
  <2>3. CASE s[i] \in S
    <3>1. Total(f[i]) = Total(f[i - 1]) + s[i].cost
      BY <1>3, <2>1, <2>3, TotalAppend
    <3> QED BY <2>1, <2>2, <3>1
  <2>4. CASE s[i] \notin S
    <3>1. s[i] \in ToSet(s)
      BY <1>1 DEF ToSet
    <3>2. s[i].cost = 0 /\ f[i] = f[i - 1]
      BY <1>3, <2>4, <3>1
    <3> QED BY <2>1, <2>2, <3>2
  <2> QED BY <2>3, <2>4
<1> HIDE DEF Good
<1>9. \A i \in 0 .. Len(s) : i \in Good
  BY <1>1, <1>7, <1>8, EveryRound
<1>10. Total(f[Len(s)]) = g[Len(s)]
  BY <1>1, <1>9 DEF Good
<1> QED BY <1>2, <1>6, <1>10

-----------------------------------------------------------------------------
(* Sequences without repetition.                                           *)

Distinct(s) == \A i, j \in 1 .. Len(s) : s[i] = s[j] => i = j

LEMMA AppendDistinct ==
    ASSUME NEW T, NEW s \in Seq(T), NEW x \in T, Distinct(s), x \notin ToSet(s)
    PROVE  Distinct(Append(s, x))
<1> DEFINE t == Append(s, x)
<1>1. /\ Len(s) \in Nat /\ Len(t) = Len(s) + 1 /\ t[Len(s) + 1] = x
      /\ \A j \in 1 .. Len(s) : t[j] = s[j]
  BY AppendProperties, LenProperties
<1>2. \A j \in 1 .. Len(s) : s[j] # x
  BY LenProperties DEF ToSet
<1> HIDE DEF t
<1>3. \A i, j \in 1 .. Len(t) : t[i] = t[j] => i = j
  <2> TAKE i, j \in 1 .. Len(t)
  <2>1. i \in 1 .. Len(s) \/ i = Len(s) + 1
    BY <1>1
  <2>2. j \in 1 .. Len(s) \/ j = Len(s) + 1
    BY <1>1
  <2> QED BY <1>1, <1>2, <2>1, <2>2 DEF Distinct
<1> QED BY <1>3 DEF Distinct, t

LEMMA AmongDistinct ==
    ASSUME NEW T, NEW s \in Seq(T), NEW S, Distinct(s)
    PROVE  Distinct(Among(s, S))
<1>1. Len(s) \in Nat /\ s \in [1 .. Len(s) -> T]
  BY LenProperties
<1>2. PICK f \in [0 .. Len(s) -> Seq(T)] : IsKept(s, S, f) /\ Among(s, S) = f[Len(s)]
  BY AmongWalk
<1>3. /\ f[0] = <<>>
      /\ \A i \in 1 .. Len(s) : f[i] = IF s[i] \in S THEN Append(f[i - 1], s[i]) ELSE f[i - 1]
  BY <1>1, <1>2, KeptRounds
<1> DEFINE Good == {i \in 0 .. Len(s) : Distinct(f[i]) /\ ToSet(f[i]) \subseteq {s[j] : j \in 1 .. i}}
<1>4. 0 \in Good
  BY <1>1, <1>3 DEF Distinct, ToSet
<1>5. ASSUME NEW i \in 1 .. Len(s), i - 1 \in Good PROVE i \in Good
  <2>1. /\ i \in 0 .. Len(s) /\ f[i - 1] \in Seq(T) /\ s[i] \in T
        /\ Distinct(f[i - 1]) /\ ToSet(f[i - 1]) \subseteq {s[j] : j \in 1 .. i - 1}
    BY <1>1, <1>2, <1>5
  <2>2. s[i] \notin ToSet(f[i - 1])
    <3>1. \A j \in 1 .. i - 1 : s[j] # s[i]
      BY <1>1 DEF Distinct
    <3> QED BY <2>1, <3>1
  <2>3. \A j \in 1 .. i - 1 : j \in 1 .. i
    OBVIOUS
  <2>4. CASE s[i] \in S
    <3>1. f[i] = Append(f[i - 1], s[i])
      BY <1>3, <2>4
    <3>2. Distinct(f[i])
      BY <2>1, <2>2, <3>1, AppendDistinct
    <3>3. ToSet(f[i]) = ToSet(f[i - 1]) \cup {s[i]}
      BY <2>1, <3>1, AppendSet
    <3> QED BY <2>1, <2>3, <3>2, <3>3
  <2>5. CASE s[i] \notin S
    BY <1>3, <2>1, <2>3, <2>5
  <2> QED BY <2>4, <2>5
<1> HIDE DEF Good
<1>6. \A i \in 0 .. Len(s) : i \in Good
  BY <1>1, <1>4, <1>5, EveryRound
<1> QED BY <1>1, <1>2, <1>6 DEF Good

LEMMA ConcatDistinct ==
    ASSUME NEW T, NEW s \in Seq(T), NEW t \in Seq(T), Distinct(s), Distinct(t),
           ToSet(s) \cap ToSet(t) = {}
    PROVE  Distinct(s \o t)
<1> DEFINE u == s \o t
<1>1. /\ Len(s) \in Nat /\ Len(t) \in Nat /\ Len(u) = Len(s) + Len(t)
      /\ \A i \in 1 .. Len(s) + Len(t) : u[i] = IF i <= Len(s) THEN s[i] ELSE t[i - Len(s)]
  BY ConcatProperties, LenProperties
<1>2. \A i \in 1 .. Len(s), j \in 1 .. Len(t) : s[i] # t[j]
  BY LenProperties DEF ToSet
<1> HIDE DEF u
<1>3. ASSUME NEW i \in 1 .. Len(u), NEW j \in 1 .. Len(u), u[i] = u[j] PROVE i = j
  <2>1. CASE i <= Len(s) /\ j <= Len(s)
    BY <1>1, <1>3, <2>1 DEF Distinct
  <2>2. CASE i > Len(s) /\ j > Len(s)
    <3>1. i - Len(s) \in 1 .. Len(t) /\ j - Len(s) \in 1 .. Len(t)
      BY <1>1, <2>2
    <3>2. t[i - Len(s)] = t[j - Len(s)]
      BY <1>1, <1>3, <2>2
    <3>3. i - Len(s) = j - Len(s)
      BY <3>1, <3>2 DEF Distinct
    <3> QED BY <1>1, <3>3
  <2>3. CASE i <= Len(s) /\ j > Len(s)
    <3>1. i \in 1 .. Len(s) /\ j - Len(s) \in 1 .. Len(t)
      BY <1>1, <2>3
    <3> QED BY <1>1, <1>2, <1>3, <2>3, <3>1
  <2>4. CASE i > Len(s) /\ j <= Len(s)
    <3>1. j \in 1 .. Len(s) /\ i - Len(s) \in 1 .. Len(t)
      BY <1>1, <2>4
    <3> QED BY <1>1, <1>2, <1>3, <2>4, <3>1
  <2> QED BY <1>1, <2>1, <2>2, <2>3, <2>4
<1> QED BY <1>3 DEF Distinct, u

LEMMA ConcatSet ==
    ASSUME NEW T, NEW s \in Seq(T), NEW t \in Seq(T)
    PROVE  s \o t \in Seq(T) /\ ToSet(s \o t) = ToSet(s) \cup ToSet(t)
<1> DEFINE u == s \o t
<1>1. /\ Len(s) \in Nat /\ Len(t) \in Nat /\ Len(u) = Len(s) + Len(t) /\ u \in Seq(T)
      /\ \A i \in 1 .. Len(s) + Len(t) : u[i] = IF i <= Len(s) THEN s[i] ELSE t[i - Len(s)]
  BY ConcatProperties, LenProperties
<1>2. DOMAIN s = 1 .. Len(s) /\ DOMAIN t = 1 .. Len(t) /\ DOMAIN u = 1 .. Len(u)
  BY <1>1, LenProperties
<1> HIDE DEF u
<1>3. ToSet(u) \subseteq ToSet(s) \cup ToSet(t)
  <2> SUFFICES ASSUME NEW i \in 1 .. Len(u) PROVE u[i] \in ToSet(s) \cup ToSet(t)
    BY <1>2 DEF ToSet
  <2>1. CASE i <= Len(s)
    BY <1>1, <1>2, <2>1 DEF ToSet
  <2>2. CASE ~ (i <= Len(s))
    <3>1. i - Len(s) \in 1 .. Len(t) /\ u[i] = t[i - Len(s)]
      BY <1>1, <2>2
    <3> QED BY <1>2, <3>1 DEF ToSet
  <2> QED BY <2>1, <2>2
<1>4. ToSet(s) \subseteq ToSet(u)
  <2> SUFFICES ASSUME NEW i \in 1 .. Len(s) PROVE s[i] \in ToSet(u)
    BY <1>2 DEF ToSet
  <2>1. i \in 1 .. Len(u) /\ u[i] = s[i]
    BY <1>1
  <2> QED BY <1>2, <2>1 DEF ToSet
<1>5. ToSet(t) \subseteq ToSet(u)
  <2> SUFFICES ASSUME NEW i \in 1 .. Len(t) PROVE t[i] \in ToSet(u)
    BY <1>2 DEF ToSet
  <2>1. i + Len(s) \in 1 .. Len(u) /\ ~ (i + Len(s) <= Len(s)) /\ (i + Len(s)) - Len(s) = i
    BY <1>1
  <2>2. u[i + Len(s)] = t[i]
    BY <1>1, <2>1
  <2> QED BY <1>2, <2>1, <2>2 DEF ToSet
<1> QED BY <1>1, <1>3, <1>4, <1>5 DEF u

LEMMA UpToIs ==
    ASSUME NEW T, NEW s \in Seq(T), NEW k \in Nat
    PROVE  /\ UpTo(k, s) \in Seq(T) /\ ToSet(UpTo(k, s)) \subseteq ToSet(s)
           /\ Distinct(s) => Distinct(UpTo(k, s))
           /\ Len(s) <= k => UpTo(k, s) = s
<1>1. Len(s) \in Nat /\ s \in [1 .. Len(s) -> T] /\ DOMAIN s = 1 .. Len(s)
  BY LenProperties
<1>2. PICK m \in 0 .. Len(s) :
         m = (IF k < Len(s) THEN k ELSE Len(s)) /\ (Len(s) <= k => m = Len(s))
  <2>1. CASE k < Len(s)
    <3>1. k \in 0 .. Len(s) /\ ~ (Len(s) <= k)
      BY <1>1, <2>1
    <3> QED BY <2>1, <3>1
  <2>2. CASE ~ (k < Len(s))
    <3>1. Len(s) \in 0 .. Len(s)
      BY <1>1
    <3> QED BY <2>2, <3>1
  <2> QED BY <2>1, <2>2
<1>3. PICK u : u = SubSeq(s, 1, m)
  OBVIOUS
<1>4. \A i \in 1 .. m : s[i] \in T
  BY <1>1
<1>5. /\ u \in Seq(T) /\ Len(u) = IF 1 <= m THEN m - 1 + 1 ELSE 0
      /\ \A i \in 1 .. m - 1 + 1 : u[i] = s[1 + i - 1]
  <2>1. 1 \in Int /\ m \in Int
    BY <1>1
  <2> QED BY <1>3, <1>4, <2>1, SubSeqProperties
<1>6. Len(u) = m /\ (\A i \in 1 .. m : u[i] = s[i]) /\ DOMAIN u = 1 .. m
  BY <1>1, <1>5, LenProperties
<1>7. \A i \in 1 .. m : i \in 1 .. Len(s)
  BY <1>1
<1>8. ToSet(u) \subseteq ToSet(s)
  BY <1>1, <1>6, <1>7 DEF ToSet
<1>9. Distinct(s) => Distinct(u)
  BY <1>6, <1>7 DEF Distinct
<1>10. Len(s) <= k => u = s
  BY <1>2, <1>3, SubSeqFull
<1>11. UpTo(k, s) = u
  BY <1>2, <1>3 DEF UpTo
<1> QED BY <1>5, <1>8, <1>9, <1>10, <1>11

LEMMA OrderIs == Order \in Seq(Id) /\ ToSet(Order) = Id /\ Distinct(Order)
<1>1. /\ IsFiniteSet(Id) /\ Order \in [1 .. Cardinality(Id) -> Id] /\ ToSet(Order) = Id
      /\ Cardinality(Id) \in Nat
  BY PlannerAssumption, FS_CardinalityType
<1> DEFINE D == 1 .. Cardinality(Id)
<1>2. IsFiniteSet(D) /\ Cardinality(D) = Cardinality(Id)
  <2>1. 1 \in Int /\ Cardinality(Id) \in Int
    BY <1>1
  <2> QED BY <1>1, <2>1, FS_Interval
<1>3. Order \in Seq(Id) /\ Len(Order) = Cardinality(Id) /\ DOMAIN Order = D
  BY <1>1, SeqDef
<1>4. \A n \in Id : \E i \in D : Order[i] = n
  BY <1>1, <1>3 DEF ToSet
<1>5. Order \in Surjection(D, Id)
  BY <1>1, <1>4 DEF Surjection
<1>6. Order \in Injection(D, Id)
  BY <1>2, <1>5, FS_SurjSameCardinalityImpliesInj
<1>7. \A i, j \in D : Order[i] = Order[j] => i = j
  BY <1>6 DEF Injection, IsInjective
<1> QED BY <1>1, <1>3, <1>7 DEF Distinct

LEMMA InOrderIs ==
    ASSUME NEW S
    PROVE  InOrder(S) \in Seq(Id) /\ ToSet(InOrder(S)) = S \cap Id /\ Distinct(InOrder(S))
BY OrderIs, AmongIs, AmongDistinct DEF InOrder

-----------------------------------------------------------------------------
(* The expansion: no way in reaches the evidence of history, nothing is    *)
(* reached twice, and what was reached stays.                              *)

CleanWalks == {w \in [reached : Seq(Id), queue : Seq(Id \X Nat)] :
                  Distinct(w.reached) /\ ToSet(w.reached) \cap orphaned = {}}

LEMMA PushIs ==
    ASSUME NEW w \in CleanWalks, NEW n \in Id, NEW depth \in Nat, NEW visit
    PROVE  /\ Push(w, n, depth, visit) \in CleanWalks
           /\ ToSet(w.reached) \subseteq ToSet(Push(w, n, depth, visit).reached)
           /\ n \notin orphaned => n \in ToSet(Push(w, n, depth, visit).reached)
<1>1. w.reached \in Seq(Id) /\ w.queue \in Seq(Id \X Nat)
  BY DEF CleanWalks
<1>2. CASE n \in orphaned \/ n \in ToSet(w.reached)
  BY <1>2 DEF Push
<1>3. CASE n \notin orphaned /\ n \notin ToSet(w.reached)
  <2> DEFINE r == Append(w.reached, n)
             q == IF visit THEN Append(w.queue, <<n, depth>>) ELSE w.queue
  <2>1. Push(w, n, depth, visit) = [reached |-> r, queue |-> q]
    BY <1>3 DEF Push
  <2>2. r \in Seq(Id) /\ ToSet(r) = ToSet(w.reached) \cup {n}
    BY <1>1, AppendSet
  <2>3. Distinct(r)
    BY <1>1, <1>3, AppendDistinct DEF CleanWalks
  <2>4. q \in Seq(Id \X Nat)
    <3>1. <<n, depth>> \in Id \X Nat
      OBVIOUS
    <3>2. Append(w.queue, <<n, depth>>) \in Seq(Id \X Nat)
      BY <1>1, <3>1, AppendProperties
    <3> QED BY <1>1, <3>2
  <2> HIDE DEF r, q
  <2>5. [reached |-> r, queue |-> q] \in CleanWalks
    BY <1>3, <2>2, <2>3, <2>4 DEF CleanWalks
  <2> QED BY <2>1, <2>2, <2>5
<1> QED BY <1>2, <1>3

PushRound(w, ns, depth, visit, f, i) ==
    IF i = 0 THEN w ELSE Push(f[i - 1], ns[i], depth, visit)
IsPushed(w, ns, depth, visit, f) ==
    f = [i \in 0 .. Len(ns) |-> PushRound(w, ns, depth, visit, f, i)]

LEMMA PushAllIs ==
    ASSUME NEW w \in CleanWalks, NEW ns \in Seq(Id), NEW depth \in Nat, NEW visit
    PROVE  /\ PushAll(w, ns, depth, visit) \in CleanWalks
           /\ ToSet(w.reached) \subseteq ToSet(PushAll(w, ns, depth, visit).reached)
           /\ ToSet(ns) \ orphaned \subseteq ToSet(PushAll(w, ns, depth, visit).reached)
<1>1. Len(ns) \in Nat /\ ns \in [1 .. Len(ns) -> Id] /\ DOMAIN ns = 1 .. Len(ns)
  BY LenProperties
<1>2. PICK step \in [1 .. Len(ns) -> [CleanWalks -> CleanWalks]] :
         \A i \in 1 .. Len(ns), v \in CleanWalks : step[i][v] = Push(v, ns[i], depth, visit)
  <2> DEFINE next == [i \in 1 .. Len(ns) |-> [v \in CleanWalks |-> Push(v, ns[i], depth, visit)]]
  <2>1. ASSUME NEW i \in 1 .. Len(ns), NEW v \in CleanWalks
        PROVE  Push(v, ns[i], depth, visit) \in CleanWalks
    BY <1>1, PushIs
  <2>2. next \in [1 .. Len(ns) -> [CleanWalks -> CleanWalks]]
    BY <2>1
  <2>3. \A i \in 1 .. Len(ns), v \in CleanWalks : next[i][v] = Push(v, ns[i], depth, visit)
    OBVIOUS
  <2> QED BY <2>2, <2>3
<1>3. PICK g : IsWalk(g, Len(ns), CleanWalks, w, step)
  BY <1>1, WalkExists
<1>4. g \in [0 .. Len(ns) -> CleanWalks] /\ g[0] = w
  BY <1>3 DEF IsWalk
<1>5. ASSUME NEW i \in 0 .. Len(ns) PROVE g[i] = PushRound(w, ns, depth, visit, g, i)
  <2>1. CASE i = 0
    BY <1>4, <2>1 DEF PushRound
  <2>2. CASE i # 0
    <3>1. i \in 1 .. Len(ns) /\ i - 1 \in 0 .. Len(ns)
      BY <1>1, <2>2
    <3>2. g[i] = step[i][g[i - 1]] /\ g[i - 1] \in CleanWalks
      BY <1>3, <1>4, <3>1 DEF IsWalk
    <3> QED BY <1>2, <2>2, <3>1, <3>2 DEF PushRound
  <2> QED BY <2>1, <2>2
<1>6. IsPushed(w, ns, depth, visit, g)
  BY <1>4, <1>5 DEF IsPushed
<1>7. PICK f : IsPushed(w, ns, depth, visit, f) /\ PushAll(w, ns, depth, visit) = f[Len(ns)]
  <2> DEFINE pushed == CHOOSE x : IsPushed(w, ns, depth, visit, x)
  <2>1. PushAll(w, ns, depth, visit) = pushed[Len(ns)]
    BY DEF PushAll, IsPushed, PushRound
  <2>2. IsPushed(w, ns, depth, visit, pushed)
    BY <1>6
  <2> QED BY <2>1, <2>2
<1>8. \A i \in 0 .. Len(ns) : f[i] = PushRound(w, ns, depth, visit, f, i)
  BY <1>7 DEF IsPushed
<1>9. f[0] = w /\ \A i \in 1 .. Len(ns) : f[i] = Push(f[i - 1], ns[i], depth, visit)
  BY <1>1, <1>8 DEF PushRound
<1> DEFINE Good == {i \in 0 .. Len(ns) :
                      /\ f[i] \in CleanWalks /\ ToSet(w.reached) \subseteq ToSet(f[i].reached)
                      /\ {ns[j] : j \in 1 .. i} \ orphaned \subseteq ToSet(f[i].reached)}
<1>10. 0 \in Good
  BY <1>1, <1>9
<1>11. ASSUME NEW i \in 1 .. Len(ns), i - 1 \in Good PROVE i \in Good
  <2>1. /\ i \in 0 .. Len(ns) /\ ns[i] \in Id /\ f[i - 1] \in CleanWalks
        /\ ToSet(w.reached) \subseteq ToSet(f[i - 1].reached)
        /\ {ns[j] : j \in 1 .. i - 1} \ orphaned \subseteq ToSet(f[i - 1].reached)
    BY <1>1, <1>11
  <2>2. /\ f[i] \in CleanWalks /\ ToSet(f[i - 1].reached) \subseteq ToSet(f[i].reached)
        /\ ns[i] \notin orphaned => ns[i] \in ToSet(f[i].reached)
    BY <1>9, <2>1, PushIs
  <2>3. \A j \in 1 .. i : j \in 1 .. i - 1 \/ j = i
    OBVIOUS
  <2> QED BY <2>1, <2>2, <2>3
<1> HIDE DEF Good
<1>12. \A i \in 0 .. Len(ns) : i \in Good
  BY <1>1, <1>10, <1>11, EveryRound
<1>13. Len(ns) \in Good
  BY <1>1, <1>12
<1>14. /\ f[Len(ns)] \in CleanWalks /\ ToSet(w.reached) \subseteq ToSet(f[Len(ns)].reached)
       /\ {ns[j] : j \in 1 .. Len(ns)} \ orphaned \subseteq ToSet(f[Len(ns)].reached)
  BY <1>13 DEF Good
<1>15. ToSet(ns) = {ns[j] : j \in 1 .. Len(ns)}
  BY <1>1 DEF ToSet
<1> QED BY <1>7, <1>14, <1>15

LEMMA VisitIs ==
    ASSUME NEW w \in CleanWalks, w.queue # <<>>
    PROVE  Visit(w) \in CleanWalks /\ ToSet(w.reached) \subseteq ToSet(Visit(w).reached)
<1> DEFINE n     == Head(w.queue)[1]
           depth == Head(w.queue)[2]
           rest  == [reached |-> w.reached, queue |-> Tail(w.queue)]
           below == Among(UpTo(MaxFanout, InOrder(deps[n])), present)
           down  == PushAll(rest, below, depth + 1, TRUE)
           above == UpTo(MaxFanout, InOrder({e.src : e \in {x \in edges : x.dst = n}}))
           up    == IF depth > 0 THEN down ELSE PushAll(down, above, MaxDepth, TRUE)
           rival == InOrder({e.dst : e \in {x \in edges : x.src = n /\ x.kind = "contradicts"
                                                    /\ status[x.dst] # "superseded"}})
<1>1. w.queue \in Seq(Id \X Nat) /\ MaxDepth \in Nat /\ MaxFanout \in Nat
  BY PlannerAssumption DEF CleanWalks
<1>2. Head(w.queue) \in Id \X Nat /\ Tail(w.queue) \in Seq(Id \X Nat)
  BY <1>1, HeadTailProperties
<1>3. n \in Id /\ depth \in Nat /\ depth + 1 \in Nat
  BY <1>2
<1>4. rest \in CleanWalks /\ rest.reached = w.reached
  BY <1>2 DEF CleanWalks
<1>5. below \in Seq(Id) /\ above \in Seq(Id) /\ rival \in Seq(Id)
  BY <1>1, InOrderIs, UpToIs, AmongIs
<1> HIDE DEF n, depth, rest, below, above, rival
<1>6. down \in CleanWalks /\ ToSet(w.reached) \subseteq ToSet(down.reached)
  BY <1>3, <1>4, <1>5, PushAllIs
<1> HIDE DEF down
<1>7. up \in CleanWalks /\ ToSet(w.reached) \subseteq ToSet(up.reached)
  <2>1. CASE depth > 0
    BY <1>6, <2>1
  <2>2. CASE ~ (depth > 0)
    <3>1. /\ PushAll(down, above, MaxDepth, TRUE) \in CleanWalks
          /\ ToSet(down.reached) \subseteq ToSet(PushAll(down, above, MaxDepth, TRUE).reached)
      BY <1>1, <1>5, <1>6, PushAllIs
    <3> QED BY <1>6, <2>2, <3>1
  <2> QED BY <2>1, <2>2
<1> HIDE DEF up
<1>8. /\ PushAll(up, rival, depth + 1, FALSE) \in CleanWalks
      /\ ToSet(up.reached) \subseteq ToSet(PushAll(up, rival, depth + 1, FALSE).reached)
  BY <1>3, <1>5, <1>7, PushAllIs
<1>9. Visit(w) = IF Len(w.reached) >= MaxCandidates \/ depth >= MaxDepth THEN rest
                 ELSE PushAll(up, rival, depth + 1, FALSE)
  BY DEF Visit, n, depth, rest, below, down, above, up, rival
<1>10. CASE Len(w.reached) >= MaxCandidates \/ depth >= MaxDepth
  BY <1>4, <1>9, <1>10
<1>11. CASE ~ (Len(w.reached) >= MaxCandidates \/ depth >= MaxDepth)
  BY <1>7, <1>8, <1>9, <1>11
<1> QED BY <1>10, <1>11

PathRound(root, f, k) ==
    LET below(S) == {e.dst : e \in {x \in edges : x.src \in S /\ G!IsDependency(x)}}
    IN  IF k = 0 THEN <<root>>
        ELSE f[k - 1] \o InOrder(below(ToSet(f[k - 1])) \ ToSet(f[k - 1]))
IsPath(root, f) == f = [k \in 0 .. GraphDepth |-> PathRound(root, f, k)]

LEMMA ExplainedIs ==
    ASSUME NEW root \in Id
    PROVE  Explained(root) \in Seq(Id)
<1> DEFINE far(S) == InOrder({e.dst : e \in {x \in edges : x.src \in S /\ G!IsDependency(x)}} \ S)
           step == [k \in 1 .. GraphDepth |-> [t \in Seq(Id) |-> t \o far(ToSet(t))]]
<1>1. GraphDepth \in Nat /\ <<root>> \in Seq(Id)
  BY PlannerAssumption
<1>2. ASSUME NEW t \in Seq(Id) PROVE t \o far(ToSet(t)) \in Seq(Id)
  BY InOrderIs, ConcatProperties
<1>3. step \in [1 .. GraphDepth -> [Seq(Id) -> Seq(Id)]]
  BY <1>2
<1>4. \A k \in 1 .. GraphDepth, t \in Seq(Id) : step[k][t] = t \o far(ToSet(t))
  OBVIOUS
<1> HIDE DEF step
<1>5. PICK g : IsWalk(g, GraphDepth, Seq(Id), <<root>>, step)
  BY <1>1, <1>3, WalkExists
<1>6. g \in [0 .. GraphDepth -> Seq(Id)] /\ g[0] = <<root>>
  BY <1>5 DEF IsWalk
<1>7. ASSUME NEW k \in 0 .. GraphDepth PROVE g[k] = PathRound(root, g, k)
  <2>1. CASE k = 0
    BY <1>6, <2>1 DEF PathRound
  <2>2. CASE k # 0
    <3>1. k \in 1 .. GraphDepth /\ k - 1 \in 0 .. GraphDepth
      BY <1>1, <2>2
    <3>2. g[k] = step[k][g[k - 1]] /\ g[k - 1] \in Seq(Id)
      BY <1>5, <1>6, <3>1 DEF IsWalk
    <3>3. g[k] = g[k - 1] \o far(ToSet(g[k - 1]))
      BY <1>4, <3>1, <3>2
    <3> QED BY <2>2, <3>3 DEF PathRound
  <2> QED BY <2>1, <2>2
<1>8. IsPath(root, g)
  BY <1>6, <1>7 DEF IsPath
<1>9. PICK f : IsPath(root, f) /\ Explained(root) = f[GraphDepth]
  <2> DEFINE path == CHOOSE x : IsPath(root, x)
  <2>1. Explained(root) = path[GraphDepth]
    BY DEF Explained, IsPath, PathRound
  <2>2. IsPath(root, path)
    BY <1>8
  <2> QED BY <2>1, <2>2
<1>10. \A k \in 0 .. GraphDepth : f[k] = PathRound(root, f, k)
  BY <1>9 DEF IsPath
<1> DEFINE Good == {k \in 0 .. GraphDepth : f[k] \in Seq(Id)}
<1>11. 0 \in Good
  <2>1. PathRound(root, f, 0) = <<root>>
    BY DEF PathRound
  <2>2. 0 \in 0 .. GraphDepth /\ f[0] = <<root>>
    BY <1>1, <1>10, <2>1
  <2> QED BY <1>1, <2>2
<1>12. ASSUME NEW k \in 1 .. GraphDepth, k - 1 \in Good PROVE k \in Good
  <2>1. k \in 0 .. GraphDepth /\ k # 0 /\ f[k - 1] \in Seq(Id)
    BY <1>1, <1>12
  <2>2. f[k] = f[k - 1] \o far(ToSet(f[k - 1]))
    BY <1>10, <2>1 DEF PathRound
  <2> QED BY <1>2, <2>1, <2>2
<1> HIDE DEF Good
<1>13. \A k \in 0 .. GraphDepth : k \in Good
  BY <1>1, <1>11, <1>12, EveryRound
<1>14. GraphDepth \in Good
  BY <1>1, <1>13
<1> QED BY <1>9, <1>14 DEF Good

\* The walk: at most as many rounds as there are nodes.
Step(w) == IF w.queue = <<>> THEN w ELSE Visit(w)
StartOf(seeds, pin) ==
    PushAll([reached |-> <<>>, queue |-> <<>>], seeds \o InOrder(pin), 0, TRUE)
WalkRound(start, f, k) == IF k = 0 THEN start ELSE Step(f[k - 1])
IsExpansion(start, f) == f = [k \in 0 .. Cardinality(Id) |-> WalkRound(start, f, k)]
WalkOf(start) ==
    LET walk == CHOOSE f : IsExpansion(start, f) IN walk[Cardinality(Id)]

LEMMA StepIs ==
    ASSUME NEW w \in CleanWalks
    PROVE  Step(w) \in CleanWalks /\ ToSet(w.reached) \subseteq ToSet(Step(w).reached)
BY VisitIs DEF Step

LEMMA WalkOfIs ==
    ASSUME NEW start \in CleanWalks
    PROVE  WalkOf(start) \in CleanWalks /\ ToSet(start.reached) \subseteq ToSet(WalkOf(start).reached)
<1> DEFINE step == [k \in 1 .. Cardinality(Id) |-> [w \in CleanWalks |-> Step(w)]]
<1>1. Cardinality(Id) \in Nat
  BY PlannerAssumption, FS_CardinalityType
<1>2. step \in [1 .. Cardinality(Id) -> [CleanWalks -> CleanWalks]]
  BY StepIs
<1>3. \A k \in 1 .. Cardinality(Id), w \in CleanWalks : step[k][w] = Step(w)
  OBVIOUS
<1> HIDE DEF step
<1>4. PICK g : IsWalk(g, Cardinality(Id), CleanWalks, start, step)
  BY <1>1, <1>2, WalkExists
<1>5. g \in [0 .. Cardinality(Id) -> CleanWalks] /\ g[0] = start
  BY <1>4 DEF IsWalk
<1>6. ASSUME NEW k \in 0 .. Cardinality(Id) PROVE g[k] = WalkRound(start, g, k)
  <2>1. CASE k = 0
    BY <1>5, <2>1 DEF WalkRound
  <2>2. CASE k # 0
    <3>1. k \in 1 .. Cardinality(Id) /\ k - 1 \in 0 .. Cardinality(Id)
      BY <1>1, <2>2
    <3>2. g[k] = step[k][g[k - 1]] /\ g[k - 1] \in CleanWalks
      BY <1>4, <1>5, <3>1 DEF IsWalk
    <3> QED BY <1>3, <2>2, <3>1, <3>2 DEF WalkRound
  <2> QED BY <2>1, <2>2
<1>7. IsExpansion(start, g)
  BY <1>5, <1>6 DEF IsExpansion
<1>8. PICK f : IsExpansion(start, f) /\ WalkOf(start) = f[Cardinality(Id)]
  BY <1>7 DEF WalkOf
<1>9. \A k \in 0 .. Cardinality(Id) : f[k] = WalkRound(start, f, k)
  BY <1>8 DEF IsExpansion
<1> DEFINE Good == {k \in 0 .. Cardinality(Id) :
                      f[k] \in CleanWalks /\ ToSet(start.reached) \subseteq ToSet(f[k].reached)}
<1>10. 0 \in Good
  BY <1>1, <1>9 DEF WalkRound
<1>11. ASSUME NEW k \in 1 .. Cardinality(Id), k - 1 \in Good PROVE k \in Good
  <2>1. /\ k \in 0 .. Cardinality(Id) /\ k # 0 /\ f[k - 1] \in CleanWalks
        /\ ToSet(start.reached) \subseteq ToSet(f[k - 1].reached)
    BY <1>1, <1>11
  <2>2. f[k] = Step(f[k - 1])
    BY <1>9, <2>1 DEF WalkRound
  <2>3. f[k] \in CleanWalks /\ ToSet(f[k - 1].reached) \subseteq ToSet(f[k].reached)
    BY <2>1, <2>2, StepIs
  <2> QED BY <2>1, <2>3
<1> HIDE DEF Good
<1>12. \A k \in 0 .. Cardinality(Id) : k \in Good
  BY <1>1, <1>10, <1>11, EveryRound
<1>13. Cardinality(Id) \in Good
  BY <1>1, <1>12
<1> QED BY <1>8, <1>13 DEF Good

\* The audit paths of a justification.
AuditRound(w, roots, f, i) ==
    IF i = 0 THEN w ELSE PushAll(f[i - 1], Explained(roots[i]), 0, FALSE)
IsAudit(w, roots, f) == f = [i \in 0 .. Len(roots) |-> AuditRound(w, roots, f, i)]
AuditOf(w, roots) ==
    LET audited == CHOOSE f : IsAudit(w, roots, f) IN audited[Len(roots)]

LEMMA AuditOfIs ==
    ASSUME NEW w \in CleanWalks, NEW roots \in Seq(Id)
    PROVE  AuditOf(w, roots) \in CleanWalks /\ ToSet(w.reached) \subseteq ToSet(AuditOf(w, roots).reached)
<1> DEFINE step == [i \in 1 .. Len(roots) |-> [v \in CleanWalks |->
                      PushAll(v, Explained(roots[i]), 0, FALSE)]]
<1>1. Len(roots) \in Nat /\ roots \in [1 .. Len(roots) -> Id]
  BY LenProperties
<1>2. ASSUME NEW i \in 1 .. Len(roots), NEW v \in CleanWalks
      PROVE  /\ PushAll(v, Explained(roots[i]), 0, FALSE) \in CleanWalks
             /\ ToSet(v.reached) \subseteq ToSet(PushAll(v, Explained(roots[i]), 0, FALSE).reached)
  <2>1. roots[i] \in Id
    BY <1>1
  <2>2. Explained(roots[i]) \in Seq(Id) /\ 0 \in Nat
    BY <2>1, ExplainedIs
  <2> QED BY <2>2, PushAllIs
<1>3. step \in [1 .. Len(roots) -> [CleanWalks -> CleanWalks]]
  BY <1>2
<1>4. \A i \in 1 .. Len(roots), v \in CleanWalks :
         step[i][v] = PushAll(v, Explained(roots[i]), 0, FALSE)
  OBVIOUS
<1> HIDE DEF step
<1>5. PICK g : IsWalk(g, Len(roots), CleanWalks, w, step)
  BY <1>1, <1>3, WalkExists
<1>6. g \in [0 .. Len(roots) -> CleanWalks] /\ g[0] = w
  BY <1>5 DEF IsWalk
<1>7. ASSUME NEW i \in 0 .. Len(roots) PROVE g[i] = AuditRound(w, roots, g, i)
  <2>1. CASE i = 0
    BY <1>6, <2>1 DEF AuditRound
  <2>2. CASE i # 0
    <3>1. i \in 1 .. Len(roots) /\ i - 1 \in 0 .. Len(roots)
      BY <1>1, <2>2
    <3>2. g[i] = step[i][g[i - 1]] /\ g[i - 1] \in CleanWalks
      BY <1>5, <1>6, <3>1 DEF IsWalk
    <3> QED BY <1>4, <2>2, <3>1, <3>2 DEF AuditRound
  <2> QED BY <2>1, <2>2
<1>8. IsAudit(w, roots, g)
  BY <1>6, <1>7 DEF IsAudit
<1>9. PICK f : IsAudit(w, roots, f) /\ AuditOf(w, roots) = f[Len(roots)]
  BY <1>8 DEF AuditOf
<1>10. \A i \in 0 .. Len(roots) : f[i] = AuditRound(w, roots, f, i)
  BY <1>9 DEF IsAudit
<1> DEFINE Good == {i \in 0 .. Len(roots) :
                      f[i] \in CleanWalks /\ ToSet(w.reached) \subseteq ToSet(f[i].reached)}
<1>11. 0 \in Good
  <2>1. AuditRound(w, roots, f, 0) = w
    BY DEF AuditRound
  <2>2. 0 \in 0 .. Len(roots) /\ f[0] = w
    BY <1>1, <1>10, <2>1
  <2> QED BY <2>2
<1>12. ASSUME NEW i \in 1 .. Len(roots), i - 1 \in Good PROVE i \in Good
  <2>1. /\ i \in 0 .. Len(roots) /\ i # 0 /\ f[i - 1] \in CleanWalks
        /\ ToSet(w.reached) \subseteq ToSet(f[i - 1].reached)
    BY <1>1, <1>12
  <2>2. f[i] = PushAll(f[i - 1], Explained(roots[i]), 0, FALSE)
    BY <1>10, <2>1 DEF AuditRound
  <2>3. f[i] \in CleanWalks /\ ToSet(f[i - 1].reached) \subseteq ToSet(f[i].reached)
    BY <1>2, <2>1, <2>2
  <2> QED BY <2>1, <2>3
<1> HIDE DEF Good
<1>13. \A i \in 0 .. Len(roots) : i \in Good
  BY <1>1, <1>11, <1>12, EveryRound
<1>14. Len(roots) \in Good
  BY <1>1, <1>13
<1> QED BY <1>9, <1>14 DEF Good

\* What the expansion reaches: nodes, none twice, no evidence of history, and every
\* seed and escalated node that is not such evidence.
LEMMA ExpandIs ==
    ASSUME NEW seeds \in Seq(Id), NEW q, NEW pin \in SUBSET Id
    PROVE  /\ Expand(seeds, q, pin) \in Seq(Id) /\ Distinct(Expand(seeds, q, pin))
           /\ ToSet(Expand(seeds, q, pin)) \cap orphaned = {}
           /\ pin \ orphaned \subseteq ToSet(Expand(seeds, q, pin))
<1> DEFINE roots == IF q = "justify" THEN UpTo(2, seeds) ELSE <<>>
           start == StartOf(seeds, pin)
           none  == [reached |-> <<>>, queue |-> <<>>]
<1>1. none \in CleanWalks
  BY DEF CleanWalks, Distinct, ToSet
<1>2. InOrder(pin) \in Seq(Id) /\ ToSet(InOrder(pin)) = pin
  BY InOrderIs
<1>3. seeds \o InOrder(pin) \in Seq(Id) /\ pin \subseteq ToSet(seeds \o InOrder(pin))
  BY <1>2, ConcatSet
<1> HIDE DEF none
<1>4. /\ PushAll(none, seeds \o InOrder(pin), 0, TRUE) \in CleanWalks
      /\ ToSet(seeds \o InOrder(pin)) \ orphaned
            \subseteq ToSet(PushAll(none, seeds \o InOrder(pin), 0, TRUE).reached)
  BY <1>1, <1>3, PushAllIs
<1>5. start \in CleanWalks /\ pin \ orphaned \subseteq ToSet(start.reached)
  BY <1>3, <1>4 DEF StartOf, none
<1>6. roots \in Seq(Id)
  BY UpToIs
<1> HIDE DEF roots, start
<1>7. WalkOf(start) \in CleanWalks /\ ToSet(start.reached) \subseteq ToSet(WalkOf(start).reached)
  BY <1>5, WalkOfIs
<1>8. /\ AuditOf(WalkOf(start), roots) \in CleanWalks
      /\ ToSet(WalkOf(start).reached) \subseteq ToSet(AuditOf(WalkOf(start), roots).reached)
  BY <1>6, <1>7, AuditOfIs
<1>9. Expand(seeds, q, pin) = AuditOf(WalkOf(start), roots).reached
  BY DEF Expand, AuditOf, IsAudit, AuditRound, WalkOf, IsExpansion, WalkRound, Step, StartOf,
         start, roots
<1> QED BY <1>5, <1>7, <1>8, <1>9 DEF CleanWalks

LEMMA SeedsIs ==
    ASSUME NEW hits \in Seq(Id), NEW spans \in Seq(Id)
    PROVE  Seeds(hits, spans) \in Seq(Id)
<1> DEFINE believed == Among(hits, {n \in Id \ orphaned : G!IsLive(status[n])})
           others   == Among(spans, Id \ ToSet(believed))
<1>1. believed \in Seq(Id)
  BY AmongIs
<1>2. others \in Seq(Id)
  BY AmongIs
<1>3. Seeds(hits, spans) = IF Len(believed) >= 2 THEN believed ELSE believed \o others
  BY DEF Seeds
<1> HIDE DEF believed, others
<1>4. believed \o others \in Seq(Id)
  BY <1>1, <1>2, ConcatProperties
<1> QED BY <1>1, <1>3, <1>4

\* What is mandatory is never evidence.
LEMMA PinnedIs ==
    ASSUME NEW q \in QueryType, NEW pin, NEW n \in Pinned(q, pin), n \notin pin
    PROVE  n \in present /\ status[n] = "fresh" /\ Kind[n] # "evidence"
BY DEF Pinned, PinnedKinds

OnlyEvidence == present = Id /\ orphaned \subseteq {n \in Id : Kind[n] = "evidence"}

LEMMA ReachedIs ==
    ASSUME OnlyEvidence, NEW seeds \in Seq(Id), NEW q \in QueryType, NEW pin \in SUBSET Id
    PROVE  /\ Reached(seeds, q, pin) \in Seq(Id) /\ Distinct(Reached(seeds, q, pin))
           /\ ToSet(Reached(seeds, q, pin)) \cap orphaned = {}
           /\ \A n \in Pinned(q, pin) : Kind[n] # "evidence" => n \in ToSet(Reached(seeds, q, pin))
<1> DEFINE found == Expand(seeds, q, pin)
           joins == InOrder((Pinned(q, pin) \ pin) \ ToSet(found))
<1>1. /\ found \in Seq(Id) /\ Distinct(found) /\ ToSet(found) \cap orphaned = {}
      /\ pin \ orphaned \subseteq ToSet(found)
  BY ExpandIs
<1> HIDE DEF found
<1>2. /\ joins \in Seq(Id) /\ Distinct(joins)
      /\ ToSet(joins) = ((Pinned(q, pin) \ pin) \ ToSet(found)) \cap Id
  BY InOrderIs
<1> HIDE DEF joins
<1>3. \A n \in ToSet(joins) : n \notin orphaned
  <2> TAKE n \in ToSet(joins)
  <2>1. n \in Pinned(q, pin) /\ n \notin pin
    BY <1>2
  <2> QED BY <2>1, PinnedIs DEF OnlyEvidence
<1>4. Reached(seeds, q, pin) = found \o joins
  BY DEF Reached, found, joins
<1>5. found \o joins \in Seq(Id) /\ ToSet(found \o joins) = ToSet(found) \cup ToSet(joins)
  BY <1>1, <1>2, ConcatSet
<1>6. Distinct(found \o joins)
  <2>1. ToSet(found) \cap ToSet(joins) = {}
    BY <1>2
  <2> QED BY <1>1, <1>2, <2>1, ConcatDistinct
<1>7. ASSUME NEW n \in Pinned(q, pin), Kind[n] # "evidence"
      PROVE  n \in ToSet(found) \cup ToSet(joins)
  <2>1. CASE n \in pin
    BY <1>1, <1>7, <2>1 DEF OnlyEvidence
  <2>2. CASE n \notin pin
    BY <1>2, <2>2, PinnedIs DEF OnlyEvidence
  <2> QED BY <2>1, <2>2
<1> QED BY <1>1, <1>3, <1>4, <1>5, <1>6, <1>7

-----------------------------------------------------------------------------
(* The candidates.                                                         *)

Level == {"L0", "L1", "L2", "L3"}
Choice == [level : Level, cost : Nat \ {0}, utility : Nat \ {0}]
Options == Seq(Choice) \ {<<>>}
Candidates == [node : Id, index : Nat, pinned : BOOLEAN, options : Options]

LEMMA AvailableIs ==
    ASSUME NEW n \in Id
    PROVE  Available(n) \in Seq(Level) /\ Available(n) # <<>>
<1> DEFINE all == <<"L2", "L1", "L3", "L0">>
           spans == n \in Sourced /\ Kind[n] # "skill"
           has(v) == CASE v = "L2" -> TRUE
                       [] v = "L1" -> spans /\ n \in Long
                       [] v = "L3" -> Kind[n] = "calculation"
                       [] OTHER    -> spans
           S == {v \in Level : has(v)}
<1>1. all \in Seq(Level) /\ all[1] = "L2" /\ Len(all) = 4
  BY DEF Level
<1>2. "L2" \in ToSet(all)
  BY DEF ToSet
<1>3. "L2" \in S
  BY DEF Level
<1>4. Available(n) = Among(all, S)
  BY DEF Available, Level
<1> HIDE DEF all, S
<1>5. Among(all, S) \in Seq(Level) /\ ToSet(Among(all, S)) = ToSet(all) \cap S
  BY <1>1, AmongIs
<1>6. "L2" \in ToSet(Available(n))
  BY <1>2, <1>3, <1>4, <1>5
<1>7. Available(n) # <<>>
  BY <1>6 DEF ToSet
<1> QED BY <1>4, <1>5, <1>7

LEMMA FitIs ==
    ASSUME NEW q \in QueryType, NEW v \in Level
    PROVE  Fit(q, v) \in Nat \ {0}
BY DEF Fit, QueryType, Level

LEMMA CandidateIs ==
    ASSUME NEW n \in Id, NEW q \in QueryType, NEW pin
    PROVE  /\ Candidate(n, q, pin) \in Candidates /\ Candidate(n, q, pin).node = n
           /\ Candidate(n, q, pin).pinned = (n \in Pinned(q, pin))
<1> DEFINE levels == Levels(n, pin)
           option(v) == [level |-> v, cost |-> Cost[n][v], utility |-> Worth[n] * Fit(q, v)]
           opts == [i \in DOMAIN levels |-> option(levels[i])]
           index == CHOOSE i \in DOMAIN Order : Order[i] = n
<1>1. levels \in Seq(Level) /\ levels # <<>>
  <2>1. <<"L0">> \in Seq(Level) /\ <<"L0">> # <<>>
    BY DEF Level
  <2> QED BY <2>1, AvailableIs DEF Levels
<1> HIDE DEF levels
<1>2. Len(levels) \in Nat /\ DOMAIN levels = 1 .. Len(levels) /\ Len(levels) # 0
      /\ levels \in [1 .. Len(levels) -> Level]
  BY <1>1, LenProperties, EmptySeq
<1>3. \A v \in Level : option(v) \in Choice
  <2> TAKE v \in Level
  <2>1. Cost[n][v] \in Nat \ {0} /\ Worth[n] \in Nat \ {0}
    BY PlannerAssumption DEF Level
  <2>2. Worth[n] * Fit(q, v) \in Nat \ {0}
    <3>1. \A x, y \in Nat \ {0} : x * y \in Nat \ {0}
      OBVIOUS
    <3> QED BY <2>1, <3>1, FitIs
  <2> QED BY <2>1, <2>2 DEF Choice
<1> HIDE DEF option
<1>4. opts \in [1 .. Len(levels) -> Choice]
  BY <1>2, <1>3
<1>5. opts \in Seq(Choice) /\ Len(opts) = Len(levels)
  BY <1>2, <1>4, SeqDef
<1>6. opts # <<>>
  BY <1>2, <1>5, EmptySeq
<1>7. index \in Nat
  <2>1. \E i \in DOMAIN Order : Order[i] = n
    BY OrderIs DEF ToSet
  <2>2. DOMAIN Order \subseteq Nat
    BY OrderIs, LenProperties
  <2>3. index \in DOMAIN Order
    BY <2>1
  <2> QED BY <2>2, <2>3
<1>8. Candidate(n, q, pin) = [node |-> n, index |-> index, pinned |-> n \in Pinned(q, pin),
                              options |-> opts]
  BY DEF Candidate, levels, option
<1> HIDE DEF index, opts
<1>9. (n \in Pinned(q, pin)) \in BOOLEAN
  OBVIOUS
<1> QED BY <1>5, <1>6, <1>7, <1>8, <1>9 DEF Candidates, Options

-----------------------------------------------------------------------------
(* Arithmetic.                                                             *)

LEMMA MaxIs ==
    ASSUME NEW S \in SUBSET Int, IsFiniteSet(S), S # {}
    PROVE  Max(S) \in S /\ \A y \in S : y <= Max(S)
<1>1. PICK n \in Nat : \E f \in [1 .. n -> S] : \A x \in S : \E i \in 1 .. n : f[i] = x
  <2>1. Cardinality(S) \in Nat /\ ExistsBijection(1 .. Cardinality(S), S)
    BY FS_CardinalityType
  <2>2. PICK f \in [1 .. Cardinality(S) -> S] : \A x \in S : \E i \in 1 .. Cardinality(S) : f[i] = x
    BY <2>1 DEF ExistsBijection, Bijection, Surjection
  <2> QED BY <2>1, <2>2
<1>2. PICK f \in [1 .. n -> S] : \A x \in S : \E i \in 1 .. n : f[i] = x
  BY <1>1
<1> DEFINE Good == {i \in 0 .. n : i = 0 \/ \E x \in S : \A j \in 1 .. i : f[j] <= x}
<1>3. 0 \in Good
  OBVIOUS
<1>4. ASSUME NEW i \in 1 .. n, i - 1 \in Good PROVE i \in Good
  <2>1. i \in 0 .. n /\ \A j \in 1 .. n : f[j] \in S /\ f[j] \in Int
    <3>1. i \in 0 .. n
      OBVIOUS
    <3>2. \A j \in 1 .. n : f[j] \in S
      BY <1>2
    <3>3. \A x \in S : x \in Int
      OBVIOUS
    <3> QED BY <3>1, <3>2, <3>3
  <2>2. CASE i = 1
    <3>1. \A j \in 1 .. i : f[j] <= f[i]
      BY <2>1, <2>2
    <3> QED BY <2>1, <3>1
  <2>3. CASE i # 1
    <3>1. PICK x \in S : \A j \in 1 .. i - 1 : f[j] <= x
      BY <1>4, <2>3
    <3>2. x \in Int /\ \A j \in 1 .. i : f[j] \in Int /\ (j \in 1 .. i - 1 \/ j = i)
      <4>1. \A j \in 1 .. i : j \in 1 .. n /\ (j \in 1 .. i - 1 \/ j = i)
        OBVIOUS
      <4> QED BY <2>1, <4>1
    <3>3. CASE f[i] <= x
      <4>1. \A j \in 1 .. i : f[j] <= x
        BY <3>1, <3>2, <3>3
      <4> QED BY <2>1, <4>1
    <3>4. CASE ~ (f[i] <= x)
      <4>1. \A j \in 1 .. i : f[j] <= f[i]
        BY <2>1, <3>1, <3>2, <3>4
      <4> QED BY <2>1, <4>1
    <3> QED BY <3>3, <3>4
  <2> QED BY <2>2, <2>3
<1> HIDE DEF Good
<1>5. \A i \in 0 .. n : i \in Good
  BY <1>2, <1>3, <1>4, EveryRound
<1>6. n # 0
  <2>1. 1 .. 0 = {}
    OBVIOUS
  <2> QED BY <1>2, <2>1
<1>7. PICK x \in S : \A j \in 1 .. n : f[j] <= x
  BY <1>2, <1>5, <1>6 DEF Good
<1>8. \A y \in S : y <= x
  BY <1>2, <1>7
<1>9. \A y \in S : x >= y
  BY <1>8
<1>10. Max(S) \in S /\ \A y \in S : Max(S) >= y
  BY <1>9 DEF Max
<1> QED BY <1>10

LEMMA MaxOfTwo ==
    ASSUME NEW a \in Int, NEW b \in Int
    PROVE  Max({a, b}) = IF a >= b THEN a ELSE b
<1>1. IsFiniteSet({a, b}) /\ {a, b} # {}
  <2>1. IsFiniteSet({a} \cup {b})
    BY FS_Singleton, FS_AddElement
  <2>2. {a} \cup {b} = {a, b}
    OBVIOUS
  <2> QED BY <2>1, <2>2
<1>2. Max({a, b}) \in {a, b} /\ \A y \in {a, b} : y <= Max({a, b})
  BY <1>1, MaxIs
<1> QED BY <1>2

LEMMA MinIs ==
    ASSUME NEW S \in SUBSET Nat, S # {}
    PROVE  Min(S) \in S /\ \A y \in S : Min(S) <= y
<1>1. \E x \in S : \A y \in S : x <= y
  BY LeastExists
<1> QED BY <1>1 DEF Min

LEMMA CeilDivIs ==
    ASSUME NEW a \in Nat, NEW b \in Nat \ {0}
    PROVE  /\ CeilDiv(a, b) \in Nat /\ a <= b * CeilDiv(a, b)
           /\ b = 1 => CeilDiv(a, b) = a
           /\ a <= b => CeilDiv(a, b) <= 1
           /\ CeilDiv(a, b) <= a
<1> DEFINE k == CeilDiv(a, b)
<1>1. k = (a + b - 1) \div b
  BY DEF CeilDiv
<1>2. k \in Int /\ b * k <= a + b - 1 /\ a + b - 1 < b * k + b
  BY <1>1
<1> HIDE DEF k
<1>3. b * k \in Int /\ a <= b * k
  BY <1>2
<1>4. k >= 0
  <2> SUFFICES ASSUME k <= -1 PROVE FALSE
    BY <1>2
  <2>1. b * k <= - b
    BY <1>2
  <2> QED BY <1>3, <2>1
<1>5. b = 1 => k = a
  BY <1>2
<1>6. a <= b => k <= 1
  <2> SUFFICES ASSUME a <= b, k >= 2 PROVE FALSE
    BY <1>2
  <2>1. b * k >= b + b
    BY <1>2
  <2> QED BY <1>2, <2>1
<1>7. k <= a
  <2> SUFFICES ASSUME k >= a + 1 PROVE FALSE
    BY <1>2
  <2>1. b * k >= b * (a + 1)
    BY <1>2
  <2>2. b * (a + 1) >= b + a
    OBVIOUS
  <2> QED BY <1>2, <2>1, <2>2
<1> QED BY <1>2, <1>3, <1>4, <1>5, <1>6, <1>7 DEF k

-----------------------------------------------------------------------------
(* The items of the knapsack.                                              *)

AnyChoice == Choice \cup {Keep}
Move == [cost : Nat, value : Int, choice : AnyChoice]

LEMMA AnyChoiceIs ==
    \A o \in AnyChoice : o.cost \in Nat /\ o.utility \in Nat
BY DEF AnyChoice, Choice, Keep

LEMMA OptionsAre ==
    ASSUME NEW options \in Options
    PROVE  ToSet(options) \subseteq Choice /\ ToSet(options) # {}
<1>1. /\ Len(options) \in Nat \ {0} /\ DOMAIN options = 1 .. Len(options)
      /\ options \in [1 .. Len(options) -> Choice]
  BY LenProperties, EmptySeq DEF Options
<1>2. 1 \in 1 .. Len(options)
  BY <1>1
<1> QED BY <1>1, <1>2 DEF ToSet

LEMMA CheapestIs ==
    ASSUME NEW options \in Options
    PROVE  /\ Cheapest(options) \in ToSet(options)
           /\ \A o \in ToSet(options) : Cheapest(options).cost <= o.cost
<1> DEFINE S == ToSet(options)
<1>1. S \subseteq Choice /\ S # {}
  BY OptionsAre
<1>2. \A o \in S : o.cost \in Nat /\ o.cost \in Int /\ Rank(o.level) \in Nat
  BY <1>1 DEF Choice, Rank
<1> HIDE DEF S
<1>3. PICK m \in {o.cost : o \in S} : \A k \in {o.cost : o \in S} : m <= k
  <2>1. {o.cost : o \in S} \in SUBSET Nat /\ {o.cost : o \in S} # {}
    BY <1>1, <1>2
  <2> HIDE DEF S
  <2> QED BY <2>1, LeastExists
<1> DEFINE R == {Rank(o.level) : o \in {x \in S : x.cost = m}}
<1>4. PICK r \in R : \A k \in R : r <= k
  <2>1. R \in SUBSET Nat /\ R # {}
    BY <1>2, <1>3
  <2> HIDE DEF R
  <2> QED BY <2>1, LeastExists
<1>5. PICK o \in S : o.cost = m /\ Rank(o.level) = r
  BY <1>4
<1>6. ASSUME NEW p \in S
      PROVE  o.cost < p.cost \/ (o.cost = p.cost /\ Rank(o.level) <= Rank(p.level))
  <2>1. m <= p.cost /\ m \in Nat /\ p.cost \in Nat
    BY <1>2, <1>3
  <2>2. CASE p.cost = m
    BY <1>4, <1>5, <2>2
  <2>3. CASE p.cost # m
    BY <1>5, <2>1, <2>3
  <2> QED BY <2>2, <2>3
<1> DEFINE least(x) == \A p \in S :
                          x.cost < p.cost \/ (x.cost = p.cost /\ Rank(x.level) <= Rank(p.level))
<1>7. Cheapest(options) = CHOOSE x \in S : least(x)
  BY DEF Cheapest, S
<1>8. \E x \in S : least(x)
  BY <1>6
<1>9. Cheapest(options) \in S /\ least(Cheapest(options))
  <2> HIDE DEF least
  <2> QED BY <1>7, <1>8
<1> QED BY <1>2, <1>9 DEF S

LEMMA BaseIs ==
    ASSUME NEW cand \in Candidates
    PROVE  /\ Base(cand) \in AnyChoice
           /\ cand.pinned => /\ Base(cand) = Cheapest(cand.options)
                             /\ Base(cand) \in ToSet(cand.options)
                             /\ \A o \in ToSet(cand.options) : Base(cand).cost <= o.cost
           /\ ~ cand.pinned => Base(cand) = Keep
<1>1. cand.options \in Options
  BY DEF Candidates
<1>2. /\ Cheapest(cand.options) \in ToSet(cand.options)
      /\ \A o \in ToSet(cand.options) : Cheapest(cand.options).cost <= o.cost
      /\ ToSet(cand.options) \subseteq Choice
  BY <1>1, CheapestIs, OptionsAre
<1> QED BY <1>2 DEF Base, AnyChoice

\* The moves an item has: nothing, and one for each option that may be taken.
Offers(cand) == {o \in ToSet(cand.options) : cand.pinned => o.cost > Base(cand).cost}

LEMMA ItemIs ==
    ASSUME NEW cand \in Candidates, NEW quantum \in Nat \ {0}
    PROVE  /\ Item(cand, quantum) \in Seq(Move)
           /\ \E x \in ToSet(Item(cand, quantum)) : x.cost = 0
           /\ \A x \in ToSet(Item(cand, quantum)) :
                 /\ x.choice = Base(cand) \/ x.choice \in Offers(cand)
                 /\ x.value = x.choice.utility - Base(cand).utility
                 /\ x.choice.cost <= Base(cand).cost + quantum * x.cost
                 /\ quantum = 1 => x.cost = x.choice.cost - Base(cand).cost
           /\ \A o \in Offers(cand) : \E x \in ToSet(Item(cand, quantum)) : x.choice = o
<1> DEFINE base  == Base(cand)
           moves == Among(cand.options, Offers(cand))
           still == [cost |-> 0, value |-> 0, choice |-> base]
           move(o) == [cost |-> CeilDiv(o.cost - base.cost, quantum),
                       value |-> o.utility - base.utility, choice |-> o]
           upgrades == [i \in DOMAIN moves |-> move(moves[i])]
<1>1. base \in AnyChoice /\ base.cost \in Nat /\ base.utility \in Nat
  BY BaseIs, AnyChoiceIs
<1>2. cand.options \in Seq(Choice)
  BY DEF Candidates, Options
<1>3. moves \in Seq(Choice) /\ ToSet(moves) = Offers(cand)
  <2>1. moves \in Seq(Choice) /\ ToSet(moves) = ToSet(cand.options) \cap Offers(cand)
    BY <1>2, AmongIs
  <2> QED BY <2>1 DEF Offers
<1>4. ASSUME NEW o \in Offers(cand)
      PROVE  /\ move(o) \in Move /\ o \in AnyChoice
             /\ o.cost - base.cost \in Nat
             /\ o.cost <= base.cost + quantum * move(o).cost
             /\ quantum = 1 => move(o).cost = o.cost - base.cost
  <2>1. o \in Choice /\ o \in AnyChoice /\ o.cost \in Nat /\ o.utility \in Nat
    <3>1. cand.options \in Options
      BY DEF Candidates
    <3>2. o \in Choice
      BY <3>1, OptionsAre DEF Offers
    <3> QED BY <3>2, AnyChoiceIs DEF AnyChoice
  <2>2. o.cost - base.cost \in Nat
    <3>1. CASE cand.pinned
      BY <1>1, <2>1, <3>1 DEF Offers
    <3>2. CASE ~ cand.pinned
      BY <1>1, <2>1, <3>2, BaseIs DEF Keep
    <3> QED BY <3>1, <3>2
  <2> HIDE DEF base
  <2>3. /\ CeilDiv(o.cost - base.cost, quantum) \in Nat
        /\ o.cost - base.cost <= quantum * CeilDiv(o.cost - base.cost, quantum)
        /\ quantum = 1 => CeilDiv(o.cost - base.cost, quantum) = o.cost - base.cost
    BY <2>2, CeilDivIs
  <2>4. o.utility - base.utility \in Int
    BY <1>1, <2>1
  <2>5. \A k \in Nat : quantum * k \in Int
    OBVIOUS
  <2>6. o.cost <= base.cost + quantum * CeilDiv(o.cost - base.cost, quantum)
    BY <1>1, <2>1, <2>3, <2>5
  <2> QED BY <2>1, <2>2, <2>3, <2>4, <2>6 DEF Move
<1>5. still \in Move
  BY <1>1 DEF Move
<1>6. Item(cand, quantum) = <<still>> \o upgrades
  BY DEF Item, Offers
<1> HIDE DEF moves
<1>7. /\ Len(moves) \in Nat /\ DOMAIN moves = 1 .. Len(moves)
      /\ \A i \in 1 .. Len(moves) : moves[i] \in Offers(cand)
      /\ \A o \in Offers(cand) : \E i \in 1 .. Len(moves) : moves[i] = o
  BY <1>3, LenProperties DEF ToSet
<1>8. upgrades \in [1 .. Len(moves) -> Move]
  <2> HIDE DEF move
  <2> QED BY <1>4, <1>7
<1>9. upgrades \in Seq(Move) /\ DOMAIN upgrades = 1 .. Len(moves)
  BY <1>7, <1>8, SeqDef
<1>10. ToSet(upgrades) = {move(o) : o \in Offers(cand)}
  <2> HIDE DEF move
  <2>1. ToSet(upgrades) = {move(moves[i]) : i \in 1 .. Len(moves)}
    BY <1>7, <1>9 DEF ToSet
  <2> QED BY <1>7, <2>1
<1>11. <<still>> \in Seq(Move) /\ ToSet(<<still>>) = {still}
  <2> HIDE DEF still
  <2> QED BY <1>5 DEF ToSet
<1> HIDE DEF upgrades
<1>12. /\ Item(cand, quantum) \in Seq(Move)
       /\ ToSet(Item(cand, quantum)) = {still} \cup {move(o) : o \in Offers(cand)}
  <2>1. PICK f : f = <<still>>
    OBVIOUS
  <2>2. f \in Seq(Move) /\ upgrades \in Seq(Move)
    BY <1>9, <1>11, <2>1
  <2>3. f \o upgrades \in Seq(Move) /\ ToSet(f \o upgrades) = ToSet(f) \cup ToSet(upgrades)
    BY <2>2, ConcatSet
  <2> HIDE DEF still, move
  <2> QED BY <1>6, <1>10, <1>11, <2>1, <2>3
<1>13. /\ still.cost = 0 /\ still.choice = base /\ still.value = base.utility - base.utility
       /\ still.choice.cost <= base.cost + quantum * still.cost
       /\ quantum = 1 => still.cost = still.choice.cost - base.cost
  <2>1. quantum * 0 = 0
    OBVIOUS
  <2> QED BY <1>1, <2>1
<1>14. \A o \in Offers(cand) : move(o).choice = o /\ move(o).value = o.utility - base.utility
  OBVIOUS
<1> HIDE DEF still, move, base
<1>15. \A x \in ToSet(Item(cand, quantum)) : x = still \/ \E o \in Offers(cand) : x = move(o)
  BY <1>12
<1>16. ASSUME NEW x \in ToSet(Item(cand, quantum))
       PROVE  /\ x.choice = base \/ x.choice \in Offers(cand)
              /\ x.value = x.choice.utility - base.utility
              /\ x.choice.cost <= base.cost + quantum * x.cost
              /\ quantum = 1 => x.cost = x.choice.cost - base.cost
  BY <1>4, <1>13, <1>14, <1>15
<1>17. \E x \in ToSet(Item(cand, quantum)) : x.cost = 0
  BY <1>12, <1>13
<1>18. \A o \in Offers(cand) : \E x \in ToSet(Item(cand, quantum)) : x.choice = o
  BY <1>12, <1>14
<1> QED BY <1>12, <1>16, <1>17, <1>18 DEF base

-----------------------------------------------------------------------------
(* The dynamic programme: the table holds the best value of each capacity, *)
(* and the walk back finds the moves that give it.                         *)

Values(before, item, c) ==
    {before[c - x.cost] + x.value : x \in {y \in ToSet(item) : y.cost <= c}}

LEMMA ValuesAre ==
    ASSUME NEW buckets \in Nat, NEW item \in Seq(Move), \E x \in ToSet(item) : x.cost = 0,
           NEW before \in [0 .. buckets -> Int], NEW c \in 0 .. buckets
    PROVE  /\ Max(Values(before, item, c)) \in Values(before, item, c)
           /\ \A v \in Values(before, item, c) : v <= Max(Values(before, item, c))
           /\ Max(Values(before, item, c)) \in Int
<1> DEFINE V == Values(before, item, c)
           D == {j \in 1 .. Len(item) : item[j].cost <= c}
           f == [j \in D |-> before[c - item[j].cost] + item[j].value]
<1>1. Len(item) \in Nat /\ DOMAIN item = 1 .. Len(item) /\ item \in [1 .. Len(item) -> Move]
  BY LenProperties
<1>2. \A x \in ToSet(item) : x \in Move /\ x.cost \in Nat /\ x.value \in Int
  BY <1>1 DEF ToSet, Move
<1>3. IsFiniteSet(D)
  <2>1. IsFiniteSet(1 .. Len(item))
    <3>1. 1 \in Int /\ Len(item) \in Int
      BY <1>1
    <3> QED BY <3>1, FS_Interval
  <2>2. D \in SUBSET (1 .. Len(item))
    OBVIOUS
  <2> QED BY <2>1, <2>2, FS_Subset
<1>4. V = {f[j] : j \in D}
  <2>1. ASSUME NEW v \in V PROVE \E j \in D : v = f[j]
    <3>1. PICK x \in ToSet(item) : x.cost <= c /\ v = before[c - x.cost] + x.value
      BY DEF Values
    <3>2. PICK j \in 1 .. Len(item) : x = item[j]
      BY <1>1 DEF ToSet
    <3> QED BY <3>1, <3>2
  <2>2. ASSUME NEW j \in D PROVE f[j] \in V
    <3>1. item[j] \in ToSet(item) /\ item[j].cost <= c
      BY <1>1 DEF ToSet
    <3>2. f[j] = before[c - item[j].cost] + item[j].value
      OBVIOUS
    <3> QED BY <3>1, <3>2 DEF Values
  <2> HIDE DEF V, f, D
  <2> QED BY <2>1, <2>2
<1>5. IsFiniteSet(V)
  <2>1. f \in Surjection(D, V)
    <3>1. f \in [D -> V]
      BY <1>4
    <3>2. \A v \in V : \E j \in D : f[j] = v
      BY <1>4
    <3> HIDE DEF V, f, D
    <3> QED BY <3>1, <3>2 DEF Surjection
  <2> HIDE DEF V, f, D
  <2> QED BY <1>3, <2>1, FS_Surjection
<1>6. ASSUME NEW x \in ToSet(item), x.cost <= c PROVE before[c - x.cost] + x.value \in Int
  <2>1. c - x.cost \in 0 .. buckets
    BY <1>2, <1>6
  <2> QED BY <1>2, <2>1
<1>7. V \in SUBSET Int
  BY <1>6 DEF Values
<1>8. V # {}
  <2>1. PICK x \in ToSet(item) : x.cost = 0
    OBVIOUS
  <2>2. x.cost <= c
    BY <2>1
  <2>3. before[c - x.cost] + x.value \in V
    BY <2>2 DEF Values
  <2> QED BY <2>3
<1> HIDE DEF V
<1>9. Max(V) \in V /\ \A v \in V : v <= Max(V)
  BY <1>5, <1>7, <1>8, MaxIs
<1>10. Max(V) \in Int
  BY <1>7, <1>9
<1> QED BY <1>9, <1>10 DEF V

TableRound(items, buckets, f, i) ==
    IF i = 0 THEN [c \in 0 .. buckets |-> 0]
    ELSE [c \in 0 .. buckets |-> Max(Values(f[i - 1], items[i], c))]
IsTable(items, buckets, f) == f = [i \in 0 .. Len(items) |-> TableRound(items, buckets, f, i)]

\* Every item has a move that costs nothing.
Playable(items) ==
    items \in Seq(Seq(Move)) /\ \A i \in 1 .. Len(items) : \E x \in ToSet(items[i]) : x.cost = 0

LEMMA TableIs ==
    ASSUME NEW items, Playable(items), NEW buckets \in Nat
    PROVE  /\ Table(items, buckets) \in [0 .. Len(items) -> [0 .. buckets -> Int]]
           /\ \A c \in 0 .. buckets : Table(items, buckets)[0][c] = 0
           /\ \A i \in 1 .. Len(items), c \in 0 .. buckets :
                 Table(items, buckets)[i][c]
                    = Max(Values(Table(items, buckets)[i - 1], items[i], c))
<1> DEFINE n == Len(items)
           Row == [0 .. buckets -> Int]
           zero == [c \in 0 .. buckets |-> 0]
           next(b, item) == [c \in 0 .. buckets |-> Max(Values(b, item, c))]
<1>1. /\ Len(items) \in Nat /\ \A i \in 1 .. Len(items) :
                                  items[i] \in Seq(Move) /\ \E x \in ToSet(items[i]) : x.cost = 0
  BY LenProperties DEF Playable
<1>2. zero \in Row
  OBVIOUS
<1>3. ASSUME NEW i \in 1 .. Len(items), NEW b \in Row PROVE next(b, items[i]) \in Row
  <2>1. \A c \in 0 .. buckets : Max(Values(b, items[i], c)) \in Int
    BY <1>1, ValuesAre
  <2> QED BY <2>1
<1> HIDE DEF Row, zero, next, n
<1>4. PICK step \in [1 .. Len(items) -> [Row -> Row]] :
         \A i \in 1 .. Len(items), b \in Row : step[i][b] = next(b, items[i])
  <2> DEFINE st == [i \in 1 .. Len(items) |-> [b \in Row |-> next(b, items[i])]]
  <2>1. st \in [1 .. Len(items) -> [Row -> Row]]
    BY <1>3
  <2>2. \A i \in 1 .. Len(items), b \in Row : st[i][b] = next(b, items[i])
    OBVIOUS
  <2> QED BY <2>1, <2>2
<1>5. PICK g : IsWalk(g, Len(items), Row, zero, step)
  BY <1>1, <1>2, WalkExists
<1>6. g \in [0 .. Len(items) -> Row] /\ g[0] = zero
  BY <1>5 DEF IsWalk
<1>7. ASSUME NEW i \in 0 .. Len(items) PROVE g[i] = TableRound(items, buckets, g, i)
  <2>1. CASE i = 0
    BY <1>6, <2>1 DEF TableRound, zero
  <2>2. CASE i # 0
    <3>1. i \in 1 .. Len(items) /\ i - 1 \in 0 .. Len(items)
      BY <1>1, <2>2
    <3>2. g[i] = step[i][g[i - 1]] /\ g[i - 1] \in Row
      BY <1>5, <1>6, <3>1 DEF IsWalk
    <3>3. g[i] = next(g[i - 1], items[i])
      BY <1>4, <3>1, <3>2
    <3> QED BY <2>2, <3>3 DEF TableRound, next
  <2> QED BY <2>1, <2>2
<1>8. IsTable(items, buckets, g)
  BY <1>6, <1>7 DEF IsTable
<1>9. PICK f : /\ IsTable(items, buckets, f)
               /\ Table(items, buckets) = [i \in 0 .. Len(items) |-> f[i]]
  <2> DEFINE dp == CHOOSE x : IsTable(items, buckets, x)
  <2>1. Table(items, buckets) = [i \in 0 .. Len(items) |-> dp[i]]
    BY DEF Table, IsTable, TableRound, Values
  <2>2. IsTable(items, buckets, dp)
    BY <1>8
  <2> QED BY <2>1, <2>2
<1>10. \A i \in 0 .. Len(items) : f[i] = TableRound(items, buckets, f, i)
  BY <1>9 DEF IsTable
<1>11. f[0] = zero
  <2>1. TableRound(items, buckets, f, 0) = zero
    BY DEF TableRound, zero
  <2> QED BY <1>1, <1>10, <2>1
<1>12. \A i \in 1 .. Len(items) : f[i] = next(f[i - 1], items[i])
  <2> TAKE i \in 1 .. Len(items)
  <2>1. i \in 0 .. Len(items) /\ i # 0
    BY <1>1
  <2> QED BY <1>10, <2>1 DEF TableRound, next
<1> DEFINE Good == {i \in 0 .. Len(items) : f[i] \in Row}
<1>13. 0 \in Good
  BY <1>1, <1>2, <1>11
<1>14. ASSUME NEW i \in 1 .. Len(items), i - 1 \in Good PROVE i \in Good
  BY <1>1, <1>3, <1>12, <1>14
<1> HIDE DEF Good
<1>15. \A i \in 0 .. Len(items) : i \in Good
  BY <1>1, <1>13, <1>14, EveryRound
<1>16. \A i \in 0 .. Len(items) : f[i] \in Row /\ Table(items, buckets)[i] = f[i]
  BY <1>9, <1>15 DEF Good
<1>17. Table(items, buckets) \in [0 .. Len(items) -> Row]
  BY <1>9, <1>16
<1>18. \A c \in 0 .. buckets : Table(items, buckets)[0][c] = 0
  BY <1>1, <1>11, <1>16 DEF zero
<1>19. ASSUME NEW i \in 1 .. Len(items), NEW c \in 0 .. buckets
       PROVE  Table(items, buckets)[i][c] = Max(Values(Table(items, buckets)[i - 1], items[i], c))
  <2>1. i \in 0 .. Len(items) /\ i - 1 \in 0 .. Len(items)
    BY <1>1
  <2>2. f[i][c] = Max(Values(f[i - 1], items[i], c))
    BY <1>12 DEF next
  <2> QED BY <1>16, <2>1, <2>2
<1> QED BY <1>17, <1>18, <1>19 DEF Row

LEMMA TakenIs ==
    ASSUME NEW items, Playable(items), NEW buckets \in Nat, NEW dp, dp = Table(items, buckets),
           NEW i \in 1 .. Len(items), NEW c \in 0 .. buckets
    PROVE  /\ Taken(items, dp, i, c) \in ToSet(items[i])
           /\ Taken(items, dp, i, c).cost <= c
           /\ dp[i][c] = dp[i - 1][c - Taken(items, dp, i, c).cost] + Taken(items, dp, i, c).value
<1> DEFINE item == items[i]
           gives(j) == item[j].cost <= c
                       /\ dp[i - 1][c - item[j].cost] + item[j].value = dp[i][c]
           J == {j \in DOMAIN item : gives(j)}
<1>1. Len(items) \in Nat /\ item \in Seq(Move) /\ \E x \in ToSet(item) : x.cost = 0
  BY LenProperties DEF Playable
<1>2. i - 1 \in 0 .. Len(items)
  BY <1>1
<1>3. dp[i - 1] \in [0 .. buckets -> Int] /\ dp[i][c] = Max(Values(dp[i - 1], item, c))
  BY <1>2, TableIs
<1>4. dp[i][c] \in Values(dp[i - 1], item, c)
  <2>1. Max(Values(dp[i - 1], item, c)) \in Values(dp[i - 1], item, c)
    <3> HIDE DEF item
    <3> QED BY <1>1, <1>3, ValuesAre, SMTT(30)
  <2> QED BY <1>3, <2>1, Zenon
<1>5. PICK x \in ToSet(item) : x.cost <= c /\ dp[i][c] = dp[i - 1][c - x.cost] + x.value
  BY <1>4 DEF Values
<1>6. PICK k \in DOMAIN item : item[k] = x
  BY DEF ToSet
<1>7. k \in J
  BY <1>5, <1>6
<1>8. DOMAIN item = 1 .. Len(item) /\ Len(item) \in Nat
  BY <1>1, LenProperties
<1>9. PICK j \in J : \A m \in J : j <= m
  <2>1. J \in SUBSET Nat
    BY <1>8
  <2> HIDE DEF J
  <2> QED BY <1>7, <2>1, LeastExists
<1>10. j \in DOMAIN item /\ gives(j) /\ \A m \in 1 .. j - 1 : ~ gives(m)
  <2>1. ASSUME NEW m \in 1 .. j - 1, gives(m) PROVE FALSE
    <3>1. m \in DOMAIN item /\ ~ (j <= m)
      BY <1>8
    <3>2. m \in J
      BY <2>1, <3>1
    <3> QED BY <1>9, <3>1, <3>2
  <2> HIDE DEF gives
  <2> QED BY <2>1
<1> DEFINE earliest(l) == gives(l) /\ \A m \in 1 .. l - 1 : ~ gives(m)
           l == CHOOSE y \in DOMAIN item : earliest(y)
<1>11. l \in DOMAIN item /\ earliest(l)
  <2>1. \E y \in DOMAIN item : earliest(y)
    BY <1>10
  <2> HIDE DEF earliest
  <2> QED BY <2>1
<1>12. Taken(items, dp, i, c) = item[l]
  BY DEF Taken
<1> HIDE DEF l
<1>13. item[l] \in ToSet(item)
  BY <1>11 DEF ToSet
<1>14. item[l].cost <= c /\ dp[i - 1][c - item[l].cost] + item[l].value = dp[i][c]
  BY <1>11
<1> QED BY <1>12, <1>13, <1>14

\* The walk back: the capacity there is for the earliest i items, and the move taken
\* for each.
Played(items, buckets, cap, took, picked) ==
    LET n  == Len(items)
        dp == Table(items, buckets)
    IN  /\ cap \in [0 .. n -> 0 .. buckets] /\ took \in [1 .. n -> Move]
        /\ picked = [i \in 1 .. n |-> took[i].choice]
        /\ \A i \in 1 .. n : /\ took[i] \in ToSet(items[i])
                             /\ cap[i - 1] = cap[i] - took[i].cost
                             /\ dp[i][cap[i]] = dp[i - 1][cap[i - 1]] + took[i].value
        /\ \A d \in 0 .. buckets : dp[n][d] <= dp[n][cap[n]]

LeftRound(items, dp, start, f, i) ==
    IF i = 0 THEN start
    ELSE f[i - 1] - Taken(items, dp, Len(items) - i + 1, f[i - 1]).cost
IsLeft(items, dp, start, f) == f = [i \in 0 .. Len(items) |-> LeftRound(items, dp, start, f, i)]
LeftOf(items, dp, start) == CHOOSE f : IsLeft(items, dp, start, f)

LEMMA LeftIs ==
    ASSUME NEW items, Playable(items), NEW buckets \in Nat, NEW dp, dp = Table(items, buckets),
           NEW start \in 0 .. buckets
    PROVE  /\ LeftOf(items, dp, start) \in [0 .. Len(items) -> 0 .. buckets]
           /\ LeftOf(items, dp, start)[0] = start
           /\ \A i \in 1 .. Len(items) :
                 LeftOf(items, dp, start)[i]
                    = LeftOf(items, dp, start)[i - 1]
                      - Taken(items, dp, Len(items) - i + 1, LeftOf(items, dp, start)[i - 1]).cost
<1> DEFINE C == 0 .. buckets
           next(i, c) == c - Taken(items, dp, Len(items) - i + 1, c).cost
<1>1. Len(items) \in Nat /\ \A j \in 1 .. Len(items) : items[j] \in Seq(Move)
  BY LenProperties DEF Playable
<1>2. ASSUME NEW i \in 1 .. Len(items), NEW c \in C PROVE next(i, c) \in C
  <2>1. PICK j \in 1 .. Len(items) : j = Len(items) - i + 1
    <3>1. Len(items) - i + 1 \in 1 .. Len(items)
      BY <1>1
    <3> QED BY <3>1
  <2>2. Taken(items, dp, j, c) \in ToSet(items[j]) /\ Taken(items, dp, j, c).cost <= c
    BY TakenIs
  <2>3. Taken(items, dp, j, c).cost \in Nat
    <3>1. items[j] \in [1 .. Len(items[j]) -> Move] /\ DOMAIN items[j] = 1 .. Len(items[j])
      BY <1>1, LenProperties
    <3>2. Taken(items, dp, j, c) \in Move
      BY <2>2, <3>1 DEF ToSet
    <3> QED BY <3>2 DEF Move
  <2> QED BY <2>1, <2>2, <2>3
<1> HIDE DEF C, next
<1>3. PICK step \in [1 .. Len(items) -> [C -> C]] :
         \A i \in 1 .. Len(items), c \in C : step[i][c] = next(i, c)
  <2> DEFINE st == [i \in 1 .. Len(items) |-> [c \in C |-> next(i, c)]]
  <2>1. st \in [1 .. Len(items) -> [C -> C]]
    BY <1>2
  <2>2. \A i \in 1 .. Len(items), c \in C : st[i][c] = next(i, c)
    OBVIOUS
  <2> QED BY <2>1, <2>2
<1>4. start \in C
  BY DEF C
<1>5. PICK g : IsWalk(g, Len(items), C, start, step)
  BY <1>1, <1>4, WalkExists
<1>6. g \in [0 .. Len(items) -> C] /\ g[0] = start
  BY <1>5 DEF IsWalk
<1>7. ASSUME NEW i \in 0 .. Len(items) PROVE g[i] = LeftRound(items, dp, start, g, i)
  <2>1. CASE i = 0
    BY <1>6, <2>1 DEF LeftRound
  <2>2. CASE i # 0
    <3>1. i \in 1 .. Len(items) /\ i - 1 \in 0 .. Len(items)
      BY <1>1, <2>2
    <3>2. g[i] = step[i][g[i - 1]] /\ g[i - 1] \in C
      BY <1>5, <1>6, <3>1 DEF IsWalk
    <3>3. g[i] = next(i, g[i - 1])
      BY <1>3, <3>1, <3>2
    <3> QED BY <2>2, <3>3 DEF LeftRound, next
  <2> QED BY <2>1, <2>2
<1>8. IsLeft(items, dp, start, g)
  BY <1>6, <1>7 DEF IsLeft
<1>9. PICK f : IsLeft(items, dp, start, f) /\ LeftOf(items, dp, start) = f
  BY <1>8 DEF LeftOf
<1>10. \A i \in 0 .. Len(items) : f[i] = LeftRound(items, dp, start, f, i)
  BY <1>9 DEF IsLeft
<1>11. f[0] = start
  <2>1. LeftRound(items, dp, start, f, 0) = start
    BY DEF LeftRound
  <2> QED BY <1>1, <1>10, <2>1
<1>12. \A i \in 1 .. Len(items) : f[i] = next(i, f[i - 1])
  <2> TAKE i \in 1 .. Len(items)
  <2>1. i \in 0 .. Len(items) /\ i # 0
    BY <1>1
  <2> QED BY <1>10, <2>1 DEF LeftRound, next
<1> DEFINE Good == {i \in 0 .. Len(items) : f[i] \in C}
<1>13. 0 \in Good
  BY <1>1, <1>4, <1>11
<1>14. ASSUME NEW i \in 1 .. Len(items), i - 1 \in Good PROVE i \in Good
  BY <1>1, <1>2, <1>12, <1>14
<1> HIDE DEF Good
<1>15. \A i \in 0 .. Len(items) : i \in Good
  BY <1>1, <1>13, <1>14, EveryRound
<1>16. f \in [0 .. Len(items) -> C]
  <2>1. f = [i \in 0 .. Len(items) |-> LeftRound(items, dp, start, f, i)]
    BY <1>9 DEF IsLeft
  <2>2. \A i \in 0 .. Len(items) : LeftRound(items, dp, start, f, i) \in C
    BY <1>10, <1>15 DEF Good
  <2> QED BY <2>1, <2>2
<1> QED BY <1>9, <1>11, <1>12, <1>16 DEF C, next

LEMMA BacktrackIs ==
    ASSUME NEW items, Playable(items), NEW buckets \in Nat
    PROVE  \E cap, took :
              Played(items, buckets, cap, took, Backtrack(items, Table(items, buckets), buckets))
<1>1. PICK dp : dp = Table(items, buckets)
  OBVIOUS
<1>2. PICK n \in Nat : n = Len(items)
  BY LenProperties DEF Playable
<1>3. PICK row \in [0 .. buckets -> Int] : row = dp[n]
  <2>1. n \in 0 .. n
    OBVIOUS
  <2> QED BY <1>1, <1>2, <2>1, TableIs
<1> DEFINE best == {c \in 0 .. buckets : \A d \in 0 .. buckets : row[d] <= row[c]}
           start == Min(best)
<1>4. best # {}
  <2> DEFINE V == {row[c] : c \in 0 .. buckets}
  <2>1. V \in SUBSET Int /\ 0 \in 0 .. buckets /\ row[0] \in V
    OBVIOUS
  <2>2. IsFiniteSet(V)
    <3>1. row \in Surjection(0 .. buckets, V)
      BY DEF Surjection
    <3>2. IsFiniteSet(0 .. buckets)
      <4>1. 0 \in Int /\ buckets \in Int
        OBVIOUS
      <4> QED BY <4>1, FS_Interval
    <3> HIDE DEF V
    <3> QED BY <3>1, <3>2, FS_Surjection
  <2>3. Max(V) \in V /\ \A v \in V : v <= Max(V)
    <3> HIDE DEF V
    <3> QED BY <2>1, <2>2, MaxIs
  <2>4. PICK c \in 0 .. buckets : row[c] = Max(V)
    BY <2>3
  <2>5. \A d \in 0 .. buckets : row[d] <= row[c]
    BY <2>3, <2>4
  <2> QED BY <2>5
<1>5. start \in best
  <2>1. best \in SUBSET Nat
    OBVIOUS
  <2> HIDE DEF best
  <2> QED BY <1>4, <2>1, MinIs
<1>6. start \in 0 .. buckets /\ \A d \in 0 .. buckets : dp[n][d] <= dp[n][start]
  BY <1>3, <1>5
<1>7. PICK left : left = LeftOf(items, dp, start)
  OBVIOUS
<1>8. Backtrack(items, dp, buckets)
        = [i \in 1 .. n |-> Taken(items, dp, i, left[n - i]).choice]
  BY <1>2, <1>3, <1>7 DEF Backtrack, LeftOf, IsLeft, LeftRound
<1> HIDE DEF start
<1>9. /\ left \in [0 .. n -> 0 .. buckets] /\ left[0] = start
      /\ \A i \in 1 .. n : left[i] = left[i - 1] - Taken(items, dp, n - i + 1, left[i - 1]).cost
  BY <1>1, <1>2, <1>6, <1>7, LeftIs
<1> DEFINE cap == [i \in 0 .. n |-> left[n - i]]
           took == [i \in 1 .. n |-> Taken(items, dp, i, left[n - i])]
<1>10. cap \in [0 .. n -> 0 .. buckets] /\ cap[n] = start
  <2>1. \A i \in 0 .. n : n - i \in 0 .. n
    OBVIOUS
  <2>2. n \in 0 .. n /\ n - n = 0
    OBVIOUS
  <2> QED BY <1>9, <2>1, <2>2
<1>11. ASSUME NEW i \in 1 .. n
       PROVE  /\ took[i] \in Move /\ took[i] \in ToSet(items[i])
              /\ cap[i - 1] = cap[i] - took[i].cost
              /\ dp[i][cap[i]] = dp[i - 1][cap[i - 1]] + took[i].value
  <2>1. /\ i \in 0 .. n /\ i - 1 \in 0 .. n /\ n - i \in 0 .. n
        /\ n - i + 1 \in 1 .. n /\ n - (n - i + 1) + 1 = i /\ (n - i + 1) - 1 = n - i
        /\ n - (i - 1) = n - i + 1
    OBVIOUS
  <2>2. PICK c \in 0 .. buckets : c = left[n - i]
    BY <1>9, <2>1
  <2>3. /\ Taken(items, dp, i, c) \in ToSet(items[i])
        /\ dp[i][c] = dp[i - 1][c - Taken(items, dp, i, c).cost] + Taken(items, dp, i, c).value
    BY <1>1, <1>2, TakenIs
  <2>4. took[i] = Taken(items, dp, i, c) /\ cap[i] = c
    BY <2>1, <2>2
  <2>5. cap[i - 1] = left[n - i + 1]
    BY <2>1
  <2>6. left[n - i + 1] = c - Taken(items, dp, i, c).cost
    BY <1>9, <2>1, <2>2
  <2>7. Taken(items, dp, i, c) \in Move
    <3>1. items[i] \in Seq(Move)
      BY <1>2, LenProperties DEF Playable
    <3> QED BY <2>3, <3>1, LenProperties DEF ToSet
  <2> QED BY <2>3, <2>4, <2>5, <2>6, <2>7
<1>12. Backtrack(items, dp, buckets) = [i \in 1 .. n |-> took[i].choice]
  BY <1>8
<1>13. took \in [1 .. n -> Move]
  BY <1>11
<1> HIDE DEF cap, took
<1>14. Played(items, buckets, cap, took, Backtrack(items, dp, buckets))
  BY <1>1, <1>2, <1>6, <1>10, <1>11, <1>12, <1>13 DEF Played
<1> QED BY <1>1, <1>14

-----------------------------------------------------------------------------
(* What the knapsack admits, and what it costs.                            *)

LEMMA QuantumIs ==
    ASSUME NEW free \in Nat
    PROVE  /\ Quantum(free) \in Nat \ {0}
           /\ Quantum(free) <= free \/ Quantum(free) = 1
           /\ free <= MaxDpBuckets => Quantum(free) = 1
<1>1. MaxDpBuckets \in Nat \ {0}
  BY PlannerAssumption
<1> DEFINE k == CeilDiv(free, MaxDpBuckets)
<1>2. k \in Nat /\ k <= free /\ (free <= MaxDpBuckets => k <= 1)
  BY <1>1, CeilDivIs
<1>3. Quantum(free) = Max({k, 1})
  BY DEF Quantum
<1> HIDE DEF k
<1>4. Max({k, 1}) = IF k >= 1 THEN k ELSE 1
  BY <1>2, MaxOfTwo
<1>5. CASE k >= 1
  BY <1>2, <1>3, <1>4, <1>5
<1>6. CASE ~ (k >= 1)
  BY <1>2, <1>3, <1>4, <1>6
<1> QED BY <1>5, <1>6

LEMMA BucketsIs ==
    ASSUME NEW free \in Nat
    PROVE  /\ Buckets(free, Quantum(free)) \in Nat
           /\ Quantum(free) * Buckets(free, Quantum(free)) <= IF free = 0 THEN 1 ELSE free
           /\ Quantum(free) = 1 => free <= Buckets(free, Quantum(free))
<1>1. PICK k : k = Quantum(free)
  OBVIOUS
<1>2. k \in Nat \ {0} /\ (k <= free \/ k = 1)
  BY <1>1, QuantumIs
<1>3. PICK d : d = free \div k
  OBVIOUS
<1>4. d \in Int /\ k * d <= free /\ free < k * d + k /\ (k = 1 => d = free)
  BY <1>2, <1>3
<1>5. Buckets(free, k) = IF d >= 1 THEN d ELSE 1
  BY <1>3, <1>4, MaxOfTwo DEF Buckets
<1>6. CASE d >= 1
  <2>1. Buckets(free, k) = d
    BY <1>5, <1>6
  <2>2. free # 0
    <3> SUFFICES ASSUME free = 0 PROVE FALSE
      OBVIOUS
    <3>1. k * d >= k
      BY <1>2, <1>4, <1>6
    <3> QED BY <1>2, <1>4, <3>1
  <2> QED BY <1>1, <1>4, <1>6, <2>1, <2>2
<1>7. CASE ~ (d >= 1)
  <2>1. Buckets(free, k) = 1
    BY <1>5, <1>7
  <2>2. k * d <= 0
    BY <1>2, <1>4, <1>7
  <2>3. k * d \in Int
    BY <1>2, <1>4
  <2>4. free < k
    BY <1>2, <1>4, <2>2, <2>3
  <2>5. k = 1 /\ free = 0
    BY <1>2, <2>4
  <2> QED BY <1>1, <2>1, <2>5
<1> QED BY <1>6, <1>7

LEMMA PricedIs ==
    ASSUME NEW cands \in Seq(Candidates)
    PROVE  Priced(cands) = cands
<1>1. \A c \in ToSet(cands) : c \in Candidates
  BY LenProperties DEF ToSet
<1>2. ToSet(cands) \subseteq {c \in ToSet(cands) : c.options # <<>>}
  BY <1>1 DEF Candidates, Options
<1> QED BY <1>2, AmongAll DEF Priced

LEMMA ReservedIs ==
    ASSUME NEW cands \in Seq(Candidates)
    PROVE  /\ Len(Reserved(cands)) = Len(cands) /\ Priceable(Reserved(cands))
           /\ \A i \in 1 .. Len(cands) : Reserved(cands)[i] = Base(cands[i])
<1>1. /\ Len(cands) \in Nat /\ DOMAIN cands = 1 .. Len(cands)
      /\ cands \in [1 .. Len(cands) -> Candidates]
  BY LenProperties
<1>2. Reserved(cands) = [i \in 1 .. Len(cands) |-> Base(cands[i])]
  BY <1>1, PricedIs DEF Reserved
<1>3. \A i \in 1 .. Len(cands) : Base(cands[i]) \in AnyChoice
  BY <1>1, BaseIs
<1>4. Reserved(cands) \in Seq(AnyChoice) /\ Len(Reserved(cands)) = Len(cands)
  <2>1. Reserved(cands) \in [1 .. Len(cands) -> AnyChoice]
    BY <1>2, <1>3
  <2> QED BY <1>1, <2>1, SeqDef
<1>5. \A i \in 1 .. Len(cands) : Reserved(cands)[i] = Base(cands[i])
  BY <1>2
<1>6. \A i \in 1 .. Len(cands) : Base(cands[i]).cost \in Int
  BY <1>3, AnyChoiceIs
<1> QED BY <1>1, <1>4, <1>5, <1>6 DEF Priceable

Admission == [node : Id, level : Level \cup {"none"}, cost : Nat, utility : Nat]

LEMMA EntryIs ==
    ASSUME NEW cand \in Candidates, NEW choice \in AnyChoice
    PROVE  Entry(cand, choice) \in Admission
BY DEF Entry, Admission, AnyChoice, Choice, Keep, Candidates

\* The items, the walk back over them and the entries it gives.
Filled(cands, free, items, cap, took) ==
    /\ items = [i \in 1 .. Len(cands) |-> Item(cands[i], Quantum(free))]
    /\ Len(items) = Len(cands) /\ Playable(items)
    /\ \E picked : Played(items, Buckets(free, Quantum(free)), cap, took, picked)
    /\ Knapsack(cands, free) = [i \in 1 .. Len(cands) |-> Entry(cands[i], took[i].choice)]
    /\ Knapsack(cands, free) \in Seq(Admission) /\ Len(Knapsack(cands, free)) = Len(cands)

LEMMA KnapsackIs ==
    ASSUME NEW cands \in Seq(Candidates), NEW free \in Nat
    PROVE  \E items, cap, took : Filled(cands, free, items, cap, took)
<1>1. /\ Len(cands) \in Nat /\ DOMAIN cands = 1 .. Len(cands)
      /\ cands \in [1 .. Len(cands) -> Candidates]
  BY LenProperties
<1>2. PICK k : k = Quantum(free) /\ k \in Nat \ {0}
  BY QuantumIs
<1>3. PICK buckets \in Nat : buckets = Buckets(free, k)
  BY <1>2, BucketsIs
<1>4. PICK items : items = [i \in 1 .. Len(cands) |-> Item(cands[i], k)]
  OBVIOUS
<1>5. \A i \in 1 .. Len(cands) : /\ Item(cands[i], k) \in Seq(Move)
                                 /\ \E x \in ToSet(Item(cands[i], k)) : x.cost = 0
  BY <1>1, <1>2, ItemIs
<1>6. items \in Seq(Seq(Move)) /\ Len(items) = Len(cands)
  <2>1. items \in [1 .. Len(cands) -> Seq(Move)]
    BY <1>4, <1>5
  <2>2. \A S : \A m \in Nat : \A f \in [1 .. m -> S] : f \in Seq(S) /\ Len(f) = m
    BY SeqDef
  <2> QED BY <1>1, <2>1, <2>2
<1>7. Playable(items)
  BY <1>4, <1>5, <1>6 DEF Playable
<1>8. PICK picked : picked = Backtrack(items, Table(items, buckets), buckets)
  OBVIOUS
<1>9. PICK cap, took : Played(items, buckets, cap, took, picked)
  BY <1>7, <1>8, BacktrackIs
<1>10. took \in [1 .. Len(cands) -> Move] /\ picked = [i \in 1 .. Len(cands) |-> took[i].choice]
  BY <1>6, <1>9 DEF Played
<1>11. Knapsack(cands, free) = [i \in 1 .. Len(cands) |-> Entry(cands[i], picked[i])]
  BY <1>1, <1>2, <1>3, <1>4, <1>8, PricedIs DEF Knapsack
<1>12. Knapsack(cands, free) = [i \in 1 .. Len(cands) |-> Entry(cands[i], took[i].choice)]
  BY <1>10, <1>11
<1>13. \A i \in 1 .. Len(cands) : Entry(cands[i], took[i].choice) \in Admission
  <2> TAKE i \in 1 .. Len(cands)
  <2>1. cands[i] \in Candidates /\ took[i].choice \in AnyChoice
    BY <1>1, <1>10 DEF Move
  <2> QED BY <2>1, EntryIs
<1>14. Knapsack(cands, free) \in Seq(Admission) /\ Len(Knapsack(cands, free)) = Len(cands)
  <2>1. Knapsack(cands, free) \in [1 .. Len(cands) -> Admission]
    BY <1>12, <1>13
  <2> QED BY <1>1, <2>1, SeqDef
<1>15. Filled(cands, free, items, cap, took)
  BY <1>2, <1>3, <1>4, <1>6, <1>7, <1>9, <1>12, <1>14 DEF Filled
<1> QED BY <1>15

\* What is taken for a candidate: what it starts from or one of its offers.
LEMMA TookIs ==
    ASSUME NEW cands \in Seq(Candidates), NEW free \in Nat, NEW items, NEW cap, NEW took,
           Filled(cands, free, items, cap, took), NEW i \in 1 .. Len(cands)
    PROVE  /\ cands[i] \in Candidates /\ took[i] \in ToSet(items[i])
           /\ took[i].cost \in Nat /\ took[i].value \in Int /\ took[i].choice \in AnyChoice
           /\ took[i].choice = Base(cands[i]) \/ took[i].choice \in Offers(cands[i])
           /\ took[i].value = took[i].choice.utility - Base(cands[i]).utility
           /\ took[i].choice.cost <= Base(cands[i]).cost + Quantum(free) * took[i].cost
           /\ Quantum(free) = 1 => took[i].cost = took[i].choice.cost - Base(cands[i]).cost
           /\ cap[i] \in Nat /\ cap[i - 1] \in Nat /\ cap[i - 1] = cap[i] - took[i].cost
<1>1. cands[i] \in Candidates /\ Len(cands) \in Nat
  BY LenProperties
<1>2. PICK picked : Played(items, Buckets(free, Quantum(free)), cap, took, picked)
  BY DEF Filled
<1>3. Len(items) = Len(cands) /\ items[i] = Item(cands[i], Quantum(free))
  BY DEF Filled
<1>4. /\ took[i] \in Move /\ took[i] \in ToSet(items[i])
      /\ cap \in [0 .. Len(cands) -> 0 .. Buckets(free, Quantum(free))]
      /\ cap[i - 1] = cap[i] - took[i].cost
  BY <1>2, <1>3 DEF Played
<1>5. i \in 0 .. Len(cands) /\ i - 1 \in 0 .. Len(cands)
  BY <1>1
<1>6. cap[i] \in Nat /\ cap[i - 1] \in Nat
  <2>1. \A c \in 0 .. Buckets(free, Quantum(free)) : c \in Nat
    BY BucketsIs
  <2>2. /\ cap[i] \in 0 .. Buckets(free, Quantum(free))
        /\ cap[i - 1] \in 0 .. Buckets(free, Quantum(free))
    BY <1>4, <1>5
  <2> QED BY <2>1, <2>2
<1>7. /\ took[i].choice = Base(cands[i]) \/ took[i].choice \in Offers(cands[i])
      /\ took[i].value = took[i].choice.utility - Base(cands[i]).utility
      /\ took[i].choice.cost <= Base(cands[i]).cost + Quantum(free) * took[i].cost
      /\ Quantum(free) = 1 => took[i].cost = took[i].choice.cost - Base(cands[i]).cost
  <2>1. PICK q \in Nat \ {0} : q = Quantum(free)
    BY QuantumIs
  <2>2. took[i] \in ToSet(Item(cands[i], q))
    BY <1>3, <1>4, <2>1
  <2> QED BY <1>1, <2>1, <2>2, ItemIs, SMTT(30)
<1>8. took[i].cost \in Nat /\ took[i].value \in Int /\ took[i].choice \in AnyChoice
  BY <1>4 DEF Move
<1> QED BY <1>1, <1>4, <1>6, <1>7, <1>8

\* The cost of the entries is within the capacity the walk back starts from, and
\* where costs are not rounded it is what the walk uses of it.
LEMMA KnapsackCost ==
    ASSUME NEW cands \in Seq(Candidates), NEW free \in Nat, NEW items, NEW cap, NEW took,
           Filled(cands, free, items, cap, took)
    PROVE  /\ Total(Knapsack(cands, free)) \in Int /\ Total(Reserved(cands)) \in Int
           /\ cap[Len(cands)] \in 0 .. Buckets(free, Quantum(free)) /\ cap[0] \in Nat
           /\ Total(Knapsack(cands, free)) <= Total(Reserved(cands)) + Quantum(free) * cap[Len(cands)]
           /\ Quantum(free) = 1 =>
                 Total(Knapsack(cands, free)) = Total(Reserved(cands)) + cap[Len(cands)] - cap[0]
<1>a. PICK n \in Nat : n = Len(cands)
  BY LenProperties
<1>b. PICK q : q = Quantum(free)
  OBVIOUS
<1>c. PICK full : full = Knapsack(cands, free)
  OBVIOUS
<1>d. PICK kept : kept = Reserved(cands)
  OBVIOUS
<1>1. q \in Nat \ {0}
  BY <1>b, QuantumIs
<1>2. /\ full \in Seq(Admission) /\ Len(full) = n
      /\ \A i \in 1 .. n : full[i] = Entry(cands[i], took[i].choice)
  BY <1>a, <1>c DEF Filled
<1>3. Priceable(full)
  <2>1. full \in [1 .. n -> Admission]
    BY <1>2, LenProperties
  <2> QED BY <1>2, <2>1 DEF Priceable, Admission
<1>4. Priceable(kept) /\ Len(kept) = n /\ \A i \in 1 .. n : kept[i] = Base(cands[i])
  BY <1>a, <1>d, ReservedIs
<1>5. PICK g : Sums(full, g)
  BY <1>3, SumsExist
<1>6. /\ g[0] = 0 /\ \A i \in 1 .. n : g[i] = g[i - 1] + full[i].cost
      /\ \A i \in 0 .. n : g[i] \in Int
      /\ Total(full) = g[n]
  BY <1>2, <1>3, <1>5, SumRounds
<1>7. PICK r : Sums(kept, r)
  BY <1>4, SumsExist
<1>8. /\ r[0] = 0 /\ \A i \in 1 .. n : r[i] = r[i - 1] + kept[i].cost
      /\ \A i \in 0 .. n : r[i] \in Int
      /\ Total(kept) = r[n]
  BY <1>4, <1>7, SumRounds
<1>9. cap \in [0 .. n -> 0 .. Buckets(free, q)]
  BY <1>a, <1>b DEF Filled, Played
<1>10. \A i \in 0 .. n : cap[i] \in Nat
  <2>1. Buckets(free, q) \in Nat
    BY <1>b, BucketsIs
  <2>2. \A c \in 0 .. Buckets(free, q) : c \in Nat
    BY <2>1
  <2> QED BY <1>9, <2>2
<1>11. ASSUME NEW i \in 1 .. n
       PROVE  /\ full[i].cost \in Int /\ kept[i].cost \in Int /\ took[i].cost \in Nat
              /\ full[i].cost <= kept[i].cost + q * took[i].cost
              /\ q = 1 => took[i].cost = full[i].cost - kept[i].cost
              /\ cap[i - 1] = cap[i] - took[i].cost
  <2>1. full[i].cost = took[i].choice.cost /\ kept[i] = Base(cands[i])
    BY <1>2, <1>4 DEF Entry
  <2>2. full[i].cost \in Int /\ kept[i].cost \in Int
    BY <1>2, <1>3, <1>4 DEF Priceable
  <2>3. i \in 1 .. Len(cands)
    BY <1>a
  <2>4. /\ took[i].cost \in Nat
        /\ took[i].choice.cost <= Base(cands[i]).cost + Quantum(free) * took[i].cost
        /\ Quantum(free) = 1 => took[i].cost = took[i].choice.cost - Base(cands[i]).cost
        /\ cap[i - 1] = cap[i] - took[i].cost
    BY <2>3, TookIs
  <2> QED BY <1>b, <2>1, <2>2, <2>4
<1> DEFINE Good == {i \in 0 .. n : /\ g[i] <= r[i] + q * cap[i]
                                   /\ q = 1 => g[i] = r[i] + cap[i] - cap[0]}
<1>12. 0 \in Good
  <2>1. PICK c \in Nat : c = cap[0]
    BY <1>10
  <2>2. 0 <= 0 + q * c /\ 0 = 0 + c - c
    BY <1>1
  <2>3. 0 \in 0 .. n /\ g[0] = 0 /\ r[0] = 0
    BY <1>6, <1>8
  <2> QED BY <2>1, <2>2, <2>3
<1>13. ASSUME NEW i \in 1 .. n, i - 1 \in Good PROVE i \in Good
  <2>1. i \in 0 .. n /\ i - 1 \in 0 .. n
    BY <1>1
  <2>2. /\ g[i] \in Int /\ g[i - 1] \in Int /\ r[i] \in Int /\ r[i - 1] \in Int
        /\ cap[i] \in Nat /\ cap[i - 1] \in Nat /\ cap[0] \in Nat
    BY <1>1, <1>6, <1>8, <1>10, <2>1
  <2>3. PICK c0 \in Nat, c1 \in Nat, f \in Int, k \in Int, t \in Nat, z \in Nat :
            /\ c0 = cap[i - 1] /\ c1 = cap[i] /\ z = cap[0]
            /\ f = full[i].cost /\ k = kept[i].cost /\ t = took[i].cost
    BY <1>11, <2>2
  <2>4. PICK g0 \in Int, g1 \in Int, r0 \in Int, r1 \in Int :
            g0 = g[i - 1] /\ g1 = g[i] /\ r0 = r[i - 1] /\ r1 = r[i]
    BY <2>2
  <2>5. g1 = g0 + f /\ r1 = r0 + k /\ f <= k + q * t /\ (q = 1 => t = f - k) /\ c0 = c1 - t
    BY <1>6, <1>8, <1>11, <2>3, <2>4
  <2>6. g0 <= r0 + q * c0 /\ (q = 1 => g0 = r0 + c0 - z)
    BY <1>13, <2>3, <2>4
  <2>7. q * c1 = q * c0 + q * t
    <3>1. c1 = c0 + t
      BY <2>5
    <3> QED BY <1>1, <3>1
  <2>8. g1 <= r1 + q * c1
    <3>1. q * c1 \in Int /\ q * c0 \in Int /\ q * t \in Int
      BY <1>1
    <3> QED BY <2>5, <2>6, <2>7, <3>1, SMTT(30)
  <2>9. q = 1 => g1 = r1 + c1 - z
    BY <2>5, <2>6
  <2> QED BY <2>1, <2>3, <2>4, <2>8, <2>9
<1> HIDE DEF Good
<1>14. \A i \in 0 .. n : i \in Good
  BY <1>1, <1>12, <1>13, EveryRound
<1>15. n \in 0 .. n /\ 0 \in 0 .. n
  BY <1>1
<1>16. g[n] <= r[n] + q * cap[n] /\ (q = 1 => g[n] = r[n] + cap[n] - cap[0])
  BY <1>14, <1>15 DEF Good
<1> QED BY <1>a, <1>b, <1>c, <1>d, <1>6, <1>8, <1>9, <1>10, <1>15, <1>16

-----------------------------------------------------------------------------
(* The overflow path: what is mandatory is admitted in utility order until *)
(* the budget is full.                                                     *)

LEMMA MostUsefulExists ==
    ASSUME NEW S \in SUBSET Candidates, IsFiniteSet(S), S # {}
    PROVE  \E c \in S : \A d \in S : MoreUseful(c, d)
<1>1. \A c \in S : Base(c).utility \in Nat /\ c.index \in Nat
  BY BaseIs, AnyChoiceIs DEF Candidates
<1> DEFINE V == {Base(c).utility : c \in S}
<1>2. V \in SUBSET Int /\ V # {}
  BY <1>1
<1>3. IsFiniteSet(V)
  <2> DEFINE f == [c \in S |-> Base(c).utility]
  <2>1. f \in Surjection(S, V)
    BY DEF Surjection
  <2> HIDE DEF V, f
  <2> QED BY <2>1, FS_Surjection
<1>4. Max(V) \in V /\ \A v \in V : v <= Max(V)
  <2> HIDE DEF V
  <2> QED BY <1>2, <1>3, MaxIs
<1> DEFINE I == {c.index : c \in {x \in S : Base(x).utility = Max(V)}}
<1>5. PICK k \in I : \A j \in I : k <= j
  <2>1. I \in SUBSET Nat /\ I # {}
    BY <1>1, <1>4
  <2> HIDE DEF I
  <2> QED BY <2>1, LeastExists
<1>6. PICK c \in S : Base(c).utility = Max(V) /\ c.index = k
  BY <1>5
<1>7. ASSUME NEW d \in S PROVE MoreUseful(c, d)
  <2>1. Base(d).utility <= Base(c).utility
    BY <1>4, <1>6
  <2>2. Base(d).utility \in Nat /\ Base(c).utility \in Nat
    BY <1>1
  <2>3. Base(d).utility = Base(c).utility => c.index <= d.index
    BY <1>5, <1>6
  <2> QED BY <2>1, <2>2, <2>3 DEF MoreUseful
<1> QED BY <1>7

\* A round of it: what was admitted fits, and comes from the mandatory set.
Rounds(forced, budget) ==
    {w \in [got : Seq(Admission), left : SUBSET forced] :
        /\ Total(w.got) <= budget
        /\ \A e \in ToSet(w.got) : \E c \in forced : e.node = c.node}

LEMMA AdmitNextIs ==
    ASSUME NEW forced \in SUBSET Candidates, IsFiniteSet(forced), NEW budget \in Nat,
           NEW w \in Rounds(forced, budget), w.left # {}
    PROVE  /\ AdmitNext(w, budget) \in Rounds(forced, budget)
           /\ Cardinality(AdmitNext(w, budget).left) = Cardinality(w.left) - 1
<1> DEFINE c == CHOOSE x \in w.left : \A y \in w.left : MoreUseful(x, y)
           e == Entry(c, Base(c))
           got == IF Total(w.got) + e.cost <= budget THEN Append(w.got, e) ELSE w.got
<1>1. /\ w.got \in Seq(Admission) /\ w.left \in SUBSET forced /\ Total(w.got) <= budget
      /\ \A x \in ToSet(w.got) : \E d \in forced : x.node = d.node
  BY DEF Rounds
<1>2. IsFiniteSet(w.left)
  BY <1>1, FS_Subset
<1>3. c \in w.left
  BY <1>1, <1>2, MostUsefulExists
<1>4. AdmitNext(w, budget) = [got |-> got, left |-> w.left \ {c}]
  BY DEF AdmitNext
<1> HIDE DEF c
<1>5. c \in Candidates
  BY <1>1, <1>3
<1>6. e \in Admission /\ e.node = c.node
  <2>1. Base(c) \in AnyChoice
    BY <1>5, BaseIs
  <2> QED BY <1>5, <2>1, EntryIs DEF Entry
<1> HIDE DEF e
<1>7. Cardinality(w.left \ {c}) = Cardinality(w.left) - 1
  BY <1>2, <1>3, FS_RemoveElement
<1>8. w.left \ {c} \in SUBSET forced
  BY <1>1
<1>9. got \in Seq(Admission) /\ Total(got) <= budget /\ \A x \in ToSet(got) : \E d \in forced : x.node = d.node
  <2>1. CASE Total(w.got) + e.cost <= budget
    <3>1. got = Append(w.got, e)
      BY <2>1
    <3>2. \A x \in Admission : x.cost \in Int
      BY DEF Admission
    <3>3. Total(got) = Total(w.got) + e.cost
      BY <1>1, <1>6, <3>1, <3>2, TotalAppend
    <3>4. got \in Seq(Admission) /\ ToSet(got) = ToSet(w.got) \cup {e}
      BY <1>1, <1>6, <3>1, AppendSet
    <3>5. c \in forced
      BY <1>1, <1>3
    <3> HIDE DEF got
    <3> QED BY <1>1, <1>6, <2>1, <3>3, <3>4, <3>5
  <2>2. CASE ~ (Total(w.got) + e.cost <= budget)
    BY <1>1, <2>2
  <2> QED BY <2>1, <2>2
<1> HIDE DEF got
<1> QED BY <1>4, <1>7, <1>8, <1>9 DEF Rounds

MFRound(forced, budget, f, k) ==
    IF k = 0 THEN [got |-> <<>>, left |-> forced] ELSE AdmitNext(f[k - 1], budget)
IsMF(forced, budget, f) ==
    f = [k \in 0 .. Cardinality(forced) |-> MFRound(forced, budget, f, k)]

LEMMA MandatoryFirstIs ==
    ASSUME NEW cands \in Seq(Candidates), NEW budget \in Nat
    PROVE  LET a == MandatoryFirst(cands, budget)
           IN  /\ a.overflow = TRUE /\ a.tokens <= budget
               /\ \A e \in ToSet(a.chosen) : \E c \in ToSet(cands) : c.pinned /\ e.node = c.node
<1> DEFINE forced == {c \in ToSet(Priced(cands)) : c.pinned}
           none == [got |-> <<>>, left |-> forced]
<1>1. ToSet(cands) \subseteq Candidates /\ IsFiniteSet(ToSet(cands))
  <2>1. /\ Len(cands) \in Nat /\ cands \in [1 .. Len(cands) -> Candidates]
        /\ DOMAIN cands = 1 .. Len(cands)
    BY LenProperties
  <2>2. cands \in Surjection(1 .. Len(cands), ToSet(cands))
    BY <2>1 DEF Surjection, ToSet
  <2>3. IsFiniteSet(1 .. Len(cands))
    <3>1. 1 \in Int /\ Len(cands) \in Int
      BY <2>1
    <3> QED BY <3>1, FS_Interval
  <2>4. IsFiniteSet(ToSet(cands))
    BY <2>2, <2>3, FS_Surjection
  <2> QED BY <2>1, <2>4 DEF ToSet
<1>2. Priced(cands) = cands
  BY PricedIs
<1>3. forced \in SUBSET Candidates /\ IsFiniteSet(forced)
  <2>1. forced \in SUBSET ToSet(cands)
    BY <1>2
  <2> HIDE DEF forced
  <2> QED BY <1>1, <2>1, FS_Subset
<1>4. \A c \in forced : c \in ToSet(cands) /\ c.pinned
  BY <1>2
<1>5. MandatoryFirst(cands, budget)
        = LET round == CHOOSE f : IsMF(forced, budget, f)
          IN  Allocation(round[Cardinality(forced)].got, TRUE)
  BY DEF MandatoryFirst, IsMF, MFRound
<1> HIDE DEF forced
<1>6. PICK n \in Nat : n = Cardinality(forced)
  BY <1>3, FS_CardinalityType
<1>7. none \in Rounds(forced, budget)
  BY TotalEmpty DEF Rounds, ToSet
<1> HIDE DEF none
<1>8. PICK step \in [1 .. n -> [Rounds(forced, budget) -> Rounds(forced, budget)]] :
         \A k \in 1 .. n, w \in Rounds(forced, budget) : w.left # {} => step[k][w] = AdmitNext(w, budget)
  <2> DEFINE R == Rounds(forced, budget)
             st == [k \in 1 .. n |-> [w \in R |-> IF w.left = {} THEN w ELSE AdmitNext(w, budget)]]
  <2>1. \A w \in R : (IF w.left = {} THEN w ELSE AdmitNext(w, budget)) \in R
    BY <1>3, AdmitNextIs
  <2> HIDE DEF R
  <2>2. st \in [1 .. n -> [R -> R]]
    BY <2>1
  <2>3. \A k \in 1 .. n, w \in R : w.left # {} => st[k][w] = AdmitNext(w, budget)
    OBVIOUS
  <2> QED BY <2>2, <2>3 DEF R
<1>9. PICK g : IsWalk(g, n, Rounds(forced, budget), none, step)
  BY <1>7, WalkExists
<1>10. g \in [0 .. n -> Rounds(forced, budget)] /\ g[0] = none
  BY <1>9 DEF IsWalk
<1> DEFINE Good == {k \in 0 .. n : Cardinality(g[k].left) = n - k}
<1>11. ASSUME NEW k \in 1 .. n, k - 1 \in Good
       PROVE  k \in Good /\ g[k] = AdmitNext(g[k - 1], budget)
  <2>1. k \in 0 .. n /\ k - 1 \in 0 .. n /\ g[k - 1] \in Rounds(forced, budget)
    BY <1>10
  <2>2. g[k - 1].left # {}
    <3>1. Cardinality(g[k - 1].left) = n - (k - 1) /\ n - (k - 1) # 0
      BY <1>11
    <3> QED BY <3>1, FS_EmptySet
  <2>3. g[k] = AdmitNext(g[k - 1], budget)
    BY <1>8, <1>9, <2>1, <2>2 DEF IsWalk
  <2>4. Cardinality(g[k].left) = Cardinality(g[k - 1].left) - 1
    BY <1>3, <2>1, <2>2, <2>3, AdmitNextIs
  <2>5. Cardinality(g[k - 1].left) = n - (k - 1) /\ (n - (k - 1)) - 1 = n - k
    BY <1>11
  <2> QED BY <2>1, <2>3, <2>4, <2>5
<1>12. 0 \in Good
  BY <1>6, <1>10 DEF none
<1> HIDE DEF Good
<1>13. \A k \in 0 .. n : k \in Good
  BY <1>11, <1>12, EveryRound
<1>14. ASSUME NEW k \in 0 .. n PROVE g[k] = MFRound(forced, budget, g, k)
  <2>1. CASE k = 0
    BY <1>10, <2>1 DEF MFRound, none
  <2>2. CASE k # 0
    <3>1. k \in 1 .. n /\ k - 1 \in 0 .. n
      BY <2>2
    <3>2. g[k] = AdmitNext(g[k - 1], budget)
      BY <1>11, <1>13, <3>1
    <3> QED BY <2>2, <3>2 DEF MFRound
  <2> QED BY <2>1, <2>2
<1>15. IsMF(forced, budget, g)
  BY <1>6, <1>10, <1>14 DEF IsMF
<1>16. PICK f : IsMF(forced, budget, f)
                /\ MandatoryFirst(cands, budget) = Allocation(f[n].got, TRUE)
  BY <1>5, <1>6, <1>15
<1>17. \A k \in 0 .. n : f[k] = MFRound(forced, budget, f, k)
  BY <1>6, <1>16 DEF IsMF
<1> DEFINE Fine == {k \in 0 .. n : f[k] = g[k]}
<1>18. 0 \in Fine
  <2>1. MFRound(forced, budget, f, 0) = none
    BY DEF MFRound, none
  <2> QED BY <1>10, <1>17, <2>1
<1>19. ASSUME NEW k \in 1 .. n, k - 1 \in Fine PROVE k \in Fine
  <2>1. k \in 0 .. n /\ k # 0
    OBVIOUS
  <2>2. f[k] = AdmitNext(f[k - 1], budget) /\ g[k] = AdmitNext(g[k - 1], budget)
    BY <1>14, <1>17, <2>1 DEF MFRound
  <2> QED BY <1>19, <2>1, <2>2
<1> HIDE DEF Fine
<1>20. \A k \in 0 .. n : k \in Fine
  BY <1>18, <1>19, EveryRound
<1>21. f[n] \in Rounds(forced, budget)
  BY <1>10, <1>20 DEF Fine
<1>22. /\ Total(f[n].got) <= budget
       /\ \A e \in ToSet(f[n].got) : \E c \in forced : e.node = c.node
  BY <1>21 DEF Rounds
<1> QED BY <1>4, <1>16, <1>22 DEF Allocation

-----------------------------------------------------------------------------
(* The allocation.                                                         *)

LEMMA AdmittedIs ==
    ASSUME NEW cands \in Seq(Candidates), NEW free \in Nat, NEW items, NEW cap, NEW took,
           Filled(cands, free, items, cap, took)
    PROVE  /\ ToSet(Admitted(Knapsack(cands, free)))
                = {Entry(cands[i], took[i].choice) : i \in {j \in 1 .. Len(cands) : took[j].choice # Keep}}
           /\ Total(Admitted(Knapsack(cands, free))) = Total(Knapsack(cands, free))
<1>1. PICK full : full = Knapsack(cands, free)
  OBVIOUS
<1>2. /\ full \in Seq(Admission) /\ Len(full) = Len(cands) /\ DOMAIN full = 1 .. Len(cands)
      /\ full = [i \in 1 .. Len(cands) |-> Entry(cands[i], took[i].choice)]
  BY <1>1, LenProperties DEF Filled
<1>3. \A i \in 1 .. Len(cands) :
         /\ full[i] = Entry(cands[i], took[i].choice) /\ full[i] \in ToSet(full)
         /\ full[i].level = "none" <=> took[i].choice = Keep
         /\ took[i].choice = Keep => full[i].cost = 0
  <2> TAKE i \in 1 .. Len(cands)
  <2>1. full[i] = Entry(cands[i], took[i].choice) /\ full[i] \in ToSet(full)
    BY <1>2 DEF ToSet
  <2>2. took[i].choice \in AnyChoice
    BY TookIs
  <2>3. took[i].choice.level = "none" <=> took[i].choice = Keep
    BY <2>2 DEF AnyChoice, Choice, Keep, Level
  <2>4. full[i].level = took[i].choice.level /\ full[i].cost = took[i].choice.cost
    BY <2>1 DEF Entry
  <2>5. Keep.cost = 0
    BY DEF Keep
  <2> QED BY <2>1, <2>3, <2>4, <2>5
<1>4. ToSet(full) = {full[i] : i \in 1 .. Len(cands)}
  BY <1>2 DEF ToSet
<1> DEFINE S == {e \in ToSet(full) : e.level # "none"}
<1>5. Admitted(full) = Among(full, S)
  BY DEF Admitted
<1>6. ToSet(Among(full, S)) = ToSet(full) \cap S
  <2> HIDE DEF S
  <2> QED BY <1>2, AmongIs
<1>7. ToSet(Admitted(full))
         = {Entry(cands[i], took[i].choice) : i \in {j \in 1 .. Len(cands) : took[j].choice # Keep}}
  BY <1>3, <1>4, <1>5, <1>6, SMTT(30)
<1>8. Total(Among(full, S)) = Total(full)
  <2>1. \A x \in Admission : x.cost \in Int
    BY DEF Admission
  <2>2. \A x \in ToSet(full) : x \notin S => x.cost = 0
    BY <1>3, <1>4
  <2> HIDE DEF S
  <2> QED BY <1>2, <2>1, <2>2, TotalAmong
<1> QED BY <1>1, <1>5, <1>7, <1>8

\* What an allocation shows is among the candidates, it fits the budget but for the
\* one token, and what is mandatory is in it unless it says it overflows.
LEMMA SolveIs ==
    ASSUME NEW cands \in Seq(Candidates), NEW budget \in Nat
    PROVE  LET a == Solve(cands, budget)
           IN  /\ a.tokens <= budget + (IF Total(Reserved(cands)) = budget THEN 1 ELSE 0)
               /\ \A e \in ToSet(a.chosen) : \E c \in ToSet(cands) : e.node = c.node
               /\ ~ a.overflow =>
                     \A c \in ToSet(cands) : c.pinned => \E e \in ToSet(a.chosen) : e.node = c.node
<1> DEFINE a == Solve(cands, budget)
           mandatory == Total(Reserved(cands))
<1>1. Len(cands) \in Nat /\ DOMAIN cands = 1 .. Len(cands)
  BY LenProperties
<1>2. CASE budget = 0 \/ cands = <<>>
  <2>1. a = Allocation(<<>>, \E c \in ToSet(cands) : c.pinned)
    BY <1>2 DEF Solve
  <2>2. a.chosen = <<>> /\ a.tokens = 0 /\ a.overflow = (\E c \in ToSet(cands) : c.pinned)
    BY <2>1, TotalEmpty DEF Allocation
  <2>3. ToSet(<<>>) = {}
    BY DEF ToSet
  <2> HIDE DEF a, mandatory
  <2> QED BY <2>2, <2>3 DEF a
<1>3. CASE ~ (budget = 0 \/ cands = <<>>) /\ mandatory > budget
  <2>1. a = MandatoryFirst(cands, budget)
    BY <1>3 DEF Solve
  <2>2. /\ a.overflow = TRUE /\ a.tokens <= budget
        /\ \A e \in ToSet(a.chosen) : \E c \in ToSet(cands) : c.pinned /\ e.node = c.node
    BY <2>1, MandatoryFirstIs
  <2>3. mandatory # budget
    BY <1>3
  <2> HIDE DEF a
  <2> QED BY <2>2, <2>3 DEF a
<1>4. CASE ~ (budget = 0 \/ cands = <<>>) /\ ~ (mandatory > budget)
  <2>1. mandatory \in Int
    <3>1. PICK items, cap, took : Filled(cands, 0, items, cap, took)
      BY KnapsackIs
    <3> QED BY <3>1, KnapsackCost
  <2> HIDE DEF mandatory
  <2>2. PICK free \in Nat : free = budget - mandatory
    BY <1>4, <2>1
  <2>3. PICK items, cap, took : Filled(cands, free, items, cap, took)
    BY KnapsackIs
  <2>4. PICK chosen : chosen = Admitted(Knapsack(cands, free))
    OBVIOUS
  <2>5. a = Allocation(chosen, FALSE)
    BY <1>4, <2>2, <2>4 DEF Solve, mandatory
  <2>6. a.chosen = chosen /\ a.tokens = Total(chosen) /\ a.overflow = FALSE
    BY <2>5 DEF Allocation
  <2>7. /\ ToSet(chosen) = {Entry(cands[i], took[i].choice) :
                               i \in {j \in 1 .. Len(cands) : took[j].choice # Keep}}
        /\ Total(chosen) = Total(Knapsack(cands, free))
    BY <2>3, <2>4, AdmittedIs
  <2>8. a.tokens <= budget + (IF mandatory = budget THEN 1 ELSE 0)
    <3>1. PICK q \in Nat \ {0} : q = Quantum(free)
      BY QuantumIs
    <3>2. PICK buckets \in Nat : buckets = Buckets(free, q)
      BY <3>1, BucketsIs
    <3>3. q * buckets <= IF free = 0 THEN 1 ELSE free
      BY <3>1, <3>2, BucketsIs
    <3>4. PICK c \in 0 .. buckets, spent \in Int :
             c = cap[Len(cands)] /\ spent = a.tokens /\ spent <= mandatory + q * c
      BY <2>3, <2>6, <2>7, <3>1, <3>2, KnapsackCost DEF mandatory
    <3>5. q * c <= q * buckets
      BY <3>1, <3>2, <3>4
    <3>6. PICK most \in Int, used \in Int, m \in Int :
             most = q * buckets /\ used = q * c /\ m = mandatory
      BY <2>1, <3>1, <3>2, <3>4
    <3>7. /\ spent <= m + used /\ used <= most /\ free = budget - m
          /\ most <= IF free = 0 THEN 1 ELSE free
      BY <2>2, <3>3, <3>4, <3>5, <3>6
    <3>8. spent <= budget + (IF m = budget THEN 1 ELSE 0)
      BY <3>7
    <3> QED BY <3>4, <3>6, <3>8, Zenon
  <2>9. \A e \in ToSet(chosen) : \E c \in ToSet(cands) : e.node = c.node
    <3>1. \A i \in 1 .. Len(cands) :
             cands[i] \in ToSet(cands) /\ Entry(cands[i], took[i].choice).node = cands[i].node
      BY <1>1 DEF ToSet, Entry
    <3> QED BY <2>7, <3>1
  <2>10. ASSUME NEW c \in ToSet(cands), c.pinned
         PROVE  \E e \in ToSet(chosen) : e.node = c.node
    <3>1. PICK i \in 1 .. Len(cands) : c = cands[i]
      BY <1>1 DEF ToSet
    <3>2. /\ c \in Candidates
          /\ took[i].choice = Base(c) \/ took[i].choice \in Offers(c)
      BY <2>3, <3>1, TookIs
    <3>3. took[i].choice \in Choice
      <4>1. c.options \in Options
        BY <3>2 DEF Candidates
      <4>2. ToSet(c.options) \subseteq Choice
        BY <4>1, OptionsAre
      <4> QED BY <2>10, <3>2, <4>2, BaseIs DEF Offers
    <3>4. took[i].choice # Keep
      BY <3>3 DEF Choice, Keep
    <3>5. Entry(c, took[i].choice) \in ToSet(chosen) /\ Entry(c, took[i].choice).node = c.node
      BY <2>7, <3>1, <3>4 DEF Entry
    <3> QED BY <3>5
  <2> HIDE DEF a
  <2> QED BY <2>6, <2>8, <2>9, <2>10 DEF a, mandatory
<1> HIDE DEF a
<1> QED BY <1>2, <1>3, <1>4

-----------------------------------------------------------------------------
(* What is lost is lost to the budget: were there room for a move of more  *)
(* worth, the same walk with that move would end above the best value.     *)

LEMMA RowStep ==
    ASSUME NEW items, Playable(items), NEW buckets \in Nat,
           NEW i \in 1 .. Len(items), NEW c \in 0 .. buckets,
           NEW x \in ToSet(items[i]), x.cost <= c
    PROVE  /\ x.cost \in Nat /\ x.value \in Int
           /\ Table(items, buckets)[i] \in [0 .. buckets -> Int]
           /\ Table(items, buckets)[i - 1] \in [0 .. buckets -> Int]
           /\ Table(items, buckets)[i - 1][c - x.cost] + x.value <= Table(items, buckets)[i][c]
<1>1. /\ Len(items) \in Nat /\ items[i] \in Seq(Move)
      /\ \E y \in ToSet(items[i]) : y.cost = 0
  BY LenProperties DEF Playable
<1>2. x \in Move
  BY <1>1, LenProperties DEF ToSet
<1>3. i \in 0 .. Len(items) /\ i - 1 \in 0 .. Len(items)
  BY <1>1
<1>4. /\ Table(items, buckets)[i] \in [0 .. buckets -> Int]
      /\ Table(items, buckets)[i - 1] \in [0 .. buckets -> Int]
  BY <1>3, TableIs
<1>5. PICK row \in [0 .. buckets -> Int] : row = Table(items, buckets)[i - 1]
  BY <1>4
<1>6. Table(items, buckets)[i][c] = Max(Values(row, items[i], c))
  BY <1>5, TableIs
<1>7. row[c - x.cost] + x.value \in Values(row, items[i], c)
  BY DEF Values
<1>8. row[c - x.cost] + x.value <= Max(Values(row, items[i], c))
  BY <1>1, <1>7, ValuesAre
<1> QED BY <1>2, <1>4, <1>5, <1>6, <1>8 DEF Move

\* x is worth more than what is taken for item i, and there is capacity for it.
RoomFor(x, i, n, buckets, cap, took) ==
    /\ x.value > took[i].value
    /\ cap[n] - cap[0] + x.cost - took[i].cost <= buckets

LEMMA NoBetterMove ==
    ASSUME NEW items, Playable(items), NEW buckets \in Nat, NEW cap, NEW took, NEW picked,
           Played(items, buckets, cap, took, picked),
           NEW i \in 1 .. Len(items), NEW x \in ToSet(items[i])
    PROVE  ~ RoomFor(x, i, Len(items), buckets, cap, took)
<1> SUFFICES ASSUME RoomFor(x, i, Len(items), buckets, cap, took) PROVE FALSE
  OBVIOUS
<1>1. PICK n \in Nat : n = Len(items)
  BY LenProperties DEF Playable
<1>2. PICK dp : dp = Table(items, buckets)
  OBVIOUS
<1>3. /\ dp \in [0 .. n -> [0 .. buckets -> Int]]
      /\ cap \in [0 .. n -> 0 .. buckets] /\ took \in [1 .. n -> Move]
      /\ \A j \in 1 .. n : /\ took[j] \in ToSet(items[j])
                           /\ cap[j - 1] = cap[j] - took[j].cost
                           /\ dp[j][cap[j]] = dp[j - 1][cap[j - 1]] + took[j].value
      /\ \A d \in 0 .. buckets : dp[n][d] <= dp[n][cap[n]]
  BY <1>1, <1>2, TableIs DEF Played
<1>4. \A j \in 1 .. n : took[j].cost \in Nat /\ took[j].value \in Int
  BY <1>3 DEF Move
<1>5. \A j \in 0 .. n : cap[j] \in 0 .. buckets
  BY <1>3
<1>6. i \in 1 .. n /\ x \in Move
  <2>1. items[i] \in Seq(Move)
    BY LenProperties DEF Playable
  <2> QED BY <1>1, <2>1, LenProperties DEF ToSet
<1>7. PICK xc \in Nat, xv \in Int, tc \in Nat, tv \in Int, z \in Nat, top \in Nat :
          /\ xc = x.cost /\ xv = x.value /\ tc = took[i].cost /\ tv = took[i].value
          /\ z = cap[0] /\ top = cap[n]
  <2>1. x.cost \in Nat /\ x.value \in Int
    BY <1>6 DEF Move
  <2>2. cap[0] \in Nat /\ cap[n] \in Nat
    BY <1>1, <1>5
  <2> QED BY <1>4, <1>6, <2>1, <2>2
<1>8. xv > tv /\ top - z + xc - tc <= buckets
  BY <1>1, <1>7 DEF RoomFor
\* A capacity is never above the one the walk back starts from.
<1>9. \A j \in 0 .. n : cap[j] <= top
  <2> DEFINE Low == {k \in 0 .. n : cap[n - k] <= top}
  <2>1. 0 \in Low
    BY <1>1, <1>7
  <2>2. ASSUME NEW k \in 1 .. n, k - 1 \in Low PROVE k \in Low
    <3>1. PICK j \in 1 .. n : j = n - k + 1
      <4>1. n - k + 1 \in 1 .. n
        BY <1>1
      <4> QED BY <4>1
    <3>2. n - (k - 1) = j /\ n - k = j - 1 /\ k \in 0 .. n /\ j \in 0 .. n /\ j - 1 \in 0 .. n
      BY <1>1, <3>1
    <3>3. PICK c0 \in Nat, c1 \in Nat, t \in Nat : c0 = cap[j - 1] /\ c1 = cap[j] /\ t = took[j].cost
      BY <1>4, <1>5, <3>2
    <3>4. c0 = c1 - t
      BY <1>3, <3>3
    <3>5. c1 <= top
      BY <2>2, <3>2, <3>3
    <3>6. c0 <= top
      BY <3>4, <3>5
    <3> QED BY <3>2, <3>3, <3>6
  <2> HIDE DEF Low
  <2>3. \A k \in 0 .. n : k \in Low
    BY <1>1, <2>1, <2>2, EveryRound
  <2>4. ASSUME NEW j \in 0 .. n PROVE cap[j] <= top
    <3>1. PICK k \in 0 .. n : k = n - j
      BY <1>1
    <3>2. n - k = j
      BY <1>1, <3>1
    <3> QED BY <2>3, <3>2 DEF Low
  <2> QED BY <2>4
\* The walk with x for item i, from no more capacity than it needs.
<1>10. PICK shift \in [0 .. n -> Int], gain \in [0 .. n -> Int] :
          /\ shift = [j \in 0 .. n |-> IF j < i THEN 0 - z ELSE xc - tc - z]
          /\ gain = [j \in 0 .. n |-> IF j < i THEN 0 ELSE xv - tv]
  <2>1. PICK u \in Int, v \in Int, w \in Int : u = 0 - z /\ v = xc - tc - z /\ w = xv - tv
    OBVIOUS
  <2>2. [j \in 0 .. n |-> IF j < i THEN u ELSE v] \in [0 .. n -> Int]
    OBVIOUS
  <2>3. [j \in 0 .. n |-> IF j < i THEN 0 ELSE w] \in [0 .. n -> Int]
    OBVIOUS
  <2> QED BY <2>1, <2>2, <2>3
<1> DEFINE Good == {j \in 0 .. n : /\ cap[j] + shift[j] \in 0 .. buckets
                                   /\ dp[j][cap[j]] + gain[j] <= dp[j][cap[j] + shift[j]]}
<1>11. 0 \in Good
  <2>1. 0 < i /\ 0 \in 0 .. n
    BY <1>1, <1>6
  <2>2. shift[0] = 0 - z /\ gain[0] = 0
    BY <1>10, <2>1
  <2>3. z + (0 - z) = 0 /\ 0 \in 0 .. buckets
    OBVIOUS
  <2>4. cap[0] + shift[0] = 0 /\ cap[0] \in 0 .. buckets
    BY <1>5, <1>7, <2>1, <2>2, <2>3
  <2>5. dp[0][cap[0]] = 0 /\ dp[0][0] = 0
    BY <1>2, <2>3, <2>4, TableIs
  <2>6. 0 + 0 <= 0
    OBVIOUS
  <2> QED BY <2>1, <2>2, <2>3, <2>4, <2>5, <2>6
<1>12. ASSUME NEW j \in 1 .. n, j - 1 \in Good PROVE j \in Good
  <2>1. j \in 0 .. n /\ j - 1 \in 0 .. n /\ j \in 1 .. Len(items)
    BY <1>1
  <2>2. PICK m : m = IF j = i THEN x ELSE took[j]
    OBVIOUS
  <2>3. m \in ToSet(items[j]) /\ m \in Move
    BY <1>3, <1>6, <2>2
  <2>4. PICK c0 \in Nat, c1 \in Nat, t \in Nat, v \in Int, mc \in Nat, mv \in Int :
            /\ c0 = cap[j - 1] /\ c1 = cap[j] /\ t = took[j].cost /\ v = took[j].value
            /\ mc = m.cost /\ mv = m.value
    <3>1. m.cost \in Nat /\ m.value \in Int
      BY <2>3 DEF Move
    <3>2. cap[j - 1] \in Nat /\ cap[j] \in Nat /\ took[j].cost \in Nat /\ took[j].value \in Int
      BY <1>4, <1>5, <2>1, SMTT(30)
    <3> HIDE DEF Good
    <3> QED BY <3>1, <3>2
  <2>5. PICK s0 \in Int, s1 \in Int, g0 \in Int, g1 \in Int :
            s0 = shift[j - 1] /\ s1 = shift[j] /\ g0 = gain[j - 1] /\ g1 = gain[j]
    BY <2>1
  <2>6. /\ j < i => s1 = 0 - z /\ g1 = 0
        /\ ~ (j < i) => s1 = xc - tc - z /\ g1 = xv - tv
        /\ j - 1 < i => s0 = 0 - z /\ g0 = 0
        /\ ~ (j - 1 < i) => s0 = xc - tc - z /\ g0 = xv - tv
    BY <1>10, <2>1, <2>5
  <2>7. /\ j = i => mc = xc /\ mv = xv /\ t = tc /\ v = tv
        /\ j # i => mc = t /\ mv = v
    BY <1>7, <2>2, <2>4
  <2>8. s1 = s0 + mc - t /\ g1 = g0 + mv - v
    <3>1. j \in Int /\ i \in Int
      BY <1>1, <1>6
    <3>2. CASE j < i
      <4>1. j - 1 < i /\ j # i
        BY <3>1, <3>2
      <4> QED BY <2>6, <2>7, <3>2, <4>1
    <3>3. CASE j = i
      <4>1. j - 1 < i /\ ~ (j < i)
        BY <3>1, <3>3
      <4> QED BY <2>6, <2>7, <3>3, <4>1
    <3>4. CASE j > i
      <4>1. ~ (j - 1 < i) /\ ~ (j < i) /\ j # i
        BY <3>1, <3>4
      <4> QED BY <2>6, <2>7, <4>1
    <3> QED BY <3>1, <3>2, <3>3, <3>4
  <2>9. c0 = c1 - t /\ c1 <= buckets /\ c0 <= buckets /\ c0 + s0 \in 0 .. buckets /\ c1 <= top
    <3>1. cap[j] \in 0 .. buckets /\ cap[j - 1] \in 0 .. buckets /\ cap[j] <= top
      BY <1>5, <1>9, <2>1
    <3> QED BY <1>3, <1>12, <2>4, <2>5, <3>1
  <2>10. PICK low \in Nat : low = c0 + s0 /\ low <= buckets
    BY <2>9
  <2>11. c1 + s1 = low + mc
    BY <2>8, <2>9, <2>10
  <2>12. low + mc <= buckets
    <3>1. CASE j < i
      BY <2>6, <2>9, <2>11, <3>1
    <3>2. CASE ~ (j < i)
      <4>1. low + mc = c1 + xc - tc - z
        BY <2>6, <2>11, <3>2
      <4> QED BY <1>8, <2>9, <4>1
    <3> QED BY <3>1, <3>2
  <2>13. PICK d \in 0 .. buckets : d = low + mc /\ d - mc = low /\ mc <= d
    BY <2>12
  <2>14. dp[j - 1][d - mc] + mv <= dp[j][d]
    <3>1. m.cost <= d
      BY <2>4, <2>13
    <3> QED BY <1>2, <2>1, <2>3, <2>4, <3>1, RowStep
  <2>15. c0 \in 0 .. buckets /\ c1 \in 0 .. buckets /\ low \in 0 .. buckets
    BY <2>9, <2>10
  <2>16. PICK a0 \in Int, a1 \in Int, b0 \in Int, b1 \in Int :
             a0 = dp[j - 1][c0] /\ a1 = dp[j][c1] /\ b0 = dp[j - 1][low] /\ b1 = dp[j][d]
    <3>1. PICK row0 \in [0 .. buckets -> Int], row1 \in [0 .. buckets -> Int] :
              row0 = dp[j - 1] /\ row1 = dp[j]
      BY <1>3, <2>1
    <3>2. row0[c0] \in Int /\ row1[c1] \in Int /\ row0[low] \in Int /\ row1[d] \in Int
      BY <2>15
    <3> HIDE DEF Good
    <3> QED BY <3>1, <3>2
  <2>17. a1 = a0 + v
    BY <1>3, <2>4, <2>16
  <2>18. a0 + g0 <= b0
    BY <1>12, <2>4, <2>5, <2>10, <2>16
  <2>19. b0 + mv <= b1
    BY <2>13, <2>14, <2>16
  <2>20. a1 + g1 <= b1
    BY <2>8, <2>17, <2>18, <2>19
  <2>21. cap[j] + shift[j] = d /\ d \in 0 .. buckets
    BY <2>4, <2>5, <2>11, <2>13
  <2>22. dp[j][cap[j]] + gain[j] <= dp[j][cap[j] + shift[j]]
    BY <2>4, <2>5, <2>16, <2>20, <2>21
  <2> QED BY <2>1, <2>21, <2>22
<1>13. \A j \in 0 .. n : j \in Good
  <2> HIDE DEF Good
  <2> QED BY <1>1, <1>11, <1>12, EveryRound
<1>14. n \in 0 .. n /\ ~ (n < i)
  BY <1>1, <1>6
<1>15. shift[n] = xc - tc - z /\ gain[n] = xv - tv
  BY <1>10, <1>14
<1>16. PICK d \in 0 .. buckets : d = cap[n] + shift[n]
  BY <1>13, <1>14
<1>17. PICK a \in Int, b \in Int, g \in Int : a = dp[n][cap[n]] /\ b = dp[n][d] /\ g = gain[n]
  BY <1>3, <1>5, <1>14, ZenonT(30)
<1>18. b <= a
  BY <1>3, <1>16, <1>17
<1>19. a + g <= b
  BY <1>13, <1>14, <1>16, <1>17
<1>20. g > 0
  <2>1. g = xv - tv
    BY <1>15, <1>17
  <2> QED BY <1>8, <2>1
<1> QED BY <1>18, <1>19, <1>20

\* Where costs are not rounded, an offer worth more than what is taken does not fit
\* in place of it.
LEMMA NoRoomForMore ==
    ASSUME NEW cands \in Seq(Candidates), NEW free \in Nat, NEW items, NEW cap, NEW took,
           Filled(cands, free, items, cap, took), Quantum(free) = 1,
           NEW i \in 1 .. Len(cands), NEW o \in Offers(cands[i]),
           o.utility > took[i].choice.utility
    PROVE  Total(Reserved(cands)) + free
              < Total(Knapsack(cands, free)) - took[i].choice.cost + o.cost
<1>1. PICK n \in Nat : n = Len(cands) /\ n = Len(items)
  BY LenProperties DEF Filled
<1>2. PICK buckets \in Nat : buckets = Buckets(free, Quantum(free)) /\ free <= buckets
  BY BucketsIs
<1>3. PICK picked : Played(items, buckets, cap, took, picked)
  BY <1>2 DEF Filled
<1>4. Playable(items) /\ items[i] = Item(cands[i], 1)
  BY DEF Filled
<1>5. cands[i] \in Candidates
  BY TookIs
<1>6. PICK x \in ToSet(items[i]) : x.choice = o
  BY <1>4, <1>5, ItemIs
<1>7. x.value = o.utility - Base(cands[i]).utility /\ x.cost = o.cost - Base(cands[i]).cost
  BY <1>4, <1>5, <1>6, ItemIs
<1>8. /\ took[i].cost \in Nat /\ took[i].value \in Int /\ took[i].choice \in AnyChoice
      /\ took[i].value = took[i].choice.utility - Base(cands[i]).utility
      /\ took[i].cost = took[i].choice.cost - Base(cands[i]).cost
  BY TookIs
<1>9. o \in AnyChoice /\ Base(cands[i]) \in AnyChoice
  <2>1. ToSet(cands[i].options) \subseteq Choice
    BY <1>5, OptionsAre DEF Candidates
  <2> QED BY <1>5, <2>1, BaseIs DEF Offers, AnyChoice
<1>10. PICK oc \in Nat, ou \in Nat, bc \in Nat, bu \in Nat, tc \in Nat, tu \in Nat :
          /\ oc = o.cost /\ ou = o.utility /\ bc = Base(cands[i]).cost /\ bu = Base(cands[i]).utility
          /\ tc = took[i].choice.cost /\ tu = took[i].choice.utility
  <2>1. /\ o.cost \in Nat /\ o.utility \in Nat
        /\ Base(cands[i]).cost \in Nat /\ Base(cands[i]).utility \in Nat
        /\ took[i].choice.cost \in Nat /\ took[i].choice.utility \in Nat
    BY <1>8, <1>9, AnyChoiceIs
  <2> QED BY <2>1
<1>11. x.value = ou - bu /\ x.cost = oc - bc /\ took[i].value = tu - bu /\ took[i].cost = tc - bc
  BY <1>7, <1>8, <1>10
<1>12. ou > tu
  BY <1>10
<1>13. PICK xv \in Int, xc \in Int, kv \in Int, kc \in Int :
          /\ xv = ou - bu /\ xc = oc - bc /\ kv = tu - bu /\ kc = tc - bc
          /\ xv = x.value /\ xc = x.cost /\ kv = took[i].value /\ kc = took[i].cost
  <2>1. ou - bu \in Int /\ oc - bc \in Int /\ tu - bu \in Int /\ tc - bc \in Int
    OBVIOUS
  <2> QED BY <1>11, <2>1
<1>14. xv > kv /\ xc - kc = oc - tc
  BY <1>12, <1>13
<1>15. PICK total \in Int, mandatory \in Int, top \in Nat, z \in Nat :
          /\ total = Total(Knapsack(cands, free)) /\ mandatory = Total(Reserved(cands))
          /\ top = cap[n] /\ z = cap[0] /\ total = mandatory + top - z
  <2>1. \A c \in 0 .. buckets : c \in Nat
    OBVIOUS
  <2>2. /\ Total(Knapsack(cands, free)) \in Int /\ Total(Reserved(cands)) \in Int
        /\ cap[n] \in 0 .. buckets /\ cap[0] \in Nat
        /\ Total(Knapsack(cands, free)) = Total(Reserved(cands)) + cap[n] - cap[0]
    <3>1. /\ Total(Knapsack(cands, free)) \in Int /\ Total(Reserved(cands)) \in Int
          /\ cap[Len(cands)] \in 0 .. Buckets(free, Quantum(free)) /\ cap[0] \in Nat
          /\ Quantum(free) = 1 =>
                Total(Knapsack(cands, free)) = Total(Reserved(cands)) + cap[Len(cands)] - cap[0]
      BY KnapsackCost
    <3>2. Total(Knapsack(cands, free)) = Total(Reserved(cands)) + cap[Len(cands)] - cap[0]
      BY <3>1
    <3> QED BY <1>1, <1>2, <3>1, <3>2
  <2> QED BY <2>1, <2>2
<1>16. ~ (top - z + xc - kc <= buckets)
  <2>1. ~ RoomFor(x, i, Len(items), buckets, cap, took)
    <3>1. i \in 1 .. Len(items)
      BY <1>1
    <3> QED BY <1>3, <1>4, <3>1, NoBetterMove
  <2> QED BY <1>1, <1>13, <1>14, <1>15, <2>1 DEF RoomFor
<1>17. mandatory + free < total - tc + oc
  <2>1. top - z + oc - tc > buckets
    BY <1>14, <1>16
  <2>2. free <= buckets /\ total = mandatory + top - z
    BY <1>2, <1>15
  <2>3. total - tc + oc = mandatory + (top - z + oc - tc)
    BY <2>2
  <2> QED BY <2>1, <2>2, <2>3
<1> QED BY <1>10, <1>15, <1>17

\* Candidates of different nodes.
Apart(cands) ==
    \A i, j \in 1 .. Len(cands) : cands[i].node = cands[j].node => i = j

\* What an allocation leaves out would not have fitted.
LEMMA SolvePressure ==
    ASSUME NEW cands \in Seq(Candidates), NEW budget \in Nat, Apart(cands),
           ~ Solve(cands, budget).overflow,
           budget - Total(Reserved(cands)) <= MaxDpBuckets,
           NEW i \in 1 .. Len(cands), NEW mine,
           mine = {e \in ToSet(Solve(cands, budget).chosen) : e.node = cands[i].node},
           NEW o \in ToSet(cands[i].options),
           cands[i].pinned => o.cost > Cheapest(cands[i].options).cost,
           \A e \in mine : o.utility > e.utility
    PROVE  Solve(cands, budget).tokens
              - (IF mine = {} THEN 0 ELSE (CHOOSE e \in mine : TRUE).cost) + o.cost > budget
<1>1. /\ Len(cands) \in Nat /\ DOMAIN cands = 1 .. Len(cands) /\ cands # <<>>
      /\ cands[i] \in ToSet(cands) /\ cands[i] \in Candidates
  BY LenProperties, EmptySeq DEF ToSet
<1>2. o \in Choice /\ o \in Offers(cands[i])
  <2>1. ToSet(cands[i].options) \subseteq Choice
    BY <1>1, OptionsAre DEF Candidates
  <2> QED BY <1>1, <2>1, BaseIs DEF Offers
<1>3. PICK a : a = Solve(cands, budget)
  OBVIOUS
<1>4. CASE budget = 0
  <2>1. a = Allocation(<<>>, \E c \in ToSet(cands) : c.pinned)
    BY <1>3, <1>4 DEF Solve
  <2>2. a.chosen = <<>> /\ a.tokens = 0
    BY <2>1, TotalEmpty DEF Allocation
  <2>3. mine = {}
    BY <1>3, <2>2 DEF ToSet
  <2>4. PICK oc \in Nat \ {0} : oc = o.cost
    BY <1>2 DEF Choice
  <2>5. 0 - 0 + oc > 0
    OBVIOUS
  <2> QED BY <1>3, <1>4, <2>2, <2>3, <2>4, <2>5
<1>5. CASE budget # 0
  <2>1. PICK mandatory \in Int : mandatory = Total(Reserved(cands))
    <3>1. PICK items, cap, took : Filled(cands, 0, items, cap, took)
      BY KnapsackIs
    <3> QED BY <3>1, KnapsackCost
  <2>2. ~ (mandatory > budget)
    <3> SUFFICES ASSUME mandatory > budget PROVE FALSE
      OBVIOUS
    <3>1. a = MandatoryFirst(cands, budget)
      BY <1>1, <1>3, <1>5, <2>1 DEF Solve
    <3>2. a.overflow = TRUE
      BY <3>1, MandatoryFirstIs
    <3> QED BY <1>3, <3>2
  <2>3. PICK free \in Nat : free = budget - mandatory
    BY <2>1, <2>2
  <2>4. Quantum(free) = 1
    <3>1. free <= MaxDpBuckets
      BY <2>1, <2>3
    <3> QED BY <3>1, QuantumIs
  <2>5. PICK items, cap, took : Filled(cands, free, items, cap, took)
    BY KnapsackIs
  <2>6. a = Allocation(Admitted(Knapsack(cands, free)), FALSE)
    BY <1>1, <1>3, <1>5, <2>1, <2>2, <2>3 DEF Solve
  <2>7. /\ ToSet(a.chosen) = {Entry(cands[j], took[j].choice) :
                                 j \in {k \in 1 .. Len(cands) : took[k].choice # Keep}}
        /\ a.tokens = Total(Knapsack(cands, free))
    BY <2>5, <2>6, AdmittedIs DEF Allocation
  <2>8. PICK t \in AnyChoice : t = took[i].choice
    BY <2>5, TookIs
  <2>9. /\ t = Keep => mine = {}
        /\ t # Keep => mine = {Entry(cands[i], t)}
    <3>1. \A e \in ToSet(a.chosen) : e.node = cands[i].node => t # Keep /\ e = Entry(cands[i], t)
      <4> TAKE e \in ToSet(a.chosen)
      <4>1. PICK j \in 1 .. Len(cands) : took[j].choice # Keep /\ e = Entry(cands[j], took[j].choice)
        BY <2>7
      <4>2. e.node = cands[j].node
        BY <4>1 DEF Entry
      <4> QED BY <2>8, <4>1, <4>2 DEF Apart
    <3>2. t # Keep => /\ Entry(cands[i], t) \in ToSet(a.chosen)
                      /\ Entry(cands[i], t).node = cands[i].node
      BY <2>7, <2>8 DEF Entry
    <3> QED BY <1>3, <3>1, <3>2
  <2>10. PICK spent : spent = IF mine = {} THEN 0 ELSE (CHOOSE e \in mine : TRUE).cost
    OBVIOUS
  <2>11. spent = t.cost /\ o.utility > t.utility
    <3>1. CASE t = Keep
      <4>1. PICK ou \in Nat \ {0} : ou = o.utility
        BY <1>2 DEF Choice
      <4>2. ou > 0
        OBVIOUS
      <4>3. t.cost = 0 /\ t.utility = 0
        BY <3>1 DEF Keep
      <4> QED BY <2>9, <2>10, <3>1, <4>1, <4>2, <4>3
    <3>2. CASE t # Keep
      <4>1. mine = {Entry(cands[i], t)}
        BY <2>9, <3>2
      <4>2. Entry(cands[i], t).cost = t.cost /\ Entry(cands[i], t).utility = t.utility
        BY DEF Entry
      <4>3. (CHOOSE e \in mine : TRUE) = Entry(cands[i], t) /\ mine # {}
        BY <4>1
      <4> QED BY <2>10, <4>1, <4>2, <4>3
    <3> QED BY <3>1, <3>2
  <2>12. mandatory + free < a.tokens - spent + o.cost
    <3>1. o.utility > took[i].choice.utility
      BY <2>8, <2>11
    <3> QED BY <1>2, <2>1, <2>4, <2>5, <2>7, <2>8, <2>11, <3>1, NoRoomForMore
  <2>13. PICK oc \in Int, tc \in Int, total \in Int :
            oc = o.cost /\ tc = spent /\ total = a.tokens
    <3>1. o.cost \in Int /\ t.cost \in Int
      BY <1>2, <2>8, AnyChoiceIs DEF AnyChoice
    <3>2. a.tokens \in Int
      BY <2>5, <2>7, KnapsackCost
    <3> QED BY <2>11, <3>1, <3>2
  <2>14. mandatory + free < total - tc + oc
    BY <2>12, <2>13
  <2>15. total - tc + oc > budget
    BY <2>3, <2>14
  <2> QED BY <1>3, <2>10, <2>13, <2>15
<1> QED BY <1>4, <1>5

-----------------------------------------------------------------------------
(* The plan.                                                               *)

\* The candidates of a plan, from what it reached.
CandidatesOf(reached, q, pin) ==
    [i \in DOMAIN Considered(reached, q, pin) |-> Candidate(Considered(reached, q, pin)[i], q, pin)]

\* They are candidates of different nodes, none of them history, and every goal or
\* constraint that holds is one of them unless there are too many.
LEMMA CandidatesAre ==
    ASSUME OnlyEvidence, NEW seeds \in Seq(Id), NEW q \in QueryType, NEW pin \in SUBSET Id,
           NEW reached, reached = Reached(seeds, q, pin)
    PROVE  /\ CandidatesOf(reached, q, pin) \in Seq(Candidates)
           /\ Apart(CandidatesOf(reached, q, pin))
           /\ \A c \in ToSet(CandidatesOf(reached, q, pin)) :
                 /\ status[c.node] # "superseded" /\ c.node \notin orphaned
                 /\ status[c.node] = "stale" => c.node \in pin
           /\ ~ (Len(reached) > MaxCandidates) =>
                 \A n \in present : Kind[n] \in {"goal", "constraint"} /\ status[n] = "fresh" =>
                    \E c \in ToSet(CandidatesOf(reached, q, pin)) : c.node = n /\ c.pinned
<1>1. /\ reached \in Seq(Id) /\ Distinct(reached) /\ ToSet(reached) \cap orphaned = {}
      /\ \A n \in Pinned(q, pin) : Kind[n] # "evidence" => n \in ToSet(reached)
  BY ReachedIs
<1>2. PICK considered : considered = UpTo(MaxCandidates, reached)
  OBVIOUS
<1>3. PICK S : S = {n \in Id : status[n] # "superseded"
                               /\ (status[n] = "stale" => n \in Pinned(q, pin))}
  OBVIOUS
<1>4. MaxCandidates \in Nat
  BY PlannerAssumption
<1>5. /\ considered \in Seq(Id) /\ ToSet(considered) \subseteq ToSet(reached) /\ Distinct(considered)
      /\ Len(reached) <= MaxCandidates => considered = reached
  BY <1>1, <1>2, <1>4, UpToIs
<1>6. PICK ns : ns = Considered(reached, q, pin)
  OBVIOUS
<1>7. ns = Among(considered, S)
  BY <1>2, <1>3, <1>6 DEF Considered
<1>8. ns \in Seq(Id) /\ ToSet(ns) = ToSet(considered) \cap S /\ Distinct(ns)
  BY <1>5, <1>7, AmongIs, AmongDistinct
<1>9. /\ Len(ns) \in Nat /\ DOMAIN ns = 1 .. Len(ns) /\ ns \in [1 .. Len(ns) -> Id]
      /\ ToSet(ns) = {ns[i] : i \in 1 .. Len(ns)}
  BY <1>8, LenProperties DEF ToSet
<1>10. PICK cands : cands = [i \in 1 .. Len(ns) |-> Candidate(ns[i], q, pin)]
  OBVIOUS
<1>11. CandidatesOf(reached, q, pin) = cands
  BY <1>6, <1>9, <1>10 DEF CandidatesOf
<1>12. \A i \in 1 .. Len(ns) :
          /\ cands[i] \in Candidates /\ cands[i].node = ns[i]
          /\ cands[i].pinned = (ns[i] \in Pinned(q, pin))
  BY <1>9, <1>10, CandidateIs
<1>13. cands \in Seq(Candidates) /\ Len(cands) = Len(ns)
  <2>1. cands \in [1 .. Len(ns) -> Candidates]
    BY <1>10, <1>12
  <2> QED BY <1>9, <2>1, SeqDef
<1>14. ToSet(cands) = {cands[i] : i \in 1 .. Len(ns)}
  BY <1>10 DEF ToSet
<1>15. Apart(cands)
  BY <1>8, <1>12, <1>13 DEF Apart, Distinct
<1>16. ASSUME NEW c \in ToSet(cands)
       PROVE  /\ status[c.node] # "superseded" /\ c.node \notin orphaned
              /\ status[c.node] = "stale" => c.node \in pin
  <2>1. c.node \in ToSet(reached) /\ c.node \in S
    BY <1>5, <1>8, <1>9, <1>12, <1>14
  <2>2. c.node \in Pinned(q, pin) /\ c.node \notin pin => status[c.node] = "fresh"
    BY PinnedIs
  <2> QED BY <1>1, <1>3, <2>1, <2>2
<1>17. ASSUME ~ (Len(reached) > MaxCandidates),
              NEW n \in present, Kind[n] \in {"goal", "constraint"}, status[n] = "fresh"
       PROVE  \E c \in ToSet(cands) : c.node = n /\ c.pinned
  <2>1. n \in Pinned(q, pin) /\ n \in Id /\ Kind[n] # "evidence"
    BY <1>17 DEF Pinned, PinnedKinds, OnlyEvidence
  <2>2. considered = reached
    <3>1. Len(reached) \in Nat
      BY <1>1, LenProperties
    <3> QED BY <1>4, <1>5, <1>17, <3>1
  <2>3. n \in ToSet(ns)
    BY <1>1, <1>3, <1>8, <1>17, <2>1, <2>2
  <2>4. PICK i \in 1 .. Len(ns) : ns[i] = n
    BY <1>9, <2>3
  <2> QED BY <1>12, <1>14, <2>1, <2>4
<1> QED BY <1>11, <1>13, <1>15, <1>16, <1>17

\* What the planner's runs check of a window, and what the planner rests on.
PlanInv == OnlyEvidence /\ HistoryStaysOut /\ MandatoryAdmitted /\ BudgetIsSpent

\* What LossIsPressure says of the candidates.
NothingLost(cands, entries, tokens, budget) ==
    \A i \in DOMAIN cands :
        LET mine  == {e \in entries : e.node = cands[i].node}
            spent == IF mine = {} THEN 0 ELSE (CHOOSE e \in mine : TRUE).cost
        IN  \A o \in ToSet(cands[i].options) :
               /\ cands[i].pinned => o.cost > Cheapest(cands[i].options).cost
               /\ \A e \in mine : o.utility > e.utility
               => tokens - spent + o.cost > budget

LEMMA PlanKeeps ==
    ASSUME OnlyEvidence, Plan
    PROVE  PlanInv'
<1>1. UNCHANGED graph
  BY DEF Plan
<1>2. PICK q \in Queries, budget \in Budgets, pin \in Pins, hits \in SeedHits, spans \in SpanHits :
         LET reached == Reached(Seeds(hits, spans), q, pin)
             cands   == CandidatesOf(reached, q, pin)
             alloc   == Solve(cands, budget)
         IN  window' = [query |-> q, budget |-> budget, pin |-> pin, candidates |-> cands,
                        entries |-> ToSet(alloc.chosen),
                        tokens |-> alloc.tokens, overflow |-> alloc.overflow,
                        capped |-> Len(reached) > MaxCandidates]
  BY DEF Plan, CandidatesOf
<1>3. /\ q \in QueryType /\ budget \in Nat /\ pin \in SUBSET Id
      /\ hits \in Seq(Id) /\ spans \in Seq(Id)
  BY PlannerAssumption
<1>4. PICK seeds \in Seq(Id) : seeds = Seeds(hits, spans)
  BY <1>3, SeedsIs
<1>5. PICK reached : reached = Reached(seeds, q, pin)
  OBVIOUS
<1>6. PICK cands : cands = CandidatesOf(reached, q, pin)
  OBVIOUS
<1>7. /\ cands \in Seq(Candidates) /\ Apart(cands)
      /\ \A c \in ToSet(cands) : /\ status[c.node] # "superseded" /\ c.node \notin orphaned
                                 /\ status[c.node] = "stale" => c.node \in pin
      /\ ~ (Len(reached) > MaxCandidates) =>
            \A n \in present : Kind[n] \in {"goal", "constraint"} /\ status[n] = "fresh" =>
               \E c \in ToSet(cands) : c.node = n /\ c.pinned
  BY <1>3, <1>5, <1>6, CandidatesAre
<1>8. PICK alloc : alloc = Solve(cands, budget)
  OBVIOUS
<1>9. /\ window'.budget = budget /\ window'.pin = pin /\ window'.candidates = cands
      /\ window'.entries = ToSet(alloc.chosen) /\ window'.tokens = alloc.tokens
      /\ window'.overflow = alloc.overflow
      /\ window'.capped = (Len(reached) > MaxCandidates)
  BY <1>2, <1>4, <1>5, <1>6, <1>8
<1>10. /\ alloc.tokens <= budget + (IF Total(Reserved(cands)) = budget THEN 1 ELSE 0)
       /\ \A e \in ToSet(alloc.chosen) : \E c \in ToSet(cands) : e.node = c.node
       /\ ~ alloc.overflow =>
             \A c \in ToSet(cands) : c.pinned => \E e \in ToSet(alloc.chosen) : e.node = c.node
  BY <1>3, <1>7, <1>8, SolveIs
<1>11. OnlyEvidence'
  BY <1>1 DEF OnlyEvidence, graph
<1>12. HistoryStaysOut'
  <2>1. Shown' = {e.node : e \in ToSet(alloc.chosen)}
    BY <1>9 DEF Shown
  <2>2. \A n \in Shown' : /\ status[n] # "superseded" /\ n \notin orphaned
                          /\ status[n] = "stale" => n \in pin
    BY <1>7, <1>10, <2>1
  <2>3. status' = status /\ orphaned' = orphaned
    BY <1>1 DEF graph
  <2> QED BY <1>9, <2>2, <2>3 DEF HistoryStaysOut
<1>13. MandatoryAdmitted'
  <2>1. Shown' = {e.node : e \in ToSet(alloc.chosen)}
    BY <1>9 DEF Shown
  <2>2. ~ alloc.overflow /\ ~ (Len(reached) > MaxCandidates) =>
           \A n \in present : Kind[n] \in {"goal", "constraint"} /\ status[n] = "fresh" => n \in Shown'
    BY <1>7, <1>10, <2>1
  <2>3. status' = status /\ present' = present
    BY <1>1 DEF graph
  <2> QED BY <1>9, <2>2, <2>3 DEF MandatoryAdmitted
<1>14. FitsTheBudget'
  BY <1>9, <1>10 DEF FitsTheBudget, Mandatory
<1>15. LossIsPressure'
  <2>1. Len(cands) \in Nat /\ DOMAIN cands = 1 .. Len(cands)
    BY <1>7, LenProperties
  <2>2. ~ alloc.overflow /\ budget - Total(Reserved(cands)) <= MaxDpBuckets
           => NothingLost(cands, ToSet(alloc.chosen), alloc.tokens, budget)
    BY <1>3, <1>7, <1>8, <2>1, SolvePressure, ZenonT(30) DEF NothingLost
  <2>3. Mandatory' = Total(Reserved(cands))
    BY <1>9 DEF Mandatory
  <2>4. ~ window'.overflow /\ window'.budget - Mandatory' <= MaxDpBuckets
           => NothingLost(window'.candidates, window'.entries, window'.tokens, window'.budget)
    BY <1>9, <2>2, <2>3
  <2> QED BY <2>4 DEF LossIsPressure, NothingLost
<1> QED BY <1>11, <1>12, <1>13, <1>14, <1>15 DEF PlanInv, BudgetIsSpent

\* Between two plans only evidence is ever orphaned, and no node leaves the graph.
LEMMA ChangeKeeps ==
    ASSUME OnlyEvidence, Change
    PROVE  PlanInv'
<1>1. window' = NoPlan
  BY DEF Change
<1>2. HistoryStaysOut' /\ MandatoryAdmitted' /\ BudgetIsSpent'
  BY <1>1 DEF HistoryStaysOut, MandatoryAdmitted, BudgetIsSpent, FitsTheBudget, LossIsPressure,
              Planned
<1>3. CASE \E n \in present : G!Invalidate(n)
  BY <1>2, <1>3 DEF G!Invalidate, OnlyEvidence, PlanInv
<1>4. CASE \E a, b \in present : G!Rivals(a, b) /\ G!Contradict(a, b)
  BY <1>2, <1>4 DEF G!Contradict, OnlyEvidence, PlanInv
<1>5. CASE \E old, new \in present :
              G!Rivals(old, new) /\ old \in contradicts[new] /\ G!Supersede(old, new)
  <2>1. PICK old, new \in present : G!Supersede(old, new)
    BY <1>5
  <2>2. present' = present
    BY <2>1 DEF G!Supersede
  <2>3. orphaned' \subseteq orphaned \cup G!EvidenceOf(old)
    BY <2>1 DEF G!Supersede
  <2>4. G!EvidenceOf(old) \subseteq {e \in present : Kind[e] = "evidence"}
    BY DEF G!EvidenceOf
  <2> QED BY <1>2, <2>2, <2>3, <2>4 DEF OnlyEvidence, PlanInv
<1>6. CASE \E n \in present : \E D \in DepChoices[n] : Kind[n] # "evidence" /\ G!Upsert(n, D)
  <2>1. PICK n \in present : \E D \in DepChoices[n] : G!Upsert(n, D)
    BY <1>6
  <2>3. PICK D \in DepChoices[n] : G!Upsert(n, D)
    BY <2>1
  <2>2. present' = present \cup {n} /\ orphaned' \subseteq orphaned
    BY <2>3 DEF G!Upsert
  <2> QED BY <1>2, <2>2 DEF OnlyEvidence, PlanInv
<1>7. CASE \E n \in present : status[n] = "stale" /\ G!Revalidate(n)
  BY <1>2, <1>7 DEF G!Revalidate, OnlyEvidence, PlanInv
<1> QED BY <1>2, <1>3, <1>4, <1>5, <1>6, <1>7 DEF Change, PlanInv

LEMMA PlanInvHolds == Spec => []PlanInv
<1>1. Init => PlanInv
  <2> SUFFICES ASSUME Init PROVE PlanInv
    OBVIOUS
  <2>1. window = NoPlan /\ present = Id /\ orphaned = {}
    BY DEF Init
  <2> QED BY <2>1 DEF PlanInv, OnlyEvidence, HistoryStaysOut, MandatoryAdmitted, BudgetIsSpent,
                      FitsTheBudget, LossIsPressure, Planned
<1>2. PlanInv /\ [Next]_vars => PlanInv'
  <2> SUFFICES ASSUME PlanInv, [Next]_vars PROVE PlanInv'
    OBVIOUS
  <2>1. OnlyEvidence
    BY DEF PlanInv
  <2>2. CASE Plan
    BY <2>1, <2>2, PlanKeeps
  <2>3. CASE Change
    BY <2>1, <2>3, ChangeKeeps
  <2>4. CASE UNCHANGED vars
    <3>1. UNCHANGED <<window, present, orphaned, status>>
      BY <2>4 DEF vars, graph
    <3> QED BY <3>1 DEF PlanInv, OnlyEvidence, HistoryStaysOut, MandatoryAdmitted, BudgetIsSpent,
                        FitsTheBudget, LossIsPressure, Planned, Shown, Mandatory
  <2> QED BY <2>2, <2>3, <2>4 DEF Next
<1> QED BY <1>1, <1>2, PTL DEF Spec

-----------------------------------------------------------------------------
\* Only evidence is ever orphaned by a correction, whatever the callers do between
\* two plans, and the ids a plan may name stay in the graph: a goal or constraint
\* is never taken for the evidence of history (graph.rs, mark_orphaned_evidence).
THEOREM OrphansAreEvidence == Spec => []OnlyEvidence
<1>1. PlanInv => OnlyEvidence
  BY DEF PlanInv
<1> QED BY <1>1, PlanInvHolds, PTL

\* Whatever the hits of the searches, the query, the budget and what was escalated:
\* no window shows what was superseded, nor the evidence only that rests on, and it
\* shows what is stale only when it was named (planner.rs, seed, expand, plan).
THEOREM HistoryNeverShown == Spec => []HistoryStaysOut
<1>1. PlanInv => HistoryStaysOut
  BY DEF PlanInv
<1> QED BY <1>1, PlanInvHolds, PTL

\* Every goal and constraint that holds is in every window, for any graph, query and
\* budget, unless the plan says it overflowed or had too many candidates
\* (planner.rs, pinned; budget.rs, the mandatory set of solve).
THEOREM MandatoryAlwaysAdmitted == Spec => []MandatoryAdmitted
<1>1. PlanInv => MandatoryAdmitted
  BY DEF PlanInv
<1> QED BY <1>1, PlanInvHolds, PTL

\* The dynamic programme of the budget does what it is for: for any candidates, costs
\* and utilities, the window costs no more than the budget but for one token where
\* the mandatory set takes all of it, and where costs are not rounded no level of
\* more use than the one shown would have fitted in its place (budget.rs, solve).
THEOREM BudgetAlwaysSpent == Spec => []BudgetIsSpent
<1>1. PlanInv => BudgetIsSpent
  BY DEF PlanInv
<1> QED BY <1>1, PlanInvHolds, PTL

-----------------------------------------------------------------------------
(* The prompt (Prompt).  A layout puts every item where as many come       *)
(* before it as there are smaller keys.                                    *)

LEMMA ImageFinite ==
    ASSUME NEW f, IsFiniteSet(DOMAIN f)
    PROVE  IsFiniteSet({f[x] : x \in DOMAIN f})
<1> DEFINE T == {f[x] : x \in DOMAIN f}
           g == [x \in DOMAIN f |-> f[x]]
<1>1. g \in Surjection(DOMAIN f, T)
  BY DEF Surjection
<1> QED BY <1>1, FS_Surjection

Placed(x) == \A k \in 1 .. 4 : x.at[k] \in Int

LEMMA BeforeIs ==
    ASSUME NEW x, NEW y, Placed(x), Placed(y)
    PROVE  Before(x, y) <=>
             \/ x.at[1] < y.at[1]
             \/ x.at[1] = y.at[1] /\ x.at[2] < y.at[2]
             \/ x.at[1] = y.at[1] /\ x.at[2] = y.at[2] /\ x.at[3] < y.at[3]
             \/ /\ x.at[1] = y.at[1] /\ x.at[2] = y.at[2] /\ x.at[3] = y.at[3]
                /\ x.at[4] < y.at[4]
<1>1. PICK f \in [1 .. 4 -> Int] : \A k \in 1 .. 4 : f[k] = x.at[k]
  <2> DEFINE h == [k \in 1 .. 4 |-> x.at[k]]
  <2>1. h \in [1 .. 4 -> Int] /\ \A k \in 1 .. 4 : h[k] = x.at[k]
    BY DEF Placed
  <2> QED BY <2>1
<1>2. PICK g \in [1 .. 4 -> Int] : \A k \in 1 .. 4 : g[k] = y.at[k]
  <2> DEFINE h == [k \in 1 .. 4 |-> y.at[k]]
  <2>1. h \in [1 .. 4 -> Int] /\ \A k \in 1 .. 4 : h[k] = y.at[k]
    BY DEF Placed
  <2> QED BY <2>1
<1>3. \A k \in 1 .. 4 : \A j \in 1 .. k - 1 : j \in 1 .. 4
  OBVIOUS
<1>4. Before(x, y) <=> \E k \in 1 .. 4 : f[k] < g[k] /\ \A j \in 1 .. k - 1 : f[j] = g[j]
  BY <1>1, <1>2, <1>3 DEF Before
<1>5. (\E k \in 1 .. 4 : f[k] < g[k] /\ \A j \in 1 .. k - 1 : f[j] = g[j]) <=>
             \/ f[1] < g[1]
             \/ f[1] = g[1] /\ f[2] < g[2]
             \/ f[1] = g[1] /\ f[2] = g[2] /\ f[3] < g[3]
             \/ f[1] = g[1] /\ f[2] = g[2] /\ f[3] = g[3] /\ f[4] < g[4]
  OBVIOUS
<1> QED BY <1>1, <1>2, <1>4, <1>5

LEMMA BeforeOrders ==
    ASSUME NEW x, NEW y, NEW z, Placed(x), Placed(y), Placed(z)
    PROVE  /\ ~ Before(x, x)
           /\ Before(x, y) => ~ Before(y, x)
           /\ Before(x, y) /\ Before(y, z) => Before(x, z)
           /\ (\A k \in 1 .. 4 : x.at[k] = y.at[k]) \/ Before(x, y) \/ Before(y, x)
<1> DEFINE Lex(a, b, c, d, e, f, g, h) ==
             \/ a < e
             \/ a = e /\ b < f
             \/ a = e /\ b = f /\ c < g
             \/ a = e /\ b = f /\ c = g /\ d < h
<1>1. PICK x1 \in Int, x2 \in Int, x3 \in Int, x4 \in Int :
          x1 = x.at[1] /\ x2 = x.at[2] /\ x3 = x.at[3] /\ x4 = x.at[4]
  <2>1. x.at[1] \in Int /\ x.at[2] \in Int /\ x.at[3] \in Int /\ x.at[4] \in Int
    BY DEF Placed
  <2> QED BY <2>1
<1>2. PICK y1 \in Int, y2 \in Int, y3 \in Int, y4 \in Int :
          y1 = y.at[1] /\ y2 = y.at[2] /\ y3 = y.at[3] /\ y4 = y.at[4]
  <2>1. y.at[1] \in Int /\ y.at[2] \in Int /\ y.at[3] \in Int /\ y.at[4] \in Int
    BY DEF Placed
  <2> QED BY <2>1
<1>3. PICK z1 \in Int, z2 \in Int, z3 \in Int, z4 \in Int :
          z1 = z.at[1] /\ z2 = z.at[2] /\ z3 = z.at[3] /\ z4 = z.at[4]
  <2>1. z.at[1] \in Int /\ z.at[2] \in Int /\ z.at[3] \in Int /\ z.at[4] \in Int
    BY DEF Placed
  <2> QED BY <2>1
<1>4. /\ Before(x, x) <=> Lex(x1, x2, x3, x4, x1, x2, x3, x4)
      /\ Before(x, y) <=> Lex(x1, x2, x3, x4, y1, y2, y3, y4)
      /\ Before(y, x) <=> Lex(y1, y2, y3, y4, x1, x2, x3, x4)
      /\ Before(y, z) <=> Lex(y1, y2, y3, y4, z1, z2, z3, z4)
      /\ Before(x, z) <=> Lex(x1, x2, x3, x4, z1, z2, z3, z4)
  BY <1>1, <1>2, <1>3, BeforeIs
<1>5. ~ Lex(x1, x2, x3, x4, x1, x2, x3, x4)
  OBVIOUS
<1>6. Lex(x1, x2, x3, x4, y1, y2, y3, y4) => ~ Lex(y1, y2, y3, y4, x1, x2, x3, x4)
  OBVIOUS
<1>7. Lex(x1, x2, x3, x4, y1, y2, y3, y4) /\ Lex(y1, y2, y3, y4, z1, z2, z3, z4)
         => Lex(x1, x2, x3, x4, z1, z2, z3, z4)
  OBVIOUS
<1>8. \/ x1 = y1 /\ x2 = y2 /\ x3 = y3 /\ x4 = y4
      \/ Lex(x1, x2, x3, x4, y1, y2, y3, y4) \/ Lex(y1, y2, y3, y4, x1, x2, x3, x4)
  OBVIOUS
<1>9. x1 = y1 /\ x2 = y2 /\ x3 = y3 /\ x4 = y4 => \A k \in 1 .. 4 : x.at[k] = y.at[k]
  <2>1. \A k \in 1 .. 4 : k = 1 \/ k = 2 \/ k = 3 \/ k = 4
    OBVIOUS
  <2> QED BY <1>1, <1>2, <2>1, Zenon
<1> QED BY <1>4, <1>5, <1>6, <1>7, <1>8, <1>9

\* No two items have one key.
Arranged(S) ==
    /\ IsFiniteSet(S) /\ \A x \in S : Placed(x)
    /\ \A x, y \in S : x # y => Before(x, y) \/ Before(y, x)

LEMMA RankIs ==
    ASSUME NEW S, Arranged(S), NEW x \in S
    PROVE  /\ Cardinality(S) \in Nat /\ Cardinality(Above(S, x)) \in 0 .. Cardinality(S) - 1
           /\ \A y \in S : Before(x, y) => Cardinality(Above(S, x)) < Cardinality(Above(S, y))
<1>1. IsFiniteSet(S) /\ \A y \in S : Placed(y)
  BY DEF Arranged
<1>2. ASSUME NEW y \in S
      PROVE  /\ Above(S, y) \in SUBSET S /\ Above(S, y) \in SUBSET (S \ {y})
             /\ IsFiniteSet(Above(S, y)) /\ Cardinality(Above(S, y)) \in Nat
  <2>1. ~ Before(y, y)
    BY <1>1, BeforeOrders
  <2>2. Above(S, y) \in SUBSET S /\ Above(S, y) \in SUBSET (S \ {y})
    BY <2>1 DEF Above
  <2> QED BY <1>1, <2>2, FS_Subset, FS_CardinalityType
<1>3. Cardinality(S) \in Nat
  BY <1>1, FS_CardinalityType
<1>4. IsFiniteSet(S \ {x}) /\ Cardinality(S \ {x}) = Cardinality(S) - 1
  BY <1>1, FS_RemoveElement
<1>5. Cardinality(Above(S, x)) <= Cardinality(S \ {x})
  BY <1>2, <1>4, FS_Subset
<1>6. Cardinality(Above(S, x)) \in 0 .. Cardinality(S) - 1
  <2>1. Cardinality(Above(S, x)) \in Nat
    BY <1>2
  <2> QED BY <1>3, <1>4, <1>5, <2>1
<1>7. ASSUME NEW y \in S, Before(x, y)
      PROVE  Cardinality(Above(S, x)) < Cardinality(Above(S, y))
  <2>1. x \in Above(S, y)
    BY <1>7 DEF Above
  <2>2. \A z \in Above(S, x) : z \in Above(S, y) /\ z # x
    <3> SUFFICES ASSUME NEW z \in Above(S, x) PROVE z \in Above(S, y) /\ z # x
      OBVIOUS
    <3>1. z \in S /\ Before(z, x)
      BY DEF Above
    <3>2. Before(z, y) /\ ~ Before(x, x)
      BY <1>1, <1>7, <3>1, BeforeOrders
    <3> QED BY <3>1, <3>2 DEF Above
  <2>3. Above(S, x) \in SUBSET (Above(S, y) \ {x})
    BY <2>2
  <2>4. IsFiniteSet(Above(S, y) \ {x}) /\ Cardinality(Above(S, y) \ {x}) = Cardinality(Above(S, y)) - 1
    BY <1>2, <2>1, FS_RemoveElement
  <2>5. Cardinality(Above(S, x)) <= Cardinality(Above(S, y) \ {x})
    BY <2>3, <2>4, FS_Subset
  <2>6. Cardinality(Above(S, x)) \in Nat /\ Cardinality(Above(S, y)) \in Nat
    BY <1>2
  <2> QED BY <2>4, <2>5, <2>6
<1> QED BY <1>3, <1>6, <1>7

LEMMA NthIs ==
    ASSUME NEW S, Arranged(S)
    PROVE  /\ \A i \in 1 .. Cardinality(S) :
                 Nth(S, i) \in S /\ Cardinality(Above(S, Nth(S, i))) = i - 1
           /\ \A x \in S : Nth(S, Cardinality(Above(S, x)) + 1) = x
<1>1. IsFiniteSet(S) /\ Cardinality(S) \in Nat
  BY FS_CardinalityType DEF Arranged
<1>2. PICK n \in Nat : n = Cardinality(S)
  BY <1>1
<1>3. \A x \in S : Cardinality(Above(S, x)) \in 0 .. n - 1
  BY <1>2, RankIs
<1>4. \A x, y \in S : Cardinality(Above(S, x)) = Cardinality(Above(S, y)) => x = y
  <2> SUFFICES ASSUME NEW x \in S, NEW y \in S, x # y
               PROVE  Cardinality(Above(S, x)) # Cardinality(Above(S, y))
    OBVIOUS
  <2>1. PICK a \in Nat, b \in Nat : a = Cardinality(Above(S, x)) /\ b = Cardinality(Above(S, y))
    BY <1>3
  <2>2. a < b \/ b < a
    BY <2>1, RankIs DEF Arranged
  <2> QED BY <2>1, <2>2
<1>5. \A r \in 0 .. n - 1 : \E x \in S : Cardinality(Above(S, x)) = r
  <2> DEFINE f == [x \in S |-> Cardinality(Above(S, x))]
             T == 0 .. n - 1
  <2>1. f \in Injection(S, T)
    BY <1>3, <1>4 DEF Injection, IsInjective
  <2>2. IsFiniteSet(T) /\ Cardinality(T) = n
    <3>1. n - 1 \in Int
      OBVIOUS
    <3>2. IsFiniteSet(0 .. n - 1) /\ Cardinality(0 .. n - 1) = IF 0 > n - 1 THEN 0 ELSE n - 1 - 0 + 1
      BY <3>1, FS_Interval
    <3> QED BY <3>2
  <2> HIDE DEF f, T
  <2>3. f \in Surjection(S, T)
    BY <1>2, <2>1, <2>2, FS_Injection
  <2>4. \A r \in T : \E x \in S : f[x] = r
    BY <2>3 DEF Surjection
  <2> QED BY <2>4 DEF f, T
<1>6. \A i \in 1 .. n : Nth(S, i) \in S /\ Cardinality(Above(S, Nth(S, i))) = i - 1
  <2> SUFFICES ASSUME NEW i \in 1 .. n
               PROVE  Nth(S, i) \in S /\ Cardinality(Above(S, Nth(S, i))) = i - 1
    OBVIOUS
  <2>1. i - 1 \in 0 .. n - 1
    OBVIOUS
  <2>2. \E x \in S : Cardinality(Above(S, x)) = i - 1
    BY <1>5, <2>1
  <2> QED BY <2>2 DEF Nth
<1>7. ASSUME NEW x \in S
      PROVE  Nth(S, Cardinality(Above(S, x)) + 1) = x
  <2>1. PICK r \in 0 .. n - 1 : r = Cardinality(Above(S, x))
    BY <1>3
  <2>2. r + 1 \in 1 .. n /\ r + 1 - 1 = r
    OBVIOUS
  <2>3. Nth(S, r + 1) \in S /\ Cardinality(Above(S, Nth(S, r + 1))) = r
    BY <1>6, <2>2
  <2> QED BY <1>4, <2>1, <2>3
<1> QED BY <1>2, <1>6, <1>7

\* Two layouts agree down to an item both have with the same above it.
LEMMA SameDownTo ==
    ASSUME NEW A, NEW B, Arranged(A), Arranged(B), NEW x \in A, x \in B,
           Above(A, x) = Above(B, x),
           NEW i \in 1 .. Cardinality(Above(A, x)) + 1
    PROVE  /\ i \in 1 .. Cardinality(A) /\ i \in 1 .. Cardinality(B)
           /\ Nth(A, i) = Nth(B, i)
<1>1. PICK n \in Nat, m \in Nat, r \in Nat :
          /\ n = Cardinality(A) /\ m = Cardinality(B) /\ r = Cardinality(Above(A, x))
          /\ r <= n - 1 /\ r <= m - 1
  <2>1. /\ Cardinality(A) \in Nat /\ Cardinality(Above(A, x)) \in 0 .. Cardinality(A) - 1
        /\ Cardinality(B) \in Nat /\ Cardinality(Above(B, x)) \in 0 .. Cardinality(B) - 1
    BY RankIs
  <2> QED BY <2>1
<1>2. i \in 1 .. n /\ i \in 1 .. m /\ i - 1 <= r
  BY <1>1
<1>3. PICK a \in A : a = Nth(A, i) /\ Cardinality(Above(A, a)) = i - 1
  BY <1>1, <1>2, NthIs
<1>4. ~ Before(x, a)
  <2> SUFFICES ASSUME Before(x, a) PROVE FALSE
    OBVIOUS
  <2>1. Cardinality(Above(A, x)) < Cardinality(Above(A, a))
    BY RankIs
  <2> QED BY <1>1, <1>2, <1>3, <2>1
<1>5. Placed(x) /\ Placed(a) /\ \A y \in A \cup B : Placed(y)
  BY DEF Arranged
<1>6. a = x \/ a \in Above(A, x)
  BY <1>4 DEF Arranged, Above
<1>7. a \in B
  BY <1>6 DEF Above
<1>8. Above(A, a) = Above(B, a)
  <2>1. CASE a = x
    BY <2>1
  <2>2. CASE a \in Above(A, x)
    <3>1. Before(a, x)
      BY <2>2 DEF Above
    <3>2. \A y \in A \cup B : Before(y, a) => Before(y, x)
      BY <1>5, <3>1, BeforeOrders
    <3>3. \A y : y \in Above(A, x) <=> y \in Above(B, x)
      OBVIOUS
    <3>4. \A y : y \in Above(A, a) <=> y \in Above(B, a)
      BY <3>2, <3>3 DEF Above
    <3> QED BY <3>4 DEF Above
  <2> QED BY <1>6, <2>1, <2>2
<1>9. Nth(B, i) = a
  <2>1. i - 1 + 1 = i
    BY <1>2
  <2>2. Cardinality(Above(B, a)) + 1 = i
    BY <1>3, <1>8, <2>1
  <2> QED BY <1>7, <2>2, NthIs
<1> QED BY <1>1, <1>2, <1>3, <1>9

Shape == [id : Node, level : {"L0", "L1"}, utility : Int]
IsContext(c) ==
    /\ c \subseteq Shape /\ IsFiniteSet(c)
    /\ \A e, f \in c : e.id = f.id => e = f

TitleItem(e) == [at |-> <<KindOf[e.id], 0, 0, 0>>, line |-> <<"title", KindOf[e.id]>>]
EntryItem(e, byUtility) ==
    [at |-> <<KindOf[e.id], 1, IF byUtility THEN -e.utility ELSE 0, e.id>>, line |-> Line(e)]

LEMMA ItemsAre ==
    ASSUME NEW c, NEW u
    PROVE  Items(c, u) = {TitleItem(e) : e \in c} \cup {EntryItem(e, u) : e \in c}
BY DEF Items, TitleItem, EntryItem

LEMMA ItemFields ==
    ASSUME NEW e \in Shape, NEW u \in BOOLEAN
    PROVE  /\ Placed(TitleItem(e)) /\ Placed(EntryItem(e, u))
           /\ KindOf[e.id] \in 1 .. 8 /\ e.id \in Nat
           /\ TitleItem(e).at[1] = KindOf[e.id] /\ TitleItem(e).at[2] = 0
           /\ TitleItem(e).at[3] = 0 /\ TitleItem(e).at[4] = 0
           /\ EntryItem(e, u).at[1] = KindOf[e.id] /\ EntryItem(e, u).at[2] = 1
           /\ EntryItem(e, u).at[3] = (IF u THEN -e.utility ELSE 0)
           /\ EntryItem(e, u).at[4] = e.id
           /\ TitleItem(e).line = <<"title", KindOf[e.id]>> /\ EntryItem(e, u).line = Line(e)
<1>1. KindOf[e.id] \in 1 .. 8 /\ e.id \in Nat /\ e.utility \in Int
  BY PromptAssumption DEF Shape
<1>2. PICK a \in Int, b \in Int, d \in Int :
         a = KindOf[e.id] /\ b = e.id /\ d = (IF u THEN -e.utility ELSE 0)
  <2>1. (IF u THEN -e.utility ELSE 0) \in Int
    BY <1>1
  <2> QED BY <1>1, <2>1
<1>3. TitleItem(e) = [at |-> <<a, 0, 0, 0>>, line |-> <<"title", KindOf[e.id]>>]
  BY <1>2 DEF TitleItem
<1>4. EntryItem(e, u) = [at |-> <<a, 1, d, b>>, line |-> Line(e)]
  BY <1>2 DEF EntryItem
<1>5. \A k \in 1 .. 4 : k = 1 \/ k = 2 \/ k = 3 \/ k = 4
  OBVIOUS
<1>6. /\ TitleItem(e).at[1] = a /\ TitleItem(e).at[2] = 0
      /\ TitleItem(e).at[3] = 0 /\ TitleItem(e).at[4] = 0
      /\ TitleItem(e).line = <<"title", KindOf[e.id]>>
  BY <1>3
<1>7. /\ EntryItem(e, u).at[1] = a /\ EntryItem(e, u).at[2] = 1
      /\ EntryItem(e, u).at[3] = d /\ EntryItem(e, u).at[4] = b
      /\ EntryItem(e, u).line = Line(e)
  BY <1>4
<1>8. Placed(TitleItem(e))
  <2>1. a \in Int /\ 0 \in Int
    OBVIOUS
  <2> QED BY <1>5, <1>6, <2>1, Zenon DEF Placed
<1>9. Placed(EntryItem(e, u))
  <2>1. a \in Int /\ b \in Int /\ d \in Int /\ 1 \in Int
    OBVIOUS
  <2> QED BY <1>5, <1>7, <2>1, Zenon DEF Placed
<1> QED BY <1>1, <1>2, <1>6, <1>7, <1>8, <1>9

LEMMA ItemsArranged ==
    ASSUME NEW c, IsContext(c), NEW u \in BOOLEAN
    PROVE  Arranged(Items(c, u))
<1>1. c \subseteq Shape /\ IsFiniteSet(c) /\ \A e, f \in c : e.id = f.id => e = f
  BY DEF IsContext
<1>2. IsFiniteSet(Items(c, u))
  <2> DEFINE f == [e \in c |-> TitleItem(e)]
             g == [e \in c |-> EntryItem(e, u)]
  <2>1. IsFiniteSet({f[x] : x \in DOMAIN f}) /\ IsFiniteSet({g[x] : x \in DOMAIN g})
    BY <1>1, ImageFinite
  <2>2. {f[x] : x \in DOMAIN f} = {TitleItem(e) : e \in c}
    OBVIOUS
  <2>3. {g[x] : x \in DOMAIN g} = {EntryItem(e, u) : e \in c}
    OBVIOUS
  <2> HIDE DEF f, g
  <2> QED BY <2>1, <2>2, <2>3, ItemsAre, FS_Union
<1>3. \A x \in Items(c, u) : \E e \in c : x = TitleItem(e) \/ x = EntryItem(e, u)
  BY ItemsAre
<1>4. \A x \in Items(c, u) : Placed(x)
  BY <1>1, <1>3, ItemFields
<1>5. ASSUME NEW x \in Items(c, u), NEW y \in Items(c, u), \A k \in 1 .. 4 : x.at[k] = y.at[k]
      PROVE  x = y
  <2>1. PICK e \in c : x = TitleItem(e) \/ x = EntryItem(e, u)
    BY <1>3
  <2>2. PICK f \in c : y = TitleItem(f) \/ y = EntryItem(f, u)
    BY <1>3
  <2>3. e \in Shape /\ f \in Shape
    BY <1>1
  <2>4. x.at[1] = y.at[1] /\ x.at[2] = y.at[2] /\ x.at[4] = y.at[4]
    BY <1>5
  <2>5. CASE x = TitleItem(e) /\ y = TitleItem(f)
    <3>1. KindOf[e.id] = KindOf[f.id]
      BY <2>3, <2>4, <2>5, ItemFields
    <3> QED BY <2>5, <3>1 DEF TitleItem
  <2>6. CASE x = EntryItem(e, u) /\ y = EntryItem(f, u)
    <3>1. e.id = f.id
      BY <2>3, <2>4, <2>6, ItemFields
    <3> QED BY <1>1, <2>6, <3>1
  <2>7. CASE x = TitleItem(e) /\ y = EntryItem(f, u)
    BY <2>3, <2>4, <2>7, ItemFields
  <2>8. CASE x = EntryItem(e, u) /\ y = TitleItem(f)
    BY <2>3, <2>4, <2>8, ItemFields
  <2> QED BY <2>1, <2>2, <2>5, <2>6, <2>7, <2>8
<1>6. ASSUME NEW x \in Items(c, u), NEW y \in Items(c, u), x # y
      PROVE  Before(x, y) \/ Before(y, x)
  BY <1>4, <1>5, <1>6, BeforeOrders
<1> QED BY <1>2, <1>4, <1>6 DEF Arranged

AnyLine ==
    {<<"header">>, <<"question">>, <<"escalated">>, <<"history">>}
      \cup {<<"stats", q, n>> : q \in Nat, n \in Nat}
      \cup {<<"title", k>> : k \in 1 .. 8}
      \cup {<<"entry", n, v>> : n \in Node, v \in {"L0", "L1"}}
      \cup {<<"document", d>> : d \in Doc}

LEMMA LinesConcat ==
    ASSUME NEW T, NEW p \in Seq(T), NEW q \in Seq(T)
    PROVE  /\ p \o q \in Seq(T) /\ Lines(p \o q) = Lines(p) \cup Lines(q)
           /\ Len(p \o q) = Len(p) + Len(q)
           /\ \A i \in 1 .. Len(p) : (p \o q)[i] = p[i]
           /\ \A i \in 1 .. Len(q) : (p \o q)[Len(p) + i] = q[i]
<1>1. ToSet(p \o q) = ToSet(p) \cup ToSet(q)
  BY ConcatSet
<1>2. \A s : Lines(s) = ToSet(s)
  BY DEF Lines, ToSet
<1>3. /\ p \o q \in Seq(T) /\ Len(p \o q) = Len(p) + Len(q)
      /\ \A i \in 1 .. Len(p) : (p \o q)[i] = p[i]
      /\ \A i \in 1 .. Len(q) : (p \o q)[Len(p) + i] = q[i]
  OBVIOUS
<1> QED BY <1>1, <1>2, <1>3

LEMMA OneLine ==
    ASSUME NEW T, NEW l \in T
    PROVE  << l >> \in Seq(T) /\ Lines(<< l >>) = {l} /\ Len(<< l >>) = 1
BY DEF Lines

LEMMA GroupsAre ==
    ASSUME NEW c, IsContext(c), NEW u \in BOOLEAN
    PROVE  /\ Groups(c, u) \in Seq(AnyLine)
           /\ Cardinality(Items(c, u)) \in Nat /\ Len(Groups(c, u)) = Cardinality(Items(c, u))
           /\ \A i \in 1 .. Cardinality(Items(c, u)) : Groups(c, u)[i] = Nth(Items(c, u), i).line
           /\ \A e \in c : Line(e) \in Lines(Groups(c, u))
<1>1. Arranged(Items(c, u))
  BY ItemsArranged
<1>2. PICK n \in Nat : n = Cardinality(Items(c, u))
  BY <1>1, FS_CardinalityType DEF Arranged
<1>3. Groups(c, u) = [i \in 1 .. n |-> Nth(Items(c, u), i).line]
  BY <1>2 DEF Groups
<1>4. \A x \in Items(c, u) : x.line \in AnyLine
  <2> SUFFICES ASSUME NEW x \in Items(c, u) PROVE x.line \in AnyLine
    OBVIOUS
  <2>1. PICK e \in c : x = TitleItem(e) \/ x = EntryItem(e, u)
    BY ItemsAre
  <2>2. e \in Shape
    BY DEF IsContext
  <2>3. KindOf[e.id] \in 1 .. 8 /\ e.id \in Node /\ e.level \in {"L0", "L1"}
    BY <2>2, ItemFields DEF Shape
  <2>4. x.line = <<"title", KindOf[e.id]>> \/ x.line = <<"entry", e.id, e.level>>
    BY <2>1, <2>2, ItemFields DEF Line
  <2> QED BY <2>3, <2>4 DEF AnyLine
<1>5. \A i \in 1 .. n : Nth(Items(c, u), i) \in Items(c, u)
  BY <1>1, <1>2, NthIs
<1>6. Groups(c, u) \in [1 .. n -> AnyLine]
  BY <1>3, <1>4, <1>5
<1>7. Groups(c, u) \in Seq(AnyLine) /\ Len(Groups(c, u)) = n /\ DOMAIN Groups(c, u) = 1 .. n
  BY <1>6, SeqDef, LenProperties
<1>8. ASSUME NEW e \in c PROVE Line(e) \in Lines(Groups(c, u))
  <2>1. EntryItem(e, u) \in Items(c, u)
    BY ItemsAre
  <2>2. PICK i \in 1 .. n : Nth(Items(c, u), i) = EntryItem(e, u)
    <3>1. PICK r \in 0 .. n - 1 : r = Cardinality(Above(Items(c, u), EntryItem(e, u)))
      BY <1>1, <1>2, <2>1, RankIs
    <3>2. Nth(Items(c, u), r + 1) = EntryItem(e, u)
      BY <1>1, <2>1, <3>1, NthIs
    <3>3. r + 1 \in 1 .. n
      OBVIOUS
    <3> QED BY <3>2, <3>3
  <2>3. EntryItem(e, u).line = Line(e)
    BY DEF EntryItem
  <2>4. Groups(c, u)[i] = Line(e)
    BY <1>3, <2>2, <2>3
  <2> QED BY <1>7, <2>4 DEF Lines
<1> QED BY <1>2, <1>3, <1>7, <1>8

LEMMA SetToSeqIs ==
    ASSUME NEW S, IsFiniteSet(S)
    PROVE  SetToSeq(S) \in Seq(S) /\ Lines(SetToSeq(S)) = S
<1>1. PICK n \in Nat : n = Cardinality(S) /\ ExistsBijection(1 .. n, S)
  BY FS_CardinalityType
<1>2. PICK h \in [1 .. n -> S] : IsInjective(h)
  <2>1. PICK h : h \in Bijection(1 .. n, S)
    BY <1>1 DEF ExistsBijection
  <2> QED BY <2>1 DEF Bijection, Injection
<1>3. PICK f \in [1 .. n -> S] : f = SetToSeq(S) /\ IsInjective(f)
  <2>1. SetToSeq(S) \in [1 .. n -> S] /\ IsInjective(SetToSeq(S))
    BY <1>1, <1>2 DEF SetToSeq
  <2> QED BY <2>1
<1>4. f \in Injection(1 .. n, S)
  BY <1>3 DEF Injection
<1>5. Cardinality(1 .. n) = n
  <2>1. Cardinality(1 .. n) = IF 1 > n THEN 0 ELSE n - 1 + 1
    BY FS_Interval
  <2> QED BY <2>1
<1>6. f \in Surjection(1 .. n, S)
  BY <1>1, <1>4, <1>5, FS_Injection
<1>7. \A x \in S : \E i \in 1 .. n : f[i] = x
  BY <1>6 DEF Surjection
<1>8. f \in Seq(S) /\ DOMAIN f = 1 .. n
  BY <1>3, SeqDef
<1>9. Lines(f) = S
  BY <1>3, <1>7, <1>8 DEF Lines
<1> QED BY <1>3, <1>8, <1>9

LEMMA LineIsLine ==
    ASSUME NEW e \in Shape
    PROVE  Line(e) \in AnyLine
BY DEF AnyLine, Line, Shape

LEMMA StatsIsLine ==
    ASSUME NEW c, IsFiniteSet(c)
    PROVE  Stats(c) \in AnyLine
<1>1. {e \in c : e.level = "L0"} \in SUBSET c
  OBVIOUS
<1>2. Cardinality(c) \in Nat /\ Cardinality({e \in c : e.level = "L0"}) \in Nat
  BY <1>1, FS_Subset, FS_CardinalityType
<1> QED BY <1>2 DEF AnyLine, Stats

\* Where the stable layout puts the groups.
StartsWith(p, g) ==
    /\ Len(g) \in Nat /\ Len(p) \in Nat /\ Len(g) + 1 <= Len(p)
    /\ p[1] = <<"header">> /\ \A i \in 1 .. Len(g) : p[i + 1] = g[i]

LEMMA PromptForIs ==
    ASSUME NEW c, IsContext(c)
    PROVE  /\ PromptFor(c) \in Seq(AnyLine) /\ PromptFor(c) # <<>>
           /\ \A e \in c : Line(e) \in Lines(PromptFor(c))
           /\ prefixStable => StartsWith(PromptFor(c), Groups(c, FALSE))
<1>1. <<"header">> \in AnyLine /\ <<"question">> \in AnyLine /\ Stats(c) \in AnyLine
  <2>1. Stats(c) \in AnyLine
    BY StatsIsLine DEF IsContext
  <2> QED BY <2>1 DEF AnyLine
<1>2. \A u \in BOOLEAN : Groups(c, u) \in Seq(AnyLine) /\ \A e \in c : Line(e) \in Lines(Groups(c, u))
  BY GroupsAre
<1>3. PICK h \in Seq(AnyLine), s \in Seq(AnyLine), q \in Seq(AnyLine) :
         /\ h = << <<"header">> >> /\ s = << Stats(c) >> /\ q = << <<"question">> >>
         /\ Len(h) = 1 /\ h[1] = <<"header">> /\ Len(s) = 1 /\ Len(q) = 1
  <2>1. /\ << <<"header">> >> \in Seq(AnyLine) /\ << Stats(c) >> \in Seq(AnyLine)
        /\ << <<"question">> >> \in Seq(AnyLine)
    BY <1>1, OneLine
  <2> QED BY <2>1
<1>4. CASE prefixStable
  <2>1. PICK g \in Seq(AnyLine) : g = Groups(c, FALSE)
    BY <1>2
  <2>2. PICK a \in Seq(AnyLine) :
           /\ a = h \o g /\ Len(a) = 1 + Len(g) /\ a[1] = <<"header">>
           /\ \A i \in 1 .. Len(g) : a[1 + i] = g[i]
           /\ Lines(g) \subseteq Lines(a)
    <3>1. /\ h \o g \in Seq(AnyLine) /\ Lines(h \o g) = Lines(h) \cup Lines(g)
          /\ Len(h \o g) = Len(h) + Len(g)
          /\ \A i \in 1 .. Len(h) : (h \o g)[i] = h[i]
          /\ \A i \in 1 .. Len(g) : (h \o g)[Len(h) + i] = g[i]
      BY LinesConcat
    <3>2. (h \o g)[1] = <<"header">>
      BY <1>3, <3>1
    <3>3. Len(h \o g) = 1 + Len(g) /\ \A i \in 1 .. Len(g) : (h \o g)[1 + i] = g[i]
      BY <1>3, <3>1
    <3> QED BY <3>1, <3>2, <3>3
  <2>3. PICK b \in Seq(AnyLine) :
           /\ b = a \o s /\ Len(b) = Len(a) + 1 /\ \A i \in 1 .. Len(a) : b[i] = a[i]
           /\ Lines(a) \subseteq Lines(b)
    <3>1. /\ a \o s \in Seq(AnyLine) /\ Lines(a \o s) = Lines(a) \cup Lines(s)
          /\ Len(a \o s) = Len(a) + Len(s) /\ \A i \in 1 .. Len(a) : (a \o s)[i] = a[i]
      BY LinesConcat
    <3> QED BY <1>3, <3>1
  <2>4. PICK p \in Seq(AnyLine) :
           /\ p = b \o q /\ Len(p) = Len(b) + 1 /\ \A i \in 1 .. Len(b) : p[i] = b[i]
           /\ Lines(b) \subseteq Lines(p)
    <3>1. /\ b \o q \in Seq(AnyLine) /\ Lines(b \o q) = Lines(b) \cup Lines(q)
          /\ Len(b \o q) = Len(b) + Len(q) /\ \A i \in 1 .. Len(b) : (b \o q)[i] = b[i]
      BY LinesConcat
    <3> QED BY <1>3, <3>1
  <2>5. p = PromptFor(c)
    BY <1>3, <1>4, <2>1, <2>2, <2>3, <2>4 DEF PromptFor, RenderPrefixStable
  <2>6. \A e \in c : Line(e) \in Lines(p)
    BY <1>2, <2>1, <2>2, <2>3, <2>4
  <2>7. Len(g) \in Nat /\ Len(a) \in Nat /\ Len(b) \in Nat /\ Len(p) \in Nat
    BY LenProperties
  <2>8. StartsWith(p, g)
    <3>1. \A i \in 1 .. Len(a) : p[i] = a[i]
      <4>1. \A i \in 1 .. Len(a) : i \in 1 .. Len(b)
        BY <2>3, <2>7
      <4> QED BY <2>3, <2>4, <4>1
    <3>2. 1 \in 1 .. Len(a) /\ \A i \in 1 .. Len(g) : i + 1 \in 1 .. Len(a) /\ i + 1 = 1 + i
      BY <2>2, <2>7
    <3>3. p[1] = <<"header">> /\ \A i \in 1 .. Len(g) : p[i + 1] = g[i]
      BY <2>2, <3>1, <3>2
    <3>4. Len(g) + 1 <= Len(p)
      BY <2>2, <2>3, <2>4, <2>7
    <3> QED BY <2>7, <3>3, <3>4 DEF StartsWith
  <2>9. p # <<>>
    BY <2>4, <2>7
  <2> QED BY <2>1, <2>5, <2>6, <2>8, <2>9
<1>5. CASE ~ prefixStable
  <2>1. PICK g \in Seq(AnyLine) : g = Groups(c, TRUE)
    BY <1>2
  <2>2. s \o g \in Seq(AnyLine) /\ Lines(g) \subseteq Lines(s \o g)
    BY LinesConcat
  <2>3. PICK a \in Seq(AnyLine) : a = s \o g /\ Lines(g) \subseteq Lines(a)
    BY <2>2
  <2>4. /\ a \o q \in Seq(AnyLine) /\ Lines(a) \subseteq Lines(a \o q)
        /\ Len(a \o q) = Len(a) + Len(q)
    BY LinesConcat
  <2>5. a \o q = PromptFor(c)
    BY <1>3, <1>5, <2>1, <2>3 DEF PromptFor, Render
  <2>6. a \o q # <<>>
    BY <1>3, <2>4, LenProperties
  <2> QED BY <1>2, <1>5, <2>1, <2>3, <2>4, <2>5, <2>6
<1> QED BY <1>4, <1>5

LEMMA AppendedIs ==
    ASSUME NEW p \in Seq(AnyLine), NEW d \in SUBSET Shape, IsFiniteSet(d)
    PROVE  /\ Appended(p, d) \in Seq(AnyLine)
           /\ Len(p) <= Len(Appended(p, d)) /\ \A i \in 1 .. Len(p) : Appended(p, d)[i] = p[i]
           /\ \A e \in d : Line(e) \in Lines(Appended(p, d))
<1>1. PICK delta : delta = {Line(e) : e \in d} \ Lines(p)
  OBVIOUS
<1>2. \A e \in d : Line(e) \in Lines(p) \/ Line(e) \in delta
  BY <1>1
<1>3. Len(p) \in Nat
  BY LenProperties
<1>4. CASE delta = {}
  BY <1>1, <1>2, <1>3, <1>4 DEF Appended
<1>5. CASE delta # {}
  <2>1. IsFiniteSet(delta)
    <3> DEFINE f == [e \in d |-> Line(e)]
    <3>1. IsFiniteSet({f[x] : x \in DOMAIN f})
      BY ImageFinite
    <3>2. {f[x] : x \in DOMAIN f} = {Line(e) : e \in d}
      OBVIOUS
    <3> HIDE DEF f
    <3>3. delta \in SUBSET {Line(e) : e \in d}
      BY <1>1
    <3> QED BY <3>1, <3>2, <3>3, FS_Subset
  <2>2. delta \subseteq AnyLine
    BY <1>1, LineIsLine
  <2>3. PICK s \in Seq(AnyLine) : s = SetToSeq(delta) /\ Lines(s) = delta
    <3>1. SetToSeq(delta) \in Seq(delta) /\ Lines(SetToSeq(delta)) = delta
      BY <2>1, SetToSeqIs
    <3>2. Seq(delta) \subseteq Seq(AnyLine)
      BY <2>2
    <3> QED BY <3>1, <3>2
  <2>4. PICK h \in Seq(AnyLine) : h = << <<"escalated">> >>
    <3>1. <<"escalated">> \in AnyLine
      BY DEF AnyLine
    <3> QED BY <3>1, OneLine
  <2>5. /\ p \o h \in Seq(AnyLine) /\ Lines(p) \subseteq Lines(p \o h)
        /\ Len(p \o h) = Len(p) + Len(h) /\ \A i \in 1 .. Len(p) : (p \o h)[i] = p[i]
    BY LinesConcat
  <2>6. PICK a \in Seq(AnyLine) : a = p \o h
    BY <2>5
  <2>7. /\ a \o s \in Seq(AnyLine) /\ Lines(a \o s) = Lines(a) \cup Lines(s)
        /\ Len(a \o s) = Len(a) + Len(s) /\ \A i \in 1 .. Len(a) : (a \o s)[i] = a[i]
    BY LinesConcat
  <2>8. a \o s = Appended(p, d)
    BY <1>1, <1>5, <2>3, <2>4, <2>6 DEF Appended
  <2>9. Len(h) \in Nat /\ Len(a) \in Nat /\ Len(s) \in Nat
    BY LenProperties
  <2>10. \A i \in 1 .. Len(p) : i \in 1 .. Len(a)
    BY <1>3, <2>5, <2>6, <2>9
  <2>11. \A i \in 1 .. Len(p) : (a \o s)[i] = p[i]
    BY <2>5, <2>6, <2>7, <2>10
  <2>12. Len(p) <= Len(a \o s)
    BY <1>3, <2>5, <2>6, <2>7, <2>9
  <2>13. \A e \in d : Line(e) \in Lines(a \o s)
    BY <1>2, <2>3, <2>5, <2>6, <2>7
  <2> QED BY <2>7, <2>8, <2>11, <2>12, <2>13
<1> QED BY <1>4, <1>5

LinesOf(c) == {Line(e) : e \in c}

\* What above a line two contexts share is the same, when nothing moved above it.
LEMMA SameAbove ==
    ASSUME NEW c, IsContext(c), NEW d, IsContext(d), NEW e \in c, NEW f \in d,
           Line(e) = Line(f),
           \A m \in LinesOf(c) \ LinesOf(d) : LineOrder(Line(e), m)
    PROVE  Above(Items(c, FALSE), EntryItem(e, FALSE))
              \subseteq Above(Items(d, FALSE), EntryItem(f, FALSE))
<1>1. c \subseteq Shape /\ d \subseteq Shape /\ e \in Shape /\ f \in Shape
  BY DEF IsContext
<1>2. \A x, y \in Shape : Line(x) = Line(y) => x.id = y.id /\ EntryItem(x, FALSE) = EntryItem(y, FALSE)
                                                /\ TitleItem(x) = TitleItem(y)
  <2> SUFFICES ASSUME NEW x \in Shape, NEW y \in Shape, Line(x) = Line(y)
               PROVE  x.id = y.id /\ EntryItem(x, FALSE) = EntryItem(y, FALSE)
                        /\ TitleItem(x) = TitleItem(y)
    OBVIOUS
  <2>1. x.id = y.id
    BY DEF Line
  <2> QED BY <2>1 DEF EntryItem, TitleItem
<1>3. EntryItem(e, FALSE) = EntryItem(f, FALSE)
  BY <1>1, <1>2
<1>4. ASSUME NEW x \in Shape PROVE KindOf[x.id] \in Int /\ x.id \in Int
  <2>1. KindOf[x.id] \in 1 .. 8 /\ x.id \in Nat
    BY ItemFields
  <2> QED BY <2>1
<1>5. PICK k \in Int, n \in Int : k = KindOf[e.id] /\ n = e.id
  BY <1>1, <1>4
<1>6. ASSUME NEW x \in c, KindOf[x.id] < k \/ (KindOf[x.id] = k /\ ~ (k < KindOf[x.id]) /\ x.id <= n)
      PROVE  \E y \in d : Line(y) = Line(x)
  <2>1. PICK a \in Int, b \in Int : a = KindOf[x.id] /\ b = x.id
    BY <1>1, <1>4
  <2>2. ~ LineOrder(Line(e), Line(x))
    <3>1. Line(e)[2] = n /\ Line(x)[2] = b /\ KindOf[n] = k /\ KindOf[b] = a
      BY <1>5, <2>1 DEF Line
    <3>2. ~ (k < a \/ (k = a /\ n < b))
      BY <1>6, <2>1
    <3> QED BY <3>1, <3>2 DEF LineOrder
  <2> QED BY <2>2 DEF LinesOf
<1>7. ASSUME NEW x \in Above(Items(c, FALSE), EntryItem(e, FALSE))
      PROVE  x \in Items(d, FALSE)
  <2>1. PICK z \in c : x = TitleItem(z) \/ x = EntryItem(z, FALSE)
    BY ItemsAre DEF Above
  <2>2. Before(x, EntryItem(e, FALSE))
    BY DEF Above
  <2>3. PICK a \in Int, b \in Int : a = KindOf[z.id] /\ b = z.id
    BY <1>1, <1>4
  <2>4. CASE x = EntryItem(z, FALSE)
    <3>1. a < k \/ (a = k /\ b < n)
      <4>1. /\ EntryItem(z, FALSE).at[1] = a /\ EntryItem(z, FALSE).at[2] = 1
            /\ EntryItem(z, FALSE).at[3] = 0 /\ EntryItem(z, FALSE).at[4] = b
            /\ Placed(EntryItem(z, FALSE))
        BY <1>1, <2>3, ItemFields
      <4>2. /\ EntryItem(e, FALSE).at[1] = k /\ EntryItem(e, FALSE).at[2] = 1
            /\ EntryItem(e, FALSE).at[3] = 0 /\ EntryItem(e, FALSE).at[4] = n
            /\ Placed(EntryItem(e, FALSE))
        BY <1>1, <1>5, ItemFields
      <4>3. Before(EntryItem(z, FALSE), EntryItem(e, FALSE))
        BY <2>2, <2>4
      <4>4. \/ a < k
            \/ a = k /\ 1 < 1
            \/ a = k /\ 0 < 0
            \/ a = k /\ b < n
        <5> HIDE DEF EntryItem
        <5>1. PICK v, w : v = EntryItem(z, FALSE) /\ w = EntryItem(e, FALSE)
          OBVIOUS
        <5>2. /\ v.at[1] = a /\ v.at[2] = 1 /\ v.at[3] = 0 /\ v.at[4] = b /\ Placed(v)
              /\ w.at[1] = k /\ w.at[2] = 1 /\ w.at[3] = 0 /\ w.at[4] = n /\ Placed(w)
              /\ Before(v, w)
          BY <4>1, <4>2, <4>3, <5>1, Zenon
        <5> QED BY <5>2, BeforeIs
      <4> QED BY <4>4
    <3>2. PICK y \in d : Line(y) = Line(z)
      BY <1>6, <2>3, <3>1
    <3>3. x = EntryItem(y, FALSE)
      BY <1>1, <1>2, <2>4, <3>2
    <3> QED BY <3>3, ItemsAre
  <2>5. CASE x = TitleItem(z)
    <3>1. a < k \/ a = k
      <4>1. /\ TitleItem(z).at[1] = a /\ Placed(TitleItem(z))
        BY <1>1, <2>3, ItemFields
      <4>2. /\ EntryItem(e, FALSE).at[1] = k /\ Placed(EntryItem(e, FALSE))
        BY <1>1, <1>5, ItemFields
      <4> QED BY <2>2, <2>5, <4>1, <4>2, BeforeIs
    <3>2. CASE a = k
      <4>1. KindOf[z.id] = KindOf[e.id]
        BY <1>5, <2>3, <3>2
      <4>2. x = TitleItem(f)
        BY <1>1, <1>2, <2>5, <4>1 DEF TitleItem
      <4> QED BY <4>2, ItemsAre
    <3>3. CASE a < k
      <4>1. PICK y \in d : Line(y) = Line(z)
        BY <1>6, <2>3, <3>3
      <4>2. x = TitleItem(y)
        BY <1>1, <1>2, <2>5, <4>1
      <4> QED BY <4>2, ItemsAre
    <3> QED BY <3>1, <3>2, <3>3
  <2> QED BY <2>1, <2>4, <2>5
<1> QED BY <1>3, <1>7 DEF Above

\* Two prompts of the stable layout share every entry nothing moved above.
LEMMA KeptIsShared ==
    ASSUME NEW c, IsContext(c), NEW d, IsContext(d),
           NEW p \in Seq(AnyLine), NEW q \in Seq(AnyLine),
           StartsWith(p, Groups(c, FALSE)), StartsWith(q, Groups(d, FALSE)),
           NEW l \in Kept(LinesOf(c), LinesOf(d))
    PROVE  l \in Lines(SubSeq(p, 1, Shared(p, q)))
<1>1. /\ l \in LinesOf(c) /\ l \in LinesOf(d)
      /\ \A m \in (LinesOf(c) \ LinesOf(d)) : LineOrder(l, m)
      /\ \A m \in (LinesOf(d) \ LinesOf(c)) : LineOrder(l, m)
  BY DEF Kept
<1>2. PICK e \in c : l = Line(e)
  BY <1>1 DEF LinesOf
<1>3. PICK f \in d : l = Line(f)
  BY <1>1 DEF LinesOf
<1>4. PICK A, B, x : A = Items(c, FALSE) /\ B = Items(d, FALSE) /\ x = EntryItem(e, FALSE)
  OBVIOUS
<1>5. e \in Shape /\ f \in Shape /\ EntryItem(f, FALSE) = x /\ x.line = l
  <2>1. e \in Shape /\ f \in Shape
    BY DEF IsContext
  <2>2. e.id = f.id
    BY <1>2, <1>3 DEF Line
  <2> QED BY <1>2, <1>3, <1>4, <2>1, <2>2 DEF EntryItem
<1>6. x \in A /\ x \in B
  BY <1>4, <1>5, ItemsAre
<1>7. Arranged(A) /\ Arranged(B)
  BY <1>4, ItemsArranged
<1>8. Above(A, x) = Above(B, x)
  <2>1. Above(A, x) \subseteq Above(B, x)
    <3>1. Line(e) = Line(f) /\ \A m \in LinesOf(c) \ LinesOf(d) : LineOrder(Line(e), m)
      BY <1>1, <1>2, <1>3
    <3>2. Above(Items(c, FALSE), EntryItem(e, FALSE))
              \subseteq Above(Items(d, FALSE), EntryItem(f, FALSE))
      BY <3>1, SameAbove
    <3> QED BY <1>4, <1>5, <3>2
  <2>2. Above(B, x) \subseteq Above(A, x)
    <3>1. Line(f) = Line(e) /\ \A m \in LinesOf(d) \ LinesOf(c) : LineOrder(Line(f), m)
      BY <1>1, <1>2, <1>3
    <3>2. Above(Items(d, FALSE), EntryItem(f, FALSE))
              \subseteq Above(Items(c, FALSE), EntryItem(e, FALSE))
      BY <3>1, SameAbove
    <3> QED BY <1>4, <1>5, <3>2
  <2> QED BY <2>1, <2>2
<1>9. PICK r \in Nat : r = Cardinality(Above(A, x))
  BY <1>6, <1>7, RankIs
<1>10. PICK g \in Seq(AnyLine), h \in Seq(AnyLine) : g = Groups(c, FALSE) /\ h = Groups(d, FALSE)
  BY GroupsAre
<1>11. /\ Len(g) = Cardinality(A) /\ Len(h) = Cardinality(B) /\ Len(g) \in Nat /\ Len(h) \in Nat
       /\ \A i \in 1 .. Len(g) : g[i] = Nth(A, i).line
       /\ \A i \in 1 .. Len(h) : h[i] = Nth(B, i).line
  BY <1>4, <1>10, GroupsAre, LenProperties
<1>12. \A i \in 1 .. r + 1 : i \in 1 .. Len(g) /\ i \in 1 .. Len(h) /\ g[i] = h[i]
  BY <1>6, <1>7, <1>8, <1>9, <1>11, SameDownTo
<1>13. r + 1 \in 1 .. r + 1 /\ g[r + 1] = l
  <2>1. r + 1 \in 1 .. r + 1
    OBVIOUS
  <2>2. Nth(A, r + 1) = x
    BY <1>6, <1>7, <1>9, NthIs
  <2> QED BY <1>5, <1>11, <1>12, <2>1, <2>2
<1>14. /\ Len(p) \in Nat /\ Len(q) \in Nat /\ Len(g) + 1 <= Len(p) /\ Len(h) + 1 <= Len(q)
       /\ p[1] = <<"header">> /\ q[1] = <<"header">>
       /\ \A i \in 1 .. Len(g) : p[i + 1] = g[i]
       /\ \A i \in 1 .. Len(h) : q[i + 1] = h[i]
  BY <1>10 DEF StartsWith
<1>15. PICK n \in Nat : n = r + 2 /\ n <= Len(p) /\ n <= Len(q)
  BY <1>11, <1>12, <1>13, <1>14
<1>16. ASSUME NEW i \in 1 .. n PROVE p[i] = q[i]
  <2>1. CASE i = 1
    BY <1>14, <2>1
  <2>2. CASE i # 1
    <3>1. i - 1 \in 1 .. r + 1 /\ i - 1 + 1 = i
      BY <1>15, <2>2
    <3> QED BY <1>12, <1>14, <3>1
  <2> QED BY <2>1, <2>2
<1>17. n <= Shared(p, q) /\ Shared(p, q) \in 0 .. Len(p)
  <2> DEFINE S == {m \in 0 .. Len(p) : m <= Len(q) /\ \A i \in 1 .. m : p[i] = q[i]}
  <2>1. n \in S
    BY <1>14, <1>15, <1>16
  <2>2. S \in SUBSET Int /\ S \in SUBSET (0 .. Len(p))
    OBVIOUS
  <2>3. IsFiniteSet(S)
    <3>1. IsFiniteSet(0 .. Len(p))
      BY <1>14, FS_Interval
    <3> QED BY <2>2, <3>1, FS_Subset
  <2>4. Shared(p, q) = Max(S)
    BY DEF Shared
  <2> HIDE DEF S
  <2>5. Max(S) \in S /\ n <= Max(S)
    BY <2>1, <2>2, <2>3, MaxIs
  <2> QED BY <2>2, <2>4, <2>5
<1>18. PICK k \in Nat : k = Shared(p, q) /\ n <= k /\ k <= Len(p)
  BY <1>14, <1>17
<1>19. p[n] = l
  <2>1. r + 1 \in 1 .. Len(g) /\ r + 1 + 1 = n
    BY <1>12, <1>13, <1>15
  <2> QED BY <1>13, <1>14, <2>1
<1>20. n \in DOMAIN SubSeq(p, 1, k) /\ SubSeq(p, 1, k)[n] = p[n]
  <2>1. n \in 1 .. k /\ k \in 1 .. Len(p)
    BY <1>15, <1>18
  <2>2. Len(SubSeq(p, 1, k)) = k /\ DOMAIN SubSeq(p, 1, k) = 1 .. k
        /\ \A i \in 1 .. k : SubSeq(p, 1, k)[i] = p[i]
    BY <1>14, <1>18, <2>1
  <2> QED BY <2>1, <2>2
<1> QED BY <1>18, <1>19, <1>20 DEF Lines

LEMMA ContextsAre ==
    ASSUME skills \subseteq Node, NEW c \in Contexts
    PROVE  IsContext(c)
<1>1. PICK S \in SUBSET Known :
         c \in {Context(S, quoted, down) : quoted \in SUBSET S, down \in BOOLEAN}
  BY DEF Contexts
<1>2. PICK quoted \in SUBSET S, down \in BOOLEAN : c = Context(S, quoted, down)
  BY <1>1
<1>3. S \subseteq Node /\ Node \subseteq Nat /\ IsFiniteSet(Node)
  BY PromptAssumption DEF Known
<1> DEFINE entry == [n \in S |-> [id |-> n, level |-> IF n \in quoted THEN "L0" ELSE "L1",
                                  utility |-> IF down THEN -n ELSE n]]
<1>4. c = {entry[n] : n \in DOMAIN entry}
  BY <1>2 DEF Context
<1>5. \A n \in S : entry[n] \in Shape /\ entry[n].id = n
  <2> SUFFICES ASSUME NEW n \in S PROVE entry[n] \in Shape /\ entry[n].id = n
    OBVIOUS
  <2>1. n \in Node /\ n \in Int /\ -n \in Int
    BY <1>3
  <2> QED BY <2>1 DEF Shape
<1>6. DOMAIN entry = S
  OBVIOUS
<1> HIDE DEF entry
<1>7. IsFiniteSet(c)
  <2>1. IsFiniteSet(S)
    BY <1>3, FS_Subset
  <2> QED BY <1>4, <1>6, <2>1, ImageFinite
<1> QED BY <1>4, <1>5, <1>6, <1>7 DEF IsContext

LEMMA TokensAre ==
    ASSUME NEW docs \in Seq(Doc)
    PROVE  /\ TokensIn(docs) \in Int
           /\ docs = <<>> => TokensIn(docs) = 0
           /\ \A d \in Doc : TokensIn(Append(docs, d)) = TokensIn(docs) + TokensOf[d]
<1> DEFINE Cost1(d) == [cost |-> TokensOf[d]]
           Charged(s) == [i \in 1 .. Len(s) |-> Cost1(s[i])]
           Charge == [cost : Nat]
<1>1. \A d \in Doc : Cost1(d) \in Charge /\ Cost1(d).cost = TokensOf[d]
  BY PromptAssumption
<1>2. \A x \in Charge : x.cost \in Int
  OBVIOUS
<1>3. ASSUME NEW s \in Seq(Doc)
      PROVE  /\ Charged(s) \in Seq(Charge) /\ Len(Charged(s)) = Len(s) /\ Len(s) \in Nat
             /\ \A i \in 1 .. Len(s) : Charged(s)[i] = Cost1(s[i])
             /\ \A i \in 1 .. Len(s) : Charged(s)[i].cost = TokensOf[s[i]]
  <2>1. Len(s) \in Nat /\ \A i \in 1 .. Len(s) : s[i] \in Doc
    BY LenProperties
  <2>2. Charged(s) \in [1 .. Len(s) -> Charge]
    BY <1>1, <2>1
  <2>3. Charged(s) \in Seq(Charge) /\ Len(Charged(s)) = Len(s)
    BY <2>1, <2>2, SeqDef, LenProperties
  <2> QED BY <1>1, <2>1, <2>3
<1> HIDE DEF Charged, Charge, Cost1
<1>4. ASSUME NEW s \in Seq(Doc) PROVE TokensIn(s) = Total(Charged(s))
  <2> DEFINE Sum(g) == g = [i \in 0 .. Len(s) |-> IF i = 0 THEN 0 ELSE g[i - 1] + TokensOf[s[i]]]
             sum == CHOOSE g : Sum(g)
  <2>1. TokensIn(s) = sum[Len(s)]
    BY DEF TokensIn
  <2>2. ASSUME NEW g PROVE Sum(g) <=> Sums(Charged(s), g)
    <3>1. \A i \in 0 .. Len(s) : SumRound(Charged(s), g, i)
                                    = IF i = 0 THEN 0 ELSE g[i - 1] + TokensOf[s[i]]
      <4> SUFFICES ASSUME NEW i \in 0 .. Len(s)
                   PROVE  SumRound(Charged(s), g, i) = IF i = 0 THEN 0 ELSE g[i - 1] + TokensOf[s[i]]
        OBVIOUS
      <4>1. i = 0 \/ i \in 1 .. Len(s)
        BY <1>3
      <4> QED BY <1>3, <4>1 DEF SumRound
    <3>2. [i \in 0 .. Len(s) |-> SumRound(Charged(s), g, i)]
             = [i \in 0 .. Len(s) |-> IF i = 0 THEN 0 ELSE g[i - 1] + TokensOf[s[i]]]
      BY <3>1
    <3> QED BY <1>3, <3>2 DEF Sums
  <2>3. Priceable(Charged(s))
    BY <1>2, <1>3, ElementOfSeq DEF Priceable
  <2>4. PICK g : Sums(Charged(s), g)
    BY <2>3, SumsExist
  <2>5. Sum(g)
    BY <2>2, <2>4
  <2>6. Sum(sum)
    BY <2>5
  <2> HIDE DEF Sum, sum
  <2>7. Sums(Charged(s), sum)
    BY <2>2, <2>6
  <2> QED BY <1>3, <2>1, <2>3, <2>7, SumRounds
<1>5. TokensIn(docs) \in Int
  BY <1>2, <1>3, <1>4, TotalType
<1>6. docs = <<>> => TokensIn(docs) = 0
  <2> SUFFICES ASSUME docs = <<>> PROVE TokensIn(docs) = 0
    OBVIOUS
  <2>1. Charged(docs) \in Seq(Charge) /\ Len(Charged(docs)) = 0
    BY <1>3
  <2>2. Charged(docs) = <<>>
    BY <2>1, EmptySeq
  <2> QED BY <1>4, <2>2, TotalEmpty
<1>7. ASSUME NEW d \in Doc PROVE TokensIn(Append(docs, d)) = TokensIn(docs) + TokensOf[d]
  <2>1. PICK all \in Seq(Doc) :
           /\ all = Append(docs, d) /\ Len(all) = Len(docs) + 1 /\ all[Len(docs) + 1] = d
           /\ \A i \in 1 .. Len(docs) : all[i] = docs[i]
    <3>1. /\ Append(docs, d) \in Seq(Doc) /\ Len(Append(docs, d)) = Len(docs) + 1
          /\ Append(docs, d)[Len(docs) + 1] = d
          /\ \A i \in 1 .. Len(docs) : Append(docs, d)[i] = docs[i]
      BY AppendProperties
    <3> QED BY <3>1
  <2>2. PICK n \in Nat : n = Len(docs)
    BY <1>3
  <2>3. PICK t \in Seq(Charge) : t = Append(Charged(docs), Cost1(d)) /\ Len(t) = n + 1
                                   /\ t[n + 1] = Cost1(d) /\ \A i \in 1 .. n : t[i] = Charged(docs)[i]
    <3>1. PICK s \in Seq(Charge), x \in Charge : s = Charged(docs) /\ x = Cost1(d) /\ Len(s) = n
      BY <1>1, <1>3, <2>2
    <3>2. /\ Append(s, x) \in Seq(Charge) /\ Len(Append(s, x)) = n + 1
          /\ Append(s, x)[n + 1] = x /\ \A i \in 1 .. n : Append(s, x)[i] = s[i]
      BY <3>1, AppendProperties
    <3> QED BY <3>1, <3>2
  <2>4. Charged(all) = t
    <3>1. Charged(all) \in Seq(Charge) /\ Len(Charged(all)) = n + 1
          /\ \A i \in 1 .. n + 1 : Charged(all)[i] = Cost1(all[i])
      BY <1>3, <2>1, <2>2
    <3>2. ASSUME NEW i \in 1 .. n + 1 PROVE Charged(all)[i] = t[i]
      <4>1. CASE i = n + 1
        BY <2>1, <2>2, <2>3, <3>1, <4>1
      <4>2. CASE i # n + 1
        <5>1. i \in 1 .. n
          BY <4>2
        <5> QED BY <1>3, <2>1, <2>2, <2>3, <3>1, <5>1
      <4> QED BY <4>1, <4>2
    <3> QED BY <2>3, <3>1, <3>2, SeqEqual
  <2>5. Total(t) = Total(Charged(docs)) + Cost1(d).cost
    BY <1>1, <1>2, <1>3, <2>3, TotalAppend
  <2> QED BY <1>1, <1>4, <2>1, <2>4, <2>5
<1> QED BY <1>5, <1>6, <1>7

\* What the runs check of the turns and the layout, and what it rests on.
PromptTypes ==
    /\ prefixStable \in BOOLEAN /\ skills \subseteq Node
    /\ documents \in Seq(Doc) /\ historyTokens \in Nat
    /\ turns \in Nat /\ bypassed \in Nat /\ compared \in Nat
    /\ lastPrompt \in Seq(AnyLine)

\* The gate never counts less than there is, and a turn leaves a prompt.
GateInv == TokensIn(documents) <= historyTokens /\ (turns > 0 => lastPrompt # <<>>)

\* What was counted as read, alone or beside another, one prompt quoted.
CoveredInv ==
    /\ \A s \in assembledSpans : \E S \in shown : s \in S
    /\ \A pair \in assembledPairs : \E S \in shown : pair \subseteq S

\* The last prompt begins with the layout of the context it was laid out from.
LayoutInv ==
    first # <<>> =>
        \E c : /\ IsContext(c) /\ first = << LinesOf(c) >>
               /\ prefixStable => StartsWith(lastPrompt, Groups(c, FALSE))

PromptInv == PromptTypes /\ GateInv /\ CoveredInv /\ LayoutInv

LEMMA QuotedIsShown ==
    ASSUME NEW p \in Seq(AnyLine), NEW d \in SUBSET Shape, \A e \in d : Line(e) \in Lines(p)
    PROVE  SpansIn(Quoted(d)) \subseteq QuotedBy(p)
<1> SUFFICES ASSUME NEW e \in Quoted(d), NEW s \in SpansOf[e.id] PROVE s \in QuotedBy(p)
  BY DEF SpansIn
<1>1. e \in d /\ e.level = "L0"
  BY DEF Quoted
<1>2. PICK l : l = Line(e)
  OBVIOUS
<1>3. l \in Lines(p) /\ l[1] = "entry" /\ l[2] = e.id /\ l[3] = "L0"
  BY <1>1, <1>2 DEF Line
<1> QED BY <1>3 DEF QuotedBy

LEMMA AskKeeps ==
    ASSUME PromptInv, NEW c, IsContext(c), NEW d \in SUBSET Shape, NEW p \in Seq(AnyLine),
           Ask(c, d, p), p # <<>>, \A e \in d : Line(e) \in Lines(p),
           prefixStable => StartsWith(p, Groups(c, FALSE))
    PROVE  PromptInv'
<1>1. /\ turns' = turns + 1 /\ lastPrompt' = p /\ first' = << LinesOf(c) >>
      /\ compared' = (IF lastPrompt = <<>> THEN compared ELSE compared + 1)
      /\ shown' = shown \cup {QuotedBy(p)}
      /\ assembledSpans' = assembledSpans \cup SpansIn(Quoted(d))
      /\ assembledPairs' = assembledPairs \cup PairsOf(SpansIn(Quoted(d)))
      /\ prefixStable' = prefixStable /\ skills' = skills /\ documents' = documents
      /\ historyTokens' = historyTokens /\ bypassed' = bypassed
  BY DEF Ask, NotePrompt, LinesOf, flags, store
<1>2. PromptTypes'
  BY <1>1 DEF PromptTypes, PromptInv
<1>3. GateInv'
  BY <1>1 DEF GateInv, PromptInv
<1>4. CoveredInv'
  <2>1. PICK Q : Q = SpansIn(Quoted(d)) /\ Q \subseteq QuotedBy(p)
    BY QuotedIsShown
  <2>2. \A s \in assembledSpans' : \E S \in shown' : s \in S
    BY <1>1, <2>1 DEF CoveredInv, PromptInv
  <2>3. \A pair \in PairsOf(Q) : pair \subseteq Q
    BY DEF PairsOf
  <2>4. \A pair \in assembledPairs' : \E S \in shown' : pair \subseteq S
    <3> SUFFICES ASSUME NEW pair \in assembledPairs' PROVE \E S \in shown' : pair \subseteq S
      OBVIOUS
    <3>1. CASE pair \in assembledPairs
      BY <1>1, <3>1 DEF CoveredInv, PromptInv
    <3>2. CASE pair \in PairsOf(Q)
      <4>1. pair \subseteq QuotedBy(p) /\ QuotedBy(p) \in shown'
        BY <1>1, <2>1, <2>3, <3>2
      <4> QED BY <4>1
    <3> QED BY <1>1, <2>1, <3>1, <3>2
  <2> QED BY <2>2, <2>4 DEF CoveredInv
<1>5. LayoutInv'
  BY <1>1 DEF LayoutInv, StartsWith, IsContext, Groups, Items, LinesOf, Line
<1> QED BY <1>2, <1>3, <1>4, <1>5 DEF PromptInv

LEMMA PlannedIs ==
    ASSUME PromptTypes, NEW c \in Contexts, AskPlanned(c)
    PROVE  /\ IsContext(c)
           /\ \E d \in SUBSET Shape, p \in Seq(AnyLine) :
                 /\ Ask(c, d, p) /\ p # <<>> /\ \A e \in d : Line(e) \in Lines(p)
                 /\ prefixStable => StartsWith(p, Groups(c, FALSE))
<1>1. IsContext(c) /\ c \in SUBSET Shape
  BY ContextsAre DEF IsContext, PromptTypes
<1>2. Ask(c, c, PromptFor(c))
  BY DEF AskPlanned
<1> QED BY <1>1, <1>2, PromptForIs

LEMMA EscalatedIs ==
    ASSUME PromptTypes, NEW c \in Contexts, NEW e \in c, NEW gone, AskEscalated(c, e, gone)
    PROVE  /\ IsContext(c)
           /\ \E d \in SUBSET Shape, p \in Seq(AnyLine) :
                 /\ Ask(c, d, p) /\ p # <<>> /\ \A f \in d : Line(f) \in Lines(p)
                 /\ prefixStable => StartsWith(p, Groups(c, FALSE))
<1>1. IsContext(c) /\ c \in SUBSET Shape /\ IsFiniteSet(c)
  BY ContextsAre DEF IsContext, PromptTypes
<1>2. PICK rest, forced, d :
         /\ rest = {x \in c : x.id \notin gone \cup {e.id}} /\ forced = [e EXCEPT !.level = "L0"]
         /\ d = rest \cup {forced}
  OBVIOUS
<1>3. Ask(c, d, Appended(PromptFor(c), d))
  BY <1>2 DEF AskEscalated
<1>4. d \in SUBSET Shape
  BY <1>1, <1>2 DEF Shape
<1>5. IsFiniteSet(d)
  BY <1>1, <1>2, FS_Subset, FS_AddElement
<1>6. PICK p \in Seq(AnyLine) : p = PromptFor(c) /\ p # <<>>
                                  /\ (prefixStable => StartsWith(p, Groups(c, FALSE)))
  BY <1>1, PromptForIs
<1>7. PICK q \in Seq(AnyLine) :
         /\ q = Appended(p, d) /\ Len(p) <= Len(q) /\ \A i \in 1 .. Len(p) : q[i] = p[i]
         /\ \A f \in d : Line(f) \in Lines(q)
  <2>1. /\ Appended(p, d) \in Seq(AnyLine) /\ Len(p) <= Len(Appended(p, d))
        /\ \A i \in 1 .. Len(p) : Appended(p, d)[i] = p[i]
        /\ \A f \in d : Line(f) \in Lines(Appended(p, d))
    BY <1>4, <1>5, AppendedIs
  <2> QED BY <2>1
<1>8. Len(p) \in Nat /\ Len(q) \in Nat /\ Len(p) > 0 /\ q # <<>>
  BY <1>6, <1>7, LenProperties, EmptySeq
<1>9. prefixStable => StartsWith(q, Groups(c, FALSE))
  <2> SUFFICES ASSUME prefixStable PROVE StartsWith(q, Groups(c, FALSE))
    OBVIOUS
  <2>1. PICK g : g = Groups(c, FALSE)
    OBVIOUS
  <2>2. /\ Len(g) \in Nat /\ Len(g) + 1 <= Len(p) /\ p[1] = <<"header">>
        /\ \A i \in 1 .. Len(g) : p[i + 1] = g[i]
    BY <1>6, <2>1 DEF StartsWith
  <2>3. \A i \in 1 .. Len(g) : i + 1 \in 1 .. Len(p)
    BY <1>8, <2>2
  <2>4. 1 \in 1 .. Len(p) /\ Len(g) + 1 <= Len(q)
    BY <1>7, <1>8, <2>2
  <2> QED BY <1>7, <1>8, <2>1, <2>2, <2>3, <2>4 DEF StartsWith
<1> QED BY <1>1, <1>3, <1>4, <1>6, <1>7, <1>8, <1>9

LEMMA BypassKeeps ==
    ASSUME PromptInv, AskBypass
    PROVE  /\ PromptInv'
           /\ \A d \in Lines(documents) : <<"document", d>> \in Lines(lastPrompt')
<1>1. /\ turns' = turns + 1 /\ bypassed' = bypassed + 1 /\ first' = <<>>
      /\ compared' = (IF lastPrompt = <<>> THEN compared ELSE compared + 1)
      /\ shown' = shown /\ assembledSpans' = assembledSpans /\ assembledPairs' = assembledPairs
      /\ prefixStable' = prefixStable /\ skills' = skills /\ documents' = documents
      /\ historyTokens' = historyTokens
  BY DEF AskBypass, NotePrompt, flags, store, ledger
<1>2. PICK h \in Seq(AnyLine), q \in Seq(AnyLine) :
         h = << <<"history">> >> /\ q = << <<"question">> >> /\ Len(q) = 1
  <2>1. <<"history">> \in AnyLine /\ <<"question">> \in AnyLine
    BY DEF AnyLine
  <2> QED BY <2>1, OneLine
<1>3. PICK b \in Seq(AnyLine) :
         /\ b = [i \in DOMAIN documents |-> <<"document", documents[i]>>]
         /\ \A d \in Lines(documents) : <<"document", d>> \in Lines(b)
  <2> DEFINE a == [i \in DOMAIN documents |-> <<"document", documents[i]>>]
  <2>1. /\ DOMAIN documents = 1 .. Len(documents) /\ Len(documents) \in Nat
        /\ \A i \in 1 .. Len(documents) : documents[i] \in Doc
    BY LenProperties DEF PromptInv, PromptTypes
  <2>2. \A d \in Doc : <<"document", d>> \in AnyLine
    BY DEF AnyLine
  <2>3. a \in [1 .. Len(documents) -> AnyLine]
    BY <2>1, <2>2
  <2>4. a \in Seq(AnyLine)
    BY <2>1, <2>3, SeqDef
  <2>5. \A d \in Lines(documents) : <<"document", d>> \in Lines(a)
    BY DEF Lines
  <2> QED BY <2>4, <2>5
<1>4. PICK p \in Seq(AnyLine) : p = h \o b /\ Lines(b) \subseteq Lines(p)
  <2>1. h \o b \in Seq(AnyLine) /\ Lines(b) \subseteq Lines(h \o b)
    BY LinesConcat
  <2> QED BY <2>1
<1>5. PICK r \in Seq(AnyLine) : r = p \o q /\ Lines(p) \subseteq Lines(r) /\ r # <<>>
  <2>1. /\ p \o q \in Seq(AnyLine) /\ Lines(p) \subseteq Lines(p \o q)
        /\ Len(p \o q) = Len(p) + Len(q)
    BY LinesConcat
  <2>2. p \o q # <<>>
    BY <1>2, <2>1, LenProperties
  <2> QED BY <2>1, <2>2
<1>6. lastPrompt' = r
  BY <1>2, <1>3, <1>4, <1>5 DEF AskBypass, NotePrompt
<1>7. PromptTypes'
  BY <1>1, <1>6 DEF PromptTypes, PromptInv
<1>8. GateInv'
  BY <1>1, <1>5, <1>6 DEF GateInv, PromptInv
<1>9. CoveredInv' /\ LayoutInv'
  BY <1>1 DEF CoveredInv, LayoutInv, PromptInv
<1> QED BY <1>3, <1>4, <1>5, <1>6, <1>7, <1>8, <1>9 DEF PromptInv

LEMMA IngestKeeps ==
    ASSUME PromptInv, NEW d \in Doc, Ingest(d)
    PROVE  PromptInv'
<1>1. documents \in Seq(Doc) /\ historyTokens \in Nat /\ TokensIn(documents) <= historyTokens
  BY DEF PromptInv, PromptTypes, GateInv
<1>2. TokensOf[d] \in Nat
  BY PromptAssumption
<1>3. /\ documents' = (IF d \in Lines(documents) THEN documents ELSE Append(documents, d))
      /\ historyTokens' = historyTokens + TokensOf[d]
      /\ prefixStable' = prefixStable /\ skills' = skills /\ turns' = turns
      /\ bypassed' = bypassed /\ compared' = compared /\ lastPrompt' = lastPrompt
      /\ first' = first /\ shown' = shown
      /\ assembledSpans' = assembledSpans /\ assembledPairs' = assembledPairs
  BY DEF Ingest, flags, telemetry, ledger
<1>4. documents' \in Seq(Doc) /\ historyTokens' \in Nat
  BY <1>1, <1>2, <1>3, AppendProperties
<1>5. TokensIn(documents') <= historyTokens'
  <2>1. PICK a \in Int, t \in Nat, n \in Nat :
           a = TokensIn(documents) /\ t = TokensOf[d] /\ n = historyTokens /\ a <= n
    BY <1>1, <1>2, TokensAre
  <2>2. TokensIn(documents') = a \/ TokensIn(documents') = a + t
    BY <1>1, <1>3, <2>1, TokensAre
  <2>3. a <= n + t /\ a + t <= n + t
    BY <2>1
  <2> QED BY <1>3, <2>1, <2>2, <2>3
<1>6. PromptTypes'
  BY <1>3, <1>4 DEF PromptTypes, PromptInv
<1>7. GateInv'
  BY <1>3, <1>5 DEF GateInv, PromptInv
<1>8. CoveredInv' /\ LayoutInv'
  BY <1>3 DEF CoveredInv, LayoutInv, PromptInv, StartsWith, IsContext, Groups, Items, LinesOf, Line
<1> QED BY <1>6, <1>7, <1>8 DEF PromptInv

LEMMA SkillKeeps ==
    ASSUME PromptInv, NEW n \in Node, AddSkill(n)
    PROVE  PromptInv'
<1>1. /\ skills' = skills \cup {n} /\ documents' = documents /\ historyTokens' = historyTokens
      /\ prefixStable' = prefixStable /\ turns' = turns
      /\ bypassed' = bypassed /\ compared' = compared /\ lastPrompt' = lastPrompt
      /\ first' = first /\ shown' = shown
      /\ assembledSpans' = assembledSpans /\ assembledPairs' = assembledPairs
  BY DEF AddSkill, flags, telemetry, ledger
<1>2. PromptTypes' /\ GateInv'
  BY <1>1 DEF PromptTypes, GateInv, PromptInv
<1>3. CoveredInv' /\ LayoutInv'
  BY <1>1 DEF CoveredInv, LayoutInv, PromptInv, StartsWith, IsContext, Groups, Items, LinesOf, Line
<1> QED BY <1>2, <1>3 DEF PromptInv

\* What lays a prompt out, and what does not.
LEMMA PromptSteps ==
    ASSUME PromptInv, PromptNext
    PROVE  \/ \E d \in Doc : Ingest(d)
           \/ \E n \in Node : AddSkill(n)
           \/ \E c : /\ IsContext(c)
                     /\ \E d \in SUBSET Shape, p \in Seq(AnyLine) :
                           /\ Ask(c, d, p) /\ p # <<>> /\ \A f \in d : Line(f) \in Lines(p)
                           /\ prefixStable => StartsWith(p, Groups(c, FALSE))
           \/ AskBypass
<1>1. PromptTypes
  BY DEF PromptInv
<1>2. ASSUME NEW c \in Contexts,
             AskPlanned(c) \/ \E e \in c, other \in Node : AskEscalated(c, e, {other})
      PROVE  /\ IsContext(c)
             /\ \E d \in SUBSET Shape, p \in Seq(AnyLine) :
                   /\ Ask(c, d, p) /\ p # <<>> /\ \A f \in d : Line(f) \in Lines(p)
                   /\ prefixStable => StartsWith(p, Groups(c, FALSE))
  <2>1. CASE AskPlanned(c)
    BY <1>1, <2>1, PlannedIs
  <2>2. CASE \E e \in c, other \in Node : AskEscalated(c, e, {other})
    <3>1. PICK e \in c, other \in Node : AskEscalated(c, e, {other})
      BY <2>2
    <3> QED BY <1>1, <3>1, EscalatedIs
  <2> QED BY <1>2, <2>1, <2>2
<1> QED BY <1>2 DEF PromptNext

LEMMA PromptInvHolds == PromptSpec => []PromptInv
<1>1. PromptInit => PromptInv
  <2> SUFFICES ASSUME PromptInit PROVE PromptInv
    OBVIOUS
  <2>1. /\ prefixStable \in BOOLEAN /\ skills = {} /\ documents = <<>> /\ historyTokens = 0
        /\ turns = 0 /\ bypassed = 0 /\ compared = 0 /\ lastPrompt = <<>> /\ first = <<>>
        /\ assembledSpans = {} /\ assembledPairs = {}
    BY DEF PromptInit
  <2>2. documents \in Seq(Doc) /\ lastPrompt \in Seq(AnyLine)
    BY <2>1, EmptySeq
  <2>3. TokensIn(documents) = 0
    BY <2>1, <2>2, TokensAre
  <2> QED BY <2>1, <2>2, <2>3 DEF PromptInv, PromptTypes, GateInv, CoveredInv, LayoutInv
<1>2. PromptInv /\ [PromptNext]_promptVars => PromptInv'
  <2> SUFFICES ASSUME PromptInv, [PromptNext]_promptVars PROVE PromptInv'
    OBVIOUS
  <2>1. CASE PromptNext
    <3>1. CASE \E d \in Doc : Ingest(d)
      BY <3>1, IngestKeeps
    <3>2. CASE \E n \in Node : AddSkill(n)
      BY <3>2, SkillKeeps
    <3>3. CASE \E c : /\ IsContext(c)
                      /\ \E d \in SUBSET Shape, p \in Seq(AnyLine) :
                            /\ Ask(c, d, p) /\ p # <<>> /\ \A f \in d : Line(f) \in Lines(p)
                            /\ prefixStable => StartsWith(p, Groups(c, FALSE))
      BY <3>3, AskKeeps
    <3>4. CASE AskBypass
      BY <3>4, BypassKeeps
    <3> QED BY <2>1, <3>1, <3>2, <3>3, <3>4, PromptSteps
  <2>2. CASE UNCHANGED promptVars
    <3>1. /\ skills' = skills /\ documents' = documents /\ historyTokens' = historyTokens
          /\ prefixStable' = prefixStable /\ turns' = turns
          /\ bypassed' = bypassed /\ compared' = compared /\ lastPrompt' = lastPrompt
          /\ first' = first /\ shown' = shown
          /\ assembledSpans' = assembledSpans /\ assembledPairs' = assembledPairs
      BY <2>2 DEF promptVars, flags, store, ledger, telemetry
    <3>2. PromptTypes' /\ GateInv'
      BY <3>1 DEF PromptTypes, GateInv, PromptInv
    <3>3. CoveredInv' /\ LayoutInv'
      BY <3>1 DEF CoveredInv, LayoutInv, PromptInv, StartsWith, IsContext, Groups, Items, LinesOf, Line
    <3> QED BY <3>2, <3>3 DEF PromptInv
  <2> QED BY <2>1, <2>2
<1> QED BY <1>1, <1>2, PTL DEF PromptSpec

-----------------------------------------------------------------------------
\* A span counts as looked at only if a prompt quoted it, and two spans as looked
\* at together only if one prompt quoted both: for any nodes, spans and dependencies,
\* with and without escalations (runtime.rs, mark_assembled, pair_coverage).
THEOREM ReadIsShown == PromptSpec => []CoverageWasShown
<1>1. PromptInv => CoverageWasShown
  BY DEF PromptInv, CoveredInv, CoverageWasShown
<1> QED BY <1>1, PromptInvHolds, PTL

\* The stable layout earns its cache: whatever is admitted, at whatever level and
\* utility, two prompts in a row share every entry before the first that only one of
\* them has, escalated prompts included (planner.rs, render_prefix_stable).
THEOREM PrefixStaysShared == PromptSpec => PrefixIsShared
<1> DEFINE Shares == prefixStable /\ turns' > turns /\ first # <<>> /\ first' # <<>> =>
                       Kept(first[1], first'[1])
                         \subseteq Lines(SubSeq(lastPrompt, 1, Shared(lastPrompt, lastPrompt')))
<1>1. PromptInv /\ [PromptNext]_promptVars => [Shares]_promptVars
  <2> SUFFICES ASSUME PromptInv, PromptNext, prefixStable, turns' > turns,
                      first # <<>>, first' # <<>>
               PROVE  Kept(first[1], first'[1])
                         \subseteq Lines(SubSeq(lastPrompt, 1, Shared(lastPrompt, lastPrompt')))
    OBVIOUS
  <2>1. turns \in Nat /\ lastPrompt \in Seq(AnyLine)
    BY DEF PromptInv, PromptTypes
  <2>2. ~ (\E d \in Doc : Ingest(d)) /\ ~ (\E n \in Node : AddSkill(n)) /\ ~ AskBypass
    <3>1. \A d \in Doc : Ingest(d) => turns' = turns
      BY DEF Ingest, telemetry
    <3>2. \A n \in Node : AddSkill(n) => turns' = turns
      BY DEF AddSkill, telemetry
    <3>3. AskBypass => first' = <<>>
      BY DEF AskBypass
    <3> QED BY <2>1, <3>1, <3>2, <3>3
  <2>3. PICK c : /\ IsContext(c)
                 /\ \E d \in SUBSET Shape, p \in Seq(AnyLine) :
                       /\ Ask(c, d, p) /\ p # <<>> /\ \A f \in d : Line(f) \in Lines(p)
                       /\ prefixStable => StartsWith(p, Groups(c, FALSE))
    BY <2>2, PromptSteps
  <2>4. PICK d \in SUBSET Shape, p \in Seq(AnyLine) :
           Ask(c, d, p) /\ (prefixStable => StartsWith(p, Groups(c, FALSE)))
    BY <2>3
  <2>5. lastPrompt' = p /\ first' = << LinesOf(c) >>
    BY <2>4 DEF Ask, NotePrompt, LinesOf
  <2>6. PICK b : IsContext(b) /\ first = << LinesOf(b) >> /\ StartsWith(lastPrompt, Groups(b, FALSE))
    BY DEF PromptInv, LayoutInv
  <2>7. first[1] = LinesOf(b) /\ first'[1] = LinesOf(c)
    BY <2>5, <2>6
  <2>8. \A l \in Kept(LinesOf(b), LinesOf(c)) : l \in Lines(SubSeq(lastPrompt, 1, Shared(lastPrompt, p)))
    BY <2>1, <2>3, <2>6, <2>4, KeptIsShared
  <2> QED BY <2>5, <2>7, <2>8
<1> QED BY <1>1, PromptInvHolds, PTL DEF PromptSpec, PrefixIsShared

\* A turn that bypasses the planner sends every document there is, and all of them
\* fit the window with what wraps them, however often each was ingested (fit.rs,
\* assess; runtime.rs, ask_bypass).
THEOREM BypassSendsAll == PromptSpec => BypassShowsAll
<1> DEFINE SendsAll == bypassed' > bypassed =>
         /\ \A d \in Lines(documents) : <<"document", d>> \in Lines(lastPrompt')
         /\ TokensIn(documents) + Overhead <= Budget
         /\ skills = {} /\ lastAssembly' = {}
         /\ turns > 0 => compared' > compared
<1>1. PromptInv /\ [PromptNext]_promptVars => [SendsAll]_promptVars
  <2> SUFFICES ASSUME PromptInv, PromptNext, bypassed' > bypassed
               PROVE  SendsAll
    OBVIOUS
  <2>1. /\ turns \in Nat /\ bypassed \in Nat /\ compared \in Nat /\ historyTokens \in Nat
        /\ documents \in Seq(Doc) /\ TokensIn(documents) <= historyTokens
        /\ turns > 0 => lastPrompt # <<>>
    BY DEF PromptInv, PromptTypes, GateInv
  <2>2. AskBypass
    <3>1. \A d \in Doc : Ingest(d) => bypassed' = bypassed
      BY DEF Ingest, telemetry
    <3>2. \A n \in Node : AddSkill(n) => bypassed' = bypassed
      BY DEF AddSkill, telemetry
    <3>3. \A c, d, p : Ask(c, d, p) => bypassed' = bypassed
      BY DEF Ask
    <3>4. bypassed' # bypassed
      BY <2>1
    <3>5. ~ (\E d \in Doc : Ingest(d)) /\ ~ (\E n \in Node : AddSkill(n))
      BY <3>1, <3>2, <3>4
    <3>6. ~ (\E c : /\ IsContext(c)
                    /\ \E d \in SUBSET Shape, p \in Seq(AnyLine) :
                          /\ Ask(c, d, p) /\ p # <<>> /\ \A f \in d : Line(f) \in Lines(p)
                          /\ prefixStable => StartsWith(p, Groups(c, FALSE)))
      BY <3>3, <3>4
    <3> QED BY <3>5, <3>6, PromptSteps
  <2>3. \A d \in Lines(documents) : <<"document", d>> \in Lines(lastPrompt')
    BY <2>2, BypassKeeps
  <2>4. historyTokens + Overhead <= Budget /\ skills = {} /\ lastAssembly' = {}
        /\ compared' = (IF lastPrompt = <<>> THEN compared ELSE compared + 1)
    BY <2>2 DEF AskBypass, Fits, NotePrompt
  <2>5. TokensIn(documents) + Overhead <= Budget
    <3>1. PICK a \in Int, t \in Nat, o \in Nat, b \in Nat :
             a = TokensIn(documents) /\ t = historyTokens /\ o = Overhead /\ b = Budget
      BY <2>1, TokensAre, PromptAssumption
    <3>2. a <= t /\ t + o <= b
      BY <2>1, <2>4, <3>1
    <3>3. a + o <= b
      BY <3>2
    <3> QED BY <3>1, <3>3
  <2>6. turns > 0 => compared' > compared
    BY <2>1, <2>4
  <2> QED BY <2>3, <2>4, <2>5, <2>6
<1> QED BY <1>1, PromptInvHolds, PTL DEF PromptSpec, BypassShowsAll

=============================================================================
