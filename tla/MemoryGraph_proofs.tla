------------------------- MODULE MemoryGraph_proofs -------------------------
(***************************************************************************)
(* Invariants of the memory graph, for every graph, every bound and every  *)
(* history of calls.  Each call either admits a node, revises one, or      *)
(* leaves the set of superseded nodes alone: StepShapes says which, and    *)
(* most invariants follow from the shape of the step.  Two need more: what *)
(* the layers of a bounded walk reach (CascadeIsNeverLost), and what a     *)
(* step does to the dependents of evidence (OrphansAreAlwaysFlagged).      *)
(***************************************************************************)
EXTENDS MemoryGraph, FiniteSetTheorems, WellFoundedInduction, TLAPS

\* A cascade marks present nodes that are not history, and defers ids.
LEMMA CascadeBounds ==
    ASSUME NEW E, NEW roots, NEW d, NEW st, NEW c \in Cascades(E, roots, d, st)
    PROVE  /\ c.marked \subseteq present
           /\ c.marked \cap Skipped(st) = {}
           /\ c.deferred \subseteq Id
<1> DEFINE L(M) == Layers(E, roots, M)
           out(M, S) == [marked |-> M,
                         deferred |-> Postponed(M, S, L(M), MaxDepth - d, st)]
<1>1. PICK M \in SUBSET (present \ Skipped(st)), S \in SUBSET Skipped(st) :
         c = out(M, S)
  BY Zenon DEF Cascades
<1>2. c.marked = M /\ c.deferred = Postponed(M, S, L(M), MaxDepth - d, st)
  BY <1>1
<1>3. c.deferred \subseteq Id
  BY <1>2 DEF Postponed
<1> QED BY <1>1, <1>2, <1>3

\* Marking nodes stale keeps a status function, and keeps history history.
LEMMA StaleKeepsHistory ==
    ASSUME NEW st \in [Id -> Status], NEW c, c.marked \cap Skipped(st) = {}
    PROVE  /\ Stale(st, c) \in [Id -> Status]
           /\ \A n \in Id : Stale(st, c)[n] = "superseded" <=> st[n] = "superseded"
  BY DEF Stale, Status, Skipped

LEMMA SettledKeepsHistory ==
    ASSUME NEW st \in [Id -> Status], NEW n \in Id, NEW against
    PROVE  /\ Settled(n, against, st) \in [Id -> Status]
           /\ \A m \in Id : Settled(n, against, st)[m] = "superseded"
                              <=> st[m] = "superseded"
  BY DEF Settled, Status

-----------------------------------------------------------------------------
(* What a cascade reaches.  The walk that Layers describes is a recursive  *)
(* function; that it exists, and that everything seen was in some layer,   *)
(* are shown by taking the least layer where they would fail.              *)

LEMMA LeastExists ==
    ASSUME NEW S \in SUBSET Nat, S # {}
    PROVE  \E x \in S : \A y \in S : x <= y
<1>1. PICK x \in S : \A y \in S : ~ (<<y, x>> \in OpToRel(<, Nat))
  BY NatLessThanWellFounded, WFMin
<1>2. \A y \in S : ~ (y < x)
  BY <1>1 DEF OpToRel
<1> QED BY <1>2

\* Layer k of a walk, given what w says of the layers before it.
WalkStep(E, roots, M, w, k) ==
    IF k = 0
    THEN [now |-> roots, seen |-> roots]
    ELSE LET before == w[k - 1]
             next   == UNION {Dependents(E, m) : m \in before.now \cap M}
         IN  [now  |-> next \ before.seen,
              seen |-> before.seen \cup next]

IsWalk(E, roots, M, N, w) == w = [k \in 0 .. N |-> WalkStep(E, roots, M, w, k)]

Walk(E, roots, M) == CHOOSE w : IsWalk(E, roots, M, MaxDepth + 1, w)

LEMMA WalkExists ==
    ASSUME NEW E, NEW roots, NEW M, NEW N \in Nat
    PROVE  \E w : IsWalk(E, roots, M, N, w)
<1> DEFINE Short == {n \in Nat : ~ \E w : IsWalk(E, roots, M, n, w)}
<1> SUFFICES ASSUME Short # {} PROVE FALSE
  OBVIOUS
<1>1. PICK m \in Short : \A k \in Short : m <= k
  BY LeastExists, Zenon
<1>2. m \in Nat /\ ~ \E w : IsWalk(E, roots, M, m, w)
  BY <1>1
<1>3. m # 0
  <2> DEFINE w == [k \in 0 .. 0 |-> [now |-> roots, seen |-> roots]]
  <2>1. IsWalk(E, roots, M, 0, w)
    BY DEF IsWalk, WalkStep
  <2> QED BY <1>2, <2>1
<1>4. m - 1 \in Nat /\ m - 1 \notin Short
  BY <1>1, <1>2, <1>3
<1>5. PICK v : IsWalk(E, roots, M, m - 1, v)
  BY <1>4
<1> DEFINE w == [k \in 0 .. m |-> IF k = m THEN WalkStep(E, roots, M, v, k) ELSE v[k]]
<1>6. ASSUME NEW k \in 0 .. m
      PROVE  w[k] = WalkStep(E, roots, M, w, k)
  <2>1. CASE k = 0
    <3>1. v[0] = WalkStep(E, roots, M, v, 0)
      BY <1>2, <1>3, <1>5 DEF IsWalk
    <3> QED BY <2>1, <3>1, <1>2, <1>3 DEF WalkStep
  <2>2. CASE k # 0
    <3>1. k - 1 \in 0 .. m - 1 /\ k - 1 # m /\ w[k - 1] = v[k - 1]
      BY <2>2, <1>2
    <3>2. WalkStep(E, roots, M, v, k) = WalkStep(E, roots, M, w, k)
      BY <3>1 DEF WalkStep
    <3>3. k # m => v[k] = WalkStep(E, roots, M, v, k)
      BY <1>2, <1>5 DEF IsWalk
    <3> HIDE DEF w
    <3>4. w[k] = IF k = m THEN WalkStep(E, roots, M, v, k) ELSE v[k]
      BY DEF w
    <3> QED BY <3>2, <3>3, <3>4
  <2> QED BY <2>1, <2>2
<1>7. IsWalk(E, roots, M, m, w)
  <2>1. w = [k \in 0 .. m |-> w[k]]
    OBVIOUS
  <2> HIDE DEF w
  <2> QED BY <2>1, <1>6 DEF IsWalk
<1> QED BY <1>2, <1>7

LEMMA LayersAreWalked ==
    ASSUME NEW E, NEW roots, NEW M
    PROVE  /\ \A k \in 0 .. MaxDepth + 1 :
                 /\ Walk(E, roots, M)[k] = WalkStep(E, roots, M, Walk(E, roots, M), k)
                 /\ Layers(E, roots, M)[k] = Walk(E, roots, M)[k].now
           /\ Layers(E, roots, M)[0] = roots
<1> DEFINE w == Walk(E, roots, M)
<1>1. Layers(E, roots, M) = [k \in 0 .. MaxDepth + 1 |-> w[k].now]
  BY DEF Layers, Walk, IsWalk, WalkStep
<1>2. MaxDepth + 1 \in Nat
  BY GraphAssumption
<1>3. IsWalk(E, roots, M, MaxDepth + 1, w)
  <2>1. \E x : IsWalk(E, roots, M, MaxDepth + 1, x)
    BY <1>2, WalkExists
  <2> QED BY <2>1 DEF Walk
<1> HIDE DEF w
<1>4. ASSUME NEW k \in 0 .. MaxDepth + 1
      PROVE  w[k] = WalkStep(E, roots, M, w, k)
  BY <1>3 DEF IsWalk
<1>5. \A k \in 0 .. MaxDepth + 1 : Layers(E, roots, M)[k] = w[k].now
  BY <1>1
<1>6. Layers(E, roots, M)[0] = roots
  <2>1. 0 \in 0 .. MaxDepth + 1
    BY <1>2
  <2>2. w[0] = WalkStep(E, roots, M, w, 0) /\ Layers(E, roots, M)[0] = w[0].now
    BY <1>4, <1>5, <2>1
  <2> QED BY <2>2 DEF WalkStep
<1> QED BY <1>4, <1>5, <1>6 DEF w

\* Whatever a walk has seen, it met in some layer.
LEMMA SeenWasMet ==
    ASSUME NEW E, NEW roots, NEW M, NEW k \in 0 .. MaxDepth + 1,
           NEW s \in Walk(E, roots, M)[k].seen
    PROVE  \E j \in 0 .. k : s \in Layers(E, roots, M)[j]
<1> DEFINE w == Walk(E, roots, M)
           Unmet == {i \in 0 .. MaxDepth + 1 :
                       \E t \in w[i].seen : \A j \in 0 .. i : t \notin Layers(E, roots, M)[j]}
<1>1. /\ \A i \in 0 .. MaxDepth + 1 :
            /\ w[i] = WalkStep(E, roots, M, w, i)
            /\ Layers(E, roots, M)[i] = w[i].now
      /\ MaxDepth \in Nat
  BY LayersAreWalked, GraphAssumption
<1> HIDE DEF w
<1> SUFFICES ASSUME Unmet # {} PROVE FALSE
  BY DEF w
<1>2. PICK i \in Unmet : \A j \in Unmet : i <= j
  <2>1. Unmet \in SUBSET Nat
    BY <1>1
  <2> HIDE DEF Unmet
  <2> QED BY <2>1, LeastExists, Zenon
<1>3. PICK t \in w[i].seen : \A j \in 0 .. i : t \notin Layers(E, roots, M)[j]
  BY <1>2
<1>4. i \in 0 .. MaxDepth + 1 /\ i \in Nat
  BY <1>1, <1>2
<1>5. w[i] = WalkStep(E, roots, M, w, i) /\ t \notin w[i].now
  BY <1>1, <1>3, <1>4
<1>6. i # 0
  BY <1>3, <1>5 DEF WalkStep
<1>7. t \in w[i - 1].seen
  BY <1>3, <1>5, <1>6 DEF WalkStep
<1>8. i - 1 \in 0 .. MaxDepth + 1 /\ i - 1 \notin Unmet
  BY <1>1, <1>2, <1>4, <1>6
<1>9. PICK j \in 0 .. i - 1 : t \in Layers(E, roots, M)[j]
  BY <1>7, <1>8
<1> QED BY <1>3, <1>4, <1>9

\* The dependents of a marked node are in the layers up to the next one.
LEMMA DependentsAreMet ==
    ASSUME NEW E, NEW roots, NEW M, NEW k \in 0 .. MaxDepth,
           NEW x \in Layers(E, roots, M)[k] \cap M, NEW s \in Dependents(E, x)
    PROVE  \E j \in 0 .. k + 1 : s \in Layers(E, roots, M)[j]
<1> DEFINE w == Walk(E, roots, M)
<1>1. k \in 0 .. MaxDepth + 1 /\ k + 1 \in 0 .. MaxDepth + 1 /\ k + 1 # 0
      /\ (k + 1) - 1 = k
  BY GraphAssumption
<1>2. /\ w[k + 1] = WalkStep(E, roots, M, w, k + 1)
      /\ Layers(E, roots, M)[k] = w[k].now
  BY <1>1, LayersAreWalked
<1> HIDE DEF w
<1>3. s \in UNION {Dependents(E, m) : m \in w[k].now \cap M}
  BY <1>2
<1>4. s \in w[k + 1].seen
  BY <1>1, <1>2, <1>3 DEF WalkStep
<1> QED BY <1>1, <1>4, SeenWasMet DEF w

\* A node met within the depth bound, or just past it, is marked, is history,
\* or is deferred.
LEMMA MetIsReached ==
    ASSUME NEW E, NEW roots, NEW d \in {0, 1}, NEW st, IsFiniteSet(present),
           NEW c \in Cascades(E, roots, d, st)
    PROVE  /\ \A s \in roots \cap Id : s \in c.marked \cup Skipped(st) \cup c.deferred
           /\ \A x \in c.marked : \A s \in Dependents(E, x) \cap Id :
                 s \in c.marked \cup Skipped(st) \cup c.deferred
<1> DEFINE last == MaxDepth - d
           L(M) == Layers(E, roots, M)
           out(M, S) == [marked |-> M, deferred |-> Postponed(M, S, L(M), last, st)]
<1>1. PICK M \in SUBSET (present \ Skipped(st)), S \in SUBSET Skipped(st) :
         MayMark(M, L(M), last, st) /\ c = out(M, S)
  BY Zenon DEF Cascades
<1> DEFINE layer == L(M)
<1>2. c.marked = M /\ c.deferred = Postponed(M, S, layer, last, st)
  BY <1>1
<1>3. MayMark(M, layer, last, st)
  BY <1>1
<1>4. last \in Nat /\ last <= MaxDepth /\ MaxDepth \in Nat /\ MaxCascade \in Nat
  BY GraphAssumption
<1>5. Cardinality(M) \in Nat
  <2>1. IsFiniteSet(M)
    BY FS_Subset
  <2> QED BY <2>1, FS_CardinalityType
<1>6. layer[0] = roots
  BY LayersAreWalked
<1>7. \A k \in 0 .. MaxDepth : \A x \in layer[k] \cap M : \A s \in Dependents(E, x) :
         \E j \in 0 .. k + 1 : s \in layer[j]
  BY DependentsAreMet
<1> HIDE DEF last, layer
<1>8. ASSUME NEW j \in 0 .. last + 1, NEW s \in layer[j] \cap Id,
             s \notin M, s \notin Skipped(st)
      PROVE  s \in Postponed(M, S, layer, last, st)
  <2>1. CASE j = last + 1
    BY <2>1, <1>8 DEF Postponed
  <2>2. CASE j \in 0 .. last
    <3>1. Cardinality(M) <= MaxCascade
      BY <1>3 DEF MayMark
    <3>2. ~ (layer[j] \ Skipped(st) \subseteq M)
      BY <1>8
    <3>3. ~ (Cardinality(M) < MaxCascade \/ \E i \in j + 1 .. last : M \cap layer[i] # {})
      BY <1>3, <2>2, <3>2 DEF MayMark
    <3>4. Cardinality(M) = MaxCascade
      BY <1>4, <1>5, <3>1, <3>3
    <3>5. \A i \in j + 1 .. last : M \cap layer[i] = {}
      BY <3>3
    <3>6. M \cap layer[j] = {} => \A i \in j .. last : M \cap layer[i] = {}
      BY <1>4, <2>2, <3>5
    <3> QED BY <1>8, <2>2, <3>4, <3>5, <3>6 DEF Postponed
  <2> QED BY <1>4, <2>1, <2>2
<1>9. \A s \in roots \cap Id : s \in c.marked \cup Skipped(st) \cup c.deferred
  BY <1>2, <1>4, <1>6, <1>8
<1>10. ASSUME NEW x \in c.marked, NEW s \in Dependents(E, x) \cap Id
       PROVE  s \in c.marked \cup Skipped(st) \cup c.deferred
  <2>1. PICK k \in 0 .. last : x \in layer[k]
    BY <1>2, <1>3 DEF MayMark
  <2>2. k \in 0 .. MaxDepth /\ x \in layer[k] \cap M
    BY <1>2, <1>4, <2>1
  <2>3. PICK j \in 0 .. k + 1 : s \in layer[j]
    BY <1>7, <1>10, <2>2
  <2>4. j \in 0 .. last + 1
    BY <1>4, <2>1
  <2> QED BY <1>2, <1>8, <1>10, <2>3, <2>4
<1> QED BY <1>9, <1>10
-----------------------------------------------------------------------------
SameHistory(st) == \A m \in Id : st[m] = "superseded" <=> status[m] = "superseded"

Admits(n) ==
    /\ present' = present \cup {n}
    /\ \A m \in Id \ {n} : status'[m] = "superseded" <=> status[m] = "superseded"
    /\ status'[n] # "superseded"
    /\ live' = Joined(n)
    /\ supersededBy' = [supersededBy EXCEPT ![n] = NoId]
    /\ edges \subseteq edges'
    /\ \/ n \in Sourced
       \/ \E d \in present : \E e \in edges' :
             e.src = n /\ e.dst = d /\ IsDependency(e)

Revises(old, new) ==
    /\ present' = present
    /\ old \in present /\ new \in present /\ old # new
    /\ status[new] # "superseded"
    /\ \A m \in Id : status'[m] = "superseded"
                       <=> (m = old \/ status[m] = "superseded")
    /\ live' = Departed(old)
    /\ supersededBy' = [supersededBy EXCEPT ![old] = new]
    /\ edges \subseteq edges'

LeavesHistory ==
    /\ present' = present
    /\ SameHistory(status')
    /\ live' = live
    /\ supersededBy' = supersededBy
    /\ edges \subseteq edges'

LEMMA UpsertAdmits ==
    ASSUME TypeOK, NEW n \in Id, NEW D \in SUBSET Id, Upsert(n, D)
    PROVE  TypeOK' /\ Admits(n)
<1> USE GraphAssumption
<1> DEFINE born == [status EXCEPT ![n] = BirthStatus(n)]
           roots == IF n \in present /\ (D # deps[n] \/ n \in drifted)
                    THEN Dependents(edges, n) ELSE {}
<1>1. born \in [Id -> Status] /\ born[n] # "superseded"
      /\ \A m \in Id \ {n} : born[m] = status[m]
  <2>1. BirthStatus(n) \in {"fresh", "unresolved"} /\ status \in [Id -> Status]
    BY DEF BirthStatus, TypeOK
  <2> QED BY <2>1 DEF Status
<1>2. PICK c \in Cascades(edges, roots, 1, born) :
         status' = Stale(born, c) /\ pending' = pending \cup c.deferred
  BY Zenon DEF Upsert
<1> HIDE DEF born, roots
<1>3. c.marked \cap Skipped(born) = {} /\ c.deferred \subseteq Id
  BY <1>2, CascadeBounds, Zenon
<1>4. /\ status' \in [Id -> Status]
      /\ \A m \in Id : status'[m] = "superseded" <=> born[m] = "superseded"
  BY <1>1, <1>2, <1>3, StaleKeepsHistory
<1>5. pending' \subseteq Id
  BY <1>2, <1>3 DEF TypeOK
<1>6. edges' = edges \cup DependencyEdges(n, D \cap present') /\ present' = present \cup {n}
  BY DEF Upsert
<1>7. DependencyEdges(n, D \cap present') \subseteq Edge
  BY DEF DependencyEdges, Edge, EdgeType
<1>8. TypeOK'
  <2>1. present' \subseteq Id /\ edges' \subseteq Edge
    BY <1>6, <1>7 DEF TypeOK
  <2>2. deps' \in [Id -> SUBSET Id] /\ contradicts' \in [Id -> SUBSET Id]
        /\ supersededBy' \in [Id -> Id \cup {NoId}]
        /\ correctedBy' \in [Id -> SUBSET Id]
    BY DEF TypeOK, Upsert
  <2>3. live' \in [Key -> SUBSET Id]
    BY DEF TypeOK, Upsert, Joined
  <2>4. orphaned' \subseteq Id /\ drifted' \subseteq Id
        /\ draining' \subseteq Id /\ planning' \in BOOLEAN
    BY DEF TypeOK, Upsert
  <2> QED BY <1>4, <1>5, <2>1, <2>2, <2>3, <2>4 DEF TypeOK
<1>9. n \in Sourced \/ \E d \in present : \E e \in edges' :
                          e.src = n /\ e.dst = d /\ IsDependency(e)
  <2>1. CASE n \in Sourced
    BY <2>1
  <2>2. CASE n \notin Sourced
    <3>1. PICK d \in D \cap present : TRUE
      BY <2>2 DEF Upsert, Grounded
    <3> DEFINE e == [src |-> n, dst |-> d,
                     kind |-> IF Kind[n] = "claim" THEN "supports" ELSE "derived_from"]
    <3>2. e \in edges'
      BY <1>6, <3>1 DEF DependencyEdges
    <3>3. e.src = n /\ e.dst = d /\ IsDependency(e)
      BY DEF IsDependency
    <3> QED BY <3>1, <3>2, <3>3
  <2> QED BY <2>1, <2>2
<1>10. live' = Joined(n) /\ supersededBy' = [supersededBy EXCEPT ![n] = NoId]
  BY DEF Upsert
<1> QED BY <1>1, <1>4, <1>6, <1>8, <1>9, <1>10 DEF Admits

LEMMA SupersedeRevises ==
    ASSUME TypeOK, NEW old \in Id, NEW new \in Id, Rivals(old, new),
           Supersede(old, new)
    PROVE  TypeOK' /\ Revises(old, new)
<1> USE GraphAssumption
<1> DEFINE marked == [status EXCEPT ![old] = "superseded"]
           revised == Settled(new, contradicts[new] \ {old}, marked)
<1>1. /\ marked \in [Id -> Status]
      /\ \A m \in Id : marked[m] = "superseded"
                          <=> (m = old \/ status[m] = "superseded")
  BY DEF TypeOK, Status
<1>2. /\ revised \in [Id -> Status]
      /\ \A m \in Id : revised[m] = "superseded" <=> marked[m] = "superseded"
  <2> HIDE DEF marked
  <2> QED BY <1>1, SettledKeepsHistory
<1>3. PICK c \in Cascades(edges', Dependents(edges', old), 1, revised) :
         status' = Stale(revised, c) /\ pending' = pending \cup c.deferred
  BY Zenon DEF Supersede
<1> HIDE DEF revised, marked
<1>4. c.marked \cap Skipped(revised) = {} /\ c.deferred \subseteq Id
  BY <1>3, CascadeBounds, Zenon
<1>5. /\ status' \in [Id -> Status]
      /\ \A m \in Id : status'[m] = "superseded" <=> revised[m] = "superseded"
  BY <1>2, <1>3, <1>4, StaleKeepsHistory
<1>6. edges' = edges \cup {[src |-> new, dst |-> old, kind |-> "supersedes"]}
      /\ present' = present
  BY DEF Supersede
<1>7. TypeOK'
  <2>1. edges' \subseteq Edge /\ present' \subseteq Id
    BY <1>6 DEF TypeOK, Edge, EdgeType
  <2>2. deps' \in [Id -> SUBSET Id] /\ contradicts' \in [Id -> SUBSET Id]
        /\ supersededBy' \in [Id -> Id \cup {NoId}]
    BY DEF TypeOK, Supersede
  <2>3. live' \in [Key -> SUBSET Id]
    BY DEF TypeOK, Supersede, Departed
  <2>4. correctedBy' \in [Id -> SUBSET Id]
    BY DEF TypeOK, Supersede, Announced
  <2>5. orphaned' \subseteq Id
    BY DEF TypeOK, Supersede, EvidenceOf
  <2>6. pending' \subseteq Id
    BY <1>3, <1>4 DEF TypeOK
  <2>7. drifted' \subseteq Id /\ draining' \subseteq Id /\ planning' \in BOOLEAN
    BY DEF TypeOK, Supersede
  <2> QED BY <1>5, <2>1, <2>2, <2>3, <2>4, <2>5, <2>6, <2>7 DEF TypeOK
<1>8. \A m \in Id : status'[m] = "superseded"
                       <=> (m = old \/ status[m] = "superseded")
  BY <1>1, <1>2, <1>5
<1>9. old \in present /\ new \in present /\ old # new /\ status[new] # "superseded"
  BY DEF Rivals
<1>10. live' = Departed(old) /\ supersededBy' = [supersededBy EXCEPT ![old] = new]
  BY DEF Supersede
<1> QED BY <1>6, <1>7, <1>8, <1>9, <1>10 DEF Revises

\* A cascade from present state that changes nothing else, as the hook of a
\* turn and the drain perform it.
LEMMA CascadeLeavesHistory ==
    ASSUME TypeOK, NEW n \in Id, NEW c \in Cascades(edges, {n}, 0, status),
           status' = Stale(status, c), pending' = pending \cup c.deferred
    PROVE  /\ status' \in [Id -> Status] /\ SameHistory(status')
           /\ pending' \subseteq Id
<1>1. c.marked \cap Skipped(status) = {} /\ c.deferred \subseteq Id
  BY CascadeBounds, Zenon
<1>2. status \in [Id -> Status] /\ pending \subseteq Id
  BY DEF TypeOK
<1> QED BY <1>1, <1>2, StaleKeepsHistory DEF SameHistory

LEMMA StepShapes ==
    ASSUME TypeOK, [Next]_vars
    PROVE  /\ TypeOK'
           /\ \/ \E n \in Id : Admits(n)
              \/ \E old, new \in Id : Revises(old, new)
              \/ LeavesHistory
<1> USE GraphAssumption
<1>1. ASSUME NEW n \in Offered, NEW D \in DepChoices[n], Upsert(n, D)
      PROVE  TypeOK' /\ \E m \in Id : Admits(m)
  <2>1. n \in Id /\ D \in SUBSET Id
    BY <1>1 DEF Offered
  <2> QED BY <1>1, <2>1, UpsertAdmits
<1>2. ASSUME NEW a \in Id, NEW b \in Id, Rivals(a, b), Contradict(a, b)
      PROVE  TypeOK' /\ LeavesHistory
  <2>1. /\ status' \in [Id -> Status] /\ SameHistory(status')
    BY <1>2 DEF TypeOK, Contradict, Status, SameHistory
  <2>2. edges' \subseteq Edge /\ edges \subseteq edges'
    BY <1>2 DEF TypeOK, Contradict, Edge, EdgeType
  <2>3. contradicts' \in [Id -> SUBSET Id]
    BY <1>2 DEF TypeOK, Contradict
  <2> QED BY <1>2, <2>1, <2>2, <2>3
          DEF TypeOK, LeavesHistory, Contradict, queueVars
<1>3. ASSUME NEW old \in Id, NEW new \in Id, Rivals(old, new), Supersede(old, new)
      PROVE  TypeOK' /\ \E o, n \in Id : Revises(o, n)
  BY <1>3, SupersedeRevises
<1>4. ASSUME NEW n \in present, Invalidate(n)
      PROVE  TypeOK' /\ LeavesHistory
  <2>1. PICK c \in Cascades(edges, {n}, 0, status) :
           status' = Stale(status, c) /\ pending' = pending \cup c.deferred
    BY <1>4, Zenon DEF Invalidate
  <2>2. n \in Id
    BY DEF TypeOK
  <2>3. /\ status' \in [Id -> Status] /\ SameHistory(status')
        /\ pending' \subseteq Id
    BY <2>1, <2>2, CascadeLeavesHistory
  <2> QED BY <1>4, <2>3 DEF TypeOK, LeavesHistory, Invalidate
<1>5. ASSUME NEW n \in present, status[n] = "stale", Revalidate(n)
      PROVE  TypeOK' /\ LeavesHistory
  <2>1. /\ status' \in [Id -> Status] /\ SameHistory(status')
    BY <1>5 DEF TypeOK, Revalidate, Status, SameHistory
  <2>2. live' = live /\ drifted' \subseteq Id
    BY <1>5 DEF TypeOK, Revalidate
  <2> QED BY <1>5, <2>1, <2>2 DEF TypeOK, LeavesHistory, Revalidate, queueVars
<1>6. ASSUME NEW plan \in BOOLEAN, BeginDrain(plan)
      PROVE  TypeOK' /\ LeavesHistory
  <2>1. pending' \subseteq Id /\ draining' \subseteq Id /\ planning' \in BOOLEAN
    BY <1>6 DEF BeginDrain, Popped, TypeOK
  <2>2. UNCHANGED <<present, edges, live, status, deps, contradicts, supersededBy,
                    orphaned, correctedBy, drifted>>
    BY <1>6 DEF BeginDrain, nodeVars
  <2>3. TypeOK'
    BY <2>1, <2>2 DEF TypeOK
  <2> QED BY <2>2, <2>3 DEF LeavesHistory, SameHistory
<1>7. ASSUME DrainStep
      PROVE  TypeOK' /\ LeavesHistory
  <2>1. PICK n \in draining : \E c \in Cascades(edges, {n}, 0, status) :
           /\ draining' = draining \ {n}
           /\ status' = Stale(status, c) /\ pending' = pending \cup c.deferred
    BY <1>7, Zenon DEF DrainStep
  <2>2. n \in Id
    BY DEF TypeOK
  <2>3. /\ status' \in [Id -> Status] /\ SameHistory(status')
        /\ pending' \subseteq Id
    BY <2>1, <2>2, CascadeLeavesHistory
  <2> QED BY <1>7, <2>1, <2>3 DEF TypeOK, LeavesHistory, DrainStep
<1>8. ASSUME TakeSnapshot \/ UNCHANGED vars
      PROVE  TypeOK' /\ LeavesHistory
  <2>1. /\ UNCHANGED <<present, edges, live, status, deps, contradicts, supersededBy,
                       orphaned, correctedBy, drifted, pending, draining>>
        /\ planning' \in {FALSE, planning}
    BY <1>8 DEF TakeSnapshot, nodeVars, queueVars, vars
  <2>2. TypeOK'
    BY <2>1 DEF TypeOK
  <2> QED BY <2>1, <2>2 DEF LeavesHistory, SameHistory
<1>9. ASSUME NEW m \in present, NEW n \in present, Corroborate(m, n) \/ Refer(m, n)
      PROVE  TypeOK' /\ LeavesHistory
  <2>1. m \in Id /\ n \in Id
    BY DEF TypeOK
  <2>2. PICK k \in {"supports", "derived_from"} :
           edges' = edges \cup {[src |-> m, dst |-> n, kind |-> k]}
    BY <1>9 DEF Corroborate, Refer
  <2>3. edges' \subseteq Edge /\ edges \subseteq edges'
    BY <2>1, <2>2 DEF TypeOK, Edge, EdgeType
  <2>4. deps' \in [Id -> SUBSET Id]
    BY <1>9, <2>1 DEF TypeOK, Corroborate, Refer
  <2> QED BY <1>9, <2>3, <2>4
          DEF TypeOK, LeavesHistory, SameHistory, Corroborate, Refer, queueVars
<1> QED BY <1>1, <1>2, <1>3, <1>4, <1>5, <1>6, <1>7, <1>8, <1>9 DEF Next

-----------------------------------------------------------------------------
\* Every variable keeps its type.
THEOREM TypeCorrect == Spec => []TypeOK
<1>1. ASSUME Init PROVE TypeOK
  <2>1. /\ status \in [Id -> Status] /\ deps \in [Id -> SUBSET Id]
        /\ live \in [Key -> SUBSET Id] /\ contradicts \in [Id -> SUBSET Id]
    BY <1>1 DEF Init, Status
  <2>2. supersededBy \in [Id -> Id \cup {NoId}] /\ correctedBy \in [Id -> SUBSET Id]
    BY <1>1 DEF Init
  <2> QED BY <1>1, <2>1, <2>2 DEF Init, TypeOK
<1>2. TypeOK /\ [Next]_vars => TypeOK'
  BY StepShapes, Zenon
<1> QED BY <1>1, <1>2, PTL DEF Spec

LEMMA LiveIndexStays == TypeOK /\ LiveIndexExact /\ [Next]_vars => LiveIndexExact'
<1> SUFFICES ASSUME TypeOK, LiveIndexExact, [Next]_vars, NEW k \in Key
             PROVE  live'[k] = {n \in present' : KeyOf[n] = k
                                                /\ status'[n] # "superseded"}
  BY DEF LiveIndexExact, ByKey
<1>1. live[k] = {n \in present : KeyOf[n] = k /\ status[n] # "superseded"}
  BY DEF LiveIndexExact, ByKey
<1>2. ASSUME NEW n \in Id, Admits(n) PROVE
      live'[k] = {m \in present' : KeyOf[m] = k /\ status'[m] # "superseded"}
  <2>1. live'[k] = IF k = KeyOf[n] THEN live[k] \cup {n} ELSE live[k]
    BY <1>2 DEF Admits, Joined
  <2>2. present' = present \cup {n} /\ status'[n] # "superseded"
    BY <1>2 DEF Admits
  <2>3. \A m \in present \ {n} : status'[m] = "superseded" <=> status[m] = "superseded"
    BY <1>2 DEF Admits, TypeOK
  <2> QED BY <1>1, <2>1, <2>2, <2>3
<1>3. ASSUME NEW old \in Id, NEW new \in Id, Revises(old, new) PROVE
      live'[k] = {m \in present' : KeyOf[m] = k /\ status'[m] # "superseded"}
  <2>1. live'[k] = live[k] \ {old}
    BY <1>3 DEF Revises, Departed
  <2>2. \A m \in present : status'[m] = "superseded"
                             <=> (m = old \/ status[m] = "superseded")
    BY <1>3 DEF Revises, TypeOK
  <2>3. present' = present
    BY <1>3 DEF Revises
  <2> QED BY <1>1, <2>1, <2>2, <2>3
<1>4. ASSUME LeavesHistory PROVE
      live'[k] = {m \in present' : KeyOf[m] = k /\ status'[m] # "superseded"}
  BY <1>1, <1>4 DEF LeavesHistory, SameHistory, TypeOK
<1> QED BY <1>2, <1>3, <1>4, StepShapes

\* live_by_key is by_key without what is superseded, although three places
\* maintain it.
THEOREM LiveIndexIsExact == Spec => []LiveIndexExact
<1>1. Init => LiveIndexExact
  BY DEF Init, LiveIndexExact, ByKey
<1>2. TypeOK /\ LiveIndexExact /\ [Next]_vars => LiveIndexExact'
  BY LiveIndexStays
<1> QED BY <1>1, <1>2, TypeCorrect, PTL DEF Spec

LEMMA GroundingStays == TypeOK /\ GroundedInEvidence /\ [Next]_vars => GroundedInEvidence'
<1> DEFINE Closed(S, P, E) ==
      \A n \in P : (n \in Sourced
                      \/ \E e \in E : e.src = n /\ IsDependency(e) /\ e.dst \in S)
                    => n \in S
<1> SUFFICES ASSUME TypeOK, GroundedInEvidence, [Next]_vars,
                    NEW S \in SUBSET Id, Closed(S, present', edges')
             PROVE  present' \subseteq S
  BY DEF GroundedInEvidence
<1>1. ASSUME present \subseteq present', edges \subseteq edges'
      PROVE  present \subseteq S
  <2>1. Closed(S, present, edges)
    BY <1>1
  <2> QED BY <2>1 DEF GroundedInEvidence
<1>2. ASSUME NEW n \in Id, Admits(n) PROVE present' \subseteq S
  <2>1. present \subseteq S /\ present' = present \cup {n}
    BY <1>1, <1>2 DEF Admits
  <2>2. n \in S
    BY <1>2, <2>1 DEF Admits
  <2> QED BY <2>1, <2>2
<1>3. ASSUME NEW old \in Id, NEW new \in Id, Revises(old, new)
      PROVE  present' \subseteq S
  BY <1>1, <1>3 DEF Revises
<1>4. ASSUME LeavesHistory PROVE present' \subseteq S
  BY <1>1, <1>4 DEF LeavesHistory
<1> QED BY <1>2, <1>3, <1>4, StepShapes

\* Every node reaches evidence over dependency edges, however deep the
\* derivation: the one-step check of upsert() is enough.
THEOREM AllGrounded == Spec => []GroundedInEvidence
<1>1. Init => GroundedInEvidence
  BY DEF Init, GroundedInEvidence
<1>2. TypeOK /\ GroundedInEvidence /\ [Next]_vars => GroundedInEvidence'
  BY GroundingStays
<1> QED BY <1>1, <1>2, TypeCorrect, PTL DEF Spec

LEMMA HistoryStaysNamed == TypeOK /\ SupersededIffCorrected /\ [Next]_vars => SupersededIffCorrected'
<1> SUFFICES ASSUME TypeOK, SupersededIffCorrected, [Next]_vars
             PROVE  SupersededIffCorrected'
  OBVIOUS
<1>1. ASSUME NEW n \in Id, Admits(n) PROVE SupersededIffCorrected'
  BY <1>1 DEF Admits, SupersededIffCorrected, TypeOK
<1>2. ASSUME NEW old \in Id, NEW new \in Id, Revises(old, new)
      PROVE  SupersededIffCorrected'
  BY <1>2, GraphAssumption DEF Revises, SupersededIffCorrected, TypeOK
<1>3. ASSUME LeavesHistory PROVE SupersededIffCorrected'
  BY <1>3 DEF LeavesHistory, SameHistory, SupersededIffCorrected, TypeOK
<1> QED BY <1>1, <1>2, <1>3, StepShapes

\* Exactly the superseded nodes name what replaced them.
THEOREM HistoryNamesCorrection == Spec => []SupersededIffCorrected
<1>1. Init => SupersededIffCorrected
  BY DEF Init, SupersededIffCorrected
<1>2. TypeOK /\ SupersededIffCorrected /\ [Next]_vars => SupersededIffCorrected'
  BY HistoryStaysNamed
<1> QED BY <1>1, <1>2, TypeCorrect, PTL DEF Spec

LEMMA CorrectionsStayLive == TypeOK /\ CorrectionChainEndsLive /\ [Next]_vars => CorrectionChainEndsLive'
<1> DEFINE Closed(S, P, st, by) ==
      /\ {n \in P : st[n] # "superseded"} \subseteq S
      /\ \A n \in P : by[n] \in S => n \in S
<1> SUFFICES ASSUME TypeOK, CorrectionChainEndsLive, [Next]_vars,
                    NEW S \in SUBSET Id, Closed(S, present', status', supersededBy')
             PROVE  present' \subseteq S
  BY DEF CorrectionChainEndsLive
<1>1. Closed(S, present, status, supersededBy) => present \subseteq S
  BY DEF CorrectionChainEndsLive
<1>2. ASSUME NEW n \in Id, Admits(n) PROVE present' \subseteq S
  <2>1. n \in S /\ present' = present \cup {n}
    BY <1>2 DEF Admits
  <2>2. Closed(S, present, status, supersededBy)
    BY <1>2, <2>1 DEF Admits, TypeOK
  <2> QED BY <1>1, <2>1, <2>2
<1>3. ASSUME NEW old \in Id, NEW new \in Id, Revises(old, new)
      PROVE  present' \subseteq S
  <2>1. new \in S /\ present' = present
    BY <1>3 DEF Revises
  <2>2. old \in S
    BY <1>3, <2>1 DEF Revises, TypeOK
  <2>3. Closed(S, present, status, supersededBy)
    BY <1>3, <2>1, <2>2 DEF Revises, TypeOK
  <2> QED BY <1>1, <2>1, <2>3
<1>4. ASSUME LeavesHistory PROVE present' \subseteq S
  BY <1>1, <1>4 DEF LeavesHistory, SameHistory, TypeOK
<1> QED BY <1>2, <1>3, <1>4, StepShapes

\* Following corrections from any superseded node ends at a node that is not
\* superseded, however often old values are asserted again and corrected.
THEOREM CorrectionsEnd == Spec => []CorrectionChainEndsLive
<1>1. Init => CorrectionChainEndsLive
  BY DEF Init, CorrectionChainEndsLive
<1>2. TypeOK /\ CorrectionChainEndsLive /\ [Next]_vars => CorrectionChainEndsLive'
  BY CorrectionsStayLive
<1> QED BY <1>1, <1>2, TypeCorrect, PTL DEF Spec

\* History is kept as history and every correction leads to a node that holds:
\* both halves of what the run checks as one property.
THEOREM CorrectionsKept == Spec => []CorrectionsAreKept
<1>1. SupersededIffCorrected /\ CorrectionChainEndsLive => CorrectionsAreKept
  BY DEF CorrectionsAreKept
<1> QED BY <1>1, HistoryNamesCorrection, CorrectionsEnd, PTL

-----------------------------------------------------------------------------
(* What a step tells the dependents of the node it changes.                *)

PresentFinite == IsFiniteSet(present)

LEMMA PresentStaysFinite == Spec => []PresentFinite
<1>1. Init => PresentFinite
  BY FS_EmptySet DEF Init, PresentFinite
<1>2. TypeOK /\ PresentFinite /\ [Next]_vars => PresentFinite'
  BY StepShapes, FS_AddElement DEF Admits, Revises, LeavesHistory, PresentFinite
<1> QED BY <1>1, <1>2, TypeCorrect, PTL DEF Spec

\* s has been told that something it was derived from no longer holds.
Told(s) ==
    \/ Kind[s] = "evidence"
    \/ status'[s] \in {"stale", "superseded"}
    \/ s \in pending'

LEMMA CascadeTells ==
    ASSUME IsFiniteSet(present), NEW E \in SUBSET Edge, NEW roots \in SUBSET Id,
           NEW d \in {0, 1}, NEW st \in [Id -> Status],
           NEW c \in Cascades(E, roots, d, st),
           status' = Stale(st, c), pending' = pending \cup c.deferred
    PROVE  /\ \A s \in roots : Told(s)
           /\ \A x \in Id : status'[x] # st[x] => \A s \in Dependents(E, x) : Told(s)
<1>1. \A x : Dependents(E, x) \subseteq Id
  BY DEF Dependents, Edge
<1>2. c.marked \cap Skipped(st) = {}
  BY CascadeBounds, Zenon
<1>3. \A s \in roots \cap Id : s \in c.marked \cup Skipped(st) \cup c.deferred
  BY MetIsReached, Zenon
<1>4. \A x \in c.marked : \A s \in Dependents(E, x) \cap Id :
         s \in c.marked \cup Skipped(st) \cup c.deferred
  BY MetIsReached, Zenon
<1>5. ASSUME NEW s \in Id, s \in c.marked \cup Skipped(st) \cup c.deferred
      PROVE  Told(s)
  BY <1>2, <1>5 DEF Told, Stale, Skipped
<1>6. ASSUME NEW x \in Id, status'[x] # st[x]
      PROVE  x \in c.marked
  BY <1>6 DEF Stale
<1> QED BY <1>1, <1>3, <1>4, <1>5, <1>6

\* The step has told every direct dependent of each node it changed.
Changes(x) ==
    \/ status'[x] # status[x] /\ status'[x] \in {"stale", "superseded"}
    \/ deps[x] \ deps'[x] # {}
Reaches ==
    \A x \in present : Changes(x) => \A s \in Dependents(edges, x) : Told(s)

LEMMA StepReaches == TypeOK /\ PresentFinite /\ [Next]_vars => [Reaches]_vars
<1> SUFFICES ASSUME TypeOK, IsFiniteSet(present), Next PROVE Reaches
  BY DEF PresentFinite
<1> USE GraphAssumption DEF Reaches, Changes
<1>1. ASSUME NEW n \in Offered, NEW D \in DepChoices[n], Upsert(n, D)
      PROVE  Reaches
  <2> DEFINE born == [status EXCEPT ![n] = BirthStatus(n)]
             changed == n \in present /\ (D # deps[n] \/ n \in drifted)
             roots == IF changed THEN Dependents(edges, n) ELSE {}
  <2>1. n \in Id /\ status \in [Id -> Status] /\ edges \in SUBSET Edge
    BY DEF Offered, TypeOK
  <2>2. born \in [Id -> Status] /\ born[n] \notin {"stale", "superseded"}
        /\ \A m \in Id \ {n} : born[m] = status[m]
    BY <2>1 DEF BirthStatus, Status
  <2>3. roots \in SUBSET Id
    BY <2>1 DEF Dependents, Edge
  <2>4. PICK c \in Cascades(edges, roots, 1, born) :
           status' = Stale(born, c) /\ pending' = pending \cup c.deferred
    BY <1>1, Zenon DEF Upsert
  <2>5. \A m \in Id \ {n} : deps'[m] = deps[m]
    BY <1>1 DEF Upsert, TypeOK
  <2>6. n \in present /\ deps[n] \ deps'[n] # {} => roots = Dependents(edges, n)
    BY <1>1, <2>1 DEF Upsert, TypeOK
  <2> HIDE DEF born, roots
  <2>7. /\ \A s \in roots : Told(s)
        /\ \A x \in Id : status'[x] # born[x] =>
              \A s \in Dependents(edges, x) : Told(s)
    BY <2>1, <2>2, <2>3, <2>4, CascadeTells
  <2>8. present \subseteq Id
    BY DEF TypeOK
  <2> QED BY <2>2, <2>5, <2>6, <2>7, <2>8
<1>2. ASSUME NEW old \in Id, NEW new \in Id, Supersede(old, new)
      PROVE  Reaches
  <2> DEFINE marked == [status EXCEPT ![old] = "superseded"]
             revised == Settled(new, contradicts[new] \ {old}, marked)
  <2>1. edges' = edges \cup {[src |-> new, dst |-> old, kind |-> "supersedes"]}
        /\ deps' = deps
    BY <1>2 DEF Supersede
  <2>2. edges' \in SUBSET Edge
    BY <2>1 DEF TypeOK, Edge, EdgeType
  <2>3. marked \in [Id -> Status] /\ \A m \in Id \ {old} : marked[m] = status[m]
    BY DEF TypeOK, Status
  <2>4. revised \in [Id -> Status]
        /\ \A m \in Id : revised[m] = marked[m] \/ revised[m] = "fresh"
    BY <2>3 DEF Settled, Status
  <2>5. PICK c \in Cascades(edges', Dependents(edges', old), 1, revised) :
           status' = Stale(revised, c) /\ pending' = pending \cup c.deferred
    BY <1>2, Zenon DEF Supersede
  <2>6. Dependents(edges', old) \in SUBSET Id
        /\ \A x : Dependents(edges, x) \subseteq Dependents(edges', x)
    BY <2>1, <2>2 DEF Dependents, Edge
  <2> HIDE DEF marked, revised
  <2>7. /\ \A s \in Dependents(edges', old) : Told(s)
        /\ \A x \in Id : status'[x] # revised[x] =>
              \A s \in Dependents(edges', x) : Told(s)
    BY <2>2, <2>4, <2>5, <2>6, CascadeTells
  <2>8. present \subseteq Id
    BY DEF TypeOK
  <2> QED BY <2>1, <2>3, <2>4, <2>6, <2>7, <2>8
<1>3. ASSUME NEW n \in Id, NEW c \in Cascades(edges, {n}, 0, status),
             status' = Stale(status, c), pending' = pending \cup c.deferred,
             deps' = deps
      PROVE  Reaches
  <2>1. status \in [Id -> Status] /\ edges \in SUBSET Edge /\ present \subseteq Id
        /\ {n} \in SUBSET Id
    BY DEF TypeOK
  <2>2. \A x \in Id : status'[x] # status[x] =>
           \A s \in Dependents(edges, x) : Told(s)
    BY <1>3, <2>1, CascadeTells
  <2> QED BY <1>3, <2>1, <2>2
<1>4. ASSUME NEW n \in present, Invalidate(n)
      PROVE  Reaches
  BY <1>3, <1>4, Zenon DEF Invalidate, TypeOK
<1>5. ASSUME DrainStep
      PROVE  Reaches
  BY <1>3, <1>5, Zenon DEF DrainStep, TypeOK
<1>6. ASSUME NEW a \in Id, NEW b \in Id, Contradict(a, b)
      PROVE  Reaches
  BY <1>6 DEF Contradict, TypeOK
<1>7. ASSUME NEW m \in present, NEW n \in present, Corroborate(m, n) \/ Refer(m, n)
      PROVE  Reaches
  BY <1>7 DEF Corroborate, Refer, TypeOK
<1>8. ASSUME NEW n \in present, Revalidate(n)
      PROVE  Reaches
  BY <1>8 DEF Revalidate, TypeOK
<1>9. ASSUME (\E plan \in BOOLEAN : BeginDrain(plan)) \/ TakeSnapshot
      PROVE  Reaches
  BY <1>9 DEF BeginDrain, TakeSnapshot, nodeVars
<1> QED BY <1>1, <1>2, <1>4, <1>5, <1>6, <1>7, <1>8, <1>9 DEF Next

\* The bounded cascade defers and never forgets: whenever a node is superseded,
\* goes stale or is re-admitted without an input, each direct dependent is
\* stale, is history, or is queued, whatever the bounds and the order of the walk.
THEOREM CascadeIsNeverLost == Spec => CascadeReachesDependents
<1>1. [Reaches]_vars =>
         [\A d \in present :
             \/ status'[d] # status[d] /\ status'[d] \in {"stale", "superseded"}
             \/ deps[d] \ deps'[d] # {}
             => \A s \in Dependents(edges, d) :
                \/ Kind[s] = "evidence"
                \/ status'[s] \in {"stale", "superseded"}
                \/ s \in pending' \cup draining']_vars
  BY DEF Reaches, Changes, Told
<1> QED BY <1>1, StepReaches, TypeCorrect, PresentStaysFinite, PTL
        DEF Spec, CascadeReachesDependents

-----------------------------------------------------------------------------
(* What a revision tells the evidence of the value it replaces.            *)

EdgesJoinPresent == \A x \in edges : x.src \in present /\ x.dst \in present

LEMMA EdgesStayJoined ==
    ASSUME TypeOK, EdgesJoinPresent, [Next]_vars
    PROVE  EdgesJoinPresent'
<1> USE GraphAssumption
<1>1. ASSUME NEW n \in Offered, NEW D \in DepChoices[n], Upsert(n, D)
      PROVE  EdgesJoinPresent'
  BY <1>1 DEF EdgesJoinPresent, Upsert, DependencyEdges
<1>2. ASSUME NEW a \in Id, NEW b \in Id, Rivals(a, b),
             Contradict(a, b) \/ Supersede(a, b)
      PROVE  EdgesJoinPresent'
  BY <1>2 DEF EdgesJoinPresent, Rivals, Contradict, Supersede
<1>3. ASSUME NEW m \in present, NEW n \in present, Corroborate(m, n) \/ Refer(m, n)
      PROVE  EdgesJoinPresent'
  BY <1>3 DEF EdgesJoinPresent, Corroborate, Refer
<1>4. ASSUME edges' = edges, present' = present
      PROVE  EdgesJoinPresent'
  BY <1>4 DEF EdgesJoinPresent
<1> HIDE DEF EdgesJoinPresent
<1>5. ASSUME \/ \E n \in present : Invalidate(n) \/ Revalidate(n)
             \/ \E plan \in BOOLEAN : BeginDrain(plan)
             \/ DrainStep \/ TakeSnapshot \/ UNCHANGED vars
      PROVE  edges' = edges /\ present' = present
  BY <1>5 DEF Invalidate, Revalidate, BeginDrain, DrainStep, TakeSnapshot, vars
<1> QED BY <1>1, <1>2, <1>3, <1>4, <1>5 DEF Next

\* What the evidence of history depends on: which nodes depend on it, which of
\* them are superseded, and whether they still name it.
SameForHistory ==
    /\ present' = present /\ orphaned' = orphaned /\ SameHistory(status')
    /\ \A n, e \in Id : n \in Dependents(edges', e) \ Dependents(edges, e)
                          => status[n] # "superseded"
    /\ \A n \in Id : status[n] = "superseded" => deps'[n] = deps[n]
    /\ \A e \in Id : Dependents(edges, e) \subseteq Dependents(edges', e)
    /\ \A e \in Id : correctedBy'[e] = correctedBy[e]
    /\ supersededBy' = supersededBy

LEMMA HistoryShapes ==
    ASSUME TypeOK, Next
    PROVE  \/ \E n \in Offered, D \in SUBSET Id : Upsert(n, D)
           \/ \E old, new \in Id : Rivals(old, new) /\ Supersede(old, new)
           \/ SameForHistory
<1> USE GraphAssumption
<1>1. ASSUME NEW n \in Offered, NEW D \in DepChoices[n], Upsert(n, D)
      PROVE  \E m \in Offered, X \in SUBSET Id : Upsert(m, X)
  BY <1>1 DEF Offered
<1>2. ASSUME NEW a \in Id, NEW b \in Id, Rivals(a, b), Contradict(a, b)
      PROVE  SameForHistory
  <2>1. SameHistory(status')
    BY <1>2 DEF TypeOK, Contradict, Status, SameHistory
  <2>2. \A e : Dependents(edges', e) = Dependents(edges, e)
    BY <1>2 DEF Contradict, Dependents, IsDependency
  <2> QED BY <1>2, <2>1, <2>2 DEF Contradict, SameForHistory
<1>3. ASSUME NEW m \in present, NEW n \in present, Corroborate(m, n) \/ Refer(m, n)
      PROVE  SameForHistory
  <2>1. \A e : \A s \in Dependents(edges', e) \ Dependents(edges, e) : s = m
    BY <1>3 DEF Corroborate, Refer, Dependents
  <2>2. \A e : Dependents(edges, e) \subseteq Dependents(edges', e)
    BY <1>3 DEF Corroborate, Refer, Dependents
  <2>3. status[m] = "fresh" /\ \A s \in Id \ {m} : deps'[s] = deps[s]
    BY <1>3 DEF Corroborate, Refer, TypeOK
  <2> QED BY <1>3, <2>1, <2>2, <2>3
          DEF Corroborate, Refer, SameForHistory, SameHistory
<1>4. ASSUME NEW n \in Id, NEW c \in Cascades(edges, {n}, 0, status),
             status' = Stale(status, c), pending' = pending \cup c.deferred
      PROVE  SameHistory(status')
  BY <1>4, CascadeLeavesHistory
<1>5. ASSUME NEW n \in present, Invalidate(n)
      PROVE  SameForHistory
  <2>1. SameHistory(status')
    BY <1>4, <1>5, Zenon DEF Invalidate, TypeOK
  <2> QED BY <1>5, <2>1 DEF Invalidate, SameForHistory
<1>6. ASSUME DrainStep
      PROVE  SameForHistory
  <2>1. SameHistory(status')
    BY <1>4, <1>6, Zenon DEF DrainStep, TypeOK
  <2> QED BY <1>6, <2>1 DEF DrainStep, SameForHistory
<1>7. ASSUME NEW n \in present, status[n] = "stale", Revalidate(n)
      PROVE  SameForHistory
  <2>1. SameHistory(status')
    BY <1>7 DEF TypeOK, Revalidate, Status, SameHistory
  <2> QED BY <1>7, <2>1 DEF Revalidate, SameForHistory
<1>8. ASSUME (\E plan \in BOOLEAN : BeginDrain(plan)) \/ TakeSnapshot
      PROVE  SameForHistory
  BY <1>8 DEF BeginDrain, TakeSnapshot, nodeVars, SameForHistory, SameHistory
<1> QED BY <1>1, <1>2, <1>3, <1>5, <1>6, <1>7, <1>8 DEF Next

Forsaken(e) ==
    /\ Kind[e] = "evidence" /\ Dependents(edges, e) # {}
    /\ \A s \in Dependents(edges, e) : status[s] = "superseded" /\ e \in deps[s]

LEMMA OrphansStayFlagged ==
    ASSUME TypeOK, EdgesJoinPresent, OrphansAreFlagged, [Next]_vars
    PROVE  OrphansAreFlagged'
<1> USE GraphAssumption
<1>1. \A e \in present : Forsaken(e) => e \in orphaned
  BY DEF OrphansAreFlagged, Forsaken
<1>2. present \subseteq Id /\ edges \subseteq Edge
  BY DEF TypeOK
<1> SUFFICES ASSUME Next,
                    NEW e \in present', Kind[e] = "evidence", Dependents(edges', e) # {},
                    \A s \in Dependents(edges', e) :
                       status'[s] = "superseded" /\ e \in deps'[s]
             PROVE  e \in orphaned'
  <2>1. CASE UNCHANGED vars
    BY <2>1 DEF OrphansAreFlagged, vars, nodeVars
  <2>2. CASE Next
    BY <2>2 DEF OrphansAreFlagged
  <2> QED BY <2>1, <2>2
<1>3. ASSUME NEW n \in Offered, NEW D \in SUBSET Id, Upsert(n, D)
      PROVE  e \in orphaned'
  <2>1. n \in Id
    BY DEF Offered
  <2>2. Admits(n)
    BY <1>3, <2>1, UpsertAdmits
  <2>3. edges' = edges \cup DependencyEdges(n, D \cap present')
        /\ present' = present \cup {n} /\ status'[n] # "superseded"
    BY <1>3, <2>2 DEF Upsert, Admits
  <2>4. n \notin Dependents(edges', e)
    BY <2>3
  <2>5. e \notin D
    <3> SUFFICES ASSUME e \in D PROVE FALSE
      OBVIOUS
    <3> DEFINE x == [src |-> n, dst |-> e,
                     kind |-> IF Kind[n] = "claim" THEN "supports" ELSE "derived_from"]
    <3>1. x \in edges' /\ x.src = n /\ x.dst = e /\ IsDependency(x)
      BY <2>3 DEF DependencyEdges, IsDependency
    <3> HIDE DEF x
    <3> QED BY <2>4, <3>1 DEF Dependents
  <2>6. Dependents(edges', e) = Dependents(edges, e)
    BY <2>3, <2>5 DEF Dependents, DependencyEdges
  <2>7. e \in present
    BY <2>6 DEF Dependents, EdgesJoinPresent
  <2>8. e # n
    BY <2>7 DEF Offered
  <2>9. \A s \in Dependents(edges, e) : s \in Id /\ s # n
    BY <1>2, <2>4, <2>6 DEF Dependents, Edge
  <2>10. Forsaken(e)
    <3>1. \A s \in Dependents(edges, e) : status[s] = "superseded"
      BY <2>2, <2>6, <2>9 DEF Admits
    <3>2. \A s \in Dependents(edges, e) : deps'[s] = deps[s]
      BY <1>3, <2>9 DEF Upsert, TypeOK
    <3> QED BY <2>6, <3>1, <3>2 DEF Forsaken
  <2> QED BY <1>1, <1>3, <2>5, <2>7, <2>8, <2>10 DEF Upsert
<1>4. ASSUME NEW old \in Id, NEW new \in Id, Rivals(old, new), Supersede(old, new)
      PROVE  e \in orphaned'
  <2>1. Revises(old, new)
    BY <1>4, SupersedeRevises
  <2>2. edges' = edges \cup {[src |-> new, dst |-> old, kind |-> "supersedes"]}
        /\ present' = present /\ deps' = deps
    BY <1>4 DEF Supersede
  <2>3. Dependents(edges', e) = Dependents(edges, e)
    BY <2>2 DEF Dependents, IsDependency
  <2>4. orphaned' = (orphaned \ EvidenceOf(old))
                      \cup (EvidenceOf(old) \cap Unsupporting(edges', status'))
    BY <1>4 DEF Supersede
  <2>5. e \in Unsupporting(edges', status')
    BY <1>2, <2>2 DEF Unsupporting
  <2>6. CASE old \in Dependents(edges, e)
    <3>1. e \in EvidenceOf(old)
      BY <2>2, <2>3, <2>6 DEF EvidenceOf
    <3> QED BY <2>4, <2>5, <3>1
  <2>7. CASE old \notin Dependents(edges, e)
    <3>1. \A s \in Dependents(edges, e) : s \in Id /\ s # old
      BY <1>2, <2>7 DEF Dependents, Edge
    <3>2. \A s \in Dependents(edges, e) : status[s] = "superseded"
      BY <2>1, <2>3, <3>1 DEF Revises
    <3>3. Forsaken(e)
      BY <2>2, <2>3, <3>2 DEF Forsaken
    <3> QED BY <1>1, <2>2, <2>4, <2>5, <3>3
  <2> QED BY <2>6, <2>7
<1>5. ASSUME SameForHistory
      PROVE  e \in orphaned'
  <2>1. e \in present /\ e \in Id /\ orphaned' = orphaned
    BY <1>2, <1>5 DEF SameForHistory
  <2>2. \A s \in Dependents(edges', e) : s \in Id
    <3>1. TypeOK'
      BY StepShapes, Zenon
    <3> QED BY <3>1 DEF TypeOK, Dependents, Edge
  <2>3. \A s \in Dependents(edges', e) : status[s] = "superseded" /\ deps'[s] = deps[s]
    BY <1>5, <2>2 DEF SameForHistory, SameHistory
  <2>4. Dependents(edges', e) = Dependents(edges, e)
    BY <1>5, <2>1, <2>2, <2>3 DEF SameForHistory
  <2>5. Forsaken(e)
    BY <2>3, <2>4 DEF Forsaken
  <2> QED BY <1>1, <2>1, <2>5
<1> QED BY <1>3, <1>4, <1>5, HistoryShapes

\* Evidence whose every dependent is history is flagged, whatever the order in
\* which supersede(), reinforce(), the back-links and re-admissions meet it.
THEOREM OrphansAreAlwaysFlagged == Spec => []OrphansAreFlagged
<1>1. Init => EdgesJoinPresent /\ OrphansAreFlagged
  BY DEF Init, EdgesJoinPresent, OrphansAreFlagged
<1>2. TypeOK /\ EdgesJoinPresent /\ OrphansAreFlagged /\ [Next]_vars
         => EdgesJoinPresent' /\ OrphansAreFlagged'
  BY EdgesStayJoined, OrphansStayFlagged
<1> QED BY <1>1, <1>2, TypeCorrect, PTL DEF Spec

\* Callers name evidence by an id the graph gave them: the hash of a span that
\* evidence_node() has already admitted.
EvidenceIsKnown ==
    \A n \in present : \A e \in deps[n] : Kind[e] = "evidence" => e \in present

LEMMA CorrectionsStayAnnounced ==
    ASSUME TypeOK, EvidenceIsKnown, CorrectionIsAnnounced, [Next]_vars
    PROVE  CorrectionIsAnnounced'
<1> USE GraphAssumption
<1>1. present \subseteq Id /\ deps \in [Id -> SUBSET Id]
  BY DEF TypeOK
<1>2. ASSUME NEW n \in present, status[n] = "superseded",
             NEW e \in deps[n] \cap present, Kind[e] = "evidence"
      PROVE  supersededBy[n] \in correctedBy[e]
  BY <1>2 DEF CorrectionIsAnnounced, EvidenceOf
<1> SUFFICES ASSUME Next,
                    NEW n \in present', status'[n] = "superseded",
                    NEW e \in deps'[n] \cap present', Kind[e] = "evidence"
             PROVE  supersededBy'[n] \in correctedBy'[e]
  <2>1. CASE UNCHANGED vars
    BY <2>1 DEF CorrectionIsAnnounced, EvidenceOf, vars, nodeVars
  <2>2. CASE Next
    BY <2>2 DEF CorrectionIsAnnounced, EvidenceOf
  <2> QED BY <2>1, <2>2
<1>3. ASSUME NEW m \in Offered, NEW D \in SUBSET Id, Upsert(m, D)
      PROVE  supersededBy'[n] \in correctedBy'[e]
  <2>1. m \in Id
    BY DEF Offered
  <2>2. Admits(m)
    BY <1>3, <2>1, UpsertAdmits
  <2>3. n \in present /\ n # m /\ status[n] = "superseded"
    BY <1>1, <2>2 DEF Admits
  <2>4. deps'[n] = deps[n] /\ supersededBy'[n] = supersededBy[n]
    BY <1>1, <1>3, <2>3 DEF Upsert, TypeOK
  <2>5. e \in present
    BY <2>3, <2>4 DEF EvidenceIsKnown
  <2>6. e # m
    BY <2>5 DEF Offered
  <2>7. correctedBy'[e] = correctedBy[e]
    BY <1>1, <1>3, <2>5, <2>6 DEF Upsert, TypeOK
  <2> QED BY <1>2, <2>3, <2>4, <2>5, <2>7
<1>4. ASSUME NEW old \in Id, NEW new \in Id, Rivals(old, new), Supersede(old, new)
      PROVE  supersededBy'[n] \in correctedBy'[e]
  <2>1. Revises(old, new)
    BY <1>4, SupersedeRevises
  <2>2. present' = present /\ deps' = deps /\ correctedBy' = Announced(EvidenceOf(old), new)
        /\ supersededBy' = [supersededBy EXCEPT ![old] = new]
    BY <1>4 DEF Supersede
  <2>3. e \in Id /\ n \in Id
    BY <1>1, <2>2
  <2>4. CASE n = old
    <3>1. e \in EvidenceOf(old)
      BY <2>2, <2>4 DEF EvidenceOf
    <3> QED BY <2>2, <2>3, <2>4, <3>1 DEF Announced, TypeOK
  <2>5. CASE n # old
    <3>1. status[n] = "superseded" /\ supersededBy'[n] = supersededBy[n]
      BY <2>1, <2>2, <2>3, <2>5 DEF Revises, TypeOK
    <3>2. supersededBy[n] \in correctedBy[e]
      BY <1>2, <2>2, <3>1
    <3> QED BY <2>2, <2>3, <3>1, <3>2 DEF Announced
  <2> QED BY <2>4, <2>5
<1>5. ASSUME SameForHistory
      PROVE  supersededBy'[n] \in correctedBy'[e]
  BY <1>1, <1>2, <1>5 DEF SameForHistory, SameHistory
<1> QED BY <1>3, <1>4, <1>5, HistoryShapes

\* A correction reaches the evidence of what it corrected, as long as callers
\* name only evidence the graph has: evidence admitted after the claim that
\* names it was superseded would not be told.
THEOREM CorrectionsReachEvidence ==
    Spec /\ []EvidenceIsKnown => []CorrectionReachesEvidence
<1>1. Init => CorrectionIsAnnounced
  BY DEF Init, CorrectionIsAnnounced
<1>2. TypeOK /\ EvidenceIsKnown /\ CorrectionIsAnnounced /\ [Next]_vars
         => CorrectionIsAnnounced'
  BY CorrectionsStayAnnounced
<1>3. CorrectionIsAnnounced /\ OrphansAreFlagged => CorrectionReachesEvidence
  BY DEF CorrectionReachesEvidence
<1> QED BY <1>1, <1>2, <1>3, TypeCorrect, OrphansAreAlwaysFlagged, PTL DEF Spec

=============================================================================
