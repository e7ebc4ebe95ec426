--------------------------- MODULE Sessions_proofs ---------------------------
(***************************************************************************)
(* The router, for any number of connections, sessions and slots.  Counts  *)
(* read while other threads drop their handles are only ever too high, so  *)
(* no session in flight is evicted: no conversation is split, and what was *)
(* acknowledged is remembered.  The scan that evicts gives up only over    *)
(* sessions that other threads are serving, so the cache stays bounded.    *)
(***************************************************************************)
EXTENDS Sessions, FiniteSetTheorems, FunctionTheorems, SequenceTheorems, WellFoundedInduction, TLAPS

\* Handles exist only between route() and the end of the request.
HandleInv ==
    /\ sessions = [s \in Session |-> sessions[s]]
    /\ handle = [t \in Thread |-> handle[t]]
    /\ session = [t \in Thread |-> session[t]]
    /\ pc = [t \in Thread |-> pc[t]]
    /\ \A t \in Thread : pc[t] \in {"routing", "scanning"} => session[t] \in Session
    /\ \A t \in Thread :
          pc[t] \in {"closed", "reading", "routing", "scanning"} => handle[t] = NoRuntime
    /\ \A t \in Thread : handle[t] # NoRuntime => session[t] \in Session
    /\ NeverSplit

\* An Arc counted once is the map's own: nobody is in flight.
LEMMA CountOfOne ==
    ASSUME NEW s, StrongCount(s) = 1
    PROVE  InFlight(s) = {}
<1>1. IsFiniteSet(InFlight(s))
  <2>1. InFlight(s) \subseteq Thread
    BY DEF InFlight
  <2> QED BY <2>1, SessionsAssumption, FS_Subset
<1>2. Cardinality(InFlight(s)) \in Nat
  BY <1>1, FS_CardinalityType
<1>3. Cardinality(InFlight(s)) = 0
  BY <1>2 DEF StrongCount
<1> QED BY <1>1, <1>3, FS_EmptySet

\* The end of route() keeps every handle on the map's runtime, when the map it
\* ends with lacks at most a session nobody is served from.
LEMMA GrantKeeps ==
    ASSUME HandleInv, NEW t \in Thread, pc[t] \in {"routing", "scanning"},
           NEW map, NEW order, Grant(t, map, order), UNCHANGED session,
           map = [s \in Session |-> map[s]],
           \A s \in Session : map[s] # sessions[s] => InFlight(s) = {}
    PROVE  HandleInv'
<1> DEFINE mine == session[t]
<1>1. mine \in Session /\ handle[t] = NoRuntime
  BY DEF HandleInv
<1>2. PICK r : /\ sessions' = [map EXCEPT ![mine] = r]
               /\ handle' = [handle EXCEPT ![t] = r]
               /\ map[mine] # NoRuntime => r = map[mine]
  BY DEF Grant
<1>3. pc' = [pc EXCEPT ![t] = "locking"]
  BY DEF Grant, Go
<1> HIDE DEF mine
<1>4. ASSUME NEW u \in Thread \ {t}, handle[u] # NoRuntime
      PROVE  sessions'[session[u]] = handle[u]
  <2>1. session[u] \in Session /\ sessions[session[u]] = handle[u]
    BY <1>4 DEF HandleInv, NeverSplit
  <2>2. map[session[u]] = handle[u]
    BY <1>4, <2>1 DEF InFlight
  <2> QED BY <1>2, <1>4, <2>1, <2>2
<1>5. sessions'[mine] = r /\ handle'[t] = r
  BY <1>1, <1>2 DEF HandleInv
<1>6. \A u \in Thread \ {t} : handle'[u] = handle[u] /\ pc'[u] = pc[u]
  BY <1>2, <1>3 DEF HandleInv
<1>7. NeverSplit'
  BY <1>4, <1>5, <1>6 DEF NeverSplit, mine
<1> QED BY <1>1, <1>2, <1>3, <1>5, <1>6, <1>7 DEF HandleInv, mine

\* A step that gives no thread a handle and leaves the map alone.
LEMMA OthersKeep ==
    ASSUME HandleInv, NEW t \in Thread, UNCHANGED sessions,
           NEW to, pc' = [pc EXCEPT ![t] = to],
           NEW h \in {handle[t], NoRuntime}, handle' = [handle EXCEPT ![t] = h],
           NEW s, session' = [session EXCEPT ![t] = s],
           h # NoRuntime => s = session[t],
           to \in {"routing", "scanning"} => s \in Session,
           to \in {"closed", "reading", "routing", "scanning"} => h = NoRuntime
    PROVE  HandleInv'
<1>1. /\ pc'[t] = to /\ handle'[t] = h /\ session'[t] = s
      /\ \A u \in Thread \ {t} : /\ pc'[u] = pc[u] /\ handle'[u] = handle[u]
                                 /\ session'[u] = session[u]
  BY DEF HandleInv
<1>2. /\ sessions' = [x \in Session |-> sessions'[x]]
      /\ handle' = [u \in Thread |-> handle'[u]]
      /\ session' = [u \in Thread |-> session'[u]]
      /\ pc' = [u \in Thread |-> pc'[u]]
  BY DEF HandleInv
<1>3. \A u \in Thread : pc'[u] \in {"routing", "scanning"} => session'[u] \in Session
  BY <1>1 DEF HandleInv
<1>4. \A u \in Thread :
         pc'[u] \in {"closed", "reading", "routing", "scanning"} => handle'[u] = NoRuntime
  BY <1>1 DEF HandleInv
<1>5. \A u \in Thread : handle'[u] # NoRuntime =>
         session'[u] = session[u] /\ handle'[u] = handle[u]
  BY <1>1
<1>6. /\ \A u \in Thread : handle'[u] # NoRuntime => session'[u] \in Session
      /\ NeverSplit'
  BY <1>5 DEF HandleInv, NeverSplit
<1> QED BY <1>2, <1>3, <1>4, <1>6 DEF HandleInv

LEMMA HandleInvStep == HandleInv /\ [Next]_vars => HandleInv'
<1> SUFFICES ASSUME HandleInv, [Next]_vars PROVE HandleInv'
  OBVIOUS
<1>0. \A t \in Thread : /\ handle = [handle EXCEPT ![t] = handle[t]]
                        /\ session = [session EXCEPT ![t] = session[t]]
                        /\ pc = [pc EXCEPT ![t] = pc[t]]
  BY DEF HandleInv
<1>1. ASSUME NEW t \in Thread, Accept(t) \/ Hangup(t) PROVE HandleInv'
  <2>1. PICK to \in {"closed", "reading"} : pc' = [pc EXCEPT ![t] = to]
    BY <1>1 DEF Accept, Hangup, Go
  <2>2. handle[t] = NoRuntime
    BY <1>1 DEF HandleInv, Accept, Hangup
  <2>3. UNCHANGED <<sessions, handle, session>>
    BY <1>1 DEF Accept, Hangup, routing, request
  <2> QED BY <1>0, <2>1, <2>2, <2>3, OthersKeep
<1>2. ASSUME NEW t \in Thread, NEW o, NEW s \in Session, Read(t, o, s) PROVE HandleInv'
  <2>1. handle[t] = NoRuntime /\ UNCHANGED <<sessions, handle>>
        /\ session' = [session EXCEPT ![t] = s] /\ pc' = [pc EXCEPT ![t] = "routing"]
    BY <1>2 DEF Read, HandleInv, routing, Go
  <2> QED BY <1>0, <2>1, OthersKeep
<1>3. ASSUME NEW t \in Thread, Route(t) \/ Exceed(t) PROVE HandleInv'
  <2>1. Grant(t, sessions, lru) /\ UNCHANGED session /\ pc[t] \in {"routing", "scanning"}
    BY <1>3 DEF Route, Exceed, request
  <2> QED BY <2>1, GrantKeeps DEF HandleInv
<1>4. ASSUME NEW t \in Thread, Evict(t) PROVE HandleInv'
  <2> DEFINE victim == lru[cursor[t]]
             map == [sessions EXCEPT ![victim] = NoRuntime]
  <2>1. Grant(t, map, Without(lru, victim)) /\ UNCHANGED session /\ pc[t] = "scanning"
    BY <1>4 DEF Evict, request
  <2>2. InFlight(victim) = {}
    BY <1>4, CountOfOne DEF Evict
  <2> HIDE DEF victim
  <2>3. map = [s \in Session |-> map[s]] /\ \A s \in Session : s # victim => map[s] = sessions[s]
    BY DEF HandleInv
  <2> QED BY <2>1, <2>2, <2>3, GrantKeeps
<1>5. ASSUME NEW t \in Thread, BeginScan(t) PROVE HandleInv'
  <2>1. handle[t] = NoRuntime /\ session[t] \in Session
        /\ UNCHANGED <<sessions, handle, session>> /\ pc' = [pc EXCEPT ![t] = "scanning"]
    BY <1>5 DEF BeginScan, HandleInv, request, Go
  <2> QED BY <1>0, <2>1, OthersKeep
<1>6. ASSUME NEW t \in Thread, Stall(t) \/ ScanPast(t) PROVE HandleInv'
  <2>1. UNCHANGED <<sessions, handle, session, pc>>
    BY <1>6 DEF Stall, ScanPast, routing, request
  <2> QED BY <2>1 DEF HandleInv, NeverSplit
<1>7. ASSUME NEW t \in Thread, Enter(t) \/ Work(t) PROVE HandleInv'
  <2>1. PICK to \in {"inside", "replying", "refusing"} : pc' = [pc EXCEPT ![t] = to]
    BY <1>7 DEF Enter, Work, Go
  <2>2. UNCHANGED <<sessions, handle, session>>
    BY <1>7 DEF Enter, Work, routing, request
  <2> QED BY <1>0, <2>1, <2>2, OthersKeep
<1>8. ASSUME NEW t \in Thread, Reply(t) \/ Panic(t) PROVE HandleInv'
  <2>1. PICK to \in {"closed", "reading"} : pc' = [pc EXCEPT ![t] = to]
    BY <1>8 DEF Reply, Panic, Go
  <2>2. handle' = [handle EXCEPT ![t] = NoRuntime] /\ UNCHANGED sessions
        /\ session' = [session EXCEPT ![t] = NoSession]
    BY <1>8 DEF Reply, Panic, Released, routing
  <2> QED BY <2>1, <2>2, OthersKeep
<1>9. CASE UNCHANGED vars
  BY <1>9 DEF vars, routing, request, HandleInv, NeverSplit
<1> QED BY <1>1, <1>2, <1>3, <1>4, <1>5, <1>6, <1>7, <1>8, <1>9 DEF Next

\* Whoever serves a request holds the runtime the map holds for its session.
THEOREM OneRuntimePerSession == Spec => []NeverSplit
<1>1. Init => HandleInv
  BY DEF Init, HandleInv, NeverSplit
<1>2. HandleInv => NeverSplit
  BY DEF HandleInv
<1> QED BY <1>1, <1>2, HandleInvStep, PTL DEF Spec

-----------------------------------------------------------------------------
(* Types.  A new runtime always has a number to spare: of the N + 1 numbers *)
(* of a session, N threads hold at most N.                                  *)

LEMMA LeastExists ==
    ASSUME NEW S \in SUBSET Nat, S # {}
    PROVE  \E x \in S : \A y \in S : x <= y
<1>1. PICK x \in S : \A y \in S : ~ (<<y, x>> \in OpToRel(<, Nat))
  BY NatLessThanWellFounded, WFMin
<1>2. \A y \in S : ~ (y < x)
  BY <1>1 DEF OpToRel
<1> QED BY <1>2

LEMMA SpareExists ==
    ASSUME NEW s \in Session, NEW map, map[s] = NoRuntime
    PROVE  Spare(s, map) # {}
<1> DEFINE N == Cardinality(Thread)
<1>0. IsFiniteSet(Thread) /\ N \in Nat
  BY SessionsAssumption, FS_CardinalityType
<1>1. \A n \in 0 .. N : map[s] # <<s, n>>
  BY NoRuntimeAssumption DEF Runtime
<1>2. SUFFICES ASSUME \A n \in 0 .. N : \E t \in Thread : handle[t] = <<s, n>>
               PROVE  FALSE
  BY <1>1 DEF Spare
<1> DEFINE holder == [n \in 0 .. N |-> CHOOSE t \in Thread : handle[t] = <<s, n>>]
<1>3. \A n \in 0 .. N : holder[n] \in Thread /\ handle[holder[n]] = <<s, n>>
  BY <1>2
<1>4. holder \in [0 .. N -> Thread]
  BY <1>3
<1>5. IsFiniteSet(0 .. N) /\ Cardinality(0 .. N) = N + 1
  BY <1>0, FS_Interval
<1> HIDE DEF holder, N
<1>6. PICK x, y \in 0 .. N : x # y /\ holder[x] = holder[y]
  BY <1>0, <1>4, <1>5, FS_PigeonHole DEF N
<1> QED BY <1>3, <1>6

LEMMA FreshIsNew ==
    ASSUME NEW s \in Session, NEW map, map[s] = NoRuntime
    PROVE  /\ Fresh(s, map) \in Runtime /\ Fresh(s, map)[1] = s
           /\ \A t \in Thread : handle[t] # Fresh(s, map)
<1>1. Spare(s, map) # {} /\ Spare(s, map) \subseteq 0 .. Cardinality(Thread)
  BY SpareExists DEF Spare
<1>2. Spare(s, map) \in SUBSET Nat
  BY <1>1
<1>3. \E n \in Spare(s, map) : \A m \in Spare(s, map) : n <= m
  BY <1>1, <1>2, LeastExists
<1>4. PICK n \in Spare(s, map) : Fresh(s, map) = <<s, n>>
  BY <1>3 DEF Fresh
<1> QED BY <1>1, <1>4 DEF Spare, Runtime

-----------------------------------------------------------------------------
(* What retain() leaves of the LRU order.                                  *)

Rank(L, i) == Cardinality({k \in L : k <= i})

\* The members of a finite set of numbers have the ranks 1, 2, ... each once.
LEMMA RanksCount ==
    ASSUME NEW L \in SUBSET Nat, IsFiniteSet(L)
    PROVE  /\ Cardinality(L) \in Nat
           /\ \A i \in L : Rank(L, i) \in 1 .. Cardinality(L)
           /\ \A i, k \in L : Rank(L, i) = Rank(L, k) => i = k
           /\ \A j \in 1 .. Cardinality(L) : \E i \in L : Rank(L, i) = j
<1> DEFINE n == Cardinality(L)
           upto(i) == {k \in L : k <= i}
<1>0. n \in Nat
  BY FS_CardinalityType
<1>1. \A i \in L : IsFiniteSet(upto(i)) /\ Cardinality(upto(i)) \in Nat
  BY FS_Subset, FS_CardinalityType
<1>2. \A i \in L : Cardinality(upto(i)) \in 1 .. n
  <2> SUFFICES ASSUME NEW i \in L PROVE Cardinality(upto(i)) \in 1 .. n
    OBVIOUS
  <2>1. Cardinality(upto(i)) <= n
    BY FS_Subset
  <2>2. i \in upto(i)
    OBVIOUS
  <2>3. Cardinality(upto(i)) # 0
    BY <1>1, <2>2, FS_EmptySet
  <2> HIDE DEF upto, n
  <2> QED BY <1>0, <1>1, <2>1, <2>3
<1>3. ASSUME NEW i \in L, NEW k \in L, i < k
      PROVE  Cardinality(upto(i)) < Cardinality(upto(k))
  <2>1. i \in Int /\ k \in Int /\ ~ (k <= i) /\ k <= k
    BY <1>3
  <2>2. \A x \in L : x <= i => x <= k
    BY <1>3
  <2>3. upto(i) \subseteq upto(k) /\ k \in upto(k) /\ k \notin upto(i)
    BY <2>1, <2>2
  <2> HIDE DEF upto
  <2>4. Cardinality(upto(i)) <= Cardinality(upto(k))
        /\ Cardinality(upto(i)) # Cardinality(upto(k))
    BY <1>1, <2>3, FS_Subset
  <2> QED BY <1>1, <2>4
<1>4. \A i, k \in L : Cardinality(upto(i)) = Cardinality(upto(k)) => i = k
  <2> SUFFICES ASSUME NEW i \in L, NEW k \in L,
                      Cardinality(upto(i)) = Cardinality(upto(k)), i # k
               PROVE  FALSE
    OBVIOUS
  <2> HIDE DEF upto
  <2>1. i < k \/ k < i
    OBVIOUS
  <2> QED BY <1>1, <1>3, <2>1
<1> DEFINE f == [i \in L |-> Cardinality(upto(i))]
<1>5. f \in Injection(L, 1 .. n)
  <2>1. f \in [L -> 1 .. n] /\ \A i, k \in L : f[i] = f[k] => i = k
    BY <1>2, <1>4
  <2> HIDE DEF f, n
  <2> QED BY <2>1, Fun_IsInj
<1>6. f \in Surjection(L, 1 .. n)
  <2>1. IsFiniteSet(1 .. n) /\ Cardinality(1 .. n) = n
    BY <1>0, FS_Interval
  <2>2. Cardinality(L) = Cardinality(1 .. n)
    BY <2>1
  <2> HIDE DEF f, n
  <2> QED BY <1>5, <2>1, <2>2, FS_Injection
<1>7. \A j \in 1 .. n : \E i \in L : f[i] = j
  <2> HIDE DEF f, n
  <2> QED BY <1>6 DEF Surjection
<1> QED BY <1>0, <1>2, <1>4, <1>7 DEF Rank

Once(q) == \A i, k \in DOMAIN q : q[i] = q[k] => i = k
Listed(q) == {q[i] : i \in DOMAIN q}

LEMMA RetainKeepsOthers ==
    ASSUME NEW S, NEW q \in Seq(S), Once(q), NEW s
    PROVE  /\ Without(q, s) \in Seq(S) /\ Once(Without(q, s))
           /\ Listed(Without(q, s)) = Listed(q) \ {s}
<1> DEFINE L == {i \in DOMAIN q : q[i] # s}
           n == Cardinality(L)
           at(j) == CHOOSE i \in L : Rank(L, i) = j
<1>1. DOMAIN q = 1 .. Len(q) /\ Len(q) \in Nat /\ \A i \in DOMAIN q : q[i] \in S
  BY ElementOfSeq, LenProperties
<1>2. L \in SUBSET Nat /\ IsFiniteSet(L) /\ L \subseteq DOMAIN q
  <2>1. IsFiniteSet(1 .. Len(q)) /\ L \in SUBSET (1 .. Len(q))
    BY <1>1, FS_Interval
  <2> HIDE DEF L
  <2>2. IsFiniteSet(L)
    BY <2>1, FS_Subset
  <2> QED BY <1>1, <2>1, <2>2
<1>3. Without(q, s) = [j \in 1 .. n |-> q[at(j)]]
  BY DEF Without, Rank
<1>4. \A i \in L : q[i] # s
  OBVIOUS
<1>4a. \A i \in DOMAIN q : q[i] # s => i \in L
  OBVIOUS
<1> HIDE DEF L
<1>5. n \in Nat /\ \A j \in 1 .. n : at(j) \in L /\ Rank(L, at(j)) = j
  BY <1>2, RanksCount
<1>6. \A i \in L : Rank(L, i) \in 1 .. n /\ at(Rank(L, i)) = i
  BY <1>2, <1>5, RanksCount
<1> DEFINE w == Without(q, s)
<1>7. /\ DOMAIN w = 1 .. n /\ w \in [1 .. n -> S]
      /\ \A j \in 1 .. n : w[j] = q[at(j)]
  BY <1>1, <1>2, <1>3, <1>5
<1> HIDE DEF at, w, n
<1>8. w \in Seq(S)
  BY <1>5, <1>7, SeqDef
<1>9. Once(w)
  <2> SUFFICES ASSUME NEW i \in 1 .. n, NEW k \in 1 .. n, w[i] = w[k] PROVE i = k
    BY <1>7 DEF Once
  <2>1. at(i) = at(k)
    BY <1>2, <1>5, <1>7 DEF Once
  <2> QED BY <1>5, <2>1
<1>10. \A j \in 1 .. n : w[j] # s /\ \E i \in DOMAIN q : w[j] = q[i]
  BY <1>2, <1>4, <1>5, <1>7
<1>11. \A i \in DOMAIN q : q[i] # s => \E j \in 1 .. n : w[j] = q[i]
  BY <1>4a, <1>6, <1>7
<1> QED BY <1>7, <1>8, <1>9, <1>10, <1>11 DEF w, Listed

\* Touching a session puts it last, once.
LEMMA TouchedOnce ==
    ASSUME NEW S, NEW q \in Seq(S), Once(q), NEW s \in S
    PROVE  LET touched == Append(Without(q, s), s)
           IN  /\ touched \in Seq(S) /\ Once(touched)
               /\ Listed(touched) = Listed(q) \cup {s}
<1> DEFINE w == Without(q, s)
           n == Len(w)
           touched == Append(w, s)
<1>1. /\ w \in Seq(S) /\ Once(w)
      /\ Listed(w) = Listed(q) \ {s}
  BY RetainKeepsOthers
<1> HIDE DEF w
<1>2. n \in Nat /\ DOMAIN w = 1 .. n
  BY <1>1, LenProperties
<1>3. /\ touched \in Seq(S) /\ Len(touched) = n + 1
      /\ \A i \in 1 .. n : touched[i] = w[i]
      /\ touched[n + 1] = s
  BY <1>1, AppendProperties
<1>4. DOMAIN touched = 1 .. n + 1
  BY <1>3, LenProperties
<1> HIDE DEF touched, n
<1>5. \A i \in 1 .. n : w[i] # s
  BY <1>1, <1>2 DEF Listed
<1>6. Once(touched)
  BY <1>1, <1>2, <1>3, <1>4, <1>5 DEF Once
<1>7. Listed(touched) = Listed(w) \cup {s}
  <2>1. \A x : (\E i \in 1 .. n + 1 : x = touched[i])
                  <=> x = s \/ \E i \in 1 .. n : x = w[i]
    BY <1>2, <1>3
  <2> QED BY <1>2, <1>4, <2>1 DEF Listed
<1>8. Listed(touched) = Listed(q) \cup {s}
  BY <1>1, <1>7
<1> QED BY <1>3, <1>6, <1>8 DEF touched, w

\* An order without repeats is as long as the set of what it lists.
LEMMA OrderCounts ==
    ASSUME NEW S, NEW q \in Seq(S), Once(q)
    PROVE  IsFiniteSet(Listed(q)) /\ Cardinality(Listed(q)) = Len(q)
<1>1. DOMAIN q = 1 .. Len(q) /\ Len(q) \in Nat /\ q \in [1 .. Len(q) -> Listed(q)]
  BY LenProperties DEF Listed
<1>2. \A x \in Listed(q) : \E i \in 1 .. Len(q) : q[i] = x
  BY <1>1 DEF Listed
<1>3. q \in Surjection(1 .. Len(q), Listed(q))
  BY <1>1, <1>2, Fun_IsSurj
<1>4. q \in Injection(1 .. Len(q), Listed(q))
  BY <1>1, Fun_IsInj DEF Once
<1>5. IsFiniteSet(1 .. Len(q)) /\ Cardinality(1 .. Len(q)) = Len(q)
  BY <1>1, FS_Interval
<1> QED BY <1>3, <1>4, <1>5, FS_Surjection

-----------------------------------------------------------------------------
(* The router's own state: its types, the names of its runtimes, its order *)
(* and its lock.                                                           *)

Holding == {"locking", "inside", "replying", "refusing"}

RouterInv ==
    /\ TypeOK /\ HandleInv
    /\ \A s \in Session : sessions[s] # NoRuntime => sessions[s][1] = s
    /\ Once(lru) /\ Listed(lru) = Known
    /\ \A t \in Thread : pc[t] = "scanning" <=> router = t
    /\ \A t \in Thread : pc[t] = "scanning" => cursor[t] >= 1
    /\ \A t \in Thread : pc[t] \in Holding => handle[t] # NoRuntime

LEMMA GrantRoutes ==
    ASSUME RouterInv, HandleInv', NEW t \in Thread, pc[t] \in {"routing", "scanning"},
           NEW map \in [Session -> Runtime \cup {NoRuntime}],
           \A s \in Session : map[s] # NoRuntime => map[s][1] = s,
           NEW order \in Seq(Session), Once(order),
           Listed(order) = {s \in Session : map[s] # NoRuntime},
           Grant(t, map, order), router \in {NoThread, t},
           UNCHANGED <<lock, request, stalled>>
    PROVE  RouterInv' /\ Known' = {s \in Session : map[s] # NoRuntime} \cup {session[t]}
<1> DEFINE mine == session[t]
           r == IF map[mine] # NoRuntime THEN map[mine] ELSE Fresh(mine, map)
<1>1. mine \in Session
  BY DEF RouterInv, HandleInv
<1>2. r \in Runtime /\ r[1] = mine
  <2>1. CASE map[mine] # NoRuntime
    BY <1>1, <2>1
  <2>2. CASE map[mine] = NoRuntime
    BY <1>1, <2>2, FreshIsNew
  <2> QED BY <2>1, <2>2
<1>3. r # NoRuntime
  BY <1>2, NoRuntimeAssumption
<1>4. /\ sessions' = [map EXCEPT ![mine] = r]
      /\ lru' = Append(Without(order, mine), mine)
      /\ handle' = [handle EXCEPT ![t] = r]
      /\ memory' = Kept(sessions', handle', memory)
      /\ cursor' = [cursor EXCEPT ![t] = 0]
      /\ router' = NoThread /\ pc' = [pc EXCEPT ![t] = "locking"]
  BY DEF Grant, Go
<1> HIDE DEF mine, r
<1>5. lru' \in Seq(Session) /\ Once(lru') /\ Listed(lru') = Listed(order) \cup {mine}
  BY <1>1, <1>4, TouchedOnce
<1>6. sessions' \in [Session -> Runtime \cup {NoRuntime}]
      /\ \A s \in Session : sessions'[s] = IF s = mine THEN r ELSE map[s]
  BY <1>1, <1>2, <1>4
<1>7. Known' = {s \in Session : map[s] # NoRuntime} \cup {mine}
  BY <1>1, <1>3, <1>6 DEF Known
<1>8. memory' \in [Runtime -> SUBSET Thread]
  BY <1>4 DEF Kept, RouterInv, TypeOK
<1>9. TypeOK'
  BY <1>1, <1>2, <1>4, <1>5, <1>6, <1>8 DEF RouterInv, TypeOK, request
<1>10. \A s \in Session : sessions'[s] # NoRuntime => sessions'[s][1] = s
  BY <1>2, <1>6
<1>11. \A u \in Thread : pc'[u] = IF u = t THEN "locking" ELSE pc[u]
  BY <1>4 DEF RouterInv, TypeOK
<1>12. \A u \in Thread : handle'[u] = IF u = t THEN r ELSE handle[u]
  BY <1>4 DEF RouterInv, TypeOK
<1>13. \A u \in Thread : pc'[u] # "scanning"
  BY <1>11, SessionsAssumption DEF RouterInv
<1>14. \A u \in Thread : router' # u
  BY <1>4, SessionsAssumption
<1>15. \A u \in Thread : pc'[u] \in Holding => handle'[u] # NoRuntime
  BY <1>3, <1>11, <1>12 DEF RouterInv
<1> QED BY <1>5, <1>7, <1>9, <1>10, <1>13, <1>14, <1>15 DEF RouterInv, mine

\* What eviction leaves in the map and in its order.
LEMMA EvictedRoutes ==
    ASSUME RouterInv, NEW t \in Thread, Evict(t)
    PROVE  LET victim == lru[cursor[t]]
               map    == [sessions EXCEPT ![victim] = NoRuntime]
               order  == Without(lru, victim)
           IN  /\ victim \in Known
               /\ map \in [Session -> Runtime \cup {NoRuntime}]
               /\ \A s \in Session : map[s] # NoRuntime => map[s][1] = s
               /\ order \in Seq(Session) /\ Once(order)
               /\ Listed(order) = {s \in Session : map[s] # NoRuntime}
               /\ Listed(order) = Known \ {victim}
<1> DEFINE victim == lru[cursor[t]]
           map    == [sessions EXCEPT ![victim] = NoRuntime]
           order  == Without(lru, victim)
<1>1. /\ lru \in Seq(Session) /\ cursor[t] \in 1 .. Len(lru)
      /\ Once(lru) /\ Listed(lru) = Known
  BY DEF RouterInv, TypeOK, Evict
<1>2. victim \in Known
  BY <1>1, LenProperties DEF Listed
<1> HIDE DEF victim
<1>3. /\ map \in [Session -> Runtime \cup {NoRuntime}]
      /\ \A s \in Session : map[s] = IF s = victim THEN NoRuntime ELSE sessions[s]
  BY DEF RouterInv, TypeOK
<1>4. order \in Seq(Session) /\ Once(order) /\ Listed(order) = Known \ {victim}
  BY <1>1, RetainKeepsOthers
<1>5. Known \ {victim} = {s \in Session : map[s] # NoRuntime}
  BY <1>3 DEF Known
<1>6. \A s \in Session : map[s] # NoRuntime => map[s][1] = s
  BY <1>3 DEF RouterInv
<1> HIDE DEF map, order
<1> QED BY <1>2, <1>3, <1>4, <1>5, <1>6 DEF map, order, victim

LEMMA RouterInvStep == RouterInv /\ [Next]_vars => RouterInv'
<1> SUFFICES ASSUME RouterInv, [Next]_vars PROVE RouterInv'
  OBVIOUS
<1>0. HandleInv'
  BY HandleInvStep DEF RouterInv
<1>1. ASSUME NEW t \in Thread, Accept(t) \/ Hangup(t) \/ Stall(t) \/ Enter(t) PROVE RouterInv'
  <2>1. UNCHANGED <<sessions, lru, router, memory, op, session, handle, cursor>>
    BY <1>1 DEF Accept, Hangup, Stall, Enter, routing, request
  <2>2. lock' \in [Runtime -> Thread \cup {NoThread}] /\ stalled' \subseteq Thread
    BY <1>1 DEF Accept, Hangup, Stall, Enter, RouterInv, TypeOK
  <2>3. PICK to \in {"closed", "reading", "inside"} :
             /\ pc' = [pc EXCEPT ![t] = to] \/ pc' = pc
             /\ pc' # pc => pc[t] # "scanning"
             /\ pc' # pc /\ to = "inside" => pc[t] = "locking"
    <3>1. CASE Accept(t) \/ Stall(t)
      BY <3>1 DEF Accept, Stall, Go
    <3>2. CASE Hangup(t)
      BY <3>2 DEF Hangup, Go
    <3>3. CASE Enter(t)
      BY <3>3 DEF Enter, Go
    <3> QED BY <1>1, <3>1, <3>2, <3>3
  <2>4. TypeOK'
    <3>1. TypeOK
      BY DEF RouterInv
    <3>2. pc' \in [Thread -> {"closed", "reading", "routing", "scanning", "locking",
                             "inside", "replying", "refusing"}]
      BY <2>3, <3>1 DEF TypeOK
    <3> QED BY <2>1, <2>2, <3>1, <3>2 DEF TypeOK
  <2>5. \A u \in Thread : /\ pc'[u] = "scanning" <=> pc[u] = "scanning"
                          /\ pc'[u] \in Holding => pc[u] \in Holding
    BY <2>3 DEF RouterInv, TypeOK, Holding
  <2> QED BY <1>0, <2>1, <2>4, <2>5 DEF RouterInv, Known
<1>2. ASSUME NEW t \in Thread, NEW o \in {"ask", "ingest"}, NEW s \in Session, Read(t, o, s)
      PROVE  RouterInv'
  <2>1. UNCHANGED <<sessions, lru, router, memory, lock, handle, cursor, stalled>>
        /\ op' = [op EXCEPT ![t] = o] /\ session' = [session EXCEPT ![t] = s]
        /\ pc[t] = "reading" /\ pc' = [pc EXCEPT ![t] = "routing"]
    BY <1>2 DEF Read, routing, Go
  <2>2. TypeOK'
    BY <2>1 DEF RouterInv, TypeOK
  <2>3. \A u \in Thread : /\ pc'[u] = "scanning" <=> pc[u] = "scanning"
                          /\ pc'[u] \in Holding => pc[u] \in Holding
    BY <2>1 DEF RouterInv, TypeOK, Holding
  <2> QED BY <1>0, <2>1, <2>2, <2>3 DEF RouterInv, Known
<1>3. ASSUME NEW t \in Thread, Route(t) \/ Exceed(t) PROVE RouterInv'
  <2>1. Grant(t, sessions, lru) /\ UNCHANGED <<lock, request, stalled>>
        /\ pc[t] \in {"routing", "scanning"} /\ router \in {NoThread, t}
    BY <1>3 DEF Route, Exceed, RouterInv
  <2>2. /\ sessions \in [Session -> Runtime \cup {NoRuntime}]
        /\ \A s \in Session : sessions[s] # NoRuntime => sessions[s][1] = s
        /\ lru \in Seq(Session) /\ Once(lru)
        /\ Listed(lru) = {s \in Session : sessions[s] # NoRuntime}
    BY DEF RouterInv, TypeOK, Known
  <2> QED BY <1>0, <2>1, <2>2, GrantRoutes
<1>4. ASSUME NEW t \in Thread, Evict(t) PROVE RouterInv'
  <2> DEFINE victim == lru[cursor[t]]
             map    == [sessions EXCEPT ![victim] = NoRuntime]
             order  == Without(lru, victim)
  <2>1. Grant(t, map, order) /\ UNCHANGED <<lock, request, stalled>>
        /\ pc[t] = "scanning" /\ router = t
    BY <1>4 DEF Evict, RouterInv
  <2>2. /\ map \in [Session -> Runtime \cup {NoRuntime}]
        /\ \A s \in Session : map[s] # NoRuntime => map[s][1] = s
        /\ order \in Seq(Session) /\ Once(order)
        /\ Listed(order) = {s \in Session : map[s] # NoRuntime}
    BY <1>4, EvictedRoutes
  <2> HIDE DEF victim, map, order
  <2> QED BY <1>0, <2>1, <2>2, GrantRoutes
<1>5. ASSUME NEW t \in Thread, BeginScan(t) PROVE RouterInv'
  <2>1. UNCHANGED <<sessions, lru, memory, lock, op, session, handle, stalled>>
        /\ router = NoThread /\ router' = t /\ cursor' = [cursor EXCEPT ![t] = 1]
        /\ pc[t] = "routing" /\ pc' = [pc EXCEPT ![t] = "scanning"]
    BY <1>5 DEF BeginScan, request, Go
  <2>2. TypeOK'
    BY <2>1 DEF RouterInv, TypeOK
  <2>3. \A u \in Thread : pc[u] # "scanning"
    BY <2>1, SessionsAssumption DEF RouterInv
  <2>4. \A u \in Thread : /\ pc'[u] = IF u = t THEN "scanning" ELSE pc[u]
                          /\ cursor'[u] = IF u = t THEN 1 ELSE cursor[u]
    BY <2>1 DEF RouterInv, TypeOK
  <2>5. \A u \in Thread : /\ pc'[u] = "scanning" <=> router' = u
                          /\ pc'[u] = "scanning" => cursor'[u] >= 1
                          /\ pc'[u] \in Holding => handle'[u] # NoRuntime
    BY <2>1, <2>3, <2>4 DEF RouterInv, Holding
  <2> QED BY <1>0, <2>1, <2>2, <2>5 DEF RouterInv, Known
<1>6. ASSUME NEW t \in Thread, ScanPast(t) PROVE RouterInv'
  <2>1. UNCHANGED <<sessions, lru, router, memory, lock, pc, op, session, handle, stalled>>
        /\ cursor' = [cursor EXCEPT ![t] = cursor[t] + 1]
    BY <1>6 DEF ScanPast, routing, request
  <2>2. TypeOK' /\ \A u \in Thread : cursor'[u] >= cursor[u]
    BY <2>1 DEF RouterInv, TypeOK
  <2>3. \A u \in Thread : cursor[u] \in Nat /\ cursor'[u] \in Nat
    BY <2>2 DEF RouterInv, TypeOK
  <2>4. \A u \in Thread : pc'[u] = "scanning" => cursor'[u] >= 1
    BY <2>1, <2>2, <2>3 DEF RouterInv
  <2> QED BY <1>0, <2>1, <2>2, <2>4 DEF RouterInv, Known
<1>7. ASSUME NEW t \in Thread, Work(t) PROVE RouterInv'
  <2>1. UNCHANGED <<sessions, lru, router, op, session, handle, cursor, stalled>>
        /\ pc[t] = "inside"
    BY <1>7 DEF Work, routing, request
  <2>2. handle[t] \in Runtime
    BY <2>1 DEF RouterInv, TypeOK, Holding
  <2>3. memory' \in [Runtime -> SUBSET Thread]
    BY <1>7, <2>2 DEF Work, RouterInv, TypeOK
  <2>4. lock' \in [Runtime -> Thread \cup {NoThread}]
    BY <1>7 DEF Work, Unlocked, RouterInv, TypeOK
  <2>5. PICK to \in {"replying", "refusing"} : pc' = [pc EXCEPT ![t] = to]
    BY <1>7 DEF Work, Go
  <2>6. TypeOK'
    BY <2>1, <2>3, <2>4, <2>5 DEF RouterInv, TypeOK
  <2>7. \A u \in Thread : /\ pc'[u] = "scanning" <=> pc[u] = "scanning"
                          /\ pc'[u] \in Holding => pc[u] \in Holding
    BY <2>1, <2>5 DEF RouterInv, TypeOK, Holding
  <2> QED BY <1>0, <2>1, <2>6, <2>7 DEF RouterInv, Known
<1>8. ASSUME NEW t \in Thread, Reply(t) \/ Panic(t) PROVE RouterInv'
  <2>1. UNCHANGED <<sessions, lru, router, cursor>> /\ Released(t)
        /\ pc[t] \in {"replying", "refusing", "inside"} /\ stalled' \subseteq stalled
    BY <1>8 DEF Reply, Panic, routing
  <2>2. PICK to \in {"closed", "reading"} : pc' = [pc EXCEPT ![t] = to]
    BY <1>8 DEF Reply, Panic, Go
  <2>3. memory' \in [Runtime -> SUBSET Thread]
    BY <2>1 DEF Released, Kept, RouterInv, TypeOK
  <2>4. lock' \in [Runtime -> Thread \cup {NoThread}]
    BY <2>1 DEF Released, Unlocked, RouterInv, TypeOK
  <2>5. handle' = [handle EXCEPT ![t] = NoRuntime]
        /\ op' = [op EXCEPT ![t] = "ask"] /\ session' = [session EXCEPT ![t] = NoSession]
    BY <2>1 DEF Released
  <2>6. TypeOK'
    BY <2>1, <2>2, <2>3, <2>4, <2>5 DEF RouterInv, TypeOK
  <2>7. \A u \in Thread : /\ pc'[u] = "scanning" <=> pc[u] = "scanning"
                          /\ pc'[u] \in Holding => pc[u] \in Holding /\ handle'[u] = handle[u]
    BY <2>1, <2>2, <2>5 DEF RouterInv, TypeOK, Holding
  <2> QED BY <1>0, <2>1, <2>6, <2>7 DEF RouterInv, Known
<1>9. CASE UNCHANGED vars
  BY <1>0, <1>9 DEF vars, routing, request, RouterInv, TypeOK, Known
<1> QED BY <1>1, <1>2, <1>3, <1>4, <1>5, <1>6, <1>7, <1>8, <1>9 DEF Next

LEMMA RouterInvInit == Init => RouterInv
<1> SUFFICES ASSUME Init PROVE RouterInv
  OBVIOUS
<1>1. TypeOK /\ HandleInv
  BY DEF Init, TypeOK, HandleInv, NeverSplit
<1>2. Once(lru) /\ Listed(lru) = {} /\ Known = {}
  BY DEF Init, Once, Listed, Known
<1> QED BY <1>1, <1>2, SessionsAssumption DEF Init, RouterInv, Holding

\* At every step the LRU order is the map's, the locks are held by the threads that
\* are where they hold them, and runtimes are named once.
THEOREM RouterInvariant == Spec => []RouterInv
BY RouterInvInit, RouterInvStep, PTL DEF Spec

\* Every variable keeps its type; in particular a new runtime always has a name.
THEOREM TypeCorrect == Spec => []TypeOK
<1>1. RouterInv => TypeOK
  BY DEF RouterInv
<1> QED BY <1>1, RouterInvariant, PTL

-----------------------------------------------------------------------------
(* The soft bound.  An entry the scan has passed was in flight when it was  *)
(* looked at and need not be any more; but a thread that dropped its handle *)
(* cannot have another while the router is locked, so the entries passed    *)
(* and the threads that still hold an entry ahead never exceed the others.  *)

Ahead(t) == {u \in Thread : \E i \in cursor[t] .. Len(lru) : u \in InFlight(lru[i])}

ScanInv ==
    \A t \in Thread :
        pc[t] = "scanning" => cursor[t] + Cardinality(Ahead(t)) <= Cardinality(Thread)

CacheInv == RouterInv /\ SoftBound /\ ScanInv

LEMMA CountOfThreads ==
    ASSUME NEW U \in SUBSET Thread
    PROVE  /\ Cardinality(Thread) \in Nat /\ Cardinality(U) \in Nat
           /\ Cardinality(U) <= Cardinality(Thread)
           /\ \A t \in Thread \ U : Cardinality(U) < Cardinality(Thread)
           /\ \A W \in SUBSET U : Cardinality(W) <= Cardinality(U)
           /\ \A u \in U : \A W \in SUBSET (U \ {u}) : Cardinality(W) < Cardinality(U)
<1>1. \A U1 \in SUBSET Thread : IsFiniteSet(U1) /\ Cardinality(U1) \in Nat
  BY SessionsAssumption, FS_Subset, FS_CardinalityType
<1>2. \A U1 \in SUBSET Thread : \A W \in SUBSET U1 :
         /\ Cardinality(W) <= Cardinality(U1)
         /\ Cardinality(U1) = Cardinality(W) => U1 = W
  BY <1>1, FS_Subset
<1>3. \A U1 \in SUBSET Thread : \A W \in SUBSET U1 :
         U1 # W => Cardinality(W) < Cardinality(U1)
  BY <1>1, <1>2
<1> QED BY <1>1, <1>2, <1>3

\* A step that hands out no handle and starts no scan only brings one nearer to
\* its end.
LEMMA ScanGoesOn ==
    ASSUME RouterInv, ScanInv, UNCHANGED <<sessions, lru, cursor>>,
           \A u \in Thread : handle'[u] \in {handle[u], NoRuntime},
           \A u \in Thread : pc'[u] = "scanning" => pc[u] = "scanning"
    PROVE  ScanInv'
<1> SUFFICES ASSUME NEW t \in Thread, pc'[t] = "scanning"
             PROVE  cursor'[t] + Cardinality(Ahead(t)') <= Cardinality(Thread)
  BY DEF ScanInv
<1>1. Ahead(t)' \subseteq Ahead(t) /\ Ahead(t) \subseteq Thread
  BY DEF Ahead, InFlight
<1>2. Cardinality(Ahead(t)') <= Cardinality(Ahead(t))
      /\ Cardinality(Ahead(t)') \in Nat /\ Cardinality(Ahead(t)) \in Nat
      /\ Cardinality(Thread) \in Nat
  BY <1>1, CountOfThreads
<1>3. cursor[t] \in Nat /\ cursor[t] + Cardinality(Ahead(t)) <= Cardinality(Thread)
  BY DEF RouterInv, TypeOK, ScanInv
<1> QED BY <1>2, <1>3

LEMMA ScanBegins ==
    ASSUME RouterInv, RouterInv', NEW t \in Thread, BeginScan(t)
    PROVE  ScanInv'
<1>1. UNCHANGED <<sessions, lru, handle>> /\ router' = t /\ pc[t] = "routing"
  BY DEF BeginScan
<1>2. cursor'[t] = 1 /\ \A u \in Thread : pc'[u] = "scanning" => u = t
  BY <1>1 DEF BeginScan, RouterInv, TypeOK
<1>3. Ahead(t)' \subseteq Thread /\ t \notin Ahead(t)'
  BY <1>1 DEF Ahead, InFlight, RouterInv, HandleInv
<1>4. /\ Cardinality(Ahead(t)') < Cardinality(Thread)
      /\ Cardinality(Ahead(t)') \in Nat /\ Cardinality(Thread) \in Nat
  BY <1>3, CountOfThreads
<1> QED BY <1>2, <1>4 DEF ScanInv

LEMMA ScanPasses ==
    ASSUME RouterInv, ScanInv, NEW t \in Thread, ScanPast(t)
    PROVE  ScanInv'
<1>1. /\ UNCHANGED <<sessions, lru, handle, router, pc>>
      /\ pc[t] = "scanning" /\ cursor[t] \in 1 .. Len(lru)
      /\ cursor'[t] = cursor[t] + 1 /\ router = t
  BY DEF ScanPast, routing, RouterInv, TypeOK
<1>2. \A u \in Thread : pc'[u] = "scanning" => u = t
  BY <1>1 DEF RouterInv
<1> DEFINE c == cursor[t]
<1>3. PICK u \in Thread : u \in InFlight(lru[c])
  <2>1. StrongCount(lru[c]) > 1 /\ InFlight(lru[c]) \subseteq Thread
    BY DEF ScanPast, InFlight
  <2>2. Cardinality(InFlight(lru[c])) # 0
    BY <2>1, CountOfThreads DEF StrongCount
  <2> QED BY <2>1, <2>2, FS_EmptySet
<1>4. Len(lru) \in Nat /\ DOMAIN lru = 1 .. Len(lru)
      /\ \A i \in 1 .. Len(lru) : lru[i] \in Session
  BY LenProperties, ElementOfSeq DEF RouterInv, TypeOK
<1>5. u \in Ahead(t)
  BY <1>1, <1>3, <1>4 DEF Ahead
<1>6. ASSUME NEW i \in c + 1 .. Len(lru) PROVE u \notin InFlight(lru[i])
  <2>1. i \in 1 .. Len(lru) /\ i # c
    BY <1>1, <1>4
  <2>2. lru[i] # lru[c] /\ lru[i] \in Session /\ lru[c] \in Session
    BY <1>1, <1>4, <2>1 DEF RouterInv, Once
  <2> QED BY <1>3, <2>2 DEF InFlight, RouterInv
<1>7. Ahead(t)' \subseteq Ahead(t) \ {u}
  <2>1. Ahead(t)' \subseteq Ahead(t)
    BY <1>1, <1>4 DEF Ahead, InFlight
  <2>2. u \notin Ahead(t)'
    BY <1>1, <1>6 DEF Ahead, InFlight
  <2> QED BY <2>1, <2>2
<1>8. /\ Cardinality(Ahead(t)') < Cardinality(Ahead(t))
      /\ Cardinality(Ahead(t)') \in Nat /\ Cardinality(Ahead(t)) \in Nat
      /\ Cardinality(Thread) \in Nat
  <2>1. Ahead(t) \subseteq Thread /\ Ahead(t)' \subseteq Thread
    BY <1>7 DEF Ahead
  <2> HIDE DEF Ahead
  <2> QED BY <1>5, <1>7, <2>1, CountOfThreads
<1>9. c + Cardinality(Ahead(t)) <= Cardinality(Thread)
  BY <1>1 DEF ScanInv
<1>10. cursor'[t] + Cardinality(Ahead(t)') <= Cardinality(Thread)
  BY <1>1, <1>8, <1>9
<1> QED BY <1>2, <1>10 DEF ScanInv

LEMMA CacheInvStep == CacheInv /\ [Next]_vars => CacheInv'
<1> SUFFICES ASSUME CacheInv, [Next]_vars PROVE CacheInv'
  OBVIOUS
<1>0. RouterInv /\ RouterInv' /\ SoftBound /\ ScanInv
  BY RouterInvStep DEF CacheInv
<1> DEFINE N == Cardinality(Thread)
<1>a. N \in Nat /\ Capacity \in Nat
  BY SessionsAssumption, CountOfThreads
<1>b. Len(lru) = Cardinality(Known) /\ IsFiniteSet(Known) /\ Cardinality(Known) \in Nat
  BY <1>0, OrderCounts, FS_CardinalityType DEF RouterInv, TypeOK
<1>c. ASSUME NEW t \in Thread, Known' \subseteq Known \cup {session[t]}
      PROVE  Cardinality(Known') \in Nat /\ Cardinality(Known') <= Cardinality(Known) + 1
  <2>1. /\ IsFiniteSet(Known \cup {session[t]})
        /\ Cardinality(Known \cup {session[t]}) <= Cardinality(Known) + 1
    <3>1. /\ IsFiniteSet(Known \cup {session[t]})
          /\ Cardinality(Known \cup {session[t]}) =
               IF session[t] \in Known THEN Cardinality(Known) ELSE Cardinality(Known) + 1
      BY <1>b, FS_AddElement, Zenon
    <3> QED BY <1>b, <3>1
  <2>2. IsFiniteSet(Known') /\ Cardinality(Known') <= Cardinality(Known \cup {session[t]})
    BY <1>c, <2>1, FS_Subset
  <2> QED BY <1>b, <2>1, <2>2, FS_CardinalityType
<1>d. ASSUME Known' = Known PROVE SoftBound'
  BY <1>0, <1>d DEF SoftBound
<1>e. ASSUME NEW t \in Thread, Route(t) \/ Evict(t) \/ Exceed(t) PROVE ScanInv'
  <2>1. router' = NoThread
    BY <1>e DEF Route, Evict, Exceed, Grant
  <2>2. \A u \in Thread : pc'[u] # "scanning"
    BY <1>0, <2>1, SessionsAssumption DEF RouterInv
  <2> QED BY <2>2 DEF ScanInv
<1>1. ASSUME NEW t \in Thread, Route(t) PROVE CacheInv'
  <2>1. Known' = Known \cup {session[t]}
    <3>1. /\ Grant(t, sessions, lru) /\ UNCHANGED <<lock, request, stalled>>
          /\ pc[t] \in {"routing", "scanning"} /\ router \in {NoThread, t}
      BY <1>1 DEF Route
    <3>2. /\ sessions \in [Session -> Runtime \cup {NoRuntime}]
          /\ \A s \in Session : sessions[s] # NoRuntime => sessions[s][1] = s
          /\ lru \in Seq(Session) /\ Once(lru)
          /\ Listed(lru) = {s \in Session : sessions[s] # NoRuntime}
      BY <1>0 DEF RouterInv, TypeOK, Known
    <3> QED BY <1>0, <3>1, <3>2, GrantRoutes DEF RouterInv, Known
  <2>1a. Cardinality(Known') \in Nat /\ Cardinality(Known') <= Cardinality(Known) + 1
    BY <1>c, <2>1
  <2>2. SoftBound'
    <3>1. CASE session[t] \in Known
      BY <1>d, <2>1, <3>1
    <3>2. CASE ~Full
      <4>1. Cardinality(Known') <= Capacity
        BY <1>a, <1>b, <2>1a, <3>2 DEF Full
      <4> QED BY <4>1 DEF SoftBound
    <3> QED BY <1>1, <3>1, <3>2 DEF Route
  <2> QED BY <1>0, <1>e, <1>1, <2>2 DEF CacheInv
<1>2. ASSUME NEW t \in Thread, Exceed(t) PROVE CacheInv'
  <2>1. Known' = Known \cup {session[t]}
    <3>1. /\ Grant(t, sessions, lru) /\ UNCHANGED <<lock, request, stalled>>
          /\ pc[t] \in {"routing", "scanning"} /\ router \in {NoThread, t}
      BY <1>0, <1>2 DEF Exceed, RouterInv
    <3>2. /\ sessions \in [Session -> Runtime \cup {NoRuntime}]
          /\ \A s \in Session : sessions[s] # NoRuntime => sessions[s][1] = s
          /\ lru \in Seq(Session) /\ Once(lru)
          /\ Listed(lru) = {s \in Session : sessions[s] # NoRuntime}
      BY <1>0 DEF RouterInv, TypeOK, Known
    <3> QED BY <1>0, <3>1, <3>2, GrantRoutes DEF RouterInv, Known
  <2>2. cursor[t] > Len(lru) /\ cursor[t] \in Nat
        /\ cursor[t] + Cardinality(Ahead(t)) <= N
    BY <1>0, <1>2 DEF Exceed, ScanInv, RouterInv, TypeOK
  <2>3. Cardinality(Ahead(t)) \in Nat
    BY CountOfThreads DEF Ahead
  <2>4. Cardinality(Known) + 1 <= N
    BY <1>a, <1>b, <2>2, <2>3
  <2>5. SoftBound'
    <3>1. Cardinality(Known') \in Nat /\ Cardinality(Known') <= Cardinality(Known) + 1
      BY <1>c, <2>1
    <3>2. Cardinality(Known') <= Cardinality(Thread)
      BY <1>a, <1>b, <2>4, <3>1
    <3> QED BY <3>2 DEF SoftBound
  <2> QED BY <1>0, <1>e, <1>2, <2>5 DEF CacheInv
<1>3. ASSUME NEW t \in Thread, Evict(t) PROVE CacheInv'
  <2> DEFINE victim == lru[cursor[t]]
             map    == [sessions EXCEPT ![victim] = NoRuntime]
             order  == Without(lru, victim)
  <2>1. Grant(t, map, order) /\ UNCHANGED <<lock, request, stalled>>
        /\ pc[t] \in {"routing", "scanning"} /\ router \in {NoThread, t}
    BY <1>0, <1>3 DEF Evict, RouterInv
  <2>2. /\ victim \in Known
        /\ map \in [Session -> Runtime \cup {NoRuntime}]
        /\ \A s \in Session : map[s] # NoRuntime => map[s][1] = s
        /\ order \in Seq(Session) /\ Once(order)
        /\ Listed(order) = {s \in Session : map[s] # NoRuntime}
        /\ Listed(order) = Known \ {victim}
    BY <1>0, <1>3, EvictedRoutes
  <2> HIDE DEF victim, map, order
  <2>3. Known' = (Known \ {victim}) \cup {session[t]}
    BY <1>0, <2>1, <2>2, GrantRoutes DEF RouterInv
  <2>4. /\ IsFiniteSet(Known \ {victim})
        /\ Cardinality(Known \ {victim}) = Cardinality(Known) - 1
    BY <1>b, <2>2, FS_RemoveElement
  <2>5. /\ IsFiniteSet(Known') /\ Cardinality(Known') \in Nat
        /\ Cardinality(Known') <= Cardinality(Known)
    <3> DEFINE rest == Known \ {victim}
    <3>1. IsFiniteSet(rest) /\ Cardinality(rest) = Cardinality(Known) - 1
          /\ Known' = rest \cup {session[t]}
      BY <2>3, <2>4
    <3> HIDE DEF rest
    <3>2. /\ IsFiniteSet(rest \cup {session[t]})
          /\ \/ Cardinality(rest \cup {session[t]}) = Cardinality(rest)
             \/ Cardinality(rest \cup {session[t]}) = Cardinality(rest) + 1
      BY <3>1, FS_AddElement
    <3> QED BY <1>b, <3>1, <3>2, FS_CardinalityType
  <2>6. SoftBound'
    BY <1>0, <1>a, <1>b, <2>5 DEF SoftBound
  <2> QED BY <1>0, <1>e, <1>3, <2>6 DEF CacheInv
<1>4. ASSUME NEW t \in Thread, BeginScan(t) PROVE CacheInv'
  <2>1. Known' = Known
    BY <1>4 DEF BeginScan, Known
  <2> QED BY <1>0, <1>d, <1>4, <2>1, ScanBegins DEF CacheInv
<1>5. ASSUME NEW t \in Thread, ScanPast(t) PROVE CacheInv'
  <2>1. Known' = Known
    BY <1>5 DEF ScanPast, routing, Known
  <2> QED BY <1>0, <1>d, <1>5, <2>1, ScanPasses DEF CacheInv
<1>6. ASSUME NEW t \in Thread,
             \/ Accept(t) \/ Hangup(t) \/ Stall(t) \/ Enter(t) \/ Work(t)
             \/ Reply(t) \/ Panic(t)
             \/ \E o \in {"ask", "ingest"}, s \in Session : Read(t, o, s)
      PROVE  CacheInv'
  <2>1. UNCHANGED <<sessions, lru, router, cursor>>
    BY <1>6 DEF Accept, Hangup, Stall, Enter, Work, Reply, Panic, Read, routing
  <2>2. handle' \in {handle, [handle EXCEPT ![t] = NoRuntime]}
    BY <1>6 DEF Accept, Hangup, Stall, Enter, Work, Reply, Panic, Read, Released
  <2>3. \A u \in Thread : handle'[u] \in {handle[u], NoRuntime}
    BY <1>0, <2>2 DEF RouterInv, TypeOK
  <2>4. \A u \in Thread : pc'[u] = "scanning" => pc[u] = "scanning"
    BY <1>0, <2>1 DEF RouterInv
  <2>5. Known' = Known
    BY <2>1 DEF Known
  <2> QED BY <1>0, <1>d, <2>1, <2>3, <2>4, <2>5, ScanGoesOn DEF CacheInv
<1>7. CASE UNCHANGED vars
  BY <1>0, <1>7 DEF vars, routing, CacheInv, SoftBound, ScanInv, Known, Ahead, InFlight
<1> QED BY <1>1, <1>2, <1>3, <1>4, <1>5, <1>6, <1>7 DEF Next

\* The LRU order lists the sessions of the map, each once, and there are never
\* more of them than the capacity, or than the threads that may keep them in
\* flight, although the scan acts on counts that other threads make stale.
THEOREM CacheStaysBounded == Spec => []CacheIsBounded
<1>1. Init => CacheInv
  <2> SUFFICES ASSUME Init PROVE CacheInv
    OBVIOUS
  <2>1. Known = {}
    BY DEF Init, Known
  <2>2. SoftBound
    BY <2>1, SessionsAssumption, FS_EmptySet DEF SoftBound
  <2> QED BY <2>2, RouterInvInit DEF Init, CacheInv, ScanInv
<1>2. CacheInv => CacheIsBounded
  <2> SUFFICES ASSUME CacheInv PROVE CacheIsBounded
    OBVIOUS
  <2>1. Len(lru) = Cardinality(Known) /\ Listed(lru) = Known
    BY OrderCounts DEF CacheInv, RouterInv, TypeOK
  <2> QED BY <2>1 DEF CacheInv, CacheIsBounded, LruMatchesMap, Listed
<1> QED BY <1>1, <1>2, CacheInvStep, PTL DEF Spec

-----------------------------------------------------------------------------
(* Memory.  What is stored is in a runtime the thread that stored it still *)
(* refers to, and a runtime somebody refers to keeps its memory.           *)

AckInv ==
    \A t \in Thread :
        pc[t] = "replying" /\ op[t] = "ingest" => t \in memory[handle[t]]

\* Every drop of a reference, the others' included.
LEMMA OthersRemember ==
    ASSUME RouterInv, AckInv, NEW t \in Thread,
           memory' = Kept(sessions', handle', memory), pc'[t] # "replying",
           \A u \in Thread \ {t} : /\ pc'[u] = pc[u] /\ op'[u] = op[u]
                                  /\ handle'[u] = handle[u]
    PROVE  AckInv'
<1> SUFFICES ASSUME NEW u \in Thread, pc'[u] = "replying", op'[u] = "ingest"
             PROVE  u \in memory'[handle'[u]]
  BY DEF AckInv
<1>1. u # t /\ handle'[u] = handle[u] /\ pc[u] = "replying" /\ op[u] = "ingest"
  OBVIOUS
<1>2. u \in memory[handle[u]] /\ handle[u] \in Runtime
  BY <1>1 DEF AckInv, RouterInv, TypeOK, Holding
<1>3. memory'[handle[u]] = memory[handle[u]]
  BY <1>1, <1>2 DEF Kept
<1> QED BY <1>1, <1>2, <1>3

LEMMA AckInvStep == RouterInv /\ AckInv /\ [Next]_vars => AckInv'
<1> SUFFICES ASSUME RouterInv, AckInv, [Next]_vars PROVE AckInv'
  OBVIOUS
<1>0. /\ pc = [u \in Thread |-> pc[u]] /\ handle = [u \in Thread |-> handle[u]]
      /\ op = [u \in Thread |-> op[u]] /\ memory = [r \in Runtime |-> memory[r]]
  BY DEF RouterInv, TypeOK
<1>1. ASSUME NEW t \in Thread,
             \/ Accept(t) \/ Hangup(t) \/ Stall(t) \/ Enter(t) \/ BeginScan(t) \/ ScanPast(t)
             \/ \E o \in {"ask", "ingest"}, s \in Session : Read(t, o, s)
      PROVE  AckInv'
  <2>1. UNCHANGED <<handle, memory>>
    BY <1>1 DEF Accept, Hangup, Stall, Enter, BeginScan, ScanPast, Read
  <2>2. CASE Stall(t) \/ ScanPast(t)
    <3>1. UNCHANGED <<pc, op>>
      BY <2>2 DEF Stall, ScanPast, request
    <3> QED BY <2>1, <3>1 DEF AckInv
  <2>3. CASE Accept(t) \/ Hangup(t) \/ Enter(t) \/ BeginScan(t)
    <3>1. UNCHANGED op /\ \E to \in {"closed", "reading", "inside", "scanning"} :
                             pc' = [pc EXCEPT ![t] = to]
      BY <2>3 DEF Accept, Hangup, Enter, BeginScan, Go, request
    <3> QED BY <1>0, <2>1, <3>1 DEF AckInv
  <2>4. CASE \E o \in {"ask", "ingest"}, s \in Session : Read(t, o, s)
    <3>1. /\ pc' = [pc EXCEPT ![t] = "routing"]
          /\ \E o \in {"ask", "ingest"} : op' = [op EXCEPT ![t] = o]
      BY <2>4 DEF Read, Go
    <3> QED BY <1>0, <2>1, <3>1 DEF AckInv
  <2> QED BY <1>1, <2>2, <2>3, <2>4
<1>2. ASSUME NEW t \in Thread, Route(t) \/ Evict(t) \/ Exceed(t) PROVE AckInv'
  <2>1. PICK r : handle' = [handle EXCEPT ![t] = r]
    BY <1>2 DEF Route, Evict, Exceed, Grant
  <2>2. /\ memory' = Kept(sessions', handle', memory) /\ UNCHANGED op
        /\ pc' = [pc EXCEPT ![t] = "locking"]
    BY <1>2 DEF Route, Evict, Exceed, Grant, Go, request
  <2> QED BY <1>0, <2>1, <2>2, OthersRemember
<1>3. ASSUME NEW t \in Thread, Work(t) PROVE AckInv'
  <2>1. UNCHANGED <<handle, op>> /\ pc[t] = "inside"
    BY <1>3 DEF Work, request
  <2>2. handle[t] \in Runtime
    BY <2>1 DEF RouterInv, TypeOK, Holding
  <2>3. \/ memory' = memory
        \/ memory' = [memory EXCEPT ![handle[t]] = memory[handle[t]] \cup {t}]
    BY <1>3 DEF Work
  <2>4. \A r \in Runtime : memory[r] \subseteq memory'[r]
    BY <1>0, <2>2, <2>3
  <2>5. \A u \in Thread \ {t} : pc'[u] = pc[u]
    BY <1>0, <1>3 DEF Work, Go
  <2>6. \A u \in Thread \ {t} :
           pc'[u] = "replying" /\ op'[u] = "ingest" => u \in memory'[handle'[u]]
    BY <2>1, <2>4, <2>5 DEF AckInv, RouterInv, TypeOK, Holding
  <2>7. pc'[t] = "replying" /\ op'[t] = "ingest" => t \in memory'[handle'[t]]
    BY <1>0, <1>3, <2>1, <2>2 DEF Work, Go
  <2> QED BY <2>6, <2>7 DEF AckInv
<1>4. ASSUME NEW t \in Thread, Reply(t) \/ Panic(t) PROVE AckInv'
  <2>1. PICK to \in {"closed", "reading"} : pc' = [pc EXCEPT ![t] = to]
    BY <1>4 DEF Reply, Panic, Go
  <2>2. /\ memory' = Kept(sessions, handle', memory) /\ UNCHANGED sessions
        /\ op' = [op EXCEPT ![t] = "ask"] /\ handle' = [handle EXCEPT ![t] = NoRuntime]
    BY <1>4 DEF Reply, Panic, Released, routing
  <2> QED BY <1>0, <2>1, <2>2, OthersRemember
<1>5. CASE UNCHANGED vars
  BY <1>5 DEF vars, request, AckInv
<1> QED BY <1>1, <1>2, <1>3, <1>4, <1>5 DEF Next

\* What a client is being told was stored is in the memory of the runtime that
\* serves its session, whatever was evicted meanwhile.
THEOREM AcknowledgedRemembered == Spec => []AcknowledgedIsRemembered
<1>1. Init => AckInv
  BY DEF Init, AckInv
<1>2. RouterInv /\ AckInv => AcknowledgedIsRemembered
  <2> SUFFICES ASSUME RouterInv, AckInv, NEW t \in Thread,
                      pc[t] = "replying", op[t] = "ingest"
               PROVE  \E r \in Runtime : r = sessions[session[t]] /\ t \in memory[r]
    BY DEF AcknowledgedIsRemembered
  <2>1. handle[t] \in Runtime /\ handle[t] # NoRuntime /\ t \in memory[handle[t]]
    BY DEF RouterInv, TypeOK, Holding, AckInv
  <2>2. sessions[session[t]] = handle[t]
    BY <2>1 DEF RouterInv, HandleInv, NeverSplit
  <2> QED BY <2>1, <2>2
<1> QED BY <1>1, <1>2, AckInvStep, RouterInvariant, PTL DEF Spec
=============================================================================
