------------------------------ MODULE Sessions ------------------------------
(***************************************************************************)
(* Session sharding (sessions.rs): a router maps a session id to the one   *)
(* runtime that holds the conversation, a thread per connection routes     *)
(* under the router's lock, works under the runtime's lock and answers.    *)
(* Eviction reads Arc::strong_count while other threads drop their         *)
(* handles, so the scan for a victim is a step per entry.                  *)
(*                                                                         *)
(* A runtime is named by the session it was made for and a number no other *)
(* runtime in use has; its memory is the set of connections whose ingests  *)
(* it holds.  The counter of evictions is left out.                        *)
(***************************************************************************)
EXTENDS Naturals, FiniteSets, Sequences

CONSTANTS
    Thread,        \* connections served, each by a thread of its own
    Session,       \* session ids
    Capacity,
    NoThread, NoRuntime, NoSession

ASSUME SessionsAssumption ==
    /\ Capacity \in Nat \ {0}
    /\ IsFiniteSet(Thread) /\ IsFiniteSet(Session)
    /\ NoThread \notin Thread /\ NoSession \notin Session

\* Enough numbers for the map and every thread to hold another runtime.
Runtime == Session \X (0 .. Cardinality(Thread))

ASSUME NoRuntimeAssumption == NoRuntime \notin Runtime

VARIABLES
    sessions,      \* sessions[s]: the runtime the map holds for s, or NoRuntime
    lru,           \* oldest first
    router,        \* the thread that holds the router's lock while it scans
    memory,        \* memory[r]: what was ingested into r
    lock,          \* lock[r]: the thread that holds r's mutex
    pc, op, session, handle, cursor,   \* per thread
    stalled        \* connections whose client neither sends nor reads any more

routing == <<sessions, lru, router>>
request == <<op, session>>
vars == <<routing, memory, lock, pc, request, handle, cursor, stalled>>

-----------------------------------------------------------------------------
Known == {s \in Session : sessions[s] # NoRuntime}

InFlight(s) == {t \in Thread : handle[t] # NoRuntime /\ handle[t] = sessions[s]}

\* Arc::strong_count: the map's reference and one per handle.
StrongCountOfMap(s) == 1
StrongCount(s) == 1 + Cardinality(InFlight(s))

Spare(s, map) == {n \in 0 .. Cardinality(Thread) :
                    /\ map[s] # <<s, n>>
                    /\ \A t \in Thread : handle[t] # <<s, n>>}

\* Dcr::new for session s.
Fresh(s, map) == <<s, CHOOSE n \in Spare(s, map) : \A m \in Spare(s, map) : n <= m>>

\* A runtime nothing refers to any more is dropped with its memory.
Kept(map, held, mem) ==
    [r \in Runtime |->
        IF (\E s \in Session : map[s] = r) \/ (\E t \in Thread : held[t] = r)
        THEN mem[r] ELSE {}]

\* VecDeque::retain: what is left of q keeps its order.
Without(q, s) ==
    LET left    == {i \in DOMAIN q : q[i] # s}
        rank(i) == Cardinality({k \in left : k <= i})
    IN  [j \in 1 .. Cardinality(left) |-> q[CHOOSE i \in left : rank(i) = j]]

Init ==
    /\ sessions = [s \in Session |-> NoRuntime] /\ lru = <<>> /\ router = NoThread
    /\ memory = [r \in Runtime |-> {}] /\ lock = [r \in Runtime |-> NoThread]
    /\ pc = [t \in Thread |-> "closed"]
    /\ op = [t \in Thread |-> "ask"] /\ session = [t \in Thread |-> NoSession]
    /\ handle = [t \in Thread |-> NoRuntime] /\ cursor = [t \in Thread |-> 0]
    /\ stalled = {}

Go(t, to) == pc' = [pc EXCEPT ![t] = to]

\* serve(): a connection is accepted and gets a thread.
Accept(t) ==
    /\ pc[t] = "closed"
    /\ Go(t, "reading")
    /\ UNCHANGED <<routing, memory, lock, request, handle, cursor, stalled>>

\* A whole command, and its body, has been read.
Read(t, o, s) ==
    /\ pc[t] = "reading" /\ t \notin stalled
    /\ op' = [op EXCEPT ![t] = o] /\ session' = [session EXCEPT ![t] = s]
    /\ Go(t, "routing")
    /\ UNCHANGED <<routing, memory, lock, handle, cursor, stalled>>

\* End of input, a read error, a truncated body or the read timeout.
Hangup(t) ==
    /\ pc[t] = "reading"
    /\ stalled' = stalled \ {t}
    /\ Go(t, "closed")
    /\ UNCHANGED <<routing, memory, lock, request, handle, cursor>>

\* The client goes silent, with the connection still open.
Stall(t) ==
    /\ pc[t] # "closed"
    /\ stalled' = stalled \cup {t}
    /\ UNCHANGED <<routing, memory, lock, pc, request, handle, cursor>>

\* The end of route(): a runtime for the session, new or not, touched in the
\* LRU order, and a handle for the thread; the router's lock is released.
GrantAnew(t, map, order) ==
    LET s == session[t]
        r == Fresh(s, map)
    IN  /\ sessions' = [map EXCEPT ![s] = r]
        /\ lru' = Append(Without(order, s), s)
        /\ handle' = [handle EXCEPT ![t] = r]
        /\ memory' = Kept(sessions', handle', memory)
        /\ cursor' = [cursor EXCEPT ![t] = 0]
        /\ router' = NoThread
        /\ Go(t, "locking")
Grant(t, map, order) ==
    LET s == session[t]
        r == IF map[s] # NoRuntime THEN map[s] ELSE Fresh(s, map)
    IN  /\ sessions' = [map EXCEPT ![s] = r]
        /\ lru' = Append(Without(order, s), s)
        /\ handle' = [handle EXCEPT ![t] = r]
        /\ memory' = Kept(sessions', handle', memory)
        /\ cursor' = [cursor EXCEPT ![t] = 0]
        /\ router' = NoThread
        /\ Go(t, "locking")

FullBeyond == Cardinality(Known) > Capacity + Cardinality(Thread)
Full == Cardinality(Known) >= Capacity

\* route() when nothing need be evicted.
Route(t) ==
    /\ pc[t] = "routing" /\ router = NoThread
    /\ session[t] \in Known \/ ~Full
    /\ Grant(t, sessions, lru)
    /\ UNCHANGED <<lock, request, stalled>>

BeginScan(t) ==
    /\ pc[t] = "routing" /\ router = NoThread
    /\ session[t] \notin Known /\ Full
    /\ router' = t /\ cursor' = [cursor EXCEPT ![t] = 1]
    /\ Go(t, "scanning")
    /\ UNCHANGED <<sessions, lru, memory, lock, request, handle, stalled>>

\* An entry somebody is mid-request on is passed over...
ScanPast(t) ==
    /\ pc[t] = "scanning" /\ cursor[t] <= Len(lru)
    /\ StrongCount(lru[cursor[t]]) > 1
    /\ cursor' = [cursor EXCEPT ![t] = @ + 1]
    /\ UNCHANGED <<routing, memory, lock, pc, request, handle, stalled>>

\* ...the first that nobody is goes, with its memory...
Evict(t) ==
    /\ pc[t] = "scanning" /\ cursor[t] <= Len(lru)
    /\ StrongCount(lru[cursor[t]]) = 1
    /\ Grant(t, [sessions EXCEPT ![lru[cursor[t]]] = NoRuntime],
             Without(lru, lru[cursor[t]]))
    /\ UNCHANGED <<lock, request, stalled>>

\* ...and when all are in flight the capacity is exceeded.
Exceed(t) ==
    /\ pc[t] = "scanning" /\ cursor[t] > Len(lru)
    /\ Grant(t, sessions, lru)
    /\ UNCHANGED <<lock, request, stalled>>

Enter(t) ==
    /\ pc[t] = "locking" /\ lock[handle[t]] = NoThread
    /\ lock' = [lock EXCEPT ![handle[t]] = t]
    /\ Go(t, "inside")
    /\ UNCHANGED <<routing, memory, request, handle, cursor, stalled>>

Unlocked(t) == [r \in Runtime |-> IF lock[r] = t THEN NoThread ELSE lock[r]]

\* ask() gives an answer and the guard goes with its statement; ingest() stores
\* the body or fails, and its guard lives until the match over its result ends.
WorkHoldingGuard(t) ==
    /\ pc[t] = "inside"
    /\ \/ /\ op[t] = "ask" /\ UNCHANGED <<memory, lock>>
          /\ Go(t, "replying")
       \/ /\ op[t] = "ingest"
          /\ memory' = [memory EXCEPT ![handle[t]] = @ \cup {t}] /\ UNCHANGED lock
          /\ Go(t, "replying")
       \/ /\ op[t] = "ingest"
          /\ UNCHANGED <<memory, lock>>
          /\ Go(t, "refusing")
    /\ UNCHANGED <<routing, request, handle, cursor, stalled>>
Work(t) ==
    /\ pc[t] = "inside"
    /\ \/ /\ op[t] = "ask"
          /\ lock' = Unlocked(t) /\ UNCHANGED memory
          /\ Go(t, "replying")
       \/ /\ op[t] = "ingest"
          /\ memory' = [memory EXCEPT ![handle[t]] = @ \cup {t}] /\ UNCHANGED lock
          /\ Go(t, "replying")
       \/ /\ op[t] = "ingest"
          /\ UNCHANGED <<memory, lock>>
          /\ Go(t, "refusing")
    /\ UNCHANGED <<routing, request, handle, cursor, stalled>>

\* The end of the request's scope: the handle goes, and the guard if still held.
Released(t) ==
    /\ handle' = [handle EXCEPT ![t] = NoRuntime]
    /\ memory' = Kept(sessions, handle', memory)
    /\ lock' = Unlocked(t)
    /\ op' = [op EXCEPT ![t] = "ask"] /\ session' = [session EXCEPT ![t] = NoSession]

\* respond(): a write with no deadline, which a silent client may hold up.
Reply(t) ==
    /\ pc[t] \in {"replying", "refusing"}
    /\ Released(t)
    /\ Go(t, "reading")
    /\ UNCHANGED <<routing, cursor, stalled>>

\* A panicking turn ends its thread; the poisoned lock is recovered by the next.
Panic(t) ==
    /\ pc[t] = "inside"
    /\ Released(t)
    /\ stalled' = stalled \ {t}
    /\ Go(t, "closed")
    /\ UNCHANGED <<routing, cursor>>

Next ==
    \E t \in Thread :
        \/ Accept(t) \/ Hangup(t) \/ Stall(t)
        \/ \E o \in {"ask", "ingest"}, s \in Session : Read(t, o, s)
        \/ Route(t) \/ BeginScan(t) \/ ScanPast(t) \/ Evict(t) \/ Exceed(t)
        \/ Enter(t) \/ Work(t) \/ Reply(t) \/ Panic(t)

\* The server's own steps are taken by running threads; a read times out; a
\* client that is not silent reads its answer.
Fairness ==
    \A t \in Thread :
        /\ WF_vars(Route(t) \/ BeginScan(t) \/ ScanPast(t) \/ Evict(t) \/ Exceed(t))
        /\ WF_vars(Enter(t)) /\ WF_vars(Work(t))
        /\ WF_vars(t \notin stalled /\ Reply(t))
        /\ WF_vars(t \in stalled /\ Hangup(t))

Spec == Init /\ [][Next]_vars /\ Fairness

-----------------------------------------------------------------------------
TypeOK ==
    /\ sessions \in [Session -> Runtime \cup {NoRuntime}]
    /\ lru \in Seq(Session)
    /\ router \in Thread \cup {NoThread}
    /\ memory \in [Runtime -> SUBSET Thread]
    /\ lock \in [Runtime -> Thread \cup {NoThread}]
    /\ pc \in [Thread -> {"closed", "reading", "routing", "scanning", "locking",
                          "inside", "replying", "refusing"}]
    /\ op \in [Thread -> {"ask", "ingest"}]
    /\ session \in [Thread -> Session \cup {NoSession}]
    /\ handle \in [Thread -> Runtime \cup {NoRuntime}]
    /\ cursor \in [Thread -> Nat]
    /\ stalled \subseteq Thread

\* A conversation is never split: whoever serves a request of a session holds
\* the runtime the map holds for it, so two requests in flight share it.
NeverSplit ==
    \A t \in Thread : handle[t] # NoRuntime => sessions[session[t]] = handle[t]

\* The LRU order lists exactly the sessions of the map, each once: eviction
\* never looks for a session that is gone, nor forgets one that is there.
LruMatchesMap ==
    /\ {lru[i] : i \in DOMAIN lru} = Known
    /\ Len(lru) = Cardinality(Known)

\* What a client is being told was stored is in the session's memory.
AcknowledgedIsRemembered ==
    \A t \in Thread :
        pc[t] = "replying" /\ op[t] = "ingest" =>
            \E r \in Runtime : r = sessions[session[t]] /\ t \in memory[r]

\* The soft bound: never more sessions than the capacity, or than there are
\* threads to keep them in flight, even though the scan's counts go stale.
SoftBound ==
    \/ Cardinality(Known) <= Capacity
    \/ Cardinality(Known) <= Cardinality(Thread)

\* The cache of sessions is the map its order says, and stays bounded.
CacheIsBounded == LruMatchesMap /\ SoftBound

\* The scan ends, whatever the other threads do meanwhile: the lock every
\* request needs is given back.
RouterIsFreed == \A t \in Thread : router = t ~> router # t

\* A session's lock is given back, even by a client that went silent, unless an
\* ingest was writing its answer to it.
RuntimeIsFreed ==
    \A t \in Thread :
        pc[t] = "inside" ~> \/ \A r \in Runtime : lock[r] # t
                            \/ op[t] = "ingest" /\ t \in stalled

\* Neither kind of lock is kept for ever.
LocksAreFreed == RouterIsFreed /\ RuntimeIsFreed

-----------------------------------------------------------------------------
(* Statements of the source that the code does not keep.                   *)

\* sessions.rs:130-132: "a connection that stops talking must eventually cost
\* nothing".  Reads have a deadline, writes have none.
SilenceCostsNothing == \A t \in Thread : t \in stalled ~> t \notin stalled
=============================================================================
