---------------------------- MODULE SavedSession ----------------------------
(***************************************************************************)
(* A session that outlives its process (runtime.rs): save and load of one  *)
(* file, save_context and open_context of a container of immutable         *)
(* objects, between which the graph goes on changing.  A process may die   *)
(* at any point, in the middle of either save included.                    *)
(*                                                                         *)
(* Restoring pushes every stored node, two versions of one id included, so *)
(* here the graph is what the code keeps: a list of nodes, the index an id *)
(* resolves to and the indices that are live.  Of a node only what the     *)
(* formats treat differently is kept.  How a container seals and checks    *)
(* its objects is ContextStore's subject.                                  *)
(***************************************************************************)
EXTENDS Naturals, FiniteSets, Sequences, SequencesExt

CONSTANTS
    Id,              \* node ids, claims of one key, each of a document of its own
    Budget,          \* B_attention, in documents
    MaxCalls,        \* bound on the calls explored
    NoFile, Torn

VARIABLES
    up,              \* a process runs
    nodes,           \* graph.nodes: [id, status, ts, whether l1 and l0_sizes are cached]
    byId,            \* graph.by_id: an index for each id, 0 for none
    live,            \* graph.live_by_key: indices
    edges,           \* graph.out_edges: revisions between indices
    queue,           \* graph.pending_invalidation: indices
    clock,
    uses,            \* Node.admits, by index
    evidence,        \* indexer.evidence_by_span: documents with evidence on record
    history,         \* telemetry.history_tokens, in documents
    file,            \* the .dcr.json: NoFile, Torn or what it holds
    container,       \* objects of the container: nodes, edges, usage
    ahead,           \* objects a save put and did not live to commit
    kept,            \* the sessions the last save and save_context that returned wrote
    restored,        \* how the present process came by its session
    calls

graph   == <<nodes, byId, live, edges, queue, clock>>
session == <<graph, uses, evidence, history>>
disk    == <<file, container, ahead>>
vars    == <<up, session, disk, kept, restored, calls>>

ASSUME SavedAssumption ==
    /\ IsFiniteSet(Id) /\ Id # {}
    /\ Budget \in Nat /\ MaxCalls \in Nat

LiveStatus == {"fresh", "contradicted"}
Status == LiveStatus \cup {"stale", "superseded"}
NodeRecord == [id : Id, status : Status, ts : Nat, l1 : BOOLEAN, sized : BOOLEAN]

\* A node as it is written, in either format, and as it is read back: its summary
\* is kept, the sizes of its spans are not.
NodeToJson(r) == [id |-> r.id, status |-> r.status, ts |-> r.ts, l1 |-> r.l1]
NodeFromJson(j) ==
    [id |-> j.id, status |-> j.status, ts |-> j.ts, l1 |-> j.l1, sized |-> FALSE]
AllToJson(ns) == [i \in DOMAIN ns |-> NodeToJson(ns[i])]
AllFromJson(js) == [i \in DOMAIN js |-> NodeFromJson(js[i])]

Empty == [nodes |-> {}, edges |-> {}, usage |-> {}]

Greatest(S) == CHOOSE x \in S \cup {0} : \A y \in S : y <= x

-----------------------------------------------------------------------------
(* The session at work.                                                    *)

\* Edges by id, as both formats write them.
Edge(i, j, kind) == [src |-> i, dst |-> j, kind |-> kind]
NamedEdges == {[e EXCEPT !.src = nodes[e.src].id, !.dst = nodes[e.dst].id] : e \in edges}

Session == [nodes |-> nodes, edges |-> NamedEdges, clock |-> clock, uses |-> uses,
            evidence |-> evidence, history |-> history, queue |-> queue]

\* A process starts over an empty store: Dcr::new.
Blank ==
    /\ nodes' = <<>> /\ byId' = [n \in Id |-> 0] /\ live' = {} /\ edges' = {}
    /\ queue' = {} /\ clock' = 0 /\ uses' = <<>> /\ evidence' = {} /\ history' = 0

Init ==
    /\ up = TRUE
    /\ nodes = <<>> /\ byId = [n \in Id |-> 0] /\ live = {} /\ edges = {}
    /\ queue = {} /\ clock = 0 /\ uses = <<>> /\ evidence = {} /\ history = 0
    /\ file = NoFile /\ container = Empty /\ ahead = {}
    /\ kept = [file |-> Session, container |-> Session] /\ restored = "new" /\ calls = 0

Working == up /\ UNCHANGED <<up, disk, kept, restored>>

\* A document that states n: upsert() admits it, or puts it in the place of the
\* node its id resolves to.  The rivals found live are superseded, or both sides
\* are marked as contested; neither changes a rival's timestamp.
Ingest(n) ==
    /\ Working
    /\ clock' = clock + 1
    /\ history' = history + 1 /\ evidence' = evidence \cup {n}
    /\ LET i      == IF byId[n] = 0 THEN Len(nodes) + 1 ELSE byId[n]
           rivals == {j \in live : nodes[j].id # n}
           born   == [id |-> n, status |-> "fresh", ts |-> clock',
                     l1 |-> FALSE, sized |-> FALSE]
           put    == IF i > Len(nodes) THEN Append(nodes, born) ELSE [nodes EXCEPT ![i] = born]
       IN  /\ byId' = [byId EXCEPT ![n] = i]
           /\ uses' = IF i > Len(nodes) THEN Append(uses, 0) ELSE uses
           /\ \/ /\ nodes' = [j \in DOMAIN put |->
                      IF j \in rivals THEN [put[j] EXCEPT !.status = "superseded"] ELSE put[j]]
                 /\ live' = (live \ rivals) \cup {i}
                 /\ edges' = edges \cup {Edge(i, j, "supersedes") : j \in rivals}
              \/ /\ rivals # {}
                 /\ nodes' = [j \in DOMAIN put |->
                      IF j \in rivals \cup {i} /\ put[j].status = "fresh"
                      THEN [put[j] EXCEPT !.status = "contradicted"] ELSE put[j]]
                 /\ live' = live \cup {i}
                 /\ edges' = edges \cup UNION {{Edge(i, j, "contradicts"),
                                                Edge(j, i, "contradicts")} : j \in rivals}
    /\ UNCHANGED queue

\* invalidate(): stale, or deferred.
Invalidate(i) ==
    /\ Working
    /\ nodes[i].status \in LiveStatus
    /\ \/ nodes' = [nodes EXCEPT ![i].status = "stale"] /\ UNCHANGED queue
       \/ queue' = queue \cup {i} /\ UNCHANGED nodes
    /\ UNCHANGED <<byId, live, edges, clock, uses, evidence, history>>

\* revalidate(): fresh, at a new time, its cheap levels dropped.
Revalidate(i) ==
    /\ Working
    /\ nodes[i].status = "stale"
    /\ clock' = clock + 1
    /\ nodes' = [nodes EXCEPT ![i].status = "fresh", ![i].ts = clock', ![i].l1 = FALSE]
    /\ UNCHANGED <<byId, live, edges, queue, uses, evidence, history>>

\* A plan that shows node i: its admission is counted, its sizes and, where it has
\* one, its summary cached.
Read(i) ==
    /\ Working
    /\ nodes[i].status \in LiveStatus
    /\ \E cached \in {nodes[i].l1, TRUE} :
         nodes' = [nodes EXCEPT ![i].l1 = cached, ![i].sized = TRUE]
    /\ uses' = [uses EXCEPT ![i] = @ + 1]
    /\ UNCHANGED <<byId, live, edges, queue, clock, evidence, history>>

-----------------------------------------------------------------------------
(* One file (save, load).                                                  *)

\* The pending queue is not written.
Payload == [Session EXCEPT !.queue = {}, !.nodes = AllToJson(nodes)]

\* fs::write truncates and then writes: a death between the two leaves neither
\* what was there nor what was to be.
Save ==
    /\ up
    /\ file' = Payload
    /\ kept' = [kept EXCEPT !.file = Session]
    /\ UNCHANGED <<up, session, container, ahead, restored>>

DieSaving ==
    /\ up
    /\ up' = FALSE /\ file' = Torn /\ Blank
    /\ UNCHANGED <<container, ahead, kept, restored>>

\* insert_restored() and restore_edge() over a list of nodes as written.
Resolved(ns) == [n \in Id |-> Greatest({i \in DOMAIN ns : ns[i].id = n})]
LiveAlways(ns) == DOMAIN ns
LiveOf(ns) == {i \in DOMAIN ns : ns[i].status # "superseded"}
Restore(ns, es) ==
    /\ nodes' = AllFromJson(ns)
    /\ byId' = Resolved(ns)
    /\ live' = LiveOf(ns)
    /\ edges' = {[e EXCEPT !.src = byId'[e.src], !.dst = byId'[e.dst]] : e \in es}
    /\ queue' = {}

Load ==
    /\ ~up /\ file \notin {NoFile, Torn}
    /\ up' = TRUE /\ restored' = "file"
    /\ Restore(file.nodes, file.edges)
    /\ clock' = file.clock /\ uses' = file.uses
    /\ evidence' = file.evidence /\ history' = file.history
    /\ UNCHANGED <<disk, kept>>

-----------------------------------------------------------------------------
(* A container (save_context, open_context).                               *)

NodeObjectsWithoutHistory(ns) == {NodeToJson(ns[i]) : i \in LiveOf(ns)}
NodeObjects(ns) == ToSet(AllToJson(ns))

\* The counters go to one usage object.
Usage == [n \in {m \in Id : byId[m] # 0} |-> uses[byId[n]]]

\* Every node, edge and the usage is put; what has its address is there already.
Sealed == [nodes |-> container.nodes \cup ahead \cup NodeObjects(nodes),
           edges |-> container.edges \cup NamedEdges,
           usage |-> container.usage \cup (IF nodes = <<>> THEN {} ELSE {Usage})]

SaveContext ==
    /\ up
    /\ container' = Sealed /\ ahead' = {}
    /\ kept' = [kept EXCEPT !.container = Session]
    /\ UNCHANGED <<up, session, file, restored>>

\* The process dies among the puts: some new objects are there, none committed.
DieSavingContext ==
    /\ up
    /\ \E k \in DOMAIN nodes :
         ahead' = ahead \cup (NodeObjects(SubSeq(nodes, 1, k)) \ container.nodes)
    /\ up' = FALSE /\ Blank
    /\ UNCHANGED <<file, container, kept, restored>>

\* Every object there is admitted, or none is: an object ahead of the manifest's
\* generation refuses them all.  Nodes are pushed in the order of their
\* timestamps and, within one, of their addresses, which say nothing of age.
LatestTsOfFresh(ns) == Greatest({r.ts : r \in {q \in ns : q.status = "fresh"}})
LatestTs(ns) == Greatest({r.ts : r \in ns})

OpenContext ==
    /\ ~up /\ container.nodes # {} /\ ahead = {}
    /\ up' = TRUE /\ restored' = "container"
    /\ \E ns \in SetToSeqs(container.nodes) :
         /\ \A i, j \in DOMAIN ns : i < j => ns[i].ts <= ns[j].ts
         /\ Restore(ns, container.edges)
    /\ clock' = LatestTs(container.nodes)
    /\ \E usage \in container.usage :      \* the last in the order of addresses
         uses' = [i \in DOMAIN nodes' |->
                    IF byId'[nodes'[i].id] = i /\ nodes'[i].id \in DOMAIN usage
                    THEN usage[nodes'[i].id] ELSE 0]
    /\ evidence' = {} /\ history' = 0
    /\ UNCHANGED <<disk, kept>>

-----------------------------------------------------------------------------
\* The process ends, or dies while it is not saving.
Die == up /\ up' = FALSE /\ Blank /\ UNCHANGED <<disk, kept, restored>>

Next ==
    /\ calls < MaxCalls /\ calls' = calls + 1
    /\ \/ \E n \in Id : Ingest(n)
       \/ \E i \in DOMAIN nodes : Invalidate(i) \/ Revalidate(i) \/ Read(i)
       \/ Save \/ DieSaving \/ Load
       \/ SaveContext \/ DieSavingContext \/ OpenContext
       \/ Die

Spec == Init /\ [][Next]_vars

-----------------------------------------------------------------------------
TypeOK ==
    /\ nodes \in Seq(NodeRecord) /\ DOMAIN uses = DOMAIN nodes
    /\ byId \in [Id -> 0 .. Len(nodes)]
    /\ live \cup queue \subseteq DOMAIN nodes
    /\ edges \subseteq [src : DOMAIN nodes, dst : DOMAIN nodes, kind : {"supersedes", "contradicts"}]

\* However a session came to be, an id resolves to a node of that id and the live
\* index holds what is not history.
IndexesAgree ==
    /\ \A n \in Id : IF byId[n] = 0 THEN \A i \in DOMAIN nodes : nodes[i].id # n
                     ELSE nodes[byId[n]].id = n
    /\ live = LiveOf(nodes)

\* Nothing is dated after now, before and after a restart, so that what is
\* admitted next is newer than everything restored.
ClockIsAhead == \A i \in DOMAIN nodes : nodes[i].ts <= clock

Starts(how) == ~up /\ up' /\ restored' = how

\* What load() makes of a file is the session save() was given, evidence and
\* history included, but for the queue and the sizes.
LoadedAsSaved ==
    [][Starts("file") => Session' = [kept.file EXCEPT !.queue = {}, !.nodes = AllFromJson(@)]]_vars

\* A container that opens gives back every node that was sealed in it last, as it
\* was, history included, and every edge between them.
SealedIsRestored ==
    [][Starts("container") =>
          /\ ToSet(AllFromJson(kept.container.nodes)) \subseteq ToSet(nodes')
          /\ kept.container.edges \subseteq NamedEdges']_vars

\* Nothing that was saved is lost, by either format.
SavedIsRestored == LoadedAsSaved /\ SealedIsRestored

-----------------------------------------------------------------------------
(* Statements of the documentation that the code does not keep.            *)

\* runtime.rs:1142-1143, of save_context: "Same state as [`Dcr::save`], written as
\* immutable content-addressed objects".  What was history when the container was
\* sealed is not live after it opens.
HistoryStaysHistory ==
    [][Starts("container") =>
          \A k \in DOMAIN kept.container.nodes :
              kept.container.nodes[k].status = "superseded" =>
                  \A i \in live' : nodes'[i].id # kept.container.nodes[k].id]_vars

\* runtime.rs:1322-1323: "Later generations win: usage is a running total, and
\* the newest object is the current one."
NewestUsageWins ==
    [][Starts("container") =>
          \A k \in DOMAIN kept.container.nodes :
              LET n == kept.container.nodes[k].id
              IN  uses'[byId'[n]] >= kept.container.uses[k]]_vars

\* context-integrity.md:336-339: usage is kept apart so that a read does not "mint a
\* new copy of every admitted node".
ReadsMintNothing ==
    [][\A i \in DOMAIN nodes :
          Len(nodes') = Len(nodes) /\ nodes'[i].status = nodes[i].status
          /\ nodes'[i].ts = nodes[i].ts /\ uses'[i] > uses[i]
          => nodes' = nodes]_vars

\* failure-modes.md:163: "The queue is persisted with the graph".
QueueIsPersisted == [][Starts("file") => queue' = kept.file.queue]_vars

\* fit.rs:28: the gate bypasses planning when "Every ingested token fits".
Bypass == history <= Budget
BypassMeansItFits == up /\ Bypass => Cardinality({nodes[i].id : i \in DOMAIN nodes}) <= Budget
=============================================================================
