------------------------ MODULE SavedSession_proofs -------------------------
(***************************************************************************)
(* A session restored from a file is the one that was saved, a container   *)
(* that opens gives back all that was sealed in it, and however a session  *)
(* came to be its indices agree and its clock is ahead, for any ids and    *)
(* any number of calls, saves, deaths and restarts between them.  And what *)
(* the gateway of that container lets in was committed, and what was       *)
(* signed stays signed (SignedStore).                                      *)
(***************************************************************************)
EXTENDS SavedSession, SignedStore, FiniteSetTheorems, FunctionTheorems, SequenceTheorems, TLAPS

Kind == {"supersedes", "contradicts"}
Json == [id : Id, status : Status, ts : Nat, l1 : BOOLEAN]
Counters == UNION {[D -> Nat] : D \in SUBSET Id}

\* Edges by id, whose ends are among the nodes N.
Anchored(E, N) ==
    \A e \in E : /\ e \in [src : Id, dst : Id, kind : Kind]
                 /\ \E r \in N : r.id = e.src
                 /\ \E r \in N : r.id = e.dst

-----------------------------------------------------------------------------
(* The operators of the model.                                             *)

LEMMA GreatestBounds ==
    ASSUME NEW S \in SUBSET Nat, IsFiniteSet(S)
    PROVE  Greatest(S) \in S \cup {0} /\ \A y \in S : y <= Greatest(S)
<1> DEFINE HasGreatest(U) == \E x \in U \cup {0} : \A y \in U : y <= x
           bad == {U \in SUBSET S : ~ HasGreatest(U)}
<1>1. SUFFICES ASSUME bad # {} PROVE FALSE
  <2>1. S \notin bad
    BY <1>1
  <2> QED BY <2>1 DEF Greatest
<1>2. bad \subseteq FiniteSubsetsOf(S)
  BY FS_FiniteSubsetsOfFinite
<1>3. PICK U \in bad : \A W \in bad : ~ (<<W, U>> \in StrictSubsetOrdering(S))
  <2> HIDE DEF bad
  <2> QED BY <1>1, <1>2, FS_StrictSubsetOrderingWellFounded, WFMin
<1>4. U # {}
  OBVIOUS
<1>5. PICK x \in U : x \in Nat
  BY <1>4
<1>6. U \ {x} \notin bad
  BY <1>3 DEF StrictSubsetOrdering
<1>7. PICK m \in (U \ {x}) \cup {0} : \A y \in U \ {x} : y <= m
  BY <1>6
<1>8. m \in Nat /\ \A y \in U : y \in Nat
  OBVIOUS
<1>9. CASE x <= m
  <2>1. \A y \in U : y <= m
    BY <1>7, <1>9
  <2>2. m \in U \cup {0}
    OBVIOUS
  <2>3. HasGreatest(U)
    BY <2>1, <2>2
  <2> QED BY <2>3
<1>10. CASE m <= x
  <2>1. \A y \in U : y <= x
    BY <1>5, <1>7, <1>8, <1>10
  <2>2. HasGreatest(U)
    BY <2>1
  <2> QED BY <2>2
<1> QED BY <1>5, <1>8, <1>9, <1>10

\* The members of a sequence, and what SetToSeqs makes of a finite set.
LEMMA MembersFinite ==
    ASSUME NEW S, NEW q \in Seq(S)
    PROVE  /\ DOMAIN q = 1 .. Len(q) /\ Len(q) \in Nat
           /\ ToSet(q) \subseteq S /\ IsFiniteSet(ToSet(q))
<1>1. DOMAIN q = 1 .. Len(q) /\ Len(q) \in Nat /\ \A i \in DOMAIN q : q[i] \in S
  BY ElementOfSeq, LenProperties
<1>2. q \in [1 .. Len(q) -> ToSet(q)] /\ \A x \in ToSet(q) : \E i \in 1 .. Len(q) : q[i] = x
  BY <1>1, LenProperties DEF ToSet
<1>3. q \in Surjection(1 .. Len(q), ToSet(q))
  BY <1>2, Fun_IsSurj
<1>4. IsFiniteSet(1 .. Len(q))
  BY <1>1, FS_Interval
<1>5. IsFiniteSet(ToSet(q))
  BY <1>3, <1>4, FS_Surjection
<1> QED BY <1>1, <1>5 DEF ToSet

LEMMA ListingIsComplete ==
    ASSUME NEW S, IsFiniteSet(S), NEW q \in SetToSeqs(S)
    PROVE  q \in Seq(S) /\ ToSet(q) = S
<1> DEFINE D == 1 .. Cardinality(S)
<1>1. Cardinality(S) \in Nat
  BY FS_CardinalityType
<1>2. q \in [D -> S] /\ \A i, j \in D : i # j => q[i] # q[j]
  BY DEF SetToSeqs
<1>3. IsFiniteSet(D) /\ Cardinality(D) = Cardinality(S)
  BY <1>1, FS_Interval
<1>4. q \in Seq(S)
  BY <1>1, <1>2, SeqDef
<1> HIDE DEF D
<1>5. q \in Injection(D, S)
  BY <1>2, Fun_IsInj
<1>6. q \in Surjection(D, S)
  BY <1>3, <1>5, FS_Injection
<1>7. \A x \in S : \E i \in D : q[i] = x
  BY <1>6 DEF Surjection
<1> QED BY <1>2, <1>4, <1>7 DEF ToSet

LEMMA ResolvedIsLast ==
    ASSUME NEW ns \in Seq(Json), NEW n \in Id
    PROVE  /\ Resolved(ns)[n] \in 0 .. Len(ns)
           /\ IF Resolved(ns)[n] = 0 THEN \A i \in DOMAIN ns : ns[i].id # n
              ELSE Resolved(ns)[n] \in DOMAIN ns /\ ns[Resolved(ns)[n]].id = n
<1> DEFINE S == {i \in DOMAIN ns : ns[i].id = n}
<1>1. DOMAIN ns = 1 .. Len(ns) /\ Len(ns) \in Nat
  BY LenProperties
<1>2. S \in SUBSET Nat /\ IsFiniteSet(S)
  <2>1. IsFiniteSet(1 .. Len(ns)) /\ S \in SUBSET (1 .. Len(ns))
    BY <1>1, FS_Interval
  <2> HIDE DEF S
  <2>2. IsFiniteSet(S)
    BY <2>1, FS_Subset
  <2> QED BY <1>1, <2>1, <2>2
<1>3. Resolved(ns)[n] = Greatest(S)
  BY DEF Resolved
<1>4. \A i \in S : i \in DOMAIN ns /\ ns[i].id = n
  OBVIOUS
<1>5. \A i \in DOMAIN ns : ns[i].id = n => i \in S
  OBVIOUS
<1> HIDE DEF S
<1>6. Greatest(S) \in S \cup {0} /\ \A y \in S : y <= Greatest(S)
  BY <1>2, GreatestBounds
<1>7. Greatest(S) = 0 => S = {}
  BY <1>1, <1>4, <1>6
<1> QED BY <1>1, <1>3, <1>4, <1>5, <1>6, <1>7

LEMMA JsonOfNodes ==
    ASSUME NEW ns \in Seq(NodeRecord)
    PROVE  /\ AllToJson(ns) \in Seq(Json) /\ Len(AllToJson(ns)) = Len(ns)
           /\ DOMAIN AllToJson(ns) = DOMAIN ns
           /\ \A i \in DOMAIN ns : AllToJson(ns)[i] = NodeToJson(ns[i])
           /\ ToSet(AllToJson(ns)) \subseteq Json /\ IsFiniteSet(ToSet(AllToJson(ns)))
<1>1. DOMAIN ns = 1 .. Len(ns) /\ Len(ns) \in Nat /\ \A i \in DOMAIN ns : ns[i] \in NodeRecord
  BY ElementOfSeq, LenProperties
<1>2. \A r \in NodeRecord : NodeToJson(r) \in Json
  BY DEF NodeRecord, NodeToJson, Json
<1>3. AllToJson(ns) \in [1 .. Len(ns) -> Json]
  BY <1>1, <1>2 DEF AllToJson
<1>4. AllToJson(ns) \in Seq(Json)
  BY <1>1, <1>3, SeqDef
<1>5. Len(AllToJson(ns)) = Len(ns)
  BY <1>1, <1>3, <1>4, LenProperties
<1> QED BY <1>1, <1>3, <1>4, <1>5, MembersFinite DEF AllToJson

LEMMA NodesOfJson ==
    ASSUME NEW js \in Seq(Json)
    PROVE  /\ AllFromJson(js) \in Seq(NodeRecord) /\ Len(AllFromJson(js)) = Len(js)
           /\ DOMAIN AllFromJson(js) = DOMAIN js
           /\ \A i \in DOMAIN js :
                 /\ AllFromJson(js)[i] = NodeFromJson(js[i])
                 /\ AllFromJson(js)[i].id = js[i].id /\ AllFromJson(js)[i].ts = js[i].ts
                 /\ AllFromJson(js)[i].status = js[i].status
<1>1. DOMAIN js = 1 .. Len(js) /\ Len(js) \in Nat /\ \A i \in DOMAIN js : js[i] \in Json
  BY ElementOfSeq, LenProperties
<1>2. \A j \in Json : NodeFromJson(j) \in NodeRecord
  BY DEF NodeRecord, NodeFromJson, Json
<1>3. AllFromJson(js) \in [1 .. Len(js) -> NodeRecord]
  BY <1>1, <1>2 DEF AllFromJson
<1>4. AllFromJson(js) \in Seq(NodeRecord)
  BY <1>1, <1>3, SeqDef
<1>5. Len(AllFromJson(js)) = Len(js)
  BY <1>1, <1>3, <1>4, LenProperties
<1> QED BY <1>1, <1>3, <1>4, <1>5 DEF AllFromJson, NodeFromJson

-----------------------------------------------------------------------------
(* The invariant.                                                          *)

\* The session of the process at work.
WorkInv ==
    /\ TypeOK /\ IndexesAgree /\ ClockIsAhead
    /\ clock \in Nat /\ uses \in [DOMAIN nodes -> Nat]

\* A session as a file holds it.
IsSession(s) ==
    /\ s = [nodes |-> s.nodes, edges |-> s.edges, clock |-> s.clock, uses |-> s.uses,
            evidence |-> s.evidence, history |-> s.history, queue |-> s.queue]
    /\ s.nodes \in Seq(NodeRecord) /\ s.uses \in [DOMAIN s.nodes -> Nat]
    /\ s.clock \in Nat /\ \A i \in DOMAIN s.nodes : s.nodes[i].ts <= s.clock
    /\ Anchored(s.edges, ToSet(s.nodes))

AsWritten(s) == [s EXCEPT !.queue = {}, !.nodes = AllToJson(s.nodes)]

\* The file is the last session saved, or no save lived to write one whole.
FileInv ==
    /\ kept = [file |-> kept.file, container |-> kept.container]
    /\ IsSession(kept.file)
    /\ file \in {NoFile, Torn} \/ file = AsWritten(kept.file)

\* The container holds the last session sealed, among others.
ContainerInv ==
    /\ container = [nodes |-> container.nodes, edges |-> container.edges,
                    usage |-> container.usage]
    /\ container.nodes \subseteq Json /\ IsFiniteSet(container.nodes)
    /\ ahead \subseteq Json /\ IsFiniteSet(ahead)
    /\ Anchored(container.edges, container.nodes)
    /\ container.usage \subseteq Counters
    /\ kept.container.nodes \in Seq(NodeRecord)
    /\ ToSet(AllToJson(kept.container.nodes)) \subseteq container.nodes
    /\ kept.container.edges \subseteq container.edges

SavedInv == WorkInv /\ FileInv /\ ContainerInv

\* The edges by id of the session at work.
LEMMA NamedAreAnchored ==
    ASSUME WorkInv
    PROVE  Anchored(NamedEdges, ToSet(nodes)) /\ Anchored(NamedEdges, NodeObjects(nodes))
<1>1. nodes \in Seq(NodeRecord)
  BY DEF WorkInv, TypeOK
<1>2. \A i \in DOMAIN nodes : nodes[i] \in NodeRecord /\ nodes[i].id \in Id
  <2>1. \A i \in DOMAIN nodes : nodes[i] \in NodeRecord
    BY <1>1, ElementOfSeq, LenProperties
  <2> QED BY <2>1 DEF NodeRecord
<1>3. \A i \in DOMAIN nodes : nodes[i] \in ToSet(nodes)
  BY DEF ToSet
<1>4. \A i \in DOMAIN nodes : /\ NodeToJson(nodes[i]) \in NodeObjects(nodes)
                              /\ NodeToJson(nodes[i]).id = nodes[i].id
  BY <1>1, JsonOfNodes DEF NodeObjects, ToSet, NodeToJson
<1>5. ASSUME NEW x \in NamedEdges
      PROVE  /\ x \in [src : Id, dst : Id, kind : Kind]
             /\ \E i \in DOMAIN nodes : x.src = nodes[i].id
             /\ \E i \in DOMAIN nodes : x.dst = nodes[i].id
  <2>1. PICK e \in edges : x = [e EXCEPT !.src = nodes[e.src].id, !.dst = nodes[e.dst].id]
    BY DEF NamedEdges
  <2>2. e \in [src : DOMAIN nodes, dst : DOMAIN nodes, kind : Kind]
    BY DEF WorkInv, TypeOK, Kind
  <2> QED BY <1>2, <2>1, <2>2
<1> QED BY <1>3, <1>4, <1>5 DEF Anchored

\* Restoring a list of nodes and the edges between them, in either format.
LEMMA RestoreRebuilds ==
    ASSUME NEW ns \in Seq(Json), NEW es, Anchored(es, ToSet(ns)), Restore(ns, es)
    PROVE  /\ nodes' \in Seq(NodeRecord) /\ Len(nodes') = Len(ns)
           /\ DOMAIN nodes' = DOMAIN ns /\ nodes' = AllFromJson(ns)
           /\ byId' \in [Id -> 0 .. Len(nodes')]
           /\ IndexesAgree' /\ live' \subseteq DOMAIN nodes' /\ queue' = {}
           /\ edges' \subseteq [src : DOMAIN nodes', dst : DOMAIN nodes', kind : Kind]
           /\ NamedEdges' = es
<1>1. /\ nodes' = AllFromJson(ns) /\ byId' = Resolved(ns) /\ queue' = {}
      /\ live' = LiveOf(ns)
      /\ edges' = {[e EXCEPT !.src = byId'[e.src], !.dst = byId'[e.dst]] : e \in es}
  BY DEF Restore
<1>2. /\ nodes' \in Seq(NodeRecord) /\ Len(nodes') = Len(ns) /\ DOMAIN nodes' = DOMAIN ns
      /\ \A i \in DOMAIN ns : nodes'[i].id = ns[i].id /\ nodes'[i].status = ns[i].status
  BY <1>1, NodesOfJson
<1>3. \A n \in Id : /\ byId'[n] \in 0 .. Len(ns)
                    /\ IF byId'[n] = 0 THEN \A i \in DOMAIN ns : ns[i].id # n
                       ELSE byId'[n] \in DOMAIN ns /\ ns[byId'[n]].id = n
  BY <1>1, ResolvedIsLast
<1>4. byId' \in [Id -> 0 .. Len(nodes')]
  BY <1>1, <1>2, <1>3 DEF Resolved
<1>5. live' = LiveOf(nodes)' /\ live' \subseteq DOMAIN nodes'
  BY <1>1, <1>2 DEF LiveOf
<1>6. IndexesAgree'
  BY <1>2, <1>3, <1>5 DEF IndexesAgree
<1>7. ASSUME NEW e \in es
      PROVE  /\ e \in [src : Id, dst : Id, kind : Kind]
             /\ byId'[e.src] \in DOMAIN nodes' /\ nodes'[byId'[e.src]].id = e.src
             /\ byId'[e.dst] \in DOMAIN nodes' /\ nodes'[byId'[e.dst]].id = e.dst
  <2>1. /\ e \in [src : Id, dst : Id, kind : Kind]
        /\ \E i \in DOMAIN ns : ns[i].id = e.src
        /\ \E i \in DOMAIN ns : ns[i].id = e.dst
    BY DEF Anchored, ToSet
  <2> QED BY <1>2, <1>3, <2>1
<1> DEFINE indexed(e) == [e EXCEPT !.src = byId'[e.src], !.dst = byId'[e.dst]]
           named(e) == [e EXCEPT !.src = nodes'[e.src].id, !.dst = nodes'[e.dst].id]
<1>8. ASSUME NEW e \in es
      PROVE  /\ indexed(e) \in [src : DOMAIN nodes', dst : DOMAIN nodes', kind : Kind]
             /\ named(indexed(e)) = e
  BY <1>7
<1>9. NamedEdges' = {named(x) : x \in edges'}
  BY DEF NamedEdges
<1>10. edges' = {indexed(e) : e \in es}
  BY <1>1
<1> HIDE DEF named, indexed
<1>11. NamedEdges' = es
  BY <1>8, <1>9, <1>10
<1>12. edges' \subseteq [src : DOMAIN nodes', dst : DOMAIN nodes', kind : Kind]
  BY <1>8, <1>10
<1> QED BY <1>1, <1>2, <1>4, <1>5, <1>6, <1>11, <1>12

-----------------------------------------------------------------------------
(* The session at work.                                                    *)

\* A step that changes nodes in place: their status, but not to or from history,
\* their cached levels, or their time, to now.
LEMMA InPlaceKeeps ==
    ASSUME WorkInv, nodes' \in Seq(NodeRecord), Len(nodes') = Len(nodes),
           \A j \in DOMAIN nodes :
              /\ nodes'[j].id = nodes[j].id
              /\ nodes'[j].ts \in {nodes[j].ts, clock'}
              /\ nodes'[j].status = "superseded" <=> nodes[j].status = "superseded",
           clock' \in Nat, clock' >= clock,
           uses' \in [DOMAIN nodes -> Nat],
           queue' \subseteq DOMAIN nodes, UNCHANGED <<byId, live, edges>>
    PROVE  WorkInv'
<1>1. DOMAIN nodes = 1 .. Len(nodes) /\ DOMAIN nodes' = DOMAIN nodes
  BY LenProperties DEF WorkInv, TypeOK
<1>2. TypeOK'
  BY <1>1 DEF WorkInv, TypeOK
<1>3. LiveOf(nodes)' = LiveOf(nodes)
  BY <1>1 DEF LiveOf
<1>4. \A n \in Id : byId[n] # 0 => byId[n] \in DOMAIN nodes
  BY <1>1 DEF WorkInv, TypeOK
<1>5. IndexesAgree'
  BY <1>1, <1>3, <1>4 DEF WorkInv, IndexesAgree
<1>6. ClockIsAhead'
  <2>1. \A j \in DOMAIN nodes : nodes[j].ts \in Nat
    <3>1. \A j \in DOMAIN nodes : nodes[j] \in NodeRecord
      BY ElementOfSeq, LenProperties DEF WorkInv, TypeOK
    <3> QED BY <3>1 DEF NodeRecord
  <2>2. \A j \in DOMAIN nodes : nodes[j].ts <= clock /\ clock \in Nat
    BY DEF WorkInv, ClockIsAhead
  <2>3. \A j \in DOMAIN nodes : nodes[j].ts <= clock'
    BY <2>1, <2>2
  <2> QED BY <1>1, <2>3 DEF ClockIsAhead
<1> QED BY <1>1, <1>2, <1>5, <1>6 DEF WorkInv

LEMMA PutInPlace ==
    ASSUME NEW ns \in Seq(NodeRecord), NEW i \in 1 .. Len(ns) + 1, NEW born \in NodeRecord
    PROVE  LET put == IF i > Len(ns) THEN Append(ns, born) ELSE [ns EXCEPT ![i] = born]
           IN  /\ DOMAIN put = DOMAIN ns \cup {i}
               /\ \E m \in Nat : m >= Len(ns) /\ DOMAIN put = 1 .. m
               /\ \A j \in DOMAIN put : /\ put[j] = IF j = i THEN born ELSE ns[j]
                                       /\ put[j] \in NodeRecord
<1> DEFINE put == IF i > Len(ns) THEN Append(ns, born) ELSE [ns EXCEPT ![i] = born]
<1>1. DOMAIN ns = 1 .. Len(ns) /\ Len(ns) \in Nat /\ \A j \in DOMAIN ns : ns[j] \in NodeRecord
  BY ElementOfSeq, LenProperties
<1>2. CASE i > Len(ns)
  <2>1. put = Append(ns, born) /\ i = Len(ns) + 1
    BY <1>1, <1>2
  <2>2. /\ put \in Seq(NodeRecord) /\ Len(put) = Len(ns) + 1
        /\ \A j \in 1 .. Len(ns) : put[j] = ns[j]
        /\ put[Len(ns) + 1] = born
    BY <2>1, AppendProperties
  <2>3. DOMAIN put = 1 .. Len(ns) + 1
    BY <2>2, LenProperties
  <2> HIDE DEF put
  <2>4. DOMAIN put = DOMAIN ns \cup {i} /\ Len(ns) + 1 \in Nat /\ Len(ns) + 1 >= Len(ns)
    BY <1>1, <2>1, <2>3
  <2>5. \A j \in DOMAIN put : /\ put[j] = IF j = i THEN born ELSE ns[j]
                            /\ put[j] \in NodeRecord
    BY <1>1, <2>1, <2>2, <2>4
  <2> QED BY <2>3, <2>4, <2>5 DEF put
<1>3. CASE ~ (i > Len(ns))
  <2>1. put = [ns EXCEPT ![i] = born] /\ i \in DOMAIN ns
    BY <1>1, <1>3
  <2> HIDE DEF put
  <2>2. DOMAIN put = DOMAIN ns /\ \A j \in DOMAIN ns : put[j] = IF j = i THEN born ELSE ns[j]
    BY <2>1
  <2>3. \A j \in DOMAIN put : put[j] \in NodeRecord
    BY <1>1, <2>2
  <2>4. DOMAIN put = DOMAIN ns \cup {i} /\ DOMAIN put = 1 .. Len(ns) /\ Len(ns) >= Len(ns)
    BY <1>1, <2>1, <2>2
  <2> QED BY <1>1, <2>2, <2>3, <2>4 DEF put
<1> QED BY <1>2, <1>3

LEMMA IngestKeeps ==
    ASSUME WorkInv, NEW n \in Id, Ingest(n)
    PROVE  WorkInv'
<1> DEFINE i      == IF byId[n] = 0 THEN Len(nodes) + 1 ELSE byId[n]
           rivals == {j \in live : nodes[j].id # n}
           born   == [id |-> n, status |-> "fresh", ts |-> clock',
                      l1 |-> FALSE, sized |-> FALSE]
           put    == IF i > Len(nodes) THEN Append(nodes, born) ELSE [nodes EXCEPT ![i] = born]
           won    == [j \in DOMAIN put |->
                       IF j \in rivals THEN [put[j] EXCEPT !.status = "superseded"] ELSE put[j]]
           tied   == [j \in DOMAIN put |->
                       IF j \in rivals \cup {i} /\ put[j].status = "fresh"
                       THEN [put[j] EXCEPT !.status = "contradicted"] ELSE put[j]]
<1>1. /\ clock' = clock + 1 /\ UNCHANGED queue
      /\ byId' = [byId EXCEPT ![n] = i]
      /\ uses' = IF i > Len(nodes) THEN Append(uses, 0) ELSE uses
  BY DEF Ingest
<1>2. \/ /\ nodes' = won /\ live' = (live \ rivals) \cup {i}
         /\ edges' = edges \cup {Edge(i, j, "supersedes") : j \in rivals}
      \/ /\ nodes' = tied /\ live' = live \cup {i}
         /\ edges' = edges \cup UNION {{Edge(i, j, "contradicts"),
                                        Edge(j, i, "contradicts")} : j \in rivals}
  BY DEF Ingest
<1>3. /\ nodes \in Seq(NodeRecord) /\ clock \in Nat /\ Len(nodes) \in Nat
      /\ DOMAIN nodes = 1 .. Len(nodes) /\ byId \in [Id -> 0 .. Len(nodes)]
      /\ live \subseteq DOMAIN nodes /\ rivals \subseteq live
      /\ \A j \in DOMAIN nodes : nodes[j] \in NodeRecord
  BY ElementOfSeq, LenProperties DEF WorkInv, TypeOK
<1>4. i \in 1 .. Len(nodes) + 1 /\ born \in NodeRecord
  BY <1>1, <1>3 DEF NodeRecord, Status, LiveStatus
<1>5. /\ byId[n] # 0 => nodes[i].id = n
      /\ i \in DOMAIN nodes <=> byId[n] # 0
  BY <1>3 DEF WorkInv, IndexesAgree
<1>6. /\ DOMAIN put = DOMAIN nodes \cup {i}
      /\ \E m \in Nat : m >= Len(nodes) /\ DOMAIN put = 1 .. m
      /\ \A j \in DOMAIN put : /\ put[j] = IF j = i THEN born ELSE nodes[j]
                              /\ put[j] \in NodeRecord
  BY <1>3, <1>4, PutInPlace
<1>7. i \notin rivals
  BY <1>3, <1>5
<1>8. \A j \in rivals : j \in live /\ j \in DOMAIN nodes
  BY <1>3
<1>9. /\ born.id = n /\ born.ts = clock + 1 /\ born.status = "fresh"
  BY <1>1
<1>10. \A j \in DOMAIN nodes : j \in live <=> nodes[j].status # "superseded"
  BY DEF WorkInv, IndexesAgree, LiveOf
<1> HIDE DEF i, rivals, put, born
<1>11. /\ DOMAIN nodes' = DOMAIN put
       /\ \A j \in DOMAIN put : /\ nodes'[j] \in NodeRecord
                               /\ nodes'[j].id = put[j].id /\ nodes'[j].ts = put[j].ts
  BY <1>2, <1>6 DEF NodeRecord, Status, LiveStatus
<1>12. \A j \in DOMAIN put : j \in live' <=> nodes'[j].status # "superseded"
  <2>1. CASE nodes' = won /\ live' = (live \ rivals) \cup {i}
    BY <1>6, <1>7, <1>8, <1>9, <1>10, <2>1 DEF NodeRecord
  <2>2. CASE nodes' = tied /\ live' = live \cup {i}
    BY <1>6, <1>8, <1>9, <1>10, <2>2 DEF NodeRecord
  <2> QED BY <1>2, <2>1, <2>2
<1>13. live' \subseteq DOMAIN put /\ live' \subseteq live \cup {i} /\ i \in DOMAIN put
  BY <1>2, <1>3, <1>6
<1>14. nodes' \in Seq(NodeRecord) /\ Len(nodes') >= Len(nodes)
       /\ DOMAIN put = 1 .. Len(nodes') /\ Len(nodes') \in Nat
  <2>1. PICK m \in Nat : m >= Len(nodes) /\ DOMAIN put = 1 .. m
    BY <1>6
  <2>2. nodes' \in [1 .. m -> NodeRecord]
    <3>1. nodes' = [j \in DOMAIN put |-> nodes'[j]]
      BY <1>2
    <3> QED BY <1>11, <2>1, <3>1
  <2>3. nodes' \in Seq(NodeRecord)
    BY <2>1, <2>2, SeqDef
  <2>4. Len(nodes') = m
    BY <2>1, <2>2, <2>3, LenProperties
  <2> QED BY <2>1, <2>3, <2>4
<1>15. uses' \in [DOMAIN nodes' -> Nat]
  <2>1. uses \in Seq(Nat) /\ Len(uses) = Len(nodes)
    <3>1. uses \in [1 .. Len(nodes) -> Nat]
      BY <1>3 DEF WorkInv
    <3>2. uses \in Seq(Nat)
      BY <1>3, <3>1, SeqDef
    <3> QED BY <1>3, <3>1, <3>2, LenProperties
  <2>2. CASE i > Len(nodes)
    <3>1. uses' = Append(uses, 0) /\ i = Len(nodes) + 1
      BY <1>1, <1>3, <1>4, <2>2
    <3>2. uses' \in Seq(Nat) /\ Len(uses') = Len(nodes) + 1
      BY <2>1, <3>1, AppendProperties
    <3>3. DOMAIN nodes' = 1 .. Len(nodes) + 1
      BY <1>3, <1>6, <1>11, <3>1
    <3> QED BY <3>2, <3>3, LenProperties
  <2>3. CASE ~ (i > Len(nodes))
    <3>1. uses' = uses /\ DOMAIN nodes' = DOMAIN nodes
      BY <1>1, <1>3, <1>4, <1>6, <1>11, <2>3
    <3> QED BY <3>1 DEF WorkInv
  <2> QED BY <2>2, <2>3
<1>16. TypeOK'
  <2>1. byId' \in [Id -> 0 .. Len(nodes')]
    <3>1. i \in 0 .. Len(nodes')
      BY <1>4, <1>13, <1>14
    <3> QED BY <1>1, <1>3, <1>14, <3>1
  <2>2. live' \cup queue' \subseteq DOMAIN nodes'
    BY <1>1, <1>6, <1>11, <1>13 DEF WorkInv, TypeOK
  <2>3. edges' \subseteq [src : DOMAIN nodes', dst : DOMAIN nodes', kind : Kind]
    <3>1. DOMAIN nodes \subseteq DOMAIN nodes' /\ i \in DOMAIN nodes'
      BY <1>6, <1>11, <1>13
    <3>2. \A j \in rivals : j \in DOMAIN nodes'
      BY <1>8, <3>1
    <3>3. \A e \in edges : e \in [src : DOMAIN nodes', dst : DOMAIN nodes', kind : Kind]
      BY <3>1 DEF WorkInv, TypeOK, Kind
    <3>4. \A e \in edges' : e \in edges \/ \E j \in rivals :
             \/ e = Edge(i, j, "supersedes") \/ e = Edge(i, j, "contradicts")
             \/ e = Edge(j, i, "contradicts")
      BY <1>2
    <3>5. \A j \in rivals, k \in Kind :
             /\ Edge(i, j, k) \in [src : DOMAIN nodes', dst : DOMAIN nodes', kind : Kind]
             /\ Edge(j, i, k) \in [src : DOMAIN nodes', dst : DOMAIN nodes', kind : Kind]
      BY <3>1, <3>2 DEF Edge
    <3>6. "supersedes" \in Kind /\ "contradicts" \in Kind
      BY DEF Kind
    <3> QED BY <3>3, <3>4, <3>5, <3>6
  <2> QED BY <1>14, <1>15, <2>1, <2>2, <2>3 DEF TypeOK, Kind
<1>17. IndexesAgree'
  <2>1. live' = LiveOf(nodes)'
    BY <1>11, <1>12, <1>13 DEF LiveOf
  <2>2. ASSUME NEW m \in Id
        PROVE  IF byId'[m] = 0 THEN \A j \in DOMAIN nodes' : nodes'[j].id # m
               ELSE nodes'[byId'[m]].id = m
    <3>1. CASE m = n
      BY <1>1, <1>3, <1>4, <1>6, <1>9, <1>11, <1>13, <3>1
    <3>2. CASE m # n
      <4>1. byId'[m] = byId[m] /\ byId[m] \in 0 .. Len(nodes)
        BY <1>1, <1>3, <3>2
      <4>2. \A j \in DOMAIN nodes' : nodes'[j].id = IF j = i THEN n ELSE nodes[j].id
        BY <1>6, <1>9, <1>11
      <4>3. CASE byId[m] = 0
        <5>1. \A j \in DOMAIN nodes : nodes[j].id # m
          BY <4>3 DEF WorkInv, IndexesAgree
        <5> QED BY <1>6, <1>11, <3>2, <4>1, <4>2, <4>3, <5>1
      <4>4. CASE byId[m] # 0
        <5>1. nodes[byId[m]].id = m /\ byId[m] \in DOMAIN nodes
          BY <1>3, <4>1, <4>4 DEF WorkInv, IndexesAgree
        <5>2. byId[m] # i
          BY <1>5, <3>2, <5>1
        <5> QED BY <1>6, <1>11, <4>1, <4>2, <4>4, <5>1, <5>2
      <4> QED BY <4>3, <4>4
    <3> QED BY <3>1, <3>2
  <2> QED BY <2>1, <2>2 DEF IndexesAgree
<1>18. ClockIsAhead'
  <2>1. \A j \in DOMAIN nodes : nodes[j].ts \in Nat /\ nodes[j].ts <= clock
    BY <1>3 DEF WorkInv, ClockIsAhead, NodeRecord
  <2>2. \A j \in DOMAIN nodes' : nodes'[j].ts = IF j = i THEN clock + 1 ELSE nodes[j].ts
    BY <1>6, <1>9, <1>11
  <2> QED BY <1>1, <1>3, <1>6, <1>11, <2>1, <2>2 DEF ClockIsAhead
<1> QED BY <1>1, <1>3, <1>15, <1>16, <1>17, <1>18 DEF WorkInv

LEMMA CallKeeps ==
    ASSUME WorkInv, NEW i \in DOMAIN nodes, Invalidate(i) \/ Revalidate(i) \/ Read(i)
    PROVE  WorkInv'
<1>1. /\ nodes \in Seq(NodeRecord) /\ DOMAIN nodes = 1 .. Len(nodes) /\ Len(nodes) \in Nat
      /\ \A j \in DOMAIN nodes : nodes[j] \in NodeRecord
      /\ clock \in Nat /\ uses \in [DOMAIN nodes -> Nat] /\ queue \subseteq DOMAIN nodes
  BY ElementOfSeq, LenProperties DEF WorkInv, TypeOK
<1>2. UNCHANGED <<byId, live, edges>>
  BY DEF Invalidate, Revalidate, Read
<1>3. /\ clock' \in Nat /\ clock' >= clock
      /\ uses' \in [DOMAIN nodes -> Nat] /\ queue' \subseteq DOMAIN nodes
  BY <1>1 DEF Invalidate, Revalidate, Read
<1>4. \E r \in NodeRecord :
         /\ nodes' = [nodes EXCEPT ![i] = r]
         /\ r.id = nodes[i].id /\ r.ts \in {nodes[i].ts, clock'}
         /\ r.status = "superseded" <=> nodes[i].status = "superseded"
  <2>0. nodes[i] \in NodeRecord /\ nodes = [nodes EXCEPT ![i] = nodes[i]]
    BY <1>1
  <2>1. CASE nodes' = nodes
    BY <2>0, <2>1
  <2>2. CASE Invalidate(i) /\ nodes' # nodes
    <3>1. nodes' = [nodes EXCEPT ![i] = [nodes[i] EXCEPT !.status = "stale"]]
          /\ nodes[i].status # "superseded"
      BY <2>2 DEF Invalidate, LiveStatus
    <3>2. [nodes[i] EXCEPT !.status = "stale"] \in NodeRecord
      BY <2>0 DEF NodeRecord, Status
    <3> QED BY <2>0, <3>1, <3>2 DEF NodeRecord
  <2>3. CASE Revalidate(i)
    <3> DEFINE r == [nodes[i] EXCEPT !.status = "fresh", !.ts = clock', !.l1 = FALSE]
    <3>1. nodes' = [nodes EXCEPT ![i] = r] /\ nodes[i].status = "stale"
      BY <1>1, <2>0, <2>3 DEF Revalidate
    <3>2. r \in NodeRecord
      BY <1>3, <2>0 DEF NodeRecord, Status, LiveStatus
    <3>3. r.id = nodes[i].id /\ r.ts = clock' /\ r.status = "fresh"
      BY <2>0 DEF NodeRecord
    <3> HIDE DEF r
    <3> QED BY <3>1, <3>2, <3>3
  <2>4. CASE Read(i)
    <3>1. PICK cached \in {nodes[i].l1, TRUE} :
               nodes' = [nodes EXCEPT ![i].l1 = cached, ![i].sized = TRUE]
      BY <2>4 DEF Read
    <3> DEFINE r == [nodes[i] EXCEPT !.l1 = cached, !.sized = TRUE]
    <3>2. nodes' = [nodes EXCEPT ![i] = r]
      BY <1>1, <2>0, <3>1
    <3>3. cached \in BOOLEAN
      BY <2>0 DEF NodeRecord
    <3>4. /\ r \in NodeRecord
          /\ r.id = nodes[i].id /\ r.ts = nodes[i].ts /\ r.status = nodes[i].status
      BY <2>0, <3>3 DEF NodeRecord
    <3> HIDE DEF r
    <3> QED BY <3>2, <3>4
  <2> QED BY <2>1, <2>2, <2>3, <2>4
<1>5. PICK r \in NodeRecord :
         /\ nodes' = [nodes EXCEPT ![i] = r]
         /\ r.id = nodes[i].id /\ r.ts \in {nodes[i].ts, clock'}
         /\ r.status = "superseded" <=> nodes[i].status = "superseded"
  BY <1>4
<1>6. nodes' \in Seq(NodeRecord) /\ Len(nodes') = Len(nodes)
  BY <1>1, <1>5, ExceptSeq
<1>7. \A j \in DOMAIN nodes :
         /\ nodes'[j].id = nodes[j].id
         /\ nodes'[j].ts \in {nodes[j].ts, clock'}
         /\ nodes'[j].status = "superseded" <=> nodes[j].status = "superseded"
  BY <1>5
<1> QED BY <1>2, <1>3, <1>6, <1>7, InPlaceKeeps

LEMMA BlankIsWell == ASSUME Blank PROVE WorkInv'
<1>1. /\ nodes' = <<>> /\ byId' = [n \in Id |-> 0] /\ live' = {} /\ edges' = {}
      /\ queue' = {} /\ clock' = 0 /\ uses' = <<>>
  BY DEF Blank
<1>2. DOMAIN nodes' = {} /\ Len(nodes') = 0 /\ nodes' \in Seq(NodeRecord)
      /\ uses' \in [DOMAIN nodes' -> Nat]
  BY <1>1
<1> QED BY <1>1, <1>2 DEF WorkInv, TypeOK, IndexesAgree, LiveOf, ClockIsAhead

-----------------------------------------------------------------------------
(* Saving.                                                                 *)

LEMMA SessionIsWell == WorkInv => IsSession(Session)
BY NamedAreAnchored DEF WorkInv, TypeOK, ClockIsAhead, IsSession, Session

LEMMA SaveKeeps ==
    ASSUME SavedInv, Save
    PROVE  SavedInv'
<1>1. UNCHANGED <<nodes, byId, live, edges, queue, clock, uses, evidence, history,
                  container, ahead>>
  BY DEF Save, session, graph
<1>2. /\ kept' = [file |-> Session, container |-> kept.container]
      /\ file' = AsWritten(Session)
  BY DEF Save, Payload, AsWritten, Session, SavedInv, FileInv
<1>3. WorkInv' /\ IsSession(Session)
  BY <1>1, SessionIsWell DEF SavedInv, WorkInv, TypeOK, IndexesAgree, LiveOf, ClockIsAhead
<1>4. FileInv'
  BY <1>2, <1>3 DEF FileInv
<1>5. ContainerInv'
  BY <1>1, <1>2 DEF SavedInv, ContainerInv
<1> QED BY <1>3, <1>4, <1>5 DEF SavedInv

LEMMA UsageCounts == WorkInv => Usage \in Counters
<1> SUFFICES ASSUME WorkInv PROVE Usage \in Counters
  OBVIOUS
<1> DEFINE D == {m \in Id : byId[m] # 0}
<1>1. \A n \in D : byId[n] \in DOMAIN nodes
  BY LenProperties DEF WorkInv, TypeOK
<1>2. \A n \in D : uses[byId[n]] \in Nat
  BY <1>1 DEF WorkInv
<1>3. Usage \in [D -> Nat]
  BY <1>2 DEF Usage
<1> QED BY <1>3 DEF Counters

LEMMA SealKeeps ==
    ASSUME SavedInv, SaveContext
    PROVE  SavedInv'
<1>1. UNCHANGED <<nodes, byId, live, edges, queue, clock, uses, evidence, history, file>>
  BY DEF SaveContext, session, graph
<1>2. /\ kept' = [file |-> kept.file, container |-> Session]
      /\ container' = Sealed /\ ahead' = {}
  BY DEF SaveContext, SavedInv, FileInv
<1>3. WorkInv' /\ WorkInv
  BY <1>1 DEF SavedInv, WorkInv, TypeOK, IndexesAgree, LiveOf, ClockIsAhead
<1>4. FileInv'
  BY <1>1, <1>2 DEF SavedInv, FileInv
<1>5. /\ NodeObjects(nodes) \subseteq Json /\ IsFiniteSet(NodeObjects(nodes))
      /\ nodes \in Seq(NodeRecord)
  BY JsonOfNodes DEF NodeObjects, SavedInv, WorkInv, TypeOK
<1>6. container'.nodes \subseteq Json /\ IsFiniteSet(container'.nodes)
      /\ container.nodes \subseteq container'.nodes
      /\ NodeObjects(nodes) \subseteq container'.nodes
  <2>1. container'.nodes = container.nodes \cup ahead \cup NodeObjects(nodes)
    BY <1>2 DEF Sealed
  <2>2. IsFiniteSet(container.nodes \cup ahead)
    BY FS_Union DEF SavedInv, ContainerInv
  <2>3. IsFiniteSet(container.nodes \cup ahead \cup NodeObjects(nodes))
    BY <1>5, <2>2, FS_Union
  <2> QED BY <1>5, <2>1, <2>3 DEF SavedInv, ContainerInv
<1>7. container'.edges = container.edges \cup NamedEdges
  BY <1>2 DEF Sealed
<1>8. Anchored(container'.edges, container'.nodes)
  BY <1>3, <1>6, <1>7, NamedAreAnchored DEF Anchored, SavedInv, ContainerInv
<1>9. container'.usage \subseteq Counters
  BY <1>2, <1>3, UsageCounts DEF Sealed, SavedInv, ContainerInv
<1>10. /\ kept'.container.nodes = nodes /\ kept'.container.edges = NamedEdges
       /\ container' = [nodes |-> container'.nodes, edges |-> container'.edges,
                        usage |-> container'.usage]
  BY <1>2 DEF Session, Sealed
<1>11. ContainerInv'
  BY <1>2, <1>5, <1>6, <1>7, <1>8, <1>9, <1>10, FS_EmptySet DEF ContainerInv, NodeObjects
<1> QED BY <1>3, <1>4, <1>11 DEF SavedInv

\* A death, in the middle of either save included.
LEMMA DeathKeeps ==
    ASSUME SavedInv, Die \/ DieSaving \/ DieSavingContext
    PROVE  SavedInv'
<1>1. WorkInv'
  BY BlankIsWell DEF Die, DieSaving, DieSavingContext
<1>2. UNCHANGED <<container, kept>> /\ (file' = file \/ file' = Torn)
  BY DEF Die, DieSaving, DieSavingContext, disk
<1>3. ahead' \subseteq Json /\ IsFiniteSet(ahead')
  <2>1. CASE Die \/ DieSaving
    BY <2>1 DEF Die, DieSaving, disk, SavedInv, ContainerInv
  <2>2. CASE DieSavingContext
    <3>1. PICK k \in DOMAIN nodes :
               ahead' = ahead \cup (NodeObjects(SubSeq(nodes, 1, k)) \ container.nodes)
      BY <2>2 DEF DieSavingContext
    <3>2. /\ DOMAIN nodes = 1 .. Len(nodes) /\ Len(nodes) \in Nat
          /\ \A i \in 1 .. Len(nodes) : nodes[i] \in NodeRecord
      BY ElementOfSeq, LenProperties DEF SavedInv, WorkInv, TypeOK
    <3>3. SubSeq(nodes, 1, k) \in Seq(NodeRecord)
      BY <3>2, SubSeqProperties
    <3> DEFINE put == NodeObjects(SubSeq(nodes, 1, k))
    <3>4. put \subseteq Json /\ IsFiniteSet(put)
      BY <3>3, JsonOfNodes DEF NodeObjects
    <3> HIDE DEF put
    <3>5. IsFiniteSet(put \ container.nodes)
      BY <3>4, FS_Subset
    <3>6. IsFiniteSet(ahead \cup (put \ container.nodes))
      BY <3>5, FS_Union DEF SavedInv, ContainerInv
    <3> QED BY <3>1, <3>4, <3>6 DEF put, SavedInv, ContainerInv
  <2> QED BY <2>1, <2>2
<1>4. FileInv' /\ ContainerInv'
  BY <1>2, <1>3 DEF SavedInv, FileInv, ContainerInv
<1> QED BY <1>1, <1>4 DEF SavedInv

-----------------------------------------------------------------------------
(* Restoring.                                                              *)

\* What a file that is there and whole reads as.
LEMMA FileReads ==
    ASSUME FileInv, file \notin {NoFile, Torn}
    PROVE  /\ file.nodes = AllToJson(kept.file.nodes) /\ file.edges = kept.file.edges
           /\ file.clock = kept.file.clock /\ file.uses = kept.file.uses
           /\ file.evidence = kept.file.evidence /\ file.history = kept.file.history
           /\ file.nodes \in Seq(Json) /\ Anchored(file.edges, ToSet(file.nodes))
           /\ DOMAIN file.nodes = DOMAIN kept.file.nodes
           /\ Len(file.nodes) = Len(kept.file.nodes)
           /\ \A i \in DOMAIN kept.file.nodes : file.nodes[i] = NodeToJson(kept.file.nodes[i])
<1> DEFINE k == kept.file
<1>1. IsSession(k) /\ file = AsWritten(k)
  BY DEF FileInv
<1> HIDE DEF k
<1>2. file = [nodes |-> AllToJson(k.nodes), edges |-> k.edges, clock |-> k.clock,
              uses |-> k.uses, evidence |-> k.evidence, history |-> k.history, queue |-> {}]
  BY <1>1 DEF AsWritten, IsSession
<1>3. /\ file.nodes = AllToJson(k.nodes) /\ file.edges = k.edges
      /\ file.clock = k.clock /\ file.uses = k.uses
      /\ file.evidence = k.evidence /\ file.history = k.history
  BY <1>2
<1>4. /\ file.nodes \in Seq(Json) /\ DOMAIN file.nodes = DOMAIN k.nodes
      /\ Len(file.nodes) = Len(k.nodes)
      /\ \A i \in DOMAIN k.nodes : file.nodes[i] = NodeToJson(k.nodes[i])
  BY <1>1, <1>3, JsonOfNodes DEF IsSession
<1>5. \A r \in ToSet(k.nodes) : \E j \in ToSet(file.nodes) : j.id = r.id
  BY <1>4 DEF ToSet, NodeToJson
<1>6. Anchored(file.edges, ToSet(file.nodes))
  <2>1. Anchored(k.edges, ToSet(k.nodes))
    BY <1>1 DEF IsSession
  <2>2. \A e \in k.edges : /\ e \in [src : Id, dst : Id, kind : Kind]
                           /\ \E r \in ToSet(k.nodes) : r.id = e.src
                           /\ \E r \in ToSet(k.nodes) : r.id = e.dst
    BY <2>1 DEF Anchored
  <2>3. ASSUME NEW e \in k.edges
        PROVE  /\ \E j \in ToSet(file.nodes) : j.id = e.src
               /\ \E j \in ToSet(file.nodes) : j.id = e.dst
    BY <1>5, <2>2
  <2> QED BY <1>3, <2>2, <2>3 DEF Anchored
<1> QED BY <1>3, <1>4, <1>6 DEF k

\* A session with its queue emptied and its nodes parsed, field by field.
LEMMA SessionReadBack ==
    ASSUME NEW s, NEW x,
           s = [nodes |-> s.nodes, edges |-> s.edges, clock |-> s.clock, uses |-> s.uses,
                evidence |-> s.evidence, history |-> s.history, queue |-> s.queue]
    PROVE  [s EXCEPT !.queue = {}, !.nodes = x]
             = [nodes |-> x, edges |-> s.edges, clock |-> s.clock, uses |-> s.uses,
                evidence |-> s.evidence, history |-> s.history, queue |-> {}]
<1> DEFINE a == s.nodes
           b == s.edges
           c == s.clock
           d == s.uses
           e == s.evidence
           f == s.history
           g == s.queue
           m == [s EXCEPT !.queue = {}]
<1>1. s = [nodes |-> a, edges |-> b, clock |-> c, uses |-> d, evidence |-> e,
           history |-> f, queue |-> g]
  OBVIOUS
<1> SUFFICES [s EXCEPT !.queue = {}, !.nodes = x]
               = [nodes |-> x, edges |-> b, clock |-> c, uses |-> d, evidence |-> e,
                  history |-> f, queue |-> {}]
  OBVIOUS
<1>2. [s EXCEPT !.queue = {}, !.nodes = x] = [m EXCEPT !.nodes = x]
  OBVIOUS
<1> HIDE DEF a, b, c, d, e, f, g
<1>3. m = [nodes |-> a, edges |-> b, clock |-> c, uses |-> d, evidence |-> e,
           history |-> f, queue |-> {}]
  BY ONLY <1>1 DEF m
<1> HIDE DEF m
<1>4. [m EXCEPT !.nodes = x]
        = [nodes |-> x, edges |-> b, clock |-> c, uses |-> d, evidence |-> e,
           history |-> f, queue |-> {}]
  BY ONLY <1>3
<1> QED BY <1>2, <1>4

LEMMA LoadGivesBack ==
    ASSUME SavedInv, Load
    PROVE  /\ SavedInv'
           /\ Session' = [kept.file EXCEPT !.queue = {}, !.nodes = AllFromJson(@)]
<1> DEFINE k == kept.file
<1>1. file \notin {NoFile, Torn} /\ Restore(file.nodes, file.edges)
      /\ clock' = file.clock /\ uses' = file.uses
      /\ evidence' = file.evidence /\ history' = file.history
      /\ UNCHANGED <<file, container, ahead, kept>>
  BY DEF Load, disk
<1>2. /\ file.nodes = AllToJson(k.nodes) /\ file.edges = k.edges
      /\ file.clock = k.clock /\ file.uses = k.uses
      /\ file.evidence = k.evidence /\ file.history = k.history
      /\ file.nodes \in Seq(Json) /\ Anchored(file.edges, ToSet(file.nodes))
      /\ DOMAIN file.nodes = DOMAIN k.nodes /\ Len(file.nodes) = Len(k.nodes)
      /\ \A i \in DOMAIN k.nodes : file.nodes[i] = NodeToJson(k.nodes[i])
  BY <1>1, FileReads DEF SavedInv
<1>3. /\ nodes' \in Seq(NodeRecord) /\ Len(nodes') = Len(file.nodes)
      /\ DOMAIN nodes' = DOMAIN file.nodes /\ nodes' = AllFromJson(file.nodes)
      /\ byId' \in [Id -> 0 .. Len(nodes')]
      /\ IndexesAgree' /\ live' \subseteq DOMAIN nodes' /\ queue' = {}
      /\ edges' \subseteq [src : DOMAIN nodes', dst : DOMAIN nodes', kind : Kind]
      /\ NamedEdges' = file.edges
  BY <1>1, <1>2, RestoreRebuilds
<1>4. IsSession(k)
  BY DEF SavedInv, FileInv
<1> HIDE DEF k
<1>5. /\ k.nodes \in Seq(NodeRecord) /\ k.uses \in [DOMAIN k.nodes -> Nat]
      /\ k.clock \in Nat /\ \A i \in DOMAIN k.nodes : k.nodes[i].ts <= k.clock
      /\ k = [nodes |-> k.nodes, edges |-> k.edges, clock |-> k.clock, uses |-> k.uses,
              evidence |-> k.evidence, history |-> k.history, queue |-> k.queue]
  BY <1>4 DEF IsSession
<1>6. \A i \in DOMAIN k.nodes : nodes'[i] = NodeFromJson(k.nodes[i])
  <2>1. \A r : NodeFromJson(NodeToJson(r)) = NodeFromJson(r)
    BY DEF NodeFromJson, NodeToJson
  <2>2. \A i \in DOMAIN k.nodes : nodes'[i] = NodeFromJson(file.nodes[i])
    BY <1>2, <1>3, NodesOfJson
  <2> QED BY <1>2, <2>1, <2>2
<1>7. \A i \in DOMAIN k.nodes : nodes'[i].ts = k.nodes[i].ts
  <2>1. \A r : NodeFromJson(r).ts = r.ts
    BY DEF NodeFromJson
  <2> QED BY <1>6, <2>1
<1>8. TypeOK' /\ uses' \in [DOMAIN nodes' -> Nat] /\ clock' \in Nat
  BY <1>1, <1>2, <1>3, <1>5 DEF TypeOK, Kind
<1>9. ClockIsAhead'
  BY <1>1, <1>2, <1>3, <1>5, <1>7 DEF ClockIsAhead
<1>10. SavedInv'
  BY <1>1, <1>3, <1>8, <1>9 DEF SavedInv, WorkInv, FileInv, ContainerInv
<1>11. nodes' = AllFromJson(k.nodes)
  <2>1. nodes' = [i \in DOMAIN k.nodes |-> nodes'[i]]
    BY <1>2, <1>3 DEF AllFromJson
  <2> QED BY <1>6, <2>1 DEF AllFromJson
<1>12. Session' = [nodes |-> AllFromJson(k.nodes), edges |-> k.edges, clock |-> k.clock,
                   uses |-> k.uses, evidence |-> k.evidence, history |-> k.history,
                   queue |-> {}]
  BY <1>1, <1>2, <1>3, <1>11 DEF Session
<1>13. [k EXCEPT !.queue = {}, !.nodes = AllFromJson(k.nodes)]
         = [nodes |-> AllFromJson(k.nodes), edges |-> k.edges, clock |-> k.clock,
            uses |-> k.uses, evidence |-> k.evidence, history |-> k.history, queue |-> {}]
  BY <1>5, SessionReadBack, Zenon
<1>14. Session' = [k EXCEPT !.queue = {}, !.nodes = AllFromJson(k.nodes)]
  BY <1>12, <1>13
<1> QED BY <1>10, <1>14 DEF k

LEMMA OpenGivesBack ==
    ASSUME SavedInv, OpenContext
    PROVE  /\ SavedInv'
           /\ ToSet(AllFromJson(kept.container.nodes)) \subseteq ToSet(nodes')
           /\ kept.container.edges \subseteq NamedEdges'
<1>1. /\ clock' = Greatest({r.ts : r \in container.nodes})
      /\ UNCHANGED <<file, container, ahead, kept>>
  BY DEF OpenContext, LatestTs, disk
<1>2. PICK ns \in SetToSeqs(container.nodes) : Restore(ns, container.edges)
  BY DEF OpenContext
<1>3. PICK usage \in container.usage :
           uses' = [i \in DOMAIN nodes' |->
                      IF byId'[nodes'[i].id] = i /\ nodes'[i].id \in DOMAIN usage
                      THEN usage[nodes'[i].id] ELSE 0]
  BY DEF OpenContext
<1>4. /\ container.nodes \subseteq Json /\ IsFiniteSet(container.nodes)
      /\ Anchored(container.edges, container.nodes) /\ container.usage \subseteq Counters
      /\ kept.container.nodes \in Seq(NodeRecord)
      /\ ToSet(AllToJson(kept.container.nodes)) \subseteq container.nodes
      /\ kept.container.edges \subseteq container.edges
  BY DEF SavedInv, ContainerInv
<1>5. ns \in Seq(container.nodes) /\ ToSet(ns) = container.nodes
  BY <1>4, ListingIsComplete
<1>6. ns \in Seq(Json) /\ DOMAIN ns = 1 .. Len(ns) /\ \A i \in DOMAIN ns : ns[i] \in Json
  BY <1>4, <1>5, SeqMonotonic, ElementOfSeq, LenProperties
<1>7. /\ nodes' \in Seq(NodeRecord) /\ Len(nodes') = Len(ns)
      /\ DOMAIN nodes' = DOMAIN ns /\ nodes' = AllFromJson(ns)
      /\ byId' \in [Id -> 0 .. Len(nodes')]
      /\ IndexesAgree' /\ live' \subseteq DOMAIN nodes' /\ queue' = {}
      /\ edges' \subseteq [src : DOMAIN nodes', dst : DOMAIN nodes', kind : Kind]
      /\ NamedEdges' = container.edges
  BY <1>2, <1>4, <1>5, <1>6, RestoreRebuilds
<1>8. uses' \in [DOMAIN nodes' -> Nat]
  <2>1. PICK D \in SUBSET Id : usage \in [D -> Nat]
    BY <1>4 DEF Counters
  <2>2. \A n \in DOMAIN usage : usage[n] \in Nat
    BY <2>1
  <2> QED BY <1>3, <2>2
<1>9. clock' \in Nat /\ \A r \in container.nodes : r.ts <= clock'
  <2> DEFINE times == {r.ts : r \in container.nodes}
             f == [r \in container.nodes |-> r.ts]
  <2>1. times \in SUBSET Nat
    BY <1>4 DEF Json
  <2>2. f \in [container.nodes -> times] /\ \A x \in times : \E r \in container.nodes : f[r] = x
    OBVIOUS
  <2>3. \A r \in container.nodes : r.ts \in times
    OBVIOUS
  <2>4. clock' = Greatest(times)
    BY <1>1
  <2> HIDE DEF times, f
  <2>5. f \in Surjection(container.nodes, times)
    BY <2>2, Fun_IsSurj
  <2>6. IsFiniteSet(times)
    BY <1>4, <2>5, FS_Surjection
  <2>7. Greatest(times) \in times \cup {0} /\ \A y \in times : y <= Greatest(times)
    BY <2>1, <2>6, GreatestBounds
  <2>8. Greatest(times) \in Nat
    <3>1. \A x \in times \cup {0} : x \in Nat
      BY <2>1
    <3> QED BY <2>7, <3>1
  <2> QED BY <2>3, <2>4, <2>7, <2>8
<1>10. ClockIsAhead'
  <2>1. \A i \in DOMAIN ns : nodes'[i].ts = ns[i].ts /\ ns[i] \in container.nodes
    BY <1>5, <1>6, <1>7, NodesOfJson DEF ToSet
  <2> QED BY <1>7, <1>9, <2>1 DEF ClockIsAhead
<1>11. SavedInv'
  BY <1>1, <1>7, <1>8, <1>9, <1>10
     DEF SavedInv, WorkInv, FileInv, ContainerInv, TypeOK, Kind
<1>12. ToSet(AllFromJson(kept.container.nodes)) \subseteq ToSet(nodes')
  <2> DEFINE k == kept.container.nodes
  <2> SUFFICES ASSUME NEW i \in DOMAIN AllFromJson(k)
               PROVE  AllFromJson(k)[i] \in ToSet(nodes')
    BY DEF ToSet
  <2>1. i \in DOMAIN k /\ AllFromJson(k)[i] = NodeFromJson(k[i])
    BY DEF AllFromJson
  <2>2. NodeToJson(k[i]) \in container.nodes
    BY <1>4, <2>1, JsonOfNodes DEF ToSet
  <2>3. PICK j \in DOMAIN ns : ns[j] = NodeToJson(k[i])
    BY <1>5, <2>2 DEF ToSet
  <2>4. nodes'[j] = NodeFromJson(NodeToJson(k[i]))
    BY <1>6, <1>7, <2>3, NodesOfJson
  <2>5. NodeFromJson(NodeToJson(k[i])) = NodeFromJson(k[i])
    BY DEF NodeFromJson, NodeToJson
  <2> HIDE DEF k
  <2> QED BY <1>7, <2>1, <2>3, <2>4, <2>5 DEF ToSet
<1> QED BY <1>4, <1>7, <1>11, <1>12

-----------------------------------------------------------------------------
LEMMA SavedInit == Init => SavedInv
<1> SUFFICES ASSUME Init PROVE SavedInv
  OBVIOUS
<1>1. /\ nodes = <<>> /\ byId = [n \in Id |-> 0] /\ live = {} /\ edges = {}
      /\ queue = {} /\ clock = 0 /\ uses = <<>>
      /\ file = NoFile /\ container = Empty /\ ahead = {}
      /\ kept = [file |-> Session, container |-> Session]
  BY DEF Init
<1>2. DOMAIN nodes = {} /\ Len(nodes) = 0 /\ nodes \in Seq(NodeRecord)
      /\ uses \in [DOMAIN nodes -> Nat]
  BY <1>1
<1>3. WorkInv
  BY <1>1, <1>2 DEF WorkInv, TypeOK, IndexesAgree, LiveOf, ClockIsAhead
<1>4. FileInv
  BY <1>1, <1>3, SessionIsWell DEF FileInv
<1>5. NamedEdges = {} /\ ToSet(AllToJson(nodes)) = {}
  BY <1>1, <1>2 DEF NamedEdges, ToSet, AllToJson
<1>6. ContainerInv
  BY <1>1, <1>2, <1>5, FS_EmptySet DEF ContainerInv, Empty, Anchored, Session
<1> QED BY <1>3, <1>4, <1>6 DEF SavedInv

LEMMA SavedStep == SavedInv /\ [Next]_vars => SavedInv'
<1> SUFFICES ASSUME SavedInv, [Next]_vars PROVE SavedInv'
  OBVIOUS
<1>1. ASSUME Working, WorkInv' PROVE SavedInv'
  BY <1>1 DEF Working, disk, SavedInv, FileInv, ContainerInv
<1>2. ASSUME NEW n \in Id, Ingest(n) PROVE SavedInv'
  BY <1>1, <1>2, IngestKeeps DEF SavedInv, Ingest
<1>3. ASSUME NEW i \in DOMAIN nodes, Invalidate(i) \/ Revalidate(i) \/ Read(i)
      PROVE  SavedInv'
  BY <1>1, <1>3, CallKeeps DEF SavedInv, Invalidate, Revalidate, Read
<1>4. CASE UNCHANGED vars
  BY <1>4 DEF vars, session, graph, disk, SavedInv, WorkInv, TypeOK, IndexesAgree, LiveOf,
              ClockIsAhead, FileInv, ContainerInv
<1> QED BY <1>2, <1>3, <1>4, SaveKeeps, SealKeeps, DeathKeeps, LoadGivesBack, OpenGivesBack
        DEF Next

\* At every step, deaths of the process included, the session at work agrees with
\* itself, and each format holds what the last save of it was asked to keep.
THEOREM SavedInvariant == Spec => []SavedInv
BY SavedInit, SavedStep, PTL DEF Spec

\* Every variable of the session at work keeps its type.
THEOREM TypeCorrect == Spec => []TypeOK
<1>1. SavedInv => TypeOK
  BY DEF SavedInv, WorkInv
<1> QED BY <1>1, SavedInvariant, PTL

\* However a session came to be, an id resolves to a node of that id, and what is
\* live is what is not history.
THEOREM IndexesStayAgreed == Spec => []IndexesAgree
<1>1. SavedInv => IndexesAgree
  BY DEF SavedInv, WorkInv
<1> QED BY <1>1, SavedInvariant, PTL

\* No node is dated after the clock, before and after a restart.
THEOREM ClockStaysAhead == Spec => []ClockIsAhead
<1>1. SavedInv => ClockIsAhead
  BY DEF SavedInv, WorkInv
<1> QED BY <1>1, SavedInvariant, PTL

\* load() gives back the session the last save() was given, and a container that
\* opens gives back every node and edge of the session sealed in it last.
THEOREM SavedComesBack == Spec => SavedIsRestored
<1>1. SavedInv /\ [Next]_vars =>
        [Starts("file") =>
           Session' = [kept.file EXCEPT !.queue = {}, !.nodes = AllFromJson(@)]]_vars
  <2> SUFFICES ASSUME SavedInv, Next, Starts("file")
               PROVE  Session' = [kept.file EXCEPT !.queue = {}, !.nodes = AllFromJson(@)]
    OBVIOUS
  <2>1. Load
    BY DEF Starts, Next, Ingest, Invalidate, Revalidate, Read, Working, Save, DieSaving,
           SaveContext, DieSavingContext, OpenContext, Die
  <2> QED BY <2>1, LoadGivesBack
<1>2. SavedInv /\ [Next]_vars =>
        [Starts("container") =>
           /\ ToSet(AllFromJson(kept.container.nodes)) \subseteq ToSet(nodes')
           /\ kept.container.edges \subseteq NamedEdges']_vars
  <2> SUFFICES ASSUME SavedInv, Next, Starts("container")
               PROVE  /\ ToSet(AllFromJson(kept.container.nodes)) \subseteq ToSet(nodes')
                      /\ kept.container.edges \subseteq NamedEdges'
    OBVIOUS
  <2>1. OpenContext
    BY DEF Starts, Next, Ingest, Invalidate, Revalidate, Read, Working, Save, DieSaving,
           SaveContext, DieSavingContext, Load, Die
  <2> QED BY <2>1, OpenGivesBack
<1> QED BY <1>1, <1>2, SavedInvariant, PTL
        DEF Spec, SavedIsRestored, LoadedAsSaved, SealedIsRestored

-----------------------------------------------------------------------------
(* The Merkle tree.  What a recursive definition computes is reached round *)
(* by round: a set of rounds that has the first and the next of each has   *)
(* them all.                                                               *)

LEMMA LeastExists ==
    ASSUME NEW S \in SUBSET Nat, S # {}
    PROVE  \E x \in S : \A y \in S : x <= y
<1>1. PICK x \in S : \A y \in S : ~ (<<y, x>> \in OpToRel(<, Nat))
  BY NatLessThanWellFounded, WFMin
<1>2. \A y \in S : ~ (y < x)
  BY <1>1 DEF OpToRel
<1> QED BY <1>2

LEMMA EveryRound ==
    ASSUME NEW N \in Nat, NEW S, 0 \in S, \A i \in 1 .. N : i - 1 \in S => i \in S
    PROVE  \A i \in 0 .. N : i \in S
<1> DEFINE Missing == {i \in 0 .. N : i \notin S}
<1> SUFFICES ASSUME Missing # {} PROVE FALSE
  OBVIOUS
<1>1. Missing \in SUBSET Nat
  OBVIOUS
<1> HIDE DEF Missing
<1>2. PICK i \in Missing : \A j \in Missing : i <= j
  BY <1>1, LeastExists, Zenon
<1>3. i \in 0 .. N /\ i \notin S /\ i # 0
  BY <1>2 DEF Missing
<1>4. i \in 1 .. N /\ i - 1 \in 0 .. N /\ i - 1 \in Nat /\ ~ (i <= i - 1)
  BY <1>3
<1>5. i - 1 \in S
  BY <1>2, <1>4 DEF Missing
<1> QED BY <1>3, <1>4, <1>5

IsList(s, k) == s = [i \in 1 .. k |-> s[i]]

LEMMA ListLength ==
    ASSUME NEW k \in Nat, NEW s, IsList(s, k)
    PROVE  Len(s) = k /\ DOMAIN s = 1 .. k
<1> DEFINE R == {s[i] : i \in 1 .. k}
<1>1. s \in [1 .. k -> R]
  BY DEF IsList
<1>2. s \in Seq(R)
  BY <1>1, SeqDef
<1>3. DOMAIN s = 1 .. k
  BY <1>1
<1>4. DOMAIN s = 1 .. Len(s) /\ Len(s) \in Nat
  BY <1>2, LenProperties
<1>5. PICK n \in Nat : n = Len(s) /\ 1 .. n = 1 .. k
  BY <1>3, <1>4
<1>6. n = k
  <2>1. n > k => n \in 1 .. n /\ ~ (n \in 1 .. k)
    OBVIOUS
  <2>2. k > n => k \in 1 .. k /\ ~ (k \in 1 .. n)
    OBVIOUS
  <2> QED BY <1>5, <2>1, <2>2
<1> QED BY <1>3, <1>5, <1>6

LEMMA HalfUpIs ==
    ASSUME NEW k \in Nat
    PROVE  /\ HalfUp(k) \in Nat
           /\ k = 2 * HalfUp(k) \/ k = 2 * HalfUp(k) - 1
           /\ k % 2 = 1 <=> k = 2 * HalfUp(k) - 1
BY DEF HalfUp

LEMMA NextIs ==
    ASSUME NEW k \in Nat, NEW s, IsList(s, k)
    PROVE  /\ HalfUp(k) \in Nat /\ IsList(NextLevel(s), HalfUp(k))
           /\ Len(NextLevel(s)) = HalfUp(k)
           /\ \A i \in 1 .. HalfUp(k) :
                 NextLevel(s)[i] = IF 2 * i <= k THEN NodeDigest(s[2 * i - 1], s[2 * i])
                                   ELSE s[2 * i - 1]
<1>1. Len(s) = k
  BY ListLength
<1>2. NextLevel(s) = [i \in 1 .. HalfUp(k) |->
                         IF 2 * i <= k THEN NodeDigest(s[2 * i - 1], s[2 * i]) ELSE s[2 * i - 1]]
  BY <1>1 DEF NextLevel
<1>3. HalfUp(k) \in Nat
  BY HalfUpIs
<1>4. IsList(NextLevel(s), HalfUp(k))
  BY <1>2 DEF IsList
<1> QED BY <1>2, <1>3, <1>4, ListLength

-----------------------------------------------------------------------------
(* The levels over a row of leaves.                                        *)

Risen(level, h, row) == IF h = 0 THEN row ELSE NextLevel(level[h - 1])
IsTree(level, n, row) == level = [h \in 0 .. n |-> Risen(level, h, row)]

LEMMA TreeExists ==
    ASSUME NEW n \in Nat, NEW row
    PROVE  \E level : IsTree(level, n, row)
<1> DEFINE Good == {k \in 0 .. n : \E level : IsTree(level, k, row)}
<1>1. 0 \in Good
  <2> DEFINE f == [h \in 0 .. 0 |-> row]
  <2>1. \A h \in 0 .. 0 : f[h] = Risen(f, h, row)
    BY DEF Risen
  <2>2. IsTree(f, 0, row)
    BY <2>1 DEF IsTree
  <2> QED BY <2>2
<1>2. ASSUME NEW k \in 1 .. n, k - 1 \in Good PROVE k \in Good
  <2>1. PICK f : IsTree(f, k - 1, row)
    BY <1>2
  <2> DEFINE g == [h \in 0 .. k |-> IF h < k THEN f[h] ELSE NextLevel(f[k - 1])]
  <2>2. \A h \in 0 .. k - 1 : f[h] = Risen(f, h, row)
    BY <2>1 DEF IsTree
  <2>3. ASSUME NEW h \in 0 .. k PROVE g[h] = Risen(g, h, row)
    <3>1. CASE h = 0
      <4>1. 0 \in 0 .. k - 1 /\ 0 < k /\ 0 \in 0 .. k
        OBVIOUS
      <4> QED BY <2>2, <3>1, <4>1 DEF Risen
    <3>2. CASE h # 0
      <4>1. h - 1 \in 0 .. k /\ h - 1 < k
        BY <3>2
      <4>2. g[h - 1] = f[h - 1]
        BY <4>1
      <4>3. h < k => h \in 0 .. k - 1
        OBVIOUS
      <4>4. ~ (h < k) => h = k
        OBVIOUS
      <4> QED BY <2>2, <3>2, <4>2, <4>3, <4>4 DEF Risen
    <3> QED BY <3>1, <3>2
  <2>4. IsTree(g, k, row)
    BY <2>3 DEF IsTree
  <2> QED BY <2>4
<1> HIDE DEF Good
<1>3. \A k \in 0 .. n : k \in Good
  BY <1>1, <1>2, EveryRound
<1> QED BY <1>3 DEF Good

\* A tree of n leaves, whose levels halve down to one digest.
Grown(level, n, row) == n \in Nat \ {0} /\ IsList(row, n) /\ IsTree(level, n, row)

LEMMA TreeLaws ==
    ASSUME NEW n \in Nat, NEW row, NEW level, IsTree(level, n, row)
    PROVE  level[0] = row /\ \A h \in 1 .. n : level[h] = NextLevel(level[h - 1])
<1>1. \A h \in 0 .. n : level[h] = Risen(level, h, row)
  BY DEF IsTree
<1>2. 0 \in 0 .. n /\ \A h \in 1 .. n : h \in 0 .. n /\ h # 0
  OBVIOUS
<1> QED BY <1>1, <1>2 DEF Risen

LEMMA TreeSizes ==
    ASSUME NEW n, NEW row, NEW level, Grown(level, n, row)
    PROVE  /\ Len(level[0]) = n /\ Len(level[n]) = 1
           /\ \A h \in 0 .. n : Len(level[h]) \in Nat \ {0} /\ IsList(level[h], Len(level[h]))
           /\ \A h \in 1 .. n : Len(level[h]) = HalfUp(Len(level[h - 1]))
<1> DEFINE Short(h, k) == k \in Nat \ {0} /\ IsList(level[h], k) /\ (k = 1 \/ k <= n - h)
           Good == {h \in 0 .. n : Short(h, Len(level[h]))}
<1>1. /\ n \in Nat \ {0} /\ IsList(row, n) /\ level[0] = row
      /\ \A h \in 1 .. n : level[h] = NextLevel(level[h - 1])
  BY TreeLaws DEF Grown
<1>2. 0 \in Good
  <2>1. Len(level[0]) = n
    BY <1>1, ListLength
  <2> QED BY <1>1, <2>1
<1>3. ASSUME NEW h \in 1 .. n, NEW k, k = Len(level[h - 1]), Short(h - 1, k)
      PROVE  Len(level[h]) = HalfUp(k) /\ Short(h, HalfUp(k))
  <2>1. Len(level[h]) = HalfUp(k) /\ IsList(level[h], HalfUp(k)) /\ HalfUp(k) \in Nat
    BY <1>1, <1>3, NextIs
  <2>2. PICK j \in Nat : j = HalfUp(k) /\ (k = 2 * j \/ k = 2 * j - 1)
    BY <1>3, HalfUpIs
  <2>3. k \in Nat \ {0} /\ (k = 1 \/ k <= n - (h - 1)) /\ n \in Nat
    BY <1>1, <1>3
  <2>4. j # 0 /\ (j = 1 \/ j <= n - h)
    BY <2>2, <2>3
  <2> QED BY <2>1, <2>2, <2>4
<1>4. ASSUME NEW h \in 1 .. n, h - 1 \in Good PROVE h \in Good
  <2>1. Short(h - 1, Len(level[h - 1]))
    BY <1>4
  <2>2. h \in 0 .. n
    OBVIOUS
  <2> HIDE DEF Short
  <2>3. Short(h, Len(level[h]))
    BY <1>3, <2>1
  <2> QED BY <2>2, <2>3
<1>5. \A h \in 0 .. n : h \in Good
  <2> HIDE DEF Good
  <2> QED BY <1>1, <1>2, <1>4, EveryRound
<1>6. \A h \in 1 .. n : Len(level[h]) = HalfUp(Len(level[h - 1]))
  <2> TAKE h \in 1 .. n
  <2>1. h - 1 \in 0 .. n
    BY <1>1
  <2>2. Short(h - 1, Len(level[h - 1]))
    BY <1>5, <2>1
  <2> HIDE DEF Short
  <2> QED BY <1>3, <2>2
<1>7. Len(level[n]) = 1
  <2>1. PICK k : k = Len(level[n]) /\ Short(n, k)
    <3>1. n \in 0 .. n
      BY <1>1
    <3> QED BY <1>5, <3>1
  <2>2. k \in Nat \ {0} /\ (k = 1 \/ k <= 0)
    BY <1>1, <2>1
  <2> QED BY <2>1, <2>2
<1>8. Len(level[0]) = n
  BY <1>1, ListLength
<1> QED BY <1>5, <1>6, <1>7, <1>8

-----------------------------------------------------------------------------
(* The way up from a leaf: where it stands on each level, and the siblings *)
(* recorded on the way.                                                    *)

Climbed(level, c, h, p) ==
    IF h = 0 THEN [at |-> p, steps |-> <<>>]
    ELSE [at |-> HalfUp(c[h - 1].at),
          steps |-> c[h - 1].steps \o StepAt(level[h - 1], c[h - 1].at)]
IsAscent(level, n, p, c) == c = [h \in 0 .. n |-> Climbed(level, c, h, p)]
Ascent(level, n, p) == CHOOSE c : IsAscent(level, n, p, c)

LEMMA AscentExists ==
    ASSUME NEW n \in Nat, NEW level, NEW p
    PROVE  IsAscent(level, n, p, Ascent(level, n, p))
<1> DEFINE Good == {k \in 0 .. n : \E c : IsAscent(level, k, p, c)}
<1>1. 0 \in Good
  <2> DEFINE f == [h \in 0 .. 0 |-> [at |-> p, steps |-> <<>>]]
  <2>1. \A h \in 0 .. 0 : f[h] = Climbed(level, f, h, p)
    BY DEF Climbed
  <2>2. IsAscent(level, 0, p, f)
    BY <2>1 DEF IsAscent
  <2> QED BY <2>2
<1>2. ASSUME NEW k \in 1 .. n, k - 1 \in Good PROVE k \in Good
  <2>1. PICK f : IsAscent(level, k - 1, p, f)
    BY <1>2
  <2> DEFINE next == [at |-> HalfUp(f[k - 1].at),
                      steps |-> f[k - 1].steps \o StepAt(level[k - 1], f[k - 1].at)]
             g == [h \in 0 .. k |-> IF h < k THEN f[h] ELSE next]
  <2>2. \A h \in 0 .. k - 1 : f[h] = Climbed(level, f, h, p)
    BY <2>1 DEF IsAscent
  <2>3. ASSUME NEW h \in 0 .. k PROVE g[h] = Climbed(level, g, h, p)
    <3>1. CASE h = 0
      <4>1. 0 \in 0 .. k - 1 /\ 0 < k /\ 0 \in 0 .. k
        OBVIOUS
      <4> QED BY <2>2, <3>1, <4>1 DEF Climbed
    <3>2. CASE h # 0
      <4>1. h - 1 \in 0 .. k /\ h - 1 < k
        BY <3>2
      <4>2. g[h - 1] = f[h - 1]
        BY <4>1
      <4>3. h < k => g[h] = f[h] /\ f[h] = Climbed(level, f, h, p)
        BY <2>2
      <4>4. ~ (h < k) => h = k /\ g[h] = next
        OBVIOUS
      <4> HIDE DEF g
      <4>5. h < k => g[h] = Climbed(level, g, h, p)
        BY <3>2, <4>2, <4>3 DEF Climbed
      <4>6. ~ (h < k) => g[h] = Climbed(level, g, h, p)
        BY <3>2, <4>2, <4>4 DEF Climbed
      <4> QED BY <4>5, <4>6
    <3> QED BY <3>1, <3>2
  <2>4. IsAscent(level, k, p, g)
    BY <2>3 DEF IsAscent
  <2> QED BY <2>4
<1> HIDE DEF Good
<1>3. \A k \in 0 .. n : k \in Good
  BY <1>1, <1>2, EveryRound
<1>4. \E c : IsAscent(level, n, p, c)
  BY <1>3 DEF Good
<1> QED BY <1>4 DEF Ascent

StandsAt(level, n, p, h) == Ascent(level, n, p)[h].at
StepsTo(level, n, p, h) == Ascent(level, n, p)[h].steps

LEMMA FieldsAre ==
    \A a, s, r : r = [at |-> a, steps |-> s] => r.at = a /\ r.steps = s
OBVIOUS

Rises(level, n, p, h) ==
    /\ StandsAt(level, n, p, h) = HalfUp(StandsAt(level, n, p, h - 1))
    /\ StepsTo(level, n, p, h) =
          StepsTo(level, n, p, h - 1) \o StepAt(level[h - 1], StandsAt(level, n, p, h - 1))

LEMMA AscentLaws ==
    ASSUME NEW n \in Nat, NEW level, NEW p
    PROVE  /\ StandsAt(level, n, p, 0) = p /\ StepsTo(level, n, p, 0) = <<>>
           /\ \A h \in 1 .. n : Rises(level, n, p, h)
<1>1. PICK c : c = Ascent(level, n, p) /\ IsAscent(level, n, p, c)
  BY AscentExists
<1>2. \A h \in 0 .. n : c[h] = Climbed(level, c, h, p)
  BY <1>1 DEF IsAscent
<1>3. c[0].at = p /\ c[0].steps = <<>>
  <2>1. 0 \in 0 .. n
    OBVIOUS
  <2>2. c[0] = [at |-> p, steps |-> <<>>]
    BY <1>2, <2>1 DEF Climbed
  <2> QED BY <2>2, FieldsAre
<1>4. ASSUME NEW h \in 1 .. n
      PROVE  /\ c[h].at = HalfUp(c[h - 1].at)
             /\ c[h].steps = c[h - 1].steps \o StepAt(level[h - 1], c[h - 1].at)
  <2>1. h \in 0 .. n /\ h # 0
    OBVIOUS
  <2>2. c[h] = Climbed(level, c, h, p)
    BY <1>2, <2>1
  <2>3. Climbed(level, c, h, p) =
           [at |-> HalfUp(c[h - 1].at),
            steps |-> c[h - 1].steps \o StepAt(level[h - 1], c[h - 1].at)]
    BY <2>1, Zenon DEF Climbed
  <2> DEFINE a == HalfUp(c[h - 1].at)
             s == c[h - 1].steps \o StepAt(level[h - 1], c[h - 1].at)
  <2>4. c[h] = [at |-> a, steps |-> s]
    BY <2>2, <2>3, Zenon
  <2>5. c[h].at = a /\ c[h].steps = s
    <3> HIDE DEF a, s
    <3> QED BY <2>4, FieldsAre
  <2> QED BY <2>5
<1>5. StandsAt(level, n, p, 0) = p /\ StepsTo(level, n, p, 0) = <<>>
  BY <1>1, <1>3 DEF StandsAt, StepsTo
<1>6. ASSUME NEW h \in 1 .. n PROVE Rises(level, n, p, h)
  BY <1>1, <1>4 DEF StandsAt, StepsTo, Rises
<1> QED BY <1>5, <1>6

LEMMA StaysOnLevel ==
    ASSUME NEW n, NEW row, NEW level, Grown(level, n, row), NEW p \in 1 .. n
    PROVE  \A h \in 0 .. n : StandsAt(level, n, p, h) \in 1 .. Len(level[h])
<1> DEFINE Good == {h \in 0 .. n : StandsAt(level, n, p, h) \in 1 .. Len(level[h])}
<1>1. n \in Nat \ {0} /\ n \in Nat
  BY DEF Grown
<1>2. 0 \in Good
  BY <1>1, AscentLaws, TreeSizes
<1>3. ASSUME NEW h \in 1 .. n, h - 1 \in Good PROVE h \in Good
  <2>1. PICK k \in Nat, i \in Nat :
           k = Len(level[h - 1]) /\ i = StandsAt(level, n, p, h - 1) /\ i \in 1 .. k
    <3>1. h - 1 \in 0 .. n
      BY <1>1
    <3>2. Len(level[h - 1]) \in Nat
      BY <3>1, TreeSizes
    <3> QED BY <1>3, <3>2
  <2>2. StandsAt(level, n, p, h) = HalfUp(i) /\ Len(level[h]) = HalfUp(k)
    <3>1. StandsAt(level, n, p, h) = HalfUp(StandsAt(level, n, p, h - 1))
      <4>1. Rises(level, n, p, h)
        BY <1>1, AscentLaws
      <4> QED BY <4>1 DEF Rises
    <3>2. Len(level[h]) = HalfUp(Len(level[h - 1]))
      BY TreeSizes
    <3> QED BY <2>1, <3>1, <3>2
  <2>3. PICK a \in Nat, b \in Nat :
           /\ a = HalfUp(i) /\ (i = 2 * a \/ i = 2 * a - 1)
           /\ b = HalfUp(k) /\ (k = 2 * b \/ k = 2 * b - 1)
    BY HalfUpIs
  <2>4. a \in 1 .. b
    <3>1. 1 <= i /\ i <= k
      BY <2>1
    <3> QED BY <2>3, <3>1
  <2> QED BY <1>1, <2>2, <2>3, <2>4
<1> HIDE DEF Good
<1>4. \A h \in 0 .. n : h \in Good
  BY <1>1, <1>2, <1>3, EveryRound
<1> QED BY <1>4 DEF Good

\* The leaves that rise to position i of level h.
Below(level, n, row, h, i) == {row[p] : p \in {q \in 1 .. n : StandsAt(level, n, q, h) = i}}

\* A digest above the leaves is its first child promoted, or the pair of its two.
Promoted(level, n, row, h, i) ==
    /\ 2 * i - 1 \in 1 .. Len(level[h - 1])
    /\ level[h][i] = level[h - 1][2 * i - 1]
    /\ Below(level, n, row, h, i) = Below(level, n, row, h - 1, 2 * i - 1)
Paired(level, n, row, h, i) ==
    /\ 2 * i - 1 \in 1 .. Len(level[h - 1]) /\ 2 * i \in 1 .. Len(level[h - 1])
    /\ level[h][i] = NodeDigest(level[h - 1][2 * i - 1], level[h - 1][2 * i])
    /\ Below(level, n, row, h, i) =
          Below(level, n, row, h - 1, 2 * i - 1) \cup Below(level, n, row, h - 1, 2 * i)

LEMMA ChildrenAre ==
    ASSUME NEW n, NEW row, NEW level, Grown(level, n, row),
           NEW h \in 1 .. n, NEW i \in 1 .. Len(level[h])
    PROVE  Promoted(level, n, row, h, i) \/ Paired(level, n, row, h, i)
<1>1. n \in Nat \ {0} /\ n \in Nat /\ h - 1 \in 0 .. n /\ h \in 0 .. n
  BY DEF Grown
<1>2. PICK k \in Nat, m \in Nat :
         /\ k = Len(level[h - 1]) /\ m = Len(level[h]) /\ m = HalfUp(k)
         /\ (k = 2 * m \/ k = 2 * m - 1)
         /\ IsList(level[h - 1], k)
  <2>1. /\ Len(level[h - 1]) \in Nat /\ IsList(level[h - 1], Len(level[h - 1]))
        /\ Len(level[h]) = HalfUp(Len(level[h - 1]))
    BY <1>1, TreeSizes
  <2>2. PICK k \in Nat : k = Len(level[h - 1])
    BY <2>1
  <2>3. HalfUp(k) \in Nat /\ (k = 2 * HalfUp(k) \/ k = 2 * HalfUp(k) - 1)
    BY HalfUpIs
  <2> QED BY <2>1, <2>2, <2>3
<1>3. level[h] = NextLevel(level[h - 1])
  BY <1>1, TreeLaws DEF Grown
<1>4. level[h][i] = IF 2 * i <= k THEN NodeDigest(level[h - 1][2 * i - 1], level[h - 1][2 * i])
                    ELSE level[h - 1][2 * i - 1]
  BY <1>2, <1>3, NextIs
<1>5. i \in 1 .. m
  BY <1>2
<1>6. 2 * i - 1 \in 1 .. k
  BY <1>2, <1>5
<1>7. ASSUME NEW q \in 1 .. n
      PROVE  StandsAt(level, n, q, h) = i <=>
               \/ StandsAt(level, n, q, h - 1) = 2 * i - 1
               \/ 2 * i <= k /\ StandsAt(level, n, q, h - 1) = 2 * i
  <2>1. PICK a \in Nat : a = StandsAt(level, n, q, h - 1) /\ a \in 1 .. k
    <3>1. StandsAt(level, n, q, h - 1) \in 1 .. Len(level[h - 1])
      BY <1>1, StaysOnLevel
    <3> QED BY <1>2, <3>1
  <2>2. StandsAt(level, n, q, h) = HalfUp(a)
    <3>1. StandsAt(level, n, q, h) = HalfUp(StandsAt(level, n, q, h - 1))
      <4>1. Rises(level, n, q, h)
        BY <1>1, AscentLaws
      <4> QED BY <4>1 DEF Rises
    <3> QED BY <2>1, <3>1
  <2>3. PICK b \in Nat : b = HalfUp(a) /\ (a = 2 * b \/ a = 2 * b - 1)
    BY HalfUpIs
  <2>4. 1 <= a /\ a <= k /\ i \in Nat
    BY <1>5, <2>1
  <2>5. b = i <=> a = 2 * i - 1 \/ (2 * i <= k /\ a = 2 * i)
    BY <2>3, <2>4
  <2> QED BY <2>1, <2>2, <2>3, <2>5
<1>8. CASE 2 * i <= k
  <2>1. 2 * i \in 1 .. k
    BY <1>5, <1>8
  <2>2. Below(level, n, row, h, i) =
          Below(level, n, row, h - 1, 2 * i - 1) \cup Below(level, n, row, h - 1, 2 * i)
    BY <1>7, <1>8 DEF Below
  <2> QED BY <1>2, <1>4, <1>6, <1>8, <2>1, <2>2 DEF Paired
<1>9. CASE ~ (2 * i <= k)
  <2>1. Below(level, n, row, h, i) = Below(level, n, row, h - 1, 2 * i - 1)
    BY <1>7, <1>9 DEF Below
  <2> QED BY <1>2, <1>4, <1>6, <1>9, <2>1 DEF Promoted
<1> QED BY <1>8, <1>9

-----------------------------------------------------------------------------
(* The root is the set of its leaves.  Digests of two trees, of any sizes  *)
(* and at any heights, are equal only over the same leaves: a promoted one *)
(* is that of its child, a pair is the pair of its children, and a pair is *)
(* no leaf, its domain tag being another.                                  *)

IsLeafRow(row, n) == \A p \in 1 .. n : \E id, content : row[p] = LeafDigest(id, content)

LEMMA LeafIsNoNode ==
    \A id, content, l, r : LeafDigest(id, content) # NodeDigest(l, r)
BY DEF LeafDigest, NodeDigest

LEMMA NodeIsItsChildren ==
    \A l, r, l2, r2 : NodeDigest(l, r) = NodeDigest(l2, r2) => l = l2 /\ r = r2
BY DEF NodeDigest

LEMMA BottomIs ==
    ASSUME NEW n, NEW row, NEW level, Grown(level, n, row), NEW i \in 1 .. Len(level[0])
    PROVE  i \in 1 .. n /\ level[0][i] = row[i] /\ Below(level, n, row, 0, i) = {row[i]}
<1>1. n \in Nat /\ level[0] = row
  BY TreeLaws DEF Grown
<1>2. i \in 1 .. n
  BY TreeSizes
<1>3. \A q \in 1 .. n : StandsAt(level, n, q, 0) = q
  BY <1>1, AscentLaws
<1> QED BY <1>1, <1>2, <1>3 DEF Below

\* Equal digests at heights h and g are over the same leaves.
Agree(s, n, a, t, m, b, h, g) ==
    \A i \in 1 .. Len(s[h]), j \in 1 .. Len(t[g]) :
        s[h][i] = t[g][j] => Below(s, n, a, h, i) = Below(t, m, b, g, j)

LEMMA AgreeAbove ==
    ASSUME NEW n, NEW a, NEW s, Grown(s, n, a), IsLeafRow(a, n),
           NEW m, NEW b, NEW t, Grown(t, m, b), IsLeafRow(b, m),
           NEW h \in 0 .. n, NEW g \in 0 .. m,
           h > 0 => Agree(s, n, a, t, m, b, h - 1, g),
           g > 0 => Agree(s, n, a, t, m, b, h, g - 1),
           h > 0 /\ g > 0 => Agree(s, n, a, t, m, b, h - 1, g - 1)
    PROVE  Agree(s, n, a, t, m, b, h, g)
<1> SUFFICES ASSUME NEW i \in 1 .. Len(s[h]), NEW j \in 1 .. Len(t[g]), s[h][i] = t[g][j]
             PROVE  Below(s, n, a, h, i) = Below(t, m, b, g, j)
  BY DEF Agree
<1>1. n \in Nat /\ m \in Nat
  BY DEF Grown
<1>2. h = 0 => /\ i \in 1 .. n /\ s[h][i] = a[i] /\ Below(s, n, a, h, i) = {a[i]}
  BY BottomIs
<1>3. g = 0 => /\ j \in 1 .. m /\ t[g][j] = b[j] /\ Below(t, m, b, g, j) = {b[j]}
  BY BottomIs
<1>4. h > 0 => Promoted(s, n, a, h, i) \/ Paired(s, n, a, h, i)
  <2>1. h > 0 => h \in 1 .. n
    BY <1>1
  <2> QED BY <2>1, ChildrenAre
<1>5. g > 0 => Promoted(t, m, b, g, j) \/ Paired(t, m, b, g, j)
  <2>1. g > 0 => g \in 1 .. m
    BY <1>1
  <2> QED BY <2>1, ChildrenAre
<1>6. CASE h > 0 /\ Promoted(s, n, a, h, i)
  <2>1. PICK c \in 1 .. Len(s[h - 1]) :
           s[h][i] = s[h - 1][c] /\ Below(s, n, a, h, i) = Below(s, n, a, h - 1, c)
    BY <1>6 DEF Promoted
  <2>2. Below(s, n, a, h - 1, c) = Below(t, m, b, g, j)
    BY <1>6, <2>1 DEF Agree
  <2> QED BY <2>1, <2>2
<1>7. CASE g > 0 /\ Promoted(t, m, b, g, j)
  <2>1. PICK c \in 1 .. Len(t[g - 1]) :
           t[g][j] = t[g - 1][c] /\ Below(t, m, b, g, j) = Below(t, m, b, g - 1, c)
    BY <1>7 DEF Promoted
  <2>2. Below(s, n, a, h, i) = Below(t, m, b, g - 1, c)
    BY <1>7, <2>1 DEF Agree
  <2> QED BY <2>1, <2>2
<1>8. CASE h > 0 /\ g > 0 /\ Paired(s, n, a, h, i) /\ Paired(t, m, b, g, j)
  <2>1. PICK c \in 1 .. Len(s[h - 1]), d \in 1 .. Len(s[h - 1]) :
           /\ s[h][i] = NodeDigest(s[h - 1][c], s[h - 1][d])
           /\ Below(s, n, a, h, i) = Below(s, n, a, h - 1, c) \cup Below(s, n, a, h - 1, d)
    BY <1>8 DEF Paired
  <2>2. PICK e \in 1 .. Len(t[g - 1]), f \in 1 .. Len(t[g - 1]) :
           /\ t[g][j] = NodeDigest(t[g - 1][e], t[g - 1][f])
           /\ Below(t, m, b, g, j) = Below(t, m, b, g - 1, e) \cup Below(t, m, b, g - 1, f)
    BY <1>8 DEF Paired
  <2>3. s[h - 1][c] = t[g - 1][e] /\ s[h - 1][d] = t[g - 1][f]
    <3>1. NodeDigest(s[h - 1][c], s[h - 1][d]) = NodeDigest(t[g - 1][e], t[g - 1][f])
      BY <2>1, <2>2
    <3> QED BY <3>1, NodeIsItsChildren
  <2>4. /\ Below(s, n, a, h - 1, c) = Below(t, m, b, g - 1, e)
        /\ Below(s, n, a, h - 1, d) = Below(t, m, b, g - 1, f)
    BY <1>8, <2>3 DEF Agree
  <2> QED BY <2>1, <2>2, <2>4
<1>9. CASE h = 0 /\ g > 0 /\ Paired(t, m, b, g, j)
  <2>1. PICK id, content : s[h][i] = LeafDigest(id, content)
    BY <1>2, <1>9 DEF IsLeafRow
  <2>2. PICK l, r : t[g][j] = NodeDigest(l, r)
    BY <1>9 DEF Paired
  <2> QED BY <2>1, <2>2, LeafIsNoNode
<1>10. CASE g = 0 /\ h > 0 /\ Paired(s, n, a, h, i)
  <2>1. PICK id, content : t[g][j] = LeafDigest(id, content)
    BY <1>3, <1>10 DEF IsLeafRow
  <2>2. PICK l, r : s[h][i] = NodeDigest(l, r)
    BY <1>10 DEF Paired
  <2> QED BY <2>1, <2>2, LeafIsNoNode
<1>11. CASE h = 0 /\ g = 0
  BY <1>2, <1>3, <1>11
<1>12. (h = 0 \/ h > 0) /\ (g = 0 \/ g > 0)
  OBVIOUS
<1> QED BY <1>4, <1>5, <1>6, <1>7, <1>8, <1>9, <1>10, <1>11, <1>12

LEMMA DigestsAgree ==
    ASSUME NEW n, NEW a, NEW s, Grown(s, n, a), IsLeafRow(a, n),
           NEW m, NEW b, NEW t, Grown(t, m, b), IsLeafRow(b, m)
    PROVE  \A h \in 0 .. n, g \in 0 .. m : Agree(s, n, a, t, m, b, h, g)
<1> DEFINE Holds(h, g) == Agree(s, n, a, t, m, b, h, g)
           Good == {k \in 0 .. n + m : \A h \in 0 .. n, g \in 0 .. m : h + g <= k => Holds(h, g)}
<1>1. n \in Nat /\ m \in Nat /\ n + m \in Nat
  BY DEF Grown
<1>2. ASSUME NEW h \in 0 .. n, NEW g \in 0 .. m,
             h > 0 => Holds(h - 1, g), g > 0 => Holds(h, g - 1),
             h > 0 /\ g > 0 => Holds(h - 1, g - 1)
      PROVE  Holds(h, g)
  BY <1>2, AgreeAbove
<1> HIDE DEF Holds
<1>3. 0 \in Good
  <2>1. ASSUME NEW h \in 0 .. n, NEW g \in 0 .. m, h + g <= 0 PROVE Holds(h, g)
    <3>1. ~ (h > 0) /\ ~ (g > 0)
      BY <2>1
    <3> QED BY <1>2, <3>1
  <2> QED BY <1>1, <2>1
<1>4. ASSUME NEW k \in 1 .. n + m, k - 1 \in Good PROVE k \in Good
  <2>1. ASSUME NEW h \in 0 .. n, NEW g \in 0 .. m, h + g <= k PROVE Holds(h, g)
    <3>1. \A x \in 0 .. n, y \in 0 .. m : x + y <= k - 1 => Holds(x, y)
      BY <1>4
    <3>2. h > 0 => Holds(h - 1, g)
      <4>1. h > 0 => h - 1 \in 0 .. n /\ h - 1 + g <= k - 1
        BY <1>1, <2>1
      <4> QED BY <3>1, <4>1
    <3>3. g > 0 => Holds(h, g - 1)
      <4>1. g > 0 => g - 1 \in 0 .. m /\ h + (g - 1) <= k - 1
        BY <1>1, <2>1
      <4> QED BY <3>1, <4>1
    <3>4. h > 0 /\ g > 0 => Holds(h - 1, g - 1)
      <4>1. h > 0 /\ g > 0 => h - 1 \in 0 .. n /\ g - 1 \in 0 .. m /\ (h - 1) + (g - 1) <= k - 1
        BY <1>1, <2>1
      <4> QED BY <3>1, <4>1
    <3> QED BY <1>2, <3>2, <3>3, <3>4
  <2> QED BY <1>1, <2>1
<1>5. \A k \in 0 .. n + m : k \in Good
  <2> HIDE DEF Good
  <2> QED BY <1>1, <1>3, <1>4, EveryRound
<1>6. ASSUME NEW h \in 0 .. n, NEW g \in 0 .. m PROVE Holds(h, g)
  <2>1. h + g \in 0 .. n + m /\ h + g <= h + g
    BY <1>1
  <2> QED BY <1>5, <2>1
<1> QED BY <1>6 DEF Holds

-----------------------------------------------------------------------------
(* The leaves of a map, in the order of their ids.                         *)

LEMMA LeavesAre ==
    ASSUME NEW ids \in SUBSET Nat, IsFiniteSet(ids), NEW entries, DOMAIN entries = ids
    PROVE  /\ Cardinality(ids) \in Nat
           /\ IsList(Leaves(entries), Cardinality(ids))
           /\ \A i \in 1 .. Cardinality(ids) : Leaves(entries)[i] \in ids
           /\ \A id \in ids : \E i \in 1 .. Cardinality(ids) : Leaves(entries)[i] = id
<1> DEFINE rank(x) == Cardinality(UpTo(ids, x))
<1>1. PICK n \in Nat : n = Cardinality(ids)
  BY FS_CardinalityType
<1>2. ASSUME NEW x \in ids
      PROVE  /\ UpTo(ids, x) \in SUBSET ids /\ x \in UpTo(ids, x)
             /\ IsFiniteSet(UpTo(ids, x)) /\ rank(x) \in 1 .. n
  <2>1. UpTo(ids, x) \in SUBSET ids /\ x \in UpTo(ids, x)
    BY DEF UpTo
  <2>2. IsFiniteSet(UpTo(ids, x)) /\ rank(x) \in Nat /\ rank(x) <= n
    BY <1>1, <2>1, FS_Subset, FS_CardinalityType
  <2>3. rank(x) # 0
    BY <2>1, <2>2, FS_EmptySet
  <2> HIDE DEF rank
  <2>4. rank(x) \in 1 .. n
    BY <2>2, <2>3
  <2> QED BY <2>1, <2>2, <2>4
<1>3. ASSUME NEW x \in ids, NEW y \in ids, x < y PROVE rank(x) < rank(y)
  <2>1. UpTo(ids, x) \in SUBSET (UpTo(ids, y) \ {y})
    <3>1. ASSUME NEW z \in UpTo(ids, x) PROVE z \in UpTo(ids, y) \ {y}
      <4>1. z \in ids /\ z \in Nat /\ z <= x /\ x \in Nat /\ y \in Nat
        BY DEF UpTo
      <4>2. z <= y /\ z # y
        BY <1>3, <4>1
      <4> QED BY <4>1, <4>2 DEF UpTo
    <3> QED BY <3>1
  <2>2. IsFiniteSet(UpTo(ids, y) \ {y}) /\ Cardinality(UpTo(ids, y) \ {y}) = rank(y) - 1
    BY <1>2, FS_RemoveElement
  <2>3. rank(x) <= Cardinality(UpTo(ids, y) \ {y})
    BY <2>1, <2>2, FS_Subset
  <2>4. rank(x) \in 1 .. n /\ rank(y) \in 1 .. n
    BY <1>2
  <2> HIDE DEF rank
  <2> QED BY <2>2, <2>3, <2>4
<1> DEFINE f == [x \in ids |-> rank(x)]
           T == 1 .. n
<1>4. f \in Injection(ids, T)
  <2>1. ASSUME NEW x \in ids, NEW y \in ids, x # y PROVE rank(x) # rank(y)
    <3>1. x < y \/ y < x
      BY <2>1
    <3>2. rank(x) \in 1 .. n /\ rank(y) \in 1 .. n
      BY <1>2
    <3> HIDE DEF rank
    <3> QED BY <1>3, <3>1, <3>2
  <2> QED BY <1>2, <2>1 DEF Injection, IsInjective
<1>5. IsFiniteSet(T) /\ Cardinality(T) = n
  <2>1. Cardinality(1 .. n) = IF 1 > n THEN 0 ELSE n - 1 + 1
    BY FS_Interval
  <2> QED BY <2>1, FS_Interval
<1>6. \A i \in T : \E x \in ids : rank(x) = i
  <2> HIDE DEF f, T
  <2>1. f \in Surjection(ids, T)
    BY <1>1, <1>4, <1>5, FS_Injection
  <2>2. \A i \in T : \E x \in ids : f[x] = i
    BY <2>1 DEF Surjection
  <2> QED BY <2>2 DEF f
<1>7. Leaves(entries) = [i \in 1 .. n |-> CHOOSE id \in ids : rank(id) = i]
  BY <1>1 DEF Leaves
<1>8. ASSUME NEW i \in 1 .. n
      PROVE  Leaves(entries)[i] \in ids /\ rank(Leaves(entries)[i]) = i
  BY <1>6, <1>7
<1>9. ASSUME NEW id \in ids PROVE \E i \in 1 .. n : Leaves(entries)[i] = id
  <2>1. PICK i \in 1 .. n : i = rank(id)
    BY <1>2
  <2>2. PICK x \in ids : x = Leaves(entries)[i] /\ rank(x) = i
    BY <1>8
  <2>3. ~ (x < id) /\ ~ (id < x)
    <3> HIDE DEF rank
    <3> QED BY <1>3, <2>1, <2>2
  <2> QED BY <2>2, <2>3
<1> QED BY <1>1, <1>7, <1>8, <1>9 DEF IsList

HasLeaves(entries) ==
    DOMAIN entries \in SUBSET Nat /\ IsFiniteSet(DOMAIN entries) /\ DOMAIN entries # {}
LeafRow(entries) ==
    [i \in DOMAIN Leaves(entries) |-> LeafDigest(Leaves(entries)[i], entries[Leaves(entries)[i]])]

LEMMA TreeOfMap ==
    ASSUME NEW entries, HasLeaves(entries), NEW n, n = Cardinality(DOMAIN entries)
    PROVE  /\ Grown(Levels(entries), n, LeafRow(entries)) /\ IsLeafRow(LeafRow(entries), n)
           /\ Len(Leaves(entries)) = n /\ DOMAIN Leaves(entries) = 1 .. n
           /\ Root(entries) = Levels(entries)[n][1]
           /\ Below(Levels(entries), n, LeafRow(entries), n, 1) =
                 {LeafDigest(id, entries[id]) : id \in DOMAIN entries}
<1> DEFINE ids == DOMAIN entries
           row == LeafRow(entries)
<1>1. /\ n \in Nat /\ IsList(Leaves(entries), n)
      /\ \A i \in 1 .. n : Leaves(entries)[i] \in ids
      /\ \A id \in ids : \E i \in 1 .. n : Leaves(entries)[i] = id
  BY LeavesAre DEF HasLeaves
<1>2. n # 0
  BY <1>1 DEF HasLeaves
<1>3. Len(Leaves(entries)) = n /\ DOMAIN Leaves(entries) = 1 .. n
  BY <1>1, ListLength
<1>4. row = [i \in 1 .. n |-> LeafDigest(Leaves(entries)[i], entries[Leaves(entries)[i]])]
  BY <1>3 DEF LeafRow
<1>5. IsList(row, n) /\ IsLeafRow(row, n)
  BY <1>4 DEF IsList, IsLeafRow
<1>6. IsTree(Levels(entries), n, row)
  <2> DEFINE tree == CHOOSE x : IsTree(x, n, row)
  <2>1. Levels(entries) = tree
    BY <1>3 DEF Levels, IsTree, Risen, LeafRow
  <2>2. IsTree(tree, n, row)
    BY <1>1, TreeExists
  <2> QED BY <2>1, <2>2
<1>7. Grown(Levels(entries), n, row)
  BY <1>1, <1>2, <1>5, <1>6 DEF Grown
<1>8. Root(entries) = Levels(entries)[n][1]
  BY <1>3 DEF Root, HasLeaves
<1>9. \A p \in 1 .. n : StandsAt(Levels(entries), n, p, n) = 1
  <2> TAKE p \in 1 .. n
  <2>1. n \in 0 .. n
    BY <1>1
  <2>2. StandsAt(Levels(entries), n, p, n) \in 1 .. Len(Levels(entries)[n])
    BY <1>7, <2>1, StaysOnLevel
  <2>3. Len(Levels(entries)[n]) = 1
    BY <1>7, TreeSizes
  <2> QED BY <2>2, <2>3
<1>10. Below(Levels(entries), n, row, n, 1) = {row[p] : p \in 1 .. n}
  <2> HIDE DEF row
  <2> QED BY <1>9 DEF Below
<1>11. {row[p] : p \in 1 .. n} = {LeafDigest(id, entries[id]) : id \in ids}
  <2>1. ASSUME NEW p \in 1 .. n
        PROVE  row[p] \in {LeafDigest(id, entries[id]) : id \in ids}
    BY <1>1, <1>4
  <2>2. ASSUME NEW id \in ids
        PROVE  LeafDigest(id, entries[id]) \in {row[p] : p \in 1 .. n}
    <3>1. PICK p \in 1 .. n : Leaves(entries)[p] = id
      BY <1>1
    <3>2. row[p] = LeafDigest(id, entries[id])
      BY <1>4, <3>1
    <3> QED BY <3>2
  <2> HIDE DEF row
  <2> QED BY <2>1, <2>2
<1> QED BY <1>3, <1>5, <1>7, <1>8, <1>10, <1>11

LEMMA LeafIsItsPair ==
    \A i, x, j, y : LeafDigest(i, x) = LeafDigest(j, y) => i = j /\ x = y
BY DEF LeafDigest

\* Two maps from ids to contents with one root are one map: nothing can be added,
\* removed, renamed or changed under a root (merkle.rs, build).
THEOREM RootIsTheMap ==
    ASSUME NEW e, DOMAIN e \in SUBSET Nat, IsFiniteSet(DOMAIN e), e = [i \in DOMAIN e |-> e[i]],
           NEW f, DOMAIN f \in SUBSET Nat, IsFiniteSet(DOMAIN f), f = [i \in DOMAIN f |-> f[i]],
           Root(e) = Root(f)
    PROVE  e = f
<1>1. ASSUME NEW x, HasLeaves(x) PROVE Root(x) # EmptyRoot
  <2>1. PICK n : n = Cardinality(DOMAIN x)
    OBVIOUS
  <2>2. PICK s, a : /\ Grown(s, n, a) /\ IsLeafRow(a, n) /\ Root(x) = s[n][1]
    BY <1>1, <2>1, TreeOfMap
  <2> DEFINE Real(d) == d # EmptyRoot
             Good == {h \in 0 .. n : \A i \in 1 .. Len(s[h]) : Real(s[h][i])}
  <2>3. \A id, content, l, r : Real(LeafDigest(id, content)) /\ Real(NodeDigest(l, r))
    BY DEF LeafDigest, NodeDigest, EmptyRoot
  <2> HIDE DEF Real
  <2>4. n \in Nat
    BY <2>2 DEF Grown
  <2>5. 0 \in Good
    BY <2>2, <2>3, <2>4, BottomIs DEF IsLeafRow
  <2>6. ASSUME NEW h \in 1 .. n, h - 1 \in Good PROVE h \in Good
    <3>1. ASSUME NEW i \in 1 .. Len(s[h]) PROVE Real(s[h][i])
      <4>1. Promoted(s, n, a, h, i) \/ Paired(s, n, a, h, i)
        BY <2>2, ChildrenAre
      <4>2. CASE Promoted(s, n, a, h, i)
        BY <2>6, <4>2 DEF Promoted
      <4>3. CASE Paired(s, n, a, h, i)
        BY <2>3, <4>3 DEF Paired
      <4> QED BY <4>1, <4>2, <4>3
    <3> QED BY <2>4, <3>1
  <2>7. \A h \in 0 .. n : h \in Good
    <3> HIDE DEF Good
    <3> QED BY <2>4, <2>5, <2>6, EveryRound
  <2>8. n \in 0 .. n /\ 1 \in 1 .. Len(s[n])
    BY <2>2, <2>4, TreeSizes
  <2> QED BY <2>2, <2>7, <2>8 DEF Real
<1>2. CASE DOMAIN e = {} \/ DOMAIN f = {}
  <2>1. \A x : DOMAIN x = {} => Root(x) = EmptyRoot
    BY DEF Root
  <2>2. DOMAIN e = {} /\ DOMAIN f = {}
    BY <1>1, <1>2, <2>1 DEF HasLeaves
  <2> QED BY <2>2
<1>3. CASE DOMAIN e # {} /\ DOMAIN f # {}
  <2>1. PICK n, m : n = Cardinality(DOMAIN e) /\ m = Cardinality(DOMAIN f)
    OBVIOUS
  <2>2. PICK s, a : /\ Grown(s, n, a) /\ IsLeafRow(a, n) /\ Root(e) = s[n][1]
                    /\ Below(s, n, a, n, 1) = {LeafDigest(id, e[id]) : id \in DOMAIN e}
    BY <1>3, <2>1, TreeOfMap DEF HasLeaves
  <2>3. PICK t, b : /\ Grown(t, m, b) /\ IsLeafRow(b, m) /\ Root(f) = t[m][1]
                    /\ Below(t, m, b, m, 1) = {LeafDigest(id, f[id]) : id \in DOMAIN f}
    BY <1>3, <2>1, TreeOfMap DEF HasLeaves
  <2>4. n \in 0 .. n /\ m \in 0 .. m /\ 1 \in 1 .. Len(s[n]) /\ 1 \in 1 .. Len(t[m])
    <3>1. n \in Nat /\ m \in Nat
      BY <2>2, <2>3 DEF Grown
    <3>2. Len(s[n]) = 1 /\ Len(t[m]) = 1
      BY <2>2, <2>3, TreeSizes
    <3> QED BY <3>1, <3>2
  <2>5. Below(s, n, a, n, 1) = Below(t, m, b, m, 1)
    <3>1. Agree(s, n, a, t, m, b, n, m)
      BY <2>2, <2>3, <2>4, DigestsAgree
    <3>2. s[n][1] = t[m][1]
      BY <2>2, <2>3
    <3> QED BY <2>4, <3>1, <3>2 DEF Agree
  <2>6. {LeafDigest(id, e[id]) : id \in DOMAIN e} = {LeafDigest(id, f[id]) : id \in DOMAIN f}
    BY <2>2, <2>3, <2>5
  <2>7. ASSUME NEW i \in DOMAIN e PROVE i \in DOMAIN f /\ e[i] = f[i]
    <3>1. PICK j \in DOMAIN f : LeafDigest(i, e[i]) = LeafDigest(j, f[j])
      BY <2>6
    <3> QED BY <3>1, LeafIsItsPair
  <2>8. ASSUME NEW i \in DOMAIN f PROVE i \in DOMAIN e
    <3>1. PICK j \in DOMAIN e : LeafDigest(i, f[i]) = LeafDigest(j, e[j])
      BY <2>6
    <3> QED BY <3>1, LeafIsItsPair
  <2>9. DOMAIN e = DOMAIN f /\ \A i \in DOMAIN e : e[i] = f[i]
    BY <2>7, <2>8
  <2> QED BY <2>9
<1> QED BY <1>2, <1>3

-----------------------------------------------------------------------------
(* A proof is replayed over its leaf: it gives the root over the content   *)
(* it was made for, and over no other.                                     *)

Replayed(f, d, steps, i) == IF i = 0 THEN d ELSE Combine(f[i - 1], steps[i])
IsReplay(f, d, steps) == f = [i \in 0 .. Len(steps) |-> Replayed(f, d, steps, i)]
Replay(d, steps) == (CHOOSE f : IsReplay(f, d, steps))[Len(steps)]

LEMMA ReplayExists ==
    ASSUME NEW d, NEW steps, Len(steps) \in Nat
    PROVE  \E f : IsReplay(f, d, steps) /\ Replay(d, steps) = f[Len(steps)]
<1> DEFINE n == Len(steps)
           Part(f, k) == f = [i \in 0 .. k |-> Replayed(f, d, steps, i)]
           Good == {k \in 0 .. n : \E f : Part(f, k)}
<1>1. 0 \in Good
  <2> DEFINE f == [i \in 0 .. 0 |-> d]
  <2>1. \A i \in 0 .. 0 : f[i] = Replayed(f, d, steps, i)
    BY DEF Replayed
  <2>2. Part(f, 0)
    BY <2>1
  <2> HIDE DEF Part
  <2> QED BY <2>2
<1>2. ASSUME NEW k \in 1 .. n, k - 1 \in Good PROVE k \in Good
  <2>1. PICK f : Part(f, k - 1)
    BY <1>2
  <2> DEFINE g == [i \in 0 .. k |-> IF i < k THEN f[i] ELSE Combine(f[k - 1], steps[k])]
  <2>2. \A i \in 0 .. k - 1 : f[i] = Replayed(f, d, steps, i)
    BY <2>1
  <2>3. ASSUME NEW i \in 0 .. k PROVE g[i] = Replayed(g, d, steps, i)
    <3>1. CASE i = 0
      <4>1. 0 \in 0 .. k - 1 /\ 0 < k /\ 0 \in 0 .. k
        OBVIOUS
      <4> QED BY <2>2, <3>1, <4>1 DEF Replayed
    <3>2. CASE i # 0
      <4>1. i - 1 \in 0 .. k /\ i - 1 < k
        BY <3>2
      <4>2. g[i - 1] = f[i - 1]
        BY <4>1
      <4>3. i < k => g[i] = f[i] /\ f[i] = Replayed(f, d, steps, i)
        BY <2>2
      <4>4. ~ (i < k) => i = k /\ g[i] = Combine(f[k - 1], steps[k])
        OBVIOUS
      <4> HIDE DEF g
      <4> QED BY <3>2, <4>2, <4>3, <4>4 DEF Replayed
    <3> QED BY <3>1, <3>2
  <2>4. Part(g, k)
    BY <2>3
  <2> HIDE DEF Part
  <2> QED BY <2>4
<1> HIDE DEF Good
<1>3. \A k \in 0 .. n : k \in Good
  BY <1>1, <1>2, EveryRound
<1>4. \E f : IsReplay(f, d, steps)
  <2>1. n \in 0 .. n
    OBVIOUS
  <2> QED BY <1>3, <2>1 DEF Good, IsReplay
<1> QED BY <1>4 DEF Replay

LEMMA ReplayLaws ==
    ASSUME NEW d, NEW steps, Len(steps) \in Nat, NEW f, IsReplay(f, d, steps)
    PROVE  f[0] = d /\ \A i \in 1 .. Len(steps) : f[i] = Combine(f[i - 1], steps[i])
<1>1. \A i \in 0 .. Len(steps) : f[i] = Replayed(f, d, steps, i)
  BY DEF IsReplay
<1>2. 0 \in 0 .. Len(steps) /\ \A i \in 1 .. Len(steps) : i \in 0 .. Len(steps) /\ i # 0
  OBVIOUS
<1> QED BY <1>1, <1>2 DEF Replayed

LEMMA ReplayGoesOn ==
    ASSUME NEW T, NEW s \in Seq(T), NEW x \in T, NEW d
    PROVE  /\ Replay(d, <<>>) = d
           /\ Replay(d, s \o <<x>>) = Combine(Replay(d, s), x)
<1>1. Replay(d, <<>>) = d
  <2>1. Len(<<>>) = 0
    OBVIOUS
  <2>2. PICK f : IsReplay(f, d, <<>>) /\ Replay(d, <<>>) = f[0]
    BY <2>1, ReplayExists
  <2> QED BY <2>1, <2>2, ReplayLaws
<1> DEFINE q == s \o <<x>>
<1>2. PICK n \in Nat : n = Len(s)
  BY LenProperties
<1>3. Len(q) = n + 1 /\ q[n + 1] = x /\ \A i \in 1 .. n : q[i] = s[i]
  <2>1. <<x>> \in Seq(T) /\ Len(<<x>>) = 1 /\ <<x>>[1] = x
    OBVIOUS
  <2>2. /\ Len(q) = n + 1
        /\ \A i \in 1 .. n + 1 : q[i] = IF i <= n THEN s[i] ELSE <<x>>[i - n]
    BY <1>2, <2>1, ConcatProperties
  <2>3. n + 1 - n = 1 /\ ~ (n + 1 <= n) /\ n + 1 \in 1 .. n + 1
    OBVIOUS
  <2>4. q[n + 1] = <<x>>[n + 1 - n]
    BY <2>2, <2>3
  <2>5. \A i \in 1 .. n : i \in 1 .. n + 1 /\ i <= n
    OBVIOUS
  <2> HIDE DEF q
  <2> QED BY <2>1, <2>2, <2>3, <2>4, <2>5
<1> HIDE DEF q
<1>4. PICK f : IsReplay(f, d, s) /\ Replay(d, s) = f[n]
  BY <1>2, ReplayExists
<1>5. PICK g : IsReplay(g, d, q) /\ Replay(d, q) = g[n + 1]
  BY <1>3, ReplayExists
<1>6. f[0] = d /\ \A i \in 1 .. n : f[i] = Combine(f[i - 1], s[i])
  BY <1>2, <1>4, ReplayLaws
<1>7. g[0] = d /\ \A i \in 1 .. n + 1 : g[i] = Combine(g[i - 1], q[i])
  BY <1>3, <1>5, ReplayLaws
<1>8. g[n] = f[n]
  <2> DEFINE Good == {i \in 0 .. n : g[i] = f[i]}
  <2>1. 0 \in Good
    BY <1>6, <1>7
  <2>2. ASSUME NEW i \in 1 .. n, i - 1 \in Good PROVE i \in Good
    <3>1. g[i - 1] = f[i - 1] /\ i \in 1 .. n + 1 /\ i \in 0 .. n
      BY <2>2
    <3> QED BY <1>3, <1>6, <1>7, <3>1
  <2> HIDE DEF Good
  <2>3. \A i \in 0 .. n : i \in Good
    BY <2>1, <2>2, EveryRound
  <2> QED BY <2>3 DEF Good
<1>9. g[n + 1] = Combine(g[n], x)
  <2>1. n + 1 \in 1 .. n + 1 /\ n + 1 - 1 = n
    OBVIOUS
  <2> QED BY <1>3, <1>7, <2>1
<1> QED BY <1>1, <1>4, <1>5, <1>8, <1>9 DEF q

LEMMA ReplayTellsApart ==
    ASSUME NEW d, NEW e, d # e, NEW steps, Len(steps) \in Nat
    PROVE  Replay(d, steps) # Replay(e, steps)
<1> DEFINE n == Len(steps)
<1>1. PICK f : IsReplay(f, d, steps) /\ Replay(d, steps) = f[n]
  BY ReplayExists
<1>2. PICK g : IsReplay(g, e, steps) /\ Replay(e, steps) = g[n]
  BY ReplayExists
<1>3. /\ f[0] = d /\ \A i \in 1 .. n : f[i] = Combine(f[i - 1], steps[i])
      /\ g[0] = e /\ \A i \in 1 .. n : g[i] = Combine(g[i - 1], steps[i])
  BY <1>1, <1>2, ReplayLaws
<1>4. \A x, y, s : Combine(x, s) = Combine(y, s) => x = y
  BY NodeIsItsChildren DEF Combine
<1> DEFINE Good == {i \in 0 .. n : f[i] # g[i]}
<1>5. 0 \in Good
  BY <1>3
<1>6. \A i \in 1 .. n : i - 1 \in Good => i \in Good
  <2> SUFFICES ASSUME NEW i \in 1 .. n, f[i - 1] # g[i - 1] PROVE f[i] # g[i]
    OBVIOUS
  <2> QED BY <1>3, <1>4
<1> HIDE DEF Good
<1>7. \A i \in 0 .. n : i \in Good
  BY <1>5, <1>6, EveryRound
<1>8. n \in 0 .. n
  OBVIOUS
<1> QED BY <1>1, <1>2, <1>7, <1>8 DEF Good

LEMMA Halving ==
    ASSUME NEW k \in Nat, NEW i \in 1 .. k
    PROVE  \E j \in 1 .. HalfUp(k) :
              /\ j = HalfUp(i)
              /\ i % 2 = 1 => i = 2 * j - 1
              /\ i % 2 # 1 => i = 2 * j
              /\ 2 * j <= k <=> ~ (i = k /\ i % 2 = 1)
<1>1. i \in Nat /\ 1 <= i /\ i <= k
  OBVIOUS
<1>2. PICK m \in Nat : m = HalfUp(k) /\ (k = 2 * m \/ k = 2 * m - 1)
  BY HalfUpIs
<1>3. PICK j \in Nat : j = HalfUp(i) /\ (i = 2 * j \/ i = 2 * j - 1)
                        /\ (i % 2 = 1 <=> i = 2 * j - 1)
  BY <1>1, HalfUpIs
<1>4. j \in 1 .. m
  BY <1>1, <1>2, <1>3
<1>5. i % 2 = 1 => i = 2 * j - 1
  BY <1>3
<1>6. i % 2 # 1 => i = 2 * j
  BY <1>3
<1>7. 2 * j <= k <=> ~ (i = k /\ i % 2 = 1)
  <2>1. 2 * j <= k <=> ~ (i = k /\ i = 2 * j - 1)
    BY <1>1, <1>3
  <2> QED BY <1>3, <2>1
<1> QED BY <1>2, <1>3, <1>4, <1>5, <1>6, <1>7

\* What the proof records on one level makes of a digest that of its parent.
LEMMA StepRises ==
    ASSUME NEW n, NEW row, NEW level, Grown(level, n, row),
           NEW h \in 1 .. n, NEW i \in 1 .. Len(level[h - 1])
    PROVE  \/ /\ StepAt(level[h - 1], i) = <<>>
              /\ level[h][HalfUp(i)] = level[h - 1][i]
           \/ \E x : /\ StepAt(level[h - 1], i) = <<x>>
                     /\ level[h][HalfUp(i)] = Combine(level[h - 1][i], x)
<1>1. n \in Nat /\ h - 1 \in 0 .. n
  BY DEF Grown
<1>2. PICK k \in Nat \ {0} : k = Len(level[h - 1]) /\ IsList(level[h - 1], k)
  BY <1>1, TreeSizes
<1>3. level[h] = NextLevel(level[h - 1])
  BY <1>1, TreeLaws DEF Grown
<1>4. i \in 1 .. k
  BY <1>2
<1>5. PICK j \in 1 .. HalfUp(k) :
         /\ j = HalfUp(i)
         /\ i % 2 = 1 => i = 2 * j - 1
         /\ i % 2 # 1 => i = 2 * j
         /\ 2 * j <= k <=> ~ (i = k /\ i % 2 = 1)
  BY <1>2, <1>4, Halving, Zenon
<1>8. level[h][j] = IF 2 * j <= k THEN NodeDigest(level[h - 1][2 * j - 1], level[h - 1][2 * j])
                    ELSE level[h - 1][2 * j - 1]
  <2>1. \A c \in 1 .. HalfUp(k) :
           NextLevel(level[h - 1])[c] =
              IF 2 * c <= k THEN NodeDigest(level[h - 1][2 * c - 1], level[h - 1][2 * c])
              ELSE level[h - 1][2 * c - 1]
    BY <1>2, NextIs
  <2> QED BY <1>3, <2>1
<1>9. CASE i = k /\ i % 2 = 1
  <2>1. StepAt(level[h - 1], i) = <<>>
    BY <1>2, <1>9 DEF StepAt
  <2>2. i = 2 * j - 1 /\ ~ (2 * j <= k)
    BY <1>5, <1>9, Zenon
  <2>3. level[h][j] = level[h - 1][i]
    BY <1>8, <2>2, Zenon
  <2> QED BY <1>5, <2>1, <2>3, Zenon
<1>10. CASE i # k /\ i % 2 = 1
  <2> DEFINE x == [sibling |-> level[h - 1][i + 1], side |-> "right"]
  <2>1. StepAt(level[h - 1], i) = <<x>>
    BY <1>2, <1>10 DEF StepAt
  <2>2. 2 * j - 1 = i /\ 2 * j = i + 1 /\ 2 * j <= k
    <3>1. i = 2 * j - 1 /\ 2 * j <= k
      BY <1>5, <1>10, Zenon
    <3>2. j \in Int
      BY <1>2, HalfUpIs
    <3> QED BY <3>1, <3>2
  <2>3. level[h][j] = NodeDigest(level[h - 1][i], level[h - 1][i + 1])
    BY <1>8, <2>2
  <2>4. Combine(level[h - 1][i], x) = NodeDigest(level[h - 1][i], level[h - 1][i + 1])
    BY DEF Combine
  <2>5. /\ StepAt(level[h - 1], i) = <<x>>
        /\ level[h][HalfUp(i)] = Combine(level[h - 1][i], x)
    <3> HIDE DEF x
    <3> QED BY <1>5, <2>1, <2>3, <2>4, Zenon
  <2> HIDE DEF x
  <2> QED BY <2>5, Zenon
<1>11. CASE i % 2 # 1
  <2> DEFINE x == [sibling |-> level[h - 1][i - 1], side |-> "left"]
  <2>1. StepAt(level[h - 1], i) = <<x>>
    BY <1>2, <1>11 DEF StepAt
  <2>2. 2 * j = i /\ 2 * j - 1 = i - 1 /\ 2 * j <= k
    <3>1. i = 2 * j /\ 2 * j <= k
      BY <1>5, <1>11, Zenon
    <3>2. 2 * j = i /\ 2 * j - 1 = i - 1
      BY <3>1, Zenon
    <3> QED BY <3>1, <3>2
  <2>3. level[h][j] = NodeDigest(level[h - 1][i - 1], level[h - 1][i])
    BY <1>8, <2>2
  <2>4. Combine(level[h - 1][i], x) = NodeDigest(level[h - 1][i - 1], level[h - 1][i])
    BY DEF Combine
  <2>5. /\ StepAt(level[h - 1], i) = <<x>>
        /\ level[h][HalfUp(i)] = Combine(level[h - 1][i], x)
    <3> HIDE DEF x
    <3> QED BY <1>5, <2>1, <2>3, <2>4, Zenon
  <2> HIDE DEF x
  <2> QED BY <2>5, Zenon
<1> QED BY <1>9, <1>10, <1>11

LEMMA ReplayClimbs ==
    ASSUME NEW n, NEW row, NEW level, Grown(level, n, row), NEW p \in 1 .. n
    PROVE  /\ Len(StepsTo(level, n, p, n)) \in Nat
           /\ Replay(row[p], StepsTo(level, n, p, n)) = level[n][1]
<1>1. n \in Nat \ {0} /\ n \in Nat /\ level[0] = row
  BY TreeLaws DEF Grown
<1>2. /\ StandsAt(level, n, p, 0) = p /\ StepsTo(level, n, p, 0) = <<>>
      /\ \A h \in 1 .. n : Rises(level, n, p, h)
  BY <1>1, AscentLaws
<1> DEFINE at(h) == StandsAt(level, n, p, h)
           steps(h) == StepsTo(level, n, p, h)
           T == {StepAt(level[h - 1], at(h - 1))[1] : h \in 1 .. n}
           Good == {h \in 0 .. n : steps(h) \in Seq(T) /\ Replay(row[p], steps(h)) = level[h][at(h)]}
<1>3. /\ at(0) = p /\ steps(0) = <<>>
      /\ \A h \in 1 .. n : /\ at(h) = HalfUp(at(h - 1))
                           /\ steps(h) = steps(h - 1) \o StepAt(level[h - 1], at(h - 1))
  BY <1>2 DEF Rises
<1>4. \A h \in 0 .. n : at(h) \in 1 .. Len(level[h])
  BY StaysOnLevel
<1>5. \A h \in 1 .. n : StepAt(level[h - 1], at(h - 1))[1] \in T
  OBVIOUS
<1> HIDE DEF at, steps, T
<1>6. 0 \in Good
  <2>1. Replay(row[p], <<>>) = row[p]
    <3>1. <<>> \in Seq({0}) /\ 0 \in {0}
      OBVIOUS
    <3> QED BY <3>1, ReplayGoesOn
  <2>2. steps(0) \in Seq(T)
    <3>1. <<>> \in Seq(T)
      OBVIOUS
    <3> QED BY <1>3, <3>1
  <2>3. Replay(row[p], steps(0)) = level[0][at(0)]
    BY <1>1, <1>3, <2>1
  <2> QED BY <1>1, <2>2, <2>3
<1>7. ASSUME NEW h \in 1 .. n, h - 1 \in Good PROVE h \in Good
  <2>1. steps(h - 1) \in Seq(T) /\ Replay(row[p], steps(h - 1)) = level[h - 1][at(h - 1)]
    BY <1>7
  <2>2. h - 1 \in 0 .. n /\ h \in 0 .. n
    BY <1>1
  <2>3. PICK i \in 1 .. Len(level[h - 1]) : i = at(h - 1)
    BY <1>4, <2>2
  <2>4. at(h) = HalfUp(i) /\ steps(h) = steps(h - 1) \o StepAt(level[h - 1], i)
    BY <1>3, <2>3
  <2>5. \/ /\ StepAt(level[h - 1], i) = <<>>
           /\ level[h][HalfUp(i)] = level[h - 1][i]
        \/ \E x : /\ StepAt(level[h - 1], i) = <<x>>
                  /\ level[h][HalfUp(i)] = Combine(level[h - 1][i], x)
    BY StepRises
  <2>6. CASE StepAt(level[h - 1], i) = <<>> /\ level[h][HalfUp(i)] = level[h - 1][i]
    <3>1. steps(h) = steps(h - 1)
      BY <2>1, <2>4, <2>6, ConcatEmptySeq
    <3> QED BY <2>1, <2>2, <2>3, <2>4, <2>6, <3>1
  <2>7. CASE \E x : /\ StepAt(level[h - 1], i) = <<x>>
                    /\ level[h][HalfUp(i)] = Combine(level[h - 1][i], x)
    <3>1. PICK x : /\ StepAt(level[h - 1], i) = <<x>>
                   /\ level[h][HalfUp(i)] = Combine(level[h - 1][i], x)
      BY <2>7
    <3>2. x \in T
      <4>1. <<x>>[1] = x
        OBVIOUS
      <4>2. StepAt(level[h - 1], at(h - 1))[1] = x
        BY <2>3, <3>1, <4>1
      <4> QED BY <1>5, <4>2
    <3>3. Replay(row[p], steps(h)) = Combine(level[h - 1][i], x)
      BY <2>1, <2>3, <2>4, <3>1, <3>2, ReplayGoesOn
    <3>4. steps(h) \in Seq(T)
      <4>1. <<x>> \in Seq(T)
        BY <3>2
      <4> QED BY <2>1, <2>4, <3>1, <4>1, ConcatProperties
    <3> QED BY <2>2, <2>4, <3>1, <3>3, <3>4
  <2> QED BY <2>5, <2>6, <2>7
<1>8. \A h \in 0 .. n : h \in Good
  <2> HIDE DEF Good
  <2> QED BY <1>1, <1>6, <1>7, EveryRound
<1>9. n \in 0 .. n /\ at(n) = 1
  <2>1. n \in 0 .. n
    BY <1>1
  <2>2. Len(level[n]) = 1
    BY TreeSizes
  <2>3. at(n) \in 1 .. 1
    BY <1>4, <2>1, <2>2
  <2> QED BY <2>1, <2>3
<1>10. steps(n) \in Seq(T) /\ Replay(row[p], steps(n)) = level[n][1]
  BY <1>8, <1>9
<1>11. Len(steps(n)) \in Nat
  BY <1>10, LenProperties
<1> QED BY <1>10, <1>11 DEF steps

\* A proof verifies for the content it was made for and for no other
\* (merkle.rs, proof, verify_proof).
THEOREM ProofIsOfTheContent ==
    ASSUME NEW e, DOMAIN e \in SUBSET Nat, IsFiniteSet(DOMAIN e), NEW id \in DOMAIN e, NEW content
    PROVE  VerifyProof(id, content, Proof(e, id), Root(e)) <=> content = e[id]
<1>1. PICK n, row, level :
         /\ n = Cardinality(DOMAIN e) /\ row = LeafRow(e) /\ level = Levels(e)
         /\ Grown(level, n, row) /\ Len(Leaves(e)) = n /\ DOMAIN Leaves(e) = 1 .. n
         /\ Root(e) = level[n][1]
  BY TreeOfMap DEF HasLeaves
<1>2. n \in Nat
  BY <1>1 DEF Grown
<1>3. \E q \in 1 .. n : Leaves(e)[q] = id
  BY <1>1, LeavesAre
<1>4. PICK p \in 1 .. n : p = (CHOOSE i \in DOMAIN Leaves(e) : Leaves(e)[i] = id) /\ Leaves(e)[p] = id
  BY <1>1, <1>3
<1>5. row[p] = LeafDigest(id, e[id])
  BY <1>1, <1>4 DEF LeafRow
<1>6. Proof(e, id) = StepsTo(level, n, p, n)
  <2>1. Proof(e, id) = Ascent(level, n, p)[n].steps
    BY <1>1, <1>4 DEF Proof, Ascent, IsAscent, Climbed
  <2> QED BY <2>1 DEF StepsTo
<1>7. PICK steps : steps = Proof(e, id) /\ Len(steps) \in Nat /\ Replay(row[p], steps) = level[n][1]
  BY <1>1, <1>6, ReplayClimbs
<1>8. VerifyProof(id, content, steps, Root(e)) <=> Root(e) = Replay(LeafDigest(id, content), steps)
  BY DEF VerifyProof, Replay, IsReplay, Replayed
<1>9. content # e[id] => LeafDigest(id, content) # LeafDigest(id, e[id])
  BY LeafIsItsPair
<1>10. content # e[id] => Replay(LeafDigest(id, content), steps) # Replay(LeafDigest(id, e[id]), steps)
  BY <1>7, <1>9, ReplayTellsApart
<1> QED BY <1>1, <1>5, <1>7, <1>8, <1>10

-----------------------------------------------------------------------------
(* What the gateway of a container lets in was committed, and a container  *)
(* that was signed stays signed, for any objects, keys and generations.    *)
(* A commit that fails leaves the process ahead of the manifest; what      *)
(* makes that harmless is that a restart needs the chain to end where the  *)
(* manifest does, so the beliefs it restores are those it overwrites.      *)

\* The manifest never runs ahead of the process, nor the process of the chain.
ManifestInv ==
    /\ {believed.gen, manifest.gen} \subseteq Nat
    /\ manifest.gen <= believed.gen
    /\ believed.gen > 0 => believed.gen \in DOMAIN chk

\* What was written in full is held as its sidecar says.
SidecarInv ==
    /\ DOMAIN bytes = Object
    /\ \A o \in DOMAIN side : side[o] \in Nat
    /\ \A o \in Object \ torn : bytes[o] # "none" =>
          o \in Held /\ o \in DOMAIN side /\ side[o] = gens[o]

\* What is held, was written in full and was let in by the ceiling is in the newest
\* checkpoint.
CommittedInv ==
    /\ Held \subseteq Object /\ \A o \in Held : gens[o] \in Nat
    /\ believed.gen > 0 =>
          /\ ceiling = believed.gen
          /\ \A o \in Held \ torn : gens[o] <= believed.gen => o \in chk[believed.gen].set

\* The next generation is never one that is signed.
SignatureInv ==
    /\ DOMAIN sig \subseteq 1 .. believed.gen
    /\ SignaturesCover

\* Whatever is on disk under a key is asked for.
KeyInv ==
    /\ manifest.key # NoKey => believed.key # NoKey
    /\ believed.key # NoKey => require

StoreInv == ManifestInv /\ SidecarInv /\ CommittedInv /\ SignatureInv /\ KeyInv

LEMMA StoreInit == SignedInit => StoreInv
BY DEF SignedInit, StoreInv, ManifestInv, SidecarInv, CommittedInv, SignatureInv, KeyInv,
       SignaturesCover, Held

\* A process that opens a container believes what the last one did, or nothing.
LEMMA ReopenResumes ==
    ASSUME StoreInv, Reopen
    PROVE  /\ DOMAIN chk = 1 .. manifest.gen
           /\ manifest.gen > 0 => believed.gen = manifest.gen
<1> DEFINE n == Cardinality(DOMAIN chk)
<1>1. DOMAIN chk = 1 .. n /\ n \in {0, manifest.gen} /\ n \in Nat
  BY DEF Reopen, ChainIntact, StoreInv, ManifestInv
<1> HIDE DEF n
<1>2. manifest.gen > 0 => n = manifest.gen
  BY <1>1 DEF StoreInv, ManifestInv
<1>3. manifest.gen = 0 => n = 0
  BY <1>1
<1>4. n = manifest.gen
  BY <1>2, <1>3 DEF StoreInv, ManifestInv
<1> QED BY <1>1, <1>4 DEF StoreInv, ManifestInv

\* The three ways a commit goes on from the checkpoint it wrote.
LEMMA AttestKeeps ==
    ASSUME StoreInv, NEW k \in Key \cup {NoKey}, Attest(k), BelievesOnFailure(k),
           manifest' \in {manifest, believed'}
    PROVE  StoreInv'
<1> DEFINE g == believed.gen + 1
<1>0. g \in Nat /\ g > 0 /\ believed.gen < g
  BY DEF StoreInv, ManifestInv
<1>1. /\ believed'.gen = g /\ ceiling' = g
      /\ believed'.key = IF k = NoKey THEN believed.key ELSE k
  BY DEF BelievesOnFailure, Believing, Draft
<1>2. /\ DOMAIN chk' = DOMAIN chk \cup {g} /\ chk'[g] = Draft
      /\ \A i \in DOMAIN chk \ {g} : chk'[i] = chk[i]
  BY DEF Attest, At, Draft
<1>3. ManifestInv'
  BY <1>0, <1>1, <1>2 DEF StoreInv, ManifestInv
<1>4. CommittedInv'
  <2>1. UNCHANGED <<gens, torn>> /\ chk'[g].set = Held
    BY <1>2 DEF Attest, objects, Draft
  <2> QED BY <1>1, <2>1 DEF StoreInv, CommittedInv, Held
<1>5. g \notin DOMAIN sig /\ \A i \in DOMAIN sig : i \in 1 .. g
  BY <1>0 DEF StoreInv, ManifestInv, SignatureInv
<1>6. SignatureInv'
  <2>1. CASE k = NoKey
    <3>1. sig' = sig
      BY <2>1 DEF Attest
    <3> QED BY <1>1, <1>2, <1>5, <3>1 DEF StoreInv, SignatureInv, SignaturesCover
  <2>2. CASE k # NoKey
    <3>1. sig' = At(sig, g, [key |-> k, over |-> Draft])
      BY <2>2 DEF Attest, Draft
    <3>2. /\ DOMAIN sig' = DOMAIN sig \cup {g} /\ sig'[g].over = Draft
          /\ \A i \in DOMAIN sig : sig'[i] = sig[i]
      BY <1>5, <3>1 DEF At
    <3>3. DOMAIN sig' \subseteq 1 .. g
      BY <1>0, <1>5, <3>2
    <3> QED BY <1>1, <1>2, <1>5, <3>2, <3>3 DEF StoreInv, SignatureInv, SignaturesCover
  <2> QED BY <2>1, <2>2
<1>7. KeyInv'
  <2>1. require' <=> require \/ k # NoKey
    BY DEF Attest
  <2> QED BY <1>1, <2>1 DEF StoreInv, KeyInv
<1>8. SidecarInv'
  BY DEF Attest, objects, StoreInv, SidecarInv, Held
<1> QED BY <1>3, <1>4, <1>6, <1>7, <1>8 DEF StoreInv

LEMMA StoreStep == StoreInv /\ [SignedNext]_signedVars => StoreInv'
<1> SUFFICES ASSUME StoreInv, [SignedNext]_signedVars PROVE StoreInv'
  OBVIOUS
<1> USE DEF StoreInv
<1>1. ASSUME NEW o \in Object, Put(o) PROVE StoreInv'
  <2>1. UNCHANGED <<chk, sig, manifest, believed, ceiling, require>> /\ torn' = torn \ {o}
    BY <1>1 DEF Put, policy
  <2>2. /\ DOMAIN gens' = DOMAIN gens \cup {o} /\ gens'[o] = believed.gen + 1
        /\ \A p \in DOMAIN gens : gens'[p] = gens[p]
    BY <1>1 DEF Put, At, Generation, Held
  <2>3. CommittedInv'
    BY <2>1, <2>2 DEF CommittedInv, ManifestInv, Held
  <2>4. /\ DOMAIN side' = DOMAIN side \cup {o} /\ side'[o] = believed.gen + 1
        /\ \A p \in DOMAIN side \ {o} : side'[p] = side[p]
        /\ bytes' = [bytes EXCEPT ![o] = "good"]
    BY <1>1 DEF Put, At, Generation
  <2>5. SidecarInv'
    BY <2>1, <2>2, <2>4 DEF SidecarInv, ManifestInv, Held
  <2> QED BY <2>1, <2>3, <2>5 DEF ManifestInv, SignatureInv, SignaturesCover, KeyInv
<1>9. ASSUME NEW o \in Object, TearPut(o) PROVE StoreInv'
  <2>1. /\ UNCHANGED <<side, gens, chk, sig, manifest, believed, ceiling, require>>
        /\ torn' = torn \cup {o} /\ bytes' = [bytes EXCEPT ![o] = "good"]
    BY <1>9 DEF TearPut, policy
  <2>2. SidecarInv' /\ CommittedInv'
    BY <2>1 DEF SidecarInv, CommittedInv, Held
  <2> QED BY <2>1, <2>2 DEF ManifestInv, SignatureInv, SignaturesCover, KeyInv
<1>2. ASSUME NEW o \in Object, Decay(o) \/ Repair(o) PROVE StoreInv'
  <2>1. UNCHANGED <<gens, torn, chk, sig, manifest, believed, ceiling, require>>
    BY <1>2 DEF Decay, Repair, policy
  <2>2. /\ bytes[o] # "none" /\ DOMAIN bytes' = Object
        /\ \A p \in Object : bytes'[p] # "none" => bytes[p] # "none"
    BY <1>2 DEF Decay, Repair, SidecarInv
  <2>3. \/ side' = side
        \/ /\ o \in Held /\ DOMAIN side' = DOMAIN side \cup {o} /\ side'[o] = gens[o]
           /\ \A p \in DOMAIN side \ {o} : side'[p] = side[p]
    BY <1>2 DEF Decay, Repair, At
  <2>4. SidecarInv'
    BY <2>1, <2>2, <2>3 DEF SidecarInv, CommittedInv, Held
  <2> QED BY <2>1, <2>4 DEF ManifestInv, CommittedInv, SignatureInv, SignaturesCover, KeyInv, Held
<1>3. ASSUME NEW o \in Object, Quarantine(o) PROVE StoreInv'
  <2>1. UNCHANGED <<chk, sig, manifest, believed, ceiling, require>> /\ torn' = torn \ {o}
    BY <1>3 DEF Quarantine, policy
  <2>2. DOMAIN gens' = DOMAIN gens \ {o} /\ \A p \in DOMAIN gens' : gens'[p] = gens[p]
    BY <1>3 DEF Quarantine, Without
  <2>3. CommittedInv'
    BY <2>1, <2>2 DEF CommittedInv, Held
  <2>4. /\ bytes' = [bytes EXCEPT ![o] = "none"]
        /\ DOMAIN side' \subseteq DOMAIN side /\ DOMAIN side \ {o} \subseteq DOMAIN side'
        /\ \A p \in DOMAIN side' : side'[p] = side[p]
    BY <1>3 DEF Quarantine, Without
  <2>5. SidecarInv'
    BY <2>1, <2>2, <2>4 DEF SidecarInv, Held
  <2> QED BY <2>1, <2>3, <2>5 DEF ManifestInv, SignatureInv, SignaturesCover, KeyInv
<1>4. ASSUME NEW k \in Key \cup {NoKey}, Commit(k) \/ FailCommit(k) PROVE StoreInv'
  <2>1. Attest(k) /\ BelievesOnFailure(k) /\ manifest' \in {manifest, believed'}
    BY <1>4 DEF Commit, FailCommit, BelievesOnFailure
  <2> QED BY <2>1, AttestKeeps
<1>5. ASSUME NEW k \in Key, Revoke(k) PROVE StoreInv'
  <2>1. UNCHANGED <<objects, chk, sig, manifest, believed, ceiling, require>>
    BY <1>5 DEF Revoke, policy
  <2> QED BY <2>1 DEF objects, ManifestInv, SidecarInv, CommittedInv, SignatureInv,
                      SignaturesCover, KeyInv, Held
<1>6. ASSUME RefuseCommit PROVE StoreInv'
  <2>1. UNCHANGED <<bytes, side, gens, torn, sig, manifest, believed, ceiling, require>>
    BY <1>6 DEF RefuseCommit, policy, objects
  <2>2. /\ DOMAIN chk' = DOMAIN chk \cup {believed.gen + 1}
        /\ \A i \in DOMAIN chk : i # believed.gen + 1 => chk'[i] = chk[i]
    BY <1>6 DEF RefuseCommit, At, Draft
  <2>3. \A i \in DOMAIN sig \cup {believed.gen} : i # believed.gen + 1
    BY DEF SignatureInv, ManifestInv
  <2>4. SidecarInv'
    BY <2>1 DEF SidecarInv, Held
  <2> QED BY <2>1, <2>2, <2>3, <2>4
          DEF ManifestInv, CommittedInv, SignatureInv, SignaturesCover, KeyInv, Held
<1>7. ASSUME Reopen PROVE StoreInv'
  <2>1. /\ DOMAIN chk = 1 .. manifest.gen
        /\ manifest.gen > 0 => believed.gen = manifest.gen
    BY <1>7, ReopenResumes
  <2>2. /\ believed' = manifest /\ ceiling' = manifest.gen
        /\ require' = (manifest.key # NoKey)
        /\ gens' = Found /\ UNCHANGED <<bytes, side, torn, chk, sig, manifest>>
    BY <1>7 DEF Reopen, Restored
  <2>3. ManifestInv'
    BY <2>1, <2>2 DEF ManifestInv
  <2>4. /\ DOMAIN gens' = OnDisk /\ OnDisk \subseteq Object
        /\ \A o \in OnDisk : gens'[o] \in Nat
        /\ \A o \in OnDisk \ torn : o \in Held /\ o \in DOMAIN side /\ gens'[o] = side[o]
                                    /\ gens'[o] = gens[o]
    BY <2>2 DEF Found, OnDisk, SidecarInv, ManifestInv
  <2>5. SidecarInv'
    BY <2>2, <2>4 DEF SidecarInv, OnDisk, Held
  <2>6. CommittedInv'
    BY <2>1, <2>2, <2>4 DEF ManifestInv, CommittedInv, Held
  <2>7. SignatureInv'
    BY <2>1, <2>2 DEF SignatureInv, SignaturesCover
  <2> QED BY <2>2, <2>3, <2>5, <2>6, <2>7 DEF KeyInv
<1>8. CASE UNCHANGED signedVars
  BY <1>8 DEF signedVars, ManifestInv, SidecarInv, CommittedInv, SignatureInv,
              SignaturesCover, KeyInv, Held
<1> QED BY <1>1, <1>2, <1>3, <1>4, <1>5, <1>6, <1>7, <1>8, <1>9 DEF SignedNext

\* At every step the signatures, the manifest and the ceiling are those of the
\* checkpoints they were written with, whatever failed in between.
THEOREM StoreInvariant == SignedSpec => []StoreInv
BY StoreInit, StoreStep, PTL DEF SignedSpec

\* From the first commit on, what passes the gateway was sealed by the newest
\* checkpoint or is what a put cut off before its sidecar left, however puts,
\* commits, failures and restarts follow one another (ContextStore::admit, open).
THEOREM WholePutsWait == SignedSpec => []PutWaitsForCommit
<1>1. StoreInv => PutWaitsForCommit
  <2> SUFFICES ASSUME StoreInv, believed.gen > 0, NEW o \in Admitted, o \notin torn
               PROVE  o \in SealedObjects
    BY DEF PutWaitsForCommit
  <2>1. o \in Held /\ Verdict(Candidate(o)) \in Accepted
    BY DEF Admitted
  <2>2. gens[o] <= ceiling
    <3>1. Candidate(o).generation <= ceiling
      <4> SUFFICES ASSUME Candidate(o).generation > ceiling PROVE FALSE
        BY <2>1 DEF StoreInv, CommittedInv, ManifestInv, Candidate
      <4> QED BY <2>1 DEF Verdict, Accepted, CheckSignature, Candidate
    <3> QED BY <3>1 DEF Candidate
  <2> QED BY <2>1, <2>2 DEF StoreInv, ManifestInv, CommittedInv, SealedObjects
<1> QED BY <1>1, StoreInvariant, PTL

\* Once a manifest names a key, only what is signed by a key still good passes
\* the gateway, and no signature stands beside a checkpoint it does not cover.
THEOREM SignedForGood == SignedSpec => []SignedStaysSigned
<1>1. StoreInv => OnlyVerifiedOnceSigned
  <2> SUFFICES ASSUME StoreInv, manifest.key # NoKey,
                      NEW c \in Offered, Verdict(c) \in Accepted
               PROVE  /\ c.intact /\ c.genuine /\ c.verifier
                      /\ c.signer \in Key \ revoked
    BY DEF OnlyVerifiedOnceSigned
  <2>1. require
    BY DEF StoreInv, KeyInv
  <2>2. c.intact /\ CheckSignature(c) \in Accepted
    BY DEF Verdict, Accepted
  <2>3. CheckSignature(c) = "verified"
    BY <2>1, <2>2 DEF CheckSignature, Accepted
  <2>4. c.signer # NoKey /\ c.verifier /\ c.signer \notin revoked /\ c.genuine
    BY <2>1, <2>3 DEF CheckSignature
  <2> QED BY <2>2, <2>4 DEF Offered
<1>2. StoreInv => SignaturesCover
  BY DEF StoreInv, SignatureInv
<1> QED BY <1>1, <1>2, StoreInvariant, PTL DEF SignedStaysSigned

-----------------------------------------------------------------------------
(* What the root believed in says.  Every root a process or a manifest     *)
(* holds was computed over the checkpoint of its generation; since equal   *)
(* roots are over equal sets, comparing roots compares sets.               *)

LEMMA EntriesAre ==
    ASSUME NEW S \in SUBSET Nat, IsFiniteSet(S)
    PROVE  /\ DOMAIN Entries(S) = S /\ \A o \in S : Entries(S)[o] = o
           /\ DOMAIN Entries(S) \in SUBSET Nat /\ IsFiniteSet(DOMAIN Entries(S))
           /\ Entries(S) = [o \in DOMAIN Entries(S) |-> Entries(S)[o]]
BY DEF Entries

LEMMA RootIsTheSet ==
    ASSUME NEW S \in SUBSET Nat, IsFiniteSet(S), NEW T \in SUBSET Nat, IsFiniteSet(T),
           Root(Entries(S)) = Root(Entries(T))
    PROVE  S = T
<1>1. Entries(S) = Entries(T)
  <2>1. PICK e, f : e = Entries(S) /\ f = Entries(T)
    OBVIOUS
  <2>2. /\ DOMAIN e \in SUBSET Nat /\ IsFiniteSet(DOMAIN e) /\ e = [o \in DOMAIN e |-> e[o]]
        /\ DOMAIN f \in SUBSET Nat /\ IsFiniteSet(DOMAIN f) /\ f = [o \in DOMAIN f |-> f[o]]
    BY <2>1, EntriesAre
  <2>3. Root(e) = Root(f)
    BY <2>1
  <2>4. e = f
    BY <2>2, <2>3, RootIsTheMap
  <2> QED BY <2>1, <2>4
<1> QED BY <1>1, EntriesAre

LEMMA ProofIsOfTheObject ==
    ASSUME NEW S \in SUBSET Nat, IsFiniteSet(S), NEW o \in S, NEW content
    PROVE  VerifyProof(o, content, Proof(Entries(S), o), Root(Entries(S))) <=> content = o
<1>1. PICK e : e = Entries(S)
  OBVIOUS
<1>2. DOMAIN e \in SUBSET Nat /\ IsFiniteSet(DOMAIN e) /\ o \in DOMAIN e /\ e[o] = o
  BY <1>1, EntriesAre
<1>3. VerifyProof(o, content, Proof(e, o), Root(e)) <=> content = o
  BY <1>2, ProofIsOfTheContent
<1> QED BY <1>1, <1>3

LEMMA ProofsAlwaysStand == ProofsStand
<1>1. ASSUME NEW S \in SUBSET (1 .. MaxTree) PROVE S \in SUBSET Nat /\ IsFiniteSet(S)
  <2>1. MaxTree \in Nat /\ 1 .. MaxTree \in SUBSET Nat
    BY SignedAssumption
  <2>2. IsFiniteSet(1 .. MaxTree)
    BY <2>1, FS_Interval
  <2> QED BY <2>1, <2>2, FS_Subset
<1>2. ASSUME NEW S \in SUBSET (1 .. MaxTree), NEW o \in S, NEW content \in 1 .. MaxTree
      PROVE  VerifyProof(o, content, Proof(Entries(S), o), Root(Entries(S))) <=> content = o
  BY <1>1, ProofIsOfTheObject
<1>3. ASSUME NEW S \in SUBSET (1 .. MaxTree), NEW T \in SUBSET (1 .. MaxTree),
             Root(Entries(S)) = Root(Entries(T))
      PROVE  S = T
  BY <1>1, <1>3, RootIsTheSet
<1> QED BY <1>2, <1>3 DEF ProofsStand

\* The set a root of generation g is computed over.
SetAt(g) == IF g = 0 THEN {} ELSE chk[g].set
SealInv ==
    /\ \A g \in DOMAIN chk : chk[g].set \in SUBSET Object
    /\ believed.root = Root(Entries(SetAt(believed.gen)))
    /\ manifest.root = Root(Entries(SetAt(manifest.gen)))
    /\ manifest.gen > 0 => manifest.gen \in DOMAIN chk

LEMMA SealInit == SignedInit => SealInv
<1>1. Root(Entries({})) = EmptyRoot
  BY DEF Root, Entries
<1> QED BY <1>1 DEF SignedInit, SealInv, SetAt

\* What is written at the next generation leaves the sets the two roots are over.
LEMMA SetsStay ==
    ASSUME StoreInv, SealInv, chk' = At(chk, Draft.gen, Draft)
    PROVE  /\ DOMAIN chk' = DOMAIN chk \cup {believed.gen + 1}
           /\ chk'[believed.gen + 1] = Draft
           /\ \A g \in DOMAIN chk' : chk'[g].set \in SUBSET Object
           /\ \A g \in {believed.gen, manifest.gen} :
                 (g > 0 => g \in DOMAIN chk /\ chk'[g] = chk[g]) /\ g # believed.gen + 1
<1>1. Draft.gen = believed.gen + 1 /\ Draft.set = Held
  BY DEF Draft
<1>2. /\ DOMAIN chk' = DOMAIN chk \cup {believed.gen + 1} /\ chk'[believed.gen + 1] = Draft
      /\ \A g \in DOMAIN chk : g # believed.gen + 1 => chk'[g] = chk[g]
  BY <1>1 DEF At
<1>3. Held \in SUBSET Object
  BY DEF StoreInv, CommittedInv
<1>4. \A g \in {believed.gen, manifest.gen} :
         (g > 0 => g \in DOMAIN chk) /\ g # believed.gen + 1
  BY DEF StoreInv, ManifestInv, SealInv
<1>5. \A g \in DOMAIN chk' : chk'[g].set \in SUBSET Object
  BY <1>1, <1>2, <1>3 DEF SealInv
<1> QED BY <1>2, <1>4, <1>5

LEMMA SealStep == StoreInv /\ SealInv /\ [SignedNext]_signedVars => SealInv'
<1> SUFFICES ASSUME StoreInv, SealInv, [SignedNext]_signedVars PROVE SealInv'
  OBVIOUS
<1>1. ASSUME UNCHANGED <<chk, manifest, believed>> PROVE SealInv'
  BY <1>1 DEF SealInv, SetAt
<1>2. ASSUME chk' = At(chk, Draft.gen, Draft), UNCHANGED <<manifest, believed>> PROVE SealInv'
  <2>1. /\ DOMAIN chk \subseteq DOMAIN chk' /\ \A g \in DOMAIN chk' : chk'[g].set \in SUBSET Object
        /\ \A g \in {believed.gen, manifest.gen} : g > 0 => g \in DOMAIN chk /\ chk'[g] = chk[g]
    BY <1>2, SetsStay
  <2>2. \A g \in {believed.gen, manifest.gen} : g = 0 \/ g > 0
    BY DEF StoreInv, ManifestInv
  <2>3. SetAt(believed.gen)' = SetAt(believed.gen) /\ SetAt(manifest.gen)' = SetAt(manifest.gen)
    BY <1>2, <2>1, <2>2 DEF SetAt
  <2> QED BY <1>2, <2>1, <2>3 DEF SealInv
<1>3. ASSUME NEW k \in Key \cup {NoKey}, Commit(k) \/ FailCommit(k) PROVE SealInv'
  <2>1. /\ chk' = At(chk, Draft.gen, Draft) /\ manifest' \in {manifest, believed'}
        /\ believed'.gen = believed.gen + 1 /\ believed'.root = Root(Entries(Held))
    BY <1>3 DEF Commit, FailCommit, Attest, BelievesOnFailure, Believing, Draft
  <2>2. /\ DOMAIN chk' = DOMAIN chk \cup {believed.gen + 1}
        /\ chk'[believed.gen + 1] = Draft /\ Draft.set = Held
        /\ \A g \in DOMAIN chk' : chk'[g].set \in SUBSET Object
        /\ \A g \in {believed.gen, manifest.gen} : g > 0 => g \in DOMAIN chk /\ chk'[g] = chk[g]
    BY <2>1, SetsStay DEF Draft
  <2>3. /\ believed.gen + 1 > 0 /\ believed.gen + 1 # 0
        /\ manifest.gen = 0 \/ manifest.gen > 0
    BY DEF StoreInv, ManifestInv
  <2>4. SetAt(believed.gen)' = Held
    BY <2>1, <2>2, <2>3 DEF SetAt
  <2>5. CASE manifest' = believed'
    BY <2>1, <2>2, <2>3, <2>4, <2>5 DEF SealInv, SetAt
  <2>6. CASE manifest' = manifest
    <3>1. SetAt(manifest.gen)' = SetAt(manifest.gen)
      BY <2>2, <2>3, <2>6 DEF SetAt
    <3> QED BY <2>1, <2>2, <2>4, <2>6, <3>1 DEF SealInv
  <2> QED BY <2>1, <2>5, <2>6
<1>4. ASSUME Reopen PROVE SealInv'
  <2>1. believed' = manifest /\ UNCHANGED <<chk, manifest>>
    BY <1>4 DEF Reopen
  <2> QED BY <2>1 DEF SealInv, SetAt
<1>5. ASSUME NEW o \in Object, Put(o) \/ TearPut(o) \/ Decay(o) \/ Repair(o) \/ Quarantine(o)
      PROVE  SealInv'
  BY <1>1, <1>5 DEF Put, TearPut, Decay, Repair, Quarantine
<1>6. ASSUME NEW k \in Key, Revoke(k) PROVE SealInv'
  BY <1>1, <1>6 DEF Revoke
<1>7. ASSUME RefuseCommit PROVE SealInv'
  BY <1>2, <1>7 DEF RefuseCommit
<1>8. CASE UNCHANGED signedVars
  BY <1>1, <1>8 DEF signedVars
<1> QED BY <1>3, <1>4, <1>5, <1>6, <1>7, <1>8 DEF SignedNext

\* The roots held are those of the checkpoints of their generations.
THEOREM SealInvariant == SignedSpec => [](StoreInv /\ SealInv)
<1>1. SignedInit => StoreInv /\ SealInv
  BY StoreInit, SealInit
<1>2. StoreInv /\ SealInv /\ [SignedNext]_signedVars => (StoreInv /\ SealInv)'
  BY StoreStep, SealStep
<1> QED BY <1>1, <1>2, PTL DEF SignedSpec

\* At every step the root matches exactly when what is held is what was sealed,
\* a clean audit lets every object held prove itself, and proofs verify for what
\* they were made for and nothing else (ContextStore::verify, proves).
THEOREM SealStandsExactly == SignedSpec => []SealIsExact
<1>1. ASSUME StoreInv, SealInv PROVE AuditMeansProven
  <2>1. /\ Held \in SUBSET Nat /\ IsFiniteSet(Held)
        /\ SealedObjects \in SUBSET Nat /\ IsFiniteSet(SealedObjects)
        /\ SealedObjects = SetAt(believed.gen)
    <3>1. \A S \in SUBSET Object : S \in SUBSET Nat /\ IsFiniteSet(S)
      BY SignedAssumption, FS_Subset
    <3>2. Held \in SUBSET Object
      BY <1>1 DEF StoreInv, CommittedInv
    <3>3. SealedObjects = SetAt(believed.gen)
      BY DEF SealedObjects, SetAt
    <3>4. believed.gen = 0 \/ believed.gen \in DOMAIN chk
      BY <1>1 DEF StoreInv, ManifestInv
    <3>5. SetAt(believed.gen) \in SUBSET Object
      BY <1>1, <3>4 DEF SealInv, SetAt
    <3> QED BY <3>1, <3>2, <3>3, <3>5
  <2>2. believed.root = Root(Entries(SealedObjects))
    BY <1>1, <2>1 DEF SealInv
  <2>3. RootMatches <=> Held = SealedObjects
    <3>1. RootMatches => Held = SealedObjects
      BY <2>1, <2>2, RootIsTheSet DEF RootMatches
    <3> QED BY <2>2, <3>1 DEF RootMatches
  <2>4. ASSUME AuditOk, NEW o \in Held PROVE bytes[o] = "good" /\ Proves(o)
    <3>1. bytes[o] = "good" /\ believed.root = Root(Entries(Held))
      BY <2>4 DEF AuditOk, RootMatches
    <3>2. VerifyProof(o, o, Proof(Entries(Held), o), Root(Entries(Held)))
      BY <2>1, ProofIsOfTheObject
    <3> QED BY <3>1, <3>2 DEF Proves
  <2> QED BY <2>3, <2>4 DEF AuditMeansProven
<1>2. StoreInv /\ SealInv => SealIsExact
  BY <1>1, ProofsAlwaysStand DEF SealIsExact
<1> QED BY <1>2, SealInvariant, PTL
=============================================================================
