----------------------------- MODULE Retrieval ------------------------------
(***************************************************************************)
(* The store of text and the index a query is answered from, together:     *)
(* what is ingested is filed under its words, nodes are filed again when   *)
(* they change and taken out when they are superseded, and a restart       *)
(* builds the index from the state (indexer.rs, runtime.rs).  What makes a *)
(* node change is StateIndexer's.                                          *)
(***************************************************************************)
EXTENDS RawStore, HybridIndex

CONSTANTS
    MaxNodes,        \* bound on nodes
    NodeText,        \* what a node's key and value read, as words
    VectorOf,        \* the vector of such a text
    Query,           \* words asked for
    MaxCalls,        \* bound on calls that ingest or change nodes
    MaxRestarts      \* bound on restarts

ASSUME RetrievalAssumption ==
    /\ NodeText \cup Query \subseteq Seq(Word)
    /\ DOMAIN VectorOf = NodeText \cup Query
    /\ {MaxNodes, MaxCalls, MaxRestarts} \subseteq Nat

\* Nodes go by their indices.
Node == 1 .. MaxNodes

VARIABLES
    text,            \* graph: what each node reads now
    superseded,      \* nodes of status Superseded
    spanLexical, nodeLexical, nodeVector,
    calls, restarts

graph == <<text, superseded>>
index == <<spanLexical, nodeLexical, nodeVector>>
retrievalVars == <<raw, graph, index, calls, restarts>>

Called == calls < MaxCalls /\ calls' = calls + 1

-----------------------------------------------------------------------------
RetrievalInit ==
    /\ RawInit
    /\ text = <<>> /\ superseded = {}
    /\ spanLexical = NoLexical /\ nodeLexical = NoLexical /\ nodeVector = NoVector
    /\ calls = 0 /\ restarts = 0

\* Every span of a document is filed, in order; blank ones are passed over.
FileSpan(ix, t, s, i) ==
    IF Blank(t, s.from, s.to) THEN ix ELSE LexicalAdd(ix, i, WordsOf(t, s))
FileSpans(d, t) ==
    LET new == NewSpans(d, t)
        filed[k \in 0 .. Len(new)] ==
            IF k = 0 THEN spanLexical
            ELSE FileSpan(filed[k - 1], t, new[k], Len(spans) + k)
    IN  filed[Len(new)]
Ingest(d, t) ==
    /\ Called
    /\ AddDocument(d, t)
    /\ spanLexical' = FileSpans(d, t)
    /\ UNCHANGED <<graph, nodeLexical, nodeVector, restarts>>

\* reindex(): a node admitted, corroborated or grounded again is filed anew.
Reindex(n, t) ==
    /\ Called
    /\ n \notin superseded
    /\ n \in DOMAIN text => text[n] # t
    /\ text' = Over([x \in {n} |-> t], text)
    /\ nodeLexical' = LexicalAdd(nodeLexical, n, t)
    /\ nodeVector' = VectorAdd(nodeVector, n, VectorOf[t])
    /\ UNCHANGED <<raw, superseded, spanLexical, restarts>>

\* remove_node(): a claim that replaced it takes the old one out.
Supersede(n) ==
    /\ Called
    /\ n \in DOMAIN text \ superseded
    /\ superseded' = superseded \cup {n}
    /\ nodeLexical' = LexicalRemove(nodeLexical, n)
    /\ nodeVector' = VectorRemove(nodeVector, n)
    /\ UNCHANGED <<raw, text, spanLexical, restarts>>

\* load(), open_context(): spans and nodes are filed as they are restored,
\* superseded nodes and blank spans with the rest.
FileAllSpans(order) ==
    LET filed[i \in 0 .. Len(order)] ==
            IF i = 0 THEN NoLexical
            ELSE LexicalAdd(filed[i - 1], i, WordsOf(Text(order[i].doc), order[i]))
    IN  filed[Len(order)]
FileAllNodes ==
    LET filed[n \in 0 .. MaxNodes] ==
            IF n = 0 THEN [lexical |-> NoLexical, vector |-> NoVector]
            ELSE IF n \in DOMAIN text
                 THEN [lexical |-> LexicalAdd(filed[n - 1].lexical, n, text[n]),
                       vector |-> VectorAdd(filed[n - 1].vector, n, VectorOf[text[n]])]
            ELSE filed[n - 1]
    IN  filed[MaxNodes]
Restart(order) ==
    /\ restarts < MaxRestarts /\ restarts' = restarts + 1
    /\ RestoreRaw(order)
    /\ spanLexical' = FileAllSpans(order)
    /\ nodeLexical' = FileAllNodes.lexical /\ nodeVector' = FileAllNodes.vector
    /\ UNCHANGED <<graph, calls>>

RetrievalNext ==
    \/ \E d \in Doc : \E t \in TextOf[d] : Ingest(d, t)
    \/ \E n \in Node, t \in NodeText : Reindex(n, t)
    \/ \E n \in Node : Supersede(n)
    \/ \E order \in Orders : Restart(order)

RetrievalSpec == RetrievalInit /\ [][RetrievalNext]_retrievalVars

-----------------------------------------------------------------------------
SumTo(f, n) ==
    LET sum[k \in 0 .. n] ==
            IF k = 0 THEN 0 ELSE IF k \in DOMAIN f THEN sum[k - 1] + f[k] ELSE sum[k - 1]
    IN  sum[n]

\* What an index says of its texts, filed under numbers up to n.
Describes(ix, texts, n) ==
    /\ DOMAIN ix.lengths = DOMAIN texts
    /\ DOMAIN ix.postings = UNION {ToSet(texts[i]) : i \in DOMAIN texts}
    /\ \A w \in DOMAIN ix.postings :
         /\ DOMAIN ix.postings[w] = {i \in DOMAIN texts : w \in ToSet(texts[i])}
         /\ \A i \in DOMAIN ix.postings[w] : ix.postings[w][i] = Counted(texts[i])[w]
    /\ \A i \in DOMAIN texts : ix.lengths[i] = Len(texts[i])
    /\ ix.total = SumTo(ix.lengths, n)

\* The index is derived from the state (runtime.rs, load): its postings, its
\* lengths and their total are those of the texts as they are now, however
\* often a node was filed, taken out and filed again, and whatever indices a
\* restart gave the spans.
NodesDescribed ==
    /\ Describes(nodeLexical, [n \in DOMAIN nodeVector.vectors |-> text[n]], MaxNodes)
    /\ DOMAIN text \ superseded \subseteq DOMAIN nodeVector.vectors
    /\ \A n \in DOMAIN nodeVector.vectors : nodeVector.vectors[n] = VectorOf[text[n]]
SpanWords(i) == WordsOf(Text(spans[i].doc), spans[i])
SpansDescribed ==
    /\ Describes(spanLexical, [i \in DOMAIN spanLexical.lengths |-> SpanWords(i)], Len(spans))
    /\ {i \in DOMAIN spans : SpanWords(i) # <<>>} \subseteq DOMAIN spanLexical.lengths
IndexDescribesTheState == NodesDescribed /\ SpansDescribed

\* Pruning hides no near neighbour (index.rs, Lsh): a node whose vector differs
\* from the query's in at most one bit of some table is among the k best unless
\* k others are as close, although ids stay filed under vectors they had before.
NearIsFound ==
    \A q \in Query, k \in {1, 2}, n \in DOMAIN nodeVector.vectors :
        LET score == VectorScores(nodeVector, VectorOf[q], k, FALSE)
            v == nodeVector.vectors[n]
        IN  /\ Dot(VectorOf[q], v) > 0
            /\ \E t \in Table : Near(Signature(t, v), Signature(t, VectorOf[q]))
            => \/ n \in ToSet(Rank(score, k))
               \/ Cardinality({m \in DOMAIN score \ {n} : score[m][1] >= Dot(VectorOf[q], v)}) >= k

\* Fusing keeps what the channels agree on (index.rs, search): of two nodes that
\* both channels rank in one order, by score or by absence, the search ranks
\* them so.
Ahead(list, a, b) ==
    a \in ToSet(list) /\ (b \in ToSet(list) => Place(list, a) < Place(list, b))
AgreementIsKept ==
    \A q \in Query, exact, rrf \in BOOLEAN :
        LET k == 2
            lex == LexicalScores(nodeLexical, q)
            vec == VectorScores(nodeVector, VectorOf[q], 3 * k, exact)
            found == Search(lex, vec, k, rrf)
        IN  \A a, b \in Node :
              Ahead(Rank(lex, 3 * k), a, b) /\ Ahead(Rank(vec, 3 * k), a, b)
                  => (b \in ToSet(found) => Ahead(found, a, b))

\* What is near or agreed on is not lost on the way to the answer.
BestIsKept == NearIsFound /\ AgreementIsKept

\* A restart files again what was superseded (runtime.rs:1381, 1498).
SupersededIsOut == superseded \cap DOMAIN nodeVector.vectors = {}
=============================================================================
