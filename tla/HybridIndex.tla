----------------------------- MODULE HybridIndex ----------------------------
(***************************************************************************)
(* The retrieval index (index.rs).  A lexical index keeps postings and     *)
(* lengths, a vector index the vectors and the buckets they are filed in;  *)
(* a search asks one of each and fuses their rankings.  Vectors are short  *)
(* and of one length, so that their product orders them as their cosine    *)
(* does.  A lexical score is a whole number that goes up and down with     *)
(* what BM25 weighs: a rare word, many occurrences, a long text.           *)
(***************************************************************************)
EXTENDS Integers, Sequences, FiniteSets, SequencesExt, FiniteSetsExt

CONSTANTS
    Table,           \* the tables of the hashing
    Plane,           \* per table, its planes
    MinForAnn,       \* vectors below which every one is scored
    MinCandidates,   \* candidates below which every vector is scored
    LexicalWeight    \* of 100

ASSUME HybridIndexAssumption ==
    /\ {MinForAnn, MinCandidates} \subseteq Nat
    /\ LexicalWeight \in 0 .. 100

SumOver(S, F(_)) == MapThenSumSet(F, S)

-----------------------------------------------------------------------------
\* LexicalIndex: postings[w] maps an id to w's occurrences.
NoLexical == [postings |-> <<>>, lengths |-> <<>>, total |-> 0]

\* f without x, g over f.
Less(f, x) == [y \in DOMAIN f \ {x} |-> f[y]]
Over(g, f) == [x \in DOMAIN f \cup DOMAIN g |-> IF x \in DOMAIN g THEN g[x] ELSE f[x]]

LexicalRemove(ix, id) ==
    IF id \notin DOMAIN ix.lengths THEN ix
    ELSE [postings |-> LET kept == [w \in DOMAIN ix.postings |-> Less(ix.postings[w], id)]
                       IN  [w \in {v \in DOMAIN kept : DOMAIN kept[v] # {}} |-> kept[w]],
          lengths |-> Less(ix.lengths, id),
          total |-> ix.total - ix.lengths[id]]

\* words is the text as a sequence of words.
Counted(words) == [w \in ToSet(words) |-> Cardinality({i \in DOMAIN words : words[i] = w})]
LexicalPut(ix, id, words) ==
    LET of(w) == IF w \in DOMAIN ix.postings THEN ix.postings[w] ELSE <<>>
    IN  [postings |-> Over([w \in ToSet(words) |->
                              Over([x \in {id} |-> Counted(words)[w]], of(w))], ix.postings),
         lengths |-> Over([x \in {id} |-> Len(words)], ix.lengths),
         total |-> ix.total + Len(words)]
LexicalAddOver(ix, id, words) == LexicalPut(ix, id, words)
LexicalAdd(ix, id, words) == LexicalPut(LexicalRemove(ix, id), id, words)

\* Results are ordered by score, a fraction, then by id.
Above(x, y) == x[1] * y[2] > y[1] * x[2]
Rank(score, k) ==
    LET before(i, j) ==
            \/ Above(score[i], score[j])
            \/ ~Above(score[j], score[i]) /\ i < j
        all == SetToSortSeq(DOMAIN score, before)
    IN  SubSeq(all, 1, IF Len(all) < k THEN Len(all) ELSE k)

LexicalScores(ix, query) ==
    LET asked == ToSet(query) \cap DOMAIN ix.postings
        n == Cardinality(DOMAIN ix.lengths)
        Weigh(id, w) == (n - Cardinality(DOMAIN ix.postings[w]) + 1)
                        * ((12 * ix.postings[w][id])
                           \div (ix.postings[w][id] + ix.lengths[id]))
    IN  [id \in UNION {DOMAIN ix.postings[w] : w \in asked} |->
            <<SumOver({w \in asked : id \in DOMAIN ix.postings[w]}, LAMBDA w : Weigh(id, w)), 1>>]

-----------------------------------------------------------------------------
\* VectorIndex: the vectors, and per table the pairs of a signature and an id
\* filed under it.
NoVector == [vectors |-> <<>>, filed |-> [t \in Table |-> {}]]

Dot(u, v) == SumOver(DOMAIN u, LAMBDA i : u[i] * v[i])
Signature(t, v) == [b \in DOMAIN Plane[t] |-> Dot(Plane[t][b], v) >= 0]

\* What Lsh::insert files for an id and Lsh::remove takes out.
Filing(id, v) == [t \in Table |-> {<<Signature(t, v), id>>}]

\* What was filed for an older vector of the id stays filed.
VectorAdd(ix, id, v) ==
    [vectors |-> Over([x \in {id} |-> v], ix.vectors),
     filed |-> [t \in Table |-> ix.filed[t] \cup Filing(id, v)[t]]]

VectorRemove(ix, id) ==
    IF id \notin DOMAIN ix.vectors THEN ix
    ELSE [vectors |-> Less(ix.vectors, id),
          filed |-> [t \in Table |-> ix.filed[t] \ Filing(id, ix.vectors[id])[t]]]

\* The query's bucket in every table, and those one bit away.
Near(s, r) == Cardinality({b \in DOMAIN s : s[b] # r[b]}) <= 1
Candidates(ix, v) ==
    {e[2] : e \in UNION {{f \in ix.filed[t] : Near(f[1], Signature(t, v))} : t \in Table}}

Scored(ix, v, ids) ==
    [id \in {i \in ids \cap DOMAIN ix.vectors : Dot(v, ix.vectors[i]) > 0} |->
        <<Dot(v, ix.vectors[id]), 1>>]

\* The ids a search scores.
Probed(ix, v, k, exact) ==
    LET near == Candidates(ix, v)
        enough == IF k > MinCandidates THEN k ELSE MinCandidates
        all == \/ exact
               \/ Cardinality(DOMAIN ix.vectors) < MinForAnn
               \/ Cardinality(near) < enough
    IN  IF all THEN DOMAIN ix.vectors ELSE near

VectorScores(ix, v, k, exact) == Scored(ix, v, Probed(ix, v, k, exact))

-----------------------------------------------------------------------------
\* HybridIndex: each channel gives its best 3k; a channel's contribution is its
\* share of the best score there or, by Fusion::Rrf, falls with the place (what is
\* then rescaled keeps its order).
\* k0 is 60 by default, and short here as the lists are.
Damping == 3
Place(list, id) == CHOOSE i \in DOMAIN list : list[i] = id

Share(score, list, id, rrf) ==
    IF id \notin ToSet(list) THEN <<0, 1>>
    ELSE IF rrf THEN <<1, Damping + Place(list, id)>>
    ELSE <<score[id][1], score[list[1]][1]>>

WorthOfLast(a, b) ==
    IF b[1] > 0 THEN <<(100 - LexicalWeight) * b[1], b[2]>>
    ELSE <<LexicalWeight * a[1], a[2]>>
Worth(a, b) ==
    <<LexicalWeight * a[1] * b[2] + (100 - LexicalWeight) * b[1] * a[2], a[2] * b[2]>>

Fused(lex, vec, k, rrf) ==
    LET l == Rank(lex, 3 * k)
        v == Rank(vec, 3 * k)
    IN  [id \in ToSet(l) \cup ToSet(v) |->
            Worth(Share(lex, l, id, rrf), Share(vec, v, id, rrf))]

Search(lex, vec, k, rrf) == Rank(Fused(lex, vec, k, rrf), k)
=============================================================================
