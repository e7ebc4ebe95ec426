------------------------------ MODULE RawStore ------------------------------
(***************************************************************************)
(* L0, the raw store (spans.rs), with the text ranges it is cut by         *)
(* (text.rs).  A text is a sequence of marks: a word, which is all that is *)
(* not one of the others, a stop, a space, a newline.  Ranges are closed,  *)
(* and a document's id is the document.                                    *)
(***************************************************************************)
EXTENDS Integers, Sequences, FiniteSets, SequencesExt, FiniteSetsExt

CONSTANTS
    Word,            \* the words of texts
    Doc,             \* document ids
    TextOf,          \* the texts a caller may ingest under an id
    MaxSpanChars     \* max_span_chars, in marks

White == {"space", "newline"}
Mark == Word \cup White \cup {"stop"}

ASSUME RawStoreAssumption ==
    /\ Word \cap (White \cup {"stop"}) = {}
    /\ \A d \in Doc : TextOf[d] \subseteq Seq(Mark)
    /\ MaxSpanChars \in Nat \ {0}

VARIABLES
    documents,       \* in the order they came: id and text
    spans,           \* all spans; their indices are what the index names
    docSpans         \* per document, its spans in text order

raw == <<documents, spans, docSpans>>

-----------------------------------------------------------------------------
\* The members of a finite set of numbers, from the least.
InOrder(S) ==
    [k \in 1 .. Cardinality(S) |->
        CHOOSE x \in S : Cardinality({y \in S : y <= x}) = k]

\* The maximal runs of the positions S, in order.
Starts(S) == {i \in S : i - 1 \notin S}
EndOf(S, i) == Max({j \in S : i <= j /\ i .. j \subseteq S})
Runs(S) ==
    [k \in 1 .. Cardinality(Starts(S)) |->
        [from |-> InOrder(Starts(S))[k], to |-> EndOf(S, InOrder(Starts(S))[k])]]

\* Every position from i to j is white space.
Blank(t, i, j) == \A p \in i .. j : t[p] \in White

\* A separator goes from the first to the last newline of white space that has
\* two or more.
Cut(t) ==
    {p \in DOMAIN t : \E i \in 1 .. p, j \in p .. Len(t) :
        i < j /\ t[i] = "newline" /\ t[j] = "newline" /\ Blank(t, i, j)}
ParagraphRanges(t) == Runs(DOMAIN t \ Cut(t))

\* White space after a stop, and from a newline on, is between sentences.
Gap(t) ==
    {p \in DOMAIN t : \E b \in 1 .. p :
        /\ t[b] = "newline" \/ (b > 1 /\ t[b - 1] = "stop")
        /\ Blank(t, b, p)}
SentenceRanges(t) == Runs(DOMAIN t \ Gap(t))

\* Where the next span starts once one is full: at the sentence that did not fit.
NextStartKept(from, r) == from
NextStart(from, r) == r.from

\* One sentence more: it fits, or the span before it is closed.
Pack(acc, r) ==
    LET n == r.to - r.from + 1
        full == acc.len + n > MaxSpanChars /\ r.from > acc.from
    IN  IF full
        THEN [out |-> Append(acc.out, [from |-> acc.from, to |-> r.from - 1]),
              from |-> NextStart(acc.from, r), len |-> n + 1]
        ELSE [acc EXCEPT !.len = @ + n + 1]

\* The sentences of a long block, packed into spans up to the limit; what the
\* last sentence leaves open ends with the block.
Wrap(block) ==
    LET sentences == SentenceRanges(block)
        packed[k \in 0 .. Len(sentences)] ==
            IF k = 0 THEN [out |-> <<>>, from |-> 1, len |-> 0]
            ELSE Pack(packed[k - 1], sentences[k])
        all == packed[Len(sentences)]
    IN  Append(all.out, [from |-> all.from, to |-> Len(block)])

\* A range of a block that starts at position at.
Shift(at, r) == [from |-> at + r.from - 1, to |-> at + r.to - 1]

ChunkOf(t, r) ==
    LET block == SubSeq(t, r.from, r.to)
    IN  IF Len(block) > MaxSpanChars
        THEN [k \in DOMAIN Wrap(block) |-> Shift(r.from, Wrap(block)[k])]
        ELSE IF Blank(t, r.from, r.to) THEN <<>> ELSE <<r>>

Chunk(t) ==
    LET paragraphs == ParagraphRanges(t)
        out[k \in 0 .. Len(paragraphs)] ==
            IF k = 0 THEN <<>> ELSE out[k - 1] \o ChunkOf(t, paragraphs[k])
    IN  out[Len(paragraphs)]

-----------------------------------------------------------------------------
Stored == {documents[i].id : i \in DOMAIN documents}
Text(d) == documents[CHOOSE i \in DOMAIN documents : documents[i].id = d].text

\* A span is named by its document and its ends, wherever it stands.
IdOf(s) == <<s.doc, s.from, s.to>>
IdxOf(id) == CHOOSE i \in DOMAIN spans : IdOf(spans[i]) = id

\* text_of() trims; what the index takes of a text is its words.
WordsOf(t, s) ==
    LET words[i \in 0 .. Len(t)] ==
            IF i = 0 THEN <<>>
            ELSE IF i \in s.from .. s.to /\ t[i] \in Word THEN Append(words[i - 1], t[i])
            ELSE words[i - 1]
    IN  words[Len(t)]

\* neighbours(): by the place of the span in its document.
Neighbours(i, radius) ==
    LET all == docSpans[spans[i].doc]
        at == spans[i].seq
        lo == IF at > radius THEN at - radius ELSE 1
        hi == IF at + radius < Len(all) THEN at + radius ELSE Len(all)
    IN  [k \in 1 .. hi - lo + 1 |-> IdOf(spans[all[lo + k - 1]])]

RawInit == documents = <<>> /\ spans = <<>> /\ docSpans = <<>>

NewSpans(d, t) ==
    [k \in DOMAIN Chunk(t) |->
        [doc |-> d, from |-> Chunk(t)[k].from, to |-> Chunk(t)[k].to, seq |-> k]]

\* add_document() under an id not yet taken; under one that is, the same text
\* adds nothing and another text is refused.
AddDocument(d, t) ==
    /\ d \notin Stored
    /\ documents' = Append(documents, [id |-> d, text |-> t])
    /\ spans' = spans \o NewSpans(d, t)
    /\ docSpans' = [e \in DOMAIN docSpans \cup {d} |->
                       IF e # d THEN docSpans[e]
                       ELSE [k \in DOMAIN Chunk(t) |-> Len(spans) + k]]

\* The orders in which a restart hands the spans over: the file keeps theirs,
\* the container sorts by place in the document and by nothing else.
Orders ==
    {spans} \cup
    {s \in SetToSeqs({spans[i] : i \in DOMAIN spans}) :
        \A i, j \in DOMAIN s : i < j => s[i].seq <= s[j].seq}

\* restore(): the spans of each document are sorted again.
RestoredStale(order) == docSpans
Restored(order) ==
    [d \in DOMAIN docSpans |->
        LET own == {i \in DOMAIN order : order[i].doc = d}
        IN  [k \in 1 .. Cardinality(own) |->
                CHOOSE i \in own :
                    Cardinality({j \in own : order[j].seq <= order[i].seq}) = k]]

RestoreRaw(order) ==
    /\ spans' = order /\ docSpans' = Restored(order)
    /\ UNCHANGED documents

-----------------------------------------------------------------------------
\* Spans are ground truth (spans.rs, chunk): within a document they come in
\* text order and do not meet; every word is in one of them; none reaches over
\* a paragraph break; and where a paragraph is wrapped no sentence is torn.
SpansTileTheText ==
    \A d \in Stored :
        LET t == Text(d)
            s == [k \in DOMAIN docSpans[d] |-> spans[docSpans[d][k]]]
        IN  /\ \A k \in DOMAIN s :
                 /\ s[k].from <= s[k].to
                 /\ k > 1 => s[k - 1].to < s[k].from
                 /\ (s[k].from .. s[k].to) \cap Cut(t) = {}
                 /\ s[k].from - 1 \in {0} \cup Cut(t) \cup Gap(t)
            /\ \A p \in DOMAIN t : t[p] \in Word =>
                 \E k \in DOMAIN s : p \in s[k].from .. s[k].to

\* L0 never changes (spans.rs): a span once issued is found under its id with
\* the same text beside the same spans, whatever is ingested and in whatever
\* order a restart hands the spans over.
Issued == {IdOf(spans[i]) : i \in DOMAIN spans}
SpansStayPut ==
    [][\A id \in Issued :
         /\ id \in Issued'
         /\ Text(id[1])' = Text(id[1])
         /\ Neighbours(IdxOf(id), 1)' = Neighbours(IdxOf(id), 1)]_raw
=============================================================================
