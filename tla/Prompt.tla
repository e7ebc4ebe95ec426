------------------------------- MODULE Prompt -------------------------------
(***************************************************************************)
(* What a turn sends and what it leaves behind: the layout of the prompt,  *)
(* the gate that sends the whole history instead, the spans counted as     *)
(* read, the skills loaded, and what the next plan is held to (planner.rs  *)
(* render, runtime.rs, fit.rs, skills.rs).  What a plan admits is          *)
(* Planner's, and the rounds of a turn are Turn's: here a context is any   *)
(* the planner could return, and a turn its last two.                      *)
(*                                                                         *)
(* A prompt is a sequence of lines.  Ids are numbers, whose order is that  *)
(* of the content addresses; so are kinds, in the order of their groups.   *)
(***************************************************************************)
EXTENDS Integers, Sequences, FiniteSets, SequencesExt, FiniteSetsExt

CONSTANTS
    Node,            \* ids of nodes
    KindOf,          \* the kind of each
    SkillKind,       \* Kind::Skill
    SpansOf,         \* source_spans
    DepsOf,          \* dependencies
    Doc,             \* documents
    TokensOf,        \* their tokens
    Budget,          \* the budget of a turn
    Overhead,        \* tokens the gate adds for what wraps a history
    MaxTurns,        \* bound on turns
    MaxIngests       \* bound on ingests

ASSUME PromptAssumption ==
    /\ Node \subseteq Nat /\ IsFiniteSet(Node) /\ IsFiniteSet(Doc)
    /\ KindOf \in [Node -> 1 .. 8] /\ SkillKind \in 1 .. 8
    /\ TokensOf \in [Doc -> Nat]
    /\ DepsOf \in [Node -> SUBSET Node]
    /\ {Budget, Overhead, MaxTurns, MaxIngests} \subseteq Nat

VARIABLES
    prefixStable,    \* prefix_stable
    fitGate,         \* fit_gate
    skills,          \* skills in the graph
    documents, historyTokens,
    lastPrompt,      \* last_prompt; none before the first turn
    lastAssembly,    \* last_assembly
    assembledSpans, assembledPairs,
    loaded,          \* the loader: adapters active
    turns, bypassed, compared, failures,  \* telemetry; compared: prefix_reuse_turns
    ingests,
    first,           \* the entries the prompt was laid out from, or none
    shown            \* the spans each prompt quoted

store == <<skills, documents, historyTokens, ingests>>
ledger == <<assembledSpans, assembledPairs, loaded, failures>>
flags == <<prefixStable, fitGate>>
telemetry == <<turns, bypassed, compared>>
promptVars == <<flags, store, lastPrompt, lastAssembly, ledger, telemetry, first, shown>>

-----------------------------------------------------------------------------
\* A context: an entry per admitted node, at a level, with its utility.  What
\* is rendered at another level is another line.
Known == {n \in Node : KindOf[n] # SkillKind} \cup skills
Context(S, quoted, down) ==
    {[id |-> n, level |-> IF n \in quoted THEN "L0" ELSE "L1",
      utility |-> IF down THEN -n ELSE n] : n \in S}
Contexts ==
    UNION {{Context(S, quoted, down) : quoted \in SUBSET S, down \in BOOLEAN} :
               S \in SUBSET Known}

IdsOf(c) == {e.id : e \in c}
Line(e) == <<"entry", e.id, e.level>>
Lines(p) == {p[i] : i \in DOMAIN p}

\* render_groups: the kinds in their order, each under its title.  An item is a line
\* and where it stands: its kind, the title first, then what the layout sorts by.
Items(c, byUtility) ==
    {[at |-> <<KindOf[e.id], 0, 0, 0>>, line |-> <<"title", KindOf[e.id]>>] : e \in c} \cup
    {[at |-> <<KindOf[e.id], 1, IF byUtility THEN -e.utility ELSE 0, e.id>>,
      line |-> Line(e)] : e \in c}
Before(x, y) == \E k \in 1 .. 4 : x.at[k] < y.at[k] /\ \A j \in 1 .. k - 1 : x.at[j] = y.at[j]
Above(items, x) == {y \in items : Before(y, x)}
Nth(items, i) == CHOOSE x \in items : Cardinality(Above(items, x)) = i - 1
Groups(c, byUtility) ==
    LET items == Items(c, byUtility)
    IN  [i \in 1 .. Cardinality(items) |-> Nth(items, i).line]

\* k and the number of entries.
Stats(c) == <<"stats", Cardinality({e \in c : e.level = "L0"}), Cardinality(c)>>
RenderPrefixByUtility(c) ==
    << <<"header">> >> \o Groups(c, TRUE) \o << Stats(c) >>
RenderPrefixStable(c) ==
    << <<"header">> >> \o Groups(c, FALSE) \o << Stats(c) >>
\* The header of render() begins with the counts of the turn.
Render(c) == << Stats(c) >> \o Groups(c, TRUE)

PromptFor(c) ==
    (IF prefixStable THEN RenderPrefixStable(c) ELSE Render(c)) \o << <<"question">> >>

\* A re-plan appends the lines the prompt before it has not.
Appended(p, c) ==
    LET delta == {Line(e) : e \in c} \ Lines(p)
    IN  IF delta = {} THEN p ELSE p \o << <<"escalated">> >> \o SetToSeq(delta)

\* The lines two prompts share from the start.
Shared(p, q) ==
    Max({n \in 0 .. Len(p) : n <= Len(q) /\ \A i \in 1 .. n : p[i] = q[i]})

-----------------------------------------------------------------------------
PromptInit ==
    /\ prefixStable \in BOOLEAN /\ fitGate \in BOOLEAN
    /\ skills = {} /\ documents = <<>> /\ historyTokens = 0
    /\ lastPrompt = <<>> /\ lastAssembly = {}
    /\ assembledSpans = {} /\ assembledPairs = {} /\ loaded = {}
    /\ turns = 0 /\ bypassed = 0 /\ compared = 0 /\ failures = 0
    /\ ingests = 0 /\ first = <<>> /\ shown = {}

\* ingest(): what is there already adds to the count again.  Only the gate looks.
Ingest(d) ==
    /\ fitGate /\ turns < MaxTurns
    /\ ingests < MaxIngests /\ ingests' = ingests + 1
    /\ documents' = IF d \in Lines(documents) THEN documents ELSE Append(documents, d)
    /\ historyTokens' = historyTokens + TokensOf[d]
    /\ UNCHANGED <<flags, skills, lastPrompt, lastAssembly, ledger, telemetry, first, shown>>

AddSkill(n) ==
    /\ KindOf[n] = SkillKind /\ turns < MaxTurns
    /\ skills' = skills \cup {n}
    /\ UNCHANGED <<flags, documents, historyTokens, ingests, lastPrompt, lastAssembly,
                   ledger, telemetry, first, shown>>

\* assess(): a store with a skill plans, whatever fits.
FitsBare == historyTokens <= Budget /\ skills = {}
Fits == historyTokens + Overhead <= Budget /\ skills = {}

\* note_prompt(): a prompt that follows another is compared with it.
NotePrompt(p) ==
    /\ lastPrompt' = p
    /\ compared' = IF lastPrompt = <<>> THEN compared ELSE compared + 1

\* mark_assembled(): a level above L0 shows a value and not its spans.
QuotedAny(c) == c
Quoted(c) == {e \in c : e.level = "L0"}
SpansIn(E) == UNION {SpansOf[e.id] : e \in E}
PairsOf(S) == {{a, b} : a, b \in S}

\* SkillRef::from_node: what of a context names an adapter.
SkillRefs(c) == {n \in IdsOf(c) : KindOf[n] = SkillKind}

\* The loader is a trait: RecordingLoader takes every skill, once, another may refuse.
Load(refs) == loaded' = loaded \cup refs

\* activate_skills(): a refusal is counted.
Activate(c) ==
    \E refused \in SUBSET SkillRefs(c) :
        /\ Load(SkillRefs(c) \ refused)
        /\ failures' = failures + Cardinality(refused)

\* What the lines of a prompt quote.
QuotedBy(p) == UNION {SpansOf[l[2]] : l \in {x \in Lines(p) : x[1] = "entry" /\ x[3] = "L0"}}

\* A turn laid out from c whose last plan is d.
Ask(c, d, p) ==
    /\ turns < MaxTurns /\ turns' = turns + 1
    /\ ~(fitGate /\ Fits)
    /\ NotePrompt(p)
    /\ lastAssembly' = IdsOf(d)
    /\ assembledSpans' = assembledSpans \cup SpansIn(Quoted(d))
    /\ assembledPairs' = assembledPairs \cup PairsOf(SpansIn(Quoted(d)))
    /\ Activate(d)
    /\ first' = << {Line(e) : e \in c} >> /\ shown' = shown \cup {QuotedBy(p)}
    /\ UNCHANGED <<flags, store, bypassed>>

AskPlanned(c) == Ask(c, c, PromptFor(c))

\* The model asks for more of a node: it is forced to its quote, another may go.
AskEscalated(c, e, gone) ==
    LET d == {x \in c : x.id \notin gone \cup {e.id}} \cup {[e EXCEPT !.level = "L0"]}
    IN  Ask(c, d, Appended(PromptFor(c), d))

AskBypass ==
    /\ turns < MaxTurns /\ turns' = turns + 1
    /\ fitGate /\ Fits
    /\ NotePrompt(<< <<"history">> >>
                  \o [i \in DOMAIN documents |-> <<"document", documents[i]>>]
                  \o << <<"question">> >>)
    /\ lastAssembly' = {} /\ bypassed' = bypassed + 1
    /\ first' = <<>>
    /\ UNCHANGED <<flags, store, ledger, shown>>

PromptNext ==
    \/ \E d \in Doc : Ingest(d)
    \/ \E n \in Node : AddSkill(n)
    \/ \E c \in Contexts :
         \/ AskPlanned(c)
         \/ \E e \in c, other \in Node : AskEscalated(c, e, {other})
    \/ AskBypass

PromptSpec == PromptInit /\ [][PromptNext]_promptVars

-----------------------------------------------------------------------------
\* The layout earns its cache (planner.rs, render_prefix_stable): two prompts in
\* a row share every entry before the first that one of them has and the other
\* has not or has at another level, whatever the utilities did in between.
LineOrder(a, b) ==
    KindOf[a[2]] < KindOf[b[2]] \/ (KindOf[a[2]] = KindOf[b[2]] /\ a[2] < b[2])
Kept(c, d) ==
    LET moved == (c \ d) \cup (d \ c)
    IN  {l \in c \cap d : \A m \in moved : LineOrder(l, m)}
PrefixIsShared ==
    [][prefixStable /\ turns' > turns /\ first # <<>> /\ first' # <<>> =>
         Kept(first[1], first'[1]) \subseteq Lines(SubSeq(lastPrompt, 1, Shared(lastPrompt, lastPrompt')))]_promptVars

\* Coverage is of what was read (runtime.rs, mark_assembled, pair_coverage): a
\* span counts as assembled only if a prompt quoted it, and a pair only if one
\* prompt quoted both.
LinkedPairs ==
    UNION {{{a, b} : a \in SpansOf[n], b \in UNION {SpansOf[m] : m \in DepsOf[n]}} : n \in Node}
CoverageWasShown ==
    /\ \A s \in assembledSpans : \E S \in shown : s \in S
    /\ \A pair \in assembledPairs \cap LinkedPairs : \E S \in shown : pair \subseteq S

TokensIn(docs) ==
    LET sum[i \in 0 .. Len(docs)] == IF i = 0 THEN 0 ELSE sum[i - 1] + TokensOf[docs[i]]
    IN  sum[Len(docs)]

\* A bypass hides nothing and overflows nothing (fit.rs): the turn that takes it
\* sends every document, which fit the window with what wraps them, however
\* often they were ingested; it holds the next plan to nothing and counts no
\* span as read that a planned prompt did not quote.
BypassShowsAll ==
    [][bypassed' > bypassed =>
         /\ \A d \in Lines(documents) : <<"document", d>> \in Lines(lastPrompt')
         /\ TokensIn(documents) + Overhead <= Budget
         /\ skills = {} /\ lastAssembly' = {}
         /\ turns > 0 => compared' > compared]_promptVars

\* "Activated" in a prompt means loaded or refused and counted (planner.rs, render_groups).
ActivatedIsLoaded ==
    failures = 0 => \A l \in Lines(lastPrompt) : l[1] = "entry" /\ l[2] \in skills => l[2] \in loaded
=============================================================================
