----------------------------- MODULE MemoryGraph -----------------------------
(***************************************************************************)
(* The dynamic memory graph (graph.rs): typed nodes joined by dependency   *)
(* and revision edges, statuses that say whether a node may still be       *)
(* believed, and the bounded cascade that carries a correction to          *)
(* everything derived from what it corrected.                              *)
(*                                                                         *)
(* A node is named by its id, a hash of (kind, key, value, spans): those   *)
(* are constants of the id here, and dependencies, status and metadata are *)
(* state.  An id has one index for as long as the process lives, so ids    *)
(* stand for indices too.  The runtime is single-threaded: a call finishes *)
(* before the next begins.  The one call split into steps is the drain of  *)
(* the deferred queue, a loop of cascades no other call can enter.         *)
(***************************************************************************)
EXTENDS Naturals, FiniteSets

CONSTANTS
    Id,            \* node ids
    Kind,          \* Kind[n]: the kind hashed into n
    Key,           \* subject keys
    KeyOf,         \* KeyOf[n]: the key hashed into n, or NoKey
    Sourced,       \* ids with a source span of their own (a skill: an artifact)
    DepChoices,    \* DepChoices[n]: the dependency lists callers give for n
    Restated,      \* Restated[n]: evidence whose span states n's fact again
    Mentions,      \* Mentions[n]: claims whose key occurs in n's text
    MaxCascade,    \* graph.max_cascade
    MaxDepth,      \* graph.max_depth
    DrainLimit,    \* the limit plan_with and consolidate drain with
    NoKey, NoId

Kinds == {"evidence", "claim", "calculation", "decision", "goal",
          "constraint", "open_question", "skill"}

Status == {"fresh", "stale", "superseded", "contradicted", "unresolved"}

IsLive(s) == s \in {"fresh", "contradicted", "unresolved"}

EdgeType == {"supports", "derived_from", "contradicts", "supersedes"}

Edge == [src : Id, dst : Id, kind : EdgeType]

IsDependency(e) == e.kind \in {"supports", "derived_from"}

\* The constants describe node ids: a kind and perhaps a key each, no id or
\* key confused with its sentinel, and a cascade that can mark something.
ASSUME GraphAssumption ==
    /\ Kind \in [Id -> Kinds]
    /\ KeyOf \in [Id -> Key \cup {NoKey}]
    /\ NoKey \notin Key
    /\ NoId \notin Id
    /\ Sourced \subseteq Id
    /\ DepChoices \in [Id -> SUBSET SUBSET Id]
    /\ Restated \in [Id -> SUBSET Id]
    /\ Mentions \in [Id -> SUBSET Id]
    /\ MaxCascade \in Nat \ {0}
    /\ MaxDepth \in Nat \ {0}
    /\ DrainLimit \in Nat \ {0}

VARIABLES
    present,       \* ids in the graph (nodes, by_id)
    status,        \* status[n], meaningful for present ids
    deps,          \* Node.dependencies, known ids or not
    edges,         \* out_edges and in_edges, as one set
    live,          \* live_by_key
    contradicts,   \* meta.contradicts
    supersededBy,  \* meta.superseded_by
    orphaned,      \* meta.superseded_source
    correctedBy,   \* meta.corrected_by
    drifted,       \* ids whose value is no longer the one hashed into the id
    pending,       \* pending_invalidation
    draining,      \* queue entries the running drain has still to pop
    planning       \* a plan is running: it drains, then reads the graph

nodeVars  == <<status, deps, contradicts, supersededBy, orphaned, correctedBy,
               drifted>>
queueVars == <<pending, draining, planning>>
vars      == <<present, edges, live, nodeVars, queueVars>>

-----------------------------------------------------------------------------
Dependents(E, n) == {e.src : e \in {x \in E : x.dst = n /\ IsDependency(x)}}

ByKey(k) == {n \in present : KeyOf[n] = k}

BirthStatus(n) == IF Kind[n] = "open_question" THEN "unresolved" ELSE "fresh"

\* require_grounding: evidence and skills name their source; anything else has
\* a span of its own, or a dependency already admitted (meta.grounded is set
\* on every node admitted, so reaches_evidence asks no more than that).
GroundedIfDependent(n, D) == n \in Sourced \/ D # {}
Grounded(n, D) ==
    \/ n \in Sourced
    \/ (Kind[n] \notin {"evidence", "skill"} /\ D \cap present # {})

\* What the breadth-first walk meets, layer by layer, when it marks M: layer 0
\* is the roots, layer k the dependents of what was marked in layer k - 1.
Layers(E, roots, M) ==
    LET walk[k \in 0 .. MaxDepth + 1] ==
          IF k = 0
          THEN [now |-> roots, seen |-> roots]
          ELSE LET before == walk[k - 1]
                   next   == UNION {Dependents(E, m) : m \in before.now \cap M}
               IN  [now  |-> next \ before.seen,
                    seen |-> before.seen \cup next]
    IN  [k \in 0 .. MaxDepth + 1 |-> walk[k].now]

\* History takes no part in a cascade.
Skipped(st) == {n \in Id : st[n] = "superseded"}

\* M is what a walk may have marked: superseded nodes are skipped, no more than
\* MaxCascade are marked, and a layer is finished before the next is entered.
\* The order inside a layer is that of the in-edge lists: any order.
MayMark(M, layer, last, st) ==
    LET alive(k) == layer[k] \ Skipped(st)
    IN  /\ M \subseteq UNION {alive(k) : k \in 0 .. last}
        /\ Cardinality(M) <= MaxCascade
        /\ \A k \in 0 .. last :
              (Cardinality(M) < MaxCascade
                 \/ \E j \in k + 1 .. last : M \cap layer[j] # {})
              => alive(k) \subseteq M

\* What such a walk defers: everything past the depth bound, and everything
\* still queued once MaxCascade nodes are marked.  A superseded node of the
\* layer where the count is reached (a member of S) may be popped after it.
PostponedByCount(M, S, layer, last, st) ==
    {n \in UNION {layer[k] : k \in 0 .. last} :
        Cardinality(M) = MaxCascade /\ n \notin M \cup Skipped(st)}
Postponed(M, S, layer, last, st) ==
    LET full == Cardinality(M) = MaxCascade
        past(k) == \A j \in k .. last : M \cap layer[j] = {}
        cut(k)  == M \cap layer[k] # {} /\ (k < last => past(k + 1))
    IN  {n \in Id :
           \/ n \in layer[last + 1]
           \/ /\ full /\ n \notin M
              /\ \E k \in 0 .. last :
                    /\ n \in layer[k]
                    /\ past(k) \/ (cut(k) /\ n \notin Skipped(st) \ S)}

\* invalidate(): every outcome of the bounded cascade from roots at depth d.
Cascades(E, roots, d, st) ==
    LET last == MaxDepth - d
        walks == {M \in SUBSET (present \ Skipped(st)) :
                    MayMark(M, Layers(E, roots, M), last, st)}
    IN  UNION {{[marked |-> M,
                 deferred |-> Postponed(M, S, Layers(E, roots, M), last, st)] :
                  S \in SUBSET Skipped(st)} : M \in walks}

\* Evidence is passed through, never marked stale.
Stale(st, c) ==
    [n \in Id |-> IF n \in c.marked /\ Kind[n] # "evidence" THEN "stale"
                  ELSE st[n]]

-----------------------------------------------------------------------------
Init ==
    /\ present = {} /\ edges = {}
    /\ status = [n \in Id |-> "fresh"]
    /\ deps = [n \in Id |-> {}]
    /\ live = [k \in Key |-> {}]
    /\ contradicts = [n \in Id |-> {}]
    /\ supersededBy = [n \in Id |-> NoId]
    /\ orphaned = {} /\ drifted = {}
    /\ correctedBy = [n \in Id |-> {}]
    /\ pending = {} /\ draining = {} /\ planning = FALSE

\* live_by_key after n joins (or stays in) the live nodes of its key.
JoinedIfNew(n) ==
    [k \in Key |-> IF k = KeyOf[n] /\ n \notin present THEN live[k] \cup {n}
                   ELSE live[k]]
Joined(n) == [k \in Key |-> IF k = KeyOf[n] THEN live[k] \cup {n} ELSE live[k]]

\* live_by_key after n leaves them.
Departed(n) == [k \in Key |-> live[k] \ {n}]

DependencyEdges(n, D) ==
    {[src |-> n, dst |-> d,
      kind |-> IF Kind[n] = "claim" THEN "supports" ELSE "derived_from"] : d \in D}

\* upsert(): admit n, or replace the node that already has its id.  The new
\* node is born current with empty metadata; a replacement whose fingerprint
\* differs invalidates its dependents.  Edges are only ever added, to the
\* dependencies the graph knows, whose orphan flag the new dependent clears.
Upsert(n, D) ==
    /\ Grounded(n, D)
    /\ present' = present \cup {n}
    /\ deps' = [deps EXCEPT ![n] = D]
    /\ LET born    == [status EXCEPT ![n] = BirthStatus(n)]
           changed == n \in present /\ (D # deps[n] \/ n \in drifted)
           roots   == IF changed THEN Dependents(edges, n) ELSE {}
       IN  \E c \in Cascades(edges, roots, 1, born) :
              /\ status' = Stale(born, c)
              /\ pending' = pending \cup c.deferred
    /\ edges' = edges \cup DependencyEdges(n, D \cap present')
    /\ live' = Joined(n)
    /\ contradicts' = [contradicts EXCEPT ![n] = {}]
    /\ supersededBy' = [supersededBy EXCEPT ![n] = NoId]
    /\ correctedBy' = [correctedBy EXCEPT ![n] = {}]
    /\ orphaned' = orphaned \ ({n} \cup D)
    /\ drifted' = drifted \ {n}
    /\ UNCHANGED <<draining, planning>>

\* Callers put two nodes in dispute only when they are different claims of one
\* key, neither superseded (StateIndexer::conflicts, commit_fact).
RivalsEvenHistory(a, b) ==
    /\ {a, b} \subseteq present /\ a # b
    /\ Kind[a] = "claim" /\ Kind[b] = "claim"
    /\ KeyOf[a] = KeyOf[b] /\ KeyOf[a] # NoKey
Rivals(a, b) ==
    /\ {a, b} \subseteq present /\ a # b
    /\ Kind[a] = "claim" /\ Kind[b] = "claim"
    /\ KeyOf[a] = KeyOf[b] /\ KeyOf[a] # NoKey
    /\ status[a] # "superseded" /\ status[b] # "superseded"

\* contradict(): both sides stay, and both say so unless already stale.
Contradict(a, b) ==
    /\ edges' = edges \cup {[src |-> a, dst |-> b, kind |-> "contradicts"],
                            [src |-> b, dst |-> a, kind |-> "contradicts"]}
    /\ contradicts' = [contradicts EXCEPT ![a] = @ \cup {b}, ![b] = @ \cup {a}]
    /\ status' = [n \in Id |-> IF n \in {a, b} /\ status[n] = "fresh"
                               THEN "contradicted" ELSE status[n]]
    /\ UNCHANGED <<present, deps, live, supersededBy, orphaned, correctedBy,
                   drifted, queueVars>>

\* settle(): a contested node is fresh again once nothing live contests it.
Settled(n, against, st) ==
    IF st[n] = "contradicted"
       /\ \A other \in against \cap present : ~IsLive(st[other])
    THEN [st EXCEPT ![n] = "fresh"]
    ELSE st

\* mark_orphaned_evidence(): the evidence old names, split by whether anything
\* not superseded still depends on it.
EvidenceOf(n) == {e \in deps[n] \cap present : Kind[e] = "evidence"}
UnsupportingStale(E, st) ==
    {e \in Id : \A s \in Dependents(E, e) : st[s] = "stale"}
Unsupporting(E, st) ==
    {e \in Id : \A s \in Dependents(E, e) : st[s] = "superseded"}

\* The evidence of the old value points at the new one.
Announced(E, new) ==
    [n \in Id |-> IF n \in E THEN correctedBy[n] \cup {new} ELSE correctedBy[n]]

\* supersede(): the old node stays, marked; the new one stops being contested
\* by it; what was derived from the old one is invalidated.
Supersede(old, new) ==
    LET revision == [src |-> new, dst |-> old, kind |-> "supersedes"]
        against  == contradicts[new] \ {old}
        revised  == Settled(new, against,
                            [status EXCEPT ![old] = "superseded"])
    IN  /\ edges' = edges \cup {revision}
        /\ live' = Departed(old)
        /\ supersededBy' = [supersededBy EXCEPT ![old] = new]
        /\ contradicts' = [contradicts EXCEPT ![new] = against,
                                              ![old] = @ \ {new}]
        /\ \E c \in Cascades(edges', Dependents(edges', old), 1, revised) :
              /\ status' = Stale(revised, c)
              /\ pending' = pending \cup c.deferred
        /\ orphaned' = (orphaned \ EvidenceOf(old))
                         \cup (EvidenceOf(old) \cap Unsupporting(edges', status'))
        /\ correctedBy' = Announced(EvidenceOf(old), new)
        /\ UNCHANGED <<present, deps, drifted, draining, planning>>

\* reinforce(): the same fact stated elsewhere is one more source of a node, not
\* a second node.  Nothing is invalidated and no orphan flag is cleared.
Corroborate(n, e) ==
    /\ {n, e} \subseteq present /\ e \in Restated[n] \ deps[n]
    /\ status[n] = "fresh"
    /\ deps' = [deps EXCEPT ![n] = @ \cup {e}]
    /\ edges' = edges \cup {[src |-> n, dst |-> e, kind |-> "supports"]}
    /\ UNCHANGED <<present, status, live, contradicts, supersededBy, orphaned,
                   correctedBy, drifted, queueVars>>

\* backfill_references(): a fresh claim that mentions the key of one that has
\* just arrived depends on it from then on.
Refer(m, n) ==
    /\ {m, n} \subseteq present /\ m # n
    /\ n \in Mentions[m] \ deps[m]
    /\ Kind[m] = "claim" /\ Kind[n] = "claim" /\ status[m] = "fresh"
    /\ deps' = [deps EXCEPT ![m] = @ \cup {n}]
    /\ edges' = edges \cup {[src |-> m, dst |-> n, kind |-> "derived_from"]}
    /\ UNCHANGED <<present, status, live, contradicts, supersededBy, orphaned,
                   correctedBy, drifted, queueVars>>

\* invalidate(n, true), as the consolidation hook of a turn calls it.
Invalidate(n) ==
    /\ \E c \in Cascades(edges, {n}, 0, status) :
          /\ status' = Stale(status, c)
          /\ pending' = pending \cup c.deferred
    /\ UNCHANGED <<present, deps, edges, live, contradicts, supersededBy,
                   orphaned, correctedBy, drifted, draining, planning>>

\* Dcr::revalidate: re-ground a stale node.  A derivation runs again over its
\* inputs and may give another value; the status is fresh either way.
Revalidate(n) ==
    /\ status' = [status EXCEPT ![n] = "fresh"]
    /\ live' = IF status[n] = "superseded" THEN Joined(n) ELSE live
    /\ drifted' \in IF Kind[n] = "calculation"
                    THEN {drifted \cup {n}, drifted \ {n}} ELSE {drifted}
    /\ UNCHANGED <<present, deps, edges, contradicts, supersededBy, orphaned,
                   correctedBy, queueVars>>

-----------------------------------------------------------------------------
\* The queue is a set: an id queued twice is invalidated twice in the code, which
\* marks what invalidating it once marks.
\* drain_pending(limit): as many pops as the limit or the length at the start
\* allow; each popped node is invalidated together with its dependents, and
\* what that defers joins the queue for the next drain.
Popped == {Q \in SUBSET pending :
             Cardinality(Q) = IF Cardinality(pending) < DrainLimit
                              THEN Cardinality(pending) ELSE DrainLimit}

BeginDrain(plan) ==
    /\ \E Q \in Popped : draining' = Q /\ pending' = pending \ Q
    /\ planning' = plan
    /\ UNCHANGED <<present, edges, live, nodeVars>>

DrainStep ==
    /\ \E n \in draining :
          /\ draining' = draining \ {n}
          /\ \E c \in Cascades(edges, {n}, 0, status) :
                /\ status' = Stale(status, c)
                /\ pending' = pending \cup c.deferred
    /\ UNCHANGED <<present, deps, edges, live, contradicts, supersededBy,
                   orphaned, correctedBy, drifted, planning>>

\* RelevancePlanner::plan reads the graph at this version.
TakeSnapshot ==
    /\ planning /\ draining = {}
    /\ planning' = FALSE
    /\ UNCHANGED <<present, edges, live, nodeVars, pending, draining>>

Idle == draining = {} /\ ~planning

\* What callers upsert: a span's evidence once (evidence_node looks it up
\* first), any other node as often as they like.
Offered == {n \in Id : Kind[n] = "evidence" => n \notin present}

Next ==
    \/ /\ Idle
       /\ \/ \E n \in Offered : \E D \in DepChoices[n] : Upsert(n, D)
          \/ \E a, b \in Id : Rivals(a, b) /\ Contradict(a, b)
          \/ \E old, new \in Id :
                Rivals(old, new) /\ old \in contradicts[new] /\ Supersede(old, new)
          \/ \E n, e \in present : Corroborate(n, e)
          \/ \E m, n \in present : Refer(m, n)
          \/ \E n \in present : Invalidate(n)
          \/ \E n \in present : status[n] = "stale" /\ Revalidate(n)
          \/ \E plan \in BOOLEAN : (plan \/ pending # {}) /\ BeginDrain(plan)
    \/ DrainStep
    \/ TakeSnapshot

Spec == Init /\ [][Next]_vars

-----------------------------------------------------------------------------
TypeOK ==
    /\ present \subseteq Id
    /\ status \in [Id -> Status]
    /\ deps \in [Id -> SUBSET Id]
    /\ edges \subseteq Edge
    /\ live \in [Key -> SUBSET Id]
    /\ contradicts \in [Id -> SUBSET Id]
    /\ supersededBy \in [Id -> Id \cup {NoId}]
    /\ orphaned \subseteq Id
    /\ correctedBy \in [Id -> SUBSET Id]
    /\ drifted \subseteq Id
    /\ pending \subseteq Id /\ draining \subseteq Id
    /\ planning \in BOOLEAN

\* live_by_key never drifts from by_key filtered to what is not superseded: the
\* two are maintained in different places (insert, replacement, set_status) and
\* only a debug assertion compares them (live_by_key_sorted).
LiveIndexExact ==
    \A k \in Key : live[k] = {n \in ByKey(k) : status[n] # "superseded"}

\* Every node in the graph reaches, over dependency edges, one that carries its
\* own source: a set that holds the sourced nodes and everything depending on
\* one of its members holds the whole graph.  upsert() checks one step only and
\* trusts that its dependencies were checked before it.
GroundedInEvidence ==
    \A S \in SUBSET Id :
        (\A n \in present :
            (n \in Sourced \/ \E e \in edges : e.src = n /\ IsDependency(e) /\ e.dst \in S)
              => n \in S)
        => present \subseteq S

\* A superseded node is exactly one that names its correction: no cascade,
\* settlement or later revision lets one be believed again without clearing
\* the pointer, and none loses the pointer while it stays history.
SupersededIffCorrected ==
    \A n \in present : status[n] = "superseded" <=> supersededBy[n] # NoId

\* Following superseded_by from any superseded node ends at one that is not
\* superseded: asserting an old value again never closes the chain on itself.
CorrectionChainEndsLive ==
    \A S \in SUBSET Id :
        /\ {n \in present : status[n] # "superseded"} \subseteq S
        /\ \A n \in present : supersededBy[n] \in S => n \in S
        => present \subseteq S

\* History is kept as such, and leads to what replaced it.
CorrectionsAreKept == SupersededIffCorrected /\ CorrectionChainEndsLive

\* When a node stops being what its dependents were derived from (superseded,
\* stale, or replaced without some of its inputs), each direct dependent is stale, is
\* history, or is queued: the bounded cascade defers and never forgets.
CascadeReachesDependents ==
    [][\A d \in present :
          \/ status'[d] # status[d] /\ status'[d] \in {"stale", "superseded"}
          \/ deps[d] \ deps'[d] # {}
          => \A s \in Dependents(edges, d) :
                \/ Kind[s] = "evidence"
                \/ status'[s] \in {"stale", "superseded"}
                \/ s \in pending' \cup draining']_vars

\* Evidence of a superseded value points at the value that replaced it, so that
\* it is never shown beside the correction without saying so.
CorrectionIsAnnounced ==
    \A n \in present : status[n] = "superseded" =>
        \A e \in EvidenceOf(n) : supersededBy[n] \in correctedBy[e]

\* Evidence whose every dependent is history is flagged, so that it is not
\* offered as current: no order of corroborations, references and revisions
\* leaves one behind, short of a dependent that dropped it when re-admitted.
OrphansAreFlagged ==
    \A e \in present :
        /\ Kind[e] = "evidence" /\ Dependents(edges, e) # {}
        /\ \A s \in Dependents(edges, e) : status[s] = "superseded" /\ e \in deps[s]
        => e \in orphaned

\* A correction reaches the evidence of what it corrected.
CorrectionReachesEvidence == CorrectionIsAnnounced /\ OrphansAreFlagged
-----------------------------------------------------------------------------
(* Statements of the documentation that the code does not keep.            *)

\* open-questions.md:74-75: the deferred tail is "drained before the next
\* plan".  drain_pending(32) is one batch, and its cascades defer again.
DrainedBeforePlanning == (planning /\ draining = {}) => pending = {}
=============================================================================
