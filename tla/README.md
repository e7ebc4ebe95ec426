# Verification of the `dcr` runtime

TLA+ modules of the memory runtime in `src/` (crate `dcr`), the TLC
configurations that check them on small instances, and TLAPS proofs of what
they say for every instance. `PROJECT.json` lists every component, run, mutant,
hazard and theorem, and gives for each definition the lines of Rust it models.

    tlc -config Graph_revision.cfg MC_MemoryGraph     # a run: <name>.cfg with its MC module
    tlapm MemoryGraph_proofs.tla                      # a proof module

## The system

`dcr` keeps what a conversation learned as a graph of typed nodes with sources,
plans for every question a window of that graph under a token budget, and sends
the window to a reasoner.

| Component | State it keeps | Operations | Talks to |
|---|---|---|---|
| Dynamic memory graph (`graph.rs`, `nodes.rs`) | nodes with status, dependencies and metadata; edges; `live_by_key`; the deferred queue; a version | `upsert`, `contradict`, `supersede`, `invalidate`, `revalidate`, `drain_pending` | everything below |
| State indexer (`indexer.rs`) | the retrieval index, the spans known | `ingest`, `admit`, `reinforce`, `conflicts`, `backfill_references`, `reindex` | calls the graph, several calls per fact |
| Turn loop (`runtime.rs`) | per turn: the window, the prompt sent, pins, two counters | `ask_with_consolidation`, `plan_with`, `commit_fact`, `revalidate`, `consolidate` | plans over the graph, calls the reasoner and the consolidation hook |
| Relevance planner (`planner.rs`, `policy.rs`) | weights, last assembly | `plan`: seed, expand, pin, score, allocate; `render` | reads the graph and the index |
| Attention budget (`budget.rs`) | none | `solve`: multiple-choice knapsack | called by the planner |
| Prompt (`planner.rs`, `runtime.rs`, `fit.rs`, `skills.rs`) | last prompt, spans read, skills loaded, history size | `render`, `ask_bypass`, `mark_assembled`, `activate_skills` | what a turn sends |
| Raw store (`spans.rs`, `text.rs`) | documents, spans, their order | `add_document`, `restore`, chunking | the index and the nodes name its spans |
| Retrieval index (`index.rs`) | postings, lengths, vectors, LSH buckets, one index for nodes and one for spans | `add`, `remove`, `search` | filled by ingestion, asked by the planner |
| `.context` container (`context_store.rs`) | object files, sidecars, checkpoints, manifest, generation mark; in memory what of that the process believes | `open`, `put`, `commit`, `quarantine`, `restore_object` | the file system |
| Scrubber (`scrub.rs`) | none | detect, repair from replicas, quarantine, seal | the container |
| Admission gateway (`trust.rs`) | policy, audit | `admit` | the container and the turn |
| Session router (`sessions.rs`) | map of sessions to runtimes, LRU order, counters, under one mutex; a mutex per runtime | `route`, `serve`, `handle` | a thread per connection |
| Representation ladder (`ladder.rs`) | the levels cached on each node | `cached`, `view`, `prewarm` | planner, speculation |
| Execution layer (`execute.rs`) | registered closures, the memo | `compute`, `register`, `revalidate` | the graph |
| Speculation (`speculation.rs`) | predictor, prefetched set, spend | `prefetch`, `feedback` | the ladder, after a plan |
| Saved sessions (`runtime.rs`, `fit.rs`) | one JSON file, or a container | `save`, `load`, `save_context`, `open_context` | the graph, the clock, the container |
| Merkle tree (`merkle.rs`) | none | build, prove, verify | the container |
| The rest | none worth a model | text, hashing, telemetry, benchmarks, command line, reasoner adapters | |

What is hard, and what makes each part correct:

* **Graph.** A correction has to reach everything derived from what it
  corrected, through a cascade that is bounded in nodes and in depth and defers
  the rest. Statuses, `live_by_key`, the pointers to corrections and the orphan
  flags are kept in step by hand, in several methods, over any sequence of
  calls. Correct means: one record never contradicts another, nothing in the
  graph lost its source, history stays history and names what replaced it, and
  no dependent of a changed node is forgotten.
* **Indexer.** A fact is several graph calls, and decides with what it read
  before the first of them. Correct means: two standing values of one key say
  that they disagree, a plain restatement does not undo a correction, and the
  retrieval index is what the graph has live.
* **Turn.** The graph changes while the reasoner thinks. Correct means: what
  was planned is shown, an answer whose window was invalidated is discarded,
  nothing of a discarded prompt comes back, and the turn ends.
* **Container.** A commit is four writes and a change of memory; the process may
  die, or a write may fail, between any two. Correct means: the store opens
  again, at a generation whose checkpoint exists and extends the history before
  it; what was sealed is kept and believed.
* **Router.** Eviction reads a reference count other threads are changing.
  Correct means: no conversation is ever served from two runtimes, the bound is
  respected as far as requests in flight allow, and no lock is held for ever.

* **Planner.** What may not be believed can be reached by a search hit, an edge,
  an audit path or a pin, and each has a guard of its own. Correct means:
  history stays out by every way in, what is mandatory is in unless the plan
  says so, the budget is kept, and nothing is left out that would have fitted.
* **Ladder and memo.** A summary, a vector and a result are kept beside the node
  they were made from, which other calls change. Correct means: none outlives
  its source, a memo answers for the content it was asked about, and what is
  built ahead stays within its budget.
* **Saved sessions.** What restores a session is other code than what kept it.
  Correct means: nothing saved is lost, the indices are those the nodes imply,
  and time does not go back.
* **Signatures and policy.** They are written before the manifest and some of
  them only implied by it. Correct means: a seal is exact, a signed store stays
  one, and nothing is believed that was not committed.
* **Raw store and index.** Offsets, span indices and buckets are counters and
  positions kept next to the texts they describe. Correct means: spans tile the
  text and stay put, the index describes the state through updates and
  restarts, and pruning and fusing lose nothing that both channels rank first.
* **Prompt.** Correct means: what is counted as read was quoted, the layout for
  the cache shares its prefix, and a bypass sends everything within the budget.

The hazards are listed one by one, at their lines, in `PROJECT.json`.

## The modules

| Module | Models | Shape |
|---|---|---|
| `MemoryGraph` | the graph | an action per call; a cascade is one action whose outcome is any that a bounded breadth-first walk can have |
| `StateIndexer` | ingestion and `commit_fact` | an action per graph call; composes `MemoryGraph` (`G == INSTANCE`), whose actions it takes |
| `Turn` | `ask_with_consolidation` | `Ask`, `Drain`, `Plan`, `Hook`, then `Discard`, `Escalate` or `Return`; composes `MemoryGraph` the same way |
| `ContextStore` | container, scrub, and the generation ceiling of admission | an action per file write, a `step` variable for the call in progress, actions for crash, failed write and decay |
| `SealedLog` | what the container promises: an append-only sequence of roots | the abstract specification of `ContextStore` |
| `Sessions` | router and server | an action per step of a connection's thread; the eviction scan is a step per LRU entry |
| `Budget` | `solve` | pure operators; the loops are recursive functions over the index, no `RECURSIVE` |
| `Planner` | `plan()` and the decision policy | `Plan`, and `Change`, the graph calls between plans; extends `Budget`, composes `MemoryGraph` |
| `Ladder` | level caches, memo, speculation | an action per call that fills, keeps or clears a cache; composes `MemoryGraph` |
| `SavedSession` | save, load, both formats, death at any point | an action per operation; the graph is here the list of nodes the code keeps |
| `MerkleTree` | construction, proofs, verification | pure operators; a digest is the term that was hashed; the levels, the climb of a proof and its replay are recursive functions over the height |
| `SignedStore` | signatures, policy, verification, the gateway | an action per call of the container, with the failures that leave something behind; composes `MerkleTree` |
| `RawStore` | documents, spans, chunking | pure operators on texts of marks, the loops recursive functions, and the state they fill |
| `HybridIndex` | both indices, pruning, fusion | pure operators on an index |
| `Retrieval` | ingestion, reindexing and restart | composes `RawStore` and `HybridIndex` (`EXTENDS`: they share the state) |
| `Prompt` | layouts, bypass, coverage, skills | an action per turn, with and without an escalation |
| `MC_*` | the instances the runs check | constants only |
| `*_proofs` | the theorems | extend the module they are about; `SavedSession_proofs` also `SignedStore` with `MerkleTree`, `Planner_proofs` also `Prompt`, `ContextStore_proofs` also `Retrieval` with what it extends |

How state and actions correspond to the code:

* **MemoryGraph.** An id is a hash of kind, key, value and spans, so those are
  constants `Kind`, `KeyOf`, ... of the id; `status`, `deps`, `contradicts`,
  `supersededBy`, `orphaned` (`meta.superseded_source`) and `correctedBy` are
  functions of it. The runtime is single-threaded, so a call is atomic, except
  the drain, which is a loop of cascades (`BeginDrain`, then `DrainStep` per
  popped id, then `TakeSnapshot` when a plan waits for it). `Layers`, `MayMark`
  and `Postponed` say what the walk of `invalidate` marks and defers, for any
  order of the in-edge lists. `drifted` holds the ids whose value is no longer
  the one hashed into them, which is what makes a re-admission with the same
  dependencies a change.
* **StateIndexer.** `Ingest` starts a text; `AddEvidence`, then per fact
  `SkipKnown`, `Merge` or `Admit`; then `Backfill` and, per rival found before
  the admission, `Dispute` and `Revise`; `Settle` and `Return`. Texts are
  constants: what a span states and whether as a correction.
* **Turn.** `touched` is `invalidated_since` the snapshot of the last plan;
  `Recorded` derives it from the cascade the hook's call made. A prompt is a set
  of rendered lines, and a line is its node, its level, and at L2 the status it
  shows. Two history variables: `epoch`, the number of discards when the line
  was rendered, and `shaken`, the nodes the hook's calls took the ground from
  since the last plan, told by what the calls did to the graph and not by what
  was recorded.
* **ContextStore.** `file`, `side`, `copies`, `jail`, `chk`, `manifest`, `hwm`
  are on disk; `objs`, `log`, `pending`, `mgen`, `mroot`, `ceiling` are what the
  process believes and lose on a crash. A checkpoint carries the sequence of
  entries its chain hash commits to, so that a chain verifies exactly when the
  sequences agree. `faults` fixes which faults a behaviour may have;
  `Scenarios` is the set of fault sets a run explores, and a property that holds
  only without some fault says so.
* **Planner.** `Seeds`, `Push`, `Visit`, `Explained`, `Expand` and `Considered`
  are the phases of `plan()` in their order; `window` is its result, with the
  candidates it was chosen from, so that a property can ask what was left out.
  `Solve` in `Budget` is the code's dynamic programme, quantised costs included:
  `Item` is a candidate with its moves, `Table` the values, `Backtrack` the walk
  back through them, `MandatoryFirst` the path taken when the mandatory set
  overflows.
* **Ladder.** A cached level is the set of spans it was made from, a memo entry
  the inputs and fingerprints it is keyed by. `Feedback` ends the turn that
  `Planned` began; which nodes the predictor likes is any choice.
* **SavedSession.** `nodes` is a list, because opening a container inserts every
  version of an id; `byId` and `live` are the indices. `NodeToJson` and
  `NodeFromJson` are what is written of a node and read back: its summary is
  kept, the memo of its sizes is not. `file` is the disk's saved file, whole,
  torn or absent, `container` the objects under a manifest and `ahead` those a
  `save_context` wrote before it died; `kept` records what the last save of
  each format was asked to keep.
* **SignedStore.** `bytes`, `side`, `chk`, `sig` and `manifest` are on disk,
  `gens`, `log`, `believed`, `ceiling`, `require` and `revoked` in the process.
  `Verdict` is the gateway's five conditions in their order. A call is one step;
  `TearPut`, `FailCommit` and `RefuseCommit` are what calls leave that were cut
  off, and `Found` is what `open` makes of the objects, the sidecars it rebuilds
  included. `torn` is a history variable: the objects last written by a put that
  did not reach its sidecar. The other writes of a commit are `ContextStore`'s.
* **RawStore, HybridIndex, Retrieval.** A text is a sequence of marks (word,
  stop, space, newline), cut by the rules of `text.rs`. `nodeLexical`,
  `nodeVector` and `spanLexical` are the three indices the runtime keeps. The
  hyperplanes are constants, a bucket is a set of pairs `<<signature, id>>`, and
  what was filed for an older vector stays filed. `Restart(order)` takes every
  order the container may hand the spans back in.
* **Prompt.** A context is any set of entries the planner could return. A line
  is a heading or a node with its level; a layout sorts by a key of four parts
  (`Items`), so that the place of a line is the number of keys before its own; `assembledSpans` is the set of spans
  counted as looked at, beside `shown`, a history variable of what prompts
  quoted.
* **Sessions.** A thread is `closed`, `reading`, `routing`, `scanning`,
  `locking`, `inside`, `replying` or `refusing`. `StrongCount` is the map's
  reference and one per handle. `Stall` makes a client silent for good.

## The runs

Runs that pass (every property has a mutant, an edit of the modelled code that
TLC finds violating it):

| Run | Instance | What it shows |
|---|---|---|
| `Graph_revision` | 5 nodes: 2 sources, 2 rival claims, a calculation; a cascade marks 2 nodes and goes 1 deep; drains pop 1 | `LiveIndexExact`, `GroundedInEvidence`, `CorrectionsAreKept` (a superseded node names its correction, and the chain ends at one that holds), `CorrectionReachesEvidence` (announced, and flagged when nothing else supports it), and `CascadeReachesDependents` of every step |
| `Facts_ingest` | 4 spans, 4 claims of one key, two of them corrections, one of them also committed as a conclusion | `RivalsAreAccountedFor` (two standing values say so, and there are two only beside a correction), `IndexMatchesGraph`, `CorrectionStands` of every step, and `CallsGraphAsAssumed`: the indexer implements `MemoryGraph`, so the graph's invariants carry over |
| `Turn_rounds` | 4 nodes, any window; 2 graph calls of the hook, 1 retry, 1 escalation per turn | `PromptIsOfThisRound` (the whole window, nothing discarded), `UnretriedKeepsItsGround` (an answer shows nothing that lost its ground, but what a cascade has queued), `StaleReadsExplained`, and `TurnEnds` |
| `Plan_window` | 6 nodes of which 4 are considered, three query types, budgets 2, 5 and 12, two graph calls | `HistoryStaysOut`, `MandatoryAdmitted`, `BudgetIsSpent` (not overrun but for one token; what is left out would not have fitted) |
| `Ladder_levels` | 2 rival claims with sources, a derivation of 2 inputs registered twice, prefetch budget 1, 6 calls | `LevelsAreCurrent`, `SpeculationInBudget`, and of every call `MemoAnswersThisCall` |
| `Prompt_layout` | 3 nodes (a claim, one that depends on it, a skill), 2 turns, 2 documents | `CoverageWasShown`, and of every step `PrefixIsShared`, `BypassShowsAll` |
| `Retrieval_index` | every text of up to 3 marks beside one of 3 longer ones, 3 nodes, 3 calls, a restart | `SpansTileTheText`, `IndexDescribesTheState`, `BestIsKept` (near neighbours are found, agreement of the channels survives fusion), and `SpansStayPut` of every step |
| `Store_faults` | 2 objects, 2 generations; all faults together, crashes and refused signers, decay alone | `CommitOrder` (mark behind manifest behind checkpoint), `SealedStays` (bytes and the right to be believed), `StoreAtRest` (opens, or is refused for the one known reason, and rebuilds its root), and that the container implements `SealedLog` |
| `Signed_store` | 3 objects of 3 labels, 1 key, 2 generations, 2 faults; trees of up to 6 leaves | `SealIsExact` (proofs stand for exactly the leaves; a clean audit is exact), `SignedStaysSigned`, `PutWaitsForCommit` (only a put cut off before its sidecar is believed unsealed) |
| `Saved_restart` | 2 rival claims, 8 calls | `IndexesAgree`, `ClockIsAhead`, and `SavedIsRestored` of every restart by either format |
| `Sessions_routing` | 2 connections, 3 sessions, 1 slot | `NeverSplit`, `CacheIsBounded` (the LRU order is the map, and the soft bound holds), `AcknowledgedIsRemembered`, and the liveness of both locks, `LocksAreFreed` |

A run in which TLC finds a documented statement violated:

| Run | Statement | What the code does |
|---|---|---|
| `Store_interrupted` | context_store.rs:1049: a crash between the writes of a commit "leaves a store that opens, at the older generation" | a crash after the checkpoint and before the manifest leaves a store `open` refuses (`context_store.rs:699`) |

### Bounds, and why they are enough

* Graph: `MaxCascade = 2`, `MaxDepth = 1`, `DrainLimit = 1` (64, 8 and 32 in the
  code) make the interesting case, a cascade cut by count, by depth, or by both
  in the same layer, happen with five nodes: the corrected claim has more
  dependents than may be marked, and some deeper than the walk goes. The
  batch is one so that a drain leaves a queue.
* Indexer: the claims of one key are what conflicts are about, keys do not
  interact; three or four claims give a correction, its rival, a restatement
  and a correction of the correction.
* Turn: two calls of the hook are a dispute and a revision, or one invalidation
  before and one after a discard. With `MaxEscalations = 2`, and with
  `MaxCalls = 3`, the same properties hold; those instances only take longer.
* Container: two objects, so that one is sealed while another is put, lost or
  repaired, and two generations, so that a checkpoint has a parent and a retry
  follows a failure. The two addresses are symmetric, and no liveness is
  checked there.
* Sessions: with one slot every new session evicts; two threads may both be in
  flight when a third session is asked for, which is when the capacity is
  exceeded. Runtimes are numbered with one number more than there are threads,
  enough for each thread to hold a different one and the map another.
* Planner: six nodes of which `MaxCandidates = 4` are considered, so that the
  cap cuts; `MaxDpBuckets = 8` makes a budget of 12 quantised and one of 5 not;
  a budget of 2 is below what is mandatory, 5 near it, 12 nearly all. Two graph
  calls (`MaxChanges`) make a seed history and leave its rival live.
* Ladder: six calls fit a registration, a compute, a correction, a second
  registration, a prefetch and its feedback. A prefetch budget of one is spent
  by the first node built.
* Prompt: two turns, because the prefix is shared between two prompts; a budget
  of 6 with documents of 2 and 4 puts the history on either side of the gate.
* Retrieval: the first document is any text of up to three marks over one word,
  stop, space and newline; the second one of three longer texts in which
  sentences, wrapping and white space meet. Spans of at most two marks, an LSH
  used from two nodes on and a pool of one (1 200 characters, 256 and 64 in the
  code) make wrapping, approximate search and the fall back to all of them
  happen.
* Signed store: three objects make a level of the tree odd, trees alone are
  checked up to six leaves, where an odd level follows an odd one. Two
  generations, and two faults, each a decay, a revoked key, a failed commit or a
  put cut off before its sidecar: two make a put that is cut off meet the
  sidecar a quarantine left behind.
* Saved sessions: two interchangeable claims of one key, eight calls: a
  correction, a save, a death and a restart by either format, and calls after.

### Deadlock

Deadlock is checked for `Sessions` and `Turn`, which serve for ever. The other
specifications stop where there is nothing left to offer or a bound on calls,
turns or changes is reached, and a store may rest at its last generation or be
refused at `open` for good, so their configurations say
`CHECK_DEADLOCK FALSE`.

### Fairness

* `Sessions`: weak fairness of each thread's own steps, because the operating
  system runs every thread; of `Reply` only while the client is not stalled,
  because a client that reads lets the write complete; of `Hangup` only for a
  stalled client, because a read times out. Nothing is assumed of clients
  otherwise. `Enter` is weakly fair, not strongly: no mutex promises fairness
  to a waiter, and the liveness properties are about giving a lock back, not
  about getting one.
* `Turn`: weak fairness of the drain, the plan, and the judgement that follows
  the reasoner's answer: a turn is one thread's straight-line code, and the
  reasoner and the hook are taken to return. `Ask` is not fair: nobody need ask.
* The other specifications have no fairness, and no liveness is claimed.

## The proofs

Every theorem is for all values of the constants that satisfy the named
assumptions of its module, and every leaf is checked by SMT, Zenon or LS4. The
assumptions say what the constants are (`GraphAssumption`, `StoreAssumption`,
`SessionsAssumption` and `NoRuntimeAssumption`, `SignedAssumption`,
`SavedAssumption`, `IndexerAssumption`, `TurnAssumption`, `LadderAssumption`,
`PlannerAssumption`, `PromptAssumption`, `RawStoreAssumption`,
`RetrievalAssumption`);
they bound no number of nodes, objects, threads or calls, except that the sets a
graph starts from, or that a node is sourced from, the ids a plan ranges over,
the nodes of a prompt and the objects of a container are finite.

* `MemoryGraph_proofs`. `TypeOK` is inductive (`TypeCorrect`). Every step has one
  of three shapes, with regard to the set of superseded nodes: it admits a node,
  it revises one, or it leaves history alone (`StepShapes`). For this
  `CascadeBounds` and `StaleKeepsHistory` say that no cascade marks history.
  `LiveIndexIsExact`, `AllGrounded`, `HistoryNamesCorrection`, `CorrectionsEnd`
  and of the last two together `CorrectionsKept` follow from the shape alone;
  `GroundedInEvidence` and `CorrectionChainEndsLive` are stated with closed sets,
  not paths, so that neither induction nor recursion is needed.
  `CascadeIsNeverLost` is about what a bounded walk meets. `Layers` is a
  recursive function; that it exists, and that what it has seen was in some
  layer, are shown by taking the least layer where they would fail. From this,
  `MetIsReached`: whatever is a root, or depends on something marked, is marked,
  is history or is deferred, wherever the count or the depth cut the walk.
  `StepReaches` applies that to each call.
  `OrphansAreAlwaysFlagged` needs only that edges join present nodes: a step
  that takes the last support of a piece of evidence is the one that flags it.
  `CorrectionsReachEvidence` holds where `EvidenceIsKnown`: callers name evidence
  the graph has. `upsert` does not insist on it, and evidence admitted after the
  claim that names it was superseded would be told nothing. Ingestion and turns
  keep to it (below), and so does the instance of `Graph_revision`.
* `StateIndexer_proofs`. The inductive `IndexerInv` says where a call is: what is
  left of its span are facts of it (`CallInv`), the rivals it read before it
  admitted its fact are still standing rivals when it takes them (`RivalsInv`),
  every disagreement is marked or still to be taken (`AccountInv`), and the
  retrieval index is the graph without history (`IndexInv`).
  `GraphIsImplemented` is the refinement: each step is a call `MemoryGraph`
  allows or a stutter. By it `GraphKeepsItsPromises` carries the graph's theorems
  over to the graph that ingestion builds, and `CorrectionsReachSpans` adds
  `CorrectionReachesEvidence`: `evidence_node` runs before every claim of its
  span, so `EvidenceIsKnown` holds where conclusions are committed over evidence
  the graph has (`ConcludesFromKnown`; `commit_fact` takes any ids).
  `RivalsAccounted`, `IndexAgrees` and `CorrectionsStand` are the run's
  properties.
* `Turn_proofs`. `TurnInv` adds to the properties that every kept line was
  rendered since the last discard, that drains run only before plans, that a
  window's node that is stale was escalated or is in `touched`, and that what is
  `shaken` is in `touched` or queued. The last two are where the graph comes in:
  `HookNotices` shows, call by call, that what becomes stale while the reasoner
  thinks is recorded, and that what loses its ground is recorded or queued, from
  the graph's own `MetIsReached`. From it `WindowShown`, `DiscardsStick`,
  `PromptOfThisRound`, `Unretried` and `StaleReads`. `TypeCorrect` ties
  `planning` to where the turn is, which makes every step one the graph allows;
  a turn starts from a graph with nodes in it, so the graph's initial state does
  not apply, and `GraphHoldsInTurns` uses its step lemmas instead. A hook admits
  no node, so `EvidenceIsKnown` is free here.
* `ContextStore_proofs`. `ManifestNamesCheckpoint` is not inductive: whether the
  manifest may be written depends on what was written before. `CommitInv` says
  for each value of `step` which of checkpoint, memory, manifest and mark are
  ahead of which (`InvHolds`, and from it `MarkTrails`, `ManifestSound`,
  `CommitOrdered`). `AppendOnly` is the refinement of `SealedLog`: the sealed
  roots are the checkpoints up to the manifest's generation, `WriteManifest`
  extends them by one, and every other step stutters. `ContainerInv` adds, for
  each set of faults, what they leave true: where bytes are (`BytesInv`), the
  generations on them, that what is attested to is intact while nothing decays
  (`IntactInv`), that the checkpoints are one chain while no write fails
  (`ChainInv`), and what a store at rest agrees on. `SealedForGood` and
  `LeftAtRest` follow.
* `Sessions_proofs`. `NeverSplit` needs `HandleInv`: a thread that is not past
  routing holds no handle, so that the entry a count of one allows to be evicted
  (`CountOfOne`) is one nobody is served from (`OneRuntimePerSession`).
  `RouterInv` adds the types, the order and the lock; that a fresh runtime always
  has a name (`TypeCorrect`) is a count of the names in use. `CacheStaysBounded`
  needs `ScanInv`: the scan has passed an entry only because another thread
  holds it, and the entries passed and the threads that still hold one ahead are
  together no more than the threads, whatever they drop meanwhile.
  `AcknowledgedRemembered` rests on `AckInv`, about the runtime a thread refers
  to, and `NeverSplit`, which makes it the session's.
* `SavedSession_proofs`. `SavedInv` is about three sessions: the one at work, the
  one in the file and those in the container; the last two are what the last
  save of each format was given. `IndexesStayAgreed`, `ClockStaysAhead` and,
  with lemmas about what rebuilding the indices yields, `SavedComesBack`.
  The same module proves what is said of `SignedStore`. `StoreInv`: the manifest
  never runs ahead of the process nor the process of the chain, what the ceiling
  lets in is in the newest checkpoint unless its put was cut off, what was put
  whole is held as its sidecar says (`SidecarInv`, which is what a restart
  rebuilds from), no signature is kept for the next generation, a key on disk is asked for. A failed commit leaves the process
  ahead of the manifest, and `ReopenResumes` shows why that is harmless: a
  restart needs the chain to end where the manifest does. `WholePutsWait`
  and `SignedForGood` follow.
* The Merkle tree, in `SavedSession_proofs` too. Induction over a recursive
  function is `EveryRound`: a set of rounds that has the first and the next of
  each has them all, from the least round it would lack. `ChildrenAre` says a
  digest above the leaves is that of its one child, promoted, or the pair of its
  two, and that the leaves below it are those below its children. Two digests
  of two trees, of any sizes and at any heights, are therefore equal only over
  the same leaves (`AgreeAbove`, `DigestsAgree`: by the sum of the heights,
  because one side may be promoted while the other is not), the tag of a leaf
  being no pair's. With `TreeOfMap`, `RootIsTheMap`. For proofs, `StepRises`:
  what is recorded on a level makes of a digest that of its parent, and of a
  promoted one nothing is recorded; so the replay climbs to the root, and since
  no step of it makes two digests one (`ReplayTellsApart`), from no other leaf
  (`ProofIsOfTheContent`). `SealInv`, with `StoreInv`, says that the root a
  process believes in and the manifest's are those of the checkpoints of their
  generations, which gives `SealStandsExactly`.
* `Ladder_proofs`. `LadderInv`: a cached level is right for its node's spans and
  value, no stale node holds a result, a memo entry was computed by a version
  registered for its key. `LevelsStayCurrent` rests on a node never losing a
  span, which makes the count a key for the size memo; `MemoAnswers` is about
  the answer of each call, because an entry about a node that depends on itself
  is right only when it is given. `PrefetchKeepsItsBudget` takes the least round
  of the loop over predictions in which the budget would be passed.

* `Planner_proofs`. `plan()` is loops over lists: `WalkExists` and `EveryRound`
  give each of them its rounds, and a claim about the loop is closed under going
  on to the next. What `Push`, `Visit` and `Explained` let through shows
  `HistoryNeverShown`, with `OnlyEvidence` about the graph: what a correction
  orphans is evidence and never a constraint. `MandatoryAlwaysAdmitted` follows
  a pinned node from the seeds through the candidates, which have each node
  once, into what is reserved. `BudgetAlwaysSpent` is the knapsack: the table
  holds the best value of each capacity and `Backtrack` finds the moves that
  give it; a move of more worth that had fitted would, put into the same walk,
  end above that best value (`NoBetterMove`), which `SolvePressure` turns into
  what a window leaves out. The overflow path is `MandatoryFirst`'s own walk.
* `Prompt`, in `Planner_proofs` too. The keys of a layout are ordered, so each
  item has a place of its own and the sorted list is the items. Of two layouts
  whose items agree below some key the lines agree up to there
  (`SameDownTo`, `KeptIsShared`), which is `PrefixStaysShared`; what an
  escalation appends comes after. `PromptInv` has the gate (`GateInv`: the
  documents' tokens are no more than the count of the history), what was counted
  as read (`CoveredInv`) and the last layout (`LayoutInv`). `ReadIsShown` and
  `BypassSendsAll` follow.

* The raw store and the retrieval index, in `ContextStore_proofs` too. `Runs` of
  a set of positions are shown to be its maximal intervals in order
  (`RunsAre`); sentences packed into spans keep all up to the open end
  (`PackGoesOn`), and what a block yields, moved to its place, tiles the block
  (`ChunkOfTiles`), so `ChunkTiles` has the text. `RawInv` then says of a
  document that its spans are the pieces of its text, numbered, and of a span
  where it stands in its document, in whatever order a restart hands the spans
  over; `SpansAlwaysTile`. What a span is beside is therefore told by the text
  alone (`BesideIs`), which gives `SpansAlwaysStayPut`. For the index, `Kept`
  says that postings, lengths and total are those of the texts it has lengths
  for; taking out, putting in and doing both keep it (`RemoveKept`, `PutKept`,
  `AddKept`), and so do the loops that file one text after the other
  (`FilingIs`, `FileAllNodesAre`). The invariant needs more than the property:
  no posting may be empty, and a vector is held for just the nodes that have a
  length. `RetrievalInvariant` has both halves, `IndexAlwaysDescribes` follows.

Only model-checked, and why:

* `BestIsKept`, of `Retrieval`. `NearIsFound` and `AgreementIsKept` compare
  scores that are sums of products, after two sorts and a blend by weights; they
  stay with `Retrieval_index`.
* The documented statements that TLC refutes, which are no theorems.
* All liveness (`LocksAreFreed`, `TurnEnds`), which is out of the prover's reach.

## What the models leave out

* Graph: the queue is a set (an id queued twice is invalidated twice in the
  code, which marks no more); loading a saved graph; the read-only queries.
* Indexer: the extraction of facts from text; values are equal up to case;
  mentions are a relation between facts and keys; `reference_linking` is on.
  The rivals of a fact are taken in any order.
* Turn: which admissible nodes relevance, the caps and the budget choose (any
  set may be chosen; `Planner` says which); L1; what a line says besides node,
  level and status; citations, telemetry and the retention bonus. The code asks
  whether the prompt contains a line as a substring; the model compares lines.
  The fit gate, skills and coverage are in `Prompt`.
* Container: signatures, labels and policy hashes, which are `SignedStore`'s;
  the two writes of `restore_object` are one step; bytes decay only once the
  object has its sidecar, because a sidecar rebuilt over decayed bytes names
  them.
* Router: commands that are malformed or too long; the counters.
* Planner: what a node costs at a level and what it is worth are constants of
  it; the hits of a search are constants of the query; `admit_stale`, the
  stub scorer and the prefilter by recency are off, as by default.
* Ladder: `flatten_to_l2` and the switch that turns the memo of sizes off; the
  predictor is any choice of nodes.
* Saved sessions: the texts of documents and spans (that they come back is
  `Retrieval`'s `Restart`), and the predictor's weights.
* Signed store: the schema of what is signed; a signature is the pair of key
  and message, as the keyed hash of the code's test signer is taken to be; bytes
  decay only beside a sidecar, as for the container; a quarantine whose reason
  record cannot be written, and a crash between a commit's checkpoint and its
  manifest, are `ContextStore`'s.
* Retrieval: BM25 and the cosine are compared as whole numbers; span vectors
  built eagerly; how a word is normalised. A mark stands for a run of characters
  of its class.
* Prompt: the text of a line and the renderings only the benchmarks use.

Components not modelled, with the reason, are in `PROJECT.json`.

## Divergences seen without a run of their own

Behaviours of the code met while modelling that disagree with a sentence of the
repository, or that a reader may not expect. Where a definition is named, it is
the sentence stated in the module that models the code, and TLC refutes it when
the configuration of that module's run names it.

| Code | Sentence | What happens |
|---|---|---|
| `graph.rs:457` | graph.rs:371, "A node in a live disagreement is not `fresh`" | `revalidate` makes one side of an open dispute fresh |
| `graph.rs:285` | graph.rs:8-9, every node reaches evidence "via `dependencies`" | a calculation admitted again over a decision derived from it closes a loop with no source; the edges still reach evidence (`GroundedInEvidence`), the dependency lists do not |
| `context_store.rs:717` | context_store.rs:342-343, `added` is the delta the chain commits to | an object whose commit was lost to a crash is in the next root and in no delta |
| `context_store.rs:1052` | failure-modes.md:49, "Re-commit" recovers an interrupted commit | after a failed manifest or mark write, a retried commit succeeds and leaves a store that does not open |
| `context_store.rs:674` | | the sidecar rebuilt for an orphan makes it admissible before any commit; `put` then answers that it is there, and the root does not match until a commit seals it (`PutWaitsForCommit` shows that nothing else is admitted so) |
| `sessions.rs:50` | sessions.rs:24-25, "capacity is exceeded while every slot is in flight" | it stays exceeded afterwards: `route` evicts at most one session per insertion |
| `indexer.rs:785` | nodes.rs:235, the flag means "Evidence whose every live dependent has been superseded" | evidence that comes to support a fresh fact by corroboration keeps the flag |
| `runtime.rs:487`, `runtime.rs:517` | the comment "The prompt just sent was not falsified" | the second violation of a turn is not acted on; an escalation then extends a falsified prompt |
| `policy.rs:386` | | open questions are never pinned: they are born unresolved, and `by_kind` keeps fresh nodes |
| `runtime.rs:836` | | `commit_fact` of a known id with other dependencies keeps the old edges |
| `graph.rs:446` | open-questions.md:74-75, the deferred tail is "drained before the next plan" | a plan drains one batch, whose cascades may defer again (`MemoryGraph!DrainedBeforePlanning`) |
| `graph.rs:446` | failure-modes.md:163, "The queue is persisted with the graph" | it is not (`SavedSession!QueueIsPersisted`) |
| `graph.rs:307` | graph.rs:379, "Return a node to `fresh` once nothing live contradicts it any more" | only the survivor of a revision is looked at again: another opponent of what was superseded stays disputed (`StateIndexer!DisputeNeedsOpponent`) |
| `graph.rs:307`, `runtime.rs:829` | failure-modes.md:171, no answer "rests on state that no longer holds" | only cascades are recorded: a node superseded while the reasoner thinks is not noticed (`Turn!AnswerStillHolds`), nor one that a bounded cascade has queued (the exception of `UnretriedKeepsItsGround`) |
| `execute.rs:77` | execute.rs:4-7, when an upstream fact is corrected "the key changes, the memo misses" | a correction changes the status of a dependency and not its fingerprint, so re-validation answers from the memo (`Ladder!CorrectionIsRecomputed`) |
| `context_store.rs:1170` | scrub.rs:60, lost is "Corrupt, and no replica exists" | once one object is quarantined the current objects no longer prove anything against the sealed root, and sound replicas are refused (`ContextStore!LostOnlyWithoutReplica`) |
| `sessions.rs:135` | sessions.rs:130-132, a connection "must eventually cost nothing" | reads have a deadline and writes none: a client that does not read keeps its thread (`Sessions!SilenceCostsNothing`) |
| `runtime.rs:1296` | runtime.rs:1142-1143, "Same state as `Dcr::save`" | what was history when it was sealed is live after a container opens (`SavedSession!HistoryStaysHistory`) |
| `runtime.rs:1322` | "Later generations win" | a record's generation is compared with itself, so the last one read wins (`SavedSession!NewestUsageWins`) |
| `runtime.rs:1137` | | `save` truncates the only copy before it writes it |
| `nodes.rs`, `runtime.rs` | context-integrity.md:336-339, reads must not "mint a new copy of every admitted node" | a read that fills a node's summary changes the object saved for it (`SavedSession!ReadsMintNothing`) |
| `fit.rs:28` | "Every ingested token fits" | the count starts at zero when a container opens, whatever it holds (`SavedSession!BypassMeansItFits`) |
| `budget.rs:26` | "the solution can never exceed `B_attention`" | where what is mandatory takes exactly all of it, `solve` still has a bucket of one to give (`Planner!NeverExceeds`) |
| `planner.rs:727` | planner.rs:1073-1074, constraints "are admitted every turn" | they are appended after the expanded nodes and cut with them at `max_candidates` (`Planner!AlwaysAdmitted`) |
| `planner.rs:500` | "activated" is "accurate by construction" | an escalation may evict a skill from the plan whose line stays in the prompt; it is not loaded (`Prompt!ActivatedIsLoaded`) |
| `planner.rs:439` | planner.rs:414-418, "never by the per-turn utility score" | `render` sorts by utility |
| `runtime.rs:721` | "at any ladder level" | only L0 counts as read |
| `runtime.rs:1381`, `runtime.rs:1498` | | reindexing after a restart files superseded nodes again (`Retrieval!SupersededIsOut`) |
| `spans.rs` | | a span may be longer than the maximum, and a span of white space alone is counted and, after a restart, indexed |
| `index.rs:295` | "rather than return a short list" | the candidates counted include ids filed for older vectors, which are then dropped |
| `context_store.rs:891` | trust.rs:389, "a store that was signed must not silently accept unsigned objects" | it accepts none at all: `admit` passes no signature on (`SignedStore!SignedIsReadable`) |
| `context_store.rs:1013` | failure-modes.md:193, a change of policy "is visible in the next checkpoint" | the first signed checkpoint carries the policy hash from before a signature was required |
| `merkle.rs:72` | merkle.rs:66-68, duplicates "are collapsed to the last one seen" | `dedup_by` keeps the first |
| `speculation.rs:218` | speculation.rs:108, builds "allowed per turn" | it is per plan: an escalation spends it again; and `wasted_builds` counts predictions |

## Plan

Built, in this order: the graph, the container with its log, the router, the
indexer over the graph, the turn over the graph; then the planner with the
budget, the ladder with memo and speculation, saved sessions, signatures with
the Merkle tree, the raw store with the retrieval index, and the prompt. All
of them have their proofs.
What is left:

1. `Planner` under `Turn`: that every window `Planner` returns is one `Turn`
   allows, as a refinement of the two over the same graph; then that what
   `Turn` proves of any window holds of the planner's.
2. Of `NearIsFound`, that a near node is among the candidates that are scored:
   it is about buckets alone, and needs that the bucket of the vector a node has
   now is never taken from under it.
3. `GroundedInEvidence` and `OrphansAreFlagged` of sessions that were saved and
   restored, from `SavedComesBack`.
4. The rules by which facts are extracted from a text, over the marks of
   `RawStore`; the predictor's weights, when a property tells them apart.
