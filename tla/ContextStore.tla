---------------------------- MODULE ContextStore ----------------------------
(***************************************************************************)
(* The .context container (context_store.rs) and its scrubber (scrub.rs):  *)
(* content-addressed objects, a chain of checkpoints, a manifest and an    *)
(* anti-rollback mark, each a file of its own written by rename.  A call   *)
(* is a sequence of such writes; the process may die between any two.      *)
(*                                                                         *)
(* An object is its address, so its content is intact or it is not.  A     *)
(* Merkle root stands for the set of addresses it commits to, and a chain  *)
(* digest for the history it commits to.  The store starts as create()     *)
(* leaves it.                                                              *)
(***************************************************************************)
EXTENDS Naturals, Sequences

CONSTANTS
    Object,          \* addresses
    MaxGeneration,   \* bound on the generations explored
    Scenarios,       \* sets of faults: a behaviour meets those of one of them
    NoGen            \* no sidecar, or not in the map

\* crash: the process dies.  io: a write fails and the call returns its error.
\* role: a caller commits with a key of another role.  rot: bytes decay.
FaultKinds == {"crash", "io", "role", "rot"}

ASSUME StoreAssumption ==
    /\ MaxGeneration \in Nat \ {0}
    /\ Scenarios \subseteq SUBSET FaultKinds
    /\ NoGen \notin Nat

VARIABLES
    \* on disk
    file,            \* objects/: "none", "good" or "bad" bytes at an address
    side,            \* the generation in the object's sidecar, or NoGen
    copies,          \* addresses of which a replica holds good bytes
    jail,            \* quarantine/
    chk,             \* checkpoints/000001, 000002, ...
    manifest,        \* generation and root
    hwm,             \* generation.hwm
    \* in the ContextStore value, while a process has one
    up,
    replicated,      \* replicas # []
    objs,            \* objects: the generation of each address, or NoGen
    log,             \* checkpoints
    pending,
    mgen, mroot,     \* manifest, as this process believes it
    ceiling,         \* policy.generation_ceiling
    \* the call in progress
    step, target, todo, draft, lossy,
    \* the environment
    faults           \* what may go wrong in this behaviour

disk   == <<file, side, copies, jail, chk, manifest, hwm>>
belief == <<objs, log, pending, mgen, mroot, ceiling>>
call   == <<step, target, todo, draft, lossy>>
vars   == <<disk, up, replicated, belief, call, faults>>

Entry == [gen : Nat, root : SUBSET Object, added : SUBSET Object]
Checkpoint == [entry : Entry, past : Seq(Entry)]

Steps == {"idle", "copy", "sidecar", "sign", "manifest", "mark", "scrub",
          "unlink", "record", "seal"}

-----------------------------------------------------------------------------
\* chain_n = H(chain_{n-1} || delta_n): the entries up to and including c's.
Chain(c) == Append(c.past, c.entry)

\* verify_chain over the checkpoint files, in generation order.
ChainFrom(c, files, i) ==
    /\ c.entry.gen = i
    /\ c.past = IF i = 1 THEN <<>> ELSE Chain(files[i - 1])
ChainIntact(files) == \A i \in DOMAIN files : ChainFrom(files[i], files, i)

\* What ContextStore::open requires of the disk.
Openable ==
    /\ manifest.gen >= hwm
    /\ ChainIntact(chk)
    /\ chk # <<>> => Len(chk) = manifest.gen

Held == {o \in Object : objs[o] # NoGen}

\* proves(): the inclusion proof is built over the objects held now and checked
\* against the root of the last commit.
Proves(o) == o \in Held /\ Held = mroot

\* commit() attests to something new.
Unsealed == pending # {} \/ Held # mroot \/ log = <<>>

\* Admission by generation, for bytes that are intact (trust.rs).
Admissible(o) == file[o] = "good" /\ objs[o] # NoGen /\ objs[o] <= ceiling

NoCheckpoint == [entry |-> [gen |-> 0, root |-> {}, added |-> {}], past |-> <<>>]

NoCall == /\ step' = "idle" /\ target' = {} /\ todo' = {} /\ lossy' = FALSE
          /\ draft' = NoCheckpoint

-----------------------------------------------------------------------------
Init ==
    /\ file = [o \in Object |-> "none"] /\ side = [o \in Object |-> NoGen]
    /\ copies = {} /\ jail = {} /\ chk = <<>> /\ hwm = 0
    /\ manifest = [gen |-> 0, root |-> {}]
    /\ up = TRUE /\ replicated \in BOOLEAN
    /\ objs = [o \in Object |-> NoGen] /\ log = <<>> /\ pending = {}
    /\ mgen = 0 /\ mroot = {}
    /\ ceiling = MaxGeneration + 1          \* u64::MAX until reopened or sealed
    /\ step = "idle" /\ target = {} /\ todo = {} /\ lossy = FALSE
    /\ draft = NoCheckpoint
    /\ faults \in Scenarios

\* A sidecar that is missing is rebuilt, in memory, at the manifest's generation.
RebuiltAsPending == manifest.gen + 1
Rebuilt == manifest.gen

\* open(): believe the disk.
Open ==
    /\ ~up /\ Openable
    /\ up' = TRUE /\ replicated' \in BOOLEAN
    /\ objs' = [o \in Object |-> IF file[o] = "none" THEN NoGen
                                 ELSE IF side[o] = NoGen THEN Rebuilt
                                 ELSE side[o]]
    /\ log' = chk /\ pending' = {}
    /\ mgen' = manifest.gen /\ mroot' = manifest.root /\ ceiling' = manifest.gen
    /\ NoCall /\ UNCHANGED disk

Forget ==
    /\ up' = FALSE /\ replicated' = FALSE
    /\ objs' = [o \in Object |-> NoGen] /\ log' = <<>> /\ pending' = {}
    /\ mgen' = 0 /\ mroot' = {} /\ ceiling' = 0
    /\ NoCall /\ UNCHANGED disk

\* Callers drop a store only after they committed what they put.
Close == up /\ step = "idle" /\ pending = {} /\ Forget

Crash == up /\ "crash" \in faults /\ Forget

\* put(): the bytes, a copy per replica, the sidecar; then the object is held
\* and pending.  Putting what is held writes nothing.
BeginPut(o) ==
    /\ up /\ step = "idle" /\ objs[o] = NoGen /\ mgen < MaxGeneration
    /\ file' = [file EXCEPT ![o] = "good"]
    /\ target' = {o}
    /\ step' = IF replicated THEN "copy" ELSE "sidecar"
    /\ UNCHANGED <<side, copies, jail, chk, manifest, hwm, up, replicated,
                   belief, todo, draft, lossy>>

PutCopy ==
    /\ step = "copy"
    /\ copies' = copies \cup target
    /\ step' = "sidecar"
    /\ UNCHANGED <<file, side, jail, chk, manifest, hwm, up, replicated, belief,
                   target, todo, draft, lossy>>

Tagged(f, O, g) == [o \in Object |-> IF o \in O THEN g ELSE f[o]]

PutSidecar ==
    /\ step = "sidecar"
    /\ side' = Tagged(side, target, mgen + 1)
    /\ objs' = Tagged(objs, target, mgen + 1)
    /\ pending' = pending \cup target
    /\ step' = "idle" /\ target' = {}
    /\ UNCHANGED <<file, copies, jail, chk, manifest, hwm, up, replicated, log,
                   mgen, mroot, ceiling, todo, draft, lossy>>

-----------------------------------------------------------------------------
\* commit(), first write: the checkpoint, over the objects held, chained to the
\* last checkpoint this process knows.
NextCheckpointByLog ==
    [entry |-> [gen |-> Len(log) + 1, root |-> Held, added |-> pending],
     past  |-> IF log = <<>> THEN <<>> ELSE Chain(log[Len(log)])]
NextCheckpoint ==
    [entry |-> [gen |-> mgen + 1, root |-> Held, added |-> pending],
     past  |-> IF log = <<>> THEN <<>> ELSE Chain(log[Len(log)])]

WriteCheckpoint(c) ==
    [i \in 1 .. (IF Len(chk) < c.entry.gen THEN c.entry.gen ELSE Len(chk)) |->
        IF i = c.entry.gen THEN c ELSE chk[i]]

BeginCommit ==
    /\ up /\ step \in {"idle", "seal"} /\ Unsealed /\ mgen < MaxGeneration
    /\ draft' = NextCheckpoint
    /\ chk' = WriteCheckpoint(NextCheckpoint)
    /\ step' = "sign"
    /\ UNCHANGED <<file, side, copies, jail, manifest, hwm, up, replicated,
                   belief, target, todo, lossy>>

\* A seal with nothing to attest to returns the checkpoint it has.
SealNothing ==
    /\ step = "seal" /\ ~Unsealed
    /\ NoCall
    /\ UNCHANGED <<disk, up, replicated, belief>>

\* The detached signature, if any, is written; the process then believes the
\* new generation, before the manifest says so.
Sign ==
    /\ step = "sign"
    /\ mgen' = draft.entry.gen /\ mroot' = draft.entry.root
    /\ ceiling' = draft.entry.gen
    /\ step' = "manifest"
    /\ UNCHANGED <<disk, up, replicated, objs, log, pending, target, todo, draft,
                   lossy>>

\* A key that may not sign checkpoints is refused after the checkpoint exists.
RefuseSigner ==
    /\ step = "sign" /\ "role" \in faults
    /\ NoCall
    /\ UNCHANGED <<disk, up, replicated, belief>>

WriteMarkFirst ==
    /\ step = "manifest"
    /\ hwm' = mgen
    /\ step' = "mark"
    /\ UNCHANGED <<file, side, copies, jail, chk, manifest, up, replicated, belief,
                   target, todo, draft, lossy>>
WriteManifest ==
    /\ step = "manifest"
    /\ manifest' = [gen |-> mgen, root |-> mroot]
    /\ step' = "mark"
    /\ UNCHANGED <<file, side, copies, jail, chk, hwm, up, replicated, belief,
                   target, todo, draft, lossy>>

RaiseMark ==
    /\ step = "mark"
    /\ hwm' = mgen
    /\ log' = Append(log, draft) /\ pending' = {}
    /\ NoCall
    /\ UNCHANGED <<file, side, copies, jail, chk, manifest, up, replicated, objs,
                   mgen, mroot, ceiling>>

\* A write of the call in progress fails: what was written stays.
Fail ==
    /\ step # "idle" /\ "io" \in faults
    /\ NoCall
    /\ UNCHANGED <<disk, up, replicated, belief>>

-----------------------------------------------------------------------------
\* scrub() with the options of `dcr scrub --repair`: every object held at the
\* start is read; what does not hash to its address is repaired from a copy
\* that proves itself, or moved to quarantine; a loss is sealed.
BeginScrub ==
    /\ up /\ step = "idle"
    /\ todo' = Held /\ lossy' = FALSE /\ step' = "scrub"
    /\ UNCHANGED <<disk, up, replicated, belief, target, draft>>

Repairable(o) == replicated /\ o \in copies /\ Proves(o)

ScrubHealthy(o) ==
    /\ step = "scrub" /\ o \in todo /\ file[o] = "good"
    /\ todo' = todo \ {o}
    /\ UNCHANGED <<disk, up, replicated, belief, step, target, draft, lossy>>

\* restore_object(): the copy's bytes, and a sidecar of the same generation.
ScrubRepair(o) ==
    /\ step = "scrub" /\ o \in todo /\ file[o] # "good" /\ Repairable(o)
    /\ file' = [file EXCEPT ![o] = "good"]
    /\ side' = [side EXCEPT ![o] = objs[o]]
    /\ todo' = todo \ {o}
    /\ UNCHANGED <<copies, jail, chk, manifest, hwm, up, replicated, belief, step,
                   target, draft, lossy>>

\* quarantine(): the bytes move, the sidecar goes, and once the reason is on
\* record memory follows.
ScrubJail(o) ==
    /\ step = "scrub" /\ o \in todo /\ file[o] # "good" /\ ~Repairable(o)
    /\ file' = [file EXCEPT ![o] = "none"]
    /\ jail' = jail \cup {o}
    /\ target' = {o} /\ step' = "unlink"
    /\ UNCHANGED <<side, copies, chk, manifest, hwm, up, replicated, belief, todo,
                   draft, lossy>>

ScrubUnlink ==
    /\ step = "unlink"
    /\ side' = Tagged(side, target, NoGen)
    /\ step' = "record"
    /\ UNCHANGED <<file, copies, jail, chk, manifest, hwm, up, replicated, belief,
                   target, todo, draft, lossy>>

ScrubRecord ==
    /\ step = "record"
    /\ objs' = Tagged(objs, target, NoGen)
    /\ pending' = pending \ target
    /\ todo' = todo \ target /\ target' = {}
    /\ lossy' = TRUE /\ step' = "scrub"
    /\ UNCHANGED <<file, side, copies, jail, chk, manifest, hwm, up, replicated,
                   log, mgen, mroot, ceiling, draft>>

EndScrubUnsealed ==
    /\ step = "scrub" /\ todo = {}
    /\ step' = "idle"
    /\ lossy' = FALSE
    /\ UNCHANGED <<disk, up, replicated, belief, target, todo, draft>>
EndScrub ==
    /\ step = "scrub" /\ todo = {}
    /\ step' = IF lossy THEN "seal" ELSE "idle"
    /\ lossy' = FALSE
    /\ UNCHANGED <<disk, up, replicated, belief, target, todo, draft>>

\* Bytes at rest decay.  An object whose sidecar was never written is left
\* out: the sidecar rebuilt for it would name the decayed bytes.
Rot(o) ==
    /\ "rot" \in faults /\ file[o] = "good" /\ side[o] # NoGen
    /\ file' = [file EXCEPT ![o] = "bad"]
    /\ UNCHANGED <<side, copies, jail, chk, manifest, hwm, up, replicated, belief,
                   call>>

Next ==
    /\ \/ Open \/ Close \/ Crash
       \/ \E o \in Object : BeginPut(o)
       \/ PutCopy \/ PutSidecar
       \/ BeginCommit \/ SealNothing \/ Sign \/ RefuseSigner \/ WriteManifest
       \/ RaiseMark \/ Fail
       \/ BeginScrub
       \/ \E o \in Object : ScrubHealthy(o) \/ ScrubRepair(o) \/ ScrubJail(o)
       \/ ScrubUnlink \/ ScrubRecord \/ EndScrub
       \/ \E o \in Object : Rot(o)
    /\ UNCHANGED faults

Spec == Init /\ [][Next]_vars
-----------------------------------------------------------------------------
TypeOK ==
    /\ file \in [Object -> {"none", "good", "bad"}]
    /\ side \in [Object -> Nat \cup {NoGen}]
    /\ copies \subseteq Object /\ jail \subseteq Object
    /\ chk \in Seq(Checkpoint)
    /\ manifest \in [gen : Nat, root : SUBSET Object]
    /\ hwm \in Nat
    /\ up \in BOOLEAN /\ replicated \in BOOLEAN
    /\ objs \in [Object -> Nat \cup {NoGen}]
    /\ log \in Seq(Checkpoint)
    /\ pending \subseteq Object
    /\ mgen \in Nat /\ mroot \subseteq Object /\ ceiling \in Nat
    /\ step \in Steps /\ target \subseteq Object /\ todo \subseteq Object
    /\ draft \in Checkpoint /\ lossy \in BOOLEAN

\* The mark rises last: whatever dies or fails, the store never refuses its own
\* newest generation as a rollback.
HwmTrailsManifest == hwm <= manifest.gen

\* failure-modes.md: "The manifest never points at a checkpoint that does not
\* exist", nor at one that attests to something else.
ManifestNamesCheckpoint ==
    manifest.gen > 0 =>
        /\ manifest.gen \in DOMAIN chk
        /\ chk[manifest.gen].entry.gen = manifest.gen
        /\ chk[manifest.gen].entry.root = manifest.root

\* The order of commit()'s writes: checkpoint, manifest, mark.
CommitOrder == HwmTrailsManifest /\ ManifestNamesCheckpoint

\* While no write fails, a store that no longer opens is one whose newest
\* checkpoint is exactly one ahead of its manifest; everything up to it verifies.
RefusedOnlyAhead ==
    "io" \notin faults /\ ~up /\ ~Openable =>
        /\ ChainIntact(chk)
        /\ Len(chk) = manifest.gen + 1
        /\ manifest.gen >= hwm

\* When a process has nothing left to commit, what it leaves behind opens,
\* through crashes and refused signers.
RestingStoreReopens ==
    faults \subseteq {"crash", "role"} =>
        (up /\ step = "idle" /\ ~Unsealed => Openable)

\* What is sealed may be believed: the generation recorded for an object the
\* manifest attests to never exceeds the ceiling, through any crash that loses
\* its sidecar or the commit that would have sealed it.
SealedIsAdmissible ==
    up /\ "rot" \notin faults => \A o \in manifest.root :
             file[o] = "good" /\ objs[o] # NoGen => Admissible(o)

\* An object some generation sealed is on disk or in quarantine.
SealedBytesKept ==
    \A i \in DOMAIN chk : \A o \in chk[i].entry.root : file[o] # "none" \/ o \in jail

\* What a generation sealed stays: its bytes, and the right to be believed.
SealedStays == SealedIsAdmissible /\ SealedBytesKept

\* Once a call returns and nothing is pending, the root the manifest claims is
\* the one the objects rebuild, also after a scrub moved some of them away.
RestingStoreIsSealed ==
    faults \subseteq {"rot"} /\ up /\ step = "idle" /\ pending = {} => Held = manifest.root

\* What a process leaves behind: a store that opens, or that is refused for the
\* one reason known, and whose objects rebuild the root it claims.
StoreAtRest == RefusedOnlyAhead /\ RestingStoreReopens /\ RestingStoreIsSealed

\* The history up to the manifest's generation is append-only, whatever crashes
\* and whatever fails.
History == INSTANCE SealedLog WITH
    Root <- SUBSET Object,
    sealed <- [i \in 1 .. manifest.gen |-> chk[i].entry.root]

HistoryIsAppendOnly == History!Spec

-----------------------------------------------------------------------------
(* Statements of the documentation that the code does not keep.            *)

\* context_store.rs:1049-1051: "A crash between any two of these leaves a store
\* that opens, at the older generation."
CrashLeavesOpenable == ~up => Openable

\* scrub.rs:60: an object is lost when it is "Corrupt, and no replica exists to
\* repair it from".  Once one object is quarantined, nothing proves any more.
LostOnlyWithoutReplica ==
    [][\A o \in (jail' \ jail) \cap mroot :
          pending = {} => ~(replicated /\ o \in copies)]_vars
=============================================================================
