------------------------- MODULE ContextStore_proofs -------------------------
(***************************************************************************)
(* The container, for every set of objects, any number of generations and  *)
(* every combination of crashes, failed writes, refused signers and rot:   *)
(* the mark trails the manifest, the manifest names a checkpoint that      *)
(* exists, the sealed history is append-only, what was sealed is kept and  *)
(* believed, and a store left behind opens or is refused for one reason.   *)
(* Then the store of text and its index: spans tile the text and stay put, *)
(* and the index is that of the texts as they read now.                    *)
(***************************************************************************)
EXTENDS
    ContextStore, Retrieval, FiniteSetTheorems, FunctionTheorems, SequenceTheorems,
    WellFoundedInduction, TLAPS

LEMMA CheckpointWritten ==
    ASSUME TypeOK, NEW c \in Checkpoint, c.entry.gen \in 1 .. Len(chk) + 1
    PROVE  /\ WriteCheckpoint(c) \in Seq(Checkpoint)
           /\ Len(chk) <= Len(WriteCheckpoint(c))
           /\ c.entry.gen \in 1 .. Len(WriteCheckpoint(c))
           /\ WriteCheckpoint(c)[c.entry.gen] = c
           /\ \A i \in 1 .. Len(chk) :
                 i # c.entry.gen => WriteCheckpoint(c)[i] = chk[i]
<1> DEFINE g == c.entry.gen
           n == IF Len(chk) < g THEN g ELSE Len(chk)
<1>1. chk \in Seq(Checkpoint) /\ Len(chk) \in Nat
      /\ \A i \in 1 .. Len(chk) : chk[i] \in Checkpoint
  BY DEF TypeOK
<1>2. n \in Nat /\ g \in 1 .. n /\ Len(chk) <= n /\ n <= Len(chk) + 1
      /\ (n > Len(chk) => n = g)
  BY <1>1
<1>3. WriteCheckpoint(c) = [i \in 1 .. n |-> IF i = g THEN c ELSE chk[i]]
  BY DEF WriteCheckpoint
<1> HIDE DEF n, g
<1>4. \A i \in 1 .. n : i = g \/ i \in 1 .. Len(chk)
  BY <1>1, <1>2
<1>5. \A i \in 1 .. n : (IF i = g THEN c ELSE chk[i]) \in Checkpoint
  BY <1>1, <1>4
<1>6. WriteCheckpoint(c) \in Seq(Checkpoint) /\ Len(WriteCheckpoint(c)) = n
  BY <1>2, <1>3, <1>5
<1> QED BY <1>1, <1>2, <1>3, <1>6 DEF g

LEMMA NextCheckpointTyped ==
    ASSUME TypeOK
    PROVE  NextCheckpoint \in Checkpoint /\ NextCheckpoint.entry.gen = mgen + 1
<1>1. [gen |-> mgen + 1, root |-> Held, added |-> pending] \in Entry
  BY DEF TypeOK, Entry, Held
<1>2. ASSUME log # <<>> PROVE Chain(log[Len(log)]) \in Seq(Entry)
  <2>1. log[Len(log)] \in Checkpoint
    BY <1>2 DEF TypeOK
  <2> QED BY <2>1 DEF Chain, Checkpoint
<1>3. <<>> \in Seq(Entry)
  OBVIOUS
<1> QED BY <1>1, <1>2, <1>3 DEF NextCheckpoint, Checkpoint

LEMMA NoCallTyped ==
    ASSUME NoCall
    PROVE  /\ step' \in Steps /\ target' \subseteq Object /\ todo' \subseteq Object
           /\ draft' \in Checkpoint /\ lossy' \in BOOLEAN
<1>1. NoCheckpoint \in Checkpoint
  BY DEF NoCheckpoint, Checkpoint, Entry
<1> QED BY <1>1 DEF NoCall, Steps
-----------------------------------------------------------------------------
\* What a commit has done by each of its steps.  A crash or a failed write may
\* leave it at any of them, so the process can be ahead of the manifest, and
\* the checkpoints ahead of the process.
CommitInv ==
    /\ hwm <= manifest.gen
    /\ manifest.gen <= Len(chk)
    /\ ManifestNamesCheckpoint
    /\ up => manifest.gen <= mgen /\ mgen <= Len(chk)
    /\ step # "idle" => up
    /\ step = "sign" => /\ draft.entry.gen = mgen + 1
                        /\ mgen + 1 \in 1 .. Len(chk)
                        /\ chk[mgen + 1] = draft
    /\ step = "manifest" => /\ mgen \in 1 .. Len(chk)
                            /\ chk[mgen].entry.gen = mgen
                            /\ chk[mgen].entry.root = mroot
    /\ step = "mark" => mgen = manifest.gen

\* A step that touches neither the history nor what the process believes of it.
LEMMA Bystander ==
    ASSUME CommitInv, step' \notin {"sign", "manifest", "mark"},
           UNCHANGED <<chk, manifest, hwm, up, mgen, mroot>>, up \/ step' = "idle"
    PROVE  CommitInv'
  BY DEF CommitInv, ManifestNamesCheckpoint

LEMMA BeginCommitStep ==
    ASSUME TypeOK, CommitInv, BeginCommit
    PROVE  TypeOK' /\ CommitInv'
<1> DEFINE c == NextCheckpoint
<1>1. c \in Checkpoint /\ c.entry.gen = mgen + 1
  BY NextCheckpointTyped
<1>2. mgen \in Nat /\ Len(chk) \in Nat /\ mgen <= Len(chk) /\ up
      /\ manifest.gen \in Nat /\ manifest.gen <= mgen
  BY DEF TypeOK, CommitInv, BeginCommit
<1>3. c.entry.gen \in 1 .. Len(chk) + 1
  BY <1>1, <1>2
<1>4. chk' = WriteCheckpoint(c) /\ draft' = c
  BY DEF BeginCommit
<1> HIDE DEF c
<1>5. /\ chk' \in Seq(Checkpoint)
      /\ Len(chk) <= Len(chk')
      /\ c.entry.gen \in 1 .. Len(chk')
      /\ chk'[c.entry.gen] = c
      /\ \A i \in 1 .. Len(chk) : i # c.entry.gen => chk'[i] = chk[i]
  BY <1>1, <1>3, <1>4, CheckpointWritten
<1>6. TypeOK'
  BY <1>1, <1>4, <1>5 DEF TypeOK, BeginCommit, belief, Steps
<1>7. ManifestNamesCheckpoint'
  <2> SUFFICES ASSUME manifest.gen > 0
               PROVE  /\ manifest.gen \in DOMAIN chk'
                      /\ chk'[manifest.gen] = chk[manifest.gen]
    BY DEF ManifestNamesCheckpoint, CommitInv, BeginCommit
  <2>1. manifest.gen \in 1 .. Len(chk) /\ manifest.gen # c.entry.gen
    BY <1>1, <1>2 DEF CommitInv
  <2>2. Len(chk') \in Nat /\ DOMAIN chk' = 1 .. Len(chk')
    BY <1>5
  <2> QED BY <1>2, <1>5, <2>1, <2>2
<1>8. Len(chk') \in Nat
  BY <1>5
<1> QED BY <1>1, <1>2, <1>4, <1>5, <1>6, <1>7, <1>8 DEF CommitInv, BeginCommit, belief

LEMMA InvStep == TypeOK /\ CommitInv /\ [Next]_vars => TypeOK' /\ CommitInv'
<1> SUFFICES ASSUME TypeOK, CommitInv, [Next]_vars PROVE TypeOK' /\ CommitInv'
  OBVIOUS
<1> USE StoreAssumption
<1>1. CASE Open
  <2>1. objs' \in [Object -> Nat \cup {NoGen}]
    BY <1>1 DEF Open, Rebuilt, TypeOK
  <2>2. TypeOK'
    BY <1>1, <2>1, NoCallTyped DEF Open, disk, TypeOK
  <2> QED BY <1>1, <2>2 DEF Open, NoCall, disk, TypeOK, CommitInv,
                           ManifestNamesCheckpoint
<1>2. CASE Close \/ Crash
  <2>1. Forget
    BY <1>2 DEF Close, Crash
  <2>2. <<>> \in Seq(Checkpoint)
    OBVIOUS
  <2>3. TypeOK'
    BY <2>1, <2>2, NoCallTyped DEF Forget, disk, TypeOK
  <2> QED BY <2>1, <2>3 DEF Forget, NoCall, disk, CommitInv, ManifestNamesCheckpoint
<1>3. ASSUME NEW o \in Object, BeginPut(o) PROVE TypeOK' /\ CommitInv'
  BY <1>3, Bystander DEF BeginPut, belief, Steps, TypeOK
<1>4. CASE PutCopy
  <2>1. up
    BY <1>4 DEF PutCopy, CommitInv
  <2> QED BY <1>4, <2>1, Bystander DEF PutCopy, belief, Steps, TypeOK
<1>5. CASE PutSidecar
  <2>1. up
    BY <1>5 DEF PutSidecar, CommitInv
  <2> QED BY <1>5, <2>1, Bystander DEF PutSidecar, Tagged, Steps, TypeOK
<1>6. CASE BeginCommit
  BY <1>6, BeginCommitStep
<1>7. CASE SealNothing \/ RefuseSigner \/ Fail
  <2>1. NoCall /\ UNCHANGED <<disk, up, replicated, belief>>
    BY <1>7 DEF SealNothing, RefuseSigner, Fail
  <2> QED BY <2>1, NoCallTyped, Bystander DEF NoCall, disk, belief, TypeOK
<1>8. CASE Sign
  <2>1. draft.entry.gen \in Nat /\ draft.entry.root \subseteq Object
    BY DEF TypeOK, Checkpoint, Entry
  <2>2. TypeOK'
    BY <1>8, <2>1 DEF Sign, disk, Steps, TypeOK
  <2> QED BY <1>8, <2>1, <2>2 DEF Sign, disk, TypeOK, CommitInv, ManifestNamesCheckpoint
<1>9. CASE WriteManifest
  <2>1. TypeOK'
    BY <1>9 DEF WriteManifest, belief, Steps, TypeOK
  <2> QED BY <1>9, <2>1 DEF WriteManifest, belief, TypeOK, CommitInv,
                           ManifestNamesCheckpoint
<1>10. CASE RaiseMark
  <2>1. log' \in Seq(Checkpoint)
    BY <1>10 DEF RaiseMark, TypeOK
  <2>2. TypeOK'
    BY <1>10, <2>1, NoCallTyped DEF RaiseMark, TypeOK
  <2> QED BY <1>10, <2>2 DEF RaiseMark, NoCall, TypeOK, CommitInv,
                            ManifestNamesCheckpoint
<1>11. CASE BeginScrub
  BY <1>11, Bystander DEF BeginScrub, disk, belief, Steps, Held, TypeOK
<1>12. ASSUME NEW o \in Object, ScrubHealthy(o) \/ ScrubRepair(o) \/ ScrubJail(o)
       PROVE  TypeOK' /\ CommitInv'
  <2>1. up
    BY <1>12 DEF ScrubHealthy, ScrubRepair, ScrubJail, CommitInv
  <2>2. TypeOK'
    BY <1>12 DEF ScrubHealthy, ScrubRepair, ScrubJail, disk, belief, Steps, TypeOK
  <2> QED BY <1>12, <2>1, <2>2, Bystander
          DEF ScrubHealthy, ScrubRepair, ScrubJail, disk, belief
<1>13. CASE ScrubUnlink \/ ScrubRecord
  <2>1. up
    BY <1>13 DEF ScrubUnlink, ScrubRecord, CommitInv
  <2>2. TypeOK'
    BY <1>13 DEF ScrubUnlink, ScrubRecord, belief, Tagged, Steps, TypeOK
  <2> QED BY <1>13, <2>1, <2>2, Bystander DEF ScrubUnlink, ScrubRecord, belief
<1>14. CASE EndScrub
  <2>1. up
    BY <1>14 DEF EndScrub, CommitInv
  <2> QED BY <1>14, <2>1, Bystander DEF EndScrub, disk, belief, Steps, TypeOK
<1>15. ASSUME NEW o \in Object, Rot(o) PROVE TypeOK' /\ CommitInv'
  BY <1>15 DEF Rot, belief, call, TypeOK, CommitInv, ManifestNamesCheckpoint
<1>16. CASE UNCHANGED vars
  BY <1>16 DEF vars, disk, belief, call, TypeOK, CommitInv, ManifestNamesCheckpoint
<1> QED BY <1>1, <1>2, <1>3, <1>4, <1>5, <1>6, <1>7, <1>8, <1>9, <1>10, <1>11,
           <1>12, <1>13, <1>14, <1>15, <1>16 DEF Next

LEMMA InvInit == Init => TypeOK /\ CommitInv
<1> SUFFICES ASSUME Init PROVE TypeOK /\ CommitInv
  OBVIOUS
<1>1. NoCheckpoint \in Checkpoint
  BY DEF NoCheckpoint, Checkpoint, Entry
<1>2. chk \in Seq(Checkpoint) /\ log \in Seq(Checkpoint) /\ Len(chk) = 0
  BY DEF Init
<1>3. TypeOK
  <2>1. ceiling \in Nat /\ mgen \in Nat /\ hwm \in Nat
        /\ manifest \in [gen : Nat, root : SUBSET Object] /\ step \in Steps
    BY StoreAssumption DEF Init, Steps
  <2>2. replicated \in BOOLEAN /\ up \in BOOLEAN /\ lossy \in BOOLEAN
    BY DEF Init
  <2> QED BY <1>1, <1>2, <2>1, <2>2 DEF Init, TypeOK
<1>4. CommitInv
  BY <1>2 DEF Init, CommitInv, ManifestNamesCheckpoint
<1> QED BY <1>3, <1>4

\* At every step of a commit, dead or alive, it is known which of checkpoint,
\* memory, manifest and mark are ahead of which.
THEOREM InvHolds == Spec => [](TypeOK /\ CommitInv)
  BY InvInit, InvStep, PTL DEF Spec

\* A crash or a failed write never makes the store refuse its own newest
\* generation as a rollback: the mark rises last.
THEOREM MarkTrails == Spec => []HwmTrailsManifest
<1>1. TypeOK /\ CommitInv => HwmTrailsManifest
  BY DEF CommitInv, HwmTrailsManifest
<1> QED BY <1>1, InvHolds, PTL

\* The manifest never points at a checkpoint that does not exist, nor at one
\* that attests to other objects.
THEOREM ManifestSound == Spec => []ManifestNamesCheckpoint
<1>1. TypeOK /\ CommitInv => ManifestNamesCheckpoint
  BY DEF CommitInv
<1> QED BY <1>1, InvHolds, PTL

\* commit()'s order of writes holds through every crash and failure.
THEOREM CommitOrdered == Spec => []CommitOrder
<1>1. HwmTrailsManifest /\ ManifestNamesCheckpoint => CommitOrder
  BY DEF CommitOrder
<1> QED BY <1>1, MarkTrails, ManifestSound, PTL

-----------------------------------------------------------------------------
\* Only two steps touch the history: the one that writes a checkpoint past the
\* manifest, and the one that makes the manifest reach it.
LEMMA HistoryTouched ==
    ASSUME [Next]_vars
    PROVE  UNCHANGED <<chk, manifest>> \/ BeginCommit \/ WriteManifest
<1>1. ASSUME NEW o \in Object,
             BeginPut(o) \/ ScrubHealthy(o) \/ ScrubRepair(o) \/ ScrubJail(o) \/ Rot(o)
      PROVE  UNCHANGED <<chk, manifest>>
  BY <1>1 DEF BeginPut, ScrubHealthy, ScrubRepair, ScrubJail, Rot, disk
<1>2. ASSUME Open \/ Close \/ Crash \/ PutCopy \/ PutSidecar \/ SealNothing \/ Sign
      PROVE  UNCHANGED <<chk, manifest>>
  BY <1>2 DEF Open, Close, Crash, Forget, PutCopy, PutSidecar, SealNothing, Sign, disk
<1>3. ASSUME RefuseSigner \/ RaiseMark \/ Fail \/ BeginScrub \/ ScrubUnlink
           \/ ScrubRecord \/ EndScrub
             \/ UNCHANGED vars
      PROVE  UNCHANGED <<chk, manifest>>
  BY <1>3 DEF RefuseSigner, RaiseMark, Fail, BeginScrub, ScrubUnlink, ScrubRecord,
              EndScrub, disk, vars
<1> QED BY <1>1, <1>2, <1>3 DEF Next

SealedNow == [i \in 1 .. manifest.gen |-> chk[i].entry.root]

LEMMA HistoryGrows ==
    ASSUME TypeOK, CommitInv, TypeOK', CommitInv', [Next]_vars
    PROVE  /\ manifest.gen <= manifest'.gen
           /\ \A i \in 1 .. manifest.gen : chk'[i] = chk[i]
<1>1. manifest.gen \in Nat /\ Len(chk) \in Nat /\ manifest.gen <= Len(chk)
  BY DEF TypeOK, CommitInv
<1>2. CASE UNCHANGED <<chk, manifest>>
  BY <1>1, <1>2
<1>3. CASE BeginCommit
  <2>1. /\ NextCheckpoint \in Checkpoint /\ NextCheckpoint.entry.gen = mgen + 1
        /\ mgen \in Nat /\ manifest.gen <= mgen /\ mgen <= Len(chk)
    BY <1>3, NextCheckpointTyped DEF TypeOK, CommitInv, BeginCommit
  <2>2. \A i \in 1 .. Len(chk) : i # mgen + 1 => chk'[i] = chk[i]
    BY <1>1, <1>3, <2>1, CheckpointWritten DEF BeginCommit
  <2>3. manifest' = manifest
    BY <1>3 DEF BeginCommit
  <2> QED BY <1>1, <2>1, <2>2, <2>3
<1>4. CASE WriteManifest
  <2>1. chk' = chk /\ manifest'.gen = mgen /\ manifest.gen <= mgen
    BY <1>4 DEF WriteManifest, CommitInv
  <2> QED BY <1>1, <2>1 DEF TypeOK
<1> QED BY <1>2, <1>3, <1>4, HistoryTouched

\* The container implements the append-only log of sealed generations.
THEOREM AppendOnly == Spec => HistoryIsAppendOnly
<1>1. Init => History!Init
  BY DEF Init, History!Init
<1>2. /\ TypeOK /\ CommitInv /\ TypeOK' /\ CommitInv' /\ [Next]_vars
      => [History!Seal]_SealedNow
  <2> SUFFICES ASSUME TypeOK, CommitInv, TypeOK', CommitInv', [Next]_vars
               PROVE  History!Seal
    OBVIOUS
  <2>1. manifest.gen \in Nat /\ manifest'.gen \in Nat /\ manifest.gen <= manifest'.gen
        /\ \A i \in 1 .. manifest.gen : chk'[i] = chk[i]
    BY HistoryGrows DEF TypeOK
  <2>2. DOMAIN SealedNow = 1 .. manifest.gen /\ DOMAIN SealedNow' = 1 .. manifest'.gen
    BY DEF SealedNow
  <2>3. \A g \in 1 .. manifest'.gen : SealedNow'[g] \in SUBSET Object
    <3>1. chk' \in Seq(Checkpoint) /\ manifest'.gen <= Len(chk')
      BY DEF TypeOK, CommitInv
    <3>2. \A g \in 1 .. manifest'.gen : chk'[g] \in Checkpoint
      BY <2>1, <3>1
    <3> QED BY <3>2 DEF SealedNow, Checkpoint, Entry
  <2>4. \A g \in 1 .. manifest.gen : SealedNow'[g] = SealedNow[g]
    BY <2>1 DEF SealedNow
  <2>5. \A g \in 1 .. manifest'.gen : g \in Nat \ {0} /\ 1 .. g \subseteq 1 .. manifest'.gen
    BY <2>1
  <2>6. 1 .. manifest.gen \subseteq 1 .. manifest'.gen
    BY <2>1
  <2> QED BY <2>2, <2>3, <2>4, <2>5, <2>6 DEF History!Seal, History!Extends, SealedNow
<1> QED BY <1>1, <1>2, InvHolds, PTL
        DEF HistoryIsAppendOnly, History!Spec, Spec, SealedNow
-----------------------------------------------------------------------------
(* What a generation sealed stays, and what a process leaves behind.       *)

\* A generation on an object is at most the one the process would seal next.
GenerationInv ==
    /\ \A o \in Object : side[o] # NoGen => side[o] <= Len(chk) + 1
    /\ up => \A o \in Object : /\ side[o] # NoGen => side[o] <= mgen + 1
                               /\ objs[o] # NoGen => objs[o] <= mgen + 1

\* The bytes of what is held, or was ever sealed, are somewhere.
BytesInv ==
    /\ SealedBytesKept
    /\ \A o \in Held : file[o] # "none" \/ o \in jail
    /\ step \in {"copy", "sidecar"} => \A o \in target : file[o] # "none"

\* While no byte decays, what the manifest attests to is held, intact, and of a
\* generation it reached; a commit in progress will keep it so.
IntactInv == "rot" \notin faults =>
    /\ \A o \in Object : file[o] # "bad"
    /\ \A o \in Held : file[o] = "good"
    /\ step \notin {"unlink", "record"} /\ ~lossy
    /\ step = "scrub" => todo \subseteq Held
    /\ step \in {"copy", "sidecar"} => target \cap Held = {}
    /\ \A o \in manifest.root :
          file[o] = "good" /\ (side[o] = NoGen \/ side[o] <= manifest.gen)
    /\ up => \A o \in manifest.root : objs[o] # NoGen /\ objs[o] <= ceiling
    /\ step = "sign" => draft.entry.root = Held
    /\ step = "manifest" =>
          /\ ceiling = mgen
          /\ \A o \in mroot : /\ file[o] = "good" /\ objs[o] # NoGen /\ objs[o] <= mgen
                              /\ side[o] = NoGen \/ side[o] <= mgen

\* While no write fails, the checkpoints are one chain, the process knows its
\* beginning, and at most one of them is ahead of the manifest.
ChainInv == "io" \notin faults =>
    /\ ChainIntact(chk)
    /\ Len(chk) \in {manifest.gen, manifest.gen + 1}
    /\ up => Len(log) <= Len(chk) /\ \A i \in 1 .. Len(log) : log[i] = chk[i]
    /\ up => Len(log) = IF step = "mark" THEN mgen - 1
                        ELSE manifest.gen
    /\ up /\ step \notin {"manifest", "mark"} => mgen = manifest.gen
    /\ step = "manifest" => mgen = manifest.gen + 1
    /\ step = "mark" => mgen = manifest.gen
    /\ step \in {"sign", "manifest", "mark"} => /\ Len(chk) = draft.entry.gen
                                                /\ chk[Len(chk)] = draft
    /\ step \in {"manifest", "mark"} => draft.entry.gen = mgen

\* A checkpoint that a refused signer left ahead is still to be sealed.
AheadInv == faults \subseteq {"crash", "role"} =>
    \/ ~up \/ step \in {"manifest", "mark"} \/ Len(chk) = manifest.gen
    \/ Unsealed

\* While nothing dies or fails, what is held is what has bytes, and what is not
\* pending is what the manifest says.
RestInv == faults \subseteq {"rot"} =>
    /\ step \in {"scrub", "unlink", "record"} => todo \subseteq Held
    /\ \A o \in Object \ target : up => (objs[o] # NoGen <=> file[o] # "none")
    /\ \A o \in target : IF step \in {"copy", "sidecar"}
                         THEN objs[o] = NoGen /\ file[o] # "none"
                         ELSE step \in {"unlink", "record"} /\ file[o] = "none"
    /\ step \in {"copy", "sidecar"} => target # {}
    /\ ~up => {o \in Object : file[o] # "none"} = manifest.root
    /\ up /\ step \in {"idle", "scrub", "unlink", "record"} /\ pending = {} /\ ~lossy
         => Held = manifest.root
    /\ up /\ step # "manifest" => mroot = manifest.root
    /\ lossy => step \in {"scrub", "unlink", "record"}
    /\ step = "sign" => draft.entry.root = Held
    /\ step \in {"manifest", "mark"} => mroot = Held

ContainerInv == GenerationInv /\ BytesInv /\ IntactInv /\ ChainInv /\ AheadInv /\ RestInv

\* The checkpoints grow, and only where the commit in progress writes.
LEMMA CheckpointAhead ==
    ASSUME TypeOK, CommitInv, BeginCommit
    PROVE  /\ draft' = NextCheckpoint /\ draft' \in Checkpoint
           /\ draft'.entry.gen = mgen + 1 /\ draft'.entry.root = Held
           /\ mgen \in Nat /\ mgen <= Len(chk) /\ Len(chk) \in Nat
           /\ chk' \in Seq(Checkpoint) /\ Len(chk') \in Nat
           /\ Len(chk') = IF Len(chk) = mgen THEN mgen + 1 ELSE Len(chk)
           /\ chk'[mgen + 1] = draft'
           /\ \A i \in 1 .. Len(chk) : i # mgen + 1 => chk'[i] = chk[i]
<1>1. NextCheckpoint \in Checkpoint /\ NextCheckpoint.entry.gen = mgen + 1
  BY NextCheckpointTyped
<1>2. NextCheckpoint.entry.root = Held
  BY DEF NextCheckpoint
<1>3. mgen \in Nat /\ mgen <= Len(chk) /\ Len(chk) \in Nat
  BY DEF TypeOK, CommitInv, BeginCommit
<1>4. draft' = NextCheckpoint /\ chk' = WriteCheckpoint(NextCheckpoint)
  BY DEF BeginCommit
<1>5. NextCheckpoint.entry.gen \in 1 .. Len(chk) + 1
  BY <1>1, <1>3
<1>6. /\ chk' \in Seq(Checkpoint) /\ chk'[mgen + 1] = NextCheckpoint
      /\ \A i \in 1 .. Len(chk) : i # mgen + 1 => chk'[i] = chk[i]
  BY <1>1, <1>4, <1>5, CheckpointWritten
<1>7. Len(chk') = IF Len(chk) < mgen + 1 THEN mgen + 1 ELSE Len(chk)
  BY <1>1, <1>3, <1>4 DEF WriteCheckpoint
<1> QED BY <1>1, <1>2, <1>3, <1>4, <1>6, <1>7

LEMMA GenerationStep ==
    ASSUME TypeOK, CommitInv, GenerationInv, [Next]_vars
    PROVE  GenerationInv'
<1> USE StoreAssumption
<1>1. /\ Len(chk) \in Nat /\ mgen \in Nat /\ manifest.gen \in Nat
      /\ manifest.gen <= Len(chk) /\ (up => mgen <= Len(chk))
      /\ \A o \in Object : objs[o] # NoGen => objs[o] \in Nat
      /\ \A o \in Object : side[o] # NoGen => side[o] \in Nat
  BY DEF TypeOK, CommitInv
<1>2. ASSUME UNCHANGED <<side, objs, chk, mgen, up>> PROVE GenerationInv'
  BY <1>2 DEF GenerationInv
<1>3. CASE Open
  <2>1. /\ mgen' = manifest.gen /\ up' /\ UNCHANGED <<side, chk>>
        /\ objs' = [o \in Object |-> IF file[o] = "none" THEN NoGen
                                     ELSE IF side[o] = NoGen THEN manifest.gen ELSE side[o]]
    BY <1>3 DEF Open, Rebuilt, disk
  <2>2. Len(chk) = 0 \/ Len(chk) = manifest.gen
    BY <1>3 DEF Open, Openable
  <2>3. Len(chk) <= manifest.gen
    BY <1>1, <2>2
  <2>4. \A o \in Object : side[o] # NoGen => side[o] <= manifest.gen + 1
    BY <1>1, <2>3 DEF GenerationInv
  <2>5. \A o \in Object : objs'[o] # NoGen => objs'[o] <= manifest.gen + 1
    BY <1>1, <2>1, <2>4
  <2> QED BY <2>1, <2>4, <2>5 DEF GenerationInv
<1>4. CASE Close \/ Crash
  BY <1>4 DEF Close, Crash, Forget, disk, GenerationInv
<1>5. CASE PutSidecar
  <2>1. /\ side' = Tagged(side, target, mgen + 1) /\ objs' = Tagged(objs, target, mgen + 1)
        /\ UNCHANGED <<chk, mgen, up>> /\ up
    BY <1>5 DEF PutSidecar, CommitInv
  <2> QED BY <1>1, <2>1 DEF GenerationInv, Tagged
<1>6. CASE BeginCommit
  <2>1. UNCHANGED <<side, objs, mgen, up>> /\ Len(chk') \in Nat /\ Len(chk) <= Len(chk')
    BY <1>1, <1>6, CheckpointAhead DEF BeginCommit, belief
  <2> QED BY <1>1, <2>1 DEF GenerationInv
<1>7. CASE Sign
  <2>1. mgen' = mgen + 1 /\ UNCHANGED <<side, objs, chk, up>>
    BY <1>7 DEF Sign, CommitInv, disk
  <2> QED BY <1>1, <2>1 DEF GenerationInv
<1>8. ASSUME NEW o \in Object, ScrubRepair(o) PROVE GenerationInv'
  <2>1. /\ side' = [side EXCEPT ![o] = objs[o]] /\ UNCHANGED <<objs, chk, mgen, up>> /\ up
    BY <1>8 DEF ScrubRepair, CommitInv, belief
  <2> QED BY <1>1, <2>1 DEF GenerationInv, TypeOK
<1>9. CASE ScrubUnlink \/ ScrubRecord
  <2>1. /\ side' = side \/ side' = Tagged(side, target, NoGen)
        /\ objs' = objs \/ objs' = Tagged(objs, target, NoGen)
        /\ UNCHANGED <<chk, mgen, up>>
    BY <1>9 DEF ScrubUnlink, ScrubRecord, belief
  <2> QED BY <2>1 DEF GenerationInv, Tagged
<1>10. ASSUME NEW o \in Object, BeginPut(o) \/ ScrubHealthy(o) \/ ScrubJail(o) \/ Rot(o)
       PROVE  GenerationInv'
  BY <1>2, <1>10 DEF BeginPut, ScrubHealthy, ScrubJail, Rot, disk, belief
<1>11. CASE PutCopy \/ SealNothing \/ RefuseSigner \/ Fail \/ WriteManifest \/ RaiseMark
              \/ BeginScrub \/ EndScrub \/ UNCHANGED vars
  BY <1>2, <1>11 DEF PutCopy, SealNothing, RefuseSigner, Fail, WriteManifest, RaiseMark,
                     BeginScrub, EndScrub, disk, belief, vars
<1> QED BY <1>3, <1>4, <1>5, <1>6, <1>7, <1>8, <1>9, <1>10, <1>11 DEF Next

LEMMA BytesStep ==
    ASSUME TypeOK, CommitInv, BytesInv, [Next]_vars
    PROVE  BytesInv'
<1> USE StoreAssumption
<1> DEFINE Somewhere(o) == file[o] # "none" \/ o \in jail
<1>1. /\ chk \in Seq(Checkpoint) /\ DOMAIN chk = 1 .. Len(chk) /\ Len(chk) \in Nat
      /\ \A i \in DOMAIN chk : chk[i].entry.root \subseteq Object
      /\ \A o \in Held : o \in Object /\ Somewhere(o)
  <2>1. chk \in Seq(Checkpoint) /\ DOMAIN chk = 1 .. Len(chk) /\ Len(chk) \in Nat
    BY DEF TypeOK
  <2>2. \A i \in DOMAIN chk : chk[i] \in Checkpoint
    BY <2>1
  <2> QED BY <2>1, <2>2 DEF Checkpoint, Entry, BytesInv, Held
<1>2. ASSUME chk' = chk, \A o \in Object : Somewhere(o) => Somewhere(o)', Held' \subseteq Held,
             step' \notin {"copy", "sidecar"}
      PROVE  BytesInv'
  <2>1. SealedBytesKept'
    BY <1>1, <1>2 DEF BytesInv, SealedBytesKept
  <2> QED BY <1>1, <1>2, <2>1 DEF BytesInv
<1>3. ASSUME UNCHANGED <<file, jail>> PROVE \A o \in Object : Somewhere(o) => Somewhere(o)'
  BY <1>3
<1>4. ASSUME objs' = objs PROVE Held' \subseteq Held
  BY <1>4 DEF Held
<1>5. CASE Open
  <2>1. UNCHANGED <<file, jail, chk>> /\ step' = "idle" /\ \A o \in Held' : o \in Object /\ file[o] # "none"
    BY <1>5 DEF Open, disk, Held, NoCall
  <2> QED BY <1>1, <2>1 DEF BytesInv, SealedBytesKept
<1>6. CASE Close \/ Crash
  <2>1. UNCHANGED <<file, jail, chk>> /\ step' = "idle" /\ Held' = {}
    BY <1>6 DEF Close, Crash, Forget, disk, Held, NoCall
  <2> QED BY <1>2, <1>3, <2>1
<1>7. ASSUME NEW o \in Object, BeginPut(o) PROVE BytesInv'
  <2>1. /\ file' = [file EXCEPT ![o] = "good"] /\ target' = {o} /\ UNCHANGED <<jail, chk, objs>>
        /\ file \in [Object -> {"none", "good", "bad"}]
    BY <1>7 DEF BeginPut, belief, TypeOK
  <2>2. \A p \in Object : Somewhere(p) => Somewhere(p)'
    BY <2>1
  <2>3. SealedBytesKept'
    BY <1>1, <2>1, <2>2 DEF BytesInv, SealedBytesKept
  <2> QED BY <1>1, <1>4, <2>1, <2>2, <2>3 DEF BytesInv
<1>8. CASE PutCopy
  <2>1. UNCHANGED <<file, jail, chk, objs, target>>
    BY <1>8 DEF PutCopy, belief
  <2> QED BY <1>4, <1>8, <2>1 DEF BytesInv, SealedBytesKept, PutCopy
<1>9. CASE PutSidecar
  <2>1. /\ UNCHANGED <<file, jail, chk>> /\ objs' = Tagged(objs, target, mgen + 1)
        /\ step' = "idle" /\ \A o \in target : file[o] # "none"
    BY <1>9 DEF PutSidecar, BytesInv
  <2>2. Held' \subseteq Held \cup target
    BY <2>1 DEF Held, Tagged
  <2> QED BY <1>1, <2>1, <2>2 DEF BytesInv, SealedBytesKept
<1>10. CASE BeginCommit
  <2>1. UNCHANGED <<file, jail, objs>> /\ step' = "sign"
    BY <1>10 DEF BeginCommit, belief
  <2>2. \A i \in 1 .. Len(chk') : i = mgen + 1 \/ (i \in 1 .. Len(chk) /\ i # mgen + 1)
    BY <1>1, <1>10, CheckpointAhead
  <2>3. \A i \in DOMAIN chk' : i \in 1 .. Len(chk')
    BY <1>10, CheckpointAhead
  <2>4. \A i \in DOMAIN chk' : \/ i \in DOMAIN chk /\ chk'[i] = chk[i]
                              \/ chk'[i].entry.root = Held
    BY <1>1, <1>10, <2>2, <2>3, CheckpointAhead
  <2>5. SealedBytesKept'
    BY <1>1, <2>1, <2>4 DEF BytesInv, SealedBytesKept
  <2> QED BY <1>1, <1>4, <2>1, <2>5 DEF BytesInv
<1>11. ASSUME NEW o \in Object, ScrubHealthy(o) \/ ScrubRepair(o) \/ ScrubJail(o)
       PROVE  BytesInv'
  <2>1. /\ UNCHANGED <<chk, objs>> /\ step' \notin {"copy", "sidecar"}
        /\ \A p \in Object : Somewhere(p) => Somewhere(p)'
    BY <1>11 DEF ScrubHealthy, ScrubRepair, ScrubJail, disk, belief, TypeOK
  <2> QED BY <1>2, <1>4, <2>1
<1>12. CASE ScrubUnlink \/ ScrubRecord
  <2>1. UNCHANGED <<file, jail, chk>> /\ step' \notin {"copy", "sidecar"}
        /\ (objs' = objs \/ objs' = Tagged(objs, target, NoGen))
    BY <1>12 DEF ScrubUnlink, ScrubRecord, belief
  <2>2. Held' \subseteq Held
    BY <2>1 DEF Held, Tagged
  <2> QED BY <1>2, <1>3, <2>1, <2>2
<1>13. ASSUME NEW o \in Object, Rot(o) PROVE BytesInv'
  <2>1. /\ file' = [file EXCEPT ![o] = "bad"] /\ file[o] = "good"
        /\ UNCHANGED <<jail, chk, objs, step, target>>
    BY <1>13 DEF Rot, belief, call
  <2>2. \A p \in Object : file[p] # "none" => file'[p] # "none"
    BY <2>1 DEF TypeOK
  <2>3. SealedBytesKept'
    BY <1>1, <2>1, <2>2 DEF BytesInv, SealedBytesKept
  <2>4. target \subseteq Object
    BY DEF TypeOK
  <2> QED BY <1>1, <1>4, <2>1, <2>2, <2>3, <2>4 DEF BytesInv
<1>14. CASE SealNothing \/ Sign \/ RefuseSigner \/ Fail \/ WriteManifest \/ RaiseMark
              \/ BeginScrub \/ EndScrub
  <2>1. UNCHANGED <<file, jail, chk, objs>> /\ step' \notin {"copy", "sidecar"}
    BY <1>14 DEF SealNothing, Sign, RefuseSigner, Fail, WriteManifest, RaiseMark,
                 BeginScrub, EndScrub, NoCall, disk, belief
  <2> QED BY <1>2, <1>3, <1>4, <2>1
<1>15. CASE UNCHANGED vars
  BY <1>15 DEF vars, disk, belief, call, BytesInv, SealedBytesKept, Held
<1> QED BY <1>5, <1>6, <1>7, <1>8, <1>9, <1>10, <1>11, <1>12, <1>13, <1>14, <1>15 DEF Next

LEMMA IntactStep ==
    ASSUME TypeOK, CommitInv, GenerationInv, BytesInv, IntactInv, [Next]_vars
    PROVE  IntactInv'
<1> SUFFICES ASSUME "rot" \notin faults PROVE IntactInv'
  <2>1. faults' = faults
    BY DEF Next, vars
  <2> QED BY <2>1 DEF IntactInv
<1> USE StoreAssumption
<1>1. /\ \A o \in Object : file[o] \in {"none", "good"}
      /\ \A o \in Held : o \in Object /\ file[o] = "good"
      /\ step \notin {"unlink", "record"} /\ ~lossy
      /\ step = "scrub" => todo \subseteq Held
      /\ step \in {"copy", "sidecar"} => target \cap Held = {}
      /\ \A o \in manifest.root :
            o \in Object /\ file[o] = "good" /\ (side[o] = NoGen \/ side[o] <= manifest.gen)
      /\ up => \A o \in manifest.root : objs[o] # NoGen /\ objs[o] <= ceiling
      /\ step = "sign" => draft.entry.root = Held
      /\ step = "manifest" =>
            /\ ceiling = mgen
            /\ \A o \in mroot : /\ file[o] = "good" /\ objs[o] # NoGen /\ objs[o] <= mgen
                                /\ side[o] = NoGen \/ side[o] <= mgen
  BY DEF IntactInv, TypeOK, Held
<1>2. /\ mgen \in Nat /\ manifest.gen \in Nat /\ manifest.root \subseteq Object
      /\ mroot \subseteq Object
      /\ file \in [Object -> {"none", "good", "bad"}]
      /\ \A o \in Object : objs[o] # NoGen => objs[o] \in Nat
      /\ \A o \in Object : side[o] # NoGen => side[o] \in Nat
  BY DEF TypeOK
<1>3. CASE Open
  <2>1. /\ UNCHANGED <<file, side, manifest>> /\ step' = "idle" /\ lossy' = FALSE
        /\ ceiling' = manifest.gen
        /\ objs' = [o \in Object |-> IF file[o] = "none" THEN NoGen
                                     ELSE IF side[o] = NoGen THEN manifest.gen ELSE side[o]]
    BY <1>3 DEF Open, Rebuilt, disk, NoCall
  <2>2. \A o \in manifest.root : objs'[o] # NoGen /\ objs'[o] <= manifest.gen
    BY <1>1, <1>2, <2>1
  <2>3. \A o \in Held' : file[o] = "good"
    BY <1>1, <2>1 DEF Held
  <2> QED BY <1>1, <2>1, <2>2, <2>3 DEF IntactInv
<1>4. CASE Close \/ Crash
  <2>1. /\ UNCHANGED <<file, side, manifest>> /\ step' = "idle" /\ lossy' = FALSE /\ ~up'
        /\ Held' = {}
    BY <1>4 DEF Close, Crash, Forget, disk, NoCall, Held
  <2> QED BY <1>1, <2>1 DEF IntactInv
<1>5. ASSUME NEW o \in Object, BeginPut(o) PROVE IntactInv'
  <2>1. /\ file' = [file EXCEPT ![o] = "good"] /\ target' = {o} /\ objs[o] = NoGen
        /\ step' \in {"copy", "sidecar"}
        /\ UNCHANGED <<side, manifest, up, objs, ceiling, lossy>>
    BY <1>5 DEF BeginPut, belief
  <2>2. Held' = Held /\ o \notin Held
    BY <2>1 DEF Held
  <2>3. /\ \A p \in Object : file'[p] # "bad"
        /\ \A p \in Object : file[p] = "good" => file'[p] = "good"
    BY <1>1, <1>2, <2>1
  <2> QED BY <1>1, <2>1, <2>2, <2>3 DEF IntactInv
<1>6. CASE PutCopy
  <2>1. /\ step = "copy" /\ step' = "sidecar"
        /\ UNCHANGED <<file, side, manifest, up, objs, ceiling, lossy, target>>
    BY <1>6 DEF PutCopy, belief
  <2> QED BY <1>1, <2>1 DEF IntactInv, Held
<1>7. CASE PutSidecar
  <2>1. /\ step = "sidecar" /\ step' = "idle" /\ UNCHANGED <<file, manifest, up, ceiling, lossy>>
        /\ side' = Tagged(side, target, mgen + 1) /\ objs' = Tagged(objs, target, mgen + 1)
        /\ up
    BY <1>7 DEF PutSidecar, CommitInv
  <2>2. target \cap manifest.root = {}
    BY <1>1, <1>2, <2>1 DEF Held
  <2>3. \A o \in manifest.root : side'[o] = side[o] /\ objs'[o] = objs[o]
    BY <1>2, <2>1, <2>2 DEF Tagged
  <2>4. Held' \subseteq Held \cup target
    BY <2>1 DEF Held, Tagged
  <2>5. \A o \in target : file[o] = "good"
    BY <1>1, <2>1 DEF BytesInv, TypeOK
  <2> QED BY <1>1, <2>1, <2>3, <2>4, <2>5 DEF IntactInv
<1>8. CASE BeginCommit
  <2>1. /\ step' = "sign" /\ draft'.entry.root = Held
        /\ UNCHANGED <<file, side, manifest, up, objs, ceiling, lossy>>
    BY <1>8, CheckpointAhead DEF BeginCommit, belief
  <2> QED BY <1>1, <2>1 DEF IntactInv, Held
<1>9. CASE Sign
  <2>1. /\ mgen' = mgen + 1 /\ mroot' = Held /\ ceiling' = mgen + 1 /\ step' = "manifest" /\ up
        /\ UNCHANGED <<file, side, manifest, up, objs, lossy>>
    BY <1>1, <1>9 DEF Sign, CommitInv, disk
  <2>2. \A o \in Object : /\ objs[o] # NoGen => objs[o] <= mgen + 1
                          /\ side[o] # NoGen => side[o] <= mgen + 1
    BY <2>1 DEF GenerationInv
  <2>3. \A o \in Held : o \in Object /\ objs[o] # NoGen
    BY DEF Held
  <2>4. Held' = Held
    BY <2>1 DEF Held
  <2> QED BY <1>1, <2>1, <2>2, <2>3, <2>4 DEF IntactInv
<1>10. CASE WriteManifest
  <2>1. /\ step = "manifest" /\ step' = "mark" /\ manifest' = [gen |-> mgen, root |-> mroot]
        /\ UNCHANGED <<file, side, up, objs, ceiling, lossy>>
    BY <1>10 DEF WriteManifest, belief
  <2>2. manifest'.gen = mgen /\ manifest'.root = mroot
    BY <2>1
  <2> QED BY <1>1, <1>2, <2>1, <2>2 DEF IntactInv, Held
<1>11. CASE SealNothing \/ RefuseSigner \/ RaiseMark \/ Fail
  <2>1. /\ step' = "idle" /\ lossy' = FALSE /\ UNCHANGED <<file, side, manifest, up, objs, ceiling>>
    BY <1>11 DEF SealNothing, RefuseSigner, RaiseMark, Fail, disk, belief, NoCall
  <2> QED BY <1>1, <2>1 DEF IntactInv, Held
<1>12. CASE BeginScrub
  <2>1. /\ step' = "scrub" /\ lossy' = FALSE /\ todo' = Held
        /\ UNCHANGED <<file, side, manifest, up, objs, ceiling>>
    BY <1>12 DEF BeginScrub, disk, belief
  <2> QED BY <1>1, <2>1 DEF IntactInv, Held
<1>13. ASSUME NEW o \in Object, ScrubHealthy(o) \/ ScrubRepair(o) \/ ScrubJail(o)
       PROVE  IntactInv'
  <2>1. ScrubHealthy(o)
    BY <1>1, <1>13 DEF ScrubRepair, ScrubJail, ScrubHealthy
  <2>2. /\ step = "scrub" /\ step' = "scrub" /\ todo' \subseteq todo
        /\ UNCHANGED <<file, side, manifest, up, objs, ceiling, lossy>>
    BY <2>1 DEF ScrubHealthy, disk, belief
  <2> QED BY <1>1, <2>2 DEF IntactInv, Held
<1>14. CASE ScrubUnlink \/ ScrubRecord
  BY <1>1, <1>14 DEF ScrubUnlink, ScrubRecord
<1>15. CASE EndScrub
  <2>1. /\ step' = "idle" /\ lossy' = FALSE /\ UNCHANGED <<file, side, manifest, up, objs, ceiling>>
    BY <1>1, <1>15 DEF EndScrub, disk, belief
  <2> QED BY <1>1, <2>1 DEF IntactInv, Held
<1>16. ASSUME NEW o \in Object, Rot(o) PROVE FALSE
  BY <1>16 DEF Rot
<1>17. CASE UNCHANGED vars
  BY <1>1, <1>17 DEF vars, disk, belief, call, IntactInv, Held
<1> QED BY <1>3, <1>4, <1>5, <1>6, <1>7, <1>8, <1>9, <1>10, <1>11, <1>12, <1>13, <1>14, <1>15,
           <1>16, <1>17 DEF Next

LEMMA ChainStep ==
    ASSUME TypeOK, CommitInv, ChainInv, [Next]_vars
    PROVE  ChainInv'
<1> SUFFICES ASSUME "io" \notin faults PROVE ChainInv'
  <2>1. faults' = faults
    BY DEF Next, vars
  <2> QED BY <2>1 DEF ChainInv
<1>1. /\ chk \in Seq(Checkpoint) /\ log \in Seq(Checkpoint)
      /\ Len(chk) \in Nat /\ Len(log) \in Nat /\ mgen \in Nat /\ manifest.gen \in Nat
      /\ DOMAIN chk = 1 .. Len(chk) /\ DOMAIN log = 1 .. Len(log)
      /\ step # "idle" => up
  BY DEF TypeOK, CommitInv
<1>2. ASSUME UNCHANGED <<chk, manifest, log, mgen, up, draft>>,
             step' \notin {"sign", "manifest", "mark"}, step \notin {"manifest", "mark"}
      PROVE  ChainInv'
  BY <1>2 DEF ChainInv, ChainIntact, ChainFrom
<1>3. CASE Open
  <2>1. /\ UNCHANGED <<chk, manifest>> /\ log' = chk /\ mgen' = manifest.gen /\ step' = "idle"
        /\ (chk # <<>> => Len(chk) = manifest.gen)
    BY <1>3 DEF Open, Openable, NoCall, disk
  <2>2. Len(chk) = manifest.gen
    BY <1>1, <2>1 DEF CommitInv
  <2> QED BY <1>1, <2>1, <2>2 DEF ChainInv, ChainIntact, ChainFrom
<1>4. CASE Close \/ Crash
  <2>1. UNCHANGED <<chk, manifest>> /\ ~up' /\ step' = "idle"
    BY <1>4 DEF Close, Crash, Forget, NoCall, disk
  <2> QED BY <2>1 DEF ChainInv, ChainIntact, ChainFrom
<1>5. CASE BeginCommit
  <2>1. /\ up /\ step \in {"idle", "seal"} /\ step' = "sign"
        /\ UNCHANGED <<manifest, log, mgen, up>>
    BY <1>5 DEF BeginCommit, belief
  <2>2. mgen = manifest.gen /\ Len(log) = mgen
    BY <2>1 DEF ChainInv
  <2>3. /\ Len(chk') = mgen + 1 /\ chk'[mgen + 1] = draft' /\ draft'.entry.gen = mgen + 1
        /\ \A i \in 1 .. mgen : i \in 1 .. Len(chk) /\ chk'[i] = chk[i]
        /\ draft' = NextCheckpoint /\ chk' \in Seq(Checkpoint)
    <3>1. Len(chk) = mgen \/ Len(chk) = mgen + 1
      BY <2>2 DEF ChainInv
    <3>2. \A i \in 1 .. mgen : i \in 1 .. Len(chk) /\ i # mgen + 1
      <4>1. mgen \in Nat /\ Len(chk) \in Nat /\ mgen <= Len(chk)
        BY <1>5, CheckpointAhead
      <4> QED BY ONLY <4>1
    <3>3. Len(chk') = IF Len(chk) = mgen THEN mgen + 1 ELSE Len(chk)
      BY <1>5, CheckpointAhead
    <3>4. Len(chk') = mgen + 1
      BY <1>1, <3>1, <3>3
    <3> QED BY <1>5, <3>2, <3>4, CheckpointAhead
  <2>4. draft'.past = IF mgen = 0 THEN <<>> ELSE Chain(chk[mgen])
    <3>1. log = <<>> <=> mgen = 0
      BY <1>1, <2>2
    <3>2. mgen # 0 => log[mgen] = chk[mgen]
      BY <1>1, <2>1, <2>2 DEF ChainInv
    <3>3. draft'.past = IF log = <<>> THEN <<>> ELSE Chain(log[Len(log)])
      BY <2>3 DEF NextCheckpoint
    <3> QED BY <2>2, <3>1, <3>2, <3>3
  <2>5. ChainIntact(chk')
    <3> SUFFICES ASSUME NEW i \in 1 .. mgen + 1 PROVE ChainFrom(chk'[i], chk', i)
      BY <2>3 DEF ChainIntact
    <3>1. CASE i = mgen + 1
      <4>1. mgen # 0 => chk'[mgen] = chk[mgen]
        BY <1>1, <2>3
      <4> QED BY <1>1, <2>3, <2>4, <3>1, <4>1 DEF ChainFrom
    <3>2. CASE i # mgen + 1
      <4>1. i \in 1 .. mgen /\ (i # 1 => i - 1 \in 1 .. mgen)
        BY <1>1, <3>2
      <4>2. ChainFrom(chk[i], chk, i)
        BY <1>1, <2>3, <4>1 DEF ChainInv, ChainIntact
      <4> QED BY <2>3, <4>1, <4>2 DEF ChainFrom
    <3> QED BY <3>1, <3>2
  <2>6. \A i \in 1 .. Len(log) : log[i] = chk'[i]
    BY <2>1, <2>2, <2>3 DEF ChainInv
  <2> QED BY <1>1, <2>1, <2>2, <2>3, <2>5, <2>6 DEF ChainInv
<1>6. CASE Sign
  <2>1. /\ step = "sign" /\ step' = "manifest" /\ mgen' = draft.entry.gen
        /\ UNCHANGED <<chk, manifest, log, up, draft>> /\ draft.entry.gen = mgen + 1 /\ up
    BY <1>6 DEF Sign, disk, CommitInv
  <2> QED BY <1>1, <2>1 DEF ChainInv, ChainIntact, ChainFrom
<1>7. CASE WriteManifest
  <2>1. /\ step = "manifest" /\ step' = "mark" /\ manifest' = [gen |-> mgen, root |-> mroot]
        /\ UNCHANGED <<chk, log, mgen, up, draft>>
    BY <1>7 DEF WriteManifest, belief
  <2>2. manifest'.gen = mgen
    BY <2>1
  <2> QED BY <1>1, <2>1, <2>2 DEF ChainInv, ChainIntact, ChainFrom
<1>8. CASE RaiseMark
  <2>1. /\ step = "mark" /\ step' = "idle" /\ log' = Append(log, draft)
        /\ UNCHANGED <<chk, manifest, mgen, up>> /\ draft \in Checkpoint /\ up
    BY <1>1, <1>8 DEF RaiseMark, NoCall, TypeOK
  <2>2. /\ Len(chk) = mgen /\ chk[mgen] = draft /\ mgen = manifest.gen
        /\ Len(log) = mgen - 1 /\ \A i \in 1 .. Len(log) : log[i] = chk[i]
    BY <2>1 DEF ChainInv
  <2>3. Len(log') = mgen /\ \A i \in 1 .. mgen : log'[i] = chk[i]
    BY <1>1, <2>1, <2>2
  <2> QED BY <1>1, <2>1, <2>2, <2>3 DEF ChainInv, ChainIntact, ChainFrom
<1>9. CASE SealNothing \/ RefuseSigner
  <2>1. /\ UNCHANGED <<chk, manifest, log, mgen, up>> /\ step' = "idle"
        /\ step \notin {"manifest", "mark"}
    BY <1>9 DEF SealNothing, RefuseSigner, disk, belief, NoCall
  <2> QED BY <2>1 DEF ChainInv, ChainIntact, ChainFrom
<1>10. ASSUME NEW o \in Object,
              BeginPut(o) \/ ScrubHealthy(o) \/ ScrubRepair(o) \/ ScrubJail(o)
       PROVE  ChainInv'
  BY <1>2, <1>10 DEF BeginPut, ScrubHealthy, ScrubRepair, ScrubJail, disk, belief
<1>11. CASE PutCopy \/ PutSidecar \/ BeginScrub \/ ScrubUnlink \/ ScrubRecord \/ EndScrub
  BY <1>2, <1>11 DEF PutCopy, PutSidecar, BeginScrub, ScrubUnlink, ScrubRecord, EndScrub,
                     disk, belief
<1>12. CASE Fail
  BY <1>12 DEF Fail
<1>13. ASSUME NEW o \in Object, Rot(o) PROVE ChainInv'
  BY <1>13 DEF Rot, belief, call, ChainInv, ChainIntact, ChainFrom
<1>14. CASE UNCHANGED vars
  BY <1>14 DEF vars, disk, belief, call, ChainInv, ChainIntact, ChainFrom
<1> QED BY <1>3, <1>4, <1>5, <1>6, <1>7, <1>8, <1>9, <1>10, <1>11, <1>12, <1>13, <1>14 DEF Next

LEMMA AheadStep ==
    ASSUME TypeOK, CommitInv, IntactInv, ChainInv, AheadInv, [Next]_vars
    PROVE  AheadInv'
<1> SUFFICES ASSUME faults \subseteq {"crash", "role"} PROVE AheadInv'
  <2>1. faults' = faults
    BY DEF Next, vars
  <2> QED BY <2>1 DEF AheadInv
<1>1. "io" \notin faults /\ "rot" \notin faults
  OBVIOUS
<1>2. step \notin {"unlink", "record"} /\ (step = "scrub" => \A o \in todo : file[o] = "good")
  BY <1>1 DEF IntactInv
<1>3. ~up \/ step \in {"manifest", "mark"} \/ Len(chk) = manifest.gen \/ Unsealed
  BY DEF AheadInv
<1>4. ASSUME UNCHANGED <<chk, manifest, objs, log, pending, mroot, up>>,
             step \notin {"manifest", "mark"}
      PROVE  AheadInv'
  BY <1>3, <1>4 DEF AheadInv, Unsealed, Held
<1>5. CASE Open
  <2>1. UNCHANGED <<chk, manifest>> /\ (chk # <<>> => Len(chk) = manifest.gen)
    BY <1>5 DEF Open, Openable, disk
  <2>2. chk \in Seq(Checkpoint) /\ manifest.gen \in Nat /\ manifest.gen <= Len(chk)
    BY DEF TypeOK, CommitInv
  <2>3. Len(chk) = manifest.gen
    BY <2>1, <2>2
  <2> QED BY <2>1, <2>3 DEF AheadInv
<1>6. CASE Close \/ Crash
  BY <1>6 DEF Close, Crash, Forget, AheadInv
<1>7. CASE PutSidecar
  <2>1. /\ UNCHANGED <<chk, manifest, log, mroot, up>> /\ pending' = pending \cup target
        /\ objs' = Tagged(objs, target, mgen + 1) /\ step = "sidecar"
    BY <1>7 DEF PutSidecar
  <2>2. CASE target = {}
    <3>1. Held' = Held
      BY <2>1, <2>2 DEF Held, Tagged
    <3> QED BY <1>3, <2>1, <2>2, <3>1 DEF AheadInv, Unsealed
  <2>3. CASE target # {}
    BY <2>1, <2>3 DEF AheadInv, Unsealed
  <2> QED BY <2>2, <2>3
<1>8. CASE BeginCommit
  BY <1>8 DEF BeginCommit, belief, AheadInv, Unsealed, Held
<1>9. CASE Sign \/ WriteManifest
  BY <1>9 DEF Sign, WriteManifest, AheadInv
<1>10. CASE RaiseMark
  <2>1. Len(chk) = manifest.gen /\ UNCHANGED <<chk, manifest>>
    BY <1>1, <1>10 DEF RaiseMark, ChainInv
  <2> QED BY <2>1 DEF AheadInv
<1>11. CASE SealNothing \/ RefuseSigner
  BY <1>4, <1>11 DEF SealNothing, RefuseSigner, disk, belief
<1>12. ASSUME NEW o \in Object, BeginPut(o) \/ ScrubHealthy(o) PROVE AheadInv'
  BY <1>4, <1>12 DEF BeginPut, ScrubHealthy, disk, belief
<1>13. ASSUME NEW o \in Object, ScrubRepair(o) \/ ScrubJail(o) PROVE FALSE
  BY <1>2, <1>13 DEF ScrubRepair, ScrubJail
<1>14. CASE ScrubUnlink \/ ScrubRecord
  BY <1>2, <1>14 DEF ScrubUnlink, ScrubRecord
<1>15. CASE PutCopy \/ BeginScrub \/ EndScrub
  BY <1>4, <1>15 DEF PutCopy, BeginScrub, EndScrub, disk, belief
<1>16. CASE Fail
  BY <1>1, <1>16 DEF Fail
<1>17. ASSUME NEW o \in Object, Rot(o) PROVE FALSE
  BY <1>1, <1>17 DEF Rot
<1>18. CASE UNCHANGED vars
  BY <1>18 DEF vars, disk, belief, call, AheadInv, Unsealed, Held
<1> QED BY <1>5, <1>6, <1>7, <1>8, <1>9, <1>10, <1>11, <1>12, <1>13, <1>14, <1>15, <1>16, <1>17,
           <1>18 DEF Next

LEMMA RestStep ==
    ASSUME TypeOK, CommitInv, RestInv, [Next]_vars
    PROVE  RestInv'
<1> SUFFICES ASSUME faults \subseteq {"rot"} PROVE RestInv'
  <2>1. faults' = faults
    BY DEF Next, vars
  <2> QED BY <2>1 DEF RestInv
<1> USE StoreAssumption
<1>1. /\ step \in {"scrub", "unlink", "record"} => todo \subseteq Held
      /\ \A o \in Object \ target : up => (objs[o] # NoGen <=> file[o] # "none")
      /\ \A o \in target : IF step \in {"copy", "sidecar"}
                           THEN objs[o] = NoGen /\ file[o] # "none"
                           ELSE step \in {"unlink", "record"} /\ file[o] = "none"
      /\ step \in {"copy", "sidecar"} => target # {}
      /\ ~up => {o \in Object : file[o] # "none"} = manifest.root
      /\ up /\ step \in {"idle", "scrub", "unlink", "record"} /\ pending = {} /\ ~lossy
           => Held = manifest.root
      /\ up /\ step # "manifest" => mroot = manifest.root
      /\ lossy => step \in {"scrub", "unlink", "record"}
      /\ step = "sign" => draft.entry.root = Held
      /\ step \in {"manifest", "mark"} => mroot = Held
  BY DEF RestInv
<1>2. /\ file \in [Object -> {"none", "good", "bad"}] /\ target \subseteq Object
      /\ objs \in [Object -> Nat \cup {NoGen}] /\ side \in [Object -> Nat \cup {NoGen}]
      /\ mgen \in Nat /\ manifest.gen \in Nat /\ (step # "idle" => up)
  BY DEF TypeOK, CommitInv
<1>3. faults \cap {"crash", "io", "role"} = {}
  OBVIOUS
<1>4. CASE Open
  <2>1. /\ UNCHANGED <<file, manifest>> /\ up' /\ ~up /\ step' = "idle" /\ lossy' = FALSE
        /\ target' = {} /\ mroot' = manifest.root
        /\ objs' = [o \in Object |-> IF file[o] = "none" THEN NoGen
                                     ELSE IF side[o] = NoGen THEN manifest.gen ELSE side[o]]
    BY <1>4 DEF Open, Rebuilt, disk, NoCall
  <2>2. \A o \in Object : objs'[o] # NoGen <=> file[o] # "none"
    BY <1>2, <2>1
  <2>3. Held' = manifest.root
    BY <1>1, <2>1, <2>2 DEF Held
  <2> QED BY <2>1, <2>2, <2>3 DEF RestInv
<1>5. CASE Close
  <2>1. /\ UNCHANGED <<file, manifest>> /\ ~up' /\ step' = "idle" /\ lossy' = FALSE
        /\ target' = {} /\ up /\ step = "idle" /\ pending = {}
    BY <1>5 DEF Close, Forget, disk, NoCall
  <2>2. target = {} /\ Held = manifest.root
    BY <1>1, <2>1
  <2>3. {o \in Object : file[o] # "none"} = Held
    BY <1>1, <2>1, <2>2 DEF Held
  <2> QED BY <2>1, <2>2, <2>3 DEF RestInv
<1>6. ASSUME NEW o \in Object, BeginPut(o) PROVE RestInv'
  <2>1. /\ file' = [file EXCEPT ![o] = "good"] /\ target' = {o} /\ objs[o] = NoGen
        /\ step' \in {"copy", "sidecar"} /\ step = "idle" /\ up
        /\ UNCHANGED <<manifest, up, objs, mroot, lossy, pending>>
    BY <1>6 DEF BeginPut, belief
  <2>2. target = {}
    BY <1>1, <2>1
  <2> QED BY <1>1, <1>2, <2>1, <2>2 DEF RestInv
<1>7. CASE PutCopy
  <2>1. /\ step = "copy" /\ step' = "sidecar"
        /\ UNCHANGED <<file, manifest, up, objs, mroot, lossy, pending, target>>
    BY <1>7 DEF PutCopy, belief
  <2> QED BY <1>1, <2>1 DEF RestInv
<1>8. CASE PutSidecar
  <2>1. /\ step = "sidecar" /\ step' = "idle" /\ target' = {}
        /\ UNCHANGED <<file, manifest, up, mroot, lossy>> /\ pending' = pending \cup target
        /\ objs' = [o \in Object |-> IF o \in target THEN mgen + 1 ELSE objs[o]]
    BY <1>8 DEF PutSidecar, Tagged
  <2>2. pending' # {}
    BY <1>1, <2>1
  <2>3. \A o \in Object : up => (objs'[o] # NoGen <=> file[o] # "none")
    BY <1>1, <1>2, <2>1
  <2>4. up /\ ~lossy
    BY <1>1, <1>2, <2>1
  <2> QED BY <1>1, <2>1, <2>2, <2>3, <2>4 DEF RestInv
<1>9. CASE BeginCommit
  <2>1. /\ step \in {"idle", "seal"} /\ step' = "sign" /\ draft'.entry.root = Held /\ up
        /\ UNCHANGED <<file, manifest, up, objs, pending, mroot, target, lossy>>
    BY <1>9, CheckpointAhead DEF BeginCommit, belief
  <2> QED BY <1>1, <2>1 DEF RestInv, Held
<1>10. CASE Sign
  <2>1. /\ step = "sign" /\ step' = "manifest" /\ mroot' = Held
        /\ UNCHANGED <<file, manifest, up, objs, pending, target, lossy>>
    BY <1>1, <1>10 DEF Sign, disk
  <2> QED BY <1>1, <2>1 DEF RestInv, Held
<1>11. CASE WriteManifest
  <2>1. /\ step = "manifest" /\ step' = "mark" /\ manifest' = [gen |-> mgen, root |-> mroot] /\ up
        /\ UNCHANGED <<file, up, objs, pending, mroot, target, lossy>>
    BY <1>2, <1>11 DEF WriteManifest, belief
  <2>2. manifest'.root = mroot
    BY <2>1
  <2> QED BY <1>1, <2>1, <2>2 DEF RestInv, Held
<1>12. CASE RaiseMark
  <2>1. /\ step = "mark" /\ step' = "idle" /\ target' = {} /\ lossy' = FALSE /\ up
        /\ UNCHANGED <<file, manifest, up, objs, mroot>>
    BY <1>2, <1>12 DEF RaiseMark, NoCall
  <2>2. target = {}
    BY <1>1, <2>1
  <2> QED BY <1>1, <2>1, <2>2 DEF RestInv, Held
<1>13. CASE SealNothing
  <2>1. /\ step = "seal" /\ step' = "idle" /\ target' = {} /\ lossy' = FALSE /\ up
        /\ Held = mroot /\ UNCHANGED <<file, manifest, up, objs, mroot, pending>>
    BY <1>2, <1>13 DEF SealNothing, Unsealed, disk, belief, NoCall
  <2>2. target = {}
    BY <1>1, <2>1
  <2> QED BY <1>1, <2>1, <2>2 DEF RestInv, Held
<1>14. CASE BeginScrub
  <2>1. /\ step = "idle" /\ step' = "scrub" /\ lossy' = FALSE /\ todo' = Held /\ up
        /\ UNCHANGED <<file, manifest, up, objs, mroot, pending, target>>
    BY <1>14 DEF BeginScrub, disk, belief
  <2>2. target = {} /\ ~lossy
    BY <1>1, <2>1
  <2> QED BY <1>1, <2>1, <2>2 DEF RestInv, Held
<1>15. ASSUME NEW o \in Object, ScrubHealthy(o) PROVE RestInv'
  <2>1. /\ step = "scrub" /\ todo' \subseteq todo
        /\ UNCHANGED <<file, manifest, up, objs, mroot, pending, target, lossy, step>>
    BY <1>15 DEF ScrubHealthy, disk, belief
  <2> QED BY <1>1, <2>1 DEF RestInv, Held
<1>16. ASSUME NEW o \in Object, ScrubRepair(o) PROVE RestInv'
  <2>1. /\ step = "scrub" /\ o \in todo /\ todo' \subseteq todo /\ up
        /\ file' = [file EXCEPT ![o] = "good"]
        /\ UNCHANGED <<manifest, up, objs, mroot, pending, target, lossy, step>>
    BY <1>2, <1>16 DEF ScrubRepair, belief
  <2>2. target = {} /\ objs[o] # NoGen
    BY <1>1, <2>1 DEF Held
  <2>3. \A p \in Object : objs[p] # NoGen <=> file'[p] # "none"
    BY <1>1, <1>2, <2>1, <2>2
  <2> QED BY <1>1, <2>1, <2>2, <2>3 DEF RestInv, Held
<1>17. ASSUME NEW o \in Object, ScrubJail(o) PROVE RestInv'
  <2>1. /\ step = "scrub" /\ step' = "unlink" /\ up /\ target' = {o}
        /\ file' = [file EXCEPT ![o] = "none"]
        /\ UNCHANGED <<manifest, up, objs, mroot, pending, lossy, todo>>
    BY <1>2, <1>17 DEF ScrubJail, belief
  <2>2. target = {}
    BY <1>1, <2>1
  <2>3. /\ \A p \in Object \ {o} : objs[p] # NoGen <=> file'[p] # "none"
        /\ file'[o] = "none"
    BY <1>1, <1>2, <2>1, <2>2
  <2>4. Held' = Held
    BY <2>1 DEF Held
  <2> QED BY <1>1, <2>1, <2>3, <2>4 DEF RestInv
<1>18. CASE ScrubUnlink
  <2>1. /\ step = "unlink" /\ step' = "record"
        /\ UNCHANGED <<file, manifest, up, objs, mroot, pending, target, lossy, todo>>
    BY <1>18 DEF ScrubUnlink, belief
  <2> QED BY <1>1, <2>1 DEF RestInv, Held
<1>19. CASE ScrubRecord
  <2>1. /\ step = "record" /\ step' = "scrub" /\ up /\ target' = {} /\ lossy' = TRUE
        /\ todo' = todo \ target
        /\ objs' = [o \in Object |-> IF o \in target THEN NoGen ELSE objs[o]]
        /\ UNCHANGED <<file, manifest, up, mroot>>
    BY <1>2, <1>19 DEF ScrubRecord, Tagged
  <2>2. \A o \in Object : objs'[o] # NoGen <=> file[o] # "none"
    BY <1>1, <2>1
  <2>3. todo' \subseteq Held'
    BY <1>1, <1>2, <2>1 DEF Held
  <2> QED BY <1>1, <2>1, <2>2, <2>3 DEF RestInv
<1>20. CASE EndScrub
  <2>1. /\ step = "scrub" /\ step' = (IF lossy THEN "seal" ELSE "idle") /\ lossy' = FALSE /\ up
        /\ UNCHANGED <<file, manifest, up, objs, mroot, pending, target>>
    BY <1>2, <1>20 DEF EndScrub, disk, belief
  <2>2. target = {}
    BY <1>1, <2>1
  <2>3. lossy \in BOOLEAN
    BY DEF TypeOK
  <2> QED BY <1>1, <2>1, <2>2, <2>3 DEF RestInv, Held
<1>21. ASSUME NEW o \in Object, Rot(o) PROVE RestInv'
  <2>1. /\ file' = [file EXCEPT ![o] = "bad"] /\ file[o] = "good"
        /\ UNCHANGED <<manifest, up, objs, mroot, pending, target, lossy, step, todo, draft>>
    BY <1>21 DEF Rot, belief, call
  <2>2. \A p \in Object : file'[p] = "none" <=> file[p] = "none"
    BY <1>2, <2>1
  <2> QED BY <1>1, <1>2, <2>1, <2>2 DEF RestInv, Held
<1>22. CASE Crash \/ RefuseSigner \/ Fail
  BY <1>3, <1>22 DEF Crash, RefuseSigner, Fail
<1>23. CASE UNCHANGED vars
  BY <1>23 DEF vars, disk, belief, call, RestInv, Held
<1> QED BY <1>4, <1>5, <1>6, <1>7, <1>8, <1>9, <1>10, <1>11, <1>12, <1>13, <1>14, <1>15, <1>16,
           <1>17, <1>18, <1>19, <1>20, <1>21, <1>22, <1>23 DEF Next

LEMMA ContainerInit == Init => ContainerInv
<1> SUFFICES ASSUME Init PROVE ContainerInv
  OBVIOUS
<1>1. Len(chk) = 0 /\ DOMAIN chk = {} /\ Len(log) = 0 /\ Held = {}
  BY DEF Init, Held
<1> QED BY <1>1 DEF Init, ContainerInv, GenerationInv, BytesInv, SealedBytesKept, IntactInv,
                    ChainInv, ChainIntact, AheadInv, RestInv

\* Together with the order of commit()'s writes: generations are bounded by the
\* next, sealed bytes are somewhere, and each kind of fault leaves what it leaves.
THEOREM ContainerInvariant == Spec => []ContainerInv
<1>1. TypeOK /\ CommitInv /\ ContainerInv /\ [Next]_vars => ContainerInv'
  BY GenerationStep, BytesStep, IntactStep, ChainStep, AheadStep, RestStep DEF ContainerInv
<1> QED BY <1>1, ContainerInit, InvHolds, PTL DEF Spec

\* What the manifest attests to may be believed, and no sealed object leaves the
\* disk but for quarantine.
THEOREM SealedForGood == Spec => []SealedStays
<1>1. ContainerInv => SealedStays
  BY DEF ContainerInv, BytesInv, IntactInv, SealedStays, SealedIsAdmissible, Admissible
<1> QED BY <1>1, ContainerInvariant, PTL

\* A store left behind opens, or is refused for the one reason known, and its
\* objects rebuild the root it claims.
THEOREM LeftAtRest == Spec => []StoreAtRest
<1>1. TypeOK /\ CommitInv /\ ContainerInv => StoreAtRest
  <2> SUFFICES ASSUME TypeOK, CommitInv, ContainerInv PROVE StoreAtRest
    OBVIOUS
  <2>1. manifest.gen \in Nat /\ Len(chk) \in Nat /\ hwm \in Nat /\ manifest.gen >= hwm
    BY DEF TypeOK, CommitInv
  <2>2. RefusedOnlyAhead
    BY <2>1 DEF ContainerInv, ChainInv, Openable, RefusedOnlyAhead
  <2>3. RestingStoreReopens
    BY <2>1 DEF ContainerInv, ChainInv, AheadInv, Openable, RestingStoreReopens
  <2>4. RestingStoreIsSealed
    BY DEF ContainerInv, RestInv, RestingStoreIsSealed
  <2> QED BY <2>2, <2>3, <2>4 DEF StoreAtRest
<1> QED BY <1>1, ContainerInvariant, InvHolds, PTL

-----------------------------------------------------------------------------
(* Loops over numbers.  A claim about each round of a loop is a set of     *)
(* rounds, closed under going on to the next.                              *)

LEMMA LeastExists ==
    ASSUME NEW S \in SUBSET Nat, S # {}
    PROVE  \E x \in S : \A y \in S : x <= y
<1>1. PICK x \in S : \A y \in S : ~ (<<y, x>> \in OpToRel(<, Nat))
  BY NatLessThanWellFounded, WFMin
<1>2. \A y \in S : ~ (y < x)
  BY <1>1 DEF OpToRel
<1> QED BY <1>2

LEMMA GreatestExists ==
    ASSUME NEW N \in Nat, NEW S \in SUBSET (0 .. N), S # {}
    PROVE  \E x \in S : \A y \in S : y <= x
<1> DEFINE T == {N - x : x \in S}
<1>1. T \in SUBSET Nat /\ T # {}
  <2>1. \A x \in S : x \in 0 .. N
    OBVIOUS
  <2>2. \A x \in 0 .. N : N - x \in Nat
    OBVIOUS
  <2> QED BY <2>1, <2>2
<1>2. PICK z \in T : \A y \in T : z <= y
  BY <1>1, LeastExists
<1>3. PICK x \in S : z = N - x
  BY <1>2
<1>4. ASSUME NEW y \in S PROVE y <= x
  <2>1. N - y \in T
    OBVIOUS
  <2>2. N - x <= N - y
    BY <1>2, <1>3, <2>1
  <2>3. x \in 0 .. N /\ y \in 0 .. N
    OBVIOUS
  <2> QED BY <2>2, <2>3
<1> QED BY <1>4

LEMMA EveryRound ==
    ASSUME NEW N \in Nat, NEW S, 0 \in S, \A i \in 1 .. N : i - 1 \in S => i \in S
    PROVE  \A i \in 0 .. N : i \in S
<1> DEFINE Missing == {i \in 0 .. N : i \notin S}
<1> SUFFICES ASSUME Missing # {} PROVE FALSE
  OBVIOUS
<1>1. Missing \in SUBSET Nat
  OBVIOUS
<1> HIDE DEF Missing
<1>2. PICK i \in Missing : \A j \in Missing : i <= j
  BY <1>1, LeastExists, Zenon
<1>3. i \in 0 .. N /\ i \notin S /\ i # 0
  BY <1>2 DEF Missing
<1>4. i \in 1 .. N /\ i - 1 \in 0 .. N /\ i - 1 \in Nat /\ ~ (i <= i - 1)
  BY <1>3
<1>5. i - 1 \in S
  BY <1>2, <1>4 DEF Missing
<1> QED BY <1>3, <1>4, <1>5

\* w is the rounds of a loop from base, whose round i does move[i].
IsWalk(w, N, X, base, move) ==
    /\ w \in [0 .. N -> X] /\ w[0] = base
    /\ \A i \in 1 .. N : w[i] = move[i][w[i - 1]]

LEMMA WalkExists ==
    ASSUME NEW N \in Nat, NEW X, NEW base \in X, NEW move \in [1 .. N -> [X -> X]]
    PROVE  \E w : IsWalk(w, N, X, base, move)
<1> DEFINE Goes(n) == \E w \in [0 .. n -> X] :
                         w[0] = base /\ \A i \in 1 .. n : w[i] = move[i][w[i - 1]]
           Good == {n \in 0 .. N : Goes(n)}
<1>1. 0 \in Good
  <2> DEFINE w == [i \in 0 .. 0 |-> base]
  <2>1. w \in [0 .. 0 -> X] /\ w[0] = base
    OBVIOUS
  <2>2. \A i \in 1 .. 0 : w[i] = move[i][w[i - 1]]
    OBVIOUS
  <2> HIDE DEF w
  <2>3. Goes(0)
    BY <2>1, <2>2
  <2> QED BY <2>3
<1>2. ASSUME NEW n \in 1 .. N, n - 1 \in Good
      PROVE  n \in Good
  <2>1. PICK v \in [0 .. n - 1 -> X] :
            v[0] = base /\ \A i \in 1 .. n - 1 : v[i] = move[i][v[i - 1]]
    BY <1>2
  <2>2. n - 1 \in 0 .. n - 1 /\ v[n - 1] \in X
    BY <2>1
  <2> DEFINE w == [i \in 0 .. n |-> IF i = n THEN move[n][v[n - 1]] ELSE v[i]]
  <2>3. move[n][v[n - 1]] \in X
    BY <2>2
  <2>4. w \in [0 .. n -> X]
    BY <2>1, <2>3
  <2>5. w[0] = base /\ w[n] = move[n][v[n - 1]]
    BY <2>1
  <2>6. \A i \in 0 .. n - 1 : w[i] = v[i]
    OBVIOUS
  <2> HIDE DEF w
  <2>7. \A i \in 1 .. n : w[i] = move[i][w[i - 1]]
    <3> SUFFICES ASSUME NEW i \in 1 .. n PROVE w[i] = move[i][w[i - 1]]
      OBVIOUS
    <3>1. i - 1 \in 0 .. n - 1 /\ w[i - 1] = v[i - 1]
      BY <2>6
    <3>2. CASE i = n
      BY <2>5, <3>1, <3>2
    <3>3. CASE i # n
      <4>1. i \in 1 .. n - 1 /\ i \in 0 .. n - 1
        BY <3>3
      <4> QED BY <2>1, <2>6, <3>1, <4>1
    <3> QED BY <3>2, <3>3
  <2>8. Goes(n)
    BY <2>4, <2>5, <2>7
  <2> QED BY <2>8
<1> HIDE DEF Good
<1>3. \A n \in 0 .. N : n \in Good
  BY <1>1, <1>2, EveryRound
<1>4. Goes(N)
  BY <1>3 DEF Good
<1> QED BY <1>4 DEF IsWalk

-----------------------------------------------------------------------------
(* The positions of a text, in order and in runs.                          *)

\* The place of x among the members of S.
RankOf(S, x) == Cardinality({y \in S : y <= x})

LEMMA RanksRise ==
    ASSUME NEW N \in Nat, NEW S \in SUBSET (1 .. N)
    PROVE  /\ Cardinality(S) \in Nat
           /\ \A x \in S : RankOf(S, x) \in 1 .. Cardinality(S)
           /\ \A x, y \in S : x < y => RankOf(S, x) < RankOf(S, y)
<1>1. IsFiniteSet(S)
  <2>1. IsFiniteSet(1 .. N)
    BY FS_Interval
  <2> QED BY <2>1, FS_Subset
<1>2. \A x \in S : IsFiniteSet({y \in S : y <= x})
  BY <1>1, FS_Subset
<1>3. \A T \in SUBSET S : IsFiniteSet(T) /\ Cardinality(T) \in Nat /\ Cardinality(T) <= Cardinality(S)
  BY <1>1, FS_Subset, FS_CardinalityType
<1>4. Cardinality(S) \in Nat
  BY <1>1, FS_CardinalityType
<1>5. ASSUME NEW x \in S PROVE RankOf(S, x) \in 1 .. Cardinality(S)
  <2> DEFINE T == {y \in S : y <= x}
  <2>1. T \in SUBSET S /\ x \in T
    OBVIOUS
  <2>2. Cardinality(T) \in Nat /\ Cardinality(T) <= Cardinality(S) /\ Cardinality(T) # 0
    <3>1. IsFiniteSet(T) /\ Cardinality(T) \in Nat /\ Cardinality(T) <= Cardinality(S)
      BY <1>3, <2>1
    <3> QED BY <2>1, <3>1, FS_EmptySet
  <2> QED BY <1>4, <2>2 DEF RankOf
<1>6. ASSUME NEW x \in S, NEW y \in S, x < y PROVE RankOf(S, x) < RankOf(S, y)
  <2> DEFINE T == {z \in S : z <= x}
             U == {z \in S : z <= y}
  <2>1. U \in SUBSET S /\ T \in SUBSET U /\ y \in U /\ y \notin T
    <3>1. x \in 1 .. N /\ y \in 1 .. N /\ \A z \in S : z \in 1 .. N
      OBVIOUS
    <3>2. \A z \in 1 .. N : z <= x => z <= y
      BY <1>6, <3>1
    <3>3. y <= y /\ ~ (y <= x)
      BY <1>6, <3>1
    <3> QED BY <3>1, <3>2, <3>3
  <2>2. IsFiniteSet(U)
    BY <1>3, <2>1
  <2> HIDE DEF T, U
  <2>3. Cardinality(T) <= Cardinality(U) /\ Cardinality(T) # Cardinality(U)
    BY <2>1, <2>2, FS_Subset
  <2>4. Cardinality(T) \in Nat /\ Cardinality(U) \in Nat
    BY <2>1, <2>2, FS_Subset, FS_CardinalityType
  <2>5. Cardinality(T) < Cardinality(U)
    BY <2>3, <2>4
  <2> QED BY <2>5 DEF RankOf, T, U
<1> QED BY <1>4, <1>5, <1>6

LEMMA RankTaken ==
    ASSUME NEW N \in Nat, NEW S \in SUBSET (1 .. N), NEW k \in 1 .. Cardinality(S)
    PROVE  \E x \in S : RankOf(S, x) = k
<1> DEFINE U == {x \in S : k <= RankOf(S, x)}
<1>1. /\ Cardinality(S) \in Nat /\ k \in Nat /\ 1 <= k /\ k <= Cardinality(S)
      /\ \A x \in S : RankOf(S, x) \in Nat
      /\ \A x, y \in S : x < y => RankOf(S, x) < RankOf(S, y)
  <2>1. /\ Cardinality(S) \in Nat
        /\ \A x \in S : RankOf(S, x) \in 1 .. Cardinality(S)
        /\ \A x, y \in S : x < y => RankOf(S, x) < RankOf(S, y)
    BY RanksRise
  <2> QED BY <2>1
<1> \A x \in S : x \in 1 .. N /\ x \in 0 .. N /\ x \in Nat
  OBVIOUS
<1>2. U # {}
  <2>1. S # {} /\ S \in SUBSET (0 .. N)
    BY <1>1, FS_EmptySet
  <2>2. PICK x \in S : \A y \in S : y <= x
    BY <2>1, GreatestExists
  <2>3. {y \in S : y <= x} = S
    BY <2>2
  <2>4. RankOf(S, x) = Cardinality(S)
    BY <2>3 DEF RankOf
  <2> QED BY <1>1, <2>4
<1>3. U \in SUBSET Nat
  <2>1. U \subseteq S
    OBVIOUS
  <2> HIDE DEF U
  <2> QED BY <2>1
<1>4. PICK x \in U : \A y \in U : x <= y
  BY <1>2, <1>3, LeastExists
<1>5. x \in S /\ x \in 1 .. N /\ k <= RankOf(S, x)
  BY <1>4
<1> HIDE DEF U
<1> DEFINE B == {y \in S : y < x}
<1>6. IsFiniteSet(S) /\ IsFiniteSet(B)
  <2>1. IsFiniteSet(1 .. N)
    BY FS_Interval
  <2>2. IsFiniteSet(S)
    BY <2>1, FS_Subset
  <2> QED BY <2>2, FS_Subset
<1>7. RankOf(S, x) = Cardinality(B) + 1
  <2>1. {y \in S : y <= x} = B \cup {x} /\ x \notin B
    <3>1. \A y \in 1 .. N : y <= x <=> y < x \/ y = x
      BY <1>5
    <3>2. ~ (x < x)
      BY <1>5
    <3> QED BY <1>5, <3>1, <3>2
  <2> HIDE DEF B
  <2>2. Cardinality(B \cup {x}) = Cardinality(B) + 1
    BY <1>6, <2>1, FS_AddElement
  <2> QED BY <2>1, <2>2 DEF RankOf
<1>8. Cardinality(B) \in Nat
  BY <1>6, FS_CardinalityType
<1>9. CASE RankOf(S, x) = k
  BY <1>5, <1>9
<1>10. CASE RankOf(S, x) # k
  <2>1. k <= Cardinality(B)
    BY <1>1, <1>5, <1>7, <1>8, <1>10
  <2>2. B # {}
    BY <1>1, <2>1, FS_EmptySet
  <2>3. B \in SUBSET (0 .. N)
    <3>1. B \subseteq S
      OBVIOUS
    <3> HIDE DEF B
    <3> QED BY <3>1
  <2>9. PICK z \in B : \A y \in B : y <= z
    BY <2>2, <2>3, GreatestExists
  <2>4. z \in S /\ z < x /\ z \in 1 .. N
    BY <2>9
  <2>5. {y \in S : y <= z} = B
    <3>1. \A y \in 1 .. N : y <= z => y < x
      BY <2>4, <1>5
    <3>2. \A y \in S : y < x => y <= z
      BY <2>9
    <3> QED BY <3>1, <3>2
  <2>6. RankOf(S, z) = Cardinality(B)
    BY <2>5 DEF RankOf
  <2> HIDE DEF B
  <2>7. z \in U
    BY <2>1, <2>4, <2>6 DEF U
  <2>8. x <= z
    BY <1>4, <2>7
  <2> QED BY <1>5, <2>4, <2>8
<1> QED BY <1>9, <1>10

LEMMA InOrderIs ==
    ASSUME NEW N \in Nat, NEW S \in SUBSET (1 .. N)
    PROVE  /\ Cardinality(S) \in Nat
           /\ InOrder(S) \in [1 .. Cardinality(S) -> S]
           /\ \A j, k \in 1 .. Cardinality(S) : j < k => InOrder(S)[j] < InOrder(S)[k]
           /\ \A x \in S : \E k \in 1 .. Cardinality(S) : InOrder(S)[k] = x
<1> DEFINE c == Cardinality(S)
           f == InOrder(S)
<1>1. /\ c \in Nat
      /\ \A x \in S : RankOf(S, x) \in 1 .. c
      /\ \A x, y \in S : x < y => RankOf(S, x) < RankOf(S, y)
  BY RanksRise
<1>2. f = [k \in 1 .. c |-> CHOOSE x \in S : RankOf(S, x) = k]
  BY DEF InOrder, RankOf
<1>3. ASSUME NEW k \in 1 .. c PROVE f[k] \in S /\ RankOf(S, f[k]) = k
  <2>1. \E x \in S : RankOf(S, x) = k
    BY RankTaken
  <2> QED BY <1>2, <2>1
<1> HIDE DEF f, c
<1>4. f \in [1 .. c -> S]
  BY <1>2, <1>3
<1>5. ASSUME NEW j \in 1 .. c, NEW k \in 1 .. c, j < k PROVE f[j] < f[k]
  <2>1. f[j] \in S /\ f[k] \in S /\ f[j] \in 1 .. N /\ f[k] \in 1 .. N
    BY <1>3
  <2>2. ~ (RankOf(S, f[k]) <= RankOf(S, f[j]))
    BY <1>3, <1>5, <1>1
  <2>3. f[k] < f[j] => RankOf(S, f[k]) < RankOf(S, f[j])
    BY <1>1, <2>1
  <2>4. RankOf(S, f[k]) \in Nat /\ RankOf(S, f[j]) \in Nat
    BY <1>1, <2>1
  <2>5. ~ (f[k] < f[j]) /\ f[k] # f[j]
    BY <2>2, <2>3, <2>4
  <2> QED BY <2>1, <2>5
<1>6. ASSUME NEW x \in S PROVE \E k \in 1 .. c : f[k] = x
  <2>1. PICK k \in 1 .. c : k = RankOf(S, x)
    BY <1>1
  <2>2. f[k] \in S /\ RankOf(S, f[k]) = k /\ f[k] \in 1 .. N /\ x \in 1 .. N
    BY <1>3
  <2>3. (x < f[k] => RankOf(S, x) < RankOf(S, f[k])) /\ (f[k] < x => RankOf(S, f[k]) < RankOf(S, x))
    BY <1>1, <2>2
  <2>4. f[k] = x
    BY <2>1, <2>2, <2>3
  <2> QED BY <2>4
<1> QED BY <1>1, <1>4, <1>5, <1>6 DEF f, c

LEMMA EndOfIs ==
    ASSUME NEW N \in Nat, NEW S \in SUBSET (1 .. N), NEW i \in S
    PROVE  /\ EndOf(S, i) \in S /\ EndOf(S, i) \in 1 .. N
           /\ i <= EndOf(S, i) /\ i .. EndOf(S, i) \subseteq S
           /\ EndOf(S, i) + 1 \notin S
           /\ \A p \in S : i <= p /\ i .. p \subseteq S => p <= EndOf(S, i)
<1> DEFINE T == {j \in S : i <= j /\ i .. j \subseteq S}
           e == EndOf(S, i)
<1>1. i \in 1 .. N /\ i .. i = {i}
  OBVIOUS
<1>2. T \in SUBSET (0 .. N) /\ i \in T
  <2>1. \A x \in S : x \in 0 .. N
    OBVIOUS
  <2>2. i <= i
    BY <1>1
  <2> QED BY <1>1, <2>1, <2>2
<1>3. \E x \in T : \A y \in T : x >= y
  <2>1. PICK x \in T : \A y \in T : y <= x
    BY <1>2, GreatestExists
  <2>2. \A y \in T : x >= y
    BY <2>1, <1>2
  <2> QED BY <2>2
<1>4. e \in T /\ \A y \in T : e >= y
  BY <1>3 DEF EndOf, Max
<1> HIDE DEF e
<1>5. e \in S /\ e \in 1 .. N /\ i <= e /\ i .. e \subseteq S
  BY <1>4
<1>6. ASSUME e + 1 \in S PROVE FALSE
  <2>1. i .. e + 1 = (i .. e) \cup {e + 1} /\ i <= e + 1
    BY <1>1, <1>5
  <2>2. e + 1 \in T
    BY <1>5, <1>6, <2>1
  <2>3. e >= e + 1
    BY <1>4, <2>2
  <2> QED BY <1>5, <2>3
<1>7. ASSUME NEW p \in S, i <= p, i .. p \subseteq S PROVE p <= e
  <2>1. p \in T
    BY <1>7
  <2>2. e >= p
    BY <1>4, <2>1
  <2> QED BY <1>5, <2>2
<1> QED BY <1>5, <1>6, <1>7 DEF e

-----------------------------------------------------------------------------
(* Pieces of a text.  A row of pieces tiles the positions lo to hi when    *)
(* they come in order, each is one of K, and together they cover N.        *)

Piece == [from : Nat, to : Nat]

Row(s, lo, hi) ==
    /\ s \in Seq(Piece)
    /\ \A k \in 1 .. Len(s) : lo <= s[k].from /\ s[k].from <= s[k].to /\ s[k].to <= hi
    /\ \A j, k \in 1 .. Len(s) : j < k => s[j].to < s[k].from

Tiles(s, lo, hi, K, N) ==
    /\ Row(s, lo, hi)
    /\ \A k \in 1 .. Len(s) : s[k] \in K
    /\ \A p \in N : \E k \in 1 .. Len(s) : p \in s[k].from .. s[k].to

\* Runs of S that can be made no longer.
Maximal(S) ==
    {r \in Piece : /\ r.from .. r.to \subseteq S
                   /\ r.from - 1 \notin S /\ r.to + 1 \notin S}

LEMMA RunsAre ==
    ASSUME NEW N \in Nat, NEW S \in SUBSET (1 .. N)
    PROVE  Tiles(Runs(S), 1, N, Maximal(S), S)
<1> DEFINE T == Starts(S)
           c == Cardinality(T)
           f == InOrder(T)
           R == Runs(S)
<1>1. T \in SUBSET S /\ T \in SUBSET (1 .. N) /\ \A i \in T : i - 1 \notin S
  BY DEF Starts
<1> HIDE DEF T
<1>2. /\ c \in Nat
      /\ \A k \in 1 .. c : f[k] \in T
      /\ \A j, k \in 1 .. c : j < k => f[j] < f[k]
      /\ \A x \in T : \E k \in 1 .. c : f[k] = x
  BY <1>1, InOrderIs
<1>3. R = [k \in 1 .. c |-> [from |-> f[k], to |-> EndOf(S, f[k])]]
  BY DEF Runs, T
<1> HIDE DEF R, c, f
<1>4. ASSUME NEW k \in 1 .. c
      PROVE  /\ R[k] \in Piece
             /\ R[k].from = f[k] /\ R[k].from \in 1 .. N /\ R[k].from - 1 \notin S
             /\ R[k].to = EndOf(S, f[k]) /\ R[k].to \in 1 .. N /\ R[k].from <= R[k].to
             /\ R[k].from .. R[k].to \subseteq S /\ R[k].to + 1 \notin S
  <2>1. f[k] \in S /\ f[k] \in 1 .. N /\ f[k] - 1 \notin S
    BY <1>1, <1>2
  <2>2. /\ EndOf(S, f[k]) \in 1 .. N /\ f[k] <= EndOf(S, f[k])
        /\ f[k] .. EndOf(S, f[k]) \subseteq S /\ EndOf(S, f[k]) + 1 \notin S
    BY <2>1, EndOfIs
  <2>3. R[k] = [from |-> f[k], to |-> EndOf(S, f[k])]
    BY <1>3
  <2> QED BY <2>1, <2>2, <2>3 DEF Piece
<1>5. R \in Seq(Piece) /\ Len(R) = c
  BY <1>2, <1>3, <1>4
<1>6. ASSUME NEW j \in 1 .. c, NEW k \in 1 .. c, j < k PROVE R[j].to < R[k].from
  <2>1. f[j] < f[k]
    BY <1>2, <1>6
  <2>2. R[j].from < R[k].from
    BY <1>4, <2>1
  <2>3. /\ R[j].from \in 1 .. N /\ R[j].to \in 1 .. N /\ R[k].from \in 1 .. N
        /\ R[j].from .. R[j].to \subseteq S /\ R[k].from - 1 \notin S
    BY <1>4
  <2>4. R[k].from - 1 \notin R[j].from .. R[j].to
    BY <2>3
  <2> QED BY <2>2, <2>3, <2>4
<1>7. ASSUME NEW p \in S PROVE \E k \in 1 .. c : p \in R[k].from .. R[k].to
  <2> DEFINE Q == {q \in 1 .. N : q <= p /\ q .. p \subseteq S}
  <2>1. p \in 1 .. N /\ p .. p = {p}
    OBVIOUS
  <2>2. Q \in SUBSET Nat /\ p \in Q
    BY <2>1
  <2>3. PICK q \in Q : \A r \in Q : q <= r
    BY <2>2, LeastExists
  <2>4. q \in 1 .. N /\ q <= p /\ q .. p \subseteq S /\ q \in S
    BY <2>1, <2>3
  <2>5. ASSUME q - 1 \in S PROVE FALSE
    <3>1. q - 1 \in 1 .. N /\ (q - 1) .. p = {q - 1} \cup (q .. p)
      BY <2>1, <2>4, <2>5
    <3>2. q - 1 \in Q
      BY <2>4, <2>5, <3>1
    <3> QED BY <2>3, <2>4, <3>2
  <2>6. q \in T
    BY <2>4, <2>5 DEF T, Starts
  <2>7. PICK k \in 1 .. c : f[k] = q
    BY <1>2, <2>6
  <2>8. p <= EndOf(S, q)
    BY <2>4, EndOfIs
  <2>9. R[k].from = q /\ R[k].to = EndOf(S, q) /\ R[k].to \in 1 .. N
    BY <1>4, <2>7
  <2> QED BY <2>1, <2>4, <2>8, <2>9
<1>8. \A k \in 1 .. c : R[k] \in Maximal(S)
  BY <1>4 DEF Maximal
<1>9. Row(R, 1, N)
  BY <1>4, <1>5, <1>6 DEF Row
<1> QED BY <1>5, <1>7, <1>8, <1>9 DEF Tiles, R
LEMMA TilesNone ==
    ASSUME NEW lo \in Int, NEW hi \in Int, NEW K
    PROVE  Tiles(<<>>, lo, hi, K, {})
BY DEF Tiles, Row

LEMMA TilesOne ==
    ASSUME NEW lo \in Int, NEW hi \in Int, NEW K, NEW r \in Piece, r \in K,
           lo <= r.from, r.from <= r.to, r.to <= hi
    PROVE  Tiles(<<r>>, lo, hi, K, r.from .. r.to)
<1> DEFINE s == <<r>>
<1>1. s \in Seq(Piece) /\ Len(s) = 1 /\ s[1] = r
  OBVIOUS
<1> HIDE DEF s
<1>2. \A k \in 1 .. Len(s) : k = 1
  BY <1>1
<1>3. Row(s, lo, hi)
  BY <1>1, <1>2 DEF Row
<1> QED BY <1>1, <1>2, <1>3 DEF Tiles, s

LEMMA TilesFewer ==
    ASSUME NEW lo \in Int, NEW hi \in Int, NEW K, NEW N, NEW s, Tiles(s, lo, hi, K, N),
           NEW lo2 \in Int, NEW hi2 \in Int, NEW K2, NEW N2,
           lo2 <= lo, hi <= hi2, \A r \in K \cap Piece : r \in K2, N2 \subseteq N
    PROVE  Tiles(s, lo2, hi2, K2, N2)
<1>1. s \in Seq(Piece) /\ \A k \in 1 .. Len(s) : s[k] \in K \cap Piece
  BY DEF Tiles, Row
<1>2. \A k \in 1 .. Len(s) : s[k].from \in Nat /\ s[k].to \in Nat
  BY <1>1 DEF Piece
<1>3. \A k \in 1 .. Len(s) : lo2 <= s[k].from /\ s[k].from <= s[k].to /\ s[k].to <= hi2
  BY <1>2 DEF Tiles, Row
<1>4. Row(s, lo2, hi2)
  BY <1>3 DEF Tiles, Row
<1> QED BY <1>1, <1>4 DEF Tiles

LEMMA TilesJoin ==
    ASSUME NEW lo \in Int, NEW m \in Int, NEW n \in Int, NEW hi \in Int, NEW K,
           NEW s, NEW r, NEW N, NEW M, Tiles(s, lo, m, K, N), Tiles(r, n, hi, K, M),
           m < n, m <= hi, lo <= n
    PROVE  Tiles(s \o r, lo, hi, K, N \cup M)
<1> DEFINE a == Len(s)
           b == Len(r)
           u == s \o r
<1>1. s \in Seq(Piece) /\ r \in Seq(Piece)
  BY DEF Tiles, Row
<1>2. /\ a \in Nat /\ b \in Nat /\ u \in Seq(Piece) /\ Len(u) = a + b
      /\ \A k \in 1 .. a + b : u[k] = IF k <= a THEN s[k] ELSE r[k - a]
  BY <1>1, ConcatProperties
<1> HIDE DEF a, b, u
<1>3. \A k \in 1 .. a : /\ u[k] = s[k] /\ u[k] \in Piece /\ u[k] \in K
                        /\ lo <= u[k].from /\ u[k].from <= u[k].to /\ u[k].to <= m
                        /\ u[k].from \in Nat /\ u[k].to \in Nat
  <2> TAKE k \in 1 .. a
  <2>1. k \in 1 .. a + b /\ k <= a
    BY <1>2
  <2>2. u[k] = s[k]
    BY <1>2, <2>1
  <2>3. s[k] \in Piece /\ s[k] \in K /\ lo <= s[k].from /\ s[k].from <= s[k].to /\ s[k].to <= m
    BY <1>1 DEF Tiles, Row, a
  <2> QED BY <2>2, <2>3 DEF Piece
<1>4. \A k \in 1 .. b : /\ u[a + k] = r[k] /\ u[a + k] \in Piece /\ u[a + k] \in K
                        /\ n <= u[a + k].from /\ u[a + k].from <= u[a + k].to /\ u[a + k].to <= hi
                        /\ u[a + k].from \in Nat /\ u[a + k].to \in Nat
  <2> TAKE k \in 1 .. b
  <2>1. a + k \in 1 .. a + b /\ ~ (a + k <= a) /\ (a + k) - a = k
    BY <1>2
  <2>2. u[a + k] = r[k]
    BY <1>2, <2>1
  <2>3. r[k] \in Piece /\ r[k] \in K /\ n <= r[k].from /\ r[k].from <= r[k].to /\ r[k].to <= hi
    BY <1>1 DEF Tiles, Row, b
  <2> QED BY <2>2, <2>3 DEF Piece
<1>5. \A k \in 1 .. a + b : k \in 1 .. a \/ \E i \in 1 .. b : k = a + i
  <2> TAKE k \in 1 .. a + b
  <2>1. ~ (k <= a) => k - a \in 1 .. b /\ k = a + (k - a)
    BY <1>2
  <2> QED BY <1>2, <2>1
<1>6. ASSUME NEW k \in 1 .. a + b
      PROVE  u[k] \in K /\ lo <= u[k].from /\ u[k].from <= u[k].to /\ u[k].to <= hi
  <2>1. CASE k \in 1 .. a
    BY <1>3, <2>1
  <2>2. CASE \E i \in 1 .. b : k = a + i
    BY <1>4, <2>2
  <2> QED BY <1>5, <2>1, <2>2
<1>7. ASSUME NEW j \in 1 .. a + b, NEW k \in 1 .. a + b, j < k
      PROVE  u[j].to < u[k].from
  <2>1. CASE j \in 1 .. a /\ k \in 1 .. a
    <3>1. s[j].to < s[k].from
      BY <1>7, <2>1 DEF Tiles, Row, a
    <3> QED BY <1>3, <2>1, <3>1
  <2>2. CASE j \in 1 .. a /\ \E i \in 1 .. b : k = a + i
    BY <1>3, <1>4, <2>2
  <2>3. ASSUME NEW i \in 1 .. b, j = a + i PROVE u[j].to < u[k].from
    <3>1. PICK h \in 1 .. b : k = a + h
      <4>1. k \notin 1 .. a
        BY <1>2, <1>7, <2>3
      <4> QED BY <1>5, <4>1
    <3>2. i < h
      BY <1>2, <1>7, <2>3, <3>1
    <3>3. r[i].to < r[h].from
      BY <3>2 DEF Tiles, Row, b
    <3> QED BY <1>4, <2>3, <3>1, <3>3
  <2> QED BY <1>5, <2>1, <2>2, <2>3
<1>8. Row(u, lo, hi)
  BY <1>2, <1>6, <1>7 DEF Row
<1>9. ASSUME NEW p \in N \cup M
      PROVE  \E k \in 1 .. a + b : p \in u[k].from .. u[k].to
  <2>1. CASE p \in N
    <3>1. PICK k \in 1 .. a : p \in s[k].from .. s[k].to
      BY <2>1 DEF Tiles, a
    <3>2. k \in 1 .. a + b /\ p \in u[k].from .. u[k].to
      BY <1>2, <1>3, <3>1
    <3> QED BY <3>2
  <2>2. CASE p \in M
    <3>1. PICK k \in 1 .. b : p \in r[k].from .. r[k].to
      BY <2>2 DEF Tiles, b
    <3>2. a + k \in 1 .. a + b /\ p \in u[a + k].from .. u[a + k].to
      BY <1>2, <1>4, <3>1
    <3> QED BY <3>2
  <2> QED BY <2>1, <2>2
<1>10. Tiles(u, lo, hi, K, N \cup M)
  BY <1>2, <1>6, <1>8, <1>9 DEF Tiles
<1> QED BY <1>10 DEF u

LEMMA TilesAppend ==
    ASSUME NEW lo \in Int, NEW m \in Int, NEW hi \in Int, NEW K,
           NEW s, NEW N, Tiles(s, lo, m, K, N),
           NEW r \in Piece, r \in K, lo <= r.from, m < r.from, r.from <= r.to, r.to <= hi
    PROVE  Tiles(Append(s, r), lo, hi, K, N \cup (r.from .. r.to))
<1>1. r.from \in Int /\ r.to \in Int /\ m <= hi /\ r.from <= r.from
  BY DEF Piece
<1>2. Tiles(<<r>>, r.from, hi, K, r.from .. r.to)
  BY <1>1, TilesOne
<1>3. Tiles(s \o <<r>>, lo, hi, K, N \cup (r.from .. r.to))
  BY <1>1, <1>2, TilesJoin
<1>4. s \in Seq(Piece)
  BY DEF Tiles, Row
<1>5. Append(s, r) = s \o <<r>>
  BY <1>4, AppendIsConcat
<1> QED BY <1>3, <1>5

-----------------------------------------------------------------------------
(* Where a long block is wrapped.                                          *)

LEMMA SentencesAre ==
    ASSUME NEW t \in Seq(Mark)
    PROVE  /\ Len(t) \in Nat /\ DOMAIN t = 1 .. Len(t)
           /\ Tiles(SentenceRanges(t), 1, Len(t), Maximal(1 .. Len(t) \ Gap(t)),
                    1 .. Len(t) \ Gap(t))
<1>1. Len(t) \in Nat /\ DOMAIN t = 1 .. Len(t)
  BY LenProperties
<1>2. (1 .. Len(t) \ Gap(t)) \in SUBSET (1 .. Len(t))
  OBVIOUS
<1>3. Tiles(Runs(1 .. Len(t) \ Gap(t)), 1, Len(t), Maximal(1 .. Len(t) \ Gap(t)),
            1 .. Len(t) \ Gap(t))
  BY <1>1, <1>2, RunsAre
<1> QED BY <1>1, <1>3 DEF SentenceRanges

\* Pieces that begin the text or follow what is between sentences.
After(G) == {r \in Piece : r.from - 1 \in {0} \cup G}

\* What the packing of sentences carries from one to the next.
Packed == [out : Seq(Piece), from : Nat, len : Int]

\* What is packed tiles all that is before the span still open.
Packing(G, acc, hi) ==
    /\ acc \in Packed /\ 1 <= acc.from /\ acc.from <= hi
    /\ acc.from - 1 \in {0} \cup G
    /\ Tiles(acc.out, 1, acc.from - 1, After(G), 1 .. acc.from - 1)

LEMMA PackIs ==
    ASSUME NEW acc \in Packed, NEW r \in Piece
    PROVE  /\ Pack(acc, r) \in Packed
           /\ \/ Pack(acc, r).from = acc.from /\ Pack(acc, r).out = acc.out
              \/ /\ acc.from < r.from /\ Pack(acc, r).from = r.from
                 /\ [from |-> acc.from, to |-> r.from - 1] \in Piece
                 /\ Pack(acc, r).out = Append(acc.out, [from |-> acc.from, to |-> r.from - 1])
<1> DEFINE n == r.to - r.from + 1
           full == acc.len + n > MaxSpanChars /\ r.from > acc.from
           p == [from |-> acc.from, to |-> r.from - 1]
<1>1. /\ acc.out \in Seq(Piece) /\ acc.from \in Nat /\ acc.len \in Int
      /\ r.from \in Nat /\ r.to \in Nat /\ n \in Int
  BY DEF Packed, Piece
<1>2. CASE full
  <2>1. Pack(acc, r) = [out |-> Append(acc.out, p), from |-> r.from, len |-> n + 1]
    BY <1>2 DEF Pack, NextStart
  <2>2. acc.from < r.from
    BY <1>1, <1>2
  <2>3. p \in Piece
    BY <1>1, <2>2 DEF Piece
  <2> HIDE DEF p, n
  <2>4. Append(acc.out, p) \in Seq(Piece)
    BY <1>1, <2>3, AppendProperties
  <2>5. Pack(acc, r) \in Packed /\ Pack(acc, r).from = r.from
        /\ Pack(acc, r).out = Append(acc.out, p)
    BY <1>1, <2>1, <2>4 DEF Packed
  <2> QED BY <2>2, <2>3, <2>5 DEF p
<1>3. CASE ~ full
  <2>1. Pack(acc, r) = [acc EXCEPT !.len = @ + n + 1]
    BY <1>3 DEF Pack
  <2> HIDE DEF n
  <2>2. Pack(acc, r) \in Packed /\ Pack(acc, r).from = acc.from /\ Pack(acc, r).out = acc.out
    BY <1>1, <2>1 DEF Packed
  <2> QED BY <2>2
<1> QED BY <1>2, <1>3

LEMMA PackGoesOn ==
    ASSUME NEW G, NEW L \in Nat, NEW acc, NEW r \in Maximal(1 .. L \ G),
           NEW hi \in Int, Packing(G, acc, hi),
           1 <= r.from, r.from <= r.to, r.to <= L, hi <= r.from
    PROVE  Packing(G, Pack(acc, r), r.from)
<1>1. r \in Piece /\ r.from \in Nat /\ r.to \in Nat /\ r.from - 1 \notin 1 .. L \ G
  BY DEF Maximal, Piece
<1>2. /\ acc \in Packed /\ acc.from \in Nat /\ 1 <= acc.from /\ acc.from <= hi
      /\ acc.from - 1 \in {0} \cup G
      /\ Tiles(acc.out, 1, acc.from - 1, After(G), 1 .. acc.from - 1)
  BY DEF Packing, Packed
<1>3. acc.from <= r.from
  BY <1>1, <1>2
<1> DEFINE b == Pack(acc, r)
           p == [from |-> acc.from, to |-> r.from - 1]
<1>4. /\ b \in Packed
      /\ \/ b.from = acc.from /\ b.out = acc.out
         \/ acc.from < r.from /\ b.from = r.from /\ p \in Piece /\ b.out = Append(acc.out, p)
  BY <1>1, <1>2, PackIs
<1> HIDE DEF b
<1>5. CASE b.from = acc.from /\ b.out = acc.out
  <2>1. Packing(G, b, r.from)
    BY <1>2, <1>3, <1>4, <1>5 DEF Packing
  <2> QED BY <2>1 DEF b
<1>6. CASE acc.from < r.from /\ b.from = r.from /\ p \in Piece /\ b.out = Append(acc.out, p)
  <2>1. r.from - 1 \in 1 .. L /\ r.from - 1 \in G
    BY <1>1, <1>2, <1>6
  <2>2. p \in After(G) /\ p.from = acc.from /\ p.to = r.from - 1
    BY <1>2, <1>6 DEF After
  <2>3. (1 .. acc.from - 1) \cup (acc.from .. r.from - 1) = 1 .. r.from - 1
    BY <1>1, <1>2, <1>3
  <2>4. /\ 1 \in Int /\ acc.from - 1 \in Int /\ r.from - 1 \in Int
        /\ 1 <= acc.from /\ acc.from - 1 < acc.from /\ acc.from <= r.from - 1
        /\ r.from - 1 <= r.from - 1
    BY <1>1, <1>2, <1>6
  <2> HIDE DEF p
  <2>5. Tiles(Append(acc.out, p), 1, r.from - 1, After(G),
              (1 .. acc.from - 1) \cup (p.from .. p.to))
    BY <1>2, <1>6, <2>2, <2>4, TilesAppend
  <2>6. Tiles(b.out, 1, b.from - 1, After(G), 1 .. b.from - 1)
    BY <1>6, <2>2, <2>3, <2>5
  <2>7. 1 <= b.from /\ b.from <= r.from /\ b.from - 1 \in {0} \cup G
    BY <1>1, <1>6, <2>1
  <2>8. Packing(G, b, r.from)
    BY <1>4, <2>6, <2>7 DEF Packing
  <2> QED BY <2>8 DEF b
<1> QED BY <1>4, <1>5, <1>6

WrapRound(s, f, k) == IF k = 0 THEN [out |-> <<>>, from |-> 1, len |-> 0] ELSE Pack(f[k - 1], s[k])
IsWrapping(s, f) == f = [k \in 0 .. Len(s) |-> WrapRound(s, f, k)]

LEMMA WrappingExists ==
    ASSUME NEW s \in Seq(Piece)
    PROVE  \E f : IsWrapping(s, f)
<1> DEFINE N == Len(s)
           base == [out |-> <<>>, from |-> 1, len |-> 0]
           move == [k \in 1 .. N |-> [acc \in Packed |-> Pack(acc, s[k])]]
<1>1. N \in Nat /\ \A k \in 1 .. N : s[k] \in Piece
  BY LenProperties
<1>2. base \in Packed
  BY DEF Packed
<1>3. move \in [1 .. N -> [Packed -> Packed]]
  BY <1>1, PackIs
<1>4. \A k \in 1 .. N, acc \in Packed : move[k][acc] = Pack(acc, s[k])
  OBVIOUS
<1> HIDE DEF N, base, move
<1>5. PICK w : IsWalk(w, N, Packed, base, move)
  BY <1>1, <1>2, <1>3, WalkExists
<1>6. w \in [0 .. N -> Packed] /\ w[0] = base /\ \A k \in 1 .. N : w[k] = move[k][w[k - 1]]
  BY <1>5 DEF IsWalk
<1>7. ASSUME NEW k \in 0 .. N PROVE w[k] = WrapRound(s, w, k)
  <2>1. CASE k = 0
    BY <1>6, <2>1 DEF WrapRound, base
  <2>2. CASE k # 0
    <3>1. k \in 1 .. N /\ k - 1 \in 0 .. N
      BY <1>1, <2>2
    <3>2. w[k] = Pack(w[k - 1], s[k])
      BY <1>4, <1>6, <3>1
    <3> QED BY <2>2, <3>2 DEF WrapRound
  <2> QED BY <2>1, <2>2
<1>8. w = [k \in 0 .. N |-> WrapRound(s, w, k)]
  BY <1>6, <1>7
<1>9. IsWrapping(s, w)
  BY <1>8 DEF IsWrapping, N
<1> QED BY <1>9

LEMMA WrapTiles ==
    ASSUME NEW t \in Seq(Mark), t # <<>>
    PROVE  Tiles(Wrap(t), 1, Len(t), After(Gap(t)), 1 .. Len(t))
<1> DEFINE L == Len(t)
           G == Gap(t)
           s == SentenceRanges(t)
           N == Len(s)
           f == CHOOSE x : IsWrapping(s, x)
           start(k) == IF k = 0 THEN 1 ELSE s[k].from
<1>1. L \in Nat /\ 1 <= L
  BY EmptySeq, LenProperties
<1>2. Tiles(s, 1, L, Maximal(1 .. L \ G), 1 .. L \ G)
  BY SentencesAre
<1>3. Wrap(t) = Append(f[N].out, [from |-> f[N].from, to |-> L])
  BY DEF Wrap, IsWrapping, WrapRound
<1> HIDE DEF s
<1>4. s \in Seq(Piece) /\ N \in Nat
  BY <1>2, LenProperties DEF Tiles, Row
<1>5. IsWrapping(s, f)
  BY <1>4, WrappingExists
<1> HIDE DEF f, L, G, N
<1>6. \A k \in 0 .. N : f[k] = WrapRound(s, f, k)
  BY <1>5 DEF IsWrapping, N
<1>7. ASSUME NEW k \in 1 .. N
      PROVE  /\ s[k] \in Maximal(1 .. L \ G) /\ s[k] \in Piece
             /\ 1 <= s[k].from /\ s[k].from <= s[k].to /\ s[k].to <= L
             /\ s[k].from \in Int /\ s[k].from <= L /\ start(k) = s[k].from
             /\ start(k - 1) \in Int /\ start(k - 1) <= s[k].from
  <2>1. /\ s[k] \in Maximal(1 .. L \ G) /\ s[k] \in Piece
        /\ 1 <= s[k].from /\ s[k].from <= s[k].to /\ s[k].to <= L
    <3>1. s[k] \in Maximal(1 .. L \ G)
      BY <1>2 DEF Tiles, N
    <3>2. s[k] \in Piece
      BY <3>1 DEF Maximal
    <3>3. Row(s, 1, L)
      BY <1>2 DEF Tiles
    <3> QED BY <3>1, <3>2, <3>3 DEF Row, N
  <2>2. s[k].from \in Nat /\ s[k].to \in Nat /\ s[k].from <= L /\ start(k) = s[k].from
    BY <1>1, <2>1 DEF Piece
  <2>3. CASE k = 1
    BY <2>1, <2>2, <2>3
  <2>4. CASE k # 1
    <3>1. k - 1 \in 1 .. N /\ k - 1 < k /\ k - 1 # 0
      BY <1>4, <2>4
    <3>2. s[k - 1].to < s[k].from /\ s[k - 1].from <= s[k - 1].to /\ s[k - 1] \in Piece
      BY <1>2, <1>4, <3>1 DEF Tiles, Row, N
    <3>3. s[k - 1].from \in Nat /\ s[k - 1].to \in Nat
      BY <3>2 DEF Piece
    <3>4. start(k - 1) = s[k - 1].from
      BY <3>1
    <3> HIDE DEF start
    <3> QED BY <2>1, <2>2, <3>2, <3>3, <3>4
  <2> QED BY <2>1, <2>2, <2>3, <2>4
<1> DEFINE Good == {k \in 0 .. N : Packing(G, f[k], start(k))}
<1>8. 0 \in Good
  <2>1. f[0] = [out |-> <<>>, from |-> 1, len |-> 0]
    BY <1>4, <1>6 DEF WrapRound, N
  <2>2. f[0] \in Packed /\ f[0].from = 1 /\ f[0].out = <<>>
    BY <2>1 DEF Packed
  <2>3. 1 .. 1 - 1 = {}
    OBVIOUS
  <2>4. Tiles(<<>>, 1, 1 - 1, After(G), {})
    BY TilesNone
  <2>5. Packing(G, f[0], 1)
    BY <2>2, <2>3, <2>4 DEF Packing
  <2>6. start(0) = 1 /\ 0 \in 0 .. N
    BY <1>4
  <2> QED BY <2>5, <2>6
<1>9. ASSUME NEW k \in 1 .. N, k - 1 \in Good
      PROVE  k \in Good
  <2>1. k \in 0 .. N /\ k # 0
    BY <1>4
  <2>2. f[k] = Pack(f[k - 1], s[k])
    BY <1>6, <2>1 DEF WrapRound
  <2>3. Packing(G, f[k - 1], start(k - 1))
    BY <1>9
  <2>4. /\ s[k] \in Maximal(1 .. L \ G)
        /\ 1 <= s[k].from /\ s[k].from <= s[k].to /\ s[k].to <= L
        /\ start(k) = s[k].from /\ start(k - 1) \in Int /\ start(k - 1) <= s[k].from
    BY <1>7
  <2> HIDE DEF start
  <2>5. Packing(G, Pack(f[k - 1], s[k]), s[k].from)
    BY <1>1, <2>3, <2>4, PackGoesOn
  <2> QED BY <2>1, <2>2, <2>4, <2>5
<1> HIDE DEF Good
<1>10. \A k \in 0 .. N : k \in Good
  BY <1>4, <1>8, <1>9, EveryRound
<1>11. Packing(G, f[N], start(N))
  BY <1>4, <1>10 DEF Good, N
<1>12. start(N) \in Int /\ start(N) <= L
  BY <1>1, <1>4, <1>7 DEF N
<1> HIDE DEF start
<1> DEFINE a == f[N]
           p == [from |-> a.from, to |-> L]
<1>13. /\ a \in Packed /\ a.from \in Nat /\ 1 <= a.from /\ a.from <= start(N)
       /\ a.from - 1 \in {0} \cup G
       /\ Tiles(a.out, 1, a.from - 1, After(G), 1 .. a.from - 1)
  BY <1>11 DEF Packing, Packed
<1> HIDE DEF a
<1>14. a.from <= L
  BY <1>1, <1>12, <1>13
<1>15. p \in Piece /\ p \in After(G) /\ p.from = a.from /\ p.to = L
  BY <1>1, <1>13 DEF Piece, After
<1>16. Wrap(t) = Append(a.out, p)
  BY <1>3 DEF a
<1> HIDE DEF p
<1>17. (1 .. a.from - 1) \cup (a.from .. L) = 1 .. L
  BY <1>1, <1>13, <1>14
<1>18. a.from - 1 \in Int /\ L \in Int /\ a.from - 1 < a.from /\ L <= L
  BY <1>1, <1>13
<1>19. Tiles(Append(a.out, p), 1, L, After(G), (1 .. a.from - 1) \cup (p.from .. p.to))
  BY <1>13, <1>14, <1>15, <1>18, TilesAppend
<1>20. Tiles(Wrap(t), 1, L, After(G), 1 .. L)
  BY <1>15, <1>16, <1>17, <1>19
<1> QED BY <1>20 DEF L, G

-----------------------------------------------------------------------------
(* A paragraph and a text.                                                 *)

LEMMA BlockIs ==
    ASSUME NEW t \in Seq(Mark), NEW i \in 1 .. Len(t), NEW j \in 1 .. Len(t), i <= j
    PROVE  /\ SubSeq(t, i, j) \in Seq(Mark) /\ SubSeq(t, i, j) # <<>>
           /\ Len(SubSeq(t, i, j)) = j - i + 1
           /\ \A k \in 1 .. j - i + 1 : SubSeq(t, i, j)[k] = t[i + k - 1]
<1>1. Len(t) \in Nat /\ t \in [1 .. Len(t) -> Mark]
  BY LenProperties
<1>2. SubSeq(t, i, j) = [k \in 1 .. j - i + 1 |-> t[i + k - 1]]
  BY <1>1
<1>3. j - i + 1 \in Nat /\ 1 <= j - i + 1
  BY <1>1
<1>4. ASSUME NEW k \in 1 .. j - i + 1 PROVE t[i + k - 1] \in Mark
  <2>1. i + k - 1 \in 1 .. Len(t)
    BY <1>1
  <2> QED BY <1>1, <2>1
<1>5. SubSeq(t, i, j) \in Seq(Mark) /\ Len(SubSeq(t, i, j)) = j - i + 1
  BY <1>2, <1>3, <1>4
<1>6. SubSeq(t, i, j) # <<>>
  BY <1>3, <1>5
<1> QED BY <1>2, <1>5, <1>6

LEMMA GapShift ==
    ASSUME NEW t \in Seq(Mark), NEW i \in 1 .. Len(t), NEW j \in 1 .. Len(t), i <= j,
           NEW p \in Gap(SubSeq(t, i, j))
    PROVE  p \in 1 .. j - i + 1 /\ i + p - 1 \in Gap(t)
<1> DEFINE b == SubSeq(t, i, j)
           n == j - i + 1
           L == Len(t)
           q == i + p - 1
<1>1. L \in Nat /\ DOMAIN t = 1 .. L /\ i \in Nat /\ j \in Nat /\ 1 <= i /\ j <= L /\ n \in Nat
  BY LenProperties
<1>2. DOMAIN b = 1 .. n /\ \A k \in 1 .. n : b[k] = t[i + k - 1]
  BY BlockIs, LenProperties
<1>3. p \in DOMAIN b /\ \E d \in 1 .. p :
         /\ b[d] = "newline" \/ (d > 1 /\ b[d - 1] = "stop")
         /\ Blank(b, d, p)
  BY DEF Gap
<1> HIDE DEF b
<1>4. p \in 1 .. n
  BY <1>2, <1>3
<1>5. PICK d \in 1 .. p :
         /\ b[d] = "newline" \/ (d > 1 /\ b[d - 1] = "stop")
         /\ Blank(b, d, p)
  BY <1>3
<1>6. PICK e \in Int : e = i + d - 1
  BY <1>1, <1>4
<1>7. d \in 1 .. n /\ (d > 1 => d - 1 \in 1 .. n) /\ i + (d - 1) - 1 = e - 1
  BY <1>1, <1>4, <1>6
<1>8. q \in 1 .. L /\ e \in 1 .. q /\ (d > 1 => e > 1)
  BY <1>1, <1>4, <1>6
<1>9. t[e] = "newline" \/ (e > 1 /\ t[e - 1] = "stop")
  <2>1. b[d] = t[e]
    BY <1>2, <1>6, <1>7
  <2>2. d > 1 => b[d - 1] = t[e - 1]
    BY <1>2, <1>7
  <2> QED BY <1>5, <1>8, <2>1, <2>2
<1>10. Blank(t, e, q)
  <2> SUFFICES ASSUME NEW k \in e .. q PROVE t[k] \in White
    BY DEF Blank
  <2>1. PICK h \in Int : h = k - i + 1
    BY <1>1
  <2>2. k \in Int /\ q \in Int
    BY <1>6, <1>8
  <2>3. h \in d .. p /\ h \in 1 .. n /\ k = i + h - 1
    BY <1>1, <1>4, <1>6, <2>1, <2>2
  <2>4. b[h] \in White
    BY <1>5, <2>3 DEF Blank
  <2> QED BY <1>2, <2>3, <2>4
<1>11. q \in Gap(t)
  BY <1>1, <1>8, <1>9, <1>10 DEF Gap
<1> QED BY <1>4, <1>11

LEMMA ShiftTiles ==
    ASSUME NEW at \in Nat, 1 <= at, NEW n \in Nat, NEW K, NEW K2,
           NEW s, Tiles(s, 1, n, K, 1 .. n),
           \A k \in 1 .. Len(s) : Shift(at, s[k]) \in K2
    PROVE  Tiles([k \in DOMAIN s |-> Shift(at, s[k])], at, at + n - 1, K2, at .. at + n - 1)
<1> DEFINE u == [k \in DOMAIN s |-> Shift(at, s[k])]
           N == Len(s)
<1>1. s \in Seq(Piece) /\ N \in Nat /\ DOMAIN s = 1 .. N /\ \A k \in 1 .. N : s[k] \in Piece
  BY LenProperties DEF Tiles, Row
<1>2. \A k \in 1 .. N : /\ s[k].from \in Nat /\ s[k].to \in Nat
                        /\ 1 <= s[k].from /\ s[k].from <= s[k].to /\ s[k].to <= n
  BY <1>1 DEF Tiles, Row, Piece
<1>3. ASSUME NEW k \in 1 .. N
      PROVE  /\ u[k] \in Piece /\ u[k].from = at + s[k].from - 1 /\ u[k].to = at + s[k].to - 1
             /\ at <= u[k].from /\ u[k].from <= u[k].to /\ u[k].to <= at + n - 1
  <2>1. u[k] = [from |-> at + s[k].from - 1, to |-> at + s[k].to - 1]
    BY <1>1 DEF Shift
  <2> HIDE DEF u
  <2>2. u[k].from = at + s[k].from - 1 /\ u[k].to = at + s[k].to - 1
    BY <2>1
  <2>3. at + s[k].from - 1 \in Nat /\ at + s[k].to - 1 \in Nat
    BY <1>2
  <2>4. u[k] \in Piece
    BY <2>1, <2>3 DEF Piece
  <2> QED BY <1>2, <2>2, <2>4
<1>4. u \in Seq(Piece) /\ Len(u) = N
  <2>1. u = [k \in 1 .. N |-> u[k]]
    BY <1>1
  <2> HIDE DEF u
  <2> QED BY <1>1, <1>3, <2>1
<1>5. \A k \in 1 .. N : u[k] \in K2
  BY <1>1
<1> HIDE DEF u
<1>6. ASSUME NEW j \in 1 .. N, NEW k \in 1 .. N, j < k PROVE u[j].to < u[k].from
  <2>1. s[j].to < s[k].from
    BY <1>6 DEF Tiles, Row
  <2> QED BY <1>2, <1>3, <2>1
<1>7. Row(u, at, at + n - 1)
  BY <1>3, <1>4, <1>6 DEF Row
<1>8. ASSUME NEW p \in at .. at + n - 1
      PROVE  \E k \in 1 .. N : p \in u[k].from .. u[k].to
  <2>1. PICK q \in Int : q = p - at + 1
    OBVIOUS
  <2>2. q \in 1 .. n /\ p = at + q - 1
    BY <2>1
  <2>3. PICK k \in 1 .. N : q \in s[k].from .. s[k].to
    BY <2>2 DEF Tiles
  <2>4. u[k].from <= p /\ p <= u[k].to /\ u[k].from \in Int /\ u[k].to \in Int
    <3>1. s[k].from <= q /\ q <= s[k].to
      BY <1>2, <2>3
    <3>2. u[k].from = at + s[k].from - 1 /\ u[k].to = at + s[k].to - 1
      BY <1>3
    <3> QED BY <1>2, <2>2, <3>1, <3>2
  <2> QED BY <2>4
<1>9. Tiles(u, at, at + n - 1, K2, at .. at + n - 1)
  BY <1>4, <1>5, <1>7, <1>8 DEF Tiles
<1> QED BY <1>9 DEF u

\* Pieces that tear no sentence and reach over no paragraph break.
Whole(t) == {r \in Piece : /\ (r.from .. r.to) \cap Cut(t) = {}
                           /\ r.from - 1 \in {0} \cup Cut(t) \cup Gap(t)}

WordsAt(t, i, j) == {p \in i .. j : t[p] \in Word}

LEMMA WhitePart == Word \cap White = {}
BY RawStoreAssumption

LEMMA ShiftStays ==
    ASSUME NEW i \in Nat, NEW j \in Nat, NEW u \in Nat, NEW v \in Nat,
           1 <= u, v <= j - i + 1
    PROVE  i + u - 1 .. i + v - 1 \subseteq i .. j
<1> SUFFICES ASSUME NEW y \in i + u - 1 .. i + v - 1 PROVE y \in i .. j
  OBVIOUS
<1> QED OBVIOUS

LEMMA ChunkOfTiles ==
    ASSUME NEW t \in Seq(Mark), NEW r \in Maximal(1 .. Len(t) \ Cut(t)),
           1 <= r.from, r.from <= r.to, r.to <= Len(t)
    PROVE  Tiles(ChunkOf(t, r), r.from, r.to, Whole(t), WordsAt(t, r.from, r.to))
<1> DEFINE i == r.from
           j == r.to
           b == SubSeq(t, i, j)
           n == j - i + 1
           L == Len(t)
           W == WordsAt(t, i, j)
<1>1. /\ L \in Nat /\ i \in Nat /\ j \in Nat /\ i \in 1 .. L /\ j \in 1 .. L /\ r \in Piece
      /\ i - 1 \notin 1 .. L \ Cut(t) /\ i .. j \subseteq 1 .. L \ Cut(t)
  BY LenProperties DEF Maximal, Piece
<1>2. i - 1 \in {0} \cup Cut(t)
  <2>1. i - 1 = 0 \/ i - 1 \in 1 .. L
    BY <1>1
  <2> QED BY <1>1, <2>1
<1>3. W \subseteq i .. j
  BY DEF WordsAt
<1>4. CASE Len(b) > MaxSpanChars
  <2>1. b \in Seq(Mark) /\ b # <<>> /\ Len(b) = n
    BY <1>1, BlockIs
  <2> DEFINE s == Wrap(b)
             K == After(Gap(b))
  <2>2. Tiles(s, 1, n, K, 1 .. n)
    BY <2>1, WrapTiles
  <2>3. ChunkOf(t, r) = [k \in DOMAIN s |-> Shift(i, s[k])]
    BY <1>4 DEF ChunkOf
  <2> HIDE DEF s
  <2>4. ASSUME NEW k \in 1 .. Len(s) PROVE Shift(i, s[k]) \in Whole(t)
    <3> DEFINE q == s[k]
               x == Shift(i, q)
    <3>1. /\ q \in Piece /\ q \in K /\ 1 <= q.from /\ q.from <= q.to /\ q.to <= n
          /\ q.from \in Nat /\ q.to \in Nat
      BY <2>2 DEF Tiles, Row, After, Piece
    <3> HIDE DEF q
    <3>2. x.from = i + q.from - 1 /\ x.to = i + q.to - 1
      BY DEF Shift
    <3>3. x \in Piece
      <4>1. i + q.from - 1 \in Nat /\ i + q.to - 1 \in Nat
        BY <1>1, <3>1
      <4> QED BY <4>1 DEF Shift, Piece
    <3>4. x.from .. x.to \subseteq i .. j
      <4> DEFINE u == q.from
                 v == q.to
      <4>1. i \in Nat /\ j \in Nat /\ u \in Nat /\ v \in Nat /\ 1 <= u /\ v <= j - i + 1
        BY <1>1, <3>1
      <4>2. x.from = i + u - 1 /\ x.to = i + v - 1
        BY <3>2
      <4> HIDE DEF i, j, u, v, x
      <4>3. i + u - 1 .. i + v - 1 \subseteq i .. j
        BY <4>1, ShiftStays
      <4> QED BY <4>2, <4>3
    <3>5. x.from - 1 \in {0} \cup Cut(t) \cup Gap(t)
      <4>1. CASE q.from - 1 = 0
        <5>1. x.from - 1 = i - 1
          BY <1>1, <3>1, <3>2, <4>1
        <5> QED BY <1>2, <5>1
      <4>2. CASE q.from - 1 \in Gap(b)
        <5>1. i + (q.from - 1) - 1 \in Gap(t)
          BY <1>1, <4>2, GapShift
        <5>2. x.from - 1 = i + (q.from - 1) - 1
          BY <1>1, <3>1, <3>2
        <5> QED BY <5>1, <5>2
      <4> QED BY <3>1, <4>1, <4>2 DEF After
    <3>6. x \in Whole(t)
      <4> HIDE DEF x
      <4> QED BY <1>1, <3>3, <3>4, <3>5 DEF Whole
    <3> QED BY <3>6 DEF q
  <2>5. n \in Nat /\ 1 <= i /\ i + n - 1 = j
    BY <1>1
  <2> HIDE DEF n, K
  <2>6. Tiles([k \in DOMAIN s |-> Shift(i, s[k])], i, i + n - 1, Whole(t), i .. i + n - 1)
    BY <1>1, <2>2, <2>4, <2>5, ShiftTiles
  <2>7. Tiles(ChunkOf(t, r), i, j, Whole(t), i .. j)
    BY <2>3, <2>5, <2>6
  <2> QED BY <1>1, <1>3, <2>7, TilesFewer
<1>5. CASE ~ (Len(b) > MaxSpanChars) /\ Blank(t, i, j)
  <2>1. ChunkOf(t, r) = <<>>
    BY <1>5 DEF ChunkOf
  <2>2. W = {}
    BY <1>5, WhitePart DEF Blank, WordsAt
  <2>3. Tiles(<<>>, i, j, Whole(t), {})
    BY <1>1, TilesNone
  <2> QED BY <2>1, <2>2, <2>3
<1>6. CASE ~ (Len(b) > MaxSpanChars) /\ ~ Blank(t, i, j)
  <2>1. ChunkOf(t, r) = <<r>>
    BY <1>6 DEF ChunkOf
  <2>2. r \in Whole(t)
    BY <1>1, <1>2 DEF Whole
  <2>3. i <= i /\ j <= j
    BY <1>1
  <2>4. Tiles(<<r>>, i, j, Whole(t), i .. j)
    <3>1. r.from \in Int /\ r.to \in Int /\ r \in Piece /\ r.from <= r.from /\ r.to <= r.to
      BY <1>1, <2>3
    <3> HIDE DEF i, j
    <3>2. Tiles(<<r>>, r.from, r.to, Whole(t), r.from .. r.to)
      BY <2>2, <3>1, TilesOne
    <3> QED BY <3>2 DEF i, j
  <2> QED BY <1>1, <1>3, <2>1, <2>3, <2>4, TilesFewer
<1> QED BY <1>4, <1>5, <1>6

LEMMA ParagraphsAre ==
    ASSUME NEW t \in Seq(Mark)
    PROVE  Tiles(ParagraphRanges(t), 1, Len(t), Maximal(1 .. Len(t) \ Cut(t)),
                 1 .. Len(t) \ Cut(t))
<1>1. Len(t) \in Nat /\ DOMAIN t = 1 .. Len(t)
  BY LenProperties
<1>2. (1 .. Len(t) \ Cut(t)) \in SUBSET (1 .. Len(t))
  OBVIOUS
<1>3. Tiles(Runs(1 .. Len(t) \ Cut(t)), 1, Len(t), Maximal(1 .. Len(t) \ Cut(t)),
            1 .. Len(t) \ Cut(t))
  BY <1>1, <1>2, RunsAre
<1> QED BY <1>1, <1>3 DEF ParagraphRanges

ChunkRound(t, s, f, k) == IF k = 0 THEN <<>> ELSE f[k - 1] \o ChunkOf(t, s[k])
IsChunking(t, s, f) == f = [k \in 0 .. Len(s) |-> ChunkRound(t, s, f, k)]

LEMMA ChunkingExists ==
    ASSUME NEW t, NEW s, Len(s) \in Nat,
           \A k \in 1 .. Len(s) : ChunkOf(t, s[k]) \in Seq(Piece)
    PROVE  \E f : IsChunking(t, s, f)
<1> DEFINE N == Len(s)
           X == Seq(Piece)
           move == [k \in 1 .. N |-> [u \in X |-> u \o ChunkOf(t, s[k])]]
<1>1. N \in Nat
  OBVIOUS
<1>2. <<>> \in X
  OBVIOUS
<1>3. move \in [1 .. N -> [X -> X]]
  <2>1. \A k \in 1 .. N, u \in X : u \o ChunkOf(t, s[k]) \in X
    BY ConcatProperties
  <2> QED BY <2>1
<1>4. \A k \in 1 .. N, u \in X : move[k][u] = u \o ChunkOf(t, s[k])
  OBVIOUS
<1> HIDE DEF N, X, move
<1>5. PICK w : IsWalk(w, N, X, <<>>, move)
  BY <1>1, <1>2, <1>3, WalkExists
<1>6. w \in [0 .. N -> X] /\ w[0] = <<>> /\ \A k \in 1 .. N : w[k] = move[k][w[k - 1]]
  BY <1>5 DEF IsWalk
<1>7. ASSUME NEW k \in 0 .. N PROVE w[k] = ChunkRound(t, s, w, k)
  <2>1. CASE k = 0
    BY <1>6, <2>1 DEF ChunkRound
  <2>2. CASE k # 0
    <3>1. k \in 1 .. N /\ k - 1 \in 0 .. N
      BY <1>1, <2>2
    <3>2. w[k] = w[k - 1] \o ChunkOf(t, s[k])
      BY <1>4, <1>6, <3>1
    <3> QED BY <2>2, <3>2 DEF ChunkRound
  <2> QED BY <2>1, <2>2
<1>8. w = [k \in 0 .. N |-> ChunkRound(t, s, w, k)]
  BY <1>6, <1>7
<1>9. IsChunking(t, s, w)
  BY <1>8 DEF IsChunking, N
<1> QED BY <1>9

\* The words of the first k paragraphs.
WordsUpTo(t, s, k) ==
    {p \in 1 .. Len(t) : t[p] \in Word /\ \E j \in 1 .. k : p \in s[j].from .. s[j].to}

\* A text is cut into pieces that come in order, keep to the paragraphs, tear
\* no sentence and leave out no word.
LEMMA ChunkTiles ==
    ASSUME NEW t \in Seq(Mark)
    PROVE  Tiles(Chunk(t), 1, Len(t), Whole(t), WordsAt(t, 1, Len(t)))
<1> DEFINE L == Len(t)
           s == ParagraphRanges(t)
           N == Len(s)
           f == CHOOSE x : IsChunking(t, s, x)
           end(k) == IF k = 0 THEN 0 ELSE s[k].to
           M == Maximal(1 .. L \ Cut(t))
<1>1. L \in Nat /\ DOMAIN t = 1 .. L
  BY LenProperties
<1>2. Tiles(s, 1, L, M, 1 .. L \ Cut(t))
  BY ParagraphsAre
<1>3. Chunk(t) = f[N]
  BY DEF Chunk, IsChunking, ChunkRound
<1> HIDE DEF s
<1>4. s \in Seq(Piece) /\ N \in Nat
  BY <1>2, LenProperties DEF Tiles, Row
<1>5. ASSUME NEW k \in 1 .. N
      PROVE  /\ s[k] \in M /\ 1 <= s[k].from /\ s[k].from <= s[k].to /\ s[k].to <= L
             /\ s[k].from \in Nat /\ s[k].to \in Nat
             /\ end(k) = s[k].to /\ end(k - 1) \in Nat /\ end(k - 1) < s[k].from
  <2>1. s[k] \in M /\ s[k] \in Piece
    BY <1>2 DEF Tiles, Maximal
  <2>2. Row(s, 1, L)
    BY <1>2 DEF Tiles
  <2>3. 1 <= s[k].from /\ s[k].from <= s[k].to /\ s[k].to <= L
    BY <2>2 DEF Row
  <2>4. s[k].from \in Nat /\ s[k].to \in Nat
    BY <2>1 DEF Piece
  <2>5. end(k) = s[k].to
    BY <1>4
  <2>6. CASE k = 1
    BY <2>1, <2>3, <2>4, <2>5, <2>6
  <2>7. CASE k # 1
    <3>1. k - 1 \in 1 .. N /\ k - 1 < k /\ k - 1 # 0
      BY <1>4, <2>7
    <3>2. s[k - 1].to < s[k].from /\ s[k - 1] \in Piece
      <4>1. s[k - 1] \in Piece
        BY <1>4, <3>1
      <4> QED BY <2>2, <3>1, <4>1 DEF Row
    <3>3. end(k - 1) = s[k - 1].to /\ s[k - 1].to \in Nat
      BY <3>1, <3>2 DEF Piece
    <3> HIDE DEF end
    <3> QED BY <2>1, <2>3, <2>4, <2>5, <3>2, <3>3
  <2> QED BY <2>1, <2>3, <2>4, <2>5, <2>6, <2>7
<1>6. ASSUME NEW k \in 1 .. N
      PROVE  Tiles(ChunkOf(t, s[k]), s[k].from, s[k].to, Whole(t),
                   WordsAt(t, s[k].from, s[k].to))
  BY <1>5, ChunkOfTiles
<1>7. IsChunking(t, s, f)
  <2>1. \A k \in 1 .. N : ChunkOf(t, s[k]) \in Seq(Piece)
    BY <1>6 DEF Tiles, Row
  <2>2. \E x : IsChunking(t, s, x)
    BY <1>4, <2>1, ChunkingExists
  <2> QED BY <2>2
<1> HIDE DEF f, N, L
<1>8. \A k \in 0 .. N : f[k] = ChunkRound(t, s, f, k)
  BY <1>7 DEF IsChunking, N
<1> DEFINE Holds(k) == Tiles(f[k], 1, end(k), Whole(t), WordsUpTo(t, s, k))
           Good == {k \in 0 .. N : Holds(k)}
<1>9. 0 \in Good
  <2>1. f[0] = <<>> /\ 0 \in 0 .. N /\ end(0) = 0
    BY <1>4, <1>8 DEF ChunkRound, N
  <2>2. WordsUpTo(t, s, 0) = {}
    BY DEF WordsUpTo
  <2>3. Tiles(<<>>, 1, 0, Whole(t), {})
    BY TilesNone
  <2> QED BY <2>1, <2>2, <2>3
<1>10. ASSUME NEW k \in 1 .. N, k - 1 \in Good
       PROVE  k \in Good
  <2>1. k \in 0 .. N /\ k # 0 /\ k - 1 \in Nat
    BY <1>4
  <2>2. f[k] = f[k - 1] \o ChunkOf(t, s[k])
    BY <1>8, <2>1 DEF ChunkRound
  <2>3. Tiles(f[k - 1], 1, end(k - 1), Whole(t), WordsUpTo(t, s, k - 1))
    BY <1>10
  <2>4. /\ 1 <= s[k].from /\ s[k].from <= s[k].to
        /\ s[k].from \in Int /\ s[k].to \in Int
        /\ end(k) = s[k].to /\ end(k - 1) \in Int /\ end(k - 1) < s[k].from
        /\ end(k - 1) <= s[k].to
    BY <1>5
  <2> DEFINE A == WordsUpTo(t, s, k - 1)
             B == WordsAt(t, s[k].from, s[k].to)
  <2> HIDE DEF end, Good, A, B
  <2>5. Tiles(f[k - 1] \o ChunkOf(t, s[k]), 1, s[k].to, Whole(t), A \cup B)
    <3>1. Tiles(f[k - 1], 1, end(k - 1), Whole(t), A)
      BY <2>3 DEF A
    <3>2. Tiles(ChunkOf(t, s[k]), s[k].from, s[k].to, Whole(t), B)
      BY <1>6 DEF B
    <3> QED BY <2>4, <3>1, <3>2, TilesJoin
  <2>6. WordsUpTo(t, s, k) \subseteq A \cup B
    <3> SUFFICES ASSUME NEW p \in WordsUpTo(t, s, k) PROVE p \in A \cup B
      OBVIOUS
    <3>1. p \in 1 .. Len(t) /\ t[p] \in Word
      BY DEF WordsUpTo
    <3>2. PICK j \in 1 .. k : p \in s[j].from .. s[j].to
      BY DEF WordsUpTo
    <3>3. CASE j = k
      BY <3>1, <3>2, <3>3 DEF B, WordsAt
    <3>4. CASE j # k
      <4>1. j \in 1 .. k - 1
        BY <2>1, <3>4
      <4> QED BY <3>1, <3>2, <4>1 DEF A, WordsUpTo
    <3> QED BY <3>3, <3>4
  <2>7. 1 <= 1 /\ s[k].to <= s[k].to
    BY <2>4
  <2>8. Tiles(f[k], 1, s[k].to, Whole(t), WordsUpTo(t, s, k))
    BY <2>2, <2>4, <2>5, <2>6, <2>7, TilesFewer
  <2>9. Holds(k)
    BY <2>4, <2>8
  <2> QED BY <2>1, <2>9 DEF Good
<1> HIDE DEF Good
<1>11. \A k \in 0 .. N : k \in Good
  BY <1>4, <1>9, <1>10, EveryRound DEF N
<1>12. Tiles(f[N], 1, end(N), Whole(t), WordsUpTo(t, s, N))
  BY <1>4, <1>11 DEF Good, N
<1>13. end(N) \in Int /\ end(N) <= L
  <2>1. CASE N = 0
    BY <1>1, <2>1
  <2>2. CASE N # 0
    <3>1. N \in 1 .. N
      BY <1>4, <2>2 DEF N
    <3> QED BY <1>5, <3>1
  <2> QED BY <2>1, <2>2
<1>14. WordsAt(t, 1, L) \subseteq WordsUpTo(t, s, N)
  <2> SUFFICES ASSUME NEW p \in 1 .. L, t[p] \in Word PROVE p \in WordsUpTo(t, s, N)
    BY DEF WordsAt
  <2>1. p \notin Cut(t)
    <3> SUFFICES ASSUME p \in Cut(t) PROVE FALSE
      OBVIOUS
    <3>1. PICK i \in 1 .. p, j \in p .. Len(t) : Blank(t, i, j)
      BY DEF Cut
    <3>2. p \in i .. j
      BY <1>1, <3>1 DEF L
    <3>3. t[p] \in White
      BY <3>1, <3>2 DEF Blank
    <3> QED BY <3>3, WhitePart
  <2>2. \E k \in 1 .. N : p \in s[k].from .. s[k].to
    BY <1>2, <2>1 DEF Tiles, N
  <2> QED BY <2>2 DEF WordsUpTo, L
<1> HIDE DEF end
<1>15. 1 <= 1 /\ L \in Int
  BY <1>1
<1>16. Tiles(f[N], 1, L, Whole(t), WordsAt(t, 1, L))
  BY <1>12, <1>13, <1>14, <1>15, TilesFewer
<1> QED BY <1>3, <1>16 DEF L, N, f

-----------------------------------------------------------------------------
(* The raw store.  What it keeps of a document is its pieces, numbered, and *)
(* what it keeps of a span is where the span stands in its document.        *)

Span == [doc : Doc, from : Nat, to : Nat, seq : Nat]
Document == [id : Doc, text : Seq(Mark)]

StoredIn(D) == {D[i].id : i \in DOMAIN D}
TextIn(D, d) == D[CHOOSE i \in DOMAIN D : D[i].id = d].text

IdsDiffer(D) == \A i, j \in 1 .. Len(D) : D[i].id = D[j].id => i = j

\* Piece k of the text t, as a span of d.
PieceAs(d, t, k) == [doc |-> d, from |-> Chunk(t)[k].from, to |-> Chunk(t)[k].to, seq |-> k]

FiledAs(S, P, d, t) ==
    /\ P[d] \in Seq(1 .. Len(S)) /\ Len(P[d]) = Len(Chunk(t))
    /\ \A k \in 1 .. Len(Chunk(t)) : S[P[d][k]] = PieceAs(d, t, k)

PlacedAt(D, S, P, i) ==
    /\ S[i].doc \in StoredIn(D)
    /\ S[i].seq \in 1 .. Len(P[S[i].doc])
    /\ P[S[i].doc][S[i].seq] = i

RawOk(D, S, P) ==
    /\ D \in Seq(Document) /\ IdsDiffer(D)
    /\ S \in Seq(Span)
    /\ DOMAIN P = StoredIn(D)
    /\ \A d \in StoredIn(D) : FiledAs(S, P, d, TextIn(D, d))
    /\ \A i \in 1 .. Len(S) : PlacedAt(D, S, P, i)

LEMMA TextInIs ==
    ASSUME NEW D \in Seq(Document), IdsDiffer(D)
    PROVE  /\ \A i \in 1 .. Len(D) : TextIn(D, D[i].id) = D[i].text
           /\ \A d \in StoredIn(D) : d \in Doc /\ TextIn(D, d) \in Seq(Mark)
<1>1. Len(D) \in Nat /\ DOMAIN D = 1 .. Len(D) /\ \A i \in 1 .. Len(D) : D[i] \in Document
  BY LenProperties
<1>2. ASSUME NEW i \in 1 .. Len(D) PROVE TextIn(D, D[i].id) = D[i].text
  <2> DEFINE c == CHOOSE j \in DOMAIN D : D[j].id = D[i].id
  <2>1. c \in 1 .. Len(D) /\ D[c].id = D[i].id
    BY <1>1
  <2>2. TextIn(D, D[i].id) = D[c].text
    BY DEF TextIn
  <2> HIDE DEF c
  <2>3. c = i
    BY <2>1 DEF IdsDiffer
  <2> QED BY <2>2, <2>3
<1>3. ASSUME NEW d \in StoredIn(D) PROVE d \in Doc /\ TextIn(D, d) \in Seq(Mark)
  <2>1. PICK i \in 1 .. Len(D) : d = D[i].id
    BY <1>1 DEF StoredIn
  <2>2. D[i].id \in Doc /\ D[i].text \in Seq(Mark)
    BY <1>1 DEF Document
  <2> QED BY <1>2, <2>1, <2>2
<1> QED BY <1>2, <1>3

LEMMA ChunkIs ==
    ASSUME NEW t \in Seq(Mark)
    PROVE  /\ Chunk(t) \in Seq(Piece) /\ Len(Chunk(t)) \in Nat
           /\ DOMAIN Chunk(t) = 1 .. Len(Chunk(t))
           /\ \A k \in 1 .. Len(Chunk(t)) : Chunk(t)[k].from \in Nat /\ Chunk(t)[k].to \in Nat
<1>1. Chunk(t) \in Seq(Piece)
  BY ChunkTiles DEF Tiles, Row
<1>2. \A k \in 1 .. Len(Chunk(t)) : Chunk(t)[k] \in Piece
  BY <1>1
<1> QED BY <1>1, <1>2, LenProperties DEF Piece

LEMMA NewSpansAre ==
    ASSUME NEW d \in Doc, NEW t \in Seq(Mark)
    PROVE  /\ NewSpans(d, t) \in Seq(Span)
           /\ Len(NewSpans(d, t)) = Len(Chunk(t))
           /\ \A k \in 1 .. Len(Chunk(t)) : NewSpans(d, t)[k] = PieceAs(d, t, k)
<1>1. /\ Len(Chunk(t)) \in Nat /\ DOMAIN Chunk(t) = 1 .. Len(Chunk(t))
      /\ \A k \in 1 .. Len(Chunk(t)) : Chunk(t)[k].from \in Nat /\ Chunk(t)[k].to \in Nat
  BY ChunkIs
<1>2. NewSpans(d, t) = [k \in 1 .. Len(Chunk(t)) |-> PieceAs(d, t, k)]
  BY <1>1 DEF NewSpans, PieceAs
<1>3. \A k \in 1 .. Len(Chunk(t)) : PieceAs(d, t, k) \in Span
  BY <1>1 DEF PieceAs, Span
<1> QED BY <1>1, <1>2, <1>3

LEMMA RawOkAtFirst == RawOk(<<>>, <<>>, <<>>)
<1>1. StoredIn(<<>>) = {} /\ DOMAIN <<>> = {}
  BY DEF StoredIn
<1> QED BY <1>1 DEF RawOk, IdsDiffer

WithDocument(D, d, t) == Append(D, [id |-> d, text |-> t])

\* E is D with the document d of text t added.
Added(D, d, t, E) ==
    /\ E \in Seq(Document) /\ IdsDiffer(E)
    /\ StoredIn(E) = StoredIn(D) \cup {d}
    /\ TextIn(E, d) = t
    /\ \A e \in StoredIn(D) : e # d /\ TextIn(E, e) = TextIn(D, e)

LEMMA AppendDocument ==
    ASSUME NEW D \in Seq(Document), IdsDiffer(D),
           NEW d \in Doc, d \notin StoredIn(D), NEW t \in Seq(Mark)
    PROVE  Added(D, d, t, WithDocument(D, d, t))
<1> DEFINE E == WithDocument(D, d, t)
           x == [id |-> d, text |-> t]
           n == Len(D)
<1>1. x \in Document /\ x.id = d /\ x.text = t
  BY DEF Document
<1> HIDE DEF x
<1>2. E = Append(D, x)
  BY DEF x, WithDocument
<1> HIDE DEF E
<1>3. /\ n \in Nat /\ DOMAIN D = 1 .. n /\ E \in Seq(Document) /\ Len(E) = n + 1
      /\ E[n + 1] = x /\ \A i \in 1 .. n : E[i] = D[i]
  BY <1>1, <1>2, AppendProperties, LenProperties
<1> HIDE DEF n
<1>4. DOMAIN E = 1 .. n + 1 /\ 1 .. n + 1 = (1 .. n) \cup {n + 1}
  BY <1>3, LenProperties
<1>5. \A i \in 1 .. n : E[i].id \in StoredIn(D) /\ E[i].id # d
  BY <1>3 DEF StoredIn
<1>6. IdsDiffer(E)
  <2> SUFFICES ASSUME NEW i \in 1 .. n + 1, NEW j \in 1 .. n + 1, E[i].id = E[j].id
               PROVE  i = j
    BY <1>3 DEF IdsDiffer
  <2>1. CASE i \in 1 .. n /\ j \in 1 .. n
    <3>1. D[i].id = D[j].id
      BY <1>3, <2>1
    <3> QED BY <2>1, <3>1 DEF IdsDiffer, n
  <2>2. CASE i = n + 1 \/ j = n + 1
    BY <1>1, <1>3, <1>4, <1>5, <2>2
  <2> QED BY <1>4, <2>1, <2>2
<1>7. StoredIn(E) = StoredIn(D) \cup {d}
  <2>1. {E[i].id : i \in 1 .. n + 1} = {E[i].id : i \in 1 .. n} \cup {E[n + 1].id}
    BY <1>4
  <2>2. {E[i].id : i \in 1 .. n} = {D[i].id : i \in 1 .. n}
    BY <1>3
  <2> QED BY <1>1, <1>3, <1>4, <2>1, <2>2 DEF StoredIn
<1>8. TextIn(E, d) = t
  <2>1. TextIn(E, E[n + 1].id) = E[n + 1].text
    <3>1. n + 1 \in 1 .. Len(E)
      BY <1>3
    <3> QED BY <1>3, <1>6, <3>1, TextInIs
  <2> QED BY <1>1, <1>3, <2>1
<1>9. ASSUME NEW e \in StoredIn(D) PROVE e # d /\ TextIn(E, e) = TextIn(D, e)
  <2>1. PICK i \in 1 .. n : e = D[i].id
    BY <1>3 DEF StoredIn
  <2>2. TextIn(D, D[i].id) = D[i].text
    BY <2>1, TextInIs DEF n
  <2>3. i \in 1 .. Len(E)
    BY <1>3, <1>4
  <2>4. TextIn(E, E[i].id) = E[i].text
    BY <1>3, <1>6, <2>3, TextInIs
  <2> QED BY <1>3, <2>1, <2>2, <2>4
<1>10. Added(D, d, t, E)
  BY <1>3, <1>6, <1>7, <1>8, <1>9 DEF Added
<1> QED BY <1>10 DEF E

LEMMA AddRawOk ==
    ASSUME NEW D, NEW S, NEW P, RawOk(D, S, P),
           NEW d \in Doc, d \notin StoredIn(D), NEW t \in Seq(Mark),
           NEW E, E = WithDocument(D, d, t),
           NEW Q, Q = [e \in DOMAIN P \cup {d} |->
                          IF e # d THEN P[e] ELSE [k \in DOMAIN Chunk(t) |-> Len(S) + k]]
    PROVE  /\ RawOk(E, S \o NewSpans(d, t), Q)
           /\ Len(S) \in Nat /\ \A i \in 1 .. Len(S) : (S \o NewSpans(d, t))[i] = S[i]
<1> DEFINE a == Len(S)
           c == Len(Chunk(t))
           T == S \o NewSpans(d, t)
<1>1. /\ D \in Seq(Document) /\ IdsDiffer(D) /\ S \in Seq(Span) /\ DOMAIN P = StoredIn(D)
      /\ \A e \in StoredIn(D) : FiledAs(S, P, e, TextIn(D, e))
      /\ \A i \in 1 .. a : PlacedAt(D, S, P, i)
  BY DEF RawOk
<1>2. /\ E \in Seq(Document) /\ IdsDiffer(E) /\ StoredIn(E) = StoredIn(D) \cup {d}
      /\ TextIn(E, d) = t /\ \A e \in StoredIn(D) : e # d /\ TextIn(E, e) = TextIn(D, e)
  <2>1. D \in Seq(Document) /\ IdsDiffer(D)
    BY <1>1
  <2>2. Added(D, d, t, E)
    BY <2>1, AppendDocument
  <2> QED BY <2>2 DEF Added
<1>3. /\ c \in Nat /\ DOMAIN Chunk(t) = 1 .. c
      /\ NewSpans(d, t) \in Seq(Span) /\ Len(NewSpans(d, t)) = c
      /\ \A k \in 1 .. c : NewSpans(d, t)[k] = PieceAs(d, t, k)
  BY ChunkIs, NewSpansAre
<1>4. /\ a \in Nat /\ T \in Seq(Span) /\ Len(T) = a + c
      /\ \A i \in 1 .. a + c : T[i] = IF i <= a THEN S[i] ELSE NewSpans(d, t)[i - a]
  <2> DEFINE new == NewSpans(d, t)
  <2>1. S \in Seq(Span) /\ new \in Seq(Span) /\ Len(new) = c
    BY <1>1, <1>3
  <2> HIDE DEF new, c
  <2>2. /\ S \o new \in Seq(Span) /\ Len(S \o new) = Len(S) + Len(new)
        /\ \A i \in 1 .. Len(S) + Len(new) :
              (S \o new)[i] = IF i <= Len(S) THEN S[i] ELSE new[i - Len(S)]
    BY <2>1, ConcatProperties
  <2>3. Len(S) \in Nat
    BY <2>1, LenProperties
  <2> QED BY <2>1, <2>2, <2>3 DEF new
<1> HIDE DEF a, c, T
<1>5. \A i \in 1 .. a : i \in 1 .. a + c /\ T[i] = S[i]
  BY <1>3, <1>4
<1>6. \A k \in 1 .. c : a + k \in 1 .. a + c /\ T[a + k] = PieceAs(d, t, k)
  <2> TAKE k \in 1 .. c
  <2>1. a + k \in 1 .. a + c /\ ~ (a + k <= a) /\ (a + k) - a = k
    BY <1>3, <1>4
  <2> QED BY <1>3, <1>4, <2>1
<1>7. \A i \in 1 .. a + c : i \in 1 .. a \/ \E k \in 1 .. c : i = a + k
  <2> TAKE i \in 1 .. a + c
  <2>1. ~ (i <= a) => i - a \in 1 .. c /\ i = a + (i - a)
    BY <1>3, <1>4
  <2> QED BY <1>3, <1>4, <2>1
<1>8. DOMAIN Q = StoredIn(E) /\ Q[d] = [k \in 1 .. c |-> a + k]
      /\ \A e \in StoredIn(D) : Q[e] = P[e]
  BY <1>1, <1>2, <1>3 DEF a
<1>9. FiledAs(T, Q, d, t)
  <2>1. Q[d] \in Seq(1 .. a + c) /\ Len(Q[d]) = c /\ \A k \in 1 .. c : Q[d][k] = a + k
    <3> DEFINE q == [k \in 1 .. c |-> a + k]
    <3>1. \A k \in 1 .. c : a + k \in 1 .. a + c
      BY <1>6
    <3>2. q \in Seq(1 .. a + c) /\ Len(q) = c /\ \A k \in 1 .. c : q[k] = a + k
      BY <1>3, <3>1
    <3> QED BY <1>8, <3>2
  <2> QED BY <1>4, <1>6, <2>1 DEF FiledAs, c
<1>10. ASSUME NEW e \in StoredIn(D) PROVE FiledAs(T, Q, e, TextIn(E, e))
  <2> DEFINE u == TextIn(D, e)
  <2>1. P[e] \in Seq(1 .. a) /\ Len(P[e]) = Len(Chunk(u))
        /\ \A k \in 1 .. Len(Chunk(u)) : S[P[e][k]] = PieceAs(e, u, k)
    BY <1>1 DEF FiledAs, a
  <2>2. TextIn(E, e) = u /\ Q[e] = P[e]
    BY <1>2, <1>8
  <2> HIDE DEF u
  <2>3. P[e] \in Seq(1 .. a + c)
    <3>1. 1 .. a \subseteq 1 .. a + c
      BY <1>5
    <3> QED BY <2>1, <3>1, SeqMonotonic
  <2>4. \A k \in 1 .. Len(Chunk(u)) : P[e][k] \in 1 .. a
    BY <2>1, ElementOfSeq
  <2>5. \A k \in 1 .. Len(Chunk(u)) : T[P[e][k]] = PieceAs(e, u, k)
    BY <1>5, <2>1, <2>4
  <2> QED BY <1>4, <2>1, <2>2, <2>3, <2>5 DEF FiledAs
<1>11. ASSUME NEW i \in 1 .. a PROVE PlacedAt(E, T, Q, i)
  <2>1. PlacedAt(D, S, P, i)
    BY <1>1
  <2>2. S[i].doc \in StoredIn(D) /\ S[i].seq \in 1 .. Len(P[S[i].doc])
        /\ P[S[i].doc][S[i].seq] = i
    BY <2>1 DEF PlacedAt
  <2>3. T[i] = S[i] /\ Q[S[i].doc] = P[S[i].doc] /\ S[i].doc \in StoredIn(E)
    BY <1>2, <1>5, <1>8, <2>2
  <2> QED BY <2>2, <2>3 DEF PlacedAt
<1>12. ASSUME NEW k \in 1 .. c PROVE PlacedAt(E, T, Q, a + k)
  <2>1. T[a + k].doc = d /\ T[a + k].seq = k
    <3>1. T[a + k] = [doc |-> d, from |-> Chunk(t)[k].from, to |-> Chunk(t)[k].to, seq |-> k]
      BY <1>6 DEF PieceAs
    <3> QED BY <3>1
  <2>2. d \in StoredIn(E) /\ Len(Q[d]) = c /\ Q[d][k] = a + k
    BY <1>2, <1>3, <1>8
  <2> QED BY <2>1, <2>2 DEF PlacedAt
<1>13. \A i \in 1 .. Len(T) : PlacedAt(E, T, Q, i)
  BY <1>4, <1>7, <1>11, <1>12
<1>14. \A e \in StoredIn(E) : FiledAs(T, Q, e, TextIn(E, e))
  BY <1>2, <1>9, <1>10
<1>15. RawOk(E, T, Q)
  BY <1>2, <1>4, <1>8, <1>13, <1>14 DEF RawOk
<1> QED BY <1>4, <1>5, <1>15 DEF T, a

-----------------------------------------------------------------------------
(* A restart.  The spans come back in another order, and each document     *)
(* finds its own by their places.                                          *)

LEMMA ImageSize ==
    ASSUME NEW m \in Nat, NEW g, \A i, j \in 1 .. m : g[i] = g[j] => i = j
    PROVE  Cardinality({g[k] : k \in 1 .. m}) = m
<1> DEFINE T == {g[k] : k \in 1 .. m}
           h == [k \in 1 .. m |-> g[k]]
<1>1. h \in Surjection(1 .. m, T)
  BY DEF Surjection
<1>2. h \in Injection(1 .. m, T)
  BY DEF Injection, IsInjective
<1>3. IsFiniteSet(1 .. m) /\ Cardinality(1 .. m) = m
  BY FS_Interval
<1> HIDE DEF T, h
<1>4. Cardinality(T) = Cardinality(1 .. m)
  BY <1>1, <1>2, <1>3, FS_Surjection
<1> QED BY <1>3, <1>4 DEF T

\* order has the spans of S, each once.
SameSpans(S, order) ==
    /\ order \in Seq(Span)
    /\ \A i, j \in 1 .. Len(order) : order[i] = order[j] => i = j
    /\ \A i \in 1 .. Len(order) : \E j \in 1 .. Len(S) : order[i] = S[j]
    /\ \A j \in 1 .. Len(S) : \E i \in 1 .. Len(order) : order[i] = S[j]

LEMMA SpansDiffer ==
    ASSUME NEW D, NEW S, NEW P, RawOk(D, S, P)
    PROVE  \A i, j \in 1 .. Len(S) : S[i] = S[j] => i = j
<1> SUFFICES ASSUME NEW i \in 1 .. Len(S), NEW j \in 1 .. Len(S), S[i] = S[j]
             PROVE  i = j
  OBVIOUS
<1>1. PlacedAt(D, S, P, i) /\ PlacedAt(D, S, P, j)
  BY DEF RawOk
<1> QED BY <1>1 DEF PlacedAt

LEMMA OrdersAre ==
    ASSUME RawOk(documents, spans, docSpans), NEW order \in Orders
    PROVE  SameSpans(spans, order)
<1> DEFINE n == Len(spans)
           T == {spans[i] : i \in DOMAIN spans}
           c == Cardinality(T)
<1>1. /\ spans \in Seq(Span) /\ n \in Nat /\ DOMAIN spans = 1 .. n
      /\ \A i \in 1 .. n : spans[i] \in Span
      /\ \A i, j \in 1 .. n : spans[i] = spans[j] => i = j
  BY SpansDiffer, LenProperties DEF RawOk
<1>2. CASE order = spans
  BY <1>1, <1>2 DEF SameSpans
<1>3. CASE order \in SetToSeqs(T)
  <2>1. T = {spans[i] : i \in 1 .. n} /\ T \subseteq Span
    BY <1>1
  <2>2. c = n
    BY <1>1, <2>1, ImageSize
  <2>3. IsFiniteSet(T)
    <3>1. IsFiniteSet(1 .. n)
      BY <1>1, FS_Interval
    <3> DEFINE h == [k \in 1 .. n |-> spans[k]]
    <3>2. h \in Surjection(1 .. n, T)
      BY <2>1 DEF Surjection
    <3> HIDE DEF h, T
    <3> QED BY <3>1, <3>2, FS_Surjection
  <2>4. order \in [1 .. c -> T] /\ \A i, j \in 1 .. c : i # j => order[i] # order[j]
    BY <1>3 DEF SetToSeqs
  <2> HIDE DEF T, c
  <2>5. order \in Injection(1 .. c, T)
    BY <2>4 DEF Injection, IsInjective
  <2>6. Cardinality(1 .. c) = c
    <3>1. c \in Nat
      BY <1>1, <2>2
    <3> QED BY <3>1, FS_Interval
  <2>7. order \in Surjection(1 .. c, T)
    BY <2>3, <2>5, <2>6, FS_Injection DEF c
  <2>8. \A x \in T : \E i \in 1 .. c : order[i] = x
    BY <2>7 DEF Surjection
  <2>9. order \in Seq(Span) /\ Len(order) = n
    BY <1>1, <2>1, <2>2, <2>4
  <2>10. \A i \in 1 .. n : order[i] \in T
    BY <2>2, <2>4
  <2>11. \A i, j \in 1 .. n : order[i] = order[j] => i = j
    BY <2>2, <2>4
  <2>12. \A i \in 1 .. n : \E j \in 1 .. n : order[i] = spans[j]
    BY <2>1, <2>10
  <2>13. \A j \in 1 .. n : \E i \in 1 .. n : order[i] = spans[j]
    BY <2>1, <2>2, <2>8
  <2> QED BY <2>9, <2>11, <2>12, <2>13 DEF SameSpans
<1> QED BY <1>2, <1>3 DEF Orders

\* The spans of d in the order, and those of them up to place m.
OwnIn(order, d) == {i \in DOMAIN order : order[i].doc = d}
OwnUpTo(order, d, m) == {i \in OwnIn(order, d) : order[i].seq <= m}

Resorted(P, order) ==
    [d \in DOMAIN P |->
        [k \in 1 .. Cardinality(OwnIn(order, d)) |->
            CHOOSE i \in OwnIn(order, d) : Cardinality(OwnUpTo(order, d, order[i].seq)) = k]]

LEMMA ResortedIs ==
    ASSUME NEW D, NEW S, NEW P, RawOk(D, S, P), NEW order, SameSpans(S, order),
           NEW d \in StoredIn(D)
    PROVE  FiledAs(order, Resorted(P, order), d, TextIn(D, d))
<1> DEFINE t == TextIn(D, d)
           c == Len(Chunk(t))
           n == Len(order)
           own == OwnIn(order, d)
           Is(k, i) == order[i] = PieceAs(d, t, k)
           g == [k \in 1 .. c |-> CHOOSE i \in 1 .. n : Is(k, i)]
<1>1. t \in Seq(Mark) /\ DOMAIN P = StoredIn(D)
  BY TextInIs DEF RawOk
<1>2. c \in Nat
  BY <1>1, ChunkIs
<1>3. /\ order \in Seq(Span) /\ n \in Nat /\ DOMAIN order = 1 .. n
      /\ \A i, j \in 1 .. n : order[i] = order[j] => i = j
  BY LenProperties DEF SameSpans
<1>4. FiledAs(S, P, d, t)
  BY DEF RawOk
<1>5. /\ P[d] \in Seq(1 .. Len(S)) /\ Len(P[d]) = c
      /\ \A k \in 1 .. c : S[P[d][k]] = PieceAs(d, t, k)
  BY <1>4 DEF FiledAs
<1> HIDE DEF c, n, t
<1>6. \A k, m : PieceAs(d, t, k).doc = d /\ PieceAs(d, t, k).seq = k
                /\ (PieceAs(d, t, k) = PieceAs(d, t, m) => k = m)
  BY DEF PieceAs
<1>7. ASSUME NEW k \in 1 .. c PROVE g[k] \in 1 .. n /\ Is(k, g[k])
  <2>1. P[d][k] \in 1 .. Len(S)
    BY <1>5, ElementOfSeq
  <2>2. \E i \in 1 .. n : order[i] = S[P[d][k]]
    BY <2>1 DEF SameSpans, n
  <2>3. \E i \in 1 .. n : Is(k, i)
    BY <1>5, <2>2
  <2> HIDE DEF Is
  <2> QED BY <2>3
<1>8. ASSUME NEW i \in own PROVE \E k \in 1 .. c : i = g[k]
  <2>1. i \in 1 .. n /\ order[i].doc = d
    BY <1>3 DEF OwnIn
  <2>2. PICK j \in 1 .. Len(S) : order[i] = S[j]
    BY <2>1 DEF SameSpans, n
  <2>3. PlacedAt(D, S, P, j)
    BY DEF RawOk
  <2>4. S[j].seq \in 1 .. c /\ P[d][S[j].seq] = j
    BY <1>5, <2>1, <2>2, <2>3 DEF PlacedAt
  <2>5. order[i] = PieceAs(d, t, S[j].seq)
    BY <1>5, <2>2, <2>4
  <2>6. i = g[S[j].seq]
    BY <1>3, <1>7, <2>1, <2>4, <2>5
  <2> QED BY <2>4, <2>6
<1> HIDE DEF g
<1>9. \A k \in 1 .. c : g[k] \in own /\ order[g[k]].seq = k
  BY <1>3, <1>6, <1>7 DEF OwnIn
<1>10. \A i, j \in 1 .. c : g[i] = g[j] => i = j
  BY <1>9
<1>11. own = {g[k] : k \in 1 .. c}
  BY <1>8, <1>9
<1>12. Cardinality(own) = c
  BY <1>2, <1>10, <1>11, ImageSize
<1> HIDE DEF own, Is
<1>13. ASSUME NEW m \in 1 .. c
       PROVE  Cardinality(OwnUpTo(order, d, m)) = m
  <2>1. m \in Nat /\ 1 .. m \subseteq 1 .. c
    BY <1>2
  <2>2. OwnUpTo(order, d, m) = {g[k] : k \in 1 .. m}
    <3>1. ASSUME NEW i \in OwnUpTo(order, d, m) PROVE \E k \in 1 .. m : i = g[k]
      <4>1. i \in own /\ order[i].seq <= m
        BY DEF OwnUpTo, own
      <4>2. PICK k \in 1 .. c : i = g[k]
        BY <1>8, <4>1
      <4>3. k <= m
        BY <1>9, <4>1, <4>2
      <4>4. k \in 1 .. m
        BY <2>1, <4>3
      <4> QED BY <4>2, <4>4
    <3>2. ASSUME NEW k \in 1 .. m PROVE g[k] \in OwnUpTo(order, d, m)
      <4>1. k \in 1 .. c /\ k <= m
        BY <2>1
      <4>2. g[k] \in own /\ order[g[k]].seq <= m
        BY <1>9, <4>1
      <4> QED BY <4>2 DEF OwnUpTo, own
    <3> QED BY <3>1, <3>2
  <2>3. \A i, j \in 1 .. m : g[i] = g[j] => i = j
    BY <1>10, <2>1
  <2> QED BY <2>1, <2>2, <2>3, ImageSize
<1> DEFINE Q == Resorted(P, order)
           q == Q[d]
<1>14. q = [k \in 1 .. c |->
              CHOOSE i \in own : Cardinality(OwnUpTo(order, d, order[i].seq)) = k]
  BY <1>1, <1>12 DEF Resorted, own
<1> HIDE DEF Q
<1>15. ASSUME NEW k \in 1 .. c PROVE q[k] = g[k]
  <2> DEFINE Nth(i) == Cardinality(OwnUpTo(order, d, order[i].seq)) = k
  <2>1. g[k] \in own /\ Nth(g[k])
    BY <1>9, <1>13
  <2>2. q[k] = CHOOSE i \in own : Nth(i)
    BY <1>14
  <2> HIDE DEF Nth
  <2>3. q[k] \in own /\ Nth(q[k])
    BY <2>1, <2>2
  <2>4. PICK j \in 1 .. c : q[k] = g[j]
    BY <1>8, <2>3
  <2>5. Cardinality(OwnUpTo(order, d, j)) = k
    BY <1>9, <2>3, <2>4 DEF Nth
  <2> QED BY <1>13, <2>4, <2>5
<1>16. q \in Seq(1 .. n) /\ Len(q) = c
  <2>1. \A k \in 1 .. c : g[k] \in 1 .. n
    BY <1>7
  <2>2. q = [k \in 1 .. c |-> g[k]]
    BY <1>14, <1>15
  <2> HIDE DEF q
  <2> QED BY <1>2, <2>1, <2>2
<1>17. \A k \in 1 .. c : order[q[k]] = PieceAs(d, t, k)
  BY <1>7, <1>15 DEF Is
<1> HIDE DEF q
<1>18. FiledAs(order, Q, d, t)
  BY <1>16, <1>17 DEF FiledAs, c, n, q
<1> QED BY <1>18 DEF Q, t

LEMMA RestoreRawOk ==
    ASSUME NEW D, NEW S, NEW P, RawOk(D, S, P), NEW order, SameSpans(S, order)
    PROVE  RawOk(D, order, Resorted(P, order))
<1> DEFINE Q == Resorted(P, order)
<1>1. /\ D \in Seq(Document) /\ IdsDiffer(D) /\ DOMAIN P = StoredIn(D)
      /\ \A i \in 1 .. Len(S) : PlacedAt(D, S, P, i)
      /\ \A d \in StoredIn(D) : FiledAs(S, P, d, TextIn(D, d))
  BY DEF RawOk
<1>2. order \in Seq(Span) /\ \A i, j \in 1 .. Len(order) : order[i] = order[j] => i = j
  BY DEF SameSpans
<1>3. DOMAIN Q = StoredIn(D)
  BY <1>1 DEF Resorted
<1>4. \A d \in StoredIn(D) : FiledAs(order, Q, d, TextIn(D, d))
  BY ResortedIs
<1> HIDE DEF Q
<1>5. ASSUME NEW i \in 1 .. Len(order) PROVE PlacedAt(D, order, Q, i)
  <2>1. PICK j \in 1 .. Len(S) : order[i] = S[j]
    BY DEF SameSpans
  <2> DEFINE d == S[j].doc
             k == S[j].seq
             t == TextIn(D, d)
  <2>2. PlacedAt(D, S, P, j)
    BY <1>1
  <2>3. d \in StoredIn(D) /\ k \in 1 .. Len(P[d]) /\ P[d][k] = j
    BY <2>2 DEF PlacedAt
  <2>4. FiledAs(S, P, d, t) /\ FiledAs(order, Q, d, t)
    BY <1>1, <1>4, <2>3
  <2>5. Len(P[d]) = Len(Chunk(t)) /\ Len(Q[d]) = Len(Chunk(t)) /\ Q[d] \in Seq(1 .. Len(order))
    BY <2>4 DEF FiledAs
  <2>6. S[P[d][k]] = PieceAs(d, t, k) /\ order[Q[d][k]] = PieceAs(d, t, k)
    BY <2>3, <2>4, <2>5 DEF FiledAs
  <2> HIDE DEF d, k, t
  <2>7. Q[d][k] \in 1 .. Len(order)
    BY <2>3, <2>5, ElementOfSeq
  <2>8. order[Q[d][k]] = order[i]
    BY <2>1, <2>3, <2>6
  <2>9. Q[d][k] = i
    BY <1>2, <2>7, <2>8
  <2>10. order[i].doc = d /\ order[i].seq = k
    BY <2>1 DEF d, k
  <2> QED BY <2>3, <2>5, <2>9, <2>10 DEF PlacedAt
<1>6. RawOk(D, order, Q)
  BY <1>1, <1>2, <1>3, <1>4, <1>5 DEF RawOk
<1> QED BY <1>6 DEF Q

-----------------------------------------------------------------------------
(* The raw store as a state machine.                                       *)

RawInv == RawOk(documents, spans, docSpans)

LEMMA TextIs ==
    /\ Stored = StoredIn(documents)
    /\ \A d : Text(d) = TextIn(documents, d)
BY DEF Stored, StoredIn, Text, TextIn

LEMMA RestoredIs ==
    ASSUME NEW order
    PROVE  Restored(order) = Resorted(docSpans, order)
BY DEF Restored, Resorted, OwnIn, OwnUpTo

LEMMA TilesFromInv ==
    ASSUME RawInv
    PROVE  SpansTileTheText
<1> SUFFICES ASSUME NEW d \in Stored
             PROVE  LET t == Text(d)
                        s == [k \in DOMAIN docSpans[d] |-> spans[docSpans[d][k]]]
                    IN  /\ \A k \in DOMAIN s :
                             /\ s[k].from <= s[k].to
                             /\ k > 1 => s[k - 1].to < s[k].from
                             /\ (s[k].from .. s[k].to) \cap Cut(t) = {}
                             /\ s[k].from - 1 \in {0} \cup Cut(t) \cup Gap(t)
                        /\ \A p \in DOMAIN t : t[p] \in Word =>
                             \E k \in DOMAIN s : p \in s[k].from .. s[k].to
  BY DEF SpansTileTheText
<1> DEFINE t == Text(d)
           c == Len(Chunk(t))
           s == [k \in DOMAIN docSpans[d] |-> spans[docSpans[d][k]]]
<1>1. d \in StoredIn(documents) /\ t = TextIn(documents, d)
  BY TextIs
<1>2. t \in Seq(Mark)
  BY <1>1, TextInIs DEF RawInv, RawOk
<1>3. FiledAs(spans, docSpans, d, t)
  BY <1>1 DEF RawInv, RawOk
<1> HIDE DEF t
<1>4. c \in Nat /\ DOMAIN t = 1 .. Len(t)
  BY <1>2, ChunkIs, LenProperties
<1>5. /\ DOMAIN docSpans[d] = 1 .. c
      /\ \A k \in 1 .. c : spans[docSpans[d][k]] = PieceAs(d, t, k)
  BY <1>3, LenProperties DEF FiledAs
<1>6. DOMAIN s = 1 .. c
  BY <1>5
<1>7. ASSUME NEW k \in 1 .. c
      PROVE  s[k].from = Chunk(t)[k].from /\ s[k].to = Chunk(t)[k].to
  <2>1. s[k] = [doc |-> d, from |-> Chunk(t)[k].from, to |-> Chunk(t)[k].to, seq |-> k]
    BY <1>5 DEF PieceAs
  <2> QED BY <2>1
<1> HIDE DEF s, c
<1>8. /\ Row(Chunk(t), 1, Len(t))
      /\ \A k \in 1 .. c : Chunk(t)[k] \in Whole(t)
      /\ \A p \in WordsAt(t, 1, Len(t)) :
            \E k \in 1 .. c : p \in Chunk(t)[k].from .. Chunk(t)[k].to
  BY <1>2, ChunkTiles DEF Tiles, c
<1>9. ASSUME NEW k \in 1 .. c
      PROVE  /\ s[k].from <= s[k].to
             /\ k > 1 => s[k - 1].to < s[k].from
             /\ (s[k].from .. s[k].to) \cap Cut(t) = {}
             /\ s[k].from - 1 \in {0} \cup Cut(t) \cup Gap(t)
  <2>1. s[k].from <= s[k].to
    BY <1>7, <1>8 DEF Row, c
  <2>2. ASSUME k > 1 PROVE s[k - 1].to < s[k].from
    <3>1. k - 1 \in 1 .. c /\ k - 1 < k
      BY <1>4, <2>2
    <3>2. Chunk(t)[k - 1].to < Chunk(t)[k].from
      BY <1>8, <3>1 DEF Row, c
    <3> QED BY <1>7, <3>1, <3>2
  <2>3. /\ (s[k].from .. s[k].to) \cap Cut(t) = {}
        /\ s[k].from - 1 \in {0} \cup Cut(t) \cup Gap(t)
    <3>1. Chunk(t)[k] \in Whole(t)
      BY <1>8
    <3> QED BY <1>7, <3>1 DEF Whole
  <2> QED BY <2>1, <2>2, <2>3
<1>10. ASSUME NEW p \in DOMAIN t, t[p] \in Word
       PROVE  \E k \in 1 .. c : p \in s[k].from .. s[k].to
  <2>1. p \in WordsAt(t, 1, Len(t))
    BY <1>4, <1>10 DEF WordsAt
  <2> QED BY <1>7, <1>8, <2>1
<1> QED BY <1>6, <1>9, <1>10 DEF s, t

LEMMA RawInit_Inv == RawInit => RawInv
BY RawOkAtFirst DEF RawInit, RawInv

LEMMA Add_RawInv ==
    ASSUME RawInv, NEW d \in Doc, NEW t \in TextOf[d], AddDocument(d, t)
    PROVE  /\ RawInv' /\ t \in Seq(Mark)
           /\ Added(documents, d, t, documents')
           /\ Len(spans) \in Nat /\ \A i \in 1 .. Len(spans) : spans'[i] = spans[i]
<1>1. t \in Seq(Mark)
  BY RawStoreAssumption
<1>2. d \notin StoredIn(documents)
  BY TextIs DEF AddDocument
<1>3. documents' = WithDocument(documents, d, t)
  BY DEF AddDocument, WithDocument
<1>4. spans' = spans \o NewSpans(d, t)
  BY DEF AddDocument
<1>5. docSpans' = [e \in DOMAIN docSpans \cup {d} |->
                      IF e # d THEN docSpans[e] ELSE [k \in DOMAIN Chunk(t) |-> Len(spans) + k]]
  BY DEF AddDocument
<1>6. RawOk(documents, spans, docSpans)
  BY DEF RawInv
<1>7. /\ RawOk(documents', spans \o NewSpans(d, t), docSpans')
      /\ Len(spans) \in Nat
      /\ \A i \in 1 .. Len(spans) : (spans \o NewSpans(d, t))[i] = spans[i]
  BY <1>1, <1>2, <1>3, <1>5, <1>6, AddRawOk
<1>8. documents \in Seq(Document) /\ IdsDiffer(documents)
  BY <1>6 DEF RawOk
<1>9. Added(documents, d, t, documents')
  BY <1>1, <1>2, <1>3, <1>8, AppendDocument
<1> QED BY <1>1, <1>4, <1>7, <1>9 DEF RawInv

LEMMA Restore_RawInv ==
    ASSUME RawInv, NEW order \in Orders, RestoreRaw(order)
    PROVE  RawInv' /\ SameSpans(spans, order)
<1>1. spans' = order /\ docSpans' = Resorted(docSpans, order) /\ documents' = documents
  BY RestoredIs DEF RestoreRaw
<1>2. RawOk(documents, spans, docSpans)
  BY DEF RawInv
<1>3. SameSpans(spans, order)
  BY <1>2, OrdersAre
<1>4. RawOk(documents, order, Resorted(docSpans, order))
  BY <1>2, <1>3, RestoreRawOk
<1> QED BY <1>1, <1>3, <1>4 DEF RawInv

-----------------------------------------------------------------------------
(* What a span is beside is told by its document's text alone.             *)

IssuedIn(S) == {IdOf(S[i]) : i \in DOMAIN S}
IdxIn(S, id) == CHOOSE i \in DOMAIN S : IdOf(S[i]) = id
BesideIn(S, P, i) ==
    LET all == P[S[i].doc]
        at == S[i].seq
        lo == IF at > 1 THEN at - 1 ELSE 1
        hi == IF at + 1 < Len(all) THEN at + 1 ELSE Len(all)
    IN  [k \in 1 .. hi - lo + 1 |-> IdOf(S[all[lo + k - 1]])]

PlaceOf(t, id) == CHOOSE k \in 1 .. Len(Chunk(t)) : Chunk(t)[k].from = id[2]
Around(d, t, at) ==
    LET lo == IF at > 1 THEN at - 1 ELSE 1
        hi == IF at + 1 < Len(Chunk(t)) THEN at + 1 ELSE Len(Chunk(t))
    IN  [k \in 1 .. hi - lo + 1 |-> IdOf(PieceAs(d, t, lo + k - 1))]

LEMMA BesideIs ==
    ASSUME NEW D, NEW S, NEW P, RawOk(D, S, P), NEW id \in IssuedIn(S),
           NEW t, t = TextIn(D, id[1])
    PROVE  /\ id[1] \in StoredIn(D)
           /\ \E k \in 1 .. Len(Chunk(t)) : id = IdOf(PieceAs(id[1], t, k))
           /\ BesideIn(S, P, IdxIn(S, id)) = Around(id[1], t, PlaceOf(t, id))
<1> DEFINE n == Len(S)
           i == IdxIn(S, id)
           d == S[i].doc
           at == S[i].seq
           c == Len(Chunk(t))
           all == P[d]
<1>1. DOMAIN S = 1 .. n
  BY LenProperties DEF RawOk
<1>2. i \in 1 .. n /\ IdOf(S[i]) = id
  BY <1>1 DEF IssuedIn, IdxIn
<1> HIDE DEF i
<1>3. PlacedAt(D, S, P, i)
  BY <1>2 DEF RawOk
<1>4. d \in StoredIn(D) /\ at \in 1 .. Len(all) /\ all[at] = i
  BY <1>3 DEF PlacedAt
<1>5. id[1] = d /\ id[2] = S[i].from
  BY <1>2 DEF IdOf
<1>6. FiledAs(S, P, d, t) /\ t \in Seq(Mark)
  BY <1>4, <1>5, TextInIs DEF RawOk
<1>7. Len(all) = c /\ \A k \in 1 .. c : S[all[k]] = PieceAs(d, t, k)
  BY <1>6 DEF FiledAs
<1>8. c \in Nat /\ \A k \in 1 .. c : Chunk(t)[k].from \in Nat /\ Chunk(t)[k].to \in Nat
  BY <1>6, ChunkIs
<1>9. at \in 1 .. c /\ S[i] = PieceAs(d, t, at)
  BY <1>4, <1>7
<1>10. S[i].from = Chunk(t)[at].from
  <2>1. PieceAs(d, t, at).from = Chunk(t)[at].from
    BY DEF PieceAs
  <2> QED BY <1>9, <2>1
<1>11. ASSUME NEW k \in 1 .. c, Chunk(t)[k].from = id[2] PROVE k = at
  <2>1. Row(Chunk(t), 1, Len(t))
    BY <1>6, ChunkTiles DEF Tiles
  <2>2. /\ k < at => Chunk(t)[k].to < Chunk(t)[at].from
        /\ at < k => Chunk(t)[at].to < Chunk(t)[k].from
        /\ Chunk(t)[k].from <= Chunk(t)[k].to /\ Chunk(t)[at].from <= Chunk(t)[at].to
    BY <1>9, <2>1 DEF Row
  <2>3. Chunk(t)[k].from = Chunk(t)[at].from
    BY <1>5, <1>10, <1>11
  <2> HIDE DEF c
  <2>4. k \in Int /\ at \in Int /\ ~ (k < at) /\ ~ (at < k)
    BY <1>8, <1>9, <2>2, <2>3
  <2> HIDE DEF at
  <2> QED BY <2>4
<1>12. PlaceOf(t, id) = at
  <2>1. \E k \in 1 .. c : Chunk(t)[k].from = id[2]
    BY <1>5, <1>9, <1>10
  <2> QED BY <1>11, <2>1 DEF PlaceOf
<1> DEFINE lo == IF at > 1 THEN at - 1 ELSE 1
           hi == IF at + 1 < c THEN at + 1 ELSE c
<1>13. lo \in 1 .. c /\ hi \in 1 .. c
  BY <1>8, <1>9
<1>14. BesideIn(S, P, i) = [k \in 1 .. hi - lo + 1 |-> IdOf(S[all[lo + k - 1]])]
  BY <1>7 DEF BesideIn
<1>15. Around(d, t, at) = [k \in 1 .. hi - lo + 1 |-> IdOf(PieceAs(d, t, lo + k - 1))]
  BY DEF Around
<1> HIDE DEF lo, hi, c
<1>16. \A k \in 1 .. hi - lo + 1 : S[all[lo + k - 1]] = PieceAs(d, t, lo + k - 1)
  <2> TAKE k \in 1 .. hi - lo + 1
  <2>1. lo + k - 1 \in 1 .. c
    BY <1>8, <1>13
  <2> QED BY <1>7, <2>1
<1>17. BesideIn(S, P, i) = Around(d, t, at)
  BY <1>14, <1>15, <1>16
<1> QED BY <1>2, <1>4, <1>5, <1>9, <1>12, <1>17 DEF i, c

LEMMA IssuedHas ==
    ASSUME NEW D, NEW S, NEW P, RawOk(D, S, P), NEW d \in StoredIn(D),
           NEW k \in 1 .. Len(Chunk(TextIn(D, d)))
    PROVE  IdOf(PieceAs(d, TextIn(D, d), k)) \in IssuedIn(S)
<1>1. FiledAs(S, P, d, TextIn(D, d))
  BY DEF RawOk
<1>2. P[d] \in Seq(1 .. Len(S)) /\ k \in 1 .. Len(P[d])
      /\ S[P[d][k]] = PieceAs(d, TextIn(D, d), k)
  BY <1>1 DEF FiledAs
<1>3. P[d][k] \in 1 .. Len(S) /\ DOMAIN S = 1 .. Len(S)
  BY <1>2, ElementOfSeq, LenProperties DEF RawOk
<1> QED BY <1>2, <1>3 DEF IssuedIn

\* The texts of D are the texts of E.
Stays(D, E) == \A d \in StoredIn(D) : d \in StoredIn(E) /\ TextIn(E, d) = TextIn(D, d)

LEMMA PutStays ==
    ASSUME NEW D, NEW S, NEW P, RawOk(D, S, P),
           NEW E, NEW T, NEW Q, RawOk(E, T, Q), Stays(D, E), NEW id \in IssuedIn(S)
    PROVE  /\ id \in IssuedIn(T) /\ TextIn(E, id[1]) = TextIn(D, id[1])
           /\ BesideIn(T, Q, IdxIn(T, id)) = BesideIn(S, P, IdxIn(S, id))
<1> DEFINE t == TextIn(D, id[1])
           d == id[1]
<1>1. /\ d \in StoredIn(D) /\ \E k \in 1 .. Len(Chunk(t)) : id = IdOf(PieceAs(d, t, k))
      /\ BesideIn(S, P, IdxIn(S, id)) = Around(d, t, PlaceOf(t, id))
  BY BesideIs
<1>2. d \in StoredIn(E) /\ TextIn(E, d) = t
  BY <1>1 DEF Stays
<1>3. id \in IssuedIn(T)
  BY <1>1, <1>2, IssuedHas
<1>4. BesideIn(T, Q, IdxIn(T, id)) = Around(d, t, PlaceOf(t, id))
  BY <1>2, <1>3, BesideIs
<1> QED BY <1>1, <1>2, <1>3, <1>4

\* What SpansStayPut says of one span, of a step from here.
PutHere(id) ==
    /\ id \in IssuedIn(spans')
    /\ TextIn(documents', id[1]) = TextIn(documents, id[1])
    /\ BesideIn(spans', docSpans', IdxIn(spans', id)) = BesideIn(spans, docSpans, IdxIn(spans, id))

LEMMA PutHereIs ==
    /\ Issued = IssuedIn(spans)
    /\ \A id : PutHere(id) =>
         /\ id \in Issued'
         /\ Text(id[1])' = Text(id[1])
         /\ Neighbours(IdxOf(id), 1)' = Neighbours(IdxOf(id), 1)
BY DEF PutHere, Issued, IssuedIn, Text, TextIn, Neighbours, BesideIn, IdxOf, IdxIn

LEMMA Stays_Step ==
    ASSUME RawInv, RawInv', Stays(documents, documents')
    PROVE  \A id \in Issued :
             /\ id \in Issued'
             /\ Text(id[1])' = Text(id[1])
             /\ Neighbours(IdxOf(id), 1)' = Neighbours(IdxOf(id), 1)
<1> SUFFICES ASSUME NEW id \in Issued PROVE PutHere(id)
  BY PutHereIs
<1>1. RawOk(documents, spans, docSpans) /\ RawOk(documents', spans', docSpans')
  BY DEF RawInv
<1>2. id \in IssuedIn(spans)
  BY PutHereIs
<1> QED BY <1>1, <1>2, PutStays DEF PutHere

-----------------------------------------------------------------------------
(* Sums.                                                                   *)

SumRound(f, g, k) ==
    IF k = 0 THEN 0 ELSE IF k \in DOMAIN f THEN g[k - 1] + f[k] ELSE g[k - 1]
IsSum(f, n, g) == g = [k \in 0 .. n |-> SumRound(f, g, k)]

\* Numbers under indices up to n.
Summable(f, n) == DOMAIN f \subseteq 1 .. n /\ \A k \in DOMAIN f : f[k] \in Int

\* g is the sums of f by each index up to n.
Totals(f, n, g) ==
    /\ g \in [0 .. n -> Int] /\ g[0] = 0
    /\ \A k \in 1 .. n : g[k] = IF k \in DOMAIN f THEN g[k - 1] + f[k] ELSE g[k - 1]

LEMMA TotalsExist ==
    ASSUME NEW f, NEW n \in Nat, \A k \in DOMAIN f : f[k] \in Int
    PROVE  \E g : Totals(f, n, g)
<1> DEFINE move == [k \in 1 .. n |-> [x \in Int |-> IF k \in DOMAIN f THEN x + f[k] ELSE x]]
<1>1. move \in [1 .. n -> [Int -> Int]]
  OBVIOUS
<1>2. \A k \in 1 .. n, x \in Int : move[k][x] = IF k \in DOMAIN f THEN x + f[k] ELSE x
  OBVIOUS
<1> HIDE DEF move
<1>3. PICK w : IsWalk(w, n, Int, 0, move)
  <2>1. 0 \in Int /\ n \in Nat
    OBVIOUS
  <2>2. \E w : IsWalk(w, n, Int, 0, move)
    BY <1>1, <2>1, WalkExists, Zenon
  <2> QED BY <2>2
<1>4. w \in [0 .. n -> Int] /\ w[0] = 0 /\ \A k \in 1 .. n : w[k] = move[k][w[k - 1]]
  BY <1>3 DEF IsWalk
<1>5. ASSUME NEW k \in 1 .. n
      PROVE  w[k] = IF k \in DOMAIN f THEN w[k - 1] + f[k] ELSE w[k - 1]
  <2>1. k - 1 \in 0 .. n
    OBVIOUS
  <2>2. w[k - 1] \in Int
    BY <1>4, <2>1
  <2> QED BY <1>2, <1>4, <2>2
<1>6. Totals(f, n, w)
  BY <1>4, <1>5 DEF Totals
<1> QED BY <1>6

LEMMA SumIs ==
    ASSUME NEW f, NEW n \in Nat, \A k \in DOMAIN f : f[k] \in Int,
           NEW g, Totals(f, n, g)
    PROVE  SumTo(f, n) = g[n] /\ SumTo(f, n) \in Int
<1> DEFINE s == CHOOSE x : IsSum(f, n, x)
<1>1. SumTo(f, n) = s[n]
  BY DEF SumTo, IsSum, SumRound
<1>2. /\ g \in [0 .. n -> Int] /\ g[0] = 0
      /\ \A k \in 1 .. n : g[k] = IF k \in DOMAIN f THEN g[k - 1] + f[k] ELSE g[k - 1]
  BY DEF Totals
<1>3. \A k \in 0 .. n : k # 0 => k \in 1 .. n /\ k - 1 \in 0 .. n
  OBVIOUS
<1>4. IsSum(f, n, g)
  <2>1. \A k \in 0 .. n : g[k] = SumRound(f, g, k)
    BY <1>2, <1>3 DEF SumRound
  <2> QED BY <1>2, <2>1 DEF IsSum
<1>5. IsSum(f, n, s)
  BY <1>4
<1> HIDE DEF s
<1>6. \A k \in 0 .. n : s[k] = SumRound(f, s, k)
  BY <1>5 DEF IsSum
<1> DEFINE Good == {k \in 0 .. n : s[k] = g[k]}
<1>7. 0 \in Good
  BY <1>2, <1>6 DEF SumRound
<1>8. ASSUME NEW k \in 1 .. n, k - 1 \in Good PROVE k \in Good
  <2>1. k \in 0 .. n /\ k # 0
    OBVIOUS
  <2>2. s[k - 1] = g[k - 1]
    BY <1>8
  <2> QED BY <1>2, <1>6, <2>1, <2>2 DEF SumRound
<1> HIDE DEF Good
<1>9. \A k \in 0 .. n : k \in Good
  BY <1>7, <1>8, EveryRound
<1>10. n \in Good /\ n \in 0 .. n
  BY <1>9
<1>11. s[n] = g[n] /\ g[n] \in Int
  BY <1>2, <1>10 DEF Good
<1> QED BY <1>1, <1>11

LEMMA SumNone ==
    ASSUME NEW f, NEW n \in Nat, DOMAIN f = {}
    PROVE  SumTo(f, n) = 0
<1> DEFINE g == [k \in 0 .. n |-> 0]
<1>1. Totals(f, n, g)
  <2>1. \A k \in 1 .. n : g[k] = g[k - 1]
    OBVIOUS
  <2> QED BY <2>1 DEF Totals
<1>2. g[n] = 0
  OBVIOUS
<1> HIDE DEF g
<1> QED BY <1>1, <1>2, SumIs

LEMMA SumMore ==
    ASSUME NEW f, NEW n \in Nat, NEW m \in Nat, n <= m, Summable(f, n)
    PROVE  SumTo(f, m) = SumTo(f, n)
<1>1. \A k \in DOMAIN f : f[k] \in Int
  BY DEF Summable
<1>2. PICK g : Totals(f, n, g)
  BY <1>1, TotalsExist
<1>3. /\ g \in [0 .. n -> Int] /\ g[0] = 0
      /\ \A k \in 1 .. n : g[k] = IF k \in DOMAIN f THEN g[k - 1] + f[k] ELSE g[k - 1]
  BY <1>2 DEF Totals
<1> DEFINE h == [k \in 0 .. m |-> IF k <= n THEN g[k] ELSE g[n]]
<1>4. h \in [0 .. m -> Int] /\ h[0] = 0
  BY <1>3
<1>5. ASSUME NEW k \in 1 .. m
      PROVE  h[k] = IF k \in DOMAIN f THEN h[k - 1] + f[k] ELSE h[k - 1]
  <2>1. k \in 0 .. m /\ k - 1 \in 0 .. m
    OBVIOUS
  <2>2. CASE k <= n
    <3>1. k \in 1 .. n /\ k - 1 <= n
      BY <2>2
    <3>2. h[k] = g[k] /\ h[k - 1] = g[k - 1]
      BY <2>1, <2>2, <3>1
    <3> HIDE DEF h
    <3> QED BY <1>3, <3>1, <3>2
  <2>3. CASE ~ (k <= n)
    <3>1. k \notin DOMAIN f
      BY <2>3 DEF Summable
    <3>2. h[k] = g[n]
      BY <2>1, <2>3
    <3>3. h[k - 1] = g[n]
      <4>1. k - 1 <= n => k - 1 = n
        BY <2>3
      <4> QED BY <2>1, <4>1
    <3> QED BY <3>1, <3>2, <3>3
  <2> QED BY <2>2, <2>3
<1>6. h[m] = g[n]
  <2>1. m <= n => m = n
    OBVIOUS
  <2> QED BY <2>1
<1> HIDE DEF h
<1>7. Totals(f, m, h)
  BY <1>4, <1>5 DEF Totals
<1> QED BY <1>1, <1>2, <1>6, <1>7, SumIs

\* One number more.
LEMMA SumPlus ==
    ASSUME NEW f, NEW h, NEW n \in Nat, NEW id \in 1 .. n, Summable(f, n), Summable(h, n),
           id \notin DOMAIN f, DOMAIN h = DOMAIN f \cup {id}, \A k \in DOMAIN f : h[k] = f[k]
    PROVE  SumTo(f, n) \in Int /\ SumTo(h, n) = SumTo(f, n) + h[id]
<1>1. (\A k \in DOMAIN f : f[k] \in Int) /\ \A k \in DOMAIN h : h[k] \in Int
  BY DEF Summable
<1>2. PICK g : Totals(f, n, g)
  BY <1>1, TotalsExist
<1>3. /\ g \in [0 .. n -> Int] /\ g[0] = 0
      /\ \A k \in 1 .. n : g[k] = IF k \in DOMAIN f THEN g[k - 1] + f[k] ELSE g[k - 1]
  BY <1>2 DEF Totals
<1>4. PICK v \in Int : v = h[id]
  BY <1>1
<1> DEFINE s == [k \in 0 .. n |-> IF k < id THEN g[k] ELSE g[k] + v]
<1>5. s \in [0 .. n -> Int] /\ s[0] = 0
  BY <1>3
<1>6. ASSUME NEW k \in 1 .. n
      PROVE  s[k] = IF k \in DOMAIN h THEN s[k - 1] + h[k] ELSE s[k - 1]
  <2>1. /\ k \in 0 .. n /\ k - 1 \in 0 .. n
        /\ s[k] = (IF k < id THEN g[k] ELSE g[k] + v)
        /\ s[k - 1] = (IF k - 1 < id THEN g[k - 1] ELSE g[k - 1] + v)
    OBVIOUS
  <2> HIDE DEF s
  <2>2. PICK a \in Int : a = g[k - 1]
    BY <1>3, <2>1
  <2>3. CASE k = id
    <3>1. g[k] = a /\ k \in DOMAIN h /\ h[k] = v
      BY <1>3, <1>4, <2>2, <2>3
    <3>2. k - 1 < id /\ ~ (k < id)
      BY <2>3
    <3> QED BY <2>1, <2>2, <3>1, <3>2
  <2>4. CASE k # id
    <3>1. k \in DOMAIN h <=> k \in DOMAIN f
      BY <2>4
    <3>2. k < id <=> k - 1 < id
      BY <2>4
    <3>3. CASE k \in DOMAIN f
      <4>1. PICK b \in Int : b = f[k] /\ b = h[k]
        BY <1>1, <3>3
      <4>2. g[k] = a + b
        BY <1>3, <2>2, <3>3, <4>1
      <4> QED BY <2>1, <2>2, <3>1, <3>2, <3>3, <4>1, <4>2
    <3>4. CASE k \notin DOMAIN f
      <4>1. g[k] = a
        BY <1>3, <2>2, <3>4
      <4> QED BY <2>1, <2>2, <3>1, <3>2, <3>4, <4>1
    <3> QED BY <3>3, <3>4
  <2> QED BY <2>3, <2>4
<1>7. s[n] = g[n] + v
  OBVIOUS
<1> HIDE DEF s
<1>8. Totals(h, n, s)
  BY <1>5, <1>6 DEF Totals
<1>9. SumTo(h, n) = s[n]
  BY <1>1, <1>8, SumIs
<1>10. SumTo(f, n) = g[n] /\ SumTo(f, n) \in Int
  BY <1>1, <1>2, SumIs
<1> QED BY <1>4, <1>7, <1>9, <1>10

-----------------------------------------------------------------------------
(* The lexical index.  An index keeps a list of texts when its lengths,    *)
(* its postings and their total are those of the texts it has lengths for. *)

\* Functions on some of A.
Part(A, B) == UNION {[T -> B] : T \in SUBSET A}

LEMMA PartIs ==
    ASSUME NEW A, NEW B, NEW f
    PROVE  f \in Part(A, B) <=>
             /\ f = [x \in DOMAIN f |-> f[x]] /\ DOMAIN f \subseteq A
             /\ \A x \in DOMAIN f : f[x] \in B
<1>1. ASSUME f \in Part(A, B)
      PROVE  /\ f = [x \in DOMAIN f |-> f[x]] /\ DOMAIN f \subseteq A
             /\ \A x \in DOMAIN f : f[x] \in B
  <2>1. PICK T \in SUBSET A : f \in [T -> B]
    BY <1>1 DEF Part
  <2> QED BY <2>1
<1>2. ASSUME f = [x \in DOMAIN f |-> f[x]], DOMAIN f \subseteq A, \A x \in DOMAIN f : f[x] \in B
      PROVE  f \in Part(A, B)
  <2>1. f \in [DOMAIN f -> B]
    BY <1>2
  <2> QED BY <1>2, <2>1 DEF Part
<1> QED BY <1>1, <1>2

LEMMA PartMade ==
    ASSUME NEW A, NEW B, NEW f, NEW T \in SUBSET A, f \in [T -> B]
    PROVE  f \in Part(A, B)
BY DEF Part

\* h is f without x; h is g over f; h is f with v under x.
Lacks(f, x, h) ==
    DOMAIN h = DOMAIN f \ {x} /\ \A y \in DOMAIN f \ {x} : h[y] = f[y]
Overlaid(f, g, h) ==
    /\ DOMAIN h = DOMAIN f \cup DOMAIN g
    /\ \A y \in DOMAIN f \cup DOMAIN g : h[y] = IF y \in DOMAIN g THEN g[y] ELSE f[y]
Takes(f, x, v, h) ==
    /\ DOMAIN h = DOMAIN f \cup {x} /\ h[x] = v
    /\ \A y \in DOMAIN f \ {x} : h[y] = f[y]

LEMMA LessPart ==
    ASSUME NEW A, NEW B, NEW f \in Part(A, B), NEW x
    PROVE  Less(f, x) \in Part(A, B) /\ Lacks(f, x, Less(f, x))
<1>1. DOMAIN f \subseteq A /\ \A y \in DOMAIN f : f[y] \in B
  BY PartIs
<1>2. Less(f, x) \in [DOMAIN f \ {x} -> B]
  BY <1>1 DEF Less
<1>3. DOMAIN f \ {x} \in SUBSET A
  BY <1>1
<1>4. Less(f, x) \in Part(A, B)
  BY <1>2, <1>3, PartMade
<1> QED BY <1>4 DEF Less, Lacks

LEMMA OverPart ==
    ASSUME NEW A, NEW B, NEW f \in Part(A, B), NEW g \in Part(A, B)
    PROVE  Over(g, f) \in Part(A, B) /\ Overlaid(f, g, Over(g, f))
<1>1. DOMAIN f \subseteq A /\ \A y \in DOMAIN f : f[y] \in B
  BY PartIs
<1>2. DOMAIN g \subseteq A /\ \A y \in DOMAIN g : g[y] \in B
  BY PartIs
<1>3. Over(g, f) \in [DOMAIN f \cup DOMAIN g -> B]
  BY <1>1, <1>2 DEF Over
<1>4. DOMAIN f \cup DOMAIN g \in SUBSET A
  BY <1>1, <1>2
<1>5. Over(g, f) \in Part(A, B)
  BY <1>3, <1>4, PartMade
<1> QED BY <1>5 DEF Over, Overlaid

Only(x, v) == [y \in {x} |-> v]

LEMMA OverOne ==
    ASSUME NEW A, NEW B, NEW f \in Part(A, B), NEW x \in A, NEW v \in B
    PROVE  /\ Over(Only(x, v), f) \in Part(A, B)
           /\ Takes(f, x, v, Over(Only(x, v), f))
<1> DEFINE g == Only(x, v)
<1>1. g \in [{x} -> B] /\ DOMAIN g = {x} /\ g[x] = v /\ {x} \in SUBSET A
  BY DEF Only
<1> HIDE DEF g
<1>2. g \in Part(A, B)
  BY <1>1, PartMade
<1>3. Over(g, f) \in Part(A, B) /\ Overlaid(f, g, Over(g, f))
  BY <1>2, OverPart
<1>4. Takes(f, x, v, Over(g, f))
  BY <1>1, <1>3 DEF Overlaid, Takes
<1> QED BY <1>3, <1>4 DEF g

Postings == Part(Word, Part(Nat, Nat))
Lexical == [postings : Postings, lengths : Part(Nat, Nat), total : Int]

LEMMA LexicalIs ==
    ASSUME NEW ix \in Lexical
    PROVE  /\ ix.postings \in Postings /\ ix.lengths \in Part(Nat, Nat) /\ ix.total \in Int
           /\ DOMAIN ix.postings \subseteq Word
           /\ \A w \in DOMAIN ix.postings : ix.postings[w] \in Part(Nat, Nat)
           /\ \A i \in DOMAIN ix.lengths : i \in Nat /\ ix.lengths[i] \in Nat
<1>1. ix.postings \in Postings /\ ix.lengths \in Part(Nat, Nat) /\ ix.total \in Int
  BY DEF Lexical
<1> QED BY <1>1, PartIs DEF Postings

LEMMA CountedIs ==
    ASSUME NEW u \in Seq(Word)
    PROVE  /\ ToSet(u) \subseteq Word /\ Len(u) \in Nat
           /\ \A w \in ToSet(u) : Counted(u)[w] \in Nat
<1>1. Len(u) \in Nat /\ DOMAIN u = 1 .. Len(u) /\ \A i \in 1 .. Len(u) : u[i] \in Word
  BY LenProperties
<1>2. ASSUME NEW w \in ToSet(u) PROVE Counted(u)[w] \in Nat
  <2>1. Counted(u)[w] = Cardinality({i \in 1 .. Len(u) : u[i] = w})
    BY <1>1 DEF Counted
  <2>2. IsFiniteSet(1 .. Len(u))
    BY <1>1, FS_Interval
  <2>3. IsFiniteSet({i \in 1 .. Len(u) : u[i] = w})
    BY <2>2, FS_Subset
  <2> QED BY <2>1, <2>3, FS_CardinalityType
<1> QED BY <1>1, <1>2 DEF ToSet

\* The postings of ix without id, and with the words u under it.
Shorn(P, id) ==
    LET kept == [w \in DOMAIN P |-> Less(P[w], id)]
    IN  [w \in {v \in DOMAIN kept : DOMAIN kept[v] # {}} |-> kept[w]]
Under(P, w) == IF w \in DOMAIN P THEN P[w] ELSE <<>>
Posted(P, id, u) ==
    Over([w \in ToSet(u) |-> Over(Only(id, Counted(u)[w]), Under(P, w))], P)

\* The word w is posted for i.
Has(P, w, i) == w \in DOMAIN P /\ i \in DOMAIN P[w]

\* S is the postings P without id.
WithoutId(P, id, S) ==
    /\ \A w \in DOMAIN S :
          /\ w \in DOMAIN P /\ DOMAIN S[w] = DOMAIN P[w] \ {id}
          /\ DOMAIN S[w] # {}
          /\ \A i \in DOMAIN P[w] \ {id} : S[w][i] = P[w][i]
    /\ \A w, i : Has(S, w, i) <=> Has(P, w, i) /\ i # id

LEMMA ShornIs ==
    ASSUME NEW P \in Postings, NEW id
    PROVE  Shorn(P, id) \in Postings /\ WithoutId(P, id, Shorn(P, id))
<1> DEFINE kept == [w \in DOMAIN P |-> Less(P[w], id)]
           T == {v \in DOMAIN kept : DOMAIN kept[v] # {}}
           S == Shorn(P, id)
<1>1. DOMAIN P \subseteq Word /\ \A w \in DOMAIN P : P[w] \in Part(Nat, Nat)
  BY PartIs DEF Postings
<1>2. ASSUME NEW w \in DOMAIN P
      PROVE  /\ kept[w] \in Part(Nat, Nat) /\ DOMAIN kept[w] = DOMAIN P[w] \ {id}
             /\ Lacks(P[w], id, kept[w])
  <2>1. kept[w] = Less(P[w], id)
    OBVIOUS
  <2>2. P[w] \in Part(Nat, Nat)
    BY <1>1
  <2> HIDE DEF kept
  <2>3. kept[w] \in Part(Nat, Nat) /\ Lacks(P[w], id, kept[w])
    BY <2>1, <2>2, LessPart
  <2> QED BY <2>3 DEF Lacks
<1>3. S = [w \in T |-> kept[w]] /\ DOMAIN kept = DOMAIN P
  BY DEF Shorn
<1> HIDE DEF kept, S
<1>4. DOMAIN S = T /\ \A w \in T : S[w] = kept[w] /\ w \in DOMAIN P
  BY <1>3
<1>5. S \in Postings
  <2>1. S \in [T -> Part(Nat, Nat)] /\ T \in SUBSET Word
    BY <1>1, <1>2, <1>3
  <2> HIDE DEF T
  <2> QED BY <2>1, PartMade DEF Postings
<1>6. \A w \in DOMAIN S : /\ w \in DOMAIN P /\ DOMAIN S[w] = DOMAIN P[w] \ {id}
                          /\ DOMAIN S[w] # {}
                          /\ \A i \in DOMAIN P[w] \ {id} : S[w][i] = P[w][i]
  BY <1>2, <1>4 DEF Lacks
<1>7. ASSUME NEW w, NEW i PROVE Has(S, w, i) <=> Has(P, w, i) /\ i # id
  <2>1. ASSUME Has(S, w, i) PROVE Has(P, w, i) /\ i # id
    BY <1>6, <2>1 DEF Has
  <2>2. ASSUME Has(P, w, i), i # id PROVE Has(S, w, i)
    <3>1. w \in DOMAIN P /\ i \in DOMAIN kept[w]
      BY <1>2, <2>2 DEF Has
    <3>2. w \in T
      BY <1>3, <3>1
    <3> QED BY <1>4, <3>1, <3>2 DEF Has
  <2> QED BY <2>1, <2>2
<1> QED BY <1>5, <1>6, <1>7 DEF S, WithoutId

\* Q is the postings P with those of u under id.
WithWords(P, id, u, Q) ==
    /\ DOMAIN Q = DOMAIN P \cup ToSet(u)
    /\ \A w \in ToSet(u) : Takes(Under(P, w), id, Counted(u)[w], Q[w])
    /\ \A w \in DOMAIN P \ ToSet(u) : Q[w] = P[w]

LEMMA PostedIs ==
    ASSUME NEW P \in Postings, NEW id \in Nat, NEW u \in Seq(Word)
    PROVE  Posted(P, id, u) \in Postings /\ WithWords(P, id, u, Posted(P, id, u))
<1> DEFINE g == [w \in ToSet(u) |-> Over(Only(id, Counted(u)[w]), Under(P, w))]
           Q == Posted(P, id, u)
<1>1. DOMAIN P \subseteq Word /\ \A w \in DOMAIN P : P[w] \in Part(Nat, Nat)
  BY PartIs DEF Postings
<1>2. ToSet(u) \in SUBSET Word /\ \A w \in ToSet(u) : Counted(u)[w] \in Nat
  BY CountedIs
<1>3. \A w : Under(P, w) \in Part(Nat, Nat)
  <2>1. <<>> \in [{} -> Nat] /\ {} \in SUBSET Nat
    OBVIOUS
  <2>2. <<>> \in Part(Nat, Nat)
    BY <2>1, PartMade
  <2> QED BY <1>1, <2>2 DEF Under
<1>4. ASSUME NEW w \in ToSet(u)
      PROVE  g[w] \in Part(Nat, Nat) /\ Takes(Under(P, w), id, Counted(u)[w], g[w])
  <2>1. g[w] = Over(Only(id, Counted(u)[w]), Under(P, w))
    OBVIOUS
  <2>2. Counted(u)[w] \in Nat /\ Under(P, w) \in Part(Nat, Nat)
    BY <1>2, <1>3
  <2> HIDE DEF g
  <2>3. \A f \in Part(Nat, Nat), x \in Nat, v \in Nat :
           Over(Only(x, v), f) \in Part(Nat, Nat) /\ Takes(f, x, v, Over(Only(x, v), f))
    BY OverOne, Zenon
  <2> QED BY <2>1, <2>2, <2>3
<1>5. DOMAIN g = ToSet(u) /\ g \in [ToSet(u) -> Part(Nat, Nat)]
  BY <1>4
<1>6. Q = Over(g, P)
  BY DEF Posted
<1> HIDE DEF g, Q
<1>7. g \in Part(Word, Part(Nat, Nat)) /\ P \in Part(Word, Part(Nat, Nat))
  BY <1>2, <1>5, PartMade DEF Postings
<1>8. Q \in Postings /\ Overlaid(P, g, Q)
  BY <1>6, <1>7, OverPart DEF Postings
<1>9. /\ DOMAIN Q = DOMAIN P \cup ToSet(u)
      /\ \A w \in ToSet(u) : Q[w] = g[w]
      /\ \A w \in DOMAIN P \ ToSet(u) : Q[w] = P[w]
  BY <1>5, <1>8 DEF Overlaid
<1>10. \A w \in ToSet(u) : Takes(Under(P, w), id, Counted(u)[w], Q[w])
  BY <1>4, <1>9
<1> QED BY <1>8, <1>9, <1>10 DEF Q, WithWords

LEMMA LexicalOpsAre ==
    ASSUME NEW ix, NEW id, NEW u
    PROVE  /\ LexicalRemove(ix, id) =
                IF id \notin DOMAIN ix.lengths THEN ix
                ELSE [postings |-> Shorn(ix.postings, id), lengths |-> Less(ix.lengths, id),
                      total |-> ix.total - ix.lengths[id]]
           /\ LexicalPut(ix, id, u) =
                [postings |-> Posted(ix.postings, id, u),
                 lengths |-> Over(Only(id, Len(u)), ix.lengths),
                 total |-> ix.total + Len(u)]
BY DEF LexicalRemove, LexicalPut, Shorn, Posted, Under, Only

LEMMA RemoveTyped ==
    ASSUME NEW ix \in Lexical, NEW id
    PROVE  LexicalRemove(ix, id) \in Lexical
<1> DEFINE R == LexicalRemove(ix, id)
<1>1. CASE id \notin DOMAIN ix.lengths
  <2>1. R = ix
    BY <1>1, LexicalOpsAre
  <2> QED BY <2>1
<1>2. CASE id \in DOMAIN ix.lengths
  <2>1. R = [postings |-> Shorn(ix.postings, id), lengths |-> Less(ix.lengths, id),
             total |-> ix.total - ix.lengths[id]]
    BY <1>2, LexicalOpsAre
  <2>2. /\ ix.postings \in Postings /\ ix.lengths \in Part(Nat, Nat)
        /\ ix.total \in Int /\ ix.lengths[id] \in Nat
    BY <1>2, LexicalIs
  <2>3. Shorn(ix.postings, id) \in Postings
    BY <2>2, ShornIs
  <2>4. Less(ix.lengths, id) \in Part(Nat, Nat)
    BY <2>2, LessPart
  <2>5. ix.total - ix.lengths[id] \in Int
    BY <2>2
  <2> QED BY <2>1, <2>3, <2>4, <2>5 DEF Lexical
<1> QED BY <1>1, <1>2

LEMMA PutTyped ==
    ASSUME NEW ix \in Lexical, NEW id \in Nat, NEW u \in Seq(Word)
    PROVE  LexicalPut(ix, id, u) \in Lexical
<1>1. LexicalPut(ix, id, u) =
         [postings |-> Posted(ix.postings, id, u), lengths |-> Over(Only(id, Len(u)), ix.lengths),
          total |-> ix.total + Len(u)]
  BY LexicalOpsAre
<1>2. ix.postings \in Postings /\ ix.lengths \in Part(Nat, Nat) /\ ix.total \in Int
  BY LexicalIs
<1>3. Posted(ix.postings, id, u) \in Postings
  BY <1>2, PostedIs
<1>4. Len(u) \in Nat
  BY LenProperties
<1>5. Over(Only(id, Len(u)), ix.lengths) \in Part(Nat, Nat)
  BY <1>2, <1>4, OverOne, Zenon
<1>6. ix.total + Len(u) \in Int
  BY <1>2, <1>4
<1> QED BY <1>1, <1>3, <1>5, <1>6 DEF Lexical

LEMMA AddTyped ==
    ASSUME NEW ix \in Lexical, NEW id \in Nat, NEW u \in Seq(Word)
    PROVE  LexicalAdd(ix, id, u) \in Lexical
BY RemoveTyped, PutTyped DEF LexicalAdd

LEMMA NoneTyped == NoLexical \in Lexical
<1>1. <<>> \in [{} -> Nat] /\ {} \in SUBSET Nat /\ <<>> \in [{} -> Part(Nat, Nat)]
      /\ {} \in SUBSET Word
  OBVIOUS
<1>2. <<>> \in Part(Nat, Nat) /\ <<>> \in Postings
  BY <1>1, PartMade DEF Postings
<1> QED BY <1>2 DEF Lexical, NoLexical

\* The lengths and the postings are those of the texts W.
LengthsOf(ix, W) ==
    \A i \in DOMAIN ix.lengths : W[i] \in Seq(Word) /\ ix.lengths[i] = Len(W[i])
CountsOf(ix, W) ==
    \A w \in DOMAIN ix.postings :
        /\ DOMAIN ix.postings[w] # {}
        /\ \A i \in DOMAIN ix.postings[w] : ix.postings[w][i] = Counted(W[i])[w]
PostedFor(ix, W) ==
    \A w, i : Has(ix.postings, w, i) <=> i \in DOMAIN ix.lengths /\ w \in ToSet(W[i])

Kept(ix, W, n) ==
    /\ ix \in Lexical /\ DOMAIN ix.lengths \subseteq 1 .. n
    /\ LengthsOf(ix, W) /\ CountsOf(ix, W) /\ PostedFor(ix, W)
    /\ ix.total = SumTo(ix.lengths, n)

LEMMA LengthsSummable ==
    ASSUME NEW ix \in Lexical, NEW n, DOMAIN ix.lengths \subseteq 1 .. n
    PROVE  Summable(ix.lengths, n)
<1>1. \A i \in DOMAIN ix.lengths : ix.lengths[i] \in Nat
  BY LexicalIs
<1> QED BY <1>1 DEF Summable

LEMMA KeptDescribes ==
    ASSUME NEW ix, NEW W, NEW n, Kept(ix, W, n)
    PROVE  Describes(ix, [i \in DOMAIN ix.lengths |-> W[i]], n)
<1> DEFINE D == DOMAIN ix.lengths
           T == [i \in D |-> W[i]]
           P == ix.postings
<1>1. /\ CountsOf(ix, W) /\ PostedFor(ix, W) /\ LengthsOf(ix, W)
      /\ ix.total = SumTo(ix.lengths, n)
  BY DEF Kept
<1>2. DOMAIN T = D /\ \A i \in D : T[i] = W[i]
  OBVIOUS
<1> HIDE DEF T
<1>3. \A w \in DOMAIN P : DOMAIN P[w] = {i \in D : w \in ToSet(T[i])}
  <2> TAKE w \in DOMAIN P
  <2>1. \A i : i \in DOMAIN P[w] <=> i \in D /\ w \in ToSet(W[i])
    BY <1>1 DEF PostedFor, Has
  <2> QED BY <1>2, <2>1
<1>4. DOMAIN P = UNION {ToSet(T[i]) : i \in D}
  <2>1. ASSUME NEW w \in DOMAIN P PROVE \E i \in D : w \in ToSet(T[i])
    <3>1. DOMAIN P[w] # {}
      BY <1>1 DEF CountsOf
    <3> QED BY <1>3, <3>1
  <2>2. ASSUME NEW i \in D, NEW w \in ToSet(T[i]) PROVE w \in DOMAIN P
    BY <1>1, <1>2, <2>2 DEF PostedFor, Has
  <2> QED BY <2>1, <2>2
<1>5. ASSUME NEW w \in DOMAIN P, NEW i \in DOMAIN P[w] PROVE P[w][i] = Counted(T[i])[w]
  <2>1. i \in D
    BY <1>3
  <2> QED BY <1>1, <1>2, <2>1 DEF CountsOf
<1>6. \A i \in D : ix.lengths[i] = Len(T[i])
  BY <1>1, <1>2 DEF LengthsOf
<1>7. Describes(ix, T, n)
  BY <1>1, <1>2, <1>3, <1>4, <1>5, <1>6 DEF Describes
<1> QED BY <1>7 DEF T

LEMMA KeptNone ==
    ASSUME NEW W, NEW n \in Nat
    PROVE  Kept(NoLexical, W, n)
<1>1. NoLexical.postings = <<>> /\ NoLexical.lengths = <<>> /\ NoLexical.total = 0
      /\ DOMAIN <<>> = {}
  BY DEF NoLexical
<1>2. SumTo(NoLexical.lengths, n) = 0
  BY <1>1, SumNone
<1>3. LengthsOf(NoLexical, W) /\ CountsOf(NoLexical, W) /\ PostedFor(NoLexical, W)
  BY <1>1 DEF LengthsOf, CountsOf, PostedFor, Has
<1>4. DOMAIN NoLexical.lengths \subseteq 1 .. n
  BY <1>1
<1> QED BY <1>1, <1>2, <1>3, <1>4, NoneTyped DEF Kept

\* The texts may be longer lists, as long as those kept are the same.
LEMMA KeptElse ==
    ASSUME NEW ix, NEW W, NEW n \in Nat, Kept(ix, W, n),
           NEW V, \A i \in DOMAIN ix.lengths : V[i] = W[i], NEW m \in Nat, n <= m
    PROVE  Kept(ix, V, m)
<1>1. /\ ix \in Lexical /\ DOMAIN ix.lengths \subseteq 1 .. n
      /\ LengthsOf(ix, W) /\ CountsOf(ix, W) /\ PostedFor(ix, W)
      /\ ix.total = SumTo(ix.lengths, n)
  BY DEF Kept
<1>2. 1 .. n \subseteq 1 .. m
  OBVIOUS
<1>3. ix.total = SumTo(ix.lengths, m)
  BY <1>1, LengthsSummable, SumMore
<1>4. LengthsOf(ix, V) /\ PostedFor(ix, V)
  BY <1>1 DEF LengthsOf, PostedFor
<1>5. CountsOf(ix, V)
  <2> SUFFICES ASSUME NEW w \in DOMAIN ix.postings
               PROVE  /\ DOMAIN ix.postings[w] # {}
                      /\ \A i \in DOMAIN ix.postings[w] : ix.postings[w][i] = Counted(V[i])[w]
    BY DEF CountsOf
  <2>1. \A i \in DOMAIN ix.postings[w] : i \in DOMAIN ix.lengths
    BY <1>1 DEF PostedFor, Has
  <2>2. \A i \in DOMAIN ix.postings[w] : V[i] = W[i]
    BY <2>1
  <2> QED BY <1>1, <2>2 DEF CountsOf
<1> QED BY <1>1, <1>2, <1>3, <1>4, <1>5 DEF Kept

LEMMA RemoveKept ==
    ASSUME NEW ix, NEW W, NEW n \in Nat, Kept(ix, W, n), NEW id
    PROVE  /\ Kept(LexicalRemove(ix, id), W, n)
           /\ DOMAIN LexicalRemove(ix, id).lengths = DOMAIN ix.lengths \ {id}
<1> DEFINE R == LexicalRemove(ix, id)
           P == ix.postings
           f == ix.lengths
<1>1. /\ ix \in Lexical /\ DOMAIN f \subseteq 1 .. n
      /\ LengthsOf(ix, W) /\ CountsOf(ix, W) /\ PostedFor(ix, W)
      /\ ix.total = SumTo(f, n)
  BY DEF Kept
<1>2. CASE id \notin DOMAIN f
  <2>1. R = ix
    BY <1>2, LexicalOpsAre
  <2> QED BY <1>2, <2>1
<1>3. CASE id \in DOMAIN f
  <2>1. R.postings = Shorn(P, id) /\ R.lengths = Less(f, id) /\ R.total = ix.total - f[id]
    <3>1. R = [postings |-> Shorn(P, id), lengths |-> Less(f, id), total |-> ix.total - f[id]]
      BY <1>3, LexicalOpsAre
    <3> QED BY <3>1
  <2>2. R \in Lexical
    BY <1>1, RemoveTyped
  <2>3. P \in Postings /\ f \in Part(Nat, Nat) /\ f[id] \in Nat
    BY <1>1, <1>3, LexicalIs
  <2> HIDE DEF R
  <2>4. Lacks(f, id, R.lengths)
    BY <2>1, <2>3, LessPart
  <2>5. DOMAIN R.lengths = DOMAIN f \ {id} /\ \A i \in DOMAIN f \ {id} : R.lengths[i] = f[i]
    BY <2>4 DEF Lacks
  <2>6. /\ \A w \in DOMAIN R.postings :
              /\ w \in DOMAIN P /\ DOMAIN R.postings[w] = DOMAIN P[w] \ {id}
              /\ DOMAIN R.postings[w] # {}
              /\ \A i \in DOMAIN P[w] \ {id} : R.postings[w][i] = P[w][i]
        /\ \A w, i : Has(R.postings, w, i) <=> Has(P, w, i) /\ i # id
    <3>1. WithoutId(P, id, Shorn(P, id))
      BY <2>3, ShornIs
    <3>2. WithoutId(P, id, R.postings)
      BY <2>1, <3>1
    <3> QED BY <3>2 DEF WithoutId
  <2>7. LengthsOf(R, W)
    BY <1>1, <2>5 DEF LengthsOf
  <2>8. PostedFor(R, W)
    BY <1>1, <2>5, <2>6 DEF PostedFor
  <2>9. CountsOf(R, W)
    BY <1>1, <2>6 DEF CountsOf
  <2>10. R.total = SumTo(R.lengths, n)
    <3>1. DOMAIN R.lengths \subseteq 1 .. n /\ id \in 1 .. n
      BY <1>1, <1>3, <2>5
    <3>2. Summable(R.lengths, n) /\ Summable(f, n)
      BY <1>1, <2>2, <3>1, LengthsSummable
    <3>3. id \notin DOMAIN R.lengths /\ DOMAIN f = DOMAIN R.lengths \cup {id}
          /\ \A k \in DOMAIN R.lengths : f[k] = R.lengths[k]
      BY <1>3, <2>5
    <3>4. SumTo(R.lengths, n) \in Int /\ SumTo(f, n) = SumTo(R.lengths, n) + f[id]
      BY <3>1, <3>2, <3>3, SumPlus
    <3> QED BY <1>1, <2>1, <2>3, <3>4
  <2>11. Kept(R, W, n)
    BY <1>1, <2>2, <2>5, <2>7, <2>8, <2>9, <2>10 DEF Kept
  <2> QED BY <2>5, <2>11 DEF R
<1> QED BY <1>2, <1>3

LEMMA PutKept ==
    ASSUME NEW ix, NEW W, NEW n \in Nat, Kept(ix, W, n),
           NEW id \in 1 .. n, id \notin DOMAIN ix.lengths, NEW u \in Seq(Word),
           NEW V, V[id] = u, \A i \in DOMAIN ix.lengths : V[i] = W[i]
    PROVE  /\ Kept(LexicalPut(ix, id, u), V, n)
           /\ DOMAIN LexicalPut(ix, id, u).lengths = DOMAIN ix.lengths \cup {id}
<1> DEFINE R == LexicalPut(ix, id, u)
           P == ix.postings
           Q == R.postings
           f == ix.lengths
<1>1. n <= n
  OBVIOUS
<1>2. Kept(ix, V, n)
  BY <1>1, KeptElse
<1>3. /\ ix \in Lexical /\ DOMAIN f \subseteq 1 .. n
      /\ LengthsOf(ix, V) /\ CountsOf(ix, V) /\ PostedFor(ix, V)
      /\ ix.total = SumTo(f, n)
  BY <1>2 DEF Kept
<1>4. Q = Posted(P, id, u) /\ R.lengths = Over(Only(id, Len(u)), f)
      /\ R.total = ix.total + Len(u)
  BY LexicalOpsAre
<1>5. id \in Nat /\ Len(u) \in Nat
  BY LenProperties
<1>6. R \in Lexical
  BY <1>3, <1>5, PutTyped
<1>7. P \in Postings /\ f \in Part(Nat, Nat)
  BY <1>3, LexicalIs
<1> HIDE DEF R
<1>8. DOMAIN R.lengths = DOMAIN f \cup {id} /\ R.lengths[id] = Len(u)
      /\ \A i \in DOMAIN f \ {id} : R.lengths[i] = f[i]
  <2>1. Takes(f, id, Len(u), Over(Only(id, Len(u)), f))
    BY <1>5, <1>7, OverOne, Zenon
  <2> QED BY <1>4, <2>1 DEF Takes
<1> HIDE DEF Q
<1>9. /\ DOMAIN Q = DOMAIN P \cup ToSet(u)
      /\ \A w \in ToSet(u) : Takes(Under(P, w), id, Counted(u)[w], Q[w])
      /\ \A w \in DOMAIN P \ ToSet(u) : Q[w] = P[w]
  <2>1. WithWords(P, id, u, Posted(P, id, u))
    BY <1>5, <1>7, PostedIs
  <2>2. WithWords(P, id, u, Q)
    BY <1>4, <2>1
  <2> QED BY <2>2 DEF WithWords
<1>10. \A w : ~ Has(P, w, id)
  BY <1>3 DEF PostedFor
<1>11. ASSUME NEW w \in ToSet(u)
       PROVE  /\ w \in DOMAIN Q /\ \A i : i \in DOMAIN Q[w] <=> Has(P, w, i) \/ i = id
              /\ Q[w][id] = Counted(u)[w]
              /\ \A i : Has(P, w, i) => Q[w][i] = P[w][i]
  <2>1. Takes(Under(P, w), id, Counted(u)[w], Q[w])
    BY <1>9
  <2>2. DOMAIN Q[w] = DOMAIN Under(P, w) \cup {id} /\ Q[w][id] = Counted(u)[w]
        /\ \A i \in DOMAIN Under(P, w) \ {id} : Q[w][i] = Under(P, w)[i]
    BY <2>1 DEF Takes
  <2>3. \A i : i \in DOMAIN Under(P, w) <=> Has(P, w, i)
    <3>1. DOMAIN <<>> = {}
      OBVIOUS
    <3> QED BY <3>1 DEF Under, Has
  <2>4. ASSUME NEW i, Has(P, w, i) PROVE Q[w][i] = P[w][i]
    <3>1. i # id /\ i \in DOMAIN Under(P, w)
      BY <1>10, <2>3, <2>4
    <3>2. Under(P, w)[i] = P[w][i]
      BY <2>4 DEF Under, Has
    <3> QED BY <2>2, <3>1, <3>2
  <2> QED BY <1>9, <2>2, <2>3, <2>4
<1>12. \A w, i : Has(Q, w, i) <=> Has(P, w, i) \/ (i = id /\ w \in ToSet(u))
  <2> TAKE w, i
  <2>1. CASE w \in ToSet(u)
    BY <1>11, <2>1 DEF Has
  <2>2. CASE w \notin ToSet(u)
    BY <1>9, <2>2 DEF Has
  <2> QED BY <2>1, <2>2
<1>13. PostedFor(R, V)
  BY <1>3, <1>8, <1>10, <1>12 DEF PostedFor, Q
<1>14. LengthsOf(R, V)
  BY <1>3, <1>8 DEF LengthsOf
<1>15. CountsOf(R, V)
  <2> SUFFICES ASSUME NEW w \in DOMAIN Q
               PROVE  /\ DOMAIN Q[w] # {}
                      /\ \A i \in DOMAIN Q[w] : Q[w][i] = Counted(V[i])[w]
    BY DEF CountsOf, Q
  <2>1. CASE w \in ToSet(u)
    <3>1. ASSUME NEW i, Has(P, w, i) PROVE Q[w][i] = Counted(V[i])[w]
      <4>1. Q[w][i] = P[w][i]
        BY <1>11, <2>1, <3>1
      <4>2. P[w][i] = Counted(V[i])[w]
        BY <1>3, <3>1 DEF CountsOf, Has
      <4> QED BY <4>1, <4>2
    <3> QED BY <1>11, <2>1, <3>1
  <2>2. CASE w \notin ToSet(u)
    <3>1. w \in DOMAIN P /\ Q[w] = P[w]
      BY <1>9, <2>2
    <3> QED BY <1>3, <3>1 DEF CountsOf
  <2> QED BY <2>1, <2>2
<1>16. R.total = SumTo(R.lengths, n)
  <2>1. DOMAIN R.lengths \subseteq 1 .. n
    BY <1>3, <1>8
  <2>2. Summable(R.lengths, n) /\ Summable(f, n)
    BY <1>3, <1>6, <2>1, LengthsSummable
  <2>3. \A k \in DOMAIN f : R.lengths[k] = f[k]
    BY <1>8
  <2>4. SumTo(f, n) \in Int /\ SumTo(R.lengths, n) = SumTo(f, n) + R.lengths[id]
    BY <1>8, <2>2, <2>3, SumPlus
  <2> QED BY <1>3, <1>4, <1>8, <2>4
<1>17. Kept(R, V, n)
  BY <1>3, <1>6, <1>8, <1>13, <1>14, <1>15, <1>16 DEF Kept
<1> QED BY <1>8, <1>17 DEF R

\* However often a text is filed under one index, the last is what is kept.
LEMMA AddKept ==
    ASSUME NEW ix, NEW W, NEW n \in Nat, Kept(ix, W, n), NEW id \in 1 .. n, NEW u \in Seq(Word),
           NEW V, V[id] = u, \A i \in DOMAIN ix.lengths \ {id} : V[i] = W[i]
    PROVE  /\ Kept(LexicalAdd(ix, id, u), V, n)
           /\ DOMAIN LexicalAdd(ix, id, u).lengths = DOMAIN ix.lengths \cup {id}
<1> DEFINE R == LexicalRemove(ix, id)
<1>1. Kept(R, W, n) /\ DOMAIN R.lengths = DOMAIN ix.lengths \ {id}
  BY RemoveKept
<1>2. LexicalAdd(ix, id, u) = LexicalPut(R, id, u)
  BY DEF LexicalAdd
<1> HIDE DEF R
<1>3. id \notin DOMAIN R.lengths /\ \A i \in DOMAIN R.lengths : V[i] = W[i]
  BY <1>1
<1>4. Kept(LexicalPut(R, id, u), V, n)
      /\ DOMAIN LexicalPut(R, id, u).lengths = DOMAIN R.lengths \cup {id}
  BY <1>1, <1>3, PutKept
<1> QED BY <1>1, <1>2, <1>4

-----------------------------------------------------------------------------
(* The words of a span, and the spans filed one by one.                    *)

TakenAt(t, s, i) == i \in s.from .. s.to /\ t[i] \in Word
WordsRound(t, s, g, i) ==
    IF i = 0 THEN <<>> ELSE IF TakenAt(t, s, i) THEN Append(g[i - 1], t[i]) ELSE g[i - 1]
IsWords(t, s, g) == g = [i \in 0 .. Len(t) |-> WordsRound(t, s, g, i)]

LEMMA WordsExist ==
    ASSUME NEW t \in Seq(Mark), NEW s
    PROVE  \E g : IsWords(t, s, g) /\ g \in [0 .. Len(t) -> Seq(Word)]
<1> DEFINE n == Len(t)
           X == Seq(Word)
           move == [i \in 1 .. n |->
                       [x \in X |-> IF TakenAt(t, s, i) THEN Append(x, t[i]) ELSE x]]
<1>1. n \in Nat /\ <<>> \in X
  BY LenProperties
<1>2. \A i \in 1 .. n, x \in X : (IF TakenAt(t, s, i) THEN Append(x, t[i]) ELSE x) \in X
  BY AppendProperties DEF TakenAt
<1>3. move \in [1 .. n -> [X -> X]]
  BY <1>2
<1>4. \A i \in 1 .. n, x \in X : move[i][x] = IF TakenAt(t, s, i) THEN Append(x, t[i]) ELSE x
  OBVIOUS
<1> HIDE DEF move, X
<1>5. PICK w : IsWalk(w, n, X, <<>>, move)
  BY <1>1, <1>3, WalkExists, Zenon
<1>6. w \in [0 .. n -> X] /\ w[0] = <<>> /\ \A i \in 1 .. n : w[i] = move[i][w[i - 1]]
  BY <1>5 DEF IsWalk
<1> HIDE DEF n
<1>7. ASSUME NEW i \in 0 .. n PROVE w[i] = WordsRound(t, s, w, i)
  <2>1. CASE i = 0
    BY <1>6, <2>1 DEF WordsRound
  <2>2. CASE i # 0
    <3>1. i \in 1 .. n /\ i - 1 \in 0 .. n
      BY <1>1, <2>2
    <3>2. w[i - 1] \in X /\ w[i] = move[i][w[i - 1]]
      BY <1>6, <3>1
    <3> QED BY <1>4, <2>2, <3>1, <3>2 DEF WordsRound
  <2> QED BY <2>1, <2>2
<1>8. IsWords(t, s, w)
  BY <1>6, <1>7 DEF IsWords, n
<1> QED BY <1>6, <1>8 DEF n, X

\* What is read of a span are words, and nothing is read of white space.
LEMMA WordsOfIs ==
    ASSUME NEW t \in Seq(Mark), NEW s
    PROVE  /\ WordsOf(t, s) \in Seq(Word)
           /\ Blank(t, s.from, s.to) => WordsOf(t, s) = <<>>
<1> DEFINE n == Len(t)
           g == CHOOSE x : IsWords(t, s, x)
<1>1. WordsOf(t, s) = g[n]
  BY DEF WordsOf, IsWords, WordsRound, TakenAt
<1>2. n \in Nat /\ n \in 0 .. n
  BY LenProperties
<1>3. IsWords(t, s, g)
  BY WordsExist
<1> HIDE DEF g, n
<1>4. \A i \in 0 .. n : g[i] = WordsRound(t, s, g, i)
  BY <1>3 DEF IsWords, n
<1>5. g[0] = <<>>
  BY <1>2, <1>4 DEF WordsRound
<1>6. \A i \in 1 .. n : g[i] = IF TakenAt(t, s, i) THEN Append(g[i - 1], t[i]) ELSE g[i - 1]
  BY <1>2, <1>4 DEF WordsRound
<1>7. WordsOf(t, s) \in Seq(Word)
  <2> DEFINE Good == {i \in 0 .. n : g[i] \in Seq(Word)}
  <2>1. 0 \in Good
    <3>1. <<>> \in Seq(Word)
      OBVIOUS
    <3>2. g[0] \in Seq(Word)
      BY <1>5, <3>1, Zenon
    <3>3. 0 \in 0 .. n
      BY <1>2
    <3> QED BY <3>2, <3>3
  <2>2. ASSUME NEW i \in 1 .. n, i - 1 \in Good PROVE i \in Good
    <3>1. i \in 0 .. n /\ g[i - 1] \in Seq(Word)
      BY <2>2
    <3>2. g[i] \in Seq(Word)
      <4>1. CASE TakenAt(t, s, i)
        <5>1. t[i] \in Word /\ g[i] = Append(g[i - 1], t[i])
          BY <1>6, <4>1 DEF TakenAt
        <5> QED BY <3>1, <5>1, AppendProperties
      <4>2. CASE ~ TakenAt(t, s, i)
        BY <1>6, <3>1, <4>2
      <4> QED BY <4>1, <4>2
    <3> QED BY <3>1, <3>2
  <2> HIDE DEF Good
  <2>3. \A i \in 0 .. n : i \in Good
    BY <1>2, <2>1, <2>2, EveryRound
  <2> QED BY <1>1, <1>2, <2>3 DEF Good
<1>8. ASSUME Blank(t, s.from, s.to) PROVE WordsOf(t, s) = <<>>
  <2> DEFINE Good == {i \in 0 .. n : g[i] = <<>>}
  <2>1. 0 \in Good
    BY <1>2, <1>5
  <2>2. \A i : ~ TakenAt(t, s, i)
    BY <1>8, RawStoreAssumption DEF Blank, TakenAt
  <2>3. ASSUME NEW i \in 1 .. n, i - 1 \in Good PROVE i \in Good
    <3>1. i \in 0 .. n /\ g[i - 1] = <<>>
      BY <2>3
    <3>2. g[i] = <<>>
      BY <1>6, <2>2, <3>1
    <3> QED BY <3>1, <3>2
  <2> HIDE DEF Good
  <2>4. \A i \in 0 .. n : i \in Good
    BY <1>2, <2>1, <2>3, EveryRound
  <2> QED BY <1>1, <1>2, <2>4 DEF Good
<1> QED BY <1>7, <1>8

\* The index keeps the texts W, and of the first n each that has words.
FiledTo(ix, W, m, n) ==
    Kept(ix, W, m) /\ \A i \in 1 .. n : W[i] # <<>> => i \in DOMAIN ix.lengths

LEMMA FiledAdd ==
    ASSUME NEW ix, NEW W, NEW m \in Nat, NEW k \in 1 .. m, FiledTo(ix, W, m, k - 1),
           NEW u \in Seq(Word), W[k] = u
    PROVE  FiledTo(LexicalAdd(ix, k, u), W, m, k)
<1>1. Kept(ix, W, m) /\ \A i \in DOMAIN ix.lengths \ {k} : W[i] = W[i]
  BY DEF FiledTo
<1>2. Kept(LexicalAdd(ix, k, u), W, m)
      /\ DOMAIN LexicalAdd(ix, k, u).lengths = DOMAIN ix.lengths \cup {k}
  BY <1>1, AddKept
<1>3. \A i \in 1 .. k : i = k \/ i \in 1 .. k - 1
  OBVIOUS
<1> QED BY <1>2, <1>3 DEF FiledTo

LEMMA FiledSkip ==
    ASSUME NEW ix, NEW W, NEW m, NEW k \in Nat, FiledTo(ix, W, m, k - 1), W[k] = <<>>
    PROVE  FiledTo(ix, W, m, k)
<1>1. \A i \in 1 .. k : i = k \/ i \in 1 .. k - 1
  OBVIOUS
<1> QED BY <1>1 DEF FiledTo

\* The rounds w file U[k] under a + k, but for the rounds B.
FilingOf(w, c, base, a, U, B) ==
    /\ w[0] = base
    /\ \A k \in 1 .. c :
          w[k] = IF k \in B THEN w[k - 1] ELSE LexicalAdd(w[k - 1], a + k, U[k])

LEMMA FilingExists ==
    ASSUME NEW c \in Nat, NEW base \in Lexical, NEW a \in Nat,
           NEW U, \A k \in 1 .. c : U[k] \in Seq(Word), NEW B
    PROVE  \E w : w = [k \in 0 .. c |-> w[k]] /\ FilingOf(w, c, base, a, U, B)
<1> DEFINE to(k, x) == IF k \in B THEN x ELSE LexicalAdd(x, a + k, U[k])
           move == [k \in 1 .. c |-> [x \in Lexical |-> to(k, x)]]
<1>1. ASSUME NEW k \in 1 .. c, NEW x \in Lexical PROVE to(k, x) \in Lexical
  <2>1. a + k \in Nat /\ U[k] \in Seq(Word)
    OBVIOUS
  <2>2. LexicalAdd(x, a + k, U[k]) \in Lexical
    BY <2>1, AddTyped
  <2> QED BY <2>2
<1> HIDE DEF to
<1>2. move \in [1 .. c -> [Lexical -> Lexical]]
  BY <1>1
<1>3. \A k \in 1 .. c, x \in Lexical : move[k][x] = to(k, x)
  OBVIOUS
<1> HIDE DEF move
<1>4. PICK w : IsWalk(w, c, Lexical, base, move)
  BY <1>2, WalkExists, Zenon
<1>5. w \in [0 .. c -> Lexical] /\ w[0] = base /\ \A k \in 1 .. c : w[k] = move[k][w[k - 1]]
  BY <1>4 DEF IsWalk
<1>6. ASSUME NEW k \in 1 .. c PROVE w[k] = to(k, w[k - 1])
  <2>1. k - 1 \in 0 .. c
    OBVIOUS
  <2>2. w[k - 1] \in Lexical
    BY <1>5, <2>1
  <2> QED BY <1>3, <1>5, <2>2
<1>7. FilingOf(w, c, base, a, U, B)
  BY <1>5, <1>6 DEF FilingOf, to
<1> QED BY <1>5, <1>7

\* What is filed is what the texts W say, and what is not filed has no words.
FilesOf(W, a, c, U, B) ==
    \A k \in 1 .. c : U[k] \in Seq(Word) /\ W[a + k] = U[k] /\ (k \in B => U[k] = <<>>)

LEMMA FilingIs ==
    ASSUME NEW c \in Nat, NEW a \in Nat, NEW m \in Nat, a + c <= m,
           NEW base, NEW W, FiledTo(base, W, m, a),
           NEW U, NEW B, FilesOf(W, a, c, U, B),
           NEW w, FilingOf(w, c, base, a, U, B)
    PROVE  FiledTo(w[c], W, m, a + c)
<1> DEFINE Good == {k \in 0 .. c : FiledTo(w[k], W, m, a + k)}
<1>1. 0 \in Good
  <2>1. a + 0 = a /\ 0 \in 0 .. c
    OBVIOUS
  <2> QED BY <2>1 DEF FilingOf
<1>2. ASSUME NEW k \in 1 .. c, k - 1 \in Good PROVE k \in Good
  <2>1. /\ k \in 0 .. c /\ a + k \in 1 .. m /\ a + k \in Nat
        /\ a + (k - 1) = (a + k) - 1
    OBVIOUS
  <2>2. FiledTo(w[k - 1], W, m, (a + k) - 1)
    BY <1>2, <2>1
  <2>3. w[k] = IF k \in B THEN w[k - 1] ELSE LexicalAdd(w[k - 1], a + k, U[k])
    BY DEF FilingOf
  <2>4. U[k] \in Seq(Word) /\ W[a + k] = U[k] /\ (k \in B => U[k] = <<>>)
    BY DEF FilesOf
  <2>5. CASE k \in B
    <3>1. FiledTo(w[k - 1], W, m, a + k)
      BY <2>1, <2>2, <2>4, <2>5, FiledSkip
    <3> QED BY <2>1, <2>3, <2>5, <3>1
  <2>6. CASE k \notin B
    <3>1. FiledTo(LexicalAdd(w[k - 1], a + k, U[k]), W, m, a + k)
      BY <2>1, <2>2, <2>4, FiledAdd
    <3> QED BY <2>1, <2>3, <2>6, <3>1
  <2> QED BY <2>5, <2>6
<1> HIDE DEF Good
<1>3. \A k \in 0 .. c : k \in Good
  BY <1>1, <1>2, EveryRound
<1>4. c \in 0 .. c
  OBVIOUS
<1> QED BY <1>3, <1>4 DEF Good

-----------------------------------------------------------------------------
(* The words of the spans, as the index keeps them.                        *)

Reading(D, S) == [i \in 1 .. Len(S) |-> WordsOf(TextIn(D, S[i].doc), S[i])]

SpanInv == FiledTo(spanLexical, Reading(documents, spans), Len(spans), Len(spans))

LEMMA ReadingIs ==
    ASSUME NEW D, NEW S, NEW P, RawOk(D, S, P)
    PROVE  /\ Len(S) \in Nat /\ DOMAIN S = 1 .. Len(S)
           /\ \A i \in 1 .. Len(S) :
                 /\ S[i].doc \in StoredIn(D) /\ TextIn(D, S[i].doc) \in Seq(Mark)
                 /\ Reading(D, S)[i] = WordsOf(TextIn(D, S[i].doc), S[i])
                 /\ Reading(D, S)[i] \in Seq(Word)
<1>1. /\ D \in Seq(Document) /\ IdsDiffer(D) /\ S \in Seq(Span)
      /\ \A i \in 1 .. Len(S) : PlacedAt(D, S, P, i)
  BY DEF RawOk
<1>2. Len(S) \in Nat /\ DOMAIN S = 1 .. Len(S)
  BY <1>1, LenProperties
<1>3. ASSUME NEW i \in 1 .. Len(S)
      PROVE  /\ S[i].doc \in StoredIn(D) /\ TextIn(D, S[i].doc) \in Seq(Mark)
             /\ Reading(D, S)[i] = WordsOf(TextIn(D, S[i].doc), S[i])
             /\ Reading(D, S)[i] \in Seq(Word)
  <2>1. S[i].doc \in StoredIn(D)
    BY <1>1 DEF PlacedAt
  <2>2. TextIn(D, S[i].doc) \in Seq(Mark)
    BY <1>1, <2>1, TextInIs
  <2>3. WordsOf(TextIn(D, S[i].doc), S[i]) \in Seq(Word)
    BY <2>2, WordsOfIs
  <2> QED BY <2>1, <2>2, <2>3 DEF Reading
<1> QED BY <1>2, <1>3

SpansRound(d, t, g, k) ==
    IF k = 0 THEN spanLexical
    ELSE FileSpan(g[k - 1], t, NewSpans(d, t)[k], Len(spans) + k)
IsSpanFiling(d, t, g) == g = [k \in 0 .. Len(NewSpans(d, t)) |-> SpansRound(d, t, g, k)]

NewWords(d, t) == [k \in 1 .. Len(NewSpans(d, t)) |-> WordsOf(t, NewSpans(d, t)[k])]
NewBlanks(d, t) ==
    {k \in 1 .. Len(NewSpans(d, t)) : Blank(t, NewSpans(d, t)[k].from, NewSpans(d, t)[k].to)}

LEMMA SpanFilingIs ==
    ASSUME NEW d, NEW t, NEW c \in Nat, c = Len(NewSpans(d, t)),
           NEW g, g = [k \in 0 .. c |-> g[k]]
    PROVE  IsSpanFiling(d, t, g)
             <=> FilingOf(g, c, spanLexical, Len(spans), NewWords(d, t), NewBlanks(d, t))
<1> DEFINE U == NewWords(d, t)
           B == NewBlanks(d, t)
           To(k) == IF k \in B THEN g[k - 1] ELSE LexicalAdd(g[k - 1], Len(spans) + k, U[k])
<1>1. ASSUME NEW k \in 1 .. c PROVE SpansRound(d, t, g, k) = To(k)
  <2>1. k # 0 /\ U[k] = WordsOf(t, NewSpans(d, t)[k])
        /\ (k \in B <=> Blank(t, NewSpans(d, t)[k].from, NewSpans(d, t)[k].to))
    BY DEF NewWords, NewBlanks
  <2> HIDE DEF U, B
  <2> QED BY <2>1 DEF SpansRound, FileSpan
<1>2. SpansRound(d, t, g, 0) = spanLexical
  BY DEF SpansRound
<1>3. \A k \in 0 .. c : k = 0 \/ k \in 1 .. c
  OBVIOUS
<1>4. 0 \in 0 .. c /\ \A k \in 1 .. c : k \in 0 .. c
  OBVIOUS
<1>5. IsSpanFiling(d, t, g) <=> \A k \in 0 .. c : g[k] = SpansRound(d, t, g, k)
  BY DEF IsSpanFiling
<1>6. FilingOf(g, c, spanLexical, Len(spans), U, B)
        <=> g[0] = spanLexical /\ \A k \in 1 .. c : g[k] = To(k)
  BY DEF FilingOf
<1> HIDE DEF U, B, To
<1>7. ASSUME \A k \in 0 .. c : g[k] = SpansRound(d, t, g, k)
      PROVE  g[0] = spanLexical /\ \A k \in 1 .. c : g[k] = To(k)
  BY <1>1, <1>2, <1>4, <1>7
<1>8. ASSUME g[0] = spanLexical, \A k \in 1 .. c : g[k] = To(k)
      PROVE  \A k \in 0 .. c : g[k] = SpansRound(d, t, g, k)
  BY <1>1, <1>2, <1>3, <1>8
<1> QED BY <1>5, <1>6, <1>7, <1>8 DEF U, B

\* Filing the spans of a text keeps the texts W, which end with theirs.
LEMMA FileSpansAre ==
    ASSUME NEW d \in Doc, NEW t \in Seq(Mark), NEW a \in Nat, a = Len(spans),
           NEW c \in Nat, c = Len(NewSpans(d, t)),
           NEW W, FiledTo(spanLexical, W, a + c, a),
           \A k \in 1 .. c : W[a + k] = WordsOf(t, NewSpans(d, t)[k])
    PROVE  FiledTo(FileSpans(d, t), W, a + c, a + c)
<1> DEFINE U == NewWords(d, t)
           B == NewBlanks(d, t)
           g == CHOOSE x : IsSpanFiling(d, t, x)
<1>1. FileSpans(d, t) = g[c]
  BY DEF FileSpans, IsSpanFiling, SpansRound
<1>2. spanLexical \in Lexical
  BY DEF FiledTo, Kept
<1>3. ASSUME NEW k \in 1 .. c
      PROVE  U[k] \in Seq(Word) /\ W[a + k] = U[k] /\ (k \in B => U[k] = <<>>)
  <2>1. U[k] = WordsOf(t, NewSpans(d, t)[k])
        /\ (k \in B <=> Blank(t, NewSpans(d, t)[k].from, NewSpans(d, t)[k].to))
    BY DEF NewWords, NewBlanks
  <2> HIDE DEF U, B
  <2> QED BY <2>1, WordsOfIs
<1> HIDE DEF U, B
<1>4. PICK w : w = [k \in 0 .. c |-> w[k]] /\ FilingOf(w, c, spanLexical, a, U, B)
  BY <1>2, <1>3, FilingExists
<1>5. IsSpanFiling(d, t, w)
  BY <1>4, SpanFilingIs DEF U, B
<1>6. IsSpanFiling(d, t, g)
  BY <1>5
<1> HIDE DEF g
<1>7. g = [k \in 0 .. c |-> g[k]]
  BY <1>6 DEF IsSpanFiling
<1>8. FilingOf(g, c, spanLexical, a, U, B)
  BY <1>6, <1>7, SpanFilingIs DEF U, B
<1> DEFINE m == a + c
<1>9. m \in Nat /\ a + c <= m /\ m = a + c /\ FiledTo(spanLexical, W, m, a)
  OBVIOUS
<1> HIDE DEF m
<1>10. FiledTo(g[c], W, m, a + c)
  <2>1. FilesOf(W, a, c, U, B)
    BY <1>3 DEF FilesOf
  <2>2. a + c <= m /\ m \in Nat /\ FiledTo(spanLexical, W, m, a)
    BY <1>9
  <2> QED BY <1>8, <2>1, <2>2, FilingIs
<1> QED BY <1>1, <1>9, <1>10

AllRound(order, g, i) ==
    IF i = 0 THEN NoLexical
    ELSE LexicalAdd(g[i - 1], i, WordsOf(Text(order[i].doc), order[i]))
IsAllFiling(order, g) == g = [i \in 0 .. Len(order) |-> AllRound(order, g, i)]

LEMMA AllFilingIs ==
    ASSUME NEW order, NEW c \in Nat, c = Len(order), NEW U,
           \A i \in 1 .. c : U[i] = WordsOf(Text(order[i].doc), order[i]),
           NEW g, g = [i \in 0 .. c |-> g[i]]
    PROVE  IsAllFiling(order, g) <=> FilingOf(g, c, NoLexical, 0, U, {})
<1> DEFINE To(k) == IF k \in {} THEN g[k - 1] ELSE LexicalAdd(g[k - 1], 0 + k, U[k])
<1>1. ASSUME NEW k \in 1 .. c PROVE AllRound(order, g, k) = To(k)
  <2>1. k # 0 /\ 0 + k = k /\ U[k] = WordsOf(Text(order[k].doc), order[k])
    OBVIOUS
  <2> QED BY <2>1 DEF AllRound
<1>2. AllRound(order, g, 0) = NoLexical
  BY DEF AllRound
<1>3. \A k \in 0 .. c : k = 0 \/ k \in 1 .. c
  OBVIOUS
<1>4. 0 \in 0 .. c /\ \A k \in 1 .. c : k \in 0 .. c
  OBVIOUS
<1>5. IsAllFiling(order, g) <=> \A k \in 0 .. c : g[k] = AllRound(order, g, k)
  BY DEF IsAllFiling
<1>6. FilingOf(g, c, NoLexical, 0, U, {})
        <=> g[0] = NoLexical /\ \A k \in 1 .. c : g[k] = To(k)
  BY DEF FilingOf
<1> HIDE DEF To
<1>7. ASSUME \A k \in 0 .. c : g[k] = AllRound(order, g, k)
      PROVE  g[0] = NoLexical /\ \A k \in 1 .. c : g[k] = To(k)
  BY <1>1, <1>2, <1>4, <1>7
<1>8. ASSUME g[0] = NoLexical, \A k \in 1 .. c : g[k] = To(k)
      PROVE  \A k \in 0 .. c : g[k] = AllRound(order, g, k)
  BY <1>1, <1>2, <1>3, <1>8
<1> QED BY <1>5, <1>6, <1>7, <1>8

\* Filing every span anew keeps what they read.
LEMMA FileAllSpansAre ==
    ASSUME NEW order, NEW c \in Nat, c = Len(order), NEW W,
           \A i \in 1 .. c : /\ W[i] = WordsOf(Text(order[i].doc), order[i])
                             /\ W[i] \in Seq(Word)
    PROVE  FiledTo(FileAllSpans(order), W, c, c)
<1> DEFINE g == CHOOSE x : IsAllFiling(order, x)
<1>1. FileAllSpans(order) = g[c]
  BY DEF FileAllSpans, IsAllFiling, AllRound
<1>2. NoLexical \in Lexical /\ 0 \in Nat
  BY NoneTyped
<1>3. FiledTo(NoLexical, W, c, 0)
  <2>1. \A i : i \notin 1 .. 0
    OBVIOUS
  <2> QED BY <2>1, KeptNone DEF FiledTo
<1>4. PICK w : w = [k \in 0 .. c |-> w[k]] /\ FilingOf(w, c, NoLexical, 0, W, {})
  BY <1>2, FilingExists
<1>5. IsAllFiling(order, w)
  BY <1>4, AllFilingIs
<1>6. IsAllFiling(order, g)
  BY <1>5
<1> HIDE DEF g
<1>7. g = [k \in 0 .. c |-> g[k]]
  BY <1>6 DEF IsAllFiling
<1>8. FilingOf(g, c, NoLexical, 0, W, {})
  BY <1>6, <1>7, AllFilingIs
<1> DEFINE z == 0
           none == {}
<1>9. z \in Nat /\ z + c = c /\ z + c <= c
      /\ \A k \in 1 .. c : W[k] \in Seq(Word) /\ W[z + k] = W[k] /\ (k \in none => W[k] = <<>>)
  OBVIOUS
<1>10. FiledTo(NoLexical, W, c, z) /\ FilingOf(g, c, NoLexical, z, W, none)
  BY <1>3, <1>8
<1> HIDE DEF z, none
<1>11. FiledTo(g[c], W, c, z + c)
  <2>1. FilesOf(W, z, c, W, none)
    BY <1>9 DEF FilesOf
  <2> QED BY <1>9, <1>10, <2>1, FilingIs
<1> QED BY <1>1, <1>9, <1>11

LEMMA Ingest_SpanInv ==
    ASSUME RawInv, SpanInv, NEW d \in Doc, NEW t \in TextOf[d], Ingest(d, t)
    PROVE  SpanInv'
<1> DEFINE a == Len(spans)
           c == Len(NewSpans(d, t))
           W == Reading(documents, spans)
           V == Reading(documents', spans')
<1>1. AddDocument(d, t) /\ spanLexical' = FileSpans(d, t)
  BY DEF Ingest
<1>2. /\ RawOk(documents', spans', docSpans') /\ t \in Seq(Mark)
      /\ Added(documents, d, t, documents')
      /\ a \in Nat /\ \A i \in 1 .. a : spans'[i] = spans[i]
  BY <1>1, Add_RawInv DEF RawInv
<1>3. RawOk(documents, spans, docSpans) /\ spans \in Seq(Span)
  BY DEF RawInv, RawOk
<1>4. /\ NewSpans(d, t) \in Seq(Span) /\ c = Len(Chunk(t)) /\ c \in Nat
      /\ \A k \in 1 .. c : NewSpans(d, t)[k] = PieceAs(d, t, k)
  BY <1>2, NewSpansAre, LenProperties
<1>5. spans' = spans \o NewSpans(d, t)
  BY <1>1 DEF AddDocument
<1>6. Len(spans') = a + c /\ \A k \in 1 .. c : spans'[a + k] = NewSpans(d, t)[k]
  <2> DEFINE new == NewSpans(d, t)
  <2>1. spans \in Seq(Span) /\ new \in Seq(Span) /\ spans' = spans \o new
    BY <1>3, <1>4, <1>5
  <2> HIDE DEF new
  <2>2. /\ Len(spans') = Len(spans) + Len(new)
        /\ \A i \in 1 .. Len(spans) + Len(new) :
              spans'[i] = IF i <= Len(spans) THEN spans[i] ELSE new[i - Len(spans)]
    BY <2>1, ConcatProperties
  <2>3. ASSUME NEW k \in 1 .. c PROVE spans'[a + k] = new[k]
    <3>1. Len(new) = c
      BY DEF new
    <3> HIDE DEF a, c
    <3>2. a + k \in 1 .. a + c /\ ~ (a + k <= a) /\ (a + k) - a = k
      BY <1>2, <1>4 DEF a
    <3> QED BY <2>2, <3>1, <3>2 DEF a
  <2> QED BY <2>2, <2>3 DEF new
<1>7. ASSUME NEW i \in 1 .. a PROVE V[i] = W[i]
  <2>1. i \in 1 .. Len(spans')
    BY <1>2, <1>4, <1>6
  <2>2. W[i] = WordsOf(TextIn(documents, spans[i].doc), spans[i])
        /\ spans[i].doc \in StoredIn(documents)
    BY <1>3, ReadingIs
  <2>3. V[i] = WordsOf(TextIn(documents', spans'[i].doc), spans'[i])
    BY <1>2, <2>1, ReadingIs
  <2> QED BY <1>2, <2>2, <2>3 DEF Added
<1>8. ASSUME NEW k \in 1 .. c PROVE V[a + k] = WordsOf(t, NewSpans(d, t)[k])
  <2> DEFINE j == a + k
  <2>1. j \in 1 .. Len(spans')
    BY <1>2, <1>4, <1>6
  <2> HIDE DEF j
  <2>2. V[j] = WordsOf(TextIn(documents', spans'[j].doc), spans'[j])
    BY <1>2, <2>1, ReadingIs
  <2>3. NewSpans(d, t)[k].doc = d
    <3>1. NewSpans(d, t)[k] =
            [doc |-> d, from |-> Chunk(t)[k].from, to |-> Chunk(t)[k].to, seq |-> k]
      BY <1>4 DEF PieceAs
    <3> QED BY <3>1
  <2> QED BY <1>2, <1>6, <2>2, <2>3 DEF Added, j
<1>9. FiledTo(spanLexical, W, a, a)
  BY DEF SpanInv
<1> HIDE DEF W, V
<1>10. FiledTo(spanLexical, V, a + c, a)
  <2>1. Kept(spanLexical, W, a) /\ DOMAIN spanLexical.lengths \subseteq 1 .. a
    BY <1>9 DEF FiledTo, Kept
  <2>2. \A i \in DOMAIN spanLexical.lengths : V[i] = W[i]
    BY <1>7, <2>1
  <2> HIDE DEF a, c
  <2>3. a + c \in Nat /\ a <= a + c
    BY <1>2, <1>4
  <2>4. Kept(spanLexical, V, a + c)
    BY <1>2, <2>1, <2>2, <2>3, KeptElse
  <2> QED BY <1>7, <1>9, <2>4 DEF FiledTo
<1>11. FiledTo(FileSpans(d, t), V, a + c, a + c)
  BY <1>2, <1>4, <1>8, <1>10, FileSpansAre
<1> QED BY <1>1, <1>6, <1>11 DEF SpanInv, V

LEMMA Restart_SpanInv ==
    ASSUME RawInv, NEW order \in Orders, Restart(order)
    PROVE  SpanInv'
<1> DEFINE c == Len(order)
           V == Reading(documents', spans')
<1>1. RestoreRaw(order) /\ spanLexical' = FileAllSpans(order)
  BY DEF Restart
<1>2. documents' = documents /\ spans' = order
  BY <1>1 DEF RestoreRaw
<1>3. RawOk(documents', spans', docSpans')
  BY <1>1, Restore_RawInv DEF RawInv
<1>4. c \in Nat
  BY <1>2, <1>3, ReadingIs
<1>5. ASSUME NEW i \in 1 .. c
      PROVE  V[i] = WordsOf(Text(order[i].doc), order[i]) /\ V[i] \in Seq(Word)
  <2>1. V[i] = WordsOf(TextIn(documents', spans'[i].doc), spans'[i]) /\ V[i] \in Seq(Word)
    BY <1>2, <1>3, ReadingIs
  <2>2. Text(order[i].doc) = TextIn(documents', spans'[i].doc)
    BY <1>2, TextIs
  <2> QED BY <1>2, <2>1, <2>2
<1> HIDE DEF V
<1>6. FiledTo(FileAllSpans(order), V, c, c)
  BY <1>4, <1>5, FileAllSpansAre
<1> QED BY <1>1, <1>2, <1>6 DEF SpanInv, V

-----------------------------------------------------------------------------
(* The nodes: their words and their vectors are of what they read now.     *)

NodesKept(T, ix, v) ==
    /\ Kept(ix, T, MaxNodes)
    /\ DOMAIN v = DOMAIN ix.lengths /\ DOMAIN v \subseteq DOMAIN T
    /\ \A n \in DOMAIN v : v[n] = VectorOf[T[n]]

NodeInv ==
    /\ text \in Part(Node, NodeText)
    /\ NodesKept(text, nodeLexical, nodeVector.vectors)
    /\ DOMAIN text \ superseded \subseteq DOMAIN nodeVector.vectors

LEMMA BoundsAre == MaxNodes \in Nat /\ Node = 1 .. MaxNodes /\ NodeText \subseteq Seq(Word)
BY RetrievalAssumption DEF Node

LEMMA OverTakes ==
    ASSUME NEW f, NEW x, NEW v
    PROVE  Takes(f, x, v, Over(Only(x, v), f))
BY DEF Takes, Over, Only

LEMMA LessLacks ==
    ASSUME NEW f, NEW x
    PROVE  Lacks(f, x, Less(f, x))
BY DEF Lacks, Less

LEMMA NodesAdd ==
    ASSUME NEW T, NEW ix, NEW v, NodesKept(T, ix, v), NEW n \in Node, NEW u \in NodeText,
           NEW V, V[n] = u, \A i \in DOMAIN v \ {n} : V[i] = T[i], DOMAIN v \cup {n} \subseteq DOMAIN V,
           NEW w, Takes(v, n, VectorOf[u], w)
    PROVE  NodesKept(V, LexicalAdd(ix, n, u), w) /\ DOMAIN w = DOMAIN v \cup {n}
<1> DEFINE R == LexicalAdd(ix, n, u)
<1>1. /\ Kept(ix, T, MaxNodes) /\ DOMAIN v = DOMAIN ix.lengths
      /\ \A i \in DOMAIN v : v[i] = VectorOf[T[i]]
  BY DEF NodesKept
<1>2. MaxNodes \in Nat /\ n \in 1 .. MaxNodes /\ u \in Seq(Word)
  BY BoundsAre
<1>3. Kept(R, V, MaxNodes) /\ DOMAIN R.lengths = DOMAIN ix.lengths \cup {n}
  BY <1>1, <1>2, AddKept
<1>4. DOMAIN w = DOMAIN v \cup {n} /\ w[n] = VectorOf[u] /\ \A i \in DOMAIN v \ {n} : w[i] = v[i]
  BY DEF Takes
<1> HIDE DEF R
<1>5. \A i \in DOMAIN w : w[i] = VectorOf[V[i]]
  BY <1>1, <1>4
<1>6. NodesKept(V, R, w)
  BY <1>1, <1>3, <1>4, <1>5 DEF NodesKept
<1> QED BY <1>4, <1>6 DEF R

LEMMA NodesAddSame ==
    ASSUME NEW T, NEW ix, NEW v, NodesKept(T, ix, v), NEW n \in Node, n \in DOMAIN T,
           NEW u \in NodeText, T[n] = u, NEW w, Takes(v, n, VectorOf[u], w)
    PROVE  NodesKept(T, LexicalAdd(ix, n, u), w) /\ DOMAIN w = DOMAIN v \cup {n}
<1>1. DOMAIN v \cup {n} \subseteq DOMAIN T
  BY DEF NodesKept
<1> DEFINE V == T
<1>2. V = T /\ V[n] = u /\ DOMAIN v \cup {n} \subseteq DOMAIN V
      /\ \A i \in DOMAIN v \ {n} : V[i] = T[i]
  BY <1>1
<1> HIDE DEF V
<1>3. NodesKept(V, LexicalAdd(ix, n, u), w) /\ DOMAIN w = DOMAIN v \cup {n}
  BY <1>2, NodesAdd
<1> QED BY <1>2, <1>3

LEMMA NodesRemove ==
    ASSUME NEW T, NEW ix, NEW v, NodesKept(T, ix, v), NEW n, n \in DOMAIN v,
           NEW w, Lacks(v, n, w)
    PROVE  NodesKept(T, LexicalRemove(ix, n), w) /\ DOMAIN w = DOMAIN v \ {n}
<1> DEFINE R == LexicalRemove(ix, n)
<1>1. /\ Kept(ix, T, MaxNodes) /\ DOMAIN v = DOMAIN ix.lengths /\ DOMAIN v \subseteq DOMAIN T
      /\ \A i \in DOMAIN v : v[i] = VectorOf[T[i]]
  BY DEF NodesKept
<1>2. Kept(R, T, MaxNodes) /\ DOMAIN R.lengths = DOMAIN ix.lengths \ {n}
  BY <1>1, BoundsAre, RemoveKept
<1>3. DOMAIN w = DOMAIN v \ {n} /\ \A i \in DOMAIN v \ {n} : w[i] = v[i]
  BY DEF Lacks
<1> HIDE DEF R
<1>4. NodesKept(T, R, w)
  BY <1>1, <1>2, <1>3 DEF NodesKept
<1> QED BY <1>3, <1>4 DEF R

LEMMA NodesNone ==
    ASSUME NEW T
    PROVE  NodesKept(T, NoLexical, NoVector.vectors) /\ DOMAIN NoVector.vectors = {}
<1>1. NoVector.vectors = <<>> /\ NoLexical.lengths = <<>> /\ DOMAIN <<>> = {}
  BY DEF NoVector, NoLexical
<1>2. Kept(NoLexical, T, MaxNodes)
  BY BoundsAre, KeptNone
<1> QED BY <1>1, <1>2 DEF NodesKept

LEMMA Reindex_NodeInv ==
    ASSUME NodeInv, NEW n \in Node, NEW t \in NodeText, Reindex(n, t)
    PROVE  NodeInv'
<1> DEFINE v == nodeVector.vectors
           w == nodeVector'.vectors
<1>1. /\ text \in Part(Node, NodeText) /\ NodesKept(text, nodeLexical, v)
      /\ DOMAIN text \ superseded \subseteq DOMAIN v
  BY DEF NodeInv
<1>2. /\ text' = Over(Only(n, t), text) /\ superseded' = superseded
      /\ nodeLexical' = LexicalAdd(nodeLexical, n, t)
      /\ w = Over(Only(n, VectorOf[t]), v)
  BY DEF Reindex, VectorAdd, Only
<1> HIDE DEF v, w
<1>3. text' \in Part(Node, NodeText) /\ Takes(text, n, t, text')
  BY <1>1, <1>2, OverOne, Zenon
<1>4. DOMAIN text' = DOMAIN text \cup {n} /\ text'[n] = t
      /\ \A i \in DOMAIN text \ {n} : text'[i] = text[i]
  BY <1>3 DEF Takes
<1>5. Takes(v, n, VectorOf[t], w)
  BY <1>2, OverTakes
<1>6. DOMAIN v \subseteq DOMAIN text
  BY <1>1 DEF NodesKept
<1>7. \A i \in DOMAIN v \ {n} : text'[i] = text[i]
  BY <1>4, <1>6
<1>8. DOMAIN v \cup {n} \subseteq DOMAIN text'
  BY <1>4, <1>6
<1>9. NodesKept(text', nodeLexical', w) /\ DOMAIN w = DOMAIN v \cup {n}
  BY <1>1, <1>2, <1>4, <1>5, <1>7, <1>8, NodesAdd
<1>10. DOMAIN text' \ superseded' \subseteq DOMAIN w
  BY <1>1, <1>2, <1>4, <1>9
<1> QED BY <1>3, <1>9, <1>10 DEF NodeInv, w

LEMMA Supersede_NodeInv ==
    ASSUME NodeInv, NEW n \in Node, Supersede(n)
    PROVE  NodeInv'
<1> DEFINE v == nodeVector.vectors
           w == nodeVector'.vectors
<1>1. /\ text \in Part(Node, NodeText) /\ NodesKept(text, nodeLexical, v)
      /\ DOMAIN text \ superseded \subseteq DOMAIN v
  BY DEF NodeInv
<1>2. /\ text' = text /\ superseded' = superseded \cup {n} /\ n \in DOMAIN text \ superseded
      /\ nodeLexical' = LexicalRemove(nodeLexical, n)
  BY DEF Supersede
<1>3. n \in DOMAIN v
  BY <1>1, <1>2
<1>4. w = Less(v, n)
  BY <1>3 DEF Supersede, VectorRemove
<1> HIDE DEF v, w
<1>5. Lacks(v, n, w)
  BY <1>4, LessLacks
<1>6. NodesKept(text', nodeLexical', w) /\ DOMAIN w = DOMAIN v \ {n}
  BY <1>1, <1>2, <1>3, <1>5, NodesRemove
<1>7. DOMAIN text' \ superseded' \subseteq DOMAIN w
  BY <1>1, <1>2, <1>6
<1> QED BY <1>1, <1>2, <1>6, <1>7 DEF NodeInv, w

Entries == UNION {Filing(id, VectorOf[u])[b] : id \in Nat, u \in NodeText, b \in Table}
NodeVectors == {VectorOf[u] : u \in NodeText}
Vectorial == [vectors : Part(Nat, NodeVectors), filed : [Table -> SUBSET Entries]]

LEMMA VectorTyped ==
    ASSUME NEW ix \in Vectorial, NEW id \in Nat, NEW u \in NodeText
    PROVE  VectorAdd(ix, id, VectorOf[u]) \in Vectorial
<1> DEFINE v == VectorOf[u]
           R == VectorAdd(ix, id, v)
           H == [b \in Table |-> ix.filed[b] \cup Filing(id, v)[b]]
<1>1. ix.vectors \in Part(Nat, NodeVectors) /\ ix.filed \in [Table -> SUBSET Entries]
  BY DEF Vectorial
<1>2. v \in NodeVectors
  BY DEF NodeVectors
<1>3. \A b \in Table : Filing(id, v)[b] \subseteq Entries
  BY DEF Entries
<1>4. H \in [Table -> SUBSET Entries]
  BY <1>1, <1>3
<1>5. R = [vectors |-> Over(Only(id, v), ix.vectors), filed |-> H]
  BY DEF VectorAdd, Only
<1> HIDE DEF v, H, R
<1>6. Over(Only(id, v), ix.vectors) \in Part(Nat, NodeVectors)
  BY <1>1, <1>2, OverOne, Zenon
<1>7. R \in Vectorial
  BY <1>4, <1>5, <1>6 DEF Vectorial
<1> QED BY <1>7 DEF R, v

LEMMA NoVectorTyped == NoVector \in Vectorial
<1>1. <<>> \in [{} -> NodeVectors] /\ {} \in SUBSET Nat
  OBVIOUS
<1>2. <<>> \in Part(Nat, NodeVectors)
  BY <1>1, PartMade
<1>3. [b \in Table |-> {}] \in [Table -> SUBSET Entries]
  OBVIOUS
<1> QED BY <1>2, <1>3 DEF Vectorial, NoVector

Both == [lexical : Lexical, vector : Vectorial]
AddBoth(x, n) ==
    [lexical |-> LexicalAdd(x.lexical, n, text[n]),
     vector |-> VectorAdd(x.vector, n, VectorOf[text[n]])]
NeitherYet == [lexical |-> NoLexical, vector |-> NoVector]
NodesRound(g, n) ==
    IF n = 0 THEN NeitherYet ELSE IF n \in DOMAIN text THEN AddBoth(g[n - 1], n) ELSE g[n - 1]
IsNodeFiling(g) == g = [n \in 0 .. MaxNodes |-> NodesRound(g, n)]

LEMMA NodeFilingExists ==
    ASSUME text \in Part(Node, NodeText)
    PROVE  \E g : IsNodeFiling(g)
<1> DEFINE N == MaxNodes
           to(n, x) == IF n \in DOMAIN text THEN AddBoth(x, n) ELSE x
           move == [n \in 1 .. N |-> [x \in Both |-> to(n, x)]]
<1>1. N \in Nat /\ NodeText \subseteq Seq(Word) /\ \A n \in DOMAIN text : text[n] \in NodeText
  BY BoundsAre, PartIs
<1>2. ASSUME NEW n \in 1 .. N, NEW x \in Both PROVE to(n, x) \in Both
  <2>1. CASE n \in DOMAIN text
    <3>1. x.lexical \in Lexical /\ x.vector \in Vectorial
      BY DEF Both
    <3>2. n \in Nat /\ text[n] \in NodeText /\ text[n] \in Seq(Word)
      BY <1>1, <2>1
    <3>3. LexicalAdd(x.lexical, n, text[n]) \in Lexical
      BY <3>1, <3>2, AddTyped
    <3>4. VectorAdd(x.vector, n, VectorOf[text[n]]) \in Vectorial
      BY <3>1, <3>2, VectorTyped
    <3>5. AddBoth(x, n) \in Both
      BY <3>3, <3>4 DEF AddBoth, Both
    <3> QED BY <2>1, <3>5
  <2>2. CASE n \notin DOMAIN text
    BY <2>2
  <2> QED BY <2>1, <2>2
<1> HIDE DEF to
<1>3. move \in [1 .. N -> [Both -> Both]]
  BY <1>2
<1>4. \A n \in 1 .. N, x \in Both : move[n][x] = to(n, x)
  OBVIOUS
<1> HIDE DEF move
<1>5. NeitherYet \in Both
  BY NoneTyped, NoVectorTyped DEF NeitherYet, Both
<1>6. PICK w : IsWalk(w, N, Both, NeitherYet, move)
  BY <1>1, <1>3, <1>5, WalkExists, Zenon
<1>7. w \in [0 .. N -> Both] /\ w[0] = NeitherYet /\ \A n \in 1 .. N : w[n] = move[n][w[n - 1]]
  BY <1>6 DEF IsWalk
<1> HIDE DEF N
<1>8. ASSUME NEW n \in 0 .. N PROVE w[n] = NodesRound(w, n)
  <2>1. CASE n = 0
    BY <1>7, <2>1 DEF NodesRound
  <2>2. CASE n # 0
    <3>1. n \in 1 .. N /\ n - 1 \in 0 .. N
      BY <1>1, <2>2
    <3>2. w[n - 1] \in Both /\ w[n] = move[n][w[n - 1]]
      BY <1>7, <3>1
    <3>3. w[n] = to(n, w[n - 1])
      BY <1>4, <3>1, <3>2
    <3> QED BY <2>2, <3>3 DEF NodesRound, to
  <2> QED BY <2>1, <2>2
<1>9. IsNodeFiling(w)
  BY <1>7, <1>8 DEF IsNodeFiling, N
<1> QED BY <1>9

\* Filing every node anew keeps what they read, of every node.
LEMMA FileAllNodesAre ==
    ASSUME text \in Part(Node, NodeText)
    PROVE  /\ NodesKept(text, FileAllNodes.lexical, FileAllNodes.vector.vectors)
           /\ DOMAIN text \subseteq DOMAIN FileAllNodes.vector.vectors
<1> DEFINE N == MaxNodes
           g == CHOOSE x : IsNodeFiling(x)
           Upto(n) == /\ NodesKept(text, g[n].lexical, g[n].vector.vectors)
                      /\ DOMAIN g[n].vector.vectors = DOMAIN text \cap (1 .. n)
           Good == {n \in 0 .. N : Upto(n)}
<1>1. FileAllNodes = g[N]
  BY DEF FileAllNodes, IsNodeFiling, NodesRound, AddBoth, NeitherYet
<1>2. IsNodeFiling(g)
  BY NodeFilingExists
<1>3. /\ N \in Nat /\ Node = 1 .. N /\ NodeText \subseteq Seq(Word)
      /\ DOMAIN text \subseteq 1 .. N /\ \A n \in DOMAIN text : text[n] \in NodeText
  BY BoundsAre, PartIs
<1> HIDE DEF g
<1>4. \A n \in 0 .. N : g[n] = NodesRound(g, n)
  BY <1>2 DEF IsNodeFiling
<1> HIDE DEF N
<1>5. 0 \in Good
  <2>1. 0 \in 0 .. N /\ g[0] = NeitherYet
    BY <1>3, <1>4 DEF NodesRound
  <2>2. g[0].lexical = NoLexical /\ g[0].vector.vectors = NoVector.vectors
    BY <2>1 DEF NeitherYet
  <2>3. DOMAIN text \cap (1 .. 0) = {}
    OBVIOUS
  <2>4. Upto(0)
    BY <2>2, <2>3, NodesNone
  <2> QED BY <2>1, <2>4
<1>6. ASSUME NEW n \in 1 .. N, n - 1 \in Good PROVE n \in Good
  <2> DEFINE x == g[n - 1]
             v == x.vector.vectors
  <2>1. n \in 0 .. N /\ n # 0
    OBVIOUS
  <2>2. NodesKept(text, x.lexical, v) /\ DOMAIN v = DOMAIN text \cap (1 .. n - 1)
    BY <1>6
  <2>3. g[n] = IF n \in DOMAIN text THEN AddBoth(x, n) ELSE x
    BY <1>4, <2>1 DEF NodesRound
  <2> HIDE DEF x
  <2>4. \A i : i \in 1 .. n <=> i = n \/ i \in 1 .. n - 1
    OBVIOUS
  <2>5. CASE n \in DOMAIN text
    <3> DEFINE u == text[n]
               w == g[n].vector.vectors
    <3>1. g[n].lexical = LexicalAdd(x.lexical, n, u) /\ w = Over(Only(n, VectorOf[u]), v)
      <4>1. g[n] = [lexical |-> LexicalAdd(x.lexical, n, u),
                    vector |-> VectorAdd(x.vector, n, VectorOf[u])]
        BY <2>3, <2>5 DEF AddBoth
      <4>2. g[n].lexical = LexicalAdd(x.lexical, n, u)
            /\ g[n].vector = VectorAdd(x.vector, n, VectorOf[u])
        BY <4>1
      <4> QED BY <4>2 DEF VectorAdd, Only
    <3>2. Takes(v, n, VectorOf[u], w)
      BY <3>1, OverTakes
    <3>3. n \in Node /\ u \in NodeText /\ text[n] = u
      BY <1>3, <2>5
    <3> HIDE DEF u, v, w
    <3>4. NodesKept(text, LexicalAdd(x.lexical, n, u), w) /\ DOMAIN w = DOMAIN v \cup {n}
      BY <2>2, <2>5, <3>2, <3>3, NodesAddSame
    <3>5. DOMAIN w = DOMAIN text \cap (1 .. n)
      BY <2>2, <2>4, <2>5, <3>4
    <3>6. NodesKept(text, g[n].lexical, w)
      BY <3>1, <3>4
    <3> QED BY <2>1, <3>5, <3>6 DEF w
  <2>6. CASE n \notin DOMAIN text
    <3>1. g[n] = x
      BY <2>3, <2>6
    <3>2. DOMAIN v = DOMAIN text \cap (1 .. n)
      BY <2>2, <2>4, <2>6
    <3> QED BY <2>1, <2>2, <3>1, <3>2
  <2> QED BY <2>5, <2>6
<1> HIDE DEF Good
<1>7. \A n \in 0 .. N : n \in Good
  BY <1>3, <1>5, <1>6, EveryRound
<1>8. N \in Good
  BY <1>3, <1>7
<1>9. Upto(N)
  BY <1>8 DEF Good
<1> QED BY <1>1, <1>3, <1>9

LEMMA Restart_NodeInv ==
    ASSUME NodeInv, NEW order, Restart(order)
    PROVE  NodeInv'
<1>1. text \in Part(Node, NodeText)
  BY DEF NodeInv
<1>2. /\ text' = text /\ superseded' = superseded
      /\ nodeLexical' = FileAllNodes.lexical /\ nodeVector' = FileAllNodes.vector
  BY DEF Restart, graph
<1>3. /\ NodesKept(text, FileAllNodes.lexical, FileAllNodes.vector.vectors)
      /\ DOMAIN text \subseteq DOMAIN FileAllNodes.vector.vectors
  BY <1>1, FileAllNodesAre
<1> QED BY <1>1, <1>2, <1>3 DEF NodeInv

-----------------------------------------------------------------------------
(* The store of text and its index, together.                              *)

RetrievalInv == RawInv /\ NodeInv /\ SpanInv

LEMMA RetrievalInit_Inv == RetrievalInit => RetrievalInv
<1> SUFFICES ASSUME RetrievalInit PROVE RetrievalInv
  OBVIOUS
<1>1. RawInv
  BY RawInit_Inv DEF RetrievalInit
<1>2. /\ text = <<>> /\ superseded = {} /\ spanLexical = NoLexical
      /\ nodeLexical = NoLexical /\ nodeVector = NoVector /\ spans = <<>>
  BY DEF RetrievalInit, RawInit
<1>3. NodeInv
  <2>1. <<>> \in [{} -> NodeText] /\ {} \in SUBSET Node /\ DOMAIN <<>> = {}
    OBVIOUS
  <2>2. <<>> \in Part(Node, NodeText)
    BY <2>1, PartMade
  <2>3. NodesKept(text, nodeLexical, nodeVector.vectors)
    BY <1>2, NodesNone
  <2> QED BY <1>2, <2>1, <2>2, <2>3 DEF NodeInv
<1>4. SpanInv
  <2>1. Len(spans) = 0 /\ 0 \in Nat
    BY <1>2
  <2>2. \A i : i \notin 1 .. 0
    OBVIOUS
  <2> QED BY <1>2, <2>1, <2>2, KeptNone DEF SpanInv, FiledTo
<1> QED BY <1>1, <1>3, <1>4 DEF RetrievalInv

LEMMA RetrievalNext_Inv ==
    ASSUME RetrievalInv, [RetrievalNext]_retrievalVars
    PROVE  RetrievalInv' /\ (Stays(documents, documents') \/ UNCHANGED raw)
<1>1. RawInv /\ NodeInv /\ SpanInv
  BY DEF RetrievalInv
<1>2. CASE UNCHANGED retrievalVars
  <2>1. UNCHANGED raw /\ UNCHANGED graph /\ UNCHANGED index
    BY <1>2 DEF retrievalVars
  <2>2. RawInv'
    BY <1>1, <2>1 DEF RawInv, raw
  <2>3. NodeInv'
    BY <1>1, <2>1 DEF NodeInv, graph, index
  <2>4. SpanInv'
    BY <1>1, <2>1 DEF SpanInv, raw, index
  <2> QED BY <2>1, <2>2, <2>3, <2>4 DEF RetrievalInv
<1>3. CASE \E d \in Doc : \E t \in TextOf[d] : Ingest(d, t)
  <2>1. PICK d \in Doc : \E t \in TextOf[d] : Ingest(d, t)
    BY <1>3
  <2>2. PICK t \in TextOf[d] : Ingest(d, t)
    BY <2>1
  <2>3. RawInv' /\ Added(documents, d, t, documents')
    BY <1>1, <2>2, Add_RawInv DEF Ingest
  <2>4. SpanInv'
    BY <1>1, <2>2, Ingest_SpanInv
  <2>5. NodeInv'
    BY <1>1, <2>2 DEF Ingest, NodeInv, graph
  <2>6. Stays(documents, documents')
    BY <2>3 DEF Added, Stays
  <2> QED BY <2>3, <2>4, <2>5, <2>6 DEF RetrievalInv
<1>4. CASE \E n \in Node, t \in NodeText : Reindex(n, t)
  <2>1. PICK n \in Node, t \in NodeText : Reindex(n, t)
    BY <1>4
  <2>2. UNCHANGED raw /\ UNCHANGED spanLexical
    BY <2>1 DEF Reindex
  <2>3. NodeInv'
    BY <1>1, <2>1, Reindex_NodeInv
  <2>4. RawInv'
    BY <1>1, <2>2 DEF RawInv, raw
  <2>5. SpanInv'
    BY <1>1, <2>2 DEF SpanInv, raw
  <2> QED BY <2>2, <2>3, <2>4, <2>5 DEF RetrievalInv
<1>5. CASE \E n \in Node : Supersede(n)
  <2>1. PICK n \in Node : Supersede(n)
    BY <1>5
  <2>2. UNCHANGED raw /\ UNCHANGED spanLexical
    BY <2>1 DEF Supersede
  <2>3. NodeInv'
    BY <1>1, <2>1, Supersede_NodeInv
  <2>4. RawInv'
    BY <1>1, <2>2 DEF RawInv, raw
  <2>5. SpanInv'
    BY <1>1, <2>2 DEF SpanInv, raw
  <2> QED BY <2>2, <2>3, <2>4, <2>5 DEF RetrievalInv
<1>6. CASE \E order \in Orders : Restart(order)
  <2>1. PICK order \in Orders : Restart(order)
    BY <1>6
  <2>2. RestoreRaw(order)
    BY <2>1 DEF Restart
  <2>3. RawInv'
    BY <1>1, <2>2, Restore_RawInv
  <2>4. SpanInv'
    BY <1>1, <2>1, Restart_SpanInv
  <2>5. NodeInv'
    BY <1>1, <2>1, Restart_NodeInv
  <2>6. Stays(documents, documents')
    BY <2>2 DEF RestoreRaw, Stays
  <2> QED BY <2>3, <2>4, <2>5, <2>6 DEF RetrievalInv
<1> QED BY <1>2, <1>3, <1>4, <1>5, <1>6 DEF RetrievalNext

LEMMA DescribesFromInv ==
    ASSUME RetrievalInv
    PROVE  IndexDescribesTheState
<1>1. RawOk(documents, spans, docSpans) /\ NodeInv /\ SpanInv
  BY DEF RetrievalInv, RawInv
<1>2. NodesDescribed
  <2> DEFINE v == nodeVector.vectors
  <2>1. /\ Kept(nodeLexical, text, MaxNodes) /\ DOMAIN v = DOMAIN nodeLexical.lengths
        /\ \A n \in DOMAIN v : v[n] = VectorOf[text[n]]
        /\ DOMAIN text \ superseded \subseteq DOMAIN v
    BY <1>1 DEF NodeInv, NodesKept
  <2>2. Describes(nodeLexical, [n \in DOMAIN nodeLexical.lengths |-> text[n]], MaxNodes)
    BY <2>1, KeptDescribes
  <2> QED BY <2>1, <2>2 DEF NodesDescribed
<1>3. SpansDescribed
  <2> DEFINE n == Len(spans)
             W == Reading(documents, spans)
             T == DOMAIN spanLexical.lengths
  <2>1. Kept(spanLexical, W, n) /\ \A i \in 1 .. n : W[i] # <<>> => i \in T
    BY <1>1 DEF SpanInv, FiledTo
  <2>2. DOMAIN spans = 1 .. n /\ \A i \in 1 .. n : W[i] = SpanWords(i)
    BY <1>1, ReadingIs, TextIs DEF SpanWords
  <2> HIDE DEF W
  <2>3. T \subseteq 1 .. n
    BY <2>1 DEF Kept
  <2>4. Describes(spanLexical, [i \in T |-> W[i]], n)
    BY <2>1, KeptDescribes
  <2>5. [i \in T |-> W[i]] = [i \in T |-> SpanWords(i)]
    BY <2>2, <2>3
  <2>6. {i \in DOMAIN spans : SpanWords(i) # <<>>} \subseteq T
    BY <2>1, <2>2
  <2> QED BY <2>4, <2>5, <2>6 DEF SpansDescribed
<1> QED BY <1>2, <1>3 DEF IndexDescribesTheState

\* However documents are ingested, nodes filed, filed again and superseded,
\* and whatever order restarts hand the spans over in, each document's spans
\* are its pieces, numbered, and each index keeps the texts it has lengths for
\* as they read now (Retrieval, RawStore: runtime.rs, spans.rs, index.rs).
THEOREM RetrievalInvariant == RetrievalSpec => []RetrievalInv
<1>1. RetrievalInit => RetrievalInv
  BY RetrievalInit_Inv
<1>2. RetrievalInv /\ [RetrievalNext]_retrievalVars => RetrievalInv'
  BY RetrievalNext_Inv
<1> QED BY <1>1, <1>2, PTL DEF RetrievalSpec

\* The spans of every stored document come in text order and do not meet, lose
\* no word, reach over no paragraph break and tear no sentence (spans.rs, chunk).
THEOREM SpansAlwaysTile == RetrievalSpec => []SpansTileTheText
<1>1. RetrievalInv => SpansTileTheText
  BY TilesFromInv DEF RetrievalInv
<1> QED BY <1>1, RetrievalInvariant, PTL

\* The postings, the lengths and their total are those of the texts as they are
\* now, and nothing live is missing from the index (index.rs, runtime.rs).
THEOREM IndexAlwaysDescribes == RetrievalSpec => []IndexDescribesTheState
<1>1. RetrievalInv => IndexDescribesTheState
  BY DescribesFromInv
<1> QED BY <1>1, RetrievalInvariant, PTL

\* A span once issued is found under its id with the same text beside the same
\* spans, whatever is ingested and however a restart orders them (spans.rs).
THEOREM SpansAlwaysStayPut == RetrievalSpec => SpansStayPut
<1>1. ASSUME RetrievalInv, [RetrievalNext]_retrievalVars
      PROVE  [\A id \in Issued :
                /\ id \in Issued'
                /\ Text(id[1])' = Text(id[1])
                /\ Neighbours(IdxOf(id), 1)' = Neighbours(IdxOf(id), 1)]_raw
  <2>1. RetrievalInv' /\ (Stays(documents, documents') \/ UNCHANGED raw)
    BY <1>1, RetrievalNext_Inv
  <2>2. CASE UNCHANGED raw
    BY <2>2
  <2>3. CASE Stays(documents, documents')
    BY <1>1, <2>1, <2>3, Stays_Step DEF RetrievalInv
  <2> QED BY <2>1, <2>2, <2>3
<1> QED BY <1>1, RetrievalInvariant, PTL DEF RetrievalSpec, SpansStayPut
=============================================================================
