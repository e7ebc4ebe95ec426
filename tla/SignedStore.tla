---------------------------- MODULE SignedStore -----------------------------
(***************************************************************************)
(* What a container lets into trusted reasoning: its objects under a       *)
(* Merkle root, checkpoints that may be signed, the admission policy, and  *)
(* the gateway every object passes (context_store.rs, trust.rs, merkle.rs).*)
(* ContextStore has the single writes of a call and the crashes between    *)
(* them.  Here a call is one step, and what it leaves when it is cut off   *)
(* is a step of its own where that leaves an object without its sidecar,   *)
(* signatures or policy changed.                                           *)
(*                                                                         *)
(* An object's address is its content's digest; bytes that decayed have    *)
(* another one.  The schema is the one this runtime writes.                *)
(***************************************************************************)
EXTENDS Integers, FiniteSets, MerkleTree

CONSTANTS
    Object,          \* addresses: positive numbers
    LabelOf,         \* the trust label of an object
    Key,             \* keys of the role ContextSigning
    NoKey,
    MaxTree,         \* leaves of the largest tree examined by itself
    MaxGeneration,   \* bound on the generations explored
    MaxFaults        \* bound on decays, revocations, failed puts and commits

Label == {"trusted", "external", "low-trust", "untrusted"}

ASSUME SignedAssumption ==
    /\ Object \subseteq Nat \ {0} /\ IsFiniteSet(Object)
    /\ LabelOf \in [Object -> Label]
    /\ NoKey \notin Key
    /\ {MaxTree, MaxGeneration, MaxFaults} \subseteq Nat

VARIABLES
    \* on disk
    bytes,           \* objects/: "none", "good" or "bad" bytes at an address
    side,            \* the sidecars: the generation of each object that has one
    chk,             \* checkpoints/, by generation
    sig,             \* signatures/, by generation: one, or none
    manifest,        \* generation, root and signing key
    \* in the process
    gens,            \* objects: the generation of each one held
    log,             \* checkpoints: the newest one
    pending,
    believed,        \* the manifest, as this process believes it
    ceiling, require, \* policy.generation_ceiling, policy.require_signature
    \* the environment
    revoked,         \* keys the verifier knows to be revoked
    faults,          \* decays, revocations, failed puts and commits so far
    torn             \* history: objects last written by a put cut off before its sidecar

signedVars == <<bytes, side, chk, sig, manifest, gens, log, pending, believed, ceiling,
                require, revoked, faults, torn>>
objects == <<bytes, side, gens, torn>>
policy == <<ceiling, require>>

Held == DOMAIN gens

\* What the tree is built over: the digest recorded for each object held.
Entries(O) == [o \in O |-> o]

\* f with x at g, which it may lack.
At(f, g, x) == [i \in DOMAIN f \cup {g} |-> IF i = g THEN x ELSE f[i]]
Without(f, g) == [i \in DOMAIN f \ {g} |-> f[i]]

-----------------------------------------------------------------------------
\* The gateway (trust.rs).  A signature on a candidate is by a key, genuine or
\* not; there may be no verifier to ask.
CheckSignature(c) ==
    CASE c.signer = NoKey -> IF require THEN "missing" ELSE "unsigned"
      [] c.signer # NoKey /\ ~c.verifier -> IF require THEN "invalid" ELSE "signed"
      [] c.signer \in revoked /\ c.verifier -> "revoked"
      [] OTHER -> IF c.genuine THEN "verified" ELSE "invalid"

Accepted == {"unsigned", "signed", "verified"}

\* admit(): the five conditions in their order.  A verdict that is not a
\* refusal is the verification the object is let in with.
Verdict(c) ==
    CASE ~c.intact -> "corrupt"
      [] c.intact /\ CheckSignature(c) \notin Accepted -> CheckSignature(c)
      [] c.unsourced -> "no provenance"
      [] c.generation > ceiling -> "generation"
      [] c.label \notin {"trusted", "external"} -> "policy"
      [] OTHER -> CheckSignature(c)

\* ContextStore::admit offers the gateway no signature, whatever was signed;
\* what was derived from nothing put() refused.
Candidate(o) ==
    [intact |-> bytes[o] = "good", signer |-> NoKey, genuine |-> FALSE,
     verifier |-> FALSE, unsourced |-> FALSE,
     generation |-> gens[o], label |-> LabelOf[o]]

Admitted == {o \in Held : Verdict(Candidate(o)) \in Accepted}

-----------------------------------------------------------------------------
\* proves(): built over what is held now, checked against the believed root.
Proves(o) ==
    /\ o \in Held
    /\ VerifyProof(o, o, Proof(Entries(Held), o), believed.root)

RootMatches == Root(Entries(Held)) = believed.root

\* commit() attests to something new.
Unsealed == pending # {} \/ ~RootMatches \/ log = 0

\* The checkpoint commit() writes; it names the policy in force before it, and
\* the checkpoint it is chained to.  set is what its root was computed over.
Draft == [gen |-> believed.gen + 1, root |-> Root(Entries(Held)), set |-> Held,
          added |-> pending, parent |-> log, signing |-> require]

\* verify_chain over the checkpoints up to generation n, and over the files.
Chained(n) == \A g \in 1 .. n : g \in DOMAIN chk /\ chk[g].gen = g /\ chk[g].parent = g - 1
ChainIntact ==
    /\ DOMAIN chk = 1 .. Cardinality(DOMAIN chk)
    /\ Chained(Cardinality(DOMAIN chk))

\* A signature that verifies over what it is stored beside.
Checks(g) == sig[g].over = chk[g] /\ sig[g].key \notin revoked

\* verify() with a verifier: ok().  The checkpoints are those in memory, which end
\* at log; a gap in them breaks the chain.
AuditOk ==
    /\ \A o \in Held : bytes[o] = "good"
    /\ Chained(log) /\ RootMatches
    /\ \A g \in DOMAIN sig \cap (1 .. log) : Checks(g)

-----------------------------------------------------------------------------
Unbounded == MaxGeneration + 1        \* u64::MAX

SignedInit ==
    /\ bytes = [o \in Object |-> "none"] /\ side = <<>> /\ gens = <<>>
    /\ chk = <<>> /\ sig = <<>> /\ log = 0 /\ pending = {}
    /\ manifest = [gen |-> 0, root |-> EmptyRoot, key |-> NoKey]
    /\ believed = manifest
    /\ ceiling = Unbounded /\ require = FALSE
    /\ revoked = {} /\ faults = 0 /\ torn = {}

Generation == believed.gen + 1

\* put(): writes what is not held, at the generation the next commit will have:
\* the object, then its sidecar.
Put(o) ==
    /\ o \notin Held /\ believed.gen < MaxGeneration
    /\ bytes' = [bytes EXCEPT ![o] = "good"]
    /\ side' = At(side, o, Generation) /\ gens' = At(gens, o, Generation)
    /\ pending' = pending \cup {o} /\ torn' = torn \ {o}
    /\ UNCHANGED <<chk, sig, manifest, log, believed, policy, revoked, faults>>

\* The object is written and its sidecar is not: the write fails, a replica's does,
\* or the process ends.
TearPut(o) ==
    /\ o \notin Held /\ believed.gen < MaxGeneration
    /\ faults < MaxFaults /\ faults' = faults + 1
    /\ bytes' = [bytes EXCEPT ![o] = "good"] /\ torn' = torn \cup {o}
    /\ UNCHANGED <<side, gens, chk, sig, manifest, log, pending, believed, policy,
                   revoked>>

\* commit() up to the manifest: checkpoint, signature, then the beliefs.
Attest(k) ==
    /\ Unsealed /\ believed.gen < MaxGeneration
    /\ chk' = At(chk, Draft.gen, Draft)
    /\ sig' = IF k = NoKey THEN sig
              ELSE At(sig, Draft.gen, [key |-> k, over |-> Draft])
    /\ require' = (require \/ k # NoKey)
    /\ UNCHANGED <<objects, revoked>>

Believing(k) ==
    [gen |-> Draft.gen, root |-> Draft.root,
     key |-> IF k = NoKey THEN believed.key ELSE k]

Commit(k) ==
    /\ Attest(k)
    /\ believed' = Believing(k) /\ ceiling' = Draft.gen
    /\ manifest' = believed' /\ log' = Draft.gen /\ pending' = {}
    /\ UNCHANGED faults

\* The manifest cannot be written, or the high-water mark after it: commit() returns
\* the error, and the process goes on with the beliefs it has changed.
BelievesOnFailure(k) == believed' = Believing(k) /\ ceiling' = Draft.gen
FailCommit(k) ==
    /\ faults < MaxFaults /\ faults' = faults + 1
    /\ Attest(k) /\ BelievesOnFailure(k)
    /\ manifest' \in {manifest, believed'}
    /\ UNCHANGED <<log, pending>>

\* A signer whose key has another role is refused, after the checkpoint; a signature
\* that cannot be written leaves the same.
RefuseCommit ==
    /\ faults < MaxFaults /\ faults' = faults + 1
    /\ Unsealed /\ believed.gen < MaxGeneration
    /\ chk' = At(chk, Draft.gen, Draft)
    /\ UNCHANGED <<objects, sig, manifest, log, pending, believed, policy, revoked>>

\* What open() makes of the manifest.
RestoredLax == /\ ceiling' = manifest.gen /\ require' = FALSE
Restored == /\ ceiling' = manifest.gen /\ require' = (manifest.key # NoKey)

\* The objects open() finds: a sidecar that is missing is rebuilt, in memory, at the
\* manifest's generation.
OnDisk == {o \in Object : bytes[o] # "none"}
FoundRebuilt == [o \in OnDisk |-> manifest.gen]
Found == [o \in OnDisk |-> IF o \in DOMAIN side THEN side[o] ELSE manifest.gen]

\* The process ends, and another opens the container.
Reopen ==
    /\ ChainIntact /\ Cardinality(DOMAIN chk) \in {0, manifest.gen}
    /\ believed' = manifest /\ Restored
    /\ gens' = Found
    /\ log' = Cardinality(DOMAIN chk) /\ pending' = {}
    /\ UNCHANGED <<bytes, side, torn, chk, sig, manifest, revoked, faults>>

\* Only beside a sidecar: one rebuilt over bytes that decayed would name those bytes.
Decay(o) ==
    /\ bytes[o] = "good" /\ o \in DOMAIN side
    /\ faults < MaxFaults /\ faults' = faults + 1
    /\ bytes' = [bytes EXCEPT ![o] = "bad"]
    /\ UNCHANGED <<side, gens, torn, chk, sig, manifest, log, pending, believed, policy, revoked>>

\* The scrubber: a replica's copy repairs what the root still proves, and what
\* no replica holds is moved out of the store.
Repair(o) ==
    /\ o \in Held /\ bytes[o] = "bad" /\ Proves(o)
    /\ bytes' = [bytes EXCEPT ![o] = "good"] /\ side' = At(side, o, gens[o])
    /\ UNCHANGED <<gens, torn, chk, sig, manifest, log, pending, believed, policy,
                   revoked, faults>>

\* A sidecar that cannot be removed is left, and nobody is told.
Quarantine(o) ==
    /\ o \in Held /\ bytes[o] = "bad"
    /\ bytes' = [bytes EXCEPT ![o] = "none"] /\ torn' = torn \ {o}
    /\ side' \in {Without(side, o), side}
    /\ gens' = Without(gens, o) /\ pending' = pending \ {o}
    /\ UNCHANGED <<chk, sig, manifest, log, believed, policy, revoked, faults>>

Revoke(k) ==
    /\ k \notin revoked /\ faults < MaxFaults /\ faults' = faults + 1
    /\ revoked' = revoked \cup {k}
    /\ UNCHANGED <<objects, chk, sig, manifest, log, pending, believed, policy>>

SignedNext ==
    \/ \E o \in Object : Put(o) \/ TearPut(o) \/ Decay(o) \/ Repair(o) \/ Quarantine(o)
    \/ \E k \in Key \cup {NoKey} : Commit(k) \/ FailCommit(k)
    \/ \E k \in Key : Revoke(k)
    \/ RefuseCommit
    \/ Reopen

SignedSpec == SignedInit /\ [][SignedNext]_signedVars

-----------------------------------------------------------------------------
\* What the root this process believes in was computed over.
SealedObjects == IF believed.gen = 0 THEN {} ELSE chk[believed.gen].set

\* The root is the set (merkle.rs, rules of the construction).  Trees of up to
\* MaxTree leaves: a proof verifies for the object and the content it was made
\* for and for no other, and two sets never share a root.
ProofsStand ==
    \A S \in SUBSET (1 .. MaxTree) :
        /\ \A o \in S, content \in 1 .. MaxTree :
             VerifyProof(o, content, Proof(Entries(S), o), Root(Entries(S)))
                <=> content = o
        /\ \A T \in SUBSET (1 .. MaxTree) :
             Root(Entries(S)) = Root(Entries(T)) => S = T

\* A clean audit (ContextStore::verify) says exactly that what is held is what
\* was sealed, and then every object held is intact and carries its own proof,
\* with no other object read.
AuditMeansProven ==
    /\ RootMatches <=> Held = SealedObjects
    /\ AuditOk => \A o \in Held : bytes[o] = "good" /\ Proves(o)

SealIsExact == ProofsStand /\ AuditMeansProven

\* Every signature on disk is over the checkpoint beside it, whatever attempts
\* failed after it was written (commit).
SignaturesCover == \A g \in DOMAIN sig : g \in DOMAIN chk /\ sig[g].over = chk[g]

\* A store that was signed stays so through restarts: from the first signed
\* manifest on, nothing passes the gateway but a signature that verified by a
\* key still good (trust.rs, require_signature).
Offered ==
    [intact : BOOLEAN, signer : Key \cup {NoKey}, genuine : BOOLEAN,
     verifier : BOOLEAN, unsourced : BOOLEAN, generation : {1}, label : {"trusted"}]
OnlyVerifiedOnceSigned ==
    manifest.key # NoKey =>
        \A c \in Offered : Verdict(c) \in Accepted =>
            /\ c.intact /\ c.genuine /\ c.verifier
            /\ c.signer \in Key \ revoked

\* A signature is over what it stands beside, and goes on being asked for.
SignedStaysSigned == SignaturesCover /\ OnlyVerifiedOnceSigned

\* From the first commit on, what put() wrote in full is not believed until a commit has
\* sealed it, whatever commits failed, objects were quarantined and processes ended
\* in between (admit, open).  An object whose put was cut off before its sidecar is
\* believed at once by the next process; it is the only kind.
PutWaitsForCommit == believed.gen > 0 => Admitted \ SealedObjects \subseteq torn

\* What a signed commit sealed can be read back (runtime.rs, open_context).
SignedIsReadable ==
    require /\ AuditOk => \A o \in SealedObjects : LabelOf[o] = "trusted" => o \in Admitted
=============================================================================
