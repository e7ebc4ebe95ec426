----------------------------- MODULE MerkleTree -----------------------------
(***************************************************************************)
(* The Merkle tree over a container's objects (merkle.rs).  A digest is    *)
(* the term that was hashed, its domain tag first: two digests are equal   *)
(* exactly when the terms are.  Ids are numbers, whose order is the order  *)
(* of the leaves; entries map an id to the digest of its content.          *)
(***************************************************************************)
EXTENDS Integers, Sequences, FiniteSets

LeafDigest(id, content) == <<"leaf", id, content>>
NodeDigest(left, right) == <<"node", left, right>>
EmptyRoot == <<"empty">>

\* The leaves, ordered by id and not by insertion.
UpTo(ids, id) == {x \in ids : x <= id}
Leaves(entries) ==
    LET ids == DOMAIN entries
    IN  [i \in 1 .. Cardinality(ids) |-> CHOOSE id \in ids : Cardinality(UpTo(ids, id)) = i]

HalfUp(n) == (n + 1) \div 2

\* One level from the level below: neighbours are paired, an odd last one is
\* promoted unchanged.
NextLevelDoubling(level) ==
    [i \in 1 .. HalfUp(Len(level)) |->
        NodeDigest(level[2 * i - 1], level[IF 2 * i <= Len(level) THEN 2 * i ELSE 2 * i - 1])]
NextLevel(level) ==
    [i \in 1 .. HalfUp(Len(level)) |->
        IF 2 * i <= Len(level) THEN NodeDigest(level[2 * i - 1], level[2 * i])
        ELSE level[2 * i - 1]]

\* Level 0 is the leaf digests; a level of one digest repeats itself.
Levels(entries) ==
    LET ids == Leaves(entries)
        level[h \in 0 .. Len(ids)] ==
            IF h = 0 THEN [i \in DOMAIN ids |-> LeafDigest(ids[i], entries[ids[i]])]
            ELSE NextLevel(level[h - 1])
    IN  level

Root(entries) ==
    IF DOMAIN entries = {} THEN EmptyRoot
    ELSE Levels(entries)[Len(Leaves(entries))][1]

\* The sibling of position i of a level; a promoted digest has none.
StepAt(level, i) ==
    IF i = Len(level) /\ i % 2 = 1 THEN <<>>
    ELSE IF i % 2 = 1 THEN <<[sibling |-> level[i + 1], side |-> "right"]>>
    ELSE <<[sibling |-> level[i - 1], side |-> "left"]>>

\* proof(): the siblings on the way up.  The position halves at every level,
\* a level where nothing is recorded included.
Proof(entries, id) ==
    LET level == Levels(entries)
        ids == Leaves(entries)
        climb[h \in 0 .. Len(ids)] ==
            IF h = 0 THEN [at |-> CHOOSE i \in DOMAIN ids : ids[i] = id, steps |-> <<>>]
            ELSE [at |-> HalfUp(climb[h - 1].at),
                  steps |-> climb[h - 1].steps \o StepAt(level[h - 1], climb[h - 1].at)]
    IN  climb[Len(ids)].steps

\* verify_proof(): replay it over the leaf.
Combine(d, s) ==
    IF s.side = "right" THEN NodeDigest(d, s.sibling) ELSE NodeDigest(s.sibling, d)
VerifyProof(id, content, steps, root) ==
    LET digest[i \in 0 .. Len(steps)] ==
            IF i = 0 THEN LeafDigest(id, content) ELSE Combine(digest[i - 1], steps[i])
    IN  root = digest[Len(steps)]
=============================================================================
