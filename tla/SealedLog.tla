------------------------------ MODULE SealedLog ------------------------------
(***************************************************************************)
(* What a .context container promises of its history (context_store.rs:   *)
(* append-only): a sealed generation is never dropped and never rewritten. *)
(* A step may seal several, since a failed commit spends a generation.     *)
(***************************************************************************)
EXTENDS Naturals

CONSTANT Root           \* what a generation can attest to

VARIABLE sealed         \* sealed[g]: what generation g attests to

Extends(short, long) ==
    /\ DOMAIN short \subseteq DOMAIN long
    /\ \A g \in DOMAIN short : long[g] = short[g]

Init == sealed = [g \in {} |-> {}]

Seal == /\ DOMAIN sealed' \subseteq Nat \ {0}
        /\ \A g \in DOMAIN sealed' : /\ 1 .. g \subseteq DOMAIN sealed'
                                     /\ sealed'[g] \in Root
        /\ Extends(sealed, sealed')

Spec == Init /\ [][Seal]_sealed
=============================================================================
