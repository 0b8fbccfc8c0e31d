----------------------------- MODULE MCUplinks -----------------------------
(***************************************************************************)
(* Instances of Uplinks for TLC.                                           *)
(***************************************************************************)
EXTENDS Uplinks, TLC

CONSTANTS a, b, c, eth0, eth1

\* Two providers behind one interface, and one with an interface to itself.
OneArmed == (a :> eth0) @@ (b :> eth0) @@ (c :> eth1)

Twins == Permutations({a, b})
=============================================================================
