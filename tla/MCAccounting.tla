---------------------------- MODULE MCAccounting ----------------------------
(***************************************************************************)
(* Instances of Accounting for TLC.  Nothing tells one client from another *)
(* and nothing is eventually promised, so clients are symmetric.           *)
(***************************************************************************)
EXTENDS Accounting, TLC

CONSTANTS laptop, phone

TwoClients == {laptop, phone}
Alike == Permutations(TwoClients)
=============================================================================
