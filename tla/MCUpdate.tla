------------------------------ MODULE MCUpdate ------------------------------
(***************************************************************************)
(* A small instance of Update: one build of each kind, and a second that   *)
(* serves.                                                                 *)
(***************************************************************************)
EXTENDS Update

CONSTANTS good, better, crashing, hanging, picky, foreign

MCServes == {good, better}
MCHangs == {hanging}
MCAccepts == MCServes \cup MCHangs \cup {crashing}
MCRuns == MCAccepts \cup {picky}
MCBuilds == MCRuns \cup {foreign}
=============================================================================
