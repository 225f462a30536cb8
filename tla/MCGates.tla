------------------------------- MODULE MCGates -------------------------------
(***************************************************************************)
(* The instance of Gates for TLC.                                          *)
(***************************************************************************)
EXTENDS Gates

CONSTANTS r1, r2
=============================================================================
