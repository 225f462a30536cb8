---------------------------- MODULE MCBatchConsole ----------------------------
(***************************************************************************)
(* The instance of BatchConsole for TLC.                                   *)
(***************************************************************************)
EXTENDS BatchConsole

CONSTANTS b1, f1, v1
===============================================================================
