----------------------------- MODULE MCGateway -----------------------------
(***************************************************************************)
(* The instance of Gateway for TLC: one item at each operator, with the     *)
(* three attempts of the default configuration (config.go:186).            *)
(***************************************************************************)
EXTENDS Gateway, TLC

CONSTANTS io, im

Operators == io :> "orange" @@ im :> "moov"
=============================================================================
