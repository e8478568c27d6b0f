----------------------------- MODULE MCOracleLib -----------------------------
(* OracleLib for TLC. *)
EXTENDS OracleLib
=============================================================================
