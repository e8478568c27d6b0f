------------------------- MODULE MCInheritanceOrdering -------------------------
(* InheritanceOrdering for TLC. *)
EXTENDS InheritanceOrdering
=============================================================================
