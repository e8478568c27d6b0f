------------------------------- MODULE Totals -------------------------------
(***************************************************************************)
(* Sums of natural numbers over a finite index set.  The total of f over S *)
(* is the number of units (s, 1), ..., (s, f[s]) held by the members of S. *)
(* Counting units instead of recursing over S is what lets the lemmas of   *)
(* Arithmetic_proofs follow from the cardinality theorems.                 *)
(***************************************************************************)
EXTENDS Integers, FiniteSets

(* One pair per unit that a member of S holds under f. *)
Units(f, S) == UNION { {s} \X (1 .. f[s]) : s \in S }

(* The sum of f[s] over the members s of S. *)
Total(f, S) == Cardinality(Units(f, S))
=============================================================================
