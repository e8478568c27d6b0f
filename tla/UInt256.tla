------------------------------- MODULE UInt256 -------------------------------
(***************************************************************************)
(* Solidity's unsigned integers.  Checked arithmetic reverts when a result *)
(* leaves UInt; an unchecked block and a cast from int256 wrap around.     *)
(***************************************************************************)
EXTENDS Integers

CONSTANT MaxUint   \* type(uint256).max

ASSUME MaxUintAssumption == MaxUint \in Nat \ {0}

UInt == 0 .. MaxUint

(* Unchecked arithmetic, and uint256(x) of a signed x. *)
Wrapped(n) == n % (MaxUint + 1)
=============================================================================
