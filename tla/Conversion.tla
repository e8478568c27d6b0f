----------------------------- MODULE Conversion -----------------------------
(* The types the generated containers are made for, and how a value of each *)
(* becomes a 32-byte word and comes back.  Words and addresses are numbers; *)
(* an address is the narrower of the two.                                   *)
EXTENDS Integers

CONSTANTS
  MaxBytes32,   \* the largest word
  MaxAddress    \* the largest address

ASSUME WidthAssumption == MaxAddress \in Nat /\ MaxBytes32 \in Nat /\ MaxAddress <= MaxBytes32

Bytes32 == 0..MaxBytes32

TypeNames == {"bytes32", "uint256", "address"}

ValuesOf(type) == IF type = "address" THEN 0..MaxAddress ELSE Bytes32

(* uint160(...) drops the bits an address does not have. *)
uint160(n) == n % (MaxAddress + 1)

toBytes32(type, value) == IF type = "address" THEN uint160(value) ELSE value

fromBytes32(type, word) == IF type = "address" THEN uint160(word) ELSE word
=============================================================================
