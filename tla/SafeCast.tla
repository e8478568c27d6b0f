------------------------------- MODULE SafeCast -------------------------------
(* The generated SafeCast library: casts between integers of a given number *)
(* of bits.  A Can... operator holds when the cast does not revert.         *)
EXTENDS Integers

(* What Solidity's own conversions do: keep the low bits, and read the top *)
(* one as a sign where the type has one.                                   *)
uint(bits, n) == n % 2^bits

int(bits, n) ==
  LET low == n % 2^bits IN IF low < 2^(bits - 1) THEN low ELSE low - 2^bits

maxUint(bits) == 2^bits - 1

maxInt(bits) == 2^(bits - 1) - 1

(* uint256 to a narrower uint *)
CanToUintDown(bits, value) == value <= maxUint(bits)

toUintDown(bits, value) == uint(bits, value)

(* A slip to compare with: only the upper end is checked. *)
CanToIntDown_upper(bits, value) == value <= maxInt(bits)

(* int256 to a narrower int: the cast comes first and is compared. *)
CanToIntDown(bits, value) == int(bits, value) = value

toIntDown(bits, value) == int(bits, value)

(* uint to int of the same width *)
CanToInt(bits, value) == value <= maxInt(bits)

toInt(bits, value) == int(bits, value)

(* int to uint of the same width *)
CanToUint(bits, value) == value >= 0

toUint(bits, value) == uint(bits, value)

(* The widths the library is generated for. *)
range(start, stop, step) ==
  {start + i * step : i \in {j \in 0..(stop - start) : start + j * step < stop}}
-----------------------------------------------------------------------------
(* Each cast from a word to the given width, and between the signed and    *)
(* unsigned word: it gives back its argument, or reverts because the       *)
(* argument is not a number of the target type.                            *)
CastIsExact(word, bits, value) ==
  LET Exact(can, result, target) == (can <=> value \in target) /\ (can => result = value)
      Unsigned(b) == 0..maxUint(b)
      Signed(b)   == -(maxInt(b) + 1)..maxInt(b)
  IN  /\ value \in Unsigned(word) =>
           /\ Exact(CanToUintDown(bits, value), toUintDown(bits, value), Unsigned(bits))
           /\ Exact(CanToInt(word, value), toInt(word, value), Signed(word))
      /\ value \in Signed(word) =>
           /\ Exact(CanToIntDown(bits, value), toIntDown(bits, value), Signed(bits))
           /\ Exact(CanToUint(word, value), toUint(word, value), Unsigned(word))
=============================================================================
