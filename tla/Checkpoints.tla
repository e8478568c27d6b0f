----------------------------- MODULE Checkpoints -----------------------------
(***************************************************************************)
(* The generated Checkpoints library: a history as a sequence of           *)
(* checkpoints with increasing keys.  Positions are the library's, from    *)
(* zero.  Can... says that the call does not revert.                       *)
(***************************************************************************)
EXTENDS SafeCast, Sequences

CONSTANTS
  KeyBits,     \* of a key: a block number, or the caller's key
  ValueBits    \* of a value

ASSUME CheckpointAssumption == KeyBits \in Nat \ {0} /\ ValueBits \in Nat \ {0}

(* Which the provers, who are told nothing of ^, cannot know. *)
ASSUME PowerAssumption == 2^KeyBits \in Nat \ {0} /\ 2^ValueBits \in Nat \ {0}

Key == 0..maxUint(KeyBits)

Value == 0..maxUint(ValueBits)

Histories == Seq([_key : Key, _value : Value])

_unsafeAccess(self, pos) == self[pos + 1]

length(self) == Len(self)

-----------------------------------------------------------------------------
(* Writing. *)

(* The key and value of the last checkpoint; zeros where there is none. *)
latestCheckpoint(self) ==
  LET pos == length(self)
  IN  IF pos = 0
        THEN [exists |-> FALSE, _key |-> 0, _value |-> 0]
        ELSE [exists |-> TRUE, _key |-> _unsafeAccess(self, pos - 1)._key,
              _value |-> _unsafeAccess(self, pos - 1)._value]

latest(self) == IF length(self) = 0 THEN 0 ELSE _unsafeAccess(self, length(self) - 1)._value

CanInsert(self, key) == length(self) > 0 => _unsafeAccess(self, length(self) - 1)._key <= key

(* A slip to compare with: a second write to a key makes a second entry. *)
_insert_appends(self, key, value) == Append(self, [_key |-> key, _value |-> value])

(* A second write to the last key replaces its value. *)
_insert(self, key, value) ==
  IF length(self) > 0 /\ _unsafeAccess(self, length(self) - 1)._key = key
    THEN [self EXCEPT ![length(self)]._value = value]
    ELSE Append(self, [_key |-> key, _value |-> value])

(* A slip to compare with: the last checkpoint is not copied to memory, so *)
(* it is read after it was overwritten.                                    *)
_insertReturns_uncopied(self, key, value) ==
  IF length(self) > 0 /\ _unsafeAccess(self, length(self) - 1)._key = key
    THEN <<value, value>>
    ELSE <<latest(self), value>>

(* The value before and the value after. *)
_insertReturns(self, key, value) ==
  IF length(self) > 0
    THEN LET last == _unsafeAccess(self, length(self) - 1) IN <<last._value, value>>
    ELSE <<0, value>>

-----------------------------------------------------------------------------
(* Searching between positions low and high, high excluded. *)

(* Math.average and Math.sqrt, both rounded down. *)
average(a, b) == (a + b) \div 2

sqrt(n) == CHOOSE r \in 0..n : r * r <= n /\ n < (r + 1) * (r + 1)

_upperBinaryLookup(self, key, low, high) ==
  LET search[bounds \in (0..high) \X (0..high)] ==
        LET l == bounds[1]  h == bounds[2]  mid == average(l, h)
        IN  IF l < h
              THEN IF _unsafeAccess(self, mid)._key > key THEN search[<<l, mid>>] ELSE search[<<mid + 1, h>>]
              ELSE h
  IN  search[<<low, high>>]

_lowerBinaryLookup(self, key, low, high) ==
  LET search[bounds \in (0..high) \X (0..high)] ==
        LET l == bounds[1]  h == bounds[2]  mid == average(l, h)
        IN  IF l < h
              THEN IF _unsafeAccess(self, mid)._key < key THEN search[<<mid + 1, h>>] ELSE search[<<l, mid>>]
              ELSE h
  IN  search[<<low, high>>]

lowerLookup(self, key) ==
  LET len == length(self)
      pos == _lowerBinaryLookup(self, key, 0, len)
  IN  IF pos = len THEN 0 ELSE _unsafeAccess(self, pos)._value

upperLookup(self, key) ==
  LET len == length(self)
      pos == _upperBinaryLookup(self, key, 0, len)
  IN  IF pos = 0 THEN 0 ELSE _unsafeAccess(self, pos - 1)._value

-----------------------------------------------------------------------------
(* Keys that are block numbers. *)

(* A slip to compare with: the present block can be asked for. *)
CanGetAtBlock_present(self, blockNumber, now) ==
  blockNumber <= now /\ CanToUintDown(KeyBits, blockNumber)

(* "block not yet mined" *)
CanGetAtBlock(self, blockNumber, now) ==
  blockNumber < now /\ CanToUintDown(KeyBits, blockNumber)

getAtBlock(self, blockNumber, now) ==
  LET key == toUintDown(KeyBits, blockNumber)
      pos == _upperBinaryLookup(self, key, 0, length(self))
  IN  IF pos = 0 THEN 0 ELSE _unsafeAccess(self, pos - 1)._value

(* A slip to compare with: the probe itself is searched again only on one  *)
(* side of it.                                                             *)
getAtProbablyRecentBlock_offProbe(self, blockNumber, now) ==
  LET key == toUintDown(KeyBits, blockNumber)
      len == length(self)
      mid == len - sqrt(len)
      pos == IF len > 5
               THEN IF key < _unsafeAccess(self, mid)._key
                      THEN _upperBinaryLookup(self, key, 0, mid - 1)
                      ELSE _upperBinaryLookup(self, key, mid + 1, len)
               ELSE _upperBinaryLookup(self, key, 0, len)
  IN  IF pos = 0 THEN 0 ELSE _unsafeAccess(self, pos - 1)._value

(* One probe near the end first, once there are enough checkpoints. *)
getAtProbablyRecentBlock(self, blockNumber, now) ==
  LET key == toUintDown(KeyBits, blockNumber)
      len == length(self)
      mid == len - sqrt(len)
      pos == IF len > 5
               THEN IF key < _unsafeAccess(self, mid)._key
                      THEN _upperBinaryLookup(self, key, 0, mid)
                      ELSE _upperBinaryLookup(self, key, mid + 1, len)
               ELSE _upperBinaryLookup(self, key, 0, len)
  IN  IF pos = 0 THEN 0 ELSE _unsafeAccess(self, pos - 1)._value

(* push of a value at the present block *)
CanPushAt(self, now, value) ==
  /\ CanToUintDown(KeyBits, now)
  /\ CanToUintDown(ValueBits, value)
  /\ CanInsert(self, toUintDown(KeyBits, now))
=============================================================================
