---------------------------- MODULE EnumerableSet ----------------------------
(***************************************************************************)
(* The generated EnumerableSet library, a set as a value: the elements in  *)
(* an array, and for each word its place in the array, counted from one so *)
(* that zero means absent.  Sequences count from one too, so the index     *)
(* kept is the place itself; `at` takes the library's index, from zero.    *)
(*                                                                         *)
(* An operator that stands for a call that writes gives the set the call   *)
(* leaves; Adds and Removes say what such a call returns.                  *)
(***************************************************************************)
EXTENDS Conversion, Sequences

CONSTANT type   \* the element type of the wrapper: bytes32, address, uint256

Sets == [_values : Seq(Bytes32), _indexes : [Bytes32 -> Nat]]

EmptySet == [_values |-> <<>>, _indexes |-> [w \in Bytes32 |-> 0]]

-----------------------------------------------------------------------------
(* The private functions, on words. *)

_contains(set, word) == set._indexes[word] # 0

_add(set, word) ==
  IF _contains(set, word)
    THEN set
    ELSE [_values  |-> Append(set._values, word),
          _indexes |-> [set._indexes EXCEPT ![word] = Len(set._values) + 1]]

(* A slip to compare with: the word that moves keeps its old index. *)
_remove_staleIndex(set, word) ==
  IF ~_contains(set, word)
    THEN set
    ELSE LET place == set._indexes[word]
             last  == Len(set._values)
             moved == [set._values EXCEPT ![place] = set._values[last]]
         IN  [_values  |-> SubSeq(moved, 1, last - 1),
              _indexes |-> [set._indexes EXCEPT ![word] = 0]]

(* A slip to compare with: the index of the removed word is not deleted. *)
_remove_keptIndex(set, word) ==
  IF ~_contains(set, word)
    THEN set
    ELSE LET place == set._indexes[word]
             last  == Len(set._values)
         IN  [_values  |-> SubSeq([set._values EXCEPT ![place] = set._values[last]], 1, last - 1),
              _indexes |-> [set._indexes EXCEPT ![set._values[last]] = place]]

(* Swap and pop: the last word moves to the place that falls free. *)
_remove(set, word) ==
  IF ~_contains(set, word)
    THEN set
    ELSE LET place     == set._indexes[word]
             last      == Len(set._values)
             lastWord  == set._values[last]
             swapped   == [set._values EXCEPT ![place] = lastWord]
             reindexed == [set._indexes EXCEPT ![lastWord] = place]
         IN  [_values  |-> SubSeq(swapped, 1, last - 1),
              _indexes |-> [reindexed EXCEPT ![word] = 0]]

_length(set) == Len(set._values)

_at(set, index) == set._values[index + 1]

_values(set) == set._values

-----------------------------------------------------------------------------
(* The wrapper for elements of `type`. *)

add(set, value) == _add(set, toBytes32(type, value))

Adds(set, value) == ~_contains(set, toBytes32(type, value))

remove(set, value) == _remove(set, toBytes32(type, value))

Removes(set, value) == _contains(set, toBytes32(type, value))

contains(set, value) == _contains(set, toBytes32(type, value))

length(set) == _length(set)

(* at reverts past the end. *)
CanAt(set, index) == index \in 0..(length(set) - 1)

at(set, index) == fromBytes32(type, _at(set, index))

(* The memory array is reinterpreted word by word, not converted. *)
values(set) == _values(set)

-----------------------------------------------------------------------------
(* Array and indexes agree: each word of the array is indexed where it     *)
(* stands, and an index points at its word.  So no word stands twice.      *)
IndexesMatch(set) ==
  /\ \A i \in 1..Len(set._values) : set._indexes[set._values[i]] = i
  /\ \A w \in Bytes32 : set._indexes[w] # 0 =>
       set._indexes[w] \in 1..Len(set._values) /\ set._values[set._indexes[w]] = w
=============================================================================
