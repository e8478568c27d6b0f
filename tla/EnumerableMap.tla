---------------------------- MODULE EnumerableMap ----------------------------
(***************************************************************************)
(* The generated EnumerableMap library, a map as a value: an EnumerableSet *)
(* of the keys, and a value for every word, zero for the absent ones.      *)
(***************************************************************************)
EXTENDS Conversion, Sequences

CONSTANTS keyType, valueType   \* of the wrapper

ASSUME EntryAssumption == keyType \in TypeNames /\ valueType \in TypeNames

Keys == INSTANCE EnumerableSet WITH type <- "bytes32"

Maps == [_keys : Keys!Sets, _values : [Bytes32 -> Bytes32]]

EmptyMap == [_keys |-> Keys!EmptySet, _values |-> [w \in Bytes32 |-> 0]]

-----------------------------------------------------------------------------
(* Bytes32ToBytes32Map. *)

(* A slip to compare with: an existing key keeps its value. *)
setWord_once(map, key, value) ==
  IF Keys!contains(map._keys, key)
    THEN map
    ELSE [_keys |-> Keys!add(map._keys, key), _values |-> [map._values EXCEPT ![key] = value]]

setWord(map, key, value) ==
  [_keys |-> Keys!add(map._keys, key), _values |-> [map._values EXCEPT ![key] = value]]

(* A slip to compare with: the value is left behind. *)
removeWord_keepsValue(map, key) == [map EXCEPT !._keys = Keys!remove(map._keys, key)]

removeWord(map, key) ==
  [_keys |-> Keys!remove(map._keys, key), _values |-> [map._values EXCEPT ![key] = 0]]

containsWord(map, key) == Keys!contains(map._keys, key)

lengthWord(map) == Keys!length(map._keys)

CanAtWord(map, index) == Keys!CanAt(map._keys, index)

atWord(map, index) ==
  LET key == Keys!at(map._keys, index) IN <<key, map._values[key]>>

(* Only a zero value costs a look at the keys. *)
tryGetWord(map, key) ==
  LET value == map._values[key]
  IN  IF value = 0 THEN <<containsWord(map, key), 0>> ELSE <<TRUE, value>>

(* get does not revert; with a message of the caller's it is the same. *)
CanGetWord(map, key) == map._values[key] # 0 \/ containsWord(map, key)

CanGetWordOrFail(map, key) == map._values[key] # 0 \/ containsWord(map, key)

getWord(map, key) == map._values[key]

-----------------------------------------------------------------------------
(* The wrapper from keyType to valueType. *)

set(map, key, value) == setWord(map, toBytes32(keyType, key), toBytes32(valueType, value))

remove(map, key) == removeWord(map, toBytes32(keyType, key))

contains(map, key) == containsWord(map, toBytes32(keyType, key))

length(map) == lengthWord(map)

CanAt(map, index) == CanAtWord(map, index)

at(map, index) ==
  LET entry == atWord(map, index)
  IN  <<fromBytes32(keyType, entry[1]), fromBytes32(valueType, entry[2])>>

tryGet(map, key) ==
  LET answer == tryGetWord(map, toBytes32(keyType, key))
  IN  <<answer[1], fromBytes32(valueType, answer[2])>>

CanGet(map, key) == CanGetWord(map, toBytes32(keyType, key))

CanGetOrFail(map, key) == CanGetWordOrFail(map, toBytes32(keyType, key))

get(map, key) == fromBytes32(valueType, getWord(map, toBytes32(keyType, key)))
=============================================================================
