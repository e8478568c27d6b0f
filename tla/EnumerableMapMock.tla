-------------------------- MODULE EnumerableMapMock --------------------------
(***************************************************************************)
(* A contract that owns one generated map and exposes its functions: each  *)
(* call that writes is an action and emits what the library returned.      *)
(***************************************************************************)
EXTENDS EnumerableMap

VARIABLES
  _map,
  emitted   \* the OperationResult events of the last transaction

mapVars == <<_map, emitted>>

MapInit == _map = EmptyMap /\ emitted = <<>>

setEntry(key, value) ==
  /\ _map' = set(_map, key, value)
  /\ emitted' = <<~contains(_map, key)>>

removeEntry(key) ==
  /\ _map' = remove(_map, key)
  /\ emitted' = <<contains(_map, key)>>

MapNext ==
  \E key \in ValuesOf(keyType) :
    removeEntry(key) \/ \E value \in ValuesOf(valueType) : setEntry(key, value)

MapSpec == MapInit /\ [][MapNext]_mapVars

-----------------------------------------------------------------------------
(* The map is made of words, and no index is past the array.               *)
MapTypeOK ==
  /\ _map \in Maps
  /\ \A w \in Bytes32 : _map._keys._indexes[w] <= Len(_map._keys._values)
  /\ emitted \in {<<>>, <<TRUE>>, <<FALSE>>}

(* The keys' array and their indexes agree after every swap and pop, and a *)
(* key that is absent has no value left behind (remove and _remove).       *)
MapConsistent ==
  /\ Keys!IndexesMatch(_map._keys)
  /\ \A w \in Bytes32 : ~containsWord(_map, w) => _map._values[w] = 0

(* Every way of reading tells the same story: walking `at` from 0 to       *)
(* length - 1 meets each key contained exactly once, with the value tryGet *)
(* and get give for it, and get reverts just where tryGet says no, a key   *)
(* set to zero included.                                                   *)
ReadersAgree ==
  LET places == 0..(length(_map) - 1)
  IN  /\ \A i, j \in places : at(_map, i)[1] = at(_map, j)[1] => i = j
      /\ \A key \in ValuesOf(keyType) :
           /\ contains(_map, key) <=> \E i \in places : at(_map, i)[1] = key
           /\ contains(_map, key) <=> CanGet(_map, key)
           /\ CanGetOrFail(_map, key) <=> CanGet(_map, key)
           /\ tryGet(_map, key) = <<contains(_map, key), get(_map, key)>>
      /\ \A i \in places : at(_map, i)[2] = get(_map, at(_map, i)[1])

(* The map seen from outside: the keys listed and their values.            *)
Entries ==
  [key \in {at(_map, i)[1] : i \in 0..(length(_map) - 1)} |-> get(_map, key)]

Promised == INSTANCE Dictionary
  WITH Key <- ValuesOf(keyType), Value <- ValuesOf(valueType), dict <- Entries

(* The contract does what a dictionary does: each call what the call of    *)
(* that name does with the same arguments, and with the same event (set    *)
(* and remove of EnumerableMap, over _add and _remove).                    *)
IsDictionary ==
  /\ Promised!Spec
  /\ [][\A key \in ValuesOf(keyType) :
           /\ removeEntry(key) => Promised!remove(key)
           /\ \A value \in ValuesOf(valueType) :
                setEntry(key, value) => Promised!set(key, value)]_mapVars
=============================================================================
