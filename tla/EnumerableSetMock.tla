-------------------------- MODULE EnumerableSetMock --------------------------
(***************************************************************************)
(* A contract that owns one generated set and exposes its functions.       *)
(***************************************************************************)
EXTENDS EnumerableSet

VARIABLES
  _set,
  emitted   \* the OperationResult events of the last transaction

setVars == <<_set, emitted>>

SetInit == _set = EmptySet /\ emitted = <<>>

addElement(value) ==
  /\ _set' = add(_set, value)
  /\ emitted' = <<Adds(_set, value)>>

removeElement(value) ==
  /\ _set' = remove(_set, value)
  /\ emitted' = <<Removes(_set, value)>>

SetNext == \E value \in ValuesOf(type) : addElement(value) \/ removeElement(value)

-----------------------------------------------------------------------------
(* `values`, which copies the array, `at`, which converts one word, and    *)
(* `contains`, which looks at the index, agree on what is in the set.      *)
ListingsAgree ==
  /\ \A i \in 0..(length(_set) - 1) : at(_set, i) = values(_set)[i + 1]
  /\ \A v \in ValuesOf(type) :
       contains(_set, v) <=> \E i \in 1..Len(values(_set)) : values(_set)[i] = v

Promised == INSTANCE FiniteCollection
  WITH Element <- ValuesOf(type),
       elements <- {values(_set)[i] : i \in 1..Len(values(_set))}

(* The contract does what a set does, each call with the same event, as    *)
(* far as `values` tells (add and remove, over _add and _remove).          *)
IsCollection ==
  /\ Promised!Spec
  /\ [][\A value \in ValuesOf(type) :
           /\ addElement(value) => Promised!add(value)
           /\ removeElement(value) => Promised!remove(value)]_setVars
=============================================================================
