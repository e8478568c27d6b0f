----------------------------- MODULE MCEnumerable -----------------------------
(* One map contract and one set contract side by side, for TLC. *)
EXTENDS EnumerableMapMock

CONSTANT type

ASSUME ElementAssumption == type \in TypeNames

VARIABLES _set, setEmitted

SetMock == INSTANCE EnumerableSetMock WITH emitted <- setEmitted

Init == MapInit /\ SetMock!SetInit

Next ==
  \/ MapNext /\ UNCHANGED <<_set, setEmitted>>
  \/ SetMock!SetNext /\ UNCHANGED mapVars

Spec == Init /\ [][Next]_<<_map, emitted, _set, setEmitted>>

ListingsAgree == SetMock!ListingsAgree

IsCollection == SetMock!IsCollection
=============================================================================
