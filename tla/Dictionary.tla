------------------------------ MODULE Dictionary ------------------------------
(* What a map promises its callers: each key has the value it was last set *)
(* to, and a call reports whether the key was new, or was there to remove. *)
CONSTANTS Key, Value

VARIABLES
  dict,      \* the keys present, and the value of each
  emitted    \* the events of the last call

Init == dict = <<>> /\ emitted = <<>>

set(key, value) ==
  /\ dict' = [k \in DOMAIN dict \cup {key} |-> IF k = key THEN value ELSE dict[k]]
  /\ emitted' = <<key \notin DOMAIN dict>>

remove(key) ==
  /\ dict' = [k \in DOMAIN dict \ {key} |-> dict[k]]
  /\ emitted' = <<key \in DOMAIN dict>>

Next == \E key \in Key : remove(key) \/ \E value \in Value : set(key, value)

Spec == Init /\ [][Next]_<<dict, emitted>>
=============================================================================
