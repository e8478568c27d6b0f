--------------------------- MODULE FiniteCollection ---------------------------
(* What a set promises its callers: what was added and not removed since,  *)
(* and a call reports whether it changed anything.                         *)
CONSTANT Element

VARIABLES
  elements,
  emitted     \* the events of the last call

Init == elements = {} /\ emitted = <<>>

add(e) == elements' = elements \cup {e} /\ emitted' = <<e \notin elements>>

remove(e) == elements' = elements \ {e} /\ emitted' = <<e \in elements>>

Next == \E e \in Element : add(e) \/ remove(e)

Spec == Init /\ [][Next]_<<elements, emitted>>
=============================================================================
