--------------------------- MODULE CheckpointsMock ---------------------------
(***************************************************************************)
(* A contract that owns one history: the History mock, whose keys are      *)
(* block numbers, or a Trace mock, whose callers choose the keys.          *)
(***************************************************************************)
EXTENDS Checkpoints, FiniteSets

CONSTANTS
  Mocks,         \* the mocks deployed: "History", "Trace"
  TraceKeys,     \* keys pushed to a Trace
  Amounts,       \* values and deltas pushed, too wide ones among them
  LastBlock      \* the chain stops here

ASSUME MockAssumption ==
  /\ Mocks \subseteq {"History", "Trace"}
  /\ TraceKeys \subseteq Key /\ Amounts \subseteq Nat /\ LastBlock \in Nat

VARIABLES
  mock,                \* which of the mocks this is
  now,                 \* block.number
  _totalCheckpoints,
  returned,            \* what the last push returned
  written              \* what was written last under each key, for reference

vars == <<mock, now, _totalCheckpoints, returned, written>>

Init ==
  /\ mock \in Mocks
  /\ now = 0
  /\ _totalCheckpoints = <<>>
  /\ returned = <<>>
  /\ written = <<>>

(* _insert under a key, as either push ends. *)
Insert(key, value) ==
  /\ CanInsert(_totalCheckpoints, key)
  /\ _totalCheckpoints' = _insert(_totalCheckpoints, key, value)
  /\ returned' = _insertReturns(_totalCheckpoints, key, value)
  /\ written' = [k \in DOMAIN written \cup {key} |-> IF k = key THEN value ELSE written[k]]
  /\ UNCHANGED <<mock, now>>

(* push(value) of the History mock: at the present block. *)
pushNow(value) ==
  /\ mock = "History"
  /\ CanPushAt(_totalCheckpoints, now, value)
  /\ Insert(toUintDown(KeyBits, now), toUintDown(ValueBits, value))

(* push(op, delta), with the checked operations Votes passes. *)
pushOp(delta) ==
  \/ pushNow(latest(_totalCheckpoints) + delta)
  \/ latest(_totalCheckpoints) >= delta /\ pushNow(latest(_totalCheckpoints) - delta)

(* push(key, value) of a Trace mock; its arguments have their types. *)
push(key, value) ==
  /\ mock = "Trace"
  /\ key \in Key /\ value \in Value
  /\ Insert(key, value)

Mine ==
  /\ mock = "History" /\ now < LastBlock
  /\ now' = now + 1
  /\ UNCHANGED <<mock, _totalCheckpoints, returned, written>>

Next ==
  \/ Mine
  \/ \E n \in Amounts : pushNow(n) \/ pushOp(n) \/ \E key \in TraceKeys : push(key, n)

Spec == Init /\ [][Next]_vars

-----------------------------------------------------------------------------
(* The reference: the last key at most, and the first at least, `key`.     *)
ValueUpTo(key) ==
  LET before == {k \in DOMAIN written : k <= key}
  IN  IF before = {} THEN 0 ELSE written[CHOOSE k \in before : \A j \in before : j <= k]

ValueFrom(key) ==
  LET after == {k \in DOMAIN written : k >= key}
  IN  IF after = {} THEN 0 ELSE written[CHOOSE k \in after : \A j \in after : j >= k]

(* Keys and values have their types, and keys increase strictly, whatever  *)
(* was pushed to whichever mock.                                           *)
TypeOK ==
  /\ mock \in Mocks /\ now \in 0..LastBlock
  /\ _totalCheckpoints \in Histories
  /\ \A i, j \in 1..Len(_totalCheckpoints) :
       i < j => _totalCheckpoints[i]._key < _totalCheckpoints[j]._key
  /\ returned \in {<<>>} \cup (Value \X Value)

(* Every lookup finds what was written: at each past block that fits a     *)
(* key, both block lookups, the one that probes near the end included,     *)
(* give the value the block ended with; under each key of a Trace the two  *)
(* lookups give the neighbours'; latest is the last write.                 *)
LookupsAgree ==
  /\ mock = "History" =>
       \A b \in 0..now : CanGetAtBlock(_totalCheckpoints, b, now) =>
         /\ getAtBlock(_totalCheckpoints, b, now) = ValueUpTo(b)
         /\ getAtProbablyRecentBlock(_totalCheckpoints, b, now) = ValueUpTo(b)
  /\ mock = "Trace" =>
       \A key \in Key : /\ upperLookup(_totalCheckpoints, key) = ValueUpTo(key)
                        /\ lowerLookup(_totalCheckpoints, key) = ValueFrom(key)
  /\ latest(_totalCheckpoints) = ValueUpTo(maxUint(KeyBits))
  /\ latestCheckpoint(_totalCheckpoints).exists <=> written # <<>>

(* What a block ended with is settled: no later push changes the answer    *)
(* for a block already mined (push at block.number, getAtBlock's require). *)
PastIsSettled ==
  [][\A b \in 0..now :
       CanGetAtBlock(_totalCheckpoints, b, now) =>
         getAtBlock(_totalCheckpoints, b, now)' = getAtBlock(_totalCheckpoints, b, now)]_vars

(* A push returns the value it replaces, also when it overwrites the       *)
(* checkpoint it read ("Copying to memory is important here").             *)
PushReturnsReplaced ==
  [][written' # written => returned' = <<latest(_totalCheckpoints), latest(_totalCheckpoints')>>]_vars
=============================================================================
