------------------------- MODULE DSCEngineSteps_proofs -------------------------
(***************************************************************************)
(* The engine in the middle of its calls.                                  *)
(*                                                                         *)
(* The lock works: however hooks call back and calls fail inside of calls, *)
(* at most one guarded call is open, and no debt moves while it waits.  A  *)
(* revert gives back the lock as it was when its call began, so the        *)
(* invariant speaks of every state saved on the stack besides the present  *)
(* one: each was locked exactly if a guarded call was open below it, and   *)
(* those that were locked have the debts of now.                           *)
(*                                                                         *)
(* The deposits are backed at every step, for the same reason: each saved  *)
(* state is backed together with the deposits pending below it.            *)
(*                                                                         *)
(* And a transaction nobody re-enters is one step of DSCEngine, seen from  *)
(* outside: the open call's saved state and its frame determine the state  *)
(* it has made, so that the return completes the call the engine's action  *)
(* describes.                                                              *)
(***************************************************************************)
EXTENDS DSCEngineSteps, DSCEngine_proofs, SequenceTheorems

FramesOK == \E S : stack \in Seq(S)

GuardedBelow(i) == \E j \in 1..(i - 1) : stack[j].fn \in Guarded

LockFor(i) == IF GuardedBelow(i) THEN "_ENTERED" ELSE "_NOT_ENTERED"

LocksOK ==
  /\ \A i \in 1..Len(stack) : stack[i].saved.status = LockFor(i)
  /\ _status = LockFor(Len(stack) + 1)

OneGuarded ==
  \A i, j \in 1..Len(stack) : stack[i].fn \in Guarded /\ stack[j].fn \in Guarded => i = j

DebtsOK ==
  \A i \in 1..Len(stack) :
    stack[i].saved.status = "_ENTERED" => stack[i].saved.minted = s_DSCMinted

LockInv == FramesOK /\ LocksOK /\ OneGuarded /\ DebtsOK

-----------------------------------------------------------------------------
(* What a call and the end of a call do to the stack. *)

Pushed(fn) ==
  /\ FramesOK'
  /\ Len(stack) \in Nat /\ Len(stack') = Len(stack) + 1
  /\ \A i \in 1..Len(stack) : stack'[i] = stack[i]
  /\ stack'[Len(stack) + 1].fn = fn
  /\ stack'[Len(stack) + 1].saved.status = _status
  /\ stack'[Len(stack) + 1].saved.minted = s_DSCMinted

Popped(fn) ==
  /\ FramesOK'
  /\ Len(stack) \in Nat \ {0} /\ Len(stack') = Len(stack) - 1
  /\ \A i \in 1..(Len(stack) - 1) : stack'[i] = stack[i]
  /\ stack[Len(stack)].fn = fn

LEMMA CalledPushes ==
  ASSUME FramesOK, NEW fn, NEW caller, NEW t, NEW n, NEW debt, NEW user, NEW health,
         Called(fn, caller, t, n, debt, user, health)
  PROVE  /\ Pushed(fn)
         /\ stack'[Len(stack) + 1] =
              [fn |-> fn, caller |-> caller, token |-> t, amount |-> n,
               debt |-> debt, user |-> user, health |-> health, saved |-> Now]
<1> DEFINE frame == [fn |-> fn, caller |-> caller, token |-> t, amount |-> n,
                     debt |-> debt, user |-> user, health |-> health, saved |-> Now]
<1>1. stack' = Append(stack, frame)
  BY DEF Called
<1>2. PICK S : stack \in Seq(S)
  BY DEF FramesOK
<1>3. frame.fn = fn /\ frame.saved.status = _status /\ frame.saved.minted = s_DSCMinted
  BY DEF Now
<1> HIDE DEF frame
<1>4. stack \in Seq(S \cup {frame})
  BY <1>2, SeqMonotonic
<1>5. /\ Append(stack, frame) \in Seq(S \cup {frame})
      /\ Append(stack, frame) # << >>
      /\ Len(Append(stack, frame)) = Len(stack) + 1
      /\ \A i \in 1..Len(stack) : Append(stack, frame)[i] = stack[i]
      /\ Append(stack, frame)[Len(stack) + 1] = frame
  BY <1>4, AppendProperties
<1>6. Len(stack) \in Nat
  BY <1>2, LenProperties
<1>7. FramesOK'
  BY <1>1, <1>5 DEF FramesOK
<1>8. Pushed(fn) /\ stack'[Len(stack) + 1] = frame
  BY <1>1, <1>3, <1>5, <1>6, <1>7 DEF Pushed
<1> QED BY <1>8 DEF frame

LEMMA ReturnedPops ==
  ASSUME FramesOK, NEW fn, Returned(fn)
  PROVE  Popped(fn)
<1>1. stack # <<>> /\ stack[Len(stack)].fn = fn /\ stack' = SubSeq(stack, 1, Len(stack) - 1)
  BY DEF Returned, Top
<1>2. PICK S : stack \in Seq(S)
  BY DEF FramesOK
<1>3. Len(stack) \in Nat \ {0}
  BY <1>1, <1>2, EmptySeq
<1> DEFINE n == Len(stack) - 1
<1>4. n \in Nat /\ Len(stack) = n + 1
  BY <1>3
<1>5. \A i \in 1..n : stack[i] \in S
  BY <1>2, <1>4, ElementOfSeq
<1> HIDE DEF n
<1>6. /\ SubSeq(stack, 1, n) \in Seq(S)
      /\ Len(SubSeq(stack, 1, n)) = IF 1 <= n THEN n - 1 + 1 ELSE 0
      /\ \A i \in 1..(n - 1 + 1) : SubSeq(stack, 1, n)[i] = stack[1 + i - 1]
  BY <1>4, <1>5, SubSeqProperties
<1>7. Len(SubSeq(stack, 1, n)) = n /\ \A i \in 1..n : SubSeq(stack, 1, n)[i] = stack[i]
  BY <1>4, <1>6
<1>8. stack' = SubSeq(stack, 1, n)
  BY <1>1 DEF n
<1>9. FramesOK'
  BY <1>6, <1>8 DEF FramesOK
<1> QED BY <1>1, <1>3, <1>4, <1>7, <1>8, <1>9 DEF Popped, n

-----------------------------------------------------------------------------
(* The invariant under each kind of step. *)

LEMMA GuardedCallKeeps ==
  ASSUME LockInv, NEW fn \in Guarded, Pushed(fn), nonReentrant,
         _status' = "_ENTERED", s_DSCMinted' = s_DSCMinted
  PROVE  LockInv'
<1>1. \A j \in 1..Len(stack) : stack[j].fn \notin Guarded
  BY DEF LockInv, LocksOK, LockFor, GuardedBelow, nonReentrant, Pushed
<1>2. \A i \in 1..Len(stack) : stack[i].saved.status = "_NOT_ENTERED"
  BY <1>1 DEF LockInv, LocksOK, LockFor, GuardedBelow, Pushed
<1>3. _status = "_NOT_ENTERED"
  BY <1>1 DEF LockInv, LocksOK, LockFor, GuardedBelow, Pushed
<1>4. LocksOK'
  BY <1>1, <1>2, <1>3 DEF LocksOK, LockFor, GuardedBelow, Pushed
<1>5. OneGuarded'
  BY <1>1 DEF OneGuarded, Pushed
<1>6. DebtsOK'
  BY <1>2, <1>3 DEF DebtsOK, Pushed
<1> QED BY <1>4, <1>5, <1>6 DEF LockInv, Pushed

LEMMA OpenCallKeeps ==
  ASSUME LockInv, NEW fn, fn \notin Guarded, Pushed(fn),
         _status' = _status, s_DSCMinted' = s_DSCMinted
  PROVE  LockInv'
<1>1. \A i \in 1..(Len(stack) + 1) : GuardedBelow(i)' <=> GuardedBelow(i)
  BY DEF GuardedBelow, Pushed
<1>2. GuardedBelow(Len(stack) + 1)' <=> GuardedBelow(Len(stack) + 1)
  BY DEF GuardedBelow, Pushed
<1>3. LocksOK'
  BY <1>1, <1>2 DEF LockInv, LocksOK, LockFor, Pushed
<1>4. OneGuarded'
  BY DEF LockInv, OneGuarded, Pushed
<1>5. DebtsOK'
  BY DEF LockInv, DebtsOK, Pushed
<1> QED BY <1>3, <1>4, <1>5 DEF LockInv, Pushed

(* Below a guarded call nothing is locked. *)
LEMMA GuardedReturnKeeps ==
  ASSUME LockInv, NEW fn \in Guarded, Popped(fn), _status' = "_NOT_ENTERED"
  PROVE  LockInv'
<1>1. \A j \in 1..(Len(stack) - 1) : stack[j].fn \notin Guarded
  BY DEF LockInv, OneGuarded, Popped
<1>2. \A i \in 1..(Len(stack) - 1) : stack[i].saved.status = "_NOT_ENTERED"
  BY <1>1 DEF LockInv, LocksOK, LockFor, GuardedBelow, Popped
<1>3. LocksOK'
  <2>1. \A i \in 1..Len(stack) : ~GuardedBelow(i)'
    BY <1>1 DEF GuardedBelow, Popped
  <2>2. \A i \in 1..(Len(stack) - 1) : stack'[i].saved.status = "_NOT_ENTERED"
    BY <1>2 DEF Popped
  <2> QED BY <2>1, <2>2 DEF LocksOK, LockFor, Popped
<1>4. OneGuarded'
  BY <1>1 DEF OneGuarded, Popped
<1>5. DebtsOK'
  BY <1>2 DEF DebtsOK, Popped
<1> QED BY <1>3, <1>4, <1>5 DEF LockInv, Popped

LEMMA OpenReturnKeeps ==
  ASSUME LockInv, NEW fn, fn \notin Guarded, Popped(fn),
         _status' = _status, s_DSCMinted' = s_DSCMinted
  PROVE  LockInv'
<1>1. \A i \in 1..Len(stack) : GuardedBelow(i)' <=> GuardedBelow(i)
  BY DEF GuardedBelow, Popped
<1>2. GuardedBelow(Len(stack)) <=> GuardedBelow(Len(stack) + 1)
  BY DEF GuardedBelow, Popped
<1>3. LocksOK'
  BY <1>1, <1>2 DEF LockInv, LocksOK, LockFor, Popped
<1>4. OneGuarded'
  BY DEF LockInv, OneGuarded, Popped
<1>5. DebtsOK'
  BY DEF LockInv, DebtsOK, Popped
<1> QED BY <1>3, <1>4, <1>5 DEF LockInv, Popped

(* A revert under a lock brings back the debts of now; one without a lock  *)
(* leaves nothing locked.                                                  *)
LEMMA RevertKeeps ==
  ASSUME LockInv, NEW fn, Popped(fn),
         _status' = stack[Len(stack)].saved.status,
         s_DSCMinted' = stack[Len(stack)].saved.minted
  PROVE  LockInv'
<1>1. _status' = LockFor(Len(stack))
  BY DEF LockInv, LocksOK, Popped
<1>2. \A i \in 1..Len(stack) : GuardedBelow(i)' <=> GuardedBelow(i)
  BY DEF GuardedBelow, Popped
<1>3. LocksOK'
  BY <1>1, <1>2 DEF LockInv, LocksOK, LockFor, Popped
<1>4. OneGuarded'
  BY DEF LockInv, OneGuarded, Popped
<1>5. CASE GuardedBelow(Len(stack))
  <2>0. Len(stack) \in 1..Len(stack)
    BY DEF Popped
  <2>1. s_DSCMinted' = s_DSCMinted
    BY <1>1, <1>5, <2>0 DEF LockInv, DebtsOK, LockFor
  <2>2. DebtsOK'
    BY <2>1 DEF LockInv, DebtsOK, Popped
  <2> QED BY <1>3, <1>4, <2>2 DEF LockInv, Popped
<1>6. CASE ~GuardedBelow(Len(stack))
  <2>1. \A i \in 1..(Len(stack) - 1) : ~GuardedBelow(i)
    BY <1>6 DEF GuardedBelow, Popped
  <2>2. \A i \in 1..(Len(stack) - 1) : stack[i].saved.status = "_NOT_ENTERED"
    BY <2>1 DEF LockInv, LocksOK, LockFor, Popped
  <2>3. DebtsOK'
    BY <2>2 DEF DebtsOK, Popped
  <2> QED BY <1>3, <1>4, <2>3 DEF LockInv, Popped
<1> QED BY <1>5, <1>6

LEMMA WholeKeeps ==
  ASSUME LockInv, stack' = stack, _status' = _status,
         s_DSCMinted' = s_DSCMinted \/ _status # "_ENTERED"
  PROVE  LockInv'
<1>1. \A i \in 1..(Len(stack) + 1) : GuardedBelow(i)' <=> GuardedBelow(i)
  BY DEF GuardedBelow
<1>2. Len(stack) \in Nat
  BY LenProperties DEF LockInv, FramesOK
<1>3. LocksOK'
  BY <1>1, <1>2 DEF LockInv, LocksOK, LockFor
<1>4. FramesOK' /\ OneGuarded'
  BY DEF LockInv, FramesOK, OneGuarded
<1>5. DebtsOK'
  <2>1. CASE s_DSCMinted' = s_DSCMinted
    BY <2>1 DEF LockInv, DebtsOK
  <2>2. CASE _status # "_ENTERED"
    <3>1. ~GuardedBelow(Len(stack) + 1)
      BY <2>2 DEF LockInv, LocksOK, LockFor
    <3>2. \A i \in 1..Len(stack) : ~GuardedBelow(i)
      BY <1>2, <3>1 DEF GuardedBelow
    <3>3. \A i \in 1..Len(stack) : stack[i].saved.status = "_NOT_ENTERED"
      BY <3>2 DEF LockInv, LocksOK, LockFor
    <3> QED BY <3>3 DEF DebtsOK
  <2> QED BY <2>1, <2>2
<1> QED BY <1>3, <1>4, <1>5 DEF LockInv

-----------------------------------------------------------------------------
(* Every step is of one of those kinds, and keeps the debts of a lock. *)

DebtsStand == _status = "_ENTERED" /\ _status' = "_ENTERED" => s_DSCMinted' = s_DSCMinted

LEMMA CallsKeep ==
  ASSUME LockInv, Calls
  PROVE  LockInv' /\ DebtsStand
<1>1. FramesOK /\ "depositCollateral" \in Guarded /\ "liquidate" \in Guarded
      /\ "_redeemCollateral" \notin Guarded
  BY DEF LockInv, Guarded
<1>2. CASE \E u, t, n, m : depositCollateralCall(u, t, n, m)
  <2> PICK u, t, n, m : depositCollateralCall(u, t, n, m)
    BY <1>2
  <2>1. Pushed("depositCollateral")
    BY <1>1, CalledPushes DEF depositCollateralCall
  <2>2. nonReentrant /\ _status' = "_ENTERED" /\ s_DSCMinted' = s_DSCMinted
    BY DEF depositCollateralCall
  <2> QED BY <1>1, <2>1, <2>2, GuardedCallKeeps DEF DebtsStand
<1>3. CASE \E t, n, from, to : _redeemCollateralCall(t, n, from, to)
  <2> PICK t, n, from, to : _redeemCollateralCall(t, n, from, to)
    BY <1>3
  <2>1. Pushed("_redeemCollateral")
    BY <1>1, CalledPushes DEF _redeemCollateralCall
  <2>2. _status' = _status /\ s_DSCMinted' = s_DSCMinted
    BY DEF _redeemCollateralCall
  <2> QED BY <1>1, <2>1, <2>2, OpenCallKeeps DEF DebtsStand
<1>4. CASE \E u, t, user, m : liquidateCall(u, t, user, m)
  <2> PICK u, t, user, m : liquidateCall(u, t, user, m)
    BY <1>4
  <2>1. Pushed("liquidate")
    BY <1>1, CalledPushes DEF liquidateCall
  <2>2. nonReentrant /\ _status' = "_ENTERED" /\ s_DSCMinted' = s_DSCMinted
    BY DEF liquidateCall
  <2> QED BY <1>1, <2>1, <2>2, GuardedCallKeeps DEF DebtsStand
<1> QED BY <1>2, <1>3, <1>4 DEF Calls

LEMMA ReturnsKeep ==
  ASSUME LockInv, Returns
  PROVE  LockInv' /\ DebtsStand
<1>1. FramesOK /\ "depositCollateral" \in Guarded /\ "liquidate" \in Guarded
      /\ "_redeemCollateral" \notin Guarded
  BY DEF LockInv, Guarded
<1>2. CASE depositCollateralReturn
  <2>1. Popped("depositCollateral") /\ _status' = "_NOT_ENTERED"
    BY <1>1, <1>2, ReturnedPops DEF depositCollateralReturn
  <2> QED BY <1>1, <2>1, GuardedReturnKeeps DEF DebtsStand
<1>3. CASE _redeemCollateralReturn
  <2>1. Popped("_redeemCollateral")
    BY <1>1, <1>3, ReturnedPops DEF _redeemCollateralReturn
  <2>2. _status' = _status /\ s_DSCMinted' = s_DSCMinted
    BY <1>3 DEF _redeemCollateralReturn
  <2> QED BY <1>1, <2>1, <2>2, OpenReturnKeeps DEF DebtsStand
<1>4. CASE liquidateReturn
  <2>1. Popped("liquidate") /\ _status' = "_NOT_ENTERED"
    BY <1>1, <1>4, ReturnedPops DEF liquidateReturn
  <2> QED BY <1>1, <2>1, GuardedReturnKeeps DEF DebtsStand
<1> QED BY <1>2, <1>3, <1>4 DEF Returns

LEMMA RevertsKeep ==
  ASSUME LockInv, Reverts
  PROVE  LockInv' /\ DebtsStand
<1> PICK fn : revert(fn)
  BY DEF Reverts
<1>1. Popped(fn)
  BY ReturnedPops DEF LockInv, revert
<1>2. _status' = stack[Len(stack)].saved.status /\ s_DSCMinted' = stack[Len(stack)].saved.minted
  BY DEF revert, Top
<1>3. Len(stack) \in 1..Len(stack)
  BY <1>1 DEF Popped
<1>4. DebtsStand
  BY <1>2, <1>3 DEF LockInv, DebtsOK, DebtsStand
<1> QED BY <1>1, <1>2, <1>4, RevertKeeps

LEMMA WholesKeep ==
  ASSUME LockInv, WholeCalls \/ PricesMove
  PROVE  LockInv' /\ DebtsStand
<1>1. stack' = stack /\ _status' = _status
  BY DEF WholeCalls, PricesMove, Whole
<1>2. nonReentrant \/ HoldTokens \/ HoldCoins \/ FeedsMove
  BY DEF WholeCalls, PricesMove, Whole
<1>3. HoldTokens => s_DSCMinted' = s_DSCMinted
  BY DEF HoldTokens, tokenTransfer, tokenTransferFrom, tokenApprove
<1>4. HoldCoins => s_DSCMinted' = s_DSCMinted
  BY DEF HoldCoins, coinTransfer, coinTransferFrom, coinBurnFrom, coinApprove
<1>5. FeedsMove => s_DSCMinted' = s_DSCMinted
  BY DEF FeedsMove, feedChanges
<1>6. s_DSCMinted' = s_DSCMinted \/ _status # "_ENTERED"
  BY <1>2, <1>3, <1>4, <1>5 DEF nonReentrant
<1> QED BY <1>1, <1>6, WholeKeeps DEF DebtsStand

LEMMA StepLocks == LockInv /\ [StepsNext]_steps => LockInv' /\ DebtsStand
<1> SUFFICES ASSUME LockInv, [StepsNext]_steps PROVE LockInv' /\ DebtsStand
  OBVIOUS
<1>1. CASE UNCHANGED steps
  BY <1>1, WholeKeeps DEF steps, DebtsStand
<1>2. CASE StepsNext
  BY <1>2, CallsKeep, ReturnsKeep, RevertsKeep, WholesKeep DEF StepsNext
<1> QED BY <1>1, <1>2

LEMMA StepsInitLocks == StepsInit => LockInv
<1> SUFFICES ASSUME StepsInit PROVE LockInv
  OBVIOUS
<1>1. stack = <<>> /\ _status = "_NOT_ENTERED"
  BY DEF StepsInit
<1>2. stack \in Seq({}) /\ Len(stack) = 0
  BY <1>1, EmptySeq
<1> QED BY <1>1, <1>2 DEF LockInv, FramesOK, LocksOK, LockFor, GuardedBelow, OneGuarded, DebtsOK

LEMMA LockInvariant == StepsSpec => []LockInv
<1> QED BY StepsInitLocks, StepLocks, PTL DEF StepsSpec

-----------------------------------------------------------------------------
(* However deep the calls are nested and whatever fails inside of what, at *)
(* most one guarded call is open, and the lock is closed just then.        *)
THEOREM LockHolds == StepsSpec => []OneGuardedCall
<1>1. ASSUME LockInv PROVE OneGuardedCall
  <2>1. Len(stack) \in Nat
    BY <1>1, LenProperties DEF LockInv, FramesOK
  <2>2. \A i, j \in GuardedFrames(stack) : i = j
    BY <1>1 DEF LockInv, OneGuarded, GuardedFrames
  <2>3. GuardedBelow(Len(stack) + 1) <=> GuardedFrames(stack) # {}
    BY <2>1 DEF GuardedBelow, GuardedFrames
  <2>4. _status = "_ENTERED" <=> GuardedFrames(stack) # {}
    BY <1>1, <2>3 DEF LockInv, LocksOK, LockFor
  <2> QED BY <2>2, <2>4 DEF OneGuardedCall
<1> QED BY <1>1, LockInvariant, PTL

(* No debt moves while a guarded call waits, not by a revert either. *)
THEOREM DebtsWait == StepsSpec => DebtsStandStill
<1>1. DebtsStand => (_status = "_ENTERED" /\ _status' = "_ENTERED" => UNCHANGED <<s_DSCMinted>>)
  BY DEF DebtsStand
<1> QED BY <1>1, StepLocks, LockInvariant, PTL DEF StepsSpec, DebtsStandStill

-----------------------------------------------------------------------------
(* The deposits are backed in the middle of calls as well.  A revert gives *)
(* back the books of an earlier moment, so every state on the stack has to *)
(* be backed too, counting the deposits pending below it.                  *)

USE AccountsAssumption, MaxUintAssumption DEF UInt

Share(frame, t) ==
  IF frame.fn = "depositCollateral" /\ frame.token = t THEN frame.amount ELSE 0

(* What is pending in the first k frames. *)
PendingBelow(frames, k, t) == Total([i \in 1..k |-> Share(frames[i], t)], 1..k)

DepositFrame(frame) ==
  frame.fn = "depositCollateral" =>
    frame.caller \in Users /\ frame.token \in Tokens /\ frame.amount \in UInt

(* These books are in order when the first k frames are the open calls. *)
Holds(d, c, frames, k) ==
  /\ d \in [Accounts -> [Tokens -> UInt]]
  /\ c \in [Tokens -> Ledger]
  /\ \A t \in Tokens :
       /\ Sound(c[t]) /\ GrantsNothing(c[t])
       /\ DepositsOf(d, t) <= c[t].balances[Engine] + PendingBelow(frames, k, t)

BackedInv ==
  /\ FramesOK /\ FeedsOK
  /\ \A i \in 1..Len(stack) :
       /\ DepositFrame(stack[i])
       /\ Holds(stack[i].saved.deposited, stack[i].saved.collateral, stack, i - 1)
  /\ Holds(s_collateralDeposited, collateral, stack, Len(stack))

LEMMA PendingIsBelow ==
  ASSUME NEW frames, NEW t
  PROVE  Pending(frames, t) = PendingBelow(frames, Len(frames), t)
BY DEF Pending, PendingBelow, Share

LEMMA ShareType ==
  ASSUME NEW frame, DepositFrame(frame), NEW t
  PROVE  Share(frame, t) \in Nat
BY DEF DepositFrame, Share

LEMMA BelowType ==
  ASSUME NEW frames, NEW k \in Nat, \A i \in 1..k : DepositFrame(frames[i]), NEW t
  PROVE  PendingBelow(frames, k, t) \in Nat
<1> DEFINE f == [i \in 1..k |-> Share(frames[i], t)]
<1>1. \A i \in 1..k : f[i] \in Nat
  BY ShareType
<1>2. IsFiniteSet(1..k)
  BY FS_Interval
<1> HIDE DEF f
<1>3. Total(f, 1..k) \in Nat
  BY <1>1, <1>2, TotalType
<1> QED BY <1>3 DEF PendingBelow, f

(* Only the frames below count. *)
LEMMA BelowSame ==
  ASSUME NEW f, NEW g, NEW k \in Nat, \A i \in 1..k : g[i] = f[i], NEW t
  PROVE  PendingBelow(g, k, t) = PendingBelow(f, k, t)
<1>1. \A i \in 1..k : Share(g[i], t) = Share(f[i], t)
  OBVIOUS
<1>2. [i \in 1..k |-> Share(g[i], t)] = [i \in 1..k |-> Share(f[i], t)]
  BY <1>1, Zenon
<1> QED BY <1>2 DEF PendingBelow

LEMMA BelowNext ==
  ASSUME NEW frames, NEW k \in Nat, \A i \in 1..(k + 1) : DepositFrame(frames[i]), NEW t
  PROVE  PendingBelow(frames, k + 1, t) = PendingBelow(frames, k, t) + Share(frames[k + 1], t)
<1> DEFINE f == [i \in 1..k |-> Share(frames[i], t)]
           g == [i \in 1..(k + 1) |-> Share(frames[i], t)]
<1>1. \A i \in 1..(k + 1) : g[i] \in Nat
  BY ShareType
<1>2. IsFiniteSet(1..(k + 1)) /\ k + 1 \in 1..(k + 1)
  BY FS_Interval
<1>3. (1..(k + 1)) \ {k + 1} = 1..k
  OBVIOUS
<1>4. \A i \in 1..k : g[i] = f[i]
  OBVIOUS
<1>5. g[k + 1] = Share(frames[k + 1], t)
  BY <1>2
<1> HIDE DEF f, g
<1>6. Total(g, 1..(k + 1)) = Total(g, (1..(k + 1)) \ {k + 1}) + g[k + 1]
  BY <1>1, <1>2, TotalSplit
<1>7. Total(g, 1..k) = Total(f, 1..k)
  BY <1>4, TotalEqual
<1>8. Total(g, 1..(k + 1)) = Total(f, 1..k) + Share(frames[k + 1], t)
  BY <1>3, <1>5, <1>6, <1>7
<1> QED BY <1>8 DEF PendingBelow, f, g

(* Books in order stay so while the frames below them do. *)
LEMMA HoldsSame ==
  ASSUME NEW d, NEW c, NEW f, NEW g, NEW k \in Nat, \A i \in 1..k : g[i] = f[i],
         Holds(d, c, f, k)
  PROVE  Holds(d, c, g, k)
<1>1. \A t \in Tokens : PendingBelow(g, k, t) = PendingBelow(f, k, t)
  BY BelowSame
<1> QED BY <1>1 DEF Holds

(* What the changes to the books come to, for a token: surplus and pending *)
(* deposits together.                                                      *)
LEMMA HoldsBySurplus ==
  ASSUME CollateralOK, NEW k
  PROVE  Holds(s_collateralDeposited, collateral, stack, k)
           <=> \A t \in Tokens : Deposits(t) <= collateral[t].balances[Engine] + PendingBelow(stack, k, t)
BY DEF Holds, CollateralOK, Deposits, DepositsOf

LEMMA SurplusType ==
  ASSUME CollateralOK, NEW t \in Tokens
  PROVE  Deposits(t) \in Nat /\ collateral[t].balances[Engine] \in Nat
<1>1. DepositsOf(s_collateralDeposited, t) \in Nat
  BY DepositsType DEF CollateralOK
<1> QED BY <1>1, EngineIsAccount DEF CollateralOK, Ledger, Deposits, DepositsOf

LEMMA SurplusTypeNext ==
  ASSUME CollateralOK', NEW t \in Tokens
  PROVE  Deposits(t)' \in Nat /\ collateral'[t].balances[Engine] \in Nat
<1>1. DepositsOf(s_collateralDeposited', t) \in Nat
  BY DepositsType DEF CollateralOK
<1> QED BY <1>1, EngineIsAccount DEF CollateralOK, Ledger, Deposits, DepositsOf

(* A call opens: the state it began with is saved, and what it takes from  *)
(* the surplus it has as its share of what is pending.                     *)
LEMMA OpenKeepsBacked ==
  ASSUME BackedInv, NEW fn, Pushed(fn), FeedsOK', CollateralOK',
         DepositFrame(stack'[Len(stack) + 1]),
         stack'[Len(stack) + 1].saved.deposited = s_collateralDeposited,
         stack'[Len(stack) + 1].saved.collateral = collateral,
         \A t \in Tokens : Surplus(t)' >= Surplus(t) - Share(stack'[Len(stack) + 1], t)
  PROVE  BackedInv'
<1> DEFINE n == Len(stack)
           top == stack'[n + 1]
<1>1. n \in Nat /\ Len(stack') = n + 1 /\ FramesOK' /\ \A i \in 1..n : stack'[i] = stack[i]
  BY DEF Pushed
<1>2. CollateralOK
  BY DEF BackedInv, Holds, CollateralOK
<1>3. \A i \in 1..(n + 1) : DepositFrame(stack'[i])
  BY <1>1 DEF BackedInv
<1>4. ASSUME NEW i \in 1..(n + 1)
      PROVE  Holds(stack'[i].saved.deposited, stack'[i].saved.collateral, stack', i - 1)
  <2>1. i - 1 \in Nat /\ \A j \in 1..(i - 1) : stack'[j] = stack[j]
    BY <1>1
  <2>2. Holds(stack'[i].saved.deposited, stack'[i].saved.collateral, stack, i - 1)
    <3>1. CASE i \in 1..n
      BY <1>1, <3>1 DEF BackedInv
    <3>2. CASE i = n + 1
      BY <1>1, <3>2 DEF BackedInv
    <3> QED BY <1>1, <3>1, <3>2
  <2> HIDE DEF n
  <2> QED BY <2>1, <2>2, HoldsSame
<1>5. ASSUME NEW t \in Tokens
      PROVE  Deposits(t)' <= collateral'[t].balances[Engine] + PendingBelow(stack', n + 1, t)
  <2> DEFINE D  == Deposits(t)
             B  == collateral[t].balances[Engine]
             D1 == Deposits(t)'
             B1 == collateral'[t].balances[Engine]
             P  == PendingBelow(stack, n, t)
             Q  == PendingBelow(stack', n + 1, t)
             S  == Share(top, t)
  <2>1. D <= B + P
    BY <1>2, HoldsBySurplus DEF BackedInv
  <2>2. Q = P + S
    <3>1. PendingBelow(stack', n + 1, t) = PendingBelow(stack', n, t) + S
      BY <1>1, <1>3, BelowNext
    <3>2. PendingBelow(stack', n, t) = P
      BY ONLY <1>1, BelowSame
    <3> QED BY <3>1, <3>2
  <2>3. P \in Nat /\ S \in Nat
    BY <1>1, BelowType, ShareType DEF BackedInv
  <2>4. D \in Nat /\ B \in Nat /\ D1 \in Nat /\ B1 \in Nat
    BY <1>2, SurplusType, SurplusTypeNext
  <2>5. B1 - D1 >= B - D - S
    BY DEF Surplus
  <2> HIDE DEF D, B, D1, B1, P, Q, S
  <2>6. D1 <= B1 + Q
    BY <2>1, <2>2, <2>3, <2>4, <2>5
  <2> QED BY <2>6 DEF D1, B1, Q
<1>6. Holds(s_collateralDeposited, collateral, stack, Len(stack))'
  BY <1>1, <1>5 DEF Holds, CollateralOK, Deposits, DepositsOf
<1> QED BY <1>1, <1>3, <1>4, <1>6 DEF BackedInv

(* A call returns: its share of what is pending has come in. *)
LEMMA ReturnKeepsBacked ==
  ASSUME BackedInv, NEW fn, Popped(fn), FeedsOK', CollateralOK',
         \A t \in Tokens : Surplus(t)' >= Surplus(t) + Share(stack[Len(stack)], t)
  PROVE  BackedInv'
<1> DEFINE n == Len(stack) - 1
           top == stack[n + 1]
<1>1. n \in Nat /\ Len(stack) = n + 1 /\ Len(stack') = n /\ FramesOK'
      /\ \A i \in 1..n : stack'[i] = stack[i]
  BY DEF Popped
<1>2. CollateralOK
  BY DEF BackedInv, Holds, CollateralOK
<1>3. \A i \in 1..(n + 1) : DepositFrame(stack[i])
  BY <1>1 DEF BackedInv
<1>4. ASSUME NEW i \in 1..n
      PROVE  /\ DepositFrame(stack'[i])
             /\ Holds(stack'[i].saved.deposited, stack'[i].saved.collateral, stack', i - 1)
  <2>1. i - 1 \in Nat /\ \A j \in 1..(i - 1) : stack'[j] = stack[j]
    BY <1>1
  <2>2. Holds(stack'[i].saved.deposited, stack'[i].saved.collateral, stack, i - 1)
    BY <1>1 DEF BackedInv
  <2>3. DepositFrame(stack'[i])
    BY <1>1, <1>3
  <2> HIDE DEF n
  <2> QED BY <2>1, <2>2, <2>3, HoldsSame
<1>5. ASSUME NEW t \in Tokens
      PROVE  Deposits(t)' <= collateral'[t].balances[Engine] + PendingBelow(stack', n, t)
  <2> DEFINE D  == Deposits(t)
             B  == collateral[t].balances[Engine]
             D1 == Deposits(t)'
             B1 == collateral'[t].balances[Engine]
             P  == PendingBelow(stack, n + 1, t)
             Q  == PendingBelow(stack', n, t)
             S  == Share(top, t)
  <2>1. D <= B + P
    BY <1>1, <1>2, HoldsBySurplus DEF BackedInv
  <2>2. P = Q + S
    <3>1. P = PendingBelow(stack, n, t) + S
      BY <1>1, <1>3, BelowNext
    <3>2. Q = PendingBelow(stack, n, t)
      BY <1>1, BelowSame
    <3> QED BY <3>1, <3>2
  <2>3. Q \in Nat /\ S \in Nat
    <3>1. S \in Nat
      BY <1>1, <1>3, ShareType
    <3>2. \A i \in 1..n : DepositFrame(stack'[i])
      BY <1>4
    <3> HIDE DEF n
    <3>3. Q \in Nat
      BY <1>1, <3>2, BelowType
    <3> QED BY <3>1, <3>3
  <2>4. D \in Nat /\ B \in Nat /\ D1 \in Nat /\ B1 \in Nat
    BY <1>2, SurplusType, SurplusTypeNext
  <2>5. B1 - D1 >= B - D + S
    BY <1>1 DEF Surplus
  <2> HIDE DEF D, B, D1, B1, P, Q, S
  <2>6. D1 <= B1 + Q
    BY <2>1, <2>2, <2>3, <2>4, <2>5
  <2> QED BY <2>6 DEF D1, B1, Q
<1>6. Holds(s_collateralDeposited, collateral, stack, Len(stack))'
  BY <1>1, <1>5 DEF Holds, CollateralOK, Deposits, DepositsOf
<1> QED BY <1>1, <1>4, <1>6 DEF BackedInv

(* A call reverts: the books saved with it were in order for the calls     *)
(* below it.                                                               *)
LEMMA RevertKeepsBacked ==
  ASSUME BackedInv, NEW fn, Popped(fn), FeedsOK',
         s_collateralDeposited' = stack[Len(stack)].saved.deposited,
         collateral' = stack[Len(stack)].saved.collateral
  PROVE  BackedInv'
<1> DEFINE n == Len(stack) - 1
<1>1. n \in Nat /\ Len(stack) = n + 1 /\ Len(stack') = n /\ FramesOK'
      /\ \A i \in 1..n : stack'[i] = stack[i]
  BY DEF Popped
<1>2. Holds(s_collateralDeposited', collateral', stack, n)
  BY <1>1 DEF BackedInv
<1>3. Holds(s_collateralDeposited', collateral', stack', n)
  <2> HIDE DEF n
  <2> QED BY <1>1, <1>2, HoldsSame
<1>4. ASSUME NEW i \in 1..n
      PROVE  /\ DepositFrame(stack'[i])
             /\ Holds(stack'[i].saved.deposited, stack'[i].saved.collateral, stack', i - 1)
  <2>1. i - 1 \in Nat /\ \A j \in 1..(i - 1) : stack'[j] = stack[j]
    BY <1>1
  <2>2. /\ DepositFrame(stack'[i])
        /\ Holds(stack'[i].saved.deposited, stack'[i].saved.collateral, stack, i - 1)
    BY <1>1 DEF BackedInv
  <2> HIDE DEF n
  <2> QED BY <2>1, <2>2, HoldsSame
<1> QED BY <1>1, <1>3, <1>4 DEF BackedInv

(* A whole call never lowers a surplus. *)
LEMMA WholeKeepsBacked ==
  ASSUME BackedInv, stack' = stack, FeedsOK', CollateralKept
  PROVE  BackedInv'
<1>1. CollateralOK /\ CollateralOK'
  BY DEF BackedInv, Holds, CollateralOK, CollateralKept
<1>2. Len(stack) \in Nat
  BY LenProperties DEF BackedInv, FramesOK
<1>3. ASSUME NEW t \in Tokens
      PROVE  Deposits(t)' <= collateral'[t].balances[Engine] + PendingBelow(stack, Len(stack), t)
  <2> DEFINE D  == Deposits(t)
             B  == collateral[t].balances[Engine]
             D1 == Deposits(t)'
             B1 == collateral'[t].balances[Engine]
             P  == PendingBelow(stack, Len(stack), t)
  <2>1. D <= B + P
    BY <1>1, HoldsBySurplus DEF BackedInv
  <2>2. B1 - D1 >= B - D
    BY DEF CollateralKept, Surplus
  <2>3. D \in Nat /\ B \in Nat /\ D1 \in Nat /\ B1 \in Nat
    BY <1>1, SurplusType, SurplusTypeNext
  <2>4. P \in Nat
    BY <1>2, BelowType DEF BackedInv
  <2> HIDE DEF D, B, D1, B1, P
  <2>5. D1 <= B1 + P
    BY <2>1, <2>2, <2>3, <2>4
  <2> QED BY <2>5 DEF D1, B1, P
<1>4. Holds(s_collateralDeposited, collateral, stack, Len(stack))'
  BY <1>1, <1>3 DEF Holds, CollateralOK, Deposits, DepositsOf
<1> QED BY <1>4 DEF BackedInv, FramesOK

-----------------------------------------------------------------------------
(* The halves of a deposit: first the books and the allowance, then the    *)
(* tokens.                                                                 *)

(* Spending an allowance on the engine's own leaves the engine's alone.    *)
LEMMA UserSpends ==
  ASSUME NEW l, Sound(l), GrantsNothing(l), NEW u \in Users, NEW n \in UInt,
         CanSpend(l, u, Engine, n)
  PROVE  /\ Sound(Spend(l, u, Engine, n)) /\ GrantsNothing(Spend(l, u, Engine, n))
         /\ Spend(l, u, Engine, n).balances = l.balances
<1> DEFINE m == Spend(l, u, Engine, n)
<1>1. u \in Accounts /\ u # Engine /\ Engine \in Accounts
  BY EngineAssumption DEF Users
<1>2. Sound(m) /\ m.balances = l.balances
  BY <1>1, SpendSound
<1>3. m.allowances[Engine] = l.allowances[Engine]
  BY <1>1 DEF Spend, Approve, Sound, Ledger
<1> HIDE DEF m
<1>4. GrantsNothing(m)
  BY <1>3 DEF GrantsNothing
<1> QED BY <1>2, <1>4 DEF m

(* A user's transfer to the engine arrives. *)
LEMMA UserPays ==
  ASSUME NEW l, Sound(l), GrantsNothing(l), NEW u \in Users, NEW n \in UInt,
         CanTransfer(l, u, Engine, n)
  PROVE  /\ Sound(Transfer(l, u, Engine, n)) /\ GrantsNothing(Transfer(l, u, Engine, n))
         /\ Transfer(l, u, Engine, n).balances[Engine] = l.balances[Engine] + n
<1> DEFINE m == Transfer(l, u, Engine, n)
<1>1. u \in Accounts /\ u # Engine /\ Engine \in Accounts
  BY EngineAssumption DEF Users
<1>2. Sound(m) /\ m.allowances = l.allowances
  BY <1>1, TransferSound
<1>3. m.balances[Engine] = l.balances[Engine] + n
  BY <1>1, TransferBalances
<1> HIDE DEF m
<1>4. GrantsNothing(m)
  BY <1>2 DEF GrantsNothing
<1> QED BY <1>2, <1>3, <1>4 DEF m

LEMMA OneTokenArrives ==
  ASSUME CollateralOK, NEW t \in Tokens, NEW m, Sound(m), GrantsNothing(m), NEW n \in Nat,
         m.balances[Engine] = collateral[t].balances[Engine] + n,
         UNCHANGED s_collateralDeposited, collateral' = [collateral EXCEPT ![t] = m]
  PROVE  /\ CollateralOK'
         /\ \A s \in Tokens \ {t} : Surplus(s)' = Surplus(s)
         /\ Surplus(t)' = Surplus(t) + n
<1>1. m \in Ledger
  BY DEF Sound
<1>2. /\ collateral' \in [Tokens -> Ledger] /\ collateral'[t] = m
      /\ \A s \in Tokens \ {t} : collateral'[s] = collateral[s]
  BY <1>1 DEF CollateralOK
<1>3. CollateralOK'
  BY <1>2 DEF CollateralOK
<1>4. \A s \in Tokens : Deposits(s)' = Deposits(s)
  BY DEF Deposits
<1>5. \A s \in Tokens \ {t} : Surplus(s)' = Surplus(s)
  BY <1>2, <1>4 DEF Surplus
<1>6. Surplus(t)' = Surplus(t) + n
  <2> DEFINE D == Deposits(t)
             B == collateral[t].balances[Engine]
  <2>1. D \in Nat /\ B \in Nat
    BY SurplusType
  <2>2. Surplus(t) = B - D /\ Surplus(t)' = collateral'[t].balances[Engine] - Deposits(t)'
    BY DEF Surplus
  <2>3. collateral'[t].balances[Engine] = B + n /\ Deposits(t)' = D
    BY <1>2, <1>4
  <2> HIDE DEF D, B
  <2> QED BY <2>1, <2>2, <2>3
<1> QED BY <1>3, <1>5, <1>6

-----------------------------------------------------------------------------
(* Every step keeps the deposits backed. *)

LEMMA BackedTypes ==
  ASSUME BackedInv
  PROVE  FramesOK /\ FeedsOK /\ CollateralOK
BY DEF BackedInv, Holds, CollateralOK

LEMMA DepositCallBacked ==
  ASSUME BackedInv, NEW u \in Users, NEW t \in Tokens, NEW n \in UInt, NEW m,
         depositCollateralCall(u, t, n, m)
  PROVE  BackedInv'
<1> DEFINE l   == collateral[t]
           d   == s_collateralDeposited[u][t]
           top == stack'[Len(stack) + 1]
<1>1. /\ Pushed("depositCollateral")
      /\ top.fn = "depositCollateral" /\ top.caller = u /\ top.token = t /\ top.amount = n
      /\ top.saved.deposited = s_collateralDeposited /\ top.saved.collateral = collateral
  <2>1. FramesOK /\ Called("depositCollateral", u, t, n, m, u, 0)
    BY BackedTypes DEF depositCollateralCall
  <2>2. /\ Pushed("depositCollateral")
        /\ top = [fn |-> "depositCollateral", caller |-> u, token |-> t, amount |-> n,
                  debt |-> m, user |-> u, health |-> 0, saved |-> Now]
    BY <2>1, CalledPushes
  <2> QED BY <2>2 DEF Now
<1>2. /\ d \in Nat /\ n \in Nat /\ d + n \in UInt /\ u \in Accounts
      /\ Sound(l) /\ GrantsNothing(l) /\ l.balances[Engine] \in Nat
  BY BackedTypes, EngineIsAccount DEF CollateralOK, Users, depositCollateralCall, Ledger
<1>3. /\ Sound(Spend(l, u, Engine, n)) /\ GrantsNothing(Spend(l, u, Engine, n))
      /\ Spend(l, u, Engine, n).balances = l.balances
  <2>1. CanSpend(l, u, Engine, n)
    BY DEF depositCollateralCall
  <2> HIDE DEF l
  <2> QED BY <1>2, <2>1, UserSpends
<1>4. /\ s_collateralDeposited' = Updated(s_collateralDeposited, u, t, d + n)
      /\ collateral' = [collateral EXCEPT ![t] = Spend(l, u, Engine, n)]
      /\ feed' = feed
  BY <1>2, BackedTypes DEF CollateralOK, depositCollateralCall, Deposited, Updated
<1>5. /\ CollateralOK'
      /\ \A s \in Tokens \ {t} : Surplus(s)' = Surplus(s)
      /\ Surplus(t)' = Spend(l, u, Engine, n).balances[Engine] - (Deposits(t) - d + (d + n))
  <2>1. Moves(u, t, d + n, Spend(l, u, Engine, n))
    BY <1>2, <1>3, <1>4 DEF Moves
  <2> HIDE DEF l, d
  <2> QED BY <2>1, BackedTypes, OneTokenMoves DEF d
<1>6. \A s \in Tokens : Deposits(s) \in Nat /\ collateral[s].balances[Engine] \in Nat
  BY BackedTypes, SurplusType
<1>7. ASSUME NEW s \in Tokens
      PROVE  Surplus(s)' >= Surplus(s) - Share(top, s)
  <2>1. CASE s = t
    <3>1. Share(top, s) = n
      BY <1>1, <2>1 DEF Share
    <3>2. Surplus(s)' = Surplus(s) - n
      BY <1>2, <1>3, <1>5, <1>6, <2>1 DEF Surplus
    <3>3. Surplus(s) \in Int
      BY <1>6 DEF Surplus
    <3> QED BY <1>2, <3>1, <3>2, <3>3
  <2>2. CASE s # t
    <3>1. Share(top, s) = 0
      BY <1>1, <2>2 DEF Share
    <3>2. Surplus(s) \in Int
      BY <1>6 DEF Surplus
    <3> QED BY <1>5, <2>2, <3>1, <3>2
  <2> QED BY <2>1, <2>2
<1>8. FeedsOK' /\ DepositFrame(top)
  BY <1>1, <1>4, BackedTypes DEF FeedsOK, DepositFrame
<1> QED BY <1>1, <1>5, <1>7, <1>8, OpenKeepsBacked

LEMMA DepositReturnBacked ==
  ASSUME BackedInv, depositCollateralReturn
  PROVE  BackedInv'
<1> DEFINE top == stack[Len(stack)]
<1>1. Popped("depositCollateral") /\ top.fn = "depositCollateral" /\ Len(stack) \in 1..Len(stack)
  BY BackedTypes, ReturnedPops DEF depositCollateralReturn, Popped
<1>2. PICK u \in Users, t \in Tokens, n \in UInt : u = top.caller /\ t = top.token /\ n = top.amount
  BY <1>1 DEF BackedInv, DepositFrame
<1> DEFINE m == Transfer(collateral[t], u, Engine, n)
<1>3. /\ CanTransfer(collateral[t], u, Engine, n)
      /\ collateral' = [collateral EXCEPT ![t] = m]
      /\ s_collateralDeposited' = s_collateralDeposited /\ feed' = feed
  BY <1>2 DEF depositCollateralReturn, Top
<1>4. \A s \in Tokens : Share(top, s) = IF s = t THEN n ELSE 0
  BY <1>1, <1>2 DEF Share
<1>5. /\ Sound(m) /\ GrantsNothing(m)
      /\ m.balances[Engine] = collateral[t].balances[Engine] + n
  BY <1>3, BackedTypes, UserPays DEF CollateralOK
<1> HIDE DEF m
<1>6. /\ CollateralOK'
      /\ \A s \in Tokens \ {t} : Surplus(s)' = Surplus(s)
      /\ Surplus(t)' = Surplus(t) + n
  <2>1. CollateralOK /\ n \in Nat
    BY BackedTypes
  <2>2. collateral' = [collateral EXCEPT ![t] = m] /\ UNCHANGED s_collateralDeposited
    BY <1>3 DEF m
  <2> QED BY <1>5, <2>1, <2>2, OneTokenArrives
<1>7. \A s \in Tokens : Surplus(s) \in Int
  BY BackedTypes, SurplusType DEF Surplus
<1>8. ASSUME NEW s \in Tokens
      PROVE  Surplus(s)' >= Surplus(s) + Share(top, s)
  <2>1. CASE s = t
    BY <1>4, <1>6, <1>7, <2>1
  <2>2. CASE s # t
    BY <1>4, <1>6, <1>7, <2>2
  <2> QED BY <2>1, <2>2
<1>9. FeedsOK'
  BY <1>3, BackedTypes DEF FeedsOK
<1> QED BY <1>1, <1>6, <1>8, <1>9, ReturnKeepsBacked

(* A call that withdraws, whichever it is. *)
LEMMA RedeemCallBacked ==
  ASSUME BackedInv, NEW fn, fn # "depositCollateral", NEW t \in Tokens, NEW n \in UInt,
         NEW from \in Accounts, NEW to \in Address, NEW debt, NEW health,
         CanRedeem(t, n, from, to), Redeem(t, n, from, to),
         Called(fn, to, t, n, debt, from, health), feed' = feed
  PROVE  BackedInv'
<1> DEFINE top == stack'[Len(stack) + 1]
<1>1. /\ Pushed(fn) /\ top.fn = fn
      /\ top.saved.deposited = s_collateralDeposited /\ top.saved.collateral = collateral
  <2>1. /\ Pushed(fn)
        /\ top = [fn |-> fn, caller |-> to, token |-> t, amount |-> n,
                  debt |-> debt, user |-> from, health |-> health, saved |-> Now]
    BY BackedTypes, CalledPushes
  <2> QED BY <2>1 DEF Now
<1>2. CollateralKept
  BY BackedTypes, RedeemKeeps
<1>3. CollateralOK' /\ FeedsOK'
  BY <1>2, BackedTypes DEF CollateralKept, CollateralOK, FeedsOK
<1>4. DepositFrame(top) /\ \A s \in Tokens : Share(top, s) = 0
  BY <1>1 DEF DepositFrame, Share
<1>5. \A s \in Tokens : Surplus(s) \in Int
  BY BackedTypes, SurplusType DEF Surplus
<1>6. \A s \in Tokens : Surplus(s)' >= Surplus(s) - Share(top, s)
  BY <1>2, <1>4, <1>5 DEF CollateralKept
<1> QED BY <1>1, <1>3, <1>4, <1>6, OpenKeepsBacked

(* The return of a call that has withdrawn. *)
LEMMA OtherReturnBacked ==
  ASSUME BackedInv, NEW fn, fn # "depositCollateral", Returned(fn),
         UNCHANGED <<s_collateralDeposited, collateral, feed>>
  PROVE  BackedInv'
<1>1. Popped(fn) /\ stack[Len(stack)].fn = fn
  BY BackedTypes, ReturnedPops DEF Popped
<1>2. CollateralOK' /\ FeedsOK'
  BY BackedTypes DEF CollateralOK, FeedsOK
<1>3. \A s \in Tokens : Surplus(s) \in Int /\ Surplus(s)' = Surplus(s)
  BY BackedTypes, SurplusType DEF Surplus, Deposits
<1>4. \A s \in Tokens : Share(stack[Len(stack)], s) = 0
  BY <1>1 DEF Share
<1>5. \A s \in Tokens : Surplus(s)' >= Surplus(s) + Share(stack[Len(stack)], s)
  BY <1>3, <1>4
<1> QED BY <1>1, <1>2, <1>5, ReturnKeepsBacked

LEMMA CallsBacked ==
  ASSUME BackedInv, Calls
  PROVE  BackedInv'
<1> PICK t \in Tokens :
      \/ \E m : \E u \in Users, n \in DepositAmounts : depositCollateralCall(u, t, n, m)
      \/ \E n \in DepositAmounts, from \in Accounts, to \in Address :
           _redeemCollateralCall(t, n, from, to)
      \/ \E u \in Users, user \in Accounts, m \in DebtAmounts : liquidateCall(u, t, user, m)
  BY DEF Calls
<1>1. CASE \E m : \E u \in Users, n \in DepositAmounts : depositCollateralCall(u, t, n, m)
  <2> PICK m : \E u \in Users, n \in DepositAmounts : depositCollateralCall(u, t, n, m)
    BY <1>1
  <2> PICK u \in Users, n \in DepositAmounts : depositCollateralCall(u, t, n, m)
    OBVIOUS
  <2>1. n \in UInt
    BY InputsAssumption
  <2> QED BY <2>1, DepositCallBacked
<1>2. CASE \E n \in DepositAmounts, from \in Accounts, to \in Address :
             _redeemCollateralCall(t, n, from, to)
  <2> PICK n \in DepositAmounts, from \in Accounts, to \in Address :
             _redeemCollateralCall(t, n, from, to)
    BY <1>2
  <2>1. n \in UInt
    BY InputsAssumption
  <2>2. /\ CanRedeem(t, n, from, to) /\ Redeem(t, n, from, to)
        /\ Called("_redeemCollateral", to, t, n, 0, from, 0) /\ feed' = feed
    BY DEF _redeemCollateralCall
  <2> QED BY <2>1, <2>2, RedeemCallBacked
<1>3. CASE \E u \in Users, user \in Accounts, m \in DebtAmounts : liquidateCall(u, t, user, m)
  <2> PICK u \in Users, user \in Accounts, m \in DebtAmounts : liquidateCall(u, t, user, m)
    BY <1>3
  <2> DEFINE seized == Seized(Price(t), m)
             health == Health(s_collateralDeposited[user], s_DSCMinted[user])
  <2>1. m \in UInt /\ u \in Address
    BY InputsAssumption DEF Users, Address
  <2>2. /\ Priced(t) /\ SeizedFits(Price(t), m)
        /\ CanRedeem(t, seized, user, u) /\ Redeem(t, seized, user, u)
        /\ Called("liquidate", u, t, seized, m, user, health) /\ feed' = feed
    BY DEF liquidateCall
  <2>3. seized \in UInt
    BY <2>1, <2>2, BackedTypes, PriceType, SeizedType
  <2> HIDE DEF seized, health
  <2> QED BY <2>1, <2>2, <2>3, RedeemCallBacked
<1> QED BY <1>1, <1>2, <1>3

LEMMA ReturnsBacked ==
  ASSUME BackedInv, Returns
  PROVE  BackedInv'
<1>1. CASE depositCollateralReturn
  BY <1>1, DepositReturnBacked
<1>2. CASE _redeemCollateralReturn
  BY <1>2, OtherReturnBacked DEF _redeemCollateralReturn
<1>3. CASE liquidateReturn
  BY <1>3, OtherReturnBacked DEF liquidateReturn
<1> QED BY <1>1, <1>2, <1>3 DEF Returns

LEMMA RevertsBacked ==
  ASSUME BackedInv, Reverts
  PROVE  BackedInv'
<1> PICK fn : revert(fn)
  BY DEF Reverts
<1>1. Popped(fn)
  BY BackedTypes, ReturnedPops DEF revert
<1>2. /\ s_collateralDeposited' = stack[Len(stack)].saved.deposited
      /\ collateral' = stack[Len(stack)].saved.collateral
      /\ feed' = feed
  BY DEF revert, Top
<1>3. FeedsOK'
  BY <1>2, BackedTypes DEF FeedsOK
<1> QED BY <1>1, <1>2, <1>3, RevertKeepsBacked

LEMMA WholesBacked ==
  ASSUME BackedInv, WholeCalls \/ PricesMove \/ UNCHANGED steps
  PROVE  BackedInv'
<1>1. stack' = stack
  BY DEF WholeCalls, PricesMove, Whole, steps
<1>2. CollateralKept /\ FeedsOK'
  <2>1. CASE HoldTokens
    <3>1. feed' = feed
      BY <2>1 DEF HoldTokens, tokenTransfer, tokenTransferFrom, tokenApprove
    <3> QED BY <2>1, <3>1, BackedTypes, HoldTokensKeepsCollateral DEF FeedsOK
  <2>2. CASE HoldCoins
    <3>1. UNCHANGED <<s_collateralDeposited, collateral, feed>>
      BY <2>2 DEF HoldCoins, coinTransfer, coinTransferFrom, coinBurnFrom, coinApprove
    <3> QED BY <3>1, BackedTypes, CollateralIdle DEF FeedsOK
  <2>3. CASE (\E u, m : mintDSC(u, m) \/ burnDSC(u, m)) \/ UNCHANGED steps
    <3>1. UNCHANGED <<s_collateralDeposited, collateral, feed>>
      BY <2>3 DEF mintDSC, burnDSC, steps
    <3> QED BY <3>1, BackedTypes, CollateralIdle DEF FeedsOK
  <2>4. CASE FeedsMove
    <3>1. UNCHANGED <<s_collateralDeposited, collateral>>
      BY <2>4 DEF FeedsMove, feedChanges
    <3>2. FeedsOK'
      BY <2>4, BackedTypes DEF FeedsMove, feedChanges, FeedsOK
    <3> QED BY <3>1, <3>2, BackedTypes, CollateralIdle
  <2> QED BY <2>1, <2>2, <2>3, <2>4 DEF WholeCalls, PricesMove, Whole
<1> QED BY <1>1, <1>2, WholeKeepsBacked

LEMMA StepsInitBacked == StepsInit => BackedInv
<1> SUFFICES ASSUME StepsInit PROVE BackedInv
  OBVIOUS
<1>1. IInv /\ stack = <<>>
  BY InitIInv DEF StepsInit
<1>2. stack \in Seq({}) /\ Len(stack) = 0
  BY <1>1, EmptySeq
<1>3. CollateralOK /\ FeedsOK /\ Solvency
  BY <1>1 DEF IInv
<1>4. \A t \in Tokens : Deposits(t) <= collateral[t].balances[Engine] + PendingBelow(stack, 0, t)
  <2> SUFFICES ASSUME NEW t \in Tokens
               PROVE  Deposits(t) <= collateral[t].balances[Engine] + PendingBelow(stack, 0, t)
    OBVIOUS
  <2> DEFINE D == Deposits(t)
             B == collateral[t].balances[Engine]
             P == PendingBelow(stack, 0, t)
  <2>1. P \in Nat
    BY BelowType
  <2>2. D \in Nat /\ B \in Nat /\ D <= B
    BY <1>3, SurplusType DEF Solvency
  <2> HIDE DEF D, B, P
  <2>3. D <= B + P
    BY <2>1, <2>2
  <2> QED BY <2>3 DEF D, B, P
<1>5. Holds(s_collateralDeposited, collateral, stack, 0)
  BY <1>3, <1>4, HoldsBySurplus
<1> QED BY <1>2, <1>3, <1>5 DEF BackedInv, FramesOK

(* Callbacks and reverts cannot unback the deposits: in the middle of      *)
(* calls of any depth the engine holds what its books say, save for the    *)
(* deposits it is about to be paid.                                        *)
THEOREM AlwaysBacked == StepsSpec => []Backed
<1>1. BackedInv /\ [StepsNext]_steps => BackedInv'
  BY CallsBacked, ReturnsBacked, RevertsBacked, WholesBacked DEF StepsNext
<1>2. BackedInv => Backed
  <2> SUFFICES ASSUME BackedInv PROVE Backed
    OBVIOUS
  <2>1. \A t \in Tokens :
          Deposits(t) <= collateral[t].balances[Engine] + PendingBelow(stack, Len(stack), t)
    BY BackedTypes, HoldsBySurplus DEF BackedInv
  <2> QED BY <2>1, PendingIsBelow DEF Backed
<1> QED BY <1>1, <1>2, StepsInitBacked, PTL DEF StepsSpec

-----------------------------------------------------------------------------
(* Types.  Everything a call writes is of its type because of the checks   *)
(* it makes, and because what is unchecked wraps; so is what is saved.     *)

LEMMA InputTypes ==
  /\ DepositAmounts \subseteq UInt /\ DebtAmounts \subseteq UInt
  /\ Users \subseteq Accounts /\ Engine \in Accounts
  /\ \A u \in Users : u # Engine
BY InputsAssumption, EngineAssumption DEF Users

LEMMA DepositsTyped ==
  ASSUME TypeOK, NEW u \in Accounts, NEW t \in Tokens, NEW k \in UInt
  PROVE  [s_collateralDeposited EXCEPT ![u][t] = k] \in [Accounts -> [Tokens -> UInt]]
BY DEF TypeOK

(* Burning for a debtor with the coins of another. *)
LEMMA BurnDscTyped ==
  ASSUME TypeOK, NEW n \in UInt, NEW onBehalfOf \in Accounts, NEW dscFrom \in Accounts,
         CanBurnDsc(n, onBehalfOf, dscFrom), BurnDsc(n, onBehalfOf, dscFrom)
  PROVE  s_DSCMinted' \in [Accounts -> UInt] /\ dsc' \in Ledger
<1>1. Taken(dscFrom, n) \in Ledger
  BY EngineIsAccount, TransferFromType DEF TypeOK, CanBurnDsc, Taken
<1>2. dsc' \in Ledger
  BY <1>1, EngineIsAccount, BurnType DEF BurnDsc
<1>3. s_DSCMinted' \in [Accounts -> UInt]
  BY DEF TypeOK, CanBurnDsc, BurnDsc
<1> QED BY <1>2, <1>3

(* The calls that open and close in a step. *)
LEMMA WholesTyped ==
  ASSUME TypeOK,
         \/ \E u \in Users, m \in DebtAmounts : mintDSC(u, m) \/ burnDSC(u, m)
         \/ HoldTokens \/ HoldCoins \/ FeedsMove
  PROVE  TypeOK'
<1>1. CASE \E u \in Users, m \in DebtAmounts : mintDSC(u, m)
  <2> PICK u \in Users, m \in DebtAmounts : mintDSC(u, m)
    BY <1>1
  <2>1. u \in Accounts /\ m \in UInt
    BY InputTypes
  <2>2. /\ CanMint(dsc, u, m) /\ s_DSCMinted[u] + m <= MaxUint
        /\ s_DSCMinted' = [s_DSCMinted EXCEPT ![u] = @ + m] /\ dsc' = Mint(dsc, u, m)
        /\ UNCHANGED <<s_collateralDeposited, collateral, feed>>
    BY DEF mintDSC, CanMintDSC
  <2>3. dsc' \in Ledger
    BY <2>1, <2>2, MintType DEF TypeOK
  <2>4. s_DSCMinted' \in [Accounts -> UInt]
    BY <2>1, <2>2 DEF TypeOK
  <2> QED BY <2>2, <2>3, <2>4 DEF TypeOK
<1>2. CASE \E u \in Users, m \in DebtAmounts : burnDSC(u, m)
  <2> PICK u \in Users, m \in DebtAmounts : burnDSC(u, m)
    BY <1>2
  <2>1. u \in Accounts /\ m \in UInt
    BY InputTypes
  <2>2. UNCHANGED <<s_collateralDeposited, collateral, feed>> /\ CanBurnDsc(m, u, u) /\ BurnDsc(m, u, u)
    BY DEF burnDSC
  <2> QED BY <2>1, <2>2, BurnDscTyped DEF TypeOK
<1>3. CASE HoldTokens
  <2> PICK u \in Users, t \in Tokens :
        \/ \E to \in Address, n \in TokenTransfers :
             \/ tokenTransfer(u, t, to, n)
             \/ \E from \in Accounts : tokenTransferFrom(u, t, from, to, n)
        \/ \E spender \in TokenSpenders, n \in Approvals : tokenApprove(u, t, spender, n)
    BY <1>3 DEF HoldTokens
  <2>1. u \in Accounts /\ collateral[t] \in Ledger
    BY InputTypes DEF TypeOK
  <2>2. /\ UNCHANGED <<s_collateralDeposited, s_DSCMinted, dsc, feed>>
        /\ \E l \in Ledger : collateral' = [collateral EXCEPT ![t] = l]
    <3>1. CASE \E to \in Address, n \in TokenTransfers : tokenTransfer(u, t, to, n)
      <4> PICK to \in Address, n \in TokenTransfers : tokenTransfer(u, t, to, n)
        BY <3>1
      <4>1. to \in Accounts /\ n \in UInt
        BY InputsAssumption DEF tokenTransfer, CanTransfer, Address
      <4> QED BY <2>1, <4>1, TransferType DEF tokenTransfer
    <3>2. CASE \E to \in Address, n \in TokenTransfers, from \in Accounts :
                 tokenTransferFrom(u, t, from, to, n)
      <4> PICK to \in Address, n \in TokenTransfers, from \in Accounts :
                 tokenTransferFrom(u, t, from, to, n)
        BY <3>2
      <4>1. to \in Accounts /\ n \in UInt
        BY InputsAssumption DEF tokenTransferFrom, CanTransferFrom, CanTransfer, Address
      <4> QED BY <2>1, <4>1, TransferFromType DEF tokenTransferFrom
    <3>3. CASE \E spender \in TokenSpenders, n \in Approvals : tokenApprove(u, t, spender, n)
      <4> PICK spender \in TokenSpenders, n \in Approvals : tokenApprove(u, t, spender, n)
        BY <3>3
      <4>1. spender \in Accounts /\ n \in UInt
        BY InputsAssumption
      <4> QED BY <2>1, <4>1, ApproveType DEF tokenApprove
    <3> QED BY <3>1, <3>2, <3>3
  <2> QED BY <2>2 DEF TypeOK
<1>4. CASE HoldCoins
  <2> PICK u \in Users :
        \/ \E to \in Address, n \in CoinTransfers :
             \/ coinTransfer(u, to, n)
             \/ \E from \in Accounts : coinTransferFrom(u, from, to, n)
        \/ \E from \in Accounts, n \in CoinTransfers : coinBurnFrom(u, from, n)
        \/ \E spender \in CoinSpenders, n \in Approvals : coinApprove(u, spender, n)
    BY <1>4 DEF HoldCoins
  <2>1. u \in Accounts /\ dsc \in Ledger
    BY InputTypes DEF TypeOK
  <2>2. UNCHANGED <<s_collateralDeposited, s_DSCMinted, collateral, feed>> /\ dsc' \in Ledger
    <3>1. CASE \E to \in Address, n \in CoinTransfers : coinTransfer(u, to, n)
      <4> PICK to \in Address, n \in CoinTransfers : coinTransfer(u, to, n)
        BY <3>1
      <4>1. to \in Accounts /\ n \in UInt
        BY InputsAssumption DEF coinTransfer, CanTransfer, Address
      <4> QED BY <2>1, <4>1, TransferType DEF coinTransfer
    <3>2. CASE \E to \in Address, n \in CoinTransfers, from \in Accounts :
                 coinTransferFrom(u, from, to, n)
      <4> PICK to \in Address, n \in CoinTransfers, from \in Accounts :
                 coinTransferFrom(u, from, to, n)
        BY <3>2
      <4>1. to \in Accounts /\ n \in UInt
        BY InputsAssumption DEF coinTransferFrom, CanTransferFrom, CanTransfer, Address
      <4> QED BY <2>1, <4>1, TransferFromType DEF coinTransferFrom
    <3>3. CASE \E from \in Accounts, n \in CoinTransfers : coinBurnFrom(u, from, n)
      <4> PICK from \in Accounts, n \in CoinTransfers : coinBurnFrom(u, from, n)
        BY <3>3
      <4>1. n \in UInt
        BY InputsAssumption
      <4> QED BY <2>1, <4>1, BurnFromType DEF coinBurnFrom
    <3>4. CASE \E spender \in CoinSpenders, n \in Approvals : coinApprove(u, spender, n)
      <4> PICK spender \in CoinSpenders, n \in Approvals : coinApprove(u, spender, n)
        BY <3>4
      <4>1. spender \in Accounts /\ n \in UInt
        BY InputsAssumption
      <4> QED BY <2>1, <4>1, ApproveType DEF coinApprove
    <3> QED BY <3>1, <3>2, <3>3, <3>4
  <2> QED BY <2>2 DEF TypeOK
<1>5. CASE FeedsMove
  BY <1>5 DEF FeedsMove, feedChanges, TypeOK
<1> QED BY <1>1, <1>2, <1>3, <1>4, <1>5

LEMMA CallTyped ==
  ASSUME StepsTypeOK, TypeOK', _status' \in Statuses,
         NEW fn \in Guarded \cup {"_redeemCollateral"}, NEW caller \in Accounts, NEW t \in Tokens,
         NEW n \in UInt, NEW debt \in UInt, NEW user \in Accounts, NEW health \in UInt,
         Called(fn, caller, t, n, debt, user, health)
  PROVE  StepsTypeOK'
<1> DEFINE frame == [fn |-> fn, caller |-> caller, token |-> t, amount |-> n,
                     debt |-> debt, user |-> user, health |-> health, saved |-> Now]
<1>1. Now \in Snapshot
  BY DEF StepsTypeOK, TypeOK, Now, Snapshot
<1>2. frame \in Frame
  BY <1>1 DEF Frame
<1>3. Len(stack) < MaxFrames /\ stack' = Append(stack, frame) /\ reentered' \in BOOLEAN
  BY DEF Called
<1> HIDE DEF frame
<1>4. stack \in Seq(Frame) /\ Len(stack) \in Nat
  BY LenProperties DEF StepsTypeOK
<1>5. stack' \in Seq(Frame) /\ Len(stack') = Len(stack) + 1
  BY <1>2, <1>3, <1>4, AppendProperties
<1>6. Len(stack') <= MaxFrames
  BY <1>3, <1>4, <1>5, StepsAssumption
<1> QED BY <1>3, <1>5, <1>6 DEF StepsTypeOK

LEMMA ReturnTyped ==
  ASSUME StepsTypeOK, NEW fn, Returned(fn)
  PROVE  /\ Top \in Frame /\ Top.fn = fn
         /\ TypeOK' /\ _status' \in Statuses => StepsTypeOK'
<1> DEFINE n == Len(stack) - 1
<1>1. stack # <<>> /\ Top.fn = fn /\ stack' = SubSeq(stack, 1, n)
  BY DEF Returned
<1>2. stack \in Seq(Frame) /\ Len(stack) <= MaxFrames /\ Len(stack) \in Nat \ {0}
  BY <1>1, LenProperties, EmptySeq DEF StepsTypeOK
<1>3. Top \in Frame
  BY <1>2, ElementOfSeq DEF Top
<1>4. stack' \in Seq(Frame) /\ Len(stack') = n
  <2> DEFINE k == Len(stack)
  <2>0. k \in Nat \ {0} /\ n = k - 1
    BY <1>2
  <2> HIDE DEF k, n
  <2>1. 1 \in 1..(k + 1) /\ n \in 0..k
    BY <2>0
  <2>2. n = IF 1 <= n THEN n - 1 + 1 ELSE 0
    BY <2>0
  <2>3. /\ SubSeq(stack, 1, n) \in Seq(Frame)
        /\ Len(SubSeq(stack, 1, n)) = IF 1 <= n THEN n - 1 + 1 ELSE 0
    BY <1>2, <2>1, SubSeqProperties DEF k
  <2> QED BY <1>1, <2>2, <2>3
<1>5. Len(stack') <= MaxFrames
  BY <1>2, <1>4, StepsAssumption
<1>6. reentered' \in BOOLEAN
  BY DEF Returned
<1> QED BY <1>1, <1>3, <1>4, <1>5, <1>6 DEF StepsTypeOK

LEMMA DepositCallTyped ==
  ASSUME StepsTypeOK, NEW u \in Users, NEW t \in Tokens, NEW n \in UInt, NEW m \in UInt,
         depositCollateralCall(u, t, n, m)
  PROVE  StepsTypeOK'
<1>1. u \in Accounts /\ Engine \in Accounts /\ TypeOK
  BY InputTypes DEF StepsTypeOK
<1>2. /\ s_collateralDeposited[u][t] + n <= MaxUint
      /\ CanSpend(collateral[t], u, Engine, n)
      /\ s_collateralDeposited' = Deposited(u, t, n)
      /\ collateral' = [collateral EXCEPT ![t] = Spend(@, u, Engine, n)]
      /\ _status' = "_ENTERED"
      /\ Called("depositCollateral", u, t, n, m, u, 0)
      /\ UNCHANGED <<s_DSCMinted, dsc, feed>>
  BY DEF depositCollateralCall
<1>3. s_collateralDeposited' \in [Accounts -> [Tokens -> UInt]]
  BY <1>1, <1>2 DEF TypeOK, Deposited
<1>4. collateral' \in [Tokens -> Ledger]
  <2>1. Spend(collateral[t], u, Engine, n) \in Ledger
    BY <1>1, <1>2, SpendType DEF TypeOK
  <2> QED BY <1>1, <1>2, <2>1 DEF TypeOK
<1>5. TypeOK'
  BY <1>1, <1>2, <1>3, <1>4 DEF TypeOK
<1>6. "depositCollateral" \in Guarded \cup {"_redeemCollateral"} /\ _status' \in Statuses /\ 0 \in UInt
  BY <1>2 DEF Guarded, Statuses
<1> QED BY <1>1, <1>2, <1>5, <1>6, CallTyped

LEMMA RedeemTyped ==
  ASSUME TypeOK, NEW t \in Tokens, NEW n \in UInt, NEW from \in Accounts, NEW to \in Address,
         CanRedeem(t, n, from, to), Redeem(t, n, from, to), UNCHANGED <<s_DSCMinted, dsc, feed>>
  PROVE  TypeOK' /\ to \in Accounts
<1>1. to \in Accounts /\ Engine \in Accounts
  BY InputTypes DEF CanRedeem, CanTransfer, Address
<1>2. s_collateralDeposited' \in [Accounts -> [Tokens -> UInt]]
  BY DEF TypeOK, CanRedeem, Redeem, Redeemed
<1>3. collateral' \in [Tokens -> Ledger]
  <2>1. Transfer(collateral[t], Engine, to, n) \in Ledger
    BY <1>1, TransferType DEF TypeOK
  <2> QED BY <2>1 DEF TypeOK, Redeem
<1> QED BY <1>1, <1>2, <1>3 DEF TypeOK

LEMMA CallsTyped ==
  ASSUME StepsTypeOK, Calls
  PROVE  StepsTypeOK'
<1> PICK t \in Tokens :
      \/ \E u \in Users, n \in DepositAmounts :
           \/ depositCollateralCall(u, t, n, 0)
           \/ \E m \in DebtAmounts : depositCollateralCall(u, t, n, m)
      \/ \E n \in DepositAmounts, from \in Accounts, to \in Address :
           _redeemCollateralCall(t, n, from, to)
      \/ \E u \in Users, user \in Accounts, m \in DebtAmounts : liquidateCall(u, t, user, m)
  BY DEF Calls
<1>0. /\ "_redeemCollateral" \in Guarded \cup {"_redeemCollateral"} /\ 0 \in UInt
      /\ "liquidate" \in Guarded \cup {"_redeemCollateral"}
      /\ TypeOK /\ FeedsOK /\ _status \in Statuses
  BY DEF Guarded, StepsTypeOK, TypeOK, FeedsOK
<1>1. CASE \E u \in Users, n \in DepositAmounts :
             \/ depositCollateralCall(u, t, n, 0)
             \/ \E m \in DebtAmounts : depositCollateralCall(u, t, n, m)
  <2> PICK u \in Users, n \in DepositAmounts :
             \E m \in DebtAmounts \cup {0} : depositCollateralCall(u, t, n, m)
    BY <1>1
  <2> PICK m \in DebtAmounts \cup {0} : depositCollateralCall(u, t, n, m)
    OBVIOUS
  <2>1. n \in UInt /\ m \in UInt
    BY <1>0, InputTypes
  <2> QED BY <2>1, DepositCallTyped
<1>2. CASE \E n \in DepositAmounts, from \in Accounts, to \in Address :
             _redeemCollateralCall(t, n, from, to)
  <2> PICK n \in DepositAmounts, from \in Accounts, to \in Address :
             _redeemCollateralCall(t, n, from, to)
    BY <1>2
  <2>1. /\ CanRedeem(t, n, from, to) /\ Redeem(t, n, from, to)
        /\ Called("_redeemCollateral", to, t, n, 0, from, 0)
        /\ UNCHANGED <<s_DSCMinted, dsc, feed, _status>>
    BY DEF _redeemCollateralCall
  <2>2. n \in UInt
    BY InputTypes
  <2>3. TypeOK' /\ to \in Accounts
    BY <1>0, <2>1, <2>2, RedeemTyped
  <2>4. _status' \in Statuses
    BY <1>0, <2>1
  <2> QED BY <1>0, <2>1, <2>2, <2>3, <2>4, CallTyped
<1>3. CASE \E u \in Users, user \in Accounts, m \in DebtAmounts : liquidateCall(u, t, user, m)
  <2> PICK u \in Users, user \in Accounts, m \in DebtAmounts : liquidateCall(u, t, user, m)
    BY <1>3
  <2> DEFINE seized == Seized(Price(t), m)
             health == Health(s_collateralDeposited[user], s_DSCMinted[user])
  <2>1. /\ Liquidatable(user) /\ Priced(t) /\ SeizedFits(Price(t), m)
        /\ CanRedeem(t, seized, user, u) /\ Redeem(t, seized, user, u)
        /\ Called("liquidate", u, t, seized, m, user, health)
        /\ _status' = "_ENTERED" /\ UNCHANGED <<s_DSCMinted, dsc, feed>>
    BY DEF liquidateCall
  <2>2. m \in UInt /\ u \in Address
    BY InputTypes DEF Address
  <2>3. seized \in UInt
    BY <1>0, <2>1, <2>2, PriceType, SeizedType
  <2>4. health \in UInt
    <3>1. /\ s_collateralDeposited[user] \in [Tokens -> UInt] /\ s_DSCMinted[user] \in UInt
          /\ HealthFits(s_collateralDeposited[user], s_DSCMinted[user])
      BY <1>0, <2>1 DEF TypeOK, Liquidatable
    <3> QED BY <1>0, <3>1, HealthType
  <2> HIDE DEF seized, health
  <2>5. TypeOK' /\ u \in Accounts /\ _status' \in Statuses
    BY <1>0, <2>1, <2>2, <2>3, RedeemTyped DEF Statuses
  <2> QED BY <1>0, <2>1, <2>2, <2>3, <2>4, <2>5, CallTyped
<1> QED BY <1>1, <1>2, <1>3

LEMMA ReturnsTyped ==
  ASSUME StepsTypeOK, Returns
  PROVE  StepsTypeOK'
<1>0. TypeOK /\ _status \in Statuses /\ Engine \in Accounts
  BY InputTypes DEF StepsTypeOK
<1>1. CASE depositCollateralReturn
  <2> DEFINE t == Top.token
             c == Top.caller
             n == Top.amount
             m == Top.debt
  <2>1. /\ Returned("depositCollateral")
        /\ collateral' = [collateral EXCEPT ![t] = Transfer(@, c, Engine, n)]
        /\ _status' = "_NOT_ENTERED"
        /\ \/ UNCHANGED <<s_DSCMinted, dsc>>
           \/ /\ CanMintDSC(c, s_collateralDeposited[c], m)
              /\ s_DSCMinted' = [s_DSCMinted EXCEPT ![c] = @ + m]
              /\ dsc' = Mint(dsc, c, m)
        /\ UNCHANGED <<s_collateralDeposited, feed>>
    BY <1>1 DEF depositCollateralReturn
  <2>2. t \in Tokens /\ c \in Accounts /\ n \in UInt /\ m \in UInt
    BY <2>1, ReturnTyped DEF Frame
  <2> HIDE DEF t, c, n, m
  <2>3. collateral' \in [Tokens -> Ledger]
    <3>1. Transfer(collateral[t], c, Engine, n) \in Ledger
      BY <1>0, <2>2, TransferType DEF TypeOK
    <3> QED BY <1>0, <2>1, <3>1 DEF TypeOK
  <2>4. s_DSCMinted' \in [Accounts -> UInt] /\ dsc' \in Ledger
    <3>1. CASE UNCHANGED <<s_DSCMinted, dsc>>
      BY <1>0, <3>1 DEF TypeOK
    <3>2. CASE /\ CanMintDSC(c, s_collateralDeposited[c], m)
               /\ s_DSCMinted' = [s_DSCMinted EXCEPT ![c] = @ + m]
               /\ dsc' = Mint(dsc, c, m)
      <4>1. s_DSCMinted[c] + m <= MaxUint /\ CanMint(dsc, c, m)
        BY <3>2 DEF CanMintDSC
      <4>2. dsc' \in Ledger
        BY <1>0, <2>2, <3>2, <4>1, MintType DEF TypeOK
      <4>3. s_DSCMinted' \in [Accounts -> UInt]
        BY <1>0, <2>2, <3>2, <4>1 DEF TypeOK
      <4> QED BY <4>2, <4>3
    <3> QED BY <2>1, <3>1, <3>2
  <2>5. TypeOK' /\ _status' \in Statuses
    BY <1>0, <2>1, <2>3, <2>4 DEF TypeOK, Statuses
  <2> QED BY <2>1, <2>5, ReturnTyped
<1>2. CASE _redeemCollateralReturn
  <2>1. TypeOK' /\ _status' \in Statuses
    BY <1>0, <1>2 DEF _redeemCollateralReturn, TypeOK
  <2> QED BY <1>2, <2>1, ReturnTyped DEF _redeemCollateralReturn
<1>3. CASE liquidateReturn
  <2> DEFINE c == Top.caller
             user == Top.user
             m == Top.debt
  <2>1. /\ Returned("liquidate")
        /\ CanBurnDsc(m, user, c) /\ BurnDsc(m, user, c)
        /\ _status' = "_NOT_ENTERED"
        /\ UNCHANGED <<s_collateralDeposited, collateral, feed>>
    BY <1>3 DEF liquidateReturn
  <2>2. c \in Accounts /\ user \in Accounts /\ m \in UInt
    BY <2>1, ReturnTyped DEF Frame
  <2> HIDE DEF c, user, m
  <2>3. s_DSCMinted' \in [Accounts -> UInt] /\ dsc' \in Ledger
    BY <1>0, <2>1, <2>2, BurnDscTyped
  <2>4. TypeOK' /\ _status' \in Statuses
    BY <1>0, <2>1, <2>3 DEF TypeOK, Statuses
  <2> QED BY <2>1, <2>4, ReturnTyped
<1> QED BY <1>1, <1>2, <1>3 DEF Returns

LEMMA RevertsTyped ==
  ASSUME StepsTypeOK, Reverts
  PROVE  StepsTypeOK'
<1> PICK fn : revert(fn)
  BY DEF Reverts
<1>1. Returned(fn) /\ Top \in Frame
  BY ReturnTyped DEF revert
<1>2. Top.saved \in Snapshot
  BY <1>1 DEF Frame
<1>3. TypeOK' /\ _status' \in Statuses
  BY <1>2 DEF revert, Snapshot, StepsTypeOK, TypeOK
<1> QED BY <1>1, <1>3, ReturnTyped

(* Every amount, every ledger and every saved state is of its type at      *)
(* every depth of calls, after returns and after reverts.                  *)
THEOREM StepsTypeCorrect == StepsSpec => []StepsTypeOK
<1>1. StepsInit => StepsTypeOK
  <2> SUFFICES ASSUME StepsInit PROVE StepsTypeOK
    OBVIOUS
  <2>1. TypeOK
    BY InitIInv DEF StepsInit, IInv, CollateralOK, FeedsOK, Sound, TypeOK
  <2>2. stack \in Seq(Frame) /\ Len(stack) = 0
    BY EmptySeq DEF StepsInit
  <2>3. Len(stack) <= MaxFrames
    BY ONLY <2>2, StepsAssumption
  <2>4. _status \in Statuses /\ reentered \in BOOLEAN
    BY DEF StepsInit, Statuses
  <2> QED BY <2>1, <2>2, <2>3, <2>4 DEF StepsTypeOK
<1>2. StepsTypeOK /\ [StepsNext]_steps => StepsTypeOK'
  <2> SUFFICES ASSUME StepsTypeOK, [StepsNext]_steps PROVE StepsTypeOK'
    OBVIOUS
  <2>1. CASE UNCHANGED steps
    BY <2>1 DEF steps, StepsTypeOK, TypeOK
  <2>2. CASE WholeCalls \/ PricesMove
    <3>1. /\ UNCHANGED <<_status, stack>> /\ reentered' \in BOOLEAN
          /\ \/ \E u \in Users, m \in DebtAmounts : mintDSC(u, m) \/ burnDSC(u, m)
             \/ HoldTokens \/ HoldCoins \/ FeedsMove
      BY <2>2 DEF WholeCalls, PricesMove, Whole
    <3>2. TypeOK'
      BY <3>1, WholesTyped DEF StepsTypeOK
    <3> QED BY <3>1, <3>2 DEF StepsTypeOK
  <2> QED BY <2>1, <2>2, CallsTyped, ReturnsTyped, RevertsTyped DEF StepsNext
<1> QED BY <1>1, <1>2, PTL DEF StepsSpec

-----------------------------------------------------------------------------
(* Seen from outside.  Committed reads its operators through another state *)
(* only: those that read none of what is replaced are the engine's own.    *)

LEMMA SameTotals == \A f, S : Committed!Total(f, S) = Total(f, S)
<1>1. \A S : Committed!Cardinality(S) = Cardinality(S)
  BY DEF Committed!Cardinality, Cardinality
<1> QED BY <1>1 DEF Committed!Total, Total, Committed!Units, Units

LEMMA SameLedgerOperations ==
  /\ \A l, a, b, n : Committed!CanTransfer(l, a, b, n) <=> CanTransfer(l, a, b, n)
  /\ \A l, a, b, n : Committed!Transfer(l, a, b, n) = Transfer(l, a, b, n)
  /\ \A l, a, n : Committed!CanMint(l, a, n) <=> CanMint(l, a, n)
  /\ \A l, a, n : Committed!Mint(l, a, n) = Mint(l, a, n)
  /\ \A l, a, n : Committed!CanBurn(l, a, n) <=> CanBurn(l, a, n)
  /\ \A l, a, n : Committed!Burn(l, a, n) = Burn(l, a, n)
  /\ \A l, a, b, n : Committed!Approve(l, a, b, n) = Approve(l, a, b, n)
<1>1. \A n : Committed!Wrapped(n) = Wrapped(n)
  BY DEF Committed!Wrapped, Wrapped
<1>2. \A l, a, b, n : Committed!CanTransfer(l, a, b, n) <=> CanTransfer(l, a, b, n)
  BY DEF Committed!CanTransfer, CanTransfer
<1>3. \A l, a, b, n : Committed!Transfer(l, a, b, n) = Transfer(l, a, b, n)
  BY <1>1 DEF Committed!Transfer, Transfer
<1>4. \A l, a, n : Committed!CanMint(l, a, n) <=> CanMint(l, a, n)
  BY DEF Committed!CanMint, CanMint
<1>5. \A l, a, n : Committed!Mint(l, a, n) = Mint(l, a, n)
  BY <1>1 DEF Committed!Mint, Mint
<1>6. \A l, a, n : Committed!CanBurn(l, a, n) <=> CanBurn(l, a, n)
  BY DEF Committed!CanBurn, CanBurn
<1>7. \A l, a, n : Committed!Burn(l, a, n) = Burn(l, a, n)
  BY <1>1 DEF Committed!Burn, Burn
<1>8. \A l, a, b, n : Committed!Approve(l, a, b, n) = Approve(l, a, b, n)
  BY DEF Committed!Approve, Approve
<1> QED BY <1>2, <1>3, <1>4, <1>5, <1>6, <1>7, <1>8

LEMMA SameSpending ==
  /\ \A l, a, b, n : Committed!CanSpend(l, a, b, n) <=> CanSpend(l, a, b, n)
  /\ \A l, a, b, n : Committed!Spend(l, a, b, n) = Spend(l, a, b, n)
  /\ \A l, s, a, b, n : Committed!CanTransferFrom(l, s, a, b, n) <=> CanTransferFrom(l, s, a, b, n)
  /\ \A l, s, a, b, n : Committed!TransferFrom(l, s, a, b, n) = TransferFrom(l, s, a, b, n)
  /\ \A l, s, a, n : Committed!CanBurnFrom(l, s, a, n) <=> CanBurnFrom(l, s, a, n)
  /\ \A l, s, a, n : Committed!BurnFrom(l, s, a, n) = BurnFrom(l, s, a, n)
<1>1. \A l, a, b, n : Committed!CanSpend(l, a, b, n) <=> CanSpend(l, a, b, n)
  BY DEF Committed!CanSpend, CanSpend
<1>2. \A l, a, b, n : Committed!Spend(l, a, b, n) = Spend(l, a, b, n)
  BY SameLedgerOperations DEF Committed!Spend, Spend
<1>3. \A l, s, a, b, n : Committed!CanTransferFrom(l, s, a, b, n) <=> CanTransferFrom(l, s, a, b, n)
  BY <1>1, SameLedgerOperations DEF Committed!CanTransferFrom, CanTransferFrom
<1>4. \A l, s, a, b, n : Committed!TransferFrom(l, s, a, b, n) = TransferFrom(l, s, a, b, n)
  BY <1>2, SameLedgerOperations DEF Committed!TransferFrom, TransferFrom
<1>5. \A l, s, a, n : Committed!CanBurnFrom(l, s, a, n) <=> CanBurnFrom(l, s, a, n)
  BY <1>1, SameLedgerOperations DEF Committed!CanBurnFrom, CanBurnFrom
<1>6. \A l, s, a, n : Committed!BurnFrom(l, s, a, n) = BurnFrom(l, s, a, n)
  BY <1>2, SameLedgerOperations DEF Committed!BurnFrom, BurnFrom
<1> QED BY <1>1, <1>2, <1>3, <1>4, <1>5, <1>6

LEMMA SameValuation ==
  /\ \A p, n : Committed!UsdValue(p, n) = UsdValue(p, n)
  /\ \A p, n : Committed!UsdValueFits(p, n) <=> UsdValueFits(p, n)
  /\ \A p, n : Committed!Seized(p, n) = Seized(p, n)
  /\ \A p, n : Committed!SeizedFits(p, n) <=> SeizedFits(p, n)
  /\ \A m, v : Committed!HealthFactor(m, v) = HealthFactor(m, v)
  /\ \A m, v : Committed!HealthFactorFits(m, v) <=> HealthFactorFits(m, v)
<1>1. \A p : Committed!ScaledPrice(p) = ScaledPrice(p)
  BY DEF Committed!ScaledPrice, ScaledPrice, Committed!Wrapped, Wrapped
<1>2. \A v : Committed!AdjustedForThreshold(v) = AdjustedForThreshold(v)
  BY DEF Committed!AdjustedForThreshold, AdjustedForThreshold
<1>3. \A n : Committed!Bonus(n) = Bonus(n)
  BY DEF Committed!Bonus, Bonus
<1>4. \A p, n : Committed!TokenAmount(p, n) = TokenAmount(p, n)
  BY <1>1 DEF Committed!TokenAmount, TokenAmount
<1>5. \A p, n : Committed!TokenAmountFits(p, n) <=> TokenAmountFits(p, n)
  BY <1>1 DEF Committed!TokenAmountFits, TokenAmountFits
<1>6. \A p, n : Committed!UsdValue(p, n) = UsdValue(p, n)
  BY <1>1 DEF Committed!UsdValue, UsdValue
<1>7. \A p, n : Committed!UsdValueFits(p, n) <=> UsdValueFits(p, n)
  BY <1>1 DEF Committed!UsdValueFits, UsdValueFits
<1>8. \A p, n : Committed!Seized(p, n) = Seized(p, n)
  BY <1>3, <1>4 DEF Committed!Seized, Seized
<1>9. \A p, n : Committed!SeizedFits(p, n) <=> SeizedFits(p, n)
  BY <1>3, <1>4, <1>5 DEF Committed!SeizedFits, SeizedFits
<1>10. \A m, v : Committed!HealthFactor(m, v) = HealthFactor(m, v)
  BY <1>2 DEF Committed!HealthFactor, HealthFactor
<1>11. \A m, v : Committed!HealthFactorFits(m, v) <=> HealthFactorFits(m, v)
  BY <1>2 DEF Committed!HealthFactorFits, HealthFactorFits
<1> QED BY <1>6, <1>7, <1>8, <1>9, <1>10, <1>11

LEMMA SameListing ==
  /\ Committed!Users = Users /\ Committed!Address = Address /\ Committed!Listed = Listed
  /\ \A t : Committed!isAllowedToken(t) <=> isAllowedToken(t)
  /\ \A t : Committed!Price(t) = Price(t)
  /\ \A t : Committed!Priced(t) <=> Priced(t)
<1>1. Committed!Users = Users /\ Committed!Address = Address /\ Committed!Listed = Listed
  BY DEF Committed!Users, Users, Committed!Address, Address, Committed!Listed, Listed
<1>2. Committed!s_priceFeeds = s_priceFeeds
  BY DEF Committed!s_priceFeeds, s_priceFeeds
<1>3. \A t : Committed!isAllowedToken(t) <=> isAllowedToken(t)
  BY <1>2 DEF Committed!isAllowedToken, isAllowedToken
<1>4. \A t : Committed!Price(t) = Price(t)
  BY <1>2 DEF Committed!Price, Price
<1>5. \A t : Committed!Priced(t) <=> Priced(t)
  BY <1>2, <1>3 DEF Committed!Priced, Priced
<1> QED BY <1>1, <1>3, <1>4, <1>5

(* Health is a matter of the books one asks about and of the feeds, which  *)
(* a call in the middle sees as everybody does.                            *)
LEMMA SameHealth ==
  /\ \A d, k : Committed!HealthFits(d, k) <=> HealthFits(d, k)
  /\ \A d, k : Committed!Health(d, k) = Health(d, k)
  /\ \A d, k : Committed!HealthHolds(d, k) <=> HealthHolds(d, k)
<1>1. \A d : Committed!AccountValue(d) = AccountValue(d)
  BY SameTotals, SameValuation, SameListing DEF Committed!AccountValue, AccountValue
<1>2. \A d : Committed!AccountValueFits(d) <=> AccountValueFits(d)
  BY <1>1, SameValuation, SameListing DEF Committed!AccountValueFits, AccountValueFits
<1>3. \A d, k : Committed!HealthFits(d, k) <=> HealthFits(d, k)
  BY <1>1, <1>2, SameValuation DEF Committed!HealthFits, HealthFits
<1>4. \A d, k : Committed!Health(d, k) = Health(d, k)
  BY <1>1, SameValuation DEF Committed!Health, Health
<1>5. \A d, k : Committed!HealthHolds(d, k) <=> HealthHolds(d, k)
  BY <1>3, <1>4 DEF Committed!HealthHolds, HealthHolds
<1> QED BY <1>3, <1>4, <1>5

-----------------------------------------------------------------------------
(* Calls that open and close in a step, when no call is open. *)

LEMMA AtRest ==
  ASSUME stack = <<>>
  PROVE  /\ Outside.deposited = s_collateralDeposited /\ Outside.minted = s_DSCMinted
         /\ Outside.collateral = collateral /\ Outside.dsc = dsc
BY DEF Outside, Now

LEMMA AtRestNext ==
  ASSUME stack' = <<>>
  PROVE  /\ Outside'.deposited = s_collateralDeposited' /\ Outside'.minted = s_DSCMinted'
         /\ Outside'.collateral = collateral' /\ Outside'.dsc = dsc'
BY DEF Outside, Now

LEMMA WholeIsSeen ==
  ASSUME stack = <<>>, stack' = <<>>, WholeCalls \/ PricesMove
  PROVE  Committed!Next
<1>1. CASE \E u \in Users, m \in DebtAmounts : MayMint(m) /\ mintDSC(u, m)
  <2> PICK u \in Users, m \in DebtAmounts : MayMint(m) /\ mintDSC(u, m)
    BY <1>1
  <2>1. Committed!mintDSC(u, m)
    BY AtRest, AtRestNext, SameHealth, SameLedgerOperations
    DEF Committed!mintDSC, mintDSC, Committed!CanMintDSC, CanMintDSC
  <2>2. Committed!MayMint(m)
    BY AtRest DEF Committed!MayMint, MayMint
  <2> QED BY <2>1, <2>2, SameListing DEF Committed!Next, Committed!Borrow
<1>2. CASE \E u \in Users, m \in DebtAmounts : burnDSC(u, m)
  <2> PICK u \in Users, m \in DebtAmounts : burnDSC(u, m)
    BY <1>2
  <2>1. Committed!CanBurnDsc(m, u, u) /\ Committed!BurnDsc(m, u, u)
    BY AtRest, AtRestNext, SameLedgerOperations, SameSpending
    DEF burnDSC, Committed!CanBurnDsc, CanBurnDsc, Committed!BurnDsc, BurnDsc, Committed!Taken, Taken
  <2>2. Committed!burnDSC(u, m)
    BY <2>1, AtRest, AtRestNext, SameHealth DEF Committed!burnDSC, burnDSC
  <2> QED BY <2>2, SameListing DEF Committed!Next, Committed!Repay
<1>3. CASE HoldTokens
  <2>1. /\ \A u, t, to, n : tokenTransfer(u, t, to, n) => Committed!tokenTransfer(u, t, to, n)
        /\ \A u, t, from, to, n :
             tokenTransferFrom(u, t, from, to, n) => Committed!tokenTransferFrom(u, t, from, to, n)
        /\ \A u, t, spender, n :
             tokenApprove(u, t, spender, n) => Committed!tokenApprove(u, t, spender, n)
    BY AtRest, AtRestNext, SameLedgerOperations, SameSpending
    DEF Committed!tokenTransfer, tokenTransfer, Committed!tokenTransferFrom, tokenTransferFrom,
        Committed!tokenApprove, tokenApprove
  <2> QED BY <1>3, <2>1, SameListing DEF HoldTokens, Committed!HoldTokens, Committed!Next
<1>4. CASE HoldCoins
  <2>1. /\ \A u, to, n : coinTransfer(u, to, n) => Committed!coinTransfer(u, to, n)
        /\ \A u, from, to, n :
             coinTransferFrom(u, from, to, n) => Committed!coinTransferFrom(u, from, to, n)
        /\ \A u, from, n : coinBurnFrom(u, from, n) => Committed!coinBurnFrom(u, from, n)
        /\ \A u, spender, n : coinApprove(u, spender, n) => Committed!coinApprove(u, spender, n)
    BY AtRest, AtRestNext, SameLedgerOperations, SameSpending
    DEF Committed!coinTransfer, coinTransfer, Committed!coinTransferFrom, coinTransferFrom,
        Committed!coinBurnFrom, coinBurnFrom, Committed!coinApprove, coinApprove
  <2> QED BY <1>4, <2>1, SameListing DEF HoldCoins, Committed!HoldCoins, Committed!Next
<1>5. CASE FeedsMove
  <2>1. \A f, reading : feedChanges(f, reading) => Committed!feedChanges(f, reading)
    BY AtRest, AtRestNext DEF Committed!feedChanges, feedChanges
  <2> QED BY <1>5, <2>1 DEF FeedsMove, Committed!FeedsMove, Committed!Next
<1> QED BY <1>1, <1>2, <1>3, <1>4, <1>5 DEF WholeCalls, PricesMove, Whole

-----------------------------------------------------------------------------
(* A call cut open and not re-entered: the present state is the saved one  *)
(* after the first half of the call, whose checks passed there.            *)

(* The one open call. *)
Open == stack[1]

DebtsAsSaved == s_DSCMinted = Open.saved.minted /\ dsc = Open.saved.dsc

DepositOpen ==
  /\ Open.fn = "depositCollateral"
  /\ Open.caller \in Users /\ Open.amount \in DepositAmounts
  /\ \/ Open.debt = 0
     \/ Open.debt \in DebtAmounts /\ Open.saved.dsc.totalSupply + Open.debt <= SupplyBound
  /\ Open.amount > 0 /\ isAllowedToken(Open.token)
  /\ Open.saved.deposited[Open.caller][Open.token] + Open.amount <= MaxUint
  /\ CanSpend(Open.saved.collateral[Open.token], Open.caller, Engine, Open.amount)
  /\ s_collateralDeposited =
       [Open.saved.deposited EXCEPT ![Open.caller][Open.token] = @ + Open.amount]
  /\ collateral =
       [Open.saved.collateral EXCEPT ![Open.token] = Spend(@, Open.caller, Engine, Open.amount)]
  /\ DebtsAsSaved

(* Common to a withdrawal and a liquidation. *)
RedeemOpen ==
  /\ Open.amount # 0 /\ isAllowedToken(Open.token)
  /\ Open.saved.deposited[Open.user][Open.token] >= Open.amount
  /\ CanTransfer(Open.saved.collateral[Open.token], Engine, Open.caller, Open.amount)
  /\ s_collateralDeposited =
       [Open.saved.deposited EXCEPT ![Open.user][Open.token] = @ - Open.amount]
  /\ collateral =
       [Open.saved.collateral EXCEPT ![Open.token] = Transfer(@, Engine, Open.caller, Open.amount)]
  /\ DebtsAsSaved

WithdrawalOpen == Open.fn = "_redeemCollateral" /\ Open.amount \in DepositAmounts /\ RedeemOpen

LiquidationOpen ==
  /\ Open.fn = "liquidate"
  /\ Open.caller \in Users /\ Open.debt \in DebtAmounts /\ Open.debt > 0
  /\ HealthFits(Open.saved.deposited[Open.user], Open.saved.minted[Open.user])
  /\ Open.health = Health(Open.saved.deposited[Open.user], Open.saved.minted[Open.user])
  /\ ~(Open.health >= MINIMUM_HEALTH_FACTOR)
  /\ Priced(Open.token) /\ SeizedFits(Price(Open.token), Open.debt)
  /\ Open.amount = Seized(Price(Open.token), Open.debt)
  /\ RedeemOpen

HalfDone == DepositOpen \/ WithdrawalOpen \/ LiquidationOpen

(* A transaction nobody has re-entered is at rest or half done. *)
OpenInv == ~reentered => stack = <<>> \/ (Len(stack) = 1 /\ HalfDone)

(* What the open call measured, in the state it leaves, is what it was.    *)
LEMMA OpenHealthNext ==
  ASSUME feed' = feed, NEW d, NEW k,
         Open'.saved.deposited[Open'.user] = d, Open'.saved.minted[Open'.user] = k
  PROVE  /\ HealthFits(Open.saved.deposited[Open.user], Open.saved.minted[Open.user])'
              <=> HealthFits(d, k)
         /\ Health(Open.saved.deposited[Open.user], Open.saved.minted[Open.user])' = Health(d, k)
<1> DEFINE e == Open.saved.deposited[Open.user]
<1>1. \A t : Price(t)' = Price(t) /\ (Priced(t)' <=> Priced(t))
  BY DEF Price, Priced
<1>2. AccountValue(e)' = AccountValue(d)
  BY <1>1 DEF AccountValue
<1>3. AccountValueFits(e)' <=> AccountValueFits(d)
  BY <1>1, <1>2 DEF AccountValueFits
<1> QED BY <1>2, <1>3 DEF HealthFits, Health

LEMMA CallHalfDone ==
  ASSUME StepsTypeOK, stack = <<>>, Calls
  PROVE  Len(stack') = 1 /\ HalfDone'
<1>0. FramesOK /\ Len(stack) + 1 = 1
  BY EmptySeq DEF FramesOK
<1>1. CASE \E t \in Tokens, u \in Users, n \in DepositAmounts :
             \/ depositCollateralCall(u, t, n, 0)
             \/ \E m \in DebtAmounts : MayMint(m) /\ depositCollateralCall(u, t, n, m)
  <2> PICK t \in Tokens, u \in Users, n \in DepositAmounts :
             \E m : /\ m = 0 \/ (m \in DebtAmounts /\ MayMint(m))
                    /\ depositCollateralCall(u, t, n, m)
    BY <1>1
  <2> PICK m : /\ m = 0 \/ (m \in DebtAmounts /\ MayMint(m))
               /\ depositCollateralCall(u, t, n, m)
    OBVIOUS
  <2>1. Called("depositCollateral", u, t, n, m, u, 0)
    BY DEF depositCollateralCall
  <2>2. /\ Len(stack') = 1
        /\ Open' = [fn |-> "depositCollateral", caller |-> u, token |-> t, amount |-> n,
                        debt |-> m, user |-> u, health |-> 0, saved |-> Now]
    BY <1>0, <2>1, CalledPushes DEF Pushed, Open
  <2>3. DepositOpen'
    BY <2>2 DEF DepositOpen, DebtsAsSaved, depositCollateralCall, Deposited, MayMint, Now,
                isAllowedToken
  <2> QED BY <2>2, <2>3 DEF HalfDone
<1>2. CASE \E t \in Tokens, n \in DepositAmounts, from \in Accounts, to \in Address :
             _redeemCollateralCall(t, n, from, to)
  <2> PICK t \in Tokens, n \in DepositAmounts, from \in Accounts, to \in Address :
             _redeemCollateralCall(t, n, from, to)
    BY <1>2
  <2>1. Called("_redeemCollateral", to, t, n, 0, from, 0)
    BY DEF _redeemCollateralCall
  <2>2. /\ Len(stack') = 1
        /\ Open' = [fn |-> "_redeemCollateral", caller |-> to, token |-> t, amount |-> n,
                        debt |-> 0, user |-> from, health |-> 0, saved |-> Now]
    BY <1>0, <2>1, CalledPushes DEF Pushed, Open
  <2>3. RedeemOpen'
    BY <2>2 DEF RedeemOpen, DebtsAsSaved, _redeemCollateralCall, CanRedeem, Redeem, Redeemed, Now,
                isAllowedToken
  <2> QED BY <2>2, <2>3 DEF HalfDone, WithdrawalOpen
<1>3. CASE \E t \in Tokens, u \in Users, user \in Accounts, m \in DebtAmounts :
             liquidateCall(u, t, user, m)
  <2> PICK t \in Tokens, u \in Users, user \in Accounts, m \in DebtAmounts :
             liquidateCall(u, t, user, m)
    BY <1>3
  <2> DEFINE seized == Seized(Price(t), m)
             health == Health(s_collateralDeposited[user], s_DSCMinted[user])
  <2>1. Called("liquidate", u, t, seized, m, user, health)
    BY DEF liquidateCall
  <2>2. /\ Len(stack') = 1
        /\ Open' = [fn |-> "liquidate", caller |-> u, token |-> t, amount |-> seized,
                        debt |-> m, user |-> user, health |-> health, saved |-> Now]
    BY <1>0, <2>1, CalledPushes DEF Pushed, Open
  <2>3. RedeemOpen'
    BY <2>2 DEF RedeemOpen, DebtsAsSaved, liquidateCall, CanRedeem, Redeem, Redeemed, Now,
                isAllowedToken
  <2>4. /\ HealthFits(Open.saved.deposited[Open.user], Open.saved.minted[Open.user])'
        /\ Health(Open.saved.deposited[Open.user], Open.saved.minted[Open.user])' = health
        /\ ~(health >= MINIMUM_HEALTH_FACTOR)
    BY <2>2, OpenHealthNext DEF liquidateCall, Liquidatable, Now
  <2>5. Price(Open.token)' = Price(t) /\ Priced(Open.token)'
    BY <2>2 DEF liquidateCall, Price, Priced
  <2>6. m > 0 /\ SeizedFits(Price(t), m)
    BY DEF liquidateCall
  <2> HIDE DEF health, seized
  <2>7. LiquidationOpen'
    BY <2>2, <2>3, <2>4, <2>5, <2>6 DEF LiquidationOpen, seized
  <2> QED BY <2>2, <2>7 DEF HalfDone
<1> QED BY <1>1, <1>2, <1>3 DEF Calls

-----------------------------------------------------------------------------
(* When the second half of such a call succeeds, the engine has made one   *)
(* step from the saved state.                                              *)

LEMMA OpenTypes ==
  ASSUME StepsTypeOK, Len(stack) = 1
  PROVE  /\ Open \in Frame /\ stack # <<>> /\ Top = Open
         /\ Outside = Open.saved
<1>1. stack \in Seq(Frame) /\ 1 \in 1..Len(stack)
  BY DEF StepsTypeOK
<1>2. Open \in Frame
  BY <1>1, ElementOfSeq DEF Open
<1>3. stack # <<>>
  BY EmptySeq
<1> QED BY <1>2, <1>3 DEF Open, Top, Outside

LEMMA ReturnEmpties ==
  ASSUME StepsTypeOK, Len(stack) = 1, NEW fn, Returned(fn)
  PROVE  stack' = <<>> /\ Open.fn = fn
<1>1. FramesOK /\ Top = Open
  BY OpenTypes DEF FramesOK, StepsTypeOK
<1>2. FramesOK' /\ Len(stack') = 0
  BY <1>1, ReturnedPops DEF Popped
<1>3. stack' = <<>>
  BY <1>2, EmptySeq DEF FramesOK
<1> QED BY <1>1, <1>3 DEF Returned

LEMMA DepositReturnIsSeen ==
  ASSUME StepsTypeOK, Len(stack) = 1, DepositOpen, depositCollateralReturn
  PROVE  Committed!Next
<1> DEFINE u == Open.caller
           t == Open.token
           n == Open.amount
           m == Open.debt
           l == Outside.collateral[t]
<1>1. /\ Open \in Frame /\ Top = Open /\ Outside = Open.saved /\ stack' = <<>>
  BY OpenTypes, ReturnEmpties DEF depositCollateralReturn
<1>2. /\ u \in Users /\ t \in Tokens /\ n \in DepositAmounts
      /\ Outside.deposited \in [Accounts -> [Tokens -> UInt]]
      /\ Outside.collateral \in [Tokens -> Ledger] /\ l \in Ledger
  BY <1>1 DEF Frame, Snapshot, DepositOpen
<1>3. /\ n > 0 /\ isAllowedToken(t) /\ Outside.deposited[u][t] + n <= MaxUint
      /\ CanSpend(l, u, Engine, n)
      /\ s_collateralDeposited = [Outside.deposited EXCEPT ![u][t] = @ + n]
      /\ collateral = [Outside.collateral EXCEPT ![t] = Spend(@, u, Engine, n)]
      /\ s_DSCMinted = Outside.minted /\ dsc = Outside.dsc
  BY <1>1 DEF DepositOpen, DebtsAsSaved
<1>4. /\ CanTransfer(collateral[t], u, Engine, n)
      /\ collateral' = [collateral EXCEPT ![t] = Transfer(@, u, Engine, n)]
      /\ UNCHANGED <<s_collateralDeposited, feed>>
      /\ \/ m = 0 /\ UNCHANGED <<s_DSCMinted, dsc>>
         \/ /\ CanMintDSC(u, s_collateralDeposited[u], m)
            /\ s_DSCMinted' = [s_DSCMinted EXCEPT ![u] = @ + m]
            /\ dsc' = Mint(dsc, u, m)
  BY <1>1 DEF depositCollateralReturn
<1>5. m = 0 \/ (m \in DebtAmounts /\ Committed!MayMint(m))
  BY <1>1 DEF DepositOpen, Committed!MayMint
<1> HIDE DEF u, t, n, m, l
<1>6. collateral[t] = Spend(l, u, Engine, n)
  BY <1>2, <1>3 DEF l
<1>7. CanTransferFrom(l, Engine, u, Engine, n)
  <2>1. Spend(l, u, Engine, n).balances = l.balances
    BY <1>2 DEF Spend, Approve, Ledger
  <2> QED BY <1>3, <1>4, <1>6, <2>1 DEF CanTransferFrom, CanTransfer
<1>8. collateral' = [Outside.collateral EXCEPT ![t] = TransferFrom(@, Engine, u, Engine, n)]
  <2>1. collateral' = [Outside.collateral EXCEPT ![t] = Transfer(Spend(l, u, Engine, n), u, Engine, n)]
    BY <1>2, <1>3, <1>4, <1>6
  <2> QED BY <2>1 DEF TransferFrom, l
<1>9. Committed!CanDeposit(u, t, n)
  BY <1>3, <1>7, SameListing, SameSpending DEF Committed!CanDeposit, l
<1>10. /\ Outside'.deposited = Committed!Deposited(u, t, n)
       /\ Outside'.collateral
            = [Outside.collateral EXCEPT ![t] = Committed!TransferFrom(@, Engine, u, Engine, n)]
  BY <1>1, <1>3, <1>4, <1>8, AtRestNext, SameSpending DEF Committed!Deposited
<1>11. CASE m = 0 /\ UNCHANGED <<s_DSCMinted, dsc>>
  <2>1. Outside'.minted = Outside.minted /\ Outside'.dsc = Outside.dsc
    BY <1>1, <1>3, <1>11, AtRestNext
  <2>2. Committed!depositCollateral(u, t, n)
    BY <1>4, <1>9, <1>10, <2>1 DEF Committed!depositCollateral
  <2> QED BY <1>2, <2>2, SameListing DEF Committed!Next, Committed!Borrow
<1>12. CASE /\ CanMintDSC(u, s_collateralDeposited[u], m)
            /\ s_DSCMinted' = [s_DSCMinted EXCEPT ![u] = @ + m]
            /\ dsc' = Mint(dsc, u, m)
  <2>1. /\ m > 0 /\ Outside.minted[u] + m <= MaxUint
        /\ HealthHolds(Committed!Deposited(u, t, n)[u], Outside.minted[u] + m)
        /\ CanMint(Outside.dsc, u, m)
    BY <1>3, <1>12 DEF CanMintDSC, Committed!Deposited
  <2>2. Committed!CanMintDSC(u, Committed!Deposited(u, t, n)[u], m)
    BY <2>1, SameHealth, SameLedgerOperations DEF Committed!CanMintDSC
  <2>3. /\ Outside'.minted = [Outside.minted EXCEPT ![u] = @ + m]
        /\ Outside'.dsc = Committed!Mint(Outside.dsc, u, m)
    BY <1>1, <1>3, <1>12, AtRestNext, SameLedgerOperations
  <2>4. Committed!depositCollateralAndMintDSC(u, t, n, m)
    BY <1>4, <1>9, <1>10, <2>2, <2>3 DEF Committed!depositCollateralAndMintDSC
  <2>5. m \in DebtAmounts /\ Committed!MayMint(m)
    BY <1>5, <2>1
  <2> QED BY <1>2, <2>4, <2>5, SameListing DEF Committed!Next, Committed!Borrow
<1> QED BY <1>4, <1>11, <1>12

(* What a withdrawal has done, seen from the saved state. *)
LEMMA RedeemIsSeen ==
  ASSUME StepsTypeOK, Len(stack) = 1, RedeemOpen, stack' = <<>>,
         UNCHANGED <<s_collateralDeposited, collateral>>
  PROVE  /\ Committed!CanRedeem(Open.token, Open.amount, Open.user, Open.caller)
         /\ Committed!Redeem(Open.token, Open.amount, Open.user, Open.caller)
         /\ s_collateralDeposited = Committed!Redeemed(Open.token, Open.amount, Open.user)
<1>1. Outside = Open.saved
  BY OpenTypes
<1>2. Outside'.deposited = s_collateralDeposited /\ Outside'.collateral = collateral
  BY AtRestNext
<1> QED BY <1>1, <1>2, SameListing, SameLedgerOperations
        DEF RedeemOpen, Committed!CanRedeem, Committed!Redeem, Committed!Redeemed

LEMMA WithdrawalReturnIsSeen ==
  ASSUME StepsTypeOK, Len(stack) = 1, WithdrawalOpen, _redeemCollateralReturn
  PROVE  Committed!Next
<1>1. Open \in Frame /\ Outside = Open.saved /\ stack' = <<>>
  BY OpenTypes, ReturnEmpties DEF _redeemCollateralReturn
<1>2. /\ Open.token \in Tokens /\ Open.amount \in DepositAmounts /\ Open.user \in Accounts
      /\ Open.caller \in Address
  BY <1>1 DEF Frame, WithdrawalOpen, Address
<1>3. /\ Committed!CanRedeem(Open.token, Open.amount, Open.user, Open.caller)
      /\ Committed!Redeem(Open.token, Open.amount, Open.user, Open.caller)
  BY <1>1, RedeemIsSeen DEF _redeemCollateralReturn, WithdrawalOpen
<1>4. Outside'.minted = Outside.minted /\ Outside'.dsc = Outside.dsc /\ feed' = feed
  BY <1>1, AtRestNext DEF _redeemCollateralReturn, WithdrawalOpen, RedeemOpen, DebtsAsSaved
<1>5. Committed!_redeemCollateral(Open.token, Open.amount, Open.user, Open.caller)
  BY <1>3, <1>4 DEF Committed!_redeemCollateral
<1> QED BY <1>2, <1>5, SameListing DEF Committed!Next, Committed!Repay

LEMMA LiquidationReturnIsSeen ==
  ASSUME StepsTypeOK, Len(stack) = 1, LiquidationOpen, liquidateReturn
  PROVE  Committed!Next
<1> DEFINE c == Open.caller
           t == Open.token
           user == Open.user
           m == Open.debt
           seized == Seized(Price(t), m)
           owed == [Outside.minted EXCEPT ![user] = @ - m]
<1>1. /\ Open \in Frame /\ Top = Open /\ Outside = Open.saved /\ stack' = <<>>
  BY OpenTypes, ReturnEmpties DEF liquidateReturn
<1>2. t \in Tokens /\ c \in Users /\ user \in Accounts /\ m \in DebtAmounts
  BY <1>1 DEF Frame, LiquidationOpen
<1>3. /\ m > 0 /\ Priced(t) /\ SeizedFits(Price(t), m) /\ Open.amount = seized
      /\ HealthFits(Outside.deposited[user], Outside.minted[user])
      /\ Open.health = Health(Outside.deposited[user], Outside.minted[user])
      /\ ~(Open.health >= MINIMUM_HEALTH_FACTOR)
      /\ s_DSCMinted = Outside.minted /\ dsc = Outside.dsc
  BY <1>1 DEF LiquidationOpen, RedeemOpen, DebtsAsSaved
<1>4. /\ Committed!CanRedeem(t, seized, user, c) /\ Committed!Redeem(t, seized, user, c)
      /\ s_collateralDeposited = Committed!Redeemed(t, seized, user)
  BY <1>1, <1>3, RedeemIsSeen DEF LiquidationOpen, liquidateReturn
<1>5. /\ CanBurnDsc(m, user, c) /\ BurnDsc(m, user, c) /\ feed' = feed
      /\ HealthFits(s_collateralDeposited[user], s_DSCMinted'[user])
      /\ Health(s_collateralDeposited[user], s_DSCMinted'[user]) > Open.health
      /\ HealthHolds(s_collateralDeposited[c], s_DSCMinted'[c])
  BY <1>1 DEF liquidateReturn
<1>6. Outside'.minted = s_DSCMinted' /\ Outside'.dsc = dsc'
  BY <1>1, AtRestNext
<1> HIDE DEF c, t, user, m, seized
<1>7. s_DSCMinted' = owed
  BY <1>3, <1>5 DEF BurnDsc
<1>8. Committed!CanBurnDsc(m, user, c) /\ Committed!BurnDsc(m, user, c)
  BY <1>3, <1>5, <1>6, SameLedgerOperations, SameSpending
  DEF CanBurnDsc, Committed!CanBurnDsc, BurnDsc, Committed!BurnDsc, Taken, Committed!Taken
<1>9. Committed!Liquidatable(user)
  BY <1>3, SameHealth DEF Committed!Liquidatable
<1>10. /\ Committed!Priced(t) /\ Committed!SeizedFits(Committed!Price(t), m)
       /\ Committed!Seized(Committed!Price(t), m) = seized
  BY <1>3, SameListing, SameValuation DEF seized
<1> DEFINE left == Committed!Redeemed(t, seized, user)
<1>11. /\ Committed!HealthFits(left[user], owed[user])
       /\ Committed!Health(left[user], owed[user])
            > Committed!Health(Outside.deposited[user], Outside.minted[user])
       /\ Committed!HealthHolds(left[c], owed[c])
  BY <1>3, <1>4, <1>5, <1>7, SameHealth
<1>12. Committed!liquidate(c, t, user, m)
  BY <1>3, <1>4, <1>5, <1>8, <1>9, <1>10, <1>11 DEF Committed!liquidate
<1> QED BY <1>2, <1>12, SameListing DEF Committed!Next, Committed!Liquidate

-----------------------------------------------------------------------------
(* Every step, of a transaction nobody has re-entered. *)

SeenUnchanged == UNCHANGED Committed!vars

LEMMA StepIsSeen ==
  ASSUME StepsTypeOK, OpenInv, ~reentered, StepsNext
  PROVE  Committed!Next \/ SeenUnchanged
<1>1. FramesOK /\ (stack = <<>> \/ (Len(stack) = 1 /\ HalfDone))
  BY DEF OpenInv, FramesOK, StepsTypeOK
<1>2. CASE Calls
  <2> PICK fn, caller, t, n, debt, user, health : Called(fn, caller, t, n, debt, user, health)
    BY <1>2 DEF Calls, depositCollateralCall, _redeemCollateralCall, liquidateCall
  <2>0. feed' = feed
    BY <1>2 DEF Calls, depositCollateralCall, _redeemCollateralCall, liquidateCall
  <2>1. /\ Pushed(fn)
        /\ stack'[Len(stack) + 1] =
             [fn |-> fn, caller |-> caller, token |-> t, amount |-> n,
              debt |-> debt, user |-> user, health |-> health, saved |-> Now]
    BY <1>1, CalledPushes
  <2>2. stack' # <<>>
    <3>1. Len(<<>>) = 0
      BY EmptySeq
    <3>2. Len(stack') # 0
      BY <2>1 DEF Pushed
    <3> QED BY ONLY <3>1, <3>2
  <2>3. CASE stack = <<>>
    <3>1. Outside = Now /\ Outside' = Now
      BY <2>1, <2>2, <2>3, EmptySeq DEF Outside
    <3> QED BY <2>0, <3>1 DEF SeenUnchanged, Committed!vars
  <2>4. CASE stack # <<>>
    <3>1. stack'[1] = stack[1]
      BY <1>1, <2>1, <2>4 DEF Pushed
    <3>2. Outside' = Outside
      BY <2>2, <2>4, <3>1 DEF Outside
    <3> QED BY <2>0, <3>2 DEF SeenUnchanged, Committed!vars
  <2> QED BY <2>3, <2>4
<1>3. CASE Returns
  <2>1. Len(stack) = 1 /\ HalfDone /\ Top = Open
    BY <1>1, <1>3, OpenTypes
    DEF Returns, depositCollateralReturn, _redeemCollateralReturn, liquidateReturn, Returned
  <2>2. /\ depositCollateralReturn => Open.fn = "depositCollateral"
        /\ _redeemCollateralReturn => Open.fn = "_redeemCollateral"
        /\ liquidateReturn => Open.fn = "liquidate"
    BY <2>1 DEF depositCollateralReturn, _redeemCollateralReturn, liquidateReturn, Returned
  <2>3. /\ depositCollateralReturn => DepositOpen
        /\ _redeemCollateralReturn => WithdrawalOpen
        /\ liquidateReturn => LiquidationOpen
    BY <2>1, <2>2 DEF HalfDone, DepositOpen, WithdrawalOpen, LiquidationOpen
  <2> QED BY <1>3, <2>1, <2>3, DepositReturnIsSeen, WithdrawalReturnIsSeen, LiquidationReturnIsSeen
          DEF Returns
<1>4. CASE Reverts
  <2> PICK fn : revert(fn)
    BY <1>4 DEF Reverts
  <2>1. Len(stack) = 1
    BY <1>1 DEF revert, Returned
  <2>2. stack' = <<>> /\ Top = Open /\ Outside = Open.saved
    BY <2>1, OpenTypes, ReturnEmpties DEF revert
  <2> QED BY <2>2, AtRestNext DEF revert, SeenUnchanged, Committed!vars
<1>5. CASE WholeCalls \/ PricesMove
  <2>1. stack' = stack
    BY <1>5 DEF WholeCalls, PricesMove, Whole
  <2>2. CASE stack = <<>>
    BY <1>5, <2>1, <2>2, WholeIsSeen
  <2>3. CASE stack # <<>>
    <3>1. feed' = feed
      BY <1>5, <2>3
      DEF WholeCalls, PricesMove, Whole, mintDSC, burnDSC, HoldTokens, HoldCoins,
          tokenTransfer, tokenTransferFrom, tokenApprove,
          coinTransfer, coinTransferFrom, coinBurnFrom, coinApprove
    <3>2. Outside' = Outside
      BY <2>1, <2>3 DEF Outside
    <3> QED BY <3>1, <3>2 DEF SeenUnchanged, Committed!vars
  <2> QED BY <2>2, <2>3
<1> QED BY <1>2, <1>3, <1>4, <1>5 DEF StepsNext

LEMMA OpenInvKept ==
  ASSUME StepsTypeOK, OpenInv, [StepsNext]_steps
  PROVE  OpenInv'
<1> SUFFICES ASSUME ~reentered'
             PROVE  stack' = <<>> \/ (Len(stack') = 1 /\ HalfDone')
  BY DEF OpenInv
<1>1. CASE UNCHANGED steps
  <2>1. HalfDone' <=> HalfDone
    BY <1>1 DEF steps, HalfDone, DepositOpen, WithdrawalOpen, LiquidationOpen, RedeemOpen,
                DebtsAsSaved, Open, isAllowedToken, HealthFits, Health, AccountValue,
                AccountValueFits, Price, Priced
  <2> QED BY <1>1, <2>1 DEF steps, OpenInv
<1>2. CASE Calls
  <2> PICK fn, caller, t, n, debt, user, health : Called(fn, caller, t, n, debt, user, health)
    BY <1>2 DEF Calls, depositCollateralCall, _redeemCollateralCall, liquidateCall
  <2>1. reentered' = (stack # <<>>)
    BY DEF Called
  <2>2. stack = <<>>
    BY <2>1, Zenon
  <2> QED BY <1>2, <2>2, CallHalfDone
<1>3. CASE Returns \/ Reverts
  <2> PICK fn : Returned(fn)
    BY <1>3 DEF Returns, Reverts, revert, depositCollateralReturn, _redeemCollateralReturn,
                liquidateReturn
  <2>1. stack \in Seq(Frame) /\ stack # <<>> /\ Len(stack) \in Nat \ {0}
    BY EmptySeq DEF Returned, StepsTypeOK
  <2>2. ~(reentered /\ Len(stack) > 1)
    <3>1. reentered' = (reentered /\ Len(stack) > 1)
      BY DEF Returned
    <3> QED BY <3>1, Zenon
  <2>3. CASE reentered
    BY <2>1, <2>2, <2>3, ReturnEmpties
  <2>4. CASE ~reentered
    BY <2>1, <2>4, ReturnEmpties DEF OpenInv
  <2> QED BY <2>3, <2>4
<1>4. CASE WholeCalls \/ PricesMove
  BY <1>4 DEF WholeCalls, PricesMove, Whole
<1> QED BY <1>1, <1>2, <1>3, <1>4 DEF StepsNext

(* The engine with its calls cut open implements the engine of whole       *)
(* transactions, as long as nobody calls within a call: with what the      *)
(* outermost open call began with for its state, every step is one of the  *)
(* engine's or none.                                                       *)
THEOREM TransactionsAreAtomic == StepsSpec => SeenFromOutside
<1>1. StepsInit => Committed!Init /\ OpenInv
  <2> SUFFICES ASSUME StepsInit PROVE Committed!Init /\ OpenInv
    OBVIOUS
  <2>1. stack = <<>> /\ Init
    BY DEF StepsInit
  <2>2. Committed!EmptyLedger = EmptyLedger /\ Committed!EndowedLedger = EndowedLedger
    BY SameTotals DEF Committed!EmptyLedger, EmptyLedger, Committed!EndowedLedger, EndowedLedger
  <2> QED BY <2>1, <2>2, AtRest DEF Init, Committed!Init, OpenInv
<1>2. StepsTypeOK /\ OpenInv /\ [StepsNext]_steps => OpenInv'
  BY OpenInvKept
<1>3. StepsTypeOK /\ OpenInv /\ [StepsNext]_steps => [reentered \/ Committed!Next]_(Committed!vars)
  <2> SUFFICES ASSUME StepsTypeOK, OpenInv, [StepsNext]_steps, ~reentered
               PROVE  Committed!Next \/ SeenUnchanged
    BY DEF SeenUnchanged
  <2>1. CASE UNCHANGED steps
    BY <2>1 DEF steps, SeenUnchanged, Committed!vars, Outside, Now
  <2> QED BY <2>1, StepIsSeen
<1> QED BY <1>1, <1>2, <1>3, StepsTypeCorrect, PTL DEF StepsSpec, SeenFromOutside
===============================================================================
