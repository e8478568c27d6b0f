---------------------------- MODULE DSCEngineSteps ----------------------------
(***************************************************************************)
(* DSCEngine with its calls cut open where a collateral token hands        *)
(* control to somebody: before it takes a deposit from its holder, after   *)
(* it has paid one out.  There any account may call anything again, and    *)
(* only the engine's lock stands in the way.  Tokens are cut open as the   *)
(* vendored ERC777 is; a plain ERC20 is the case where nothing happens in  *)
(* between.  The engine's own coin calls nobody, so minting and burning    *)
(* stay whole.                                                             *)
(*                                                                         *)
(* The variables of DSCEngine are what a call sees now.  The open calls    *)
(* are frames of a stack, each with the state a revert gives back.         *)
(***************************************************************************)
EXTENDS DSCEngine

CONSTANT MaxFrames   \* calls open at a time

ASSUME StepsAssumption == MaxFrames \in Nat

VARIABLES
  _status,     \* ReentrancyGuard's lock
  stack,       \* the open calls, the outermost first
  reentered    \* whether the open transaction made a call within a call (history)

steps == <<s_collateralDeposited, s_DSCMinted, collateral, dsc, feed, _status, stack, reentered>>

Statuses == {"_NOT_ENTERED", "_ENTERED"}

Guarded == {"depositCollateral", "liquidate"}

Snapshot == [deposited  : [Accounts -> [Tokens -> UInt]],
             minted     : [Accounts -> UInt],
             collateral : [Tokens -> Ledger],
             dsc        : Ledger,
             status     : Statuses]

Now == [deposited |-> s_collateralDeposited, minted |-> s_DSCMinted,
        collateral |-> collateral, dsc |-> dsc, status |-> _status]

Frame == [fn     : Guarded \cup {"_redeemCollateral"},
          caller : Accounts,   \* whose hook is waited for
          token  : Tokens,
          amount : UInt,       \* of collateral
          debt   : UInt,       \* to mint after the deposit, or covered; else 0
          user   : Accounts,   \* whose books change
          health : UInt,       \* startingUserHealthFactor
          saved  : Snapshot]

StepsInit == Init /\ _status = "_NOT_ENTERED" /\ stack = <<>> /\ reentered = FALSE

-----------------------------------------------------------------------------
(* Opening, closing and undoing calls. *)

(* A slip to compare with: a function without the modifier. *)
nonReentrant_absent == TRUE

nonReentrant == _status # "_ENTERED"

Top == stack[Len(stack)]

Called(fn, caller, t, n, debt, user, health) ==
  /\ Len(stack) < MaxFrames
  /\ stack' = Append(stack, [fn |-> fn, caller |-> caller, token |-> t, amount |-> n,
                             debt |-> debt, user |-> user, health |-> health, saved |-> Now])
  /\ reentered' = (stack # <<>>)

Returned(fn) ==
  /\ stack # <<>> /\ Top.fn = fn
  /\ stack' = SubSeq(stack, 1, Len(stack) - 1)
  /\ reentered' = (reentered /\ Len(stack) > 1)

(* A call of no interest to anybody else: it opens and closes in a step. *)
Whole(call) ==
  /\ call
  /\ reentered' = (stack # <<>>)
  /\ UNCHANGED <<_status, stack>>

(* A slip to compare with: the deposits written are not undone. *)
revert_keepsDeposit(fn) ==
  /\ Returned(fn)
  /\ s_DSCMinted' = Top.saved.minted
  /\ collateral' = Top.saved.collateral
  /\ dsc' = Top.saved.dsc
  /\ _status' = Top.saved.status
  /\ UNCHANGED <<s_collateralDeposited, feed>>

(* The innermost call fails, for whatever reason; its caller may live on. *)
revert(fn) ==
  /\ Returned(fn)
  /\ s_collateralDeposited' = Top.saved.deposited
  /\ s_DSCMinted' = Top.saved.minted
  /\ collateral' = Top.saved.collateral
  /\ dsc' = Top.saved.dsc
  /\ _status' = Top.saved.status
  /\ UNCHANGED feed

-----------------------------------------------------------------------------
(* depositCollateral, and depositCollateralAndMintDSC where m is not 0: up *)
(* to the hook of the holder, the allowance already spent.                 *)
depositCollateralCall(u, t, n, m) ==
  /\ nonReentrant
  /\ n > 0
  /\ isAllowedToken(t)
  /\ s_collateralDeposited[u][t] + n <= MaxUint
  /\ CanSpend(collateral[t], u, Engine, n)
  /\ s_collateralDeposited' = Deposited(u, t, n)
  /\ collateral' = [collateral EXCEPT ![t] = Spend(@, u, Engine, n)]
  /\ _status' = "_ENTERED"
  /\ Called("depositCollateral", u, t, n, m, u, 0)
  /\ UNCHANGED <<s_DSCMinted, dsc, feed>>

(* The tokens move, the lock opens, and the coins are minted. *)
depositCollateralReturn ==
  /\ Returned("depositCollateral")
  /\ CanTransfer(collateral[Top.token], Top.caller, Engine, Top.amount)
  /\ collateral' = [collateral EXCEPT ![Top.token] = Transfer(@, Top.caller, Engine, Top.amount)]
  /\ _status' = "_NOT_ENTERED"
  /\ \/ Top.debt = 0 /\ UNCHANGED <<s_DSCMinted, dsc>>
     \/ /\ CanMintDSC(Top.caller, s_collateralDeposited[Top.caller], Top.debt)
        /\ s_DSCMinted' = [s_DSCMinted EXCEPT ![Top.caller] = @ + Top.debt]
        /\ dsc' = Mint(dsc, Top.caller, Top.debt)
  /\ UNCHANGED <<s_collateralDeposited, feed>>

(* Public, without a lock: up to the hook of the receiver. *)
_redeemCollateralCall(t, n, from, to) ==
  /\ CanRedeem(t, n, from, to)
  /\ Redeem(t, n, from, to)
  /\ Called("_redeemCollateral", to, t, n, 0, from, 0)
  /\ UNCHANGED <<s_DSCMinted, dsc, feed, _status>>

_redeemCollateralReturn ==
  /\ Returned("_redeemCollateral")
  /\ UNCHANGED <<s_collateralDeposited, s_DSCMinted, collateral, dsc, feed, _status>>

(* Up to the hook of the caller, who has been paid and not paid yet. *)
liquidateCall(caller, t, user, debtToCover) ==
  /\ nonReentrant
  /\ debtToCover > 0
  /\ Liquidatable(user)
  /\ Priced(t) /\ SeizedFits(Price(t), debtToCover)
  /\ LET seized == Seized(Price(t), debtToCover)
     IN  /\ CanRedeem(t, seized, user, caller)
         /\ Redeem(t, seized, user, caller)
         /\ Called("liquidate", caller, t, seized, debtToCover, user,
                   Health(s_collateralDeposited[user], s_DSCMinted[user]))
  /\ _status' = "_ENTERED"
  /\ UNCHANGED <<s_DSCMinted, dsc, feed>>

liquidateReturn ==
  /\ Returned("liquidate")
  /\ CanBurnDsc(Top.debt, Top.user, Top.caller)
  /\ BurnDsc(Top.debt, Top.user, Top.caller)
  /\ HealthFits(s_collateralDeposited[Top.user], s_DSCMinted'[Top.user])
  /\ Health(s_collateralDeposited[Top.user], s_DSCMinted'[Top.user]) > Top.health
  /\ HealthHolds(s_collateralDeposited[Top.caller], s_DSCMinted'[Top.caller])
  /\ _status' = "_NOT_ENTERED"
  /\ UNCHANGED <<s_collateralDeposited, collateral, feed>>

-----------------------------------------------------------------------------
Calls ==
  \E t \in Tokens :
    \/ \E u \in Users, n \in DepositAmounts :
         \/ depositCollateralCall(u, t, n, 0)
         \/ \E m \in DebtAmounts : m > 0 /\ MayMint(m) /\ depositCollateralCall(u, t, n, m)
    \/ \E n \in DepositAmounts, from \in Accounts, to \in Address :
         _redeemCollateralCall(t, n, from, to)
    \/ \E u \in Users, user \in Accounts, m \in DebtAmounts : liquidateCall(u, t, user, m)

Returns == depositCollateralReturn \/ _redeemCollateralReturn \/ liquidateReturn

Reverts == \E fn \in Guarded \cup {"_redeemCollateral"} : revert(fn)

WholeCalls ==
  \/ \E u \in Users, m \in DebtAmounts :
       \/ MayMint(m) /\ Whole(nonReentrant /\ mintDSC(u, m))
       \/ Whole(nonReentrant /\ burnDSC(u, m))
  \/ Whole(HoldTokens)
  \/ Whole(HoldCoins)

(* Prices change between transactions only. *)
PricesMove == stack = <<>> /\ Whole(FeedsMove)

StepsNext == Calls \/ Returns \/ Reverts \/ WholeCalls \/ PricesMove

StepsSpec == StepsInit /\ [][StepsNext]_steps

-----------------------------------------------------------------------------
(* Everything a revert can bring back is a state of the system. *)
StepsTypeOK ==
  /\ TypeOK
  /\ _status \in Statuses
  /\ stack \in Seq(Frame) /\ Len(stack) <= MaxFrames
  /\ reentered \in BOOLEAN

(* The lock is closed exactly while one guarded call is open, and two are  *)
(* never, whatever the hooks call and whatever reverts inside what         *)
(* (nonReentrant around depositCollateral and liquidate).                  *)
GuardedFrames(frames) == {i \in 1..Len(frames) : frames[i].fn \in Guarded}

OneGuardedCall ==
  /\ \A i, j \in GuardedFrames(stack) : i = j
  /\ _status = "_ENTERED" <=> GuardedFrames(stack) # {}

(* What a deposit has written down and not taken yet, in these frames. *)
Pending(frames, t) ==
  Total([i \in 1..Len(frames) |->
           IF frames[i].fn = "depositCollateral" /\ frames[i].token = t THEN frames[i].amount ELSE 0],
        1..Len(frames))

(* In the middle of a call too the engine has what its books say, save for *)
(* the deposits it is about to be paid (depositCollateral writes before it *)
(* takes, _redeemCollateral before it gives).  At rest this is Solvency.   *)
Backed == \A t \in Tokens : Deposits(t) <= collateral[t].balances[Engine] + Pending(stack, t)

(* While a guarded call waits on a hook nobody's debt moves: minting,      *)
(* repaying and liquidating in between would meet half-written books.      *)
DebtsStandStill ==
  [][_status = "_ENTERED" /\ _status' = "_ENTERED" => UNCHANGED <<s_DSCMinted>>]_steps

(* What other transactions would see: the state the outermost open call    *)
(* began with, until it returns.                                           *)
Outside == IF stack = <<>> THEN Now ELSE stack[1].saved

Committed == INSTANCE DSCEngine
  WITH s_collateralDeposited <- Outside.deposited, s_DSCMinted <- Outside.minted,
       collateral <- Outside.collateral, dsc <- Outside.dsc

(* Cut open or not, a transaction nobody re-enters is one step of the      *)
(* engine, or none when it reverts.                                        *)
SeenFromOutside ==
  Committed!Init /\ [][reentered \/ Committed!Next]_(Committed!vars)
=============================================================================
