------------------------------- MODULE Handler -------------------------------
(***************************************************************************)
(* The fuzz suite: the Handler contract drives the engine for senders the  *)
(* fuzzer picks, at prices that never move, and after every call the suite *)
(* asserts its invariant.  A call that reverts is passed over.             *)
(*                                                                         *)
(* The list of depositors matters as a set, since the fuzzer's seed may    *)
(* pick any of them; the counter of mints is only printed.                 *)
(***************************************************************************)
EXTENDS DSCEngine

CONSTANTS
  handler,              \* the handler's own address
  MAX_DEPOSIT_SIZE,
  CollateralBound       \* the fuzzer stops minting a token here

ASSUME HandlerAssumption == handler \in Users /\ MAX_DEPOSIT_SIZE \in UInt /\ CollateralBound \in UInt

(* What the suite's setUp deploys: a feed for every token, and a threshold *)
(* (50 in the code) that leaves a checked value well within an int256.     *)
ASSUME SetUpAssumption ==
  /\ \A i \in DOMAIN tokenAddresses : isAllowedToken(tokenAddresses[i])
  /\ LIQUIDATION_THRESHOLD >= 2

(* All the collateral the suite mints is far from the width of the         *)
(* integers: deposits are of uint96 and the mocks' prices constant.        *)
ASSUME RoomAssumption ==
  /\ EndowedLedger.totalSupply <= CollateralBound
  /\ \E most \in UInt :
       /\ \A price \in Answers :
            UsdValueFits(price, CollateralBound) /\ UsdValue(price, CollateralBound) <= most
       /\ Len(tokenAddresses) * most * LIQUIDATION_THRESHOLD <= MaxUint
       /\ Len(tokenAddresses) * most * PRECISION <= MaxUint
  /\ LIQUIDATION_PRECISION <= 2 * LIQUIDATION_THRESHOLD
  /\ MINIMUM_HEALTH_FACTOR <= PRECISION

VARIABLE usersThatHaveDepositedCollateral

handlerVars == <<vars, usersThatHaveDepositedCollateral>>

Senders == Users \ {handler}

HandlerInit == Init /\ usersThatHaveDepositedCollateral = {}

-----------------------------------------------------------------------------
(* Mint the collateral to the sender, approve it and deposit it. *)
fuzzDeposit(sender, t, n) ==
  LET minted   == Mint(collateral[t], sender, n)
      approved == Approve(minted, sender, Engine, n)
  IN  /\ n \in 1..MAX_DEPOSIT_SIZE
      /\ isAllowedToken(t)
      /\ CanMint(collateral[t], sender, n)
      /\ s_collateralDeposited[sender][t] + n <= MaxUint
      /\ CanTransferFrom(approved, Engine, sender, Engine, n)
      /\ s_collateralDeposited' = Deposited(sender, t, n)
      /\ collateral' = [collateral EXCEPT ![t] = TransferFrom(approved, Engine, sender, Engine, n)]
      /\ usersThatHaveDepositedCollateral' = usersThatHaveDepositedCollateral \cup {sender}
      /\ UNCHANGED <<s_DSCMinted, dsc, feed>>

(* int256(...) of an unsigned number. *)
Signed(n) == IF n > MaxUint \div 2 THEN n - (MaxUint + 1) ELSE n

(* Signed division rounds towards zero. *)
Half(n) == IF n < 0 THEN -((-n) \div 2) ELSE n \div 2

(* A slip to compare with: the debt there is already is forgotten. *)
maxDscToMint_anew(sender) == Wrapped(Half(Signed(AccountValue(s_collateralDeposited[sender]))))

(* Half the collateral's value less the debt, and read as unsigned again:  *)
(* below zero it would be no bound at all.                                 *)
maxDscToMint(sender) ==
  Wrapped(Half(Signed(AccountValue(s_collateralDeposited[sender]))) - Signed(s_DSCMinted[sender]))

fuzzMint(sender, n) ==
  /\ sender \in usersThatHaveDepositedCollateral
  /\ AccountValueFits(s_collateralDeposited[sender])
  /\ n \in 1..maxDscToMint(sender)
  /\ mintDSC(sender, n)
  /\ UNCHANGED usersThatHaveDepositedCollateral

(* A slip to compare with: the deposit of the sender, not the handler's.   *)
maxCollateralToRedeem_sender(sender, t) == s_collateralDeposited[sender][t]

(* redeemCollateral asks as the handler, for the handler's own deposit;    *)
(* where there is none it returns, where there were one it would revert.   *)
maxCollateralToRedeem(sender, t) == s_collateralDeposited[handler][t]

-----------------------------------------------------------------------------
HandlerNext ==
  \E sender \in Senders :
    \/ \E t \in Tokens, n \in DepositAmounts :
         collateral[t].totalSupply + n <= CollateralBound /\ fuzzDeposit(sender, t, n)
    \/ \E n \in DebtAmounts : fuzzMint(sender, n)

HandlerSpec == HandlerInit /\ [][HandlerNext]_handlerVars

-----------------------------------------------------------------------------
(* invariant_protocolMustHaveMoreValueThanSupply: what the engine holds is *)
(* worth at least the coins there are, though the engine itself lets an    *)
(* account borrow far beyond that (MINIMUM_HEALTH_FACTOR): it is the bound *)
(* mintDsc draws that keeps the suite's assertion true.                    *)
ProtocolHasMoreValueThanSupply ==
  LET held(t) == collateral[t].balances[Engine]
  IN  Total([i \in Listed |-> UsdValue(Price(tokenAddresses[i]), held(tokenAddresses[i]))], Listed)
        >= dsc.totalSupply

(* Each sender for itself has twice its debt in collateral, every rounding *)
(* of prices, halves and several mints included.                           *)
SendersAreDoublyBacked ==
  \A u \in Accounts : AccountValue(s_collateralDeposited[u]) >= 2 * s_DSCMinted[u]

(* No mint and no withdrawal of the handler reverts, so that what          *)
(* fail_on_revert = false passes over is neither: every amount within      *)
(* mintDsc's bounds passes the engine's health check, and redeemCollateral *)
(* always has nothing to redeem.                                           *)
NothingIsPassedOver ==
  \A sender \in Senders :
    /\ sender \in usersThatHaveDepositedCollateral =>
         \A n \in 1..maxDscToMint(sender) : CanMintDSC(sender, s_collateralDeposited[sender], n)
    /\ \A t \in Tokens : maxCollateralToRedeem(sender, t) = 0
=============================================================================
