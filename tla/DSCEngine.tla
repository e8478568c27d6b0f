------------------------------ MODULE DSCEngine ------------------------------
(***************************************************************************)
(* The deployed system: the engine, its collateral tokens, the stable coin *)
(* it owns and the price feeds it reads.  A transaction is one step, and a *)
(* transaction that reverts leaves no trace, so an action is enabled       *)
(* exactly when its call succeeds.  redeemCollateral and                   *)
(* redeemCollateralForDSC enter nonReentrant twice, never succeed, and so  *)
(* have no step here.                                                      *)
(***************************************************************************)
EXTENDS ERC20, Valuation, Sequences

CONSTANTS
  Engine,                  \* address(this)
  Tokens,                  \* the ERC20 tokens users may hold
  Feeds,                   \* the Chainlink feeds
  NoAnswer,                \* what reading a stale feed comes to: a revert
  tokenAddresses,          \* the constructor's arguments
  priceFeedAddresses,
  MINIMUM_HEALTH_FACTOR,   \* 1: the constant the engine compares with
  MIN_HEALTH_FACTOR        \* 1e18: a health factor of one

ASSUME EngineAssumption ==
  /\ Engine \in Accounts
  /\ tokenAddresses \in Seq(Tokens)
  /\ priceFeedAddresses \in Seq(Feeds \cup {ZeroAddress})
  /\ Len(tokenAddresses) = Len(priceFeedAddresses)
  /\ NoAnswer \notin Int /\ ZeroAddress \notin Feeds
  /\ MINIMUM_HEALTH_FACTOR \in UInt /\ MIN_HEALTH_FACTOR \in UInt

(* What the environment calls with. *)
CONSTANTS
  Endowment,        \* what every user holds of every token at first
  Answers,          \* the answers the feeds give
  DepositAmounts,   \* collateral deposited and withdrawn
  DebtAmounts,      \* DSC minted, burned and covered
  TokenTransfers,   \* collateral moved outside the engine
  CoinTransfers,    \* DSC moved or burned outside the engine
  Approvals,        \* the allowances users give
  TokenSpenders,    \* to these accounts, on collateral
  CoinSpenders,     \* and on DSC
  SupplyBound       \* minting stops here; MaxUint is no bound at all

Users == Accounts \ {Engine}

Address == Accounts \cup {ZeroAddress}

EndowedLedger ==
  LET balances == [a \in Accounts |-> IF a = Engine THEN 0 ELSE Endowment]
  IN  [EmptyLedger EXCEPT !.balances = balances, !.totalSupply = Total(balances, Accounts)]

ASSUME InputsAssumption ==
  /\ Endowment \in UInt /\ Total(EndowedLedger.balances, Accounts) \in UInt
  /\ Answers \subseteq Int256
  /\ DepositAmounts \subseteq UInt /\ DebtAmounts \subseteq UInt
  /\ TokenTransfers \subseteq UInt /\ CoinTransfers \subseteq UInt
  /\ Approvals \subseteq UInt /\ TokenSpenders \subseteq Accounts /\ CoinSpenders \subseteq Accounts

VARIABLES
  s_collateralDeposited,   \* user -> token -> amount
  s_DSCMinted,             \* user -> amount
  collateral,              \* token -> its ledger
  dsc,                     \* the stable coin's ledger; the engine owns it
  feed                     \* feed -> what staleCheckLatestRoundData returns

books  == <<s_collateralDeposited, s_DSCMinted>>
vars   == <<s_collateralDeposited, s_DSCMinted, collateral, dsc, feed>>

(* The constructor: of two feeds for one token the later stays. *)
s_priceFeeds ==
  [t \in Tokens |->
     LET listed == {i \in DOMAIN tokenAddresses : tokenAddresses[i] = t}
     IN  IF listed = {} THEN ZeroAddress
         ELSE priceFeedAddresses[CHOOSE i \in listed : \A j \in listed : j <= i]]

isAllowedToken(t) == s_priceFeeds[t] # ZeroAddress

Init ==
  /\ s_collateralDeposited = [u \in Accounts |-> [t \in Tokens |-> 0]]
  /\ s_DSCMinted = [u \in Accounts |-> 0]
  /\ collateral = [t \in Tokens |-> EndowedLedger]
  /\ dsc = EmptyLedger
  /\ feed \in [Feeds -> Answers]

-----------------------------------------------------------------------------
(* Prices and health. *)

(* A token's price can be read: its feed exists and answers in time. *)
Priced(t) == isAllowedToken(t) /\ feed[s_priceFeeds[t]] # NoAnswer

Price(t) == feed[s_priceFeeds[t]]

Listed == DOMAIN tokenAddresses

(* getAccountCollateralValue of a user with these deposits: one reading    *)
(* per listed token, of tokens the user never deposited too.               *)
AccountValue(deposits) ==
  Total([i \in Listed |-> UsdValue(Price(tokenAddresses[i]), deposits[tokenAddresses[i]])], Listed)

AccountValueFits(deposits) ==
  /\ \A i \in Listed : /\ Priced(tokenAddresses[i])
                       /\ UsdValueFits(Price(tokenAddresses[i]), deposits[tokenAddresses[i]])
  /\ AccountValue(deposits) <= MaxUint

(* A slip to compare with: the answer for no debt comes before the prices  *)
(* are read.                                                               *)
HealthFits_debtFirst(deposits, minted) ==
  \/ minted = 0
  \/ AccountValueFits(deposits) /\ HealthFactorFits(minted, AccountValue(deposits))

(* _healthFactor *)
HealthFits(deposits, minted) ==
  AccountValueFits(deposits) /\ HealthFactorFits(minted, AccountValue(deposits))

Health(deposits, minted) == HealthFactor(minted, AccountValue(deposits))

(* _revertIfHealthFactorIsBroken lets the call go on. *)
HealthHolds(deposits, minted) ==
  HealthFits(deposits, minted) /\ Health(deposits, minted) >= MINIMUM_HEALTH_FACTOR

-----------------------------------------------------------------------------
(* Collateral in, debt up. *)

CanDeposit(u, t, n) ==
  /\ n > 0
  /\ isAllowedToken(t)
  /\ s_collateralDeposited[u][t] + n <= MaxUint
  /\ CanTransferFrom(collateral[t], Engine, u, Engine, n)

Deposited(u, t, n) == [s_collateralDeposited EXCEPT ![u][t] = @ + n]

(* A slip to compare with: the health is checked before the debt is added. *)
CanMintDSC_checkedFirst(u, deposits, n) ==
  /\ n > 0
  /\ s_DSCMinted[u] + n <= MaxUint
  /\ HealthHolds(deposits, s_DSCMinted[u])
  /\ CanMint(dsc, u, n)

CanMintDSC(u, deposits, n) ==
  /\ n > 0
  /\ s_DSCMinted[u] + n <= MaxUint
  /\ HealthHolds(deposits, s_DSCMinted[u] + n)
  /\ CanMint(dsc, u, n)

depositCollateral(u, t, n) ==
  /\ CanDeposit(u, t, n)
  /\ s_collateralDeposited' = Deposited(u, t, n)
  /\ collateral' = [collateral EXCEPT ![t] = TransferFrom(@, Engine, u, Engine, n)]
  /\ UNCHANGED <<s_DSCMinted, dsc, feed>>

mintDSC(u, n) ==
  /\ CanMintDSC(u, s_collateralDeposited[u], n)
  /\ s_DSCMinted' = [s_DSCMinted EXCEPT ![u] = @ + n]
  /\ dsc' = Mint(dsc, u, n)
  /\ UNCHANGED <<s_collateralDeposited, collateral, feed>>

depositCollateralAndMintDSC(u, t, n, m) ==
  /\ CanDeposit(u, t, n)
  /\ CanMintDSC(u, Deposited(u, t, n)[u], m)
  /\ s_collateralDeposited' = Deposited(u, t, n)
  /\ collateral' = [collateral EXCEPT ![t] = TransferFrom(@, Engine, u, Engine, n)]
  /\ s_DSCMinted' = [s_DSCMinted EXCEPT ![u] = @ + m]
  /\ dsc' = Mint(dsc, u, m)
  /\ UNCHANGED feed

-----------------------------------------------------------------------------
(* Debt down, collateral out. *)

(* A slip to compare with: the engine burns without having taken the coins.*)
Taken_nothing(dscFrom, n) == dsc

(* _burnDsc: the engine takes the coins from dscFrom, then burns as many   *)
(* of its own.                                                             *)
Taken(dscFrom, n) == TransferFrom(dsc, Engine, dscFrom, Engine, n)

CanBurnDsc(n, onBehalfOf, dscFrom) ==
  /\ s_DSCMinted[onBehalfOf] >= n
  /\ CanTransferFrom(dsc, Engine, dscFrom, Engine, n)
  /\ CanBurn(Taken(dscFrom, n), Engine, n)

(* A slip to compare with: the coins taken are not burned. *)
BurnDsc_keepsCoins(n, onBehalfOf, dscFrom) ==
  /\ s_DSCMinted' = [s_DSCMinted EXCEPT ![onBehalfOf] = @ - n]
  /\ dsc' = Taken(dscFrom, n)

BurnDsc(n, onBehalfOf, dscFrom) ==
  /\ s_DSCMinted' = [s_DSCMinted EXCEPT ![onBehalfOf] = @ - n]
  /\ dsc' = Burn(Taken(dscFrom, n), Engine, n)

(* A slip to compare with: the subtraction is not checked. *)
CanRedeem_unchecked(t, n, from, to) ==
  n # 0 /\ isAllowedToken(t) /\ CanTransfer(collateral[t], Engine, to, n)

CanRedeem(t, n, from, to) ==
  /\ n # 0
  /\ isAllowedToken(t)
  /\ s_collateralDeposited[from][t] >= n
  /\ CanTransfer(collateral[t], Engine, to, n)

(* A slip to compare with: the deposit is not written down. *)
Redeemed_forgotten(t, n, from) == s_collateralDeposited

Redeemed(t, n, from) == [s_collateralDeposited EXCEPT ![from][t] = @ - n]

Redeem(t, n, from, to) ==
  /\ s_collateralDeposited' = Redeemed(t, n, from)
  /\ collateral' = [collateral EXCEPT ![t] = Transfer(@, Engine, to, n)]

burnDSC(u, n) ==
  /\ n > 0
  /\ CanBurnDsc(n, u, u)
  /\ HealthHolds(s_collateralDeposited[u], s_DSCMinted[u] - n)
  /\ BurnDsc(n, u, u)
  /\ UNCHANGED <<s_collateralDeposited, collateral, feed>>

(* Public, whoever calls it: neither a health check nor a lock. *)
_redeemCollateral(t, n, from, to) ==
  /\ CanRedeem(t, n, from, to)
  /\ Redeem(t, n, from, to)
  /\ UNCHANGED <<s_DSCMinted, dsc, feed>>

(* A slip to compare with: any account can be liquidated. *)
Liquidatable_always(user) == HealthFits(s_collateralDeposited[user], s_DSCMinted[user])

(* The account is below the minimum. *)
Liquidatable(user) ==
  /\ HealthFits(s_collateralDeposited[user], s_DSCMinted[user])
  /\ ~(Health(s_collateralDeposited[user], s_DSCMinted[user]) >= MINIMUM_HEALTH_FACTOR)

liquidate(caller, t, user, debtToCover) ==
  /\ debtToCover > 0
  /\ Liquidatable(user)
  /\ Priced(t) /\ SeizedFits(Price(t), debtToCover)
  /\ LET seized == Seized(Price(t), debtToCover)
         left   == Redeemed(t, seized, user)
         owed   == [s_DSCMinted EXCEPT ![user] = @ - debtToCover]
     IN  /\ CanRedeem(t, seized, user, caller)
         /\ CanBurnDsc(debtToCover, user, caller)
         /\ HealthFits(left[user], owed[user])
         /\ Health(left[user], owed[user]) > Health(s_collateralDeposited[user], s_DSCMinted[user])
         /\ HealthHolds(left[caller], owed[caller])
         /\ Redeem(t, seized, user, caller)
         /\ BurnDsc(debtToCover, user, caller)
  /\ UNCHANGED feed

-----------------------------------------------------------------------------
(* Calls users make on the tokens themselves.  increaseAllowance and       *)
(* decreaseAllowance are approvals of another amount.                      *)

tokenTransfer(u, t, to, n) ==
  /\ CanTransfer(collateral[t], u, to, n)
  /\ collateral' = [collateral EXCEPT ![t] = Transfer(@, u, to, n)]
  /\ UNCHANGED <<s_collateralDeposited, s_DSCMinted, dsc, feed>>

tokenTransferFrom(u, t, from, to, n) ==
  /\ CanTransferFrom(collateral[t], u, from, to, n)
  /\ collateral' = [collateral EXCEPT ![t] = TransferFrom(@, u, from, to, n)]
  /\ UNCHANGED <<s_collateralDeposited, s_DSCMinted, dsc, feed>>

tokenApprove(u, t, spender, n) ==
  /\ collateral' = [collateral EXCEPT ![t] = Approve(@, u, spender, n)]
  /\ UNCHANGED <<s_collateralDeposited, s_DSCMinted, dsc, feed>>

coinTransfer(u, to, n) ==
  /\ CanTransfer(dsc, u, to, n)
  /\ dsc' = Transfer(dsc, u, to, n)
  /\ UNCHANGED <<s_collateralDeposited, s_DSCMinted, collateral, feed>>

coinTransferFrom(u, from, to, n) ==
  /\ CanTransferFrom(dsc, u, from, to, n)
  /\ dsc' = TransferFrom(dsc, u, from, to, n)
  /\ UNCHANGED <<s_collateralDeposited, s_DSCMinted, collateral, feed>>

coinApprove(u, spender, n) ==
  /\ dsc' = Approve(dsc, u, spender, n)
  /\ UNCHANGED <<s_collateralDeposited, s_DSCMinted, collateral, feed>>

coinBurnFrom(u, from, n) ==
  /\ CanBurnFrom(dsc, u, from, n)
  /\ dsc' = BurnFrom(dsc, u, from, n)
  /\ UNCHANGED <<s_collateralDeposited, s_DSCMinted, collateral, feed>>

(* A feed publishes, or OracleLib starts or stops refusing what it has. *)
feedChanges(f, reading) ==
  /\ reading # feed[f]
  /\ feed' = [feed EXCEPT ![f] = reading]
  /\ UNCHANGED <<s_collateralDeposited, s_DSCMinted, collateral, dsc>>

-----------------------------------------------------------------------------
MayMint(n) == dsc.totalSupply + n <= SupplyBound

Borrow ==
  \E u \in Users :
    \/ \E m \in DebtAmounts : MayMint(m) /\ mintDSC(u, m)
    \/ \E t \in Tokens, n \in DepositAmounts :
         \/ depositCollateral(u, t, n)
         \/ \E m \in DebtAmounts : MayMint(m) /\ depositCollateralAndMintDSC(u, t, n, m)

Repay ==
  \/ \E u \in Users, m \in DebtAmounts : burnDSC(u, m)
  \/ \E t \in Tokens, n \in DepositAmounts, from \in Accounts, to \in Address :
       _redeemCollateral(t, n, from, to)

Liquidate ==
  \E u \in Users, t \in Tokens, user \in Accounts, m \in DebtAmounts : liquidate(u, t, user, m)

HoldTokens ==
  \E u \in Users, t \in Tokens :
    \/ \E to \in Address, n \in TokenTransfers :
         \/ tokenTransfer(u, t, to, n)
         \/ \E from \in Accounts : tokenTransferFrom(u, t, from, to, n)
    \/ \E spender \in TokenSpenders, n \in Approvals : tokenApprove(u, t, spender, n)

HoldCoins ==
  \E u \in Users :
    \/ \E to \in Address, n \in CoinTransfers :
         \/ coinTransfer(u, to, n)
         \/ \E from \in Accounts : coinTransferFrom(u, from, to, n)
    \/ \E from \in Accounts, n \in CoinTransfers : coinBurnFrom(u, from, n)
    \/ \E spender \in CoinSpenders, n \in Approvals : coinApprove(u, spender, n)

FeedsMove == \E f \in Feeds, reading \in Answers \cup {NoAnswer} : feedChanges(f, reading)

Next == Borrow \/ Repay \/ Liquidate \/ HoldTokens \/ HoldCoins \/ FeedsMove

Spec == Init /\ [][Next]_vars

-----------------------------------------------------------------------------
(* Properties. *)

(* Every amount fits its uint256, every ledger is one, every feed answers  *)
(* what a feed can answer.                                                 *)
TypeOK ==
  /\ s_collateralDeposited \in [Accounts -> [Tokens -> UInt]]
  /\ s_DSCMinted \in [Accounts -> UInt]
  /\ collateral \in [Tokens -> Ledger]
  /\ dsc \in Ledger
  /\ feed \in [Feeds -> Answers \cup {NoAnswer}]

(* What users have on deposit of a token, and what the engine holds of it  *)
(* beyond that: donations, and withdrawals sent to the engine itself.      *)
Deposits(t) == Total([u \in Accounts |-> s_collateralDeposited[u][t]], Accounts)

Surplus(t) == collateral[t].balances[Engine] - Deposits(t)

(* The engine can always pay out every deposit it has recorded, whatever   *)
(* mixture of deposits, withdrawals by anyone to anyone, liquidations and  *)
(* donations came before (depositCollateral, _redeemCollateral).           *)
Solvency == \A t \in Tokens : Deposits(t) <= collateral[t].balances[Engine]

(* Every coin in circulation is somebody's recorded debt: mintDSC and      *)
(* _burnDsc move debt and supply together, and burnFrom, which the engine  *)
(* does not see, only makes the supply the smaller.                        *)
SupplyIsOwed == dsc.totalSupply <= Total(s_DSCMinted, Accounts)

(* No call spends what was given to the engine: collateral beyond the      *)
(* deposits and the engine's own coins never leave it.  In particular      *)
(* burn, which takes any coins the engine has, takes only those _burnDsc   *)
(* has just brought in.                                                    *)
DonationsStay ==
  [][/\ \A t \in Tokens : Surplus(t)' >= Surplus(t)
     /\ dsc'.balances[Engine] >= dsc.balances[Engine]]_vars

(* While the prices stand still, a call breaks an account's health only by *)
(* taking collateral from it with its debt as it was: minting, repaying,   *)
(* liquidating (for the liquidator as for the liquidated) and depositing   *)
(* never do.                                                               *)
Broken(u) ==
  /\ HealthFits(s_collateralDeposited[u], s_DSCMinted[u])
  /\ ~HealthHolds(s_collateralDeposited[u], s_DSCMinted[u])

HealthLossHasCause ==
  [][\A u \in Accounts :
       UNCHANGED feed /\ ~Broken(u) /\ Broken(u)' =>
         /\ s_DSCMinted'[u] = s_DSCMinted[u]
         /\ \E t \in Tokens : s_collateralDeposited'[u][t] < s_collateralDeposited[u][t]]_vars

(* The terms of a liquidation, the one call that lowers a debt and a       *)
(* deposit of one account: the account was broken before, is better off    *)
(* after, and gave up collateral worth no more than the debt it was        *)
(* relieved of plus the bonus.                                             *)
LiquidationTerms ==
  [][\A u \in Accounts, t \in Tokens :
       LET taken   == s_collateralDeposited[u][t] - s_collateralDeposited'[u][t]
           covered == s_DSCMinted[u] - s_DSCMinted'[u]
       IN  taken > 0 /\ covered > 0 =>
             /\ Broken(u)
             /\ Health(s_collateralDeposited'[u], s_DSCMinted'[u])
                  > Health(s_collateralDeposited[u], s_DSCMinted[u])
             /\ UsdValue(Price(t), taken) * LIQUIDATION_PRECISION
                  <= covered * (LIQUIDATION_PRECISION + LIQUIDATION_BONUS)]_vars

(* No debt moves on a stale price, of whichever listed token: every call   *)
(* that changes s_DSCMinted reads the whole account.                       *)
StaleFreezesDebt ==
  [][(\E i \in Listed : ~Priced(tokenAddresses[i])) => UNCHANGED <<s_DSCMinted>>]_vars

-----------------------------------------------------------------------------
(* What the repository says of the engine, and the engine does not do.     *)

(* "If a user goes below a health factor of 1, then they can be            *)
(* liquidated": liquidate's first check lets such an account through.      *)
UnderwaterIsLiquidatable ==
  \A u \in Accounts :
    LET deposits == s_collateralDeposited[u]
        minted   == s_DSCMinted[u]
    IN  HealthFits(deposits, minted) /\ Health(deposits, minted) < MIN_HEALTH_FACTOR =>
          ~(Health(deposits, minted) >= MINIMUM_HEALTH_FACTOR)

(* "Private & Internal Functions": _redeemCollateral runs only inside a    *)
(* call that checks the health of the account it takes from, as            *)
(* redeemCollateral does on its next line.                                 *)
WithdrawalIsChecked ==
  [][\A u \in Accounts, t \in Tokens :
       s_collateralDeposited'[u][t] < s_collateralDeposited[u][t] =>
         s_DSCMinted'[u] < s_DSCMinted[u] \/ HealthHolds(s_collateralDeposited[u], s_DSCMinted[u])']_vars
=============================================================================
