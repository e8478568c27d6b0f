------------------------------ MODULE Valuation ------------------------------
(***************************************************************************)
(* DSCEngine's arithmetic: what collateral is worth, what a debt buys, and *)
(* the health factor.  Every division rounds down.  A ...Fits operator     *)
(* holds when the checked uint256 arithmetic of the function of that name  *)
(* does not revert.                                                        *)
(***************************************************************************)
EXTENDS UInt256

CONSTANTS
  PRECISION,                   \* 1e18 in the contract
  ADDITIONAL_FEED_PRECISION,   \* 1e10
  LIQUIDATION_THRESHOLD,       \* 50
  LIQUIDATION_PRECISION,       \* 100
  LIQUIDATION_BONUS            \* 10

ASSUME ScaleAssumption ==
  /\ PRECISION \in Nat \ {0}
  /\ ADDITIONAL_FEED_PRECISION \in Nat \ {0, 1}
  /\ LIQUIDATION_PRECISION \in Nat \ {0}
  /\ LIQUIDATION_THRESHOLD \in 0 .. LIQUIDATION_PRECISION
  /\ LIQUIDATION_BONUS \in 0 .. LIQUIDATION_PRECISION

(* The answers an int256 feed can give. *)
Int256 == -((MaxUint + 1) \div 2) .. ((MaxUint + 1) \div 2) - 1

(* A slip to compare with: the product is not checked for overflow. *)
ScaledPrice_unchecked(price) == Wrapped(price * ADDITIONAL_FEED_PRECISION)

(* ADDITIONAL_FEED_PRECISION * uint256(price): the price of PRECISION      *)
(* units of the token.  A negative answer becomes a huge unsigned one.     *)
ScaledPrice(price) == Wrapped(price) * ADDITIONAL_FEED_PRECISION

(* getUsdValue, once its price has been read *)
UsdValueFits(price, amount) ==
  ScaledPrice(price) <= MaxUint /\ ScaledPrice(price) * amount <= MaxUint

(* A slip to compare with: the division rounds up. *)
UsdValue_roundedUp(price, amount) == (ScaledPrice(price) * amount + PRECISION - 1) \div PRECISION

UsdValue(price, amount) == (ScaledPrice(price) * amount) \div PRECISION

(* getTokenAmountFromUsd: a zero price divides by zero *)
TokenAmountFits(price, usd) ==
  usd * PRECISION <= MaxUint /\ ScaledPrice(price) \in 1 .. MaxUint

TokenAmount(price, usd) == (usd * PRECISION) \div ScaledPrice(price)

(* A slip to compare with: the bonus is not scaled back. *)
Bonus_unscaled(tokens) == tokens * LIQUIDATION_BONUS

(* The collateral liquidate seizes for a debt: its worth and a bonus. *)
Bonus(tokens) == (tokens * LIQUIDATION_BONUS) \div LIQUIDATION_PRECISION

SeizedFits(price, debt) ==
  /\ TokenAmountFits(price, debt)
  /\ TokenAmount(price, debt) * LIQUIDATION_BONUS <= MaxUint
  /\ TokenAmount(price, debt) + Bonus(TokenAmount(price, debt)) <= MaxUint

Seized(price, debt) == TokenAmount(price, debt) + Bonus(TokenAmount(price, debt))

(* _calculateHealthFactor; no debt is the best health there is *)
AdjustedForThreshold(value) == (value * LIQUIDATION_THRESHOLD) \div LIQUIDATION_PRECISION

HealthFactorFits(minted, value) ==
  minted = 0 \/ /\ value * LIQUIDATION_THRESHOLD <= MaxUint
                /\ AdjustedForThreshold(value) * PRECISION <= MaxUint

(* A slip to compare with: divided before it is multiplied. *)
HealthFactor_dividedFirst(minted, value) ==
  IF minted = 0 THEN MaxUint
                ELSE (AdjustedForThreshold(value) \div minted) * PRECISION

HealthFactor(minted, value) ==
  IF minted = 0 THEN MaxUint
                ELSE (AdjustedForThreshold(value) * PRECISION) \div minted

-----------------------------------------------------------------------------
(* What the engine needs of this arithmetic, for one choice of arguments.  *)

(* Turning collateral into dollars and back, or a debt into collateral and *)
(* back, never gains: the roundings of getUsdValue and                     *)
(* getTokenAmountFromUsd both favour the protocol.                         *)
RoundTripLoses(price, amount, usd) ==
  /\ UsdValueFits(price, amount) /\ TokenAmountFits(price, UsdValue(price, amount)) =>
       TokenAmount(price, UsdValue(price, amount)) <= amount
  /\ TokenAmountFits(price, usd) => UsdValue(price, TokenAmount(price, usd)) <= usd

(* What liquidate seizes is never worth more than the debt it covers plus  *)
(* the advertised bonus, whatever the two roundings do.                    *)
BonusBounded(price, debt) ==
  SeizedFits(price, debt) =>
    UsdValue(price, Seized(price, debt)) * LIQUIDATION_PRECISION
      <= debt * (LIQUIDATION_PRECISION + LIQUIDATION_BONUS)

(* A negative answer, which nothing in OracleLib rejects, always reverts:  *)
(* its unsigned reading is too large to be scaled.                         *)
NegativeReverts(price, amount) ==
  price < 0 => ~UsdValueFits(price, amount) /\ ~TokenAmountFits(price, amount)

(* A health factor is at least h exactly when the debt, scaled by h, is    *)
(* within the adjusted collateral: what the division rounds away never     *)
(* decides a comparison with a whole h.                                    *)
HealthIsComparable(minted, value, h) ==
  minted > 0 =>
    (HealthFactor(minted, value) >= h <=> h * minted <= AdjustedForThreshold(value) * PRECISION)
=============================================================================
