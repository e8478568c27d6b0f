-------------------------- MODULE Arithmetic_proofs --------------------------
(***************************************************************************)
(* The lemmas about what the specifications calculate with: sums over      *)
(* finite sets, the engine's valuations, and ledgers.                      *)
(*                                                                         *)
(* Of a ledger, what each operation of ERC20 does when its call does not   *)
(* revert: it keeps a ledger a ledger, keeps the books balanced, and the   *)
(* unchecked arithmetic never wraps.                                       *)
(***************************************************************************)
EXTENDS ERC20, Valuation, FiniteSetTheorems, WellFoundedInduction, TLAPS

-----------------------------------------------------------------------------
(* Induction, over members of a set of sets or of numbers rather than over *)
(* a predicate.                                                            *)

(* A non-empty set of natural numbers has a smallest member. *)
LEMMA SmallestMember ==
  ASSUME NEW S, S \subseteq Nat, S # {}
  PROVE  \E m \in S : \A k \in S : m <= k
<1> DEFINE R == OpToRel(<, Nat)
<1>1. IsWellFoundedOn(R, Nat)
  BY NatLessThanWellFounded
<1>2. \A x \in Nat, y \in Nat : x < y => <<x, y>> \in R
  BY DEF OpToRel
<1> HIDE DEF R
<1>3. PICK x \in S : \A y \in S : ~ (<<y, x>> \in R)
  BY <1>1, WFMin
<1>4. \A y \in S : ~(y < x)
  BY <1>2, <1>3
<1> QED BY <1>3, <1>4

(* A set reached from the empty one a member at a time. *)
LEMMA MemberByMember ==
  ASSUME NEW S, IsFiniteSet(S), NEW Good, {} \in Good,
         \A T \in SUBSET S : T \in Good => \A x \in S \ T : T \cup {x} \in Good
  PROVE  S \in Good
<1> DEFINE Reached == {T \in SUBSET S : T \in Good}
           Left    == {Cardinality(S \ T) : T \in Reached}
<1>1. ASSUME NEW T \in SUBSET S
      PROVE  IsFiniteSet(S \ T) /\ Cardinality(S \ T) \in Nat
  <2>1. IsFiniteSet(S \ T)
    BY FS_Subset
  <2> QED BY <2>1, FS_CardinalityType
<1>2. Left \subseteq Nat
  BY <1>1
<1>3. Left # {}
  OBVIOUS
<1>4. PICK m \in Left : \A k \in Left : m <= k
  <2> HIDE DEF Left
  <2> QED BY <1>2, <1>3, SmallestMember
<1>5. PICK T \in Reached : m = Cardinality(S \ T)
  OBVIOUS
<1>6. CASE T = S
  BY <1>6
<1>7. CASE T # S
  <2> PICK x \in S \ T : TRUE
    BY <1>7
  <2>1. T \cup {x} \in Reached
    OBVIOUS
  <2>2. Cardinality(S \ (T \cup {x})) \in Left
    BY <2>1
  <2>3. S \ (T \cup {x}) = (S \ T) \ {x}
    OBVIOUS
  <2>4. Cardinality((S \ T) \ {x}) = Cardinality(S \ T) - 1
    BY <1>1, FS_RemoveElement
  <2>5. m <= Cardinality(S \ T) - 1
    BY <1>4, <2>2, <2>3, <2>4
  <2>6. Cardinality(S \ T) \in Nat
    BY <1>1
  <2> HIDE DEF Left, Reached
  <2> QED BY <1>5, <2>5, <2>6
<1> QED BY <1>6, <1>7

-----------------------------------------------------------------------------
(* Totals. *)

(* Finitely many holders hold finitely many units. *)
LEMMA UnitsFinite ==
  ASSUME NEW S, IsFiniteSet(S), NEW f, \A s \in S : f[s] \in Nat
  PROVE  IsFiniteSet(Units(f, S))
<1> DEFINE pile == [s \in S |-> {s} \X (1 .. f[s])]
           piles == { {s} \X (1 .. f[s]) : s \in S }
<1>1. pile \in Surjection(S, piles)
  BY DEF Surjection
<1>2. IsFiniteSet(piles)
  BY <1>1, FS_Surjection
<1>3. \A p \in piles : IsFiniteSet(p)
  <2> SUFFICES ASSUME NEW s \in S PROVE IsFiniteSet({s} \X (1 .. f[s]))
    OBVIOUS
  <2>1. IsFiniteSet({s})
    BY FS_Singleton
  <2>2. IsFiniteSet(1 .. f[s])
    BY FS_Interval
  <2> QED BY <2>1, <2>2, FS_Product
<1> QED BY <1>2, <1>3, FS_UNION DEF Units

(* A total is a natural number. *)
LEMMA TotalType ==
  ASSUME NEW S, IsFiniteSet(S), NEW f, \A s \in S : f[s] \in Nat
  PROVE  Total(f, S) \in Nat
BY UnitsFinite, FS_CardinalityType DEF Total

(* The total splits into the share of one member and the rest. *)
LEMMA TotalSplit ==
  ASSUME NEW S, IsFiniteSet(S), NEW f, \A s \in S : f[s] \in Nat, NEW u \in S
  PROVE  Total(f, S) = Total(f, S \ {u}) + f[u]
<1> DEFINE rest == Units(f, S \ {u})
           own  == {u} \X (1 .. f[u])
<1>1. IsFiniteSet(S \ {u})
  BY FS_RemoveElement
<1>2. IsFiniteSet(rest) /\ Cardinality(rest) \in Nat
  BY <1>1, UnitsFinite, FS_CardinalityType
<1>3. IsFiniteSet(own) /\ Cardinality(own) = f[u]
  <2>1. IsFiniteSet({u}) /\ Cardinality({u}) = 1
    BY FS_Singleton
  <2>2. IsFiniteSet(1 .. f[u]) /\ Cardinality(1 .. f[u]) = f[u]
    BY FS_Interval
  <2> QED BY <2>1, <2>2, FS_Product
<1>4. Units(f, S) = rest \cup own
  BY DEF Units
<1>5. rest \cap own = {}
  BY DEF Units
<1>6. Cardinality(rest \cup own) = Cardinality(rest) + Cardinality(own) - Cardinality(rest \cap own)
  <2> HIDE DEF rest, own
  <2> QED BY <1>2, <1>3, FS_Union
<1>7. Cardinality(rest \cap own) = 0
  BY <1>5, FS_EmptySet
<1>8. Cardinality(rest \cup own) = Cardinality(rest) + f[u]
  <2> HIDE DEF rest, own
  <2> QED BY <1>2, <1>3, <1>6, <1>7
<1> QED BY <1>4, <1>8 DEF Total

(* Only the values on S matter. *)
LEMMA TotalEqual ==
  ASSUME NEW S, NEW f, NEW g, \A s \in S : f[s] = g[s]
  PROVE  Total(f, S) = Total(g, S)
<1>1. Units(f, S) = Units(g, S)
  BY DEF Units
<1> QED BY <1>1 DEF Total

(* Changing one member's share changes the total by the difference. *)
LEMMA TotalUpdate ==
  ASSUME NEW S, IsFiniteSet(S), NEW f, \A s \in S : f[s] \in Nat,
         NEW u \in S, NEW g, g[u] \in Nat, \A s \in S \ {u} : g[s] = f[s]
  PROVE  Total(g, S) = Total(f, S) - f[u] + g[u]
<1>1. IsFiniteSet(S \ {u})
  BY FS_RemoveElement
<1>2. Total(f, S \ {u}) = Total(g, S \ {u})
  BY TotalEqual
<1>3. Total(f, S) = Total(f, S \ {u}) + f[u]
  BY TotalSplit
<1>4. Total(g, S) = Total(g, S \ {u}) + g[u]
  BY TotalSplit
<1>5. Total(f, S \ {u}) \in Nat
  BY <1>1, TotalType
<1> QED BY <1>2, <1>3, <1>4, <1>5

(* Moving units from one member to another keeps the total. *)
LEMMA TotalMove ==
  ASSUME NEW S, IsFiniteSet(S), NEW f, \A s \in S : f[s] \in Nat,
         NEW u \in S, NEW v \in S, u # v, NEW g,
         g[u] \in Nat, g[v] \in Nat, g[u] + g[v] = f[u] + f[v],
         \A s \in S \ {u, v} : g[s] = f[s]
  PROVE  Total(g, S) = Total(f, S)
<1> DEFINE R == S \ {u}
<1>1. IsFiniteSet(R) /\ IsFiniteSet(R \ {v})
  BY FS_RemoveElement
<1>2. Total(f, S) = Total(f, R \ {v}) + f[v] + f[u]
  <2>1. Total(f, S) = Total(f, R) + f[u]
    BY TotalSplit
  <2>2. Total(f, R) = Total(f, R \ {v}) + f[v]
    BY <1>1, TotalSplit
  <2> QED BY <2>1, <2>2
<1>3. Total(g, S) = Total(g, R \ {v}) + g[v] + g[u]
  <2>1. Total(g, S) = Total(g, R) + g[u]
    BY TotalSplit
  <2>2. Total(g, R) = Total(g, R \ {v}) + g[v]
    BY <1>1, TotalSplit
  <2> QED BY <2>1, <2>2
<1>4. Total(f, R \ {v}) = Total(g, R \ {v})
  BY TotalEqual
<1>5. Total(f, R \ {v}) \in Nat
  BY <1>1, TotalType
<1> QED BY <1>2, <1>3, <1>4, <1>5

(* No member holds more than the total. *)
LEMMA TotalBounds ==
  ASSUME NEW S, IsFiniteSet(S), NEW f, \A s \in S : f[s] \in Nat, NEW u \in S
  PROVE  f[u] <= Total(f, S)
<1>1. IsFiniteSet(S \ {u})
  BY FS_RemoveElement
<1>2. Total(f, S \ {u}) \in Nat
  BY <1>1, TotalType
<1> QED BY <1>2, TotalSplit

(* Two different members together hold no more than the total. *)
LEMMA TotalBoundsTwo ==
  ASSUME NEW S, IsFiniteSet(S), NEW f, \A s \in S : f[s] \in Nat,
         NEW u \in S, NEW v \in S, u # v
  PROVE  f[u] + f[v] <= Total(f, S)
<1>1. IsFiniteSet(S \ {u})
  BY FS_RemoveElement
<1>2. f[v] <= Total(f, S \ {u})
  BY <1>1, TotalBounds
<1>3. Total(f, S \ {u}) \in Nat
  BY <1>1, TotalType
<1> QED BY <1>2, <1>3, TotalSplit

(* The total of nothing is zero. *)
LEMMA TotalZero ==
  ASSUME NEW S, NEW f, \A s \in S : f[s] = 0
  PROVE  Total(f, S) = 0
<1>1. Units(f, S) = {}
  BY DEF Units
<1> QED BY <1>1, FS_EmptySet DEF Total

(* Larger shares make a larger total. *)
LEMMA TotalMonotone ==
  ASSUME NEW S, IsFiniteSet(S), NEW f, NEW g,
         \A s \in S : f[s] \in Nat /\ g[s] \in Nat /\ f[s] <= g[s]
  PROVE  Total(f, S) <= Total(g, S)
<1>1. Units(f, S) \subseteq Units(g, S)
  BY DEF Units
<1> QED BY <1>1, UnitsFinite, FS_Subset DEF Total

(* Equal shares. *)
LEMMA TotalConstant ==
  ASSUME NEW S, IsFiniteSet(S), NEW f, NEW k \in Nat, \A s \in S : f[s] = k
  PROVE  Total(f, S) = Cardinality(S) * k
<1>1. Units(f, S) = S \X (1 .. k)
  BY DEF Units
<1>2. IsFiniteSet(1 .. k) /\ Cardinality(1 .. k) = k
  BY FS_Interval
<1> QED BY <1>1, <1>2, FS_Product DEF Total

(* The total of sums is the sum of the totals. *)
LEMMA TotalAdd ==
  ASSUME NEW S, IsFiniteSet(S), NEW f, NEW g, NEW h,
         \A s \in S : f[s] \in Nat /\ g[s] \in Nat /\ h[s] = f[s] + g[s]
  PROVE  Total(h, S) = Total(f, S) + Total(g, S)
<1> DEFINE Good == {T \in SUBSET S : Total(h, T) = Total(f, T) + Total(g, T)}
<1>1. {} \in Good
  <2>1. Total(h, {}) = 0 /\ Total(f, {}) = 0 /\ Total(g, {}) = 0
    BY TotalZero
  <2> QED BY <2>1
<1>2. ASSUME NEW T \in SUBSET S, T \in Good, NEW x \in S \ T
      PROVE  T \cup {x} \in Good
  <2> DEFINE U == T \cup {x}
  <2>1. IsFiniteSet(T) /\ IsFiniteSet(U)
    BY FS_Subset
  <2>2. U \ {x} = T /\ x \in U /\ U \subseteq S
    OBVIOUS
  <2>3. \A s \in U : f[s] \in Nat /\ g[s] \in Nat /\ h[s] \in Nat
    OBVIOUS
  <2>4. Total(h, T) = Total(f, T) + Total(g, T)
    BY <1>2
  <2> HIDE DEF U
  <2>5. /\ Total(f, U) = Total(f, T) + f[x]
        /\ Total(g, U) = Total(g, T) + g[x]
        /\ Total(h, U) = Total(h, T) + h[x]
    BY <2>1, <2>2, <2>3, TotalSplit
  <2>6. Total(f, T) \in Nat /\ Total(g, T) \in Nat
    BY <2>1, TotalType
  <2>7. Total(h, U) = Total(f, U) + Total(g, U)
    BY <2>4, <2>5, <2>6
  <2> QED BY <2>2, <2>7 DEF U
<1>3. S \in Good
  <2> HIDE DEF Good
  <2> QED BY <1>1, <1>2, MemberByMember
<1> QED BY <1>3

-----------------------------------------------------------------------------
(* The engine's arithmetic, for every price, amount, precision and width. *)

USE MaxUintAssumption, ScaleAssumption

(* What rounding down means. *)
LEMMA FloorBounds ==
  ASSUME NEW a \in Nat, NEW b \in Nat \ {0}
  PROVE  /\ a \div b \in Nat
         /\ b * (a \div b) <= a
         /\ a < b * (a \div b) + b
OBVIOUS

(* The quotient is at least q exactly when q divisors fit. *)
LEMMA FloorAtLeast ==
  ASSUME NEW a \in Nat, NEW b \in Nat \ {0}, NEW q \in Nat
  PROVE  a \div b >= q <=> b * q <= a
OBVIOUS

(* An answer's scaled price is a natural number. *)
LEMMA ScaledPriceType ==
  ASSUME NEW price \in Int
  PROVE  ScaledPrice(price) \in Nat
BY DEF ScaledPrice, Wrapped

(* What a debt buys is a natural number, if it buys anything at all. *)
LEMMA TokenAmountType ==
  ASSUME NEW price \in Int, NEW usd \in Nat, TokenAmountFits(price, usd)
  PROVE  TokenAmount(price, usd) \in Nat
<1>1. ScaledPrice(price) \in Nat \ {0}
  BY DEF TokenAmountFits
<1>2. usd * PRECISION \in Nat
  OBVIOUS
<1> QED BY <1>1, <1>2, FloorBounds DEF TokenAmount

LEMMA BonusType ==
  ASSUME NEW tokens \in Nat
  PROVE  Bonus(tokens) \in Nat
<1>1. tokens * LIQUIDATION_BONUS \in Nat
  OBVIOUS
<1> QED BY <1>1, FloorBounds DEF Bonus

(* What liquidate computes to seize fits a uint256 when nothing overflows. *)
LEMMA SeizedType ==
  ASSUME NEW price \in Int, NEW debt \in Nat, SeizedFits(price, debt)
  PROVE  Seized(price, debt) \in UInt
<1>1. TokenAmount(price, debt) \in Nat
  BY TokenAmountType DEF SeizedFits
<1>2. Bonus(TokenAmount(price, debt)) \in Nat
  BY <1>1, BonusType
<1>3. Seized(price, debt) <= MaxUint
  BY DEF SeizedFits, Seized
<1> QED BY <1>1, <1>2, <1>3 DEF Seized, UInt

-----------------------------------------------------------------------------
(* Products.  The provers find these one at a time, not inside a chain.    *)

LEMMA ProductMonotone ==
  ASSUME NEW a \in Nat, NEW b \in Nat, NEW c \in Nat, a <= b
  PROVE  a * c <= b * c
OBVIOUS

LEMMA ProductCancel ==
  ASSUME NEW a \in Nat, NEW b \in Nat, NEW c \in Nat \ {0}, c * a <= c * b
  PROVE  a <= b
OBVIOUS

(* The quotient is at most q when q divisors reach the dividend. *)
LEMMA FloorAtMost ==
  ASSUME NEW a \in Nat, NEW b \in Nat \ {0}, NEW q \in Nat, a <= b * q
  PROVE  a \div b <= q
<1>1. a \div b \in Nat /\ b * (a \div b) <= a
  BY FloorBounds
<1>2. b * (a \div b) \in Nat /\ b * q \in Nat
  BY <1>1
<1>3. b * (a \div b) <= b * q
  BY <1>1, <1>2
<1> QED BY <1>1, <1>3, ProductCancel

(* Quotients grow with their dividends. *)
LEMMA FloorMonotone ==
  ASSUME NEW a \in Nat, NEW c \in Nat, NEW b \in Nat \ {0}, a <= c
  PROVE  a \div b <= c \div b
<1>1. a \div b \in Nat /\ b * (a \div b) <= a /\ b * (a \div b) \in Nat
  BY FloorBounds
<1>2. b * (a \div b) <= c
  BY <1>1
<1>3. c \div b \in Nat
  BY FloorBounds
<1>4. c \div b >= a \div b
  <2> DEFINE q == a \div b
  <2> HIDE DEF q
  <2>1. q \in Nat /\ b * q <= c
    BY <1>1, <1>2 DEF q
  <2> QED BY <2>1, FloorAtLeast DEF q
<1> QED BY <1>1, <1>3, <1>4

(* More collateral is worth no less. *)
LEMMA UsdValueMonotone ==
  ASSUME NEW price \in Int, NEW a \in Nat, NEW b \in Nat, a <= b
  PROVE  /\ UsdValue(price, a) \in Nat /\ UsdValue(price, b) \in Nat
         /\ UsdValue(price, a) <= UsdValue(price, b)
         /\ UsdValueFits(price, b) => UsdValueFits(price, a)
<1> DEFINE s == ScaledPrice(price)
<1>1. s \in Nat
  BY ScaledPriceType
<1> HIDE DEF s
<1>2. s * a \in Nat /\ s * b \in Nat /\ a * s \in Nat /\ b * s \in Nat
  BY <1>1
<1>3. a * s <= b * s
  BY <1>1, ProductMonotone
<1>4. s * a <= s * b
  BY <1>1, <1>3
<1>5. (s * a) \div PRECISION <= (s * b) \div PRECISION
  BY <1>2, <1>4, FloorMonotone
<1>6. (s * a) \div PRECISION \in Nat /\ (s * b) \div PRECISION \in Nat
  BY <1>2, FloorBounds
<1> QED BY <1>2, <1>4, <1>5, <1>6 DEF UsdValue, UsdValueFits, s

(* Collateral is worth no less together than apart: each part is rounded   *)
(* down.                                                                   *)
LEMMA UsdValueAdds ==
  ASSUME NEW price \in Int, NEW a \in Nat, NEW b \in Nat
  PROVE  UsdValue(price, a) + UsdValue(price, b) <= UsdValue(price, a + b)
<1> DEFINE s == ScaledPrice(price)
           p == (s * a) \div PRECISION
           q == (s * b) \div PRECISION
<1>1. s \in Nat
  BY ScaledPriceType
<1>2. s * a \in Nat /\ s * b \in Nat /\ s * (a + b) \in Nat /\ s * (a + b) = s * a + s * b
  <2> HIDE DEF s
  <2> QED BY <1>1
<1>3. p \in Nat /\ PRECISION * p <= s * a /\ q \in Nat /\ PRECISION * q <= s * b
  <2> HIDE DEF s
  <2> QED BY <1>2, FloorBounds
<1> HIDE DEF p, q
<1>4. PRECISION * (p + q) = PRECISION * p + PRECISION * q /\ PRECISION * p \in Nat /\ PRECISION * q \in Nat
  BY <1>3
<1>5. PRECISION * (p + q) <= s * (a + b)
  <2> HIDE DEF s
  <2> QED BY <1>2, <1>3, <1>4
<1>6. (s * (a + b)) \div PRECISION >= p + q
  <2> HIDE DEF s
  <2>1. p + q \in Nat
    BY <1>3
  <2> QED BY <1>2, <1>5, <2>1, FloorAtLeast
<1> QED BY <1>6 DEF UsdValue, p, q, s

(* More value is no worse health. *)
LEMMA HealthFactorMonotone ==
  ASSUME NEW minted \in Nat, NEW v \in Nat, NEW w \in Nat, v <= w
  PROVE  /\ HealthFactor(minted, v) \in Nat /\ HealthFactor(minted, w) \in Nat
         /\ HealthFactor(minted, v) <= HealthFactor(minted, w)
         /\ HealthFactorFits(minted, w) => HealthFactorFits(minted, v)
<1> DEFINE a == AdjustedForThreshold(v)
           b == AdjustedForThreshold(w)
<1>1. /\ v * LIQUIDATION_THRESHOLD \in Nat /\ w * LIQUIDATION_THRESHOLD \in Nat
      /\ v * LIQUIDATION_THRESHOLD <= w * LIQUIDATION_THRESHOLD
  BY ProductMonotone
<1>2. a \in Nat /\ b \in Nat /\ a <= b
  BY <1>1, FloorMonotone, FloorBounds DEF AdjustedForThreshold
<1> HIDE DEF a, b
<1>3. a * PRECISION \in Nat /\ b * PRECISION \in Nat /\ a * PRECISION <= b * PRECISION
  BY <1>2, ProductMonotone
<1>4. minted # 0 => /\ (a * PRECISION) \div minted <= (b * PRECISION) \div minted
                    /\ (a * PRECISION) \div minted \in Nat
                    /\ (b * PRECISION) \div minted \in Nat
  BY <1>3, FloorMonotone, FloorBounds
<1>5. HealthFactorFits(minted, w) => HealthFactorFits(minted, v)
  BY <1>1, <1>3 DEF HealthFactorFits, a, b
<1>6. CASE minted = 0
  BY <1>5, <1>6 DEF HealthFactor
<1>7. CASE minted # 0
  BY <1>4, <1>5, <1>7 DEF HealthFactor, a, b
<1> QED BY <1>6, <1>7

-----------------------------------------------------------------------------
(* A negative answer always reverts: as an unsigned number it is at least  *)
(* half of the range, and scaling it leaves the range.                     *)
THEOREM NegativeAnswersRevert ==
  ASSUME NEW price \in Int256, NEW amount \in UInt
  PROVE  NegativeReverts(price, amount)
<1>0. price \in Int /\ ScaledPrice(price) \in Nat
  BY ScaledPriceType DEF Int256
<1> SUFFICES ASSUME price < 0
             PROVE  ScaledPrice(price) > MaxUint
  BY <1>0 DEF NegativeReverts, UsdValueFits, TokenAmountFits
<1>1. price \in Int /\ -price <= (MaxUint + 1) \div 2
  BY DEF Int256
<1>2. Wrapped(price) = price + (MaxUint + 1)
  BY <1>1 DEF Wrapped
<1>3. 2 * Wrapped(price) >= MaxUint + 1 /\ Wrapped(price) \in Nat
  BY <1>1, <1>2
<1> DEFINE w == Wrapped(price)
<1>4. w * 2 <= w * ADDITIONAL_FEED_PRECISION
  <2> HIDE DEF w
  <2>1. 2 \in Nat /\ ADDITIONAL_FEED_PRECISION \in Nat /\ 2 <= ADDITIONAL_FEED_PRECISION
    OBVIOUS
  <2>2. 2 * w <= ADDITIONAL_FEED_PRECISION * w
    BY <1>3, <2>1, ProductMonotone DEF w
  <2>3. w \in Nat
    BY <1>3 DEF w
  <2> QED BY <2>2, <2>3
<1>5. w * ADDITIONAL_FEED_PRECISION \in Nat
  BY <1>3
<1>6. w * 2 = 2 * w
  BY <1>3
<1> QED BY <1>3, <1>4, <1>5, <1>6 DEF ScaledPrice

(* Rounding never decides whether an account is healthy. *)
THEOREM HealthComparesExactly ==
  ASSUME NEW minted \in Nat, NEW value \in Nat, NEW h \in Nat
  PROVE  HealthIsComparable(minted, value, h)
<1> SUFFICES ASSUME minted > 0
             PROVE  HealthFactor(minted, value) >= h
                      <=> h * minted <= AdjustedForThreshold(value) * PRECISION
  BY DEF HealthIsComparable
<1>1. AdjustedForThreshold(value) \in Nat
  <2>1. value * LIQUIDATION_THRESHOLD \in Nat
    OBVIOUS
  <2> QED BY <2>1, FloorBounds DEF AdjustedForThreshold
<1> DEFINE a == AdjustedForThreshold(value) * PRECISION
<1>2. a \in Nat
  BY <1>1
<1>3. HealthFactor(minted, value) = a \div minted
  BY DEF HealthFactor
<1> HIDE DEF a
<1>4. a \div minted >= h <=> minted * h <= a
  BY <1>2, FloorAtLeast
<1>5. minted * h = h * minted
  OBVIOUS
<1> QED BY <1>3, <1>4, <1>5 DEF a

(* There and back again never gains. *)
THEOREM RoundTripNeverGains ==
  ASSUME NEW price \in Int, NEW amount \in Nat, NEW usd \in Nat
  PROVE  RoundTripLoses(price, amount, usd)
<1> DEFINE s == ScaledPrice(price)
<1>1. s \in Nat
  BY ScaledPriceType
<1>2. ASSUME TokenAmountFits(price, UsdValue(price, amount))
      PROVE  TokenAmount(price, UsdValue(price, amount)) <= amount
  <2> DEFINE v == UsdValue(price, amount)
  <2>1. s \in Nat \ {0} /\ s * amount \in Nat
    BY <1>1, <1>2 DEF TokenAmountFits
  <2>2. v \in Nat /\ PRECISION * v <= s * amount
    BY <2>1, FloorBounds DEF UsdValue
  <2> HIDE DEF v, s
  <2>3. v * PRECISION = PRECISION * v /\ v * PRECISION \in Nat
    BY <2>2
  <2>4. (v * PRECISION) \div s <= amount
    BY <2>1, <2>2, <2>3, FloorAtMost
  <2> QED BY <2>4 DEF TokenAmount, v, s
<1>3. ASSUME TokenAmountFits(price, usd)
      PROVE  UsdValue(price, TokenAmount(price, usd)) <= usd
  <2> DEFINE k == TokenAmount(price, usd)
  <2>1. s \in Nat \ {0} /\ usd * PRECISION \in Nat
    BY <1>1, <1>3 DEF TokenAmountFits
  <2>2. k \in Nat /\ s * k <= usd * PRECISION
    BY <2>1, FloorBounds DEF TokenAmount
  <2> HIDE DEF k, s
  <2>3. usd * PRECISION = PRECISION * usd /\ s * k \in Nat
    BY <2>1, <2>2
  <2>4. (s * k) \div PRECISION <= usd
    BY <2>2, <2>3, FloorAtMost
  <2> QED BY <2>4 DEF UsdValue, k, s
<1> QED BY <1>2, <1>3 DEF RoundTripLoses

(* A liquidator never gets more than the debt covered and the bonus.       *)
THEOREM SeizureIsBounded ==
  ASSUME NEW price \in Int, NEW debt \in Nat
  PROVE  BonusBounded(price, debt)
<1> SUFFICES ASSUME SeizedFits(price, debt)
             PROVE  UsdValue(price, Seized(price, debt)) * LIQUIDATION_PRECISION
                      <= debt * (LIQUIDATION_PRECISION + LIQUIDATION_BONUS)
  BY DEF BonusBounded
<1> DEFINE s == ScaledPrice(price)
           k == TokenAmount(price, debt)
           b == Bonus(k)
           v == UsdValue(price, Seized(price, debt))
           L == LIQUIDATION_PRECISION
           B == LIQUIDATION_BONUS
           P == PRECISION
<1>1. s \in Nat \ {0} /\ debt * P \in Nat
  BY ScaledPriceType DEF SeizedFits, TokenAmountFits
<1>2. k \in Nat /\ s * k <= debt * P
  BY <1>1, FloorBounds DEF TokenAmount
<1>3. k * B \in Nat /\ L \in Nat \ {0} /\ B \in Nat /\ P \in Nat \ {0}
  BY <1>2
<1>4. b \in Nat /\ L * b <= k * B
  <2> HIDE DEF k
  <2> QED BY <1>3, FloorBounds DEF Bonus
<1>5. Seized(price, debt) = k + b
  BY DEF Seized
<1>6. s * (k + b) \in Nat
  BY <1>1, <1>2, <1>4
<1>7. v \in Nat /\ P * v <= s * (k + b)
  <2> HIDE DEF k, b
  <2>1. v = (s * (k + b)) \div P
    BY <1>5 DEF UsdValue
  <2> HIDE DEF s, v
  <2> QED BY <1>3, <1>6, <2>1, FloorBounds
<1> HIDE DEF s, k, b, v, L, B, P
<1>8. (P * v) * L <= (s * (k + b)) * L
  <2>1. P * v \in Nat
    BY <1>3, <1>7
  <2> QED BY <1>3, <1>6, <1>7, <2>1, ProductMonotone
<1>9. (s * (k + b)) * L = (s * k) * L + (L * b) * s
  BY <1>1, <1>2, <1>3, <1>4
<1>10. (L * b) * s <= (k * B) * s
  <2>1. L * b \in Nat
    BY <1>3, <1>4
  <2> QED BY <1>1, <1>3, <1>4, <2>1, ProductMonotone
<1>11. (s * k) * L + (k * B) * s = (s * k) * (L + B)
  BY <1>1, <1>2, <1>3
<1>12. (s * k) * (L + B) <= (debt * P) * (L + B)
  <2>1. s * k \in Nat /\ L + B \in Nat
    BY <1>1, <1>2, <1>3
  <2> QED BY <1>1, <1>2, <2>1, ProductMonotone
<1>13. P * (v * L) <= P * (debt * (L + B))
  <2>1. (P * v) * L = P * (v * L)
    BY <1>3, <1>7
  <2>2. (debt * P) * (L + B) = P * (debt * (L + B))
    BY <1>3
  <2>3. /\ (P * v) * L \in Int /\ (s * (k + b)) * L \in Int /\ (s * k) * L \in Int
        /\ (L * b) * s \in Int /\ (k * B) * s \in Int /\ (s * k) * (L + B) \in Int
        /\ (debt * P) * (L + B) \in Int
    BY <1>1, <1>2, <1>3, <1>4, <1>7
  <2> QED BY <1>8, <1>9, <1>10, <1>11, <1>12, <2>1, <2>2, <2>3
<1>14. v * L \in Nat /\ debt * (L + B) \in Nat
  BY <1>3, <1>7
<1>15. v * L <= debt * (L + B)
  BY <1>3, <1>13, <1>14, ProductCancel
<1> QED BY <1>15 DEF v, L, B

HIDE ScaleAssumption

-----------------------------------------------------------------------------
(* Ledgers. *)

USE AccountsAssumption DEF UInt

(* A ledger that balances its books: what every operation needs and keeps. *)
Sound(l) == l \in Ledger /\ Conserved(l)

(* A number that fits does not wrap. *)
LEMMA WrappedFits ==
  ASSUME NEW n \in UInt
  PROVE  Wrapped(n) = n
BY DEF Wrapped

(* The empty ledger balances its books. *)
LEMMA EmptySound == Sound(EmptyLedger)
<1>1. EmptyLedger \in Ledger
  BY DEF EmptyLedger, Ledger
<1>2. Total(EmptyLedger.balances, Accounts) = 0
  BY TotalZero DEF EmptyLedger
<1> QED BY <1>1, <1>2 DEF Sound, Conserved, EmptyLedger

(* What two holders have together fits a uint256, so adding to one what    *)
(* is taken from the other cannot wrap.                                    *)
LEMMA HoldingsFit ==
  ASSUME NEW l, Sound(l), NEW a \in Accounts
  PROVE  /\ l.balances[a] <= l.totalSupply
         /\ \A b \in Accounts \ {a} : l.balances[a] + l.balances[b] <= MaxUint
<1>1. /\ l.balances \in [Accounts -> UInt]
      /\ l.totalSupply \in UInt
      /\ l.totalSupply = Total(l.balances, Accounts)
  BY DEF Sound, Ledger, Conserved
<1>2. \A s \in Accounts : l.balances[s] \in Nat
  BY <1>1
<1>3. l.balances[a] <= l.totalSupply
  BY <1>1, <1>2, TotalBounds
<1>4. ASSUME NEW b \in Accounts \ {a}
      PROVE  l.balances[a] + l.balances[b] <= MaxUint
  <2>1. l.balances[a] + l.balances[b] <= Total(l.balances, Accounts)
    BY <1>2, TotalBoundsTwo
  <2> QED BY <2>1, <1>1, <1>2
<1> QED BY <1>3, <1>4

(* A transfer moves exactly n from one holder to another; to oneself it    *)
(* changes nothing.                                                        *)
LEMMA TransferMoves ==
  ASSUME NEW l, Sound(l), NEW from \in Accounts, NEW to \in Accounts, NEW n \in UInt,
         CanTransfer(l, from, to, n)
  PROVE  Transfer(l, from, to, n) =
           [l EXCEPT !.balances =
              IF from = to THEN l.balances
              ELSE [a \in Accounts |-> IF a = from THEN l.balances[a] - n
                                       ELSE IF a = to THEN l.balances[a] + n
                                       ELSE l.balances[a]]]
<1> DEFINE bal == l.balances
           out == [bal EXCEPT ![from] = Wrapped(@ - n)]
           new == [out EXCEPT ![to] = Wrapped(@ + n)]
<1>1. bal \in [Accounts -> UInt]
  BY DEF Sound, Ledger
<1>2. bal[from] - n \in UInt /\ bal[from] \in UInt
  BY <1>1 DEF CanTransfer
<1>3. Wrapped(bal[from] - n) = bal[from] - n /\ Wrapped(bal[from]) = bal[from]
  BY <1>2, WrappedFits
<1>4. CASE from = to
  <2>1. out[to] = bal[from] - n
    BY <1>1, <1>3, <1>4
  <2>2. bal[from] - n + n = bal[from]
    BY <1>2
  <2>3. new = bal
    BY <1>1, <1>3, <1>4, <2>1, <2>2
  <2> QED BY <2>3, <1>4 DEF Transfer, Sound, Ledger
<1>5. CASE from # to
  <2>1. bal[to] + n \in UInt
    BY <1>1, <1>5, HoldingsFit DEF CanTransfer
  <2>2. Wrapped(bal[to] + n) = bal[to] + n
    BY <2>1, WrappedFits
  <2>3. new = [a \in Accounts |-> IF a = from THEN bal[a] - n
                                  ELSE IF a = to THEN bal[a] + n ELSE bal[a]]
    BY <1>1, <1>3, <1>5, <2>2
  <2> QED BY <2>3, <1>5 DEF Transfer
<1> QED BY <1>4, <1>5

(* A transfer keeps the books balanced. *)
LEMMA TransferSound ==
  ASSUME NEW l, Sound(l), NEW from \in Accounts, NEW to \in Accounts, NEW n \in UInt,
         CanTransfer(l, from, to, n)
  PROVE  /\ Sound(Transfer(l, from, to, n))
         /\ Transfer(l, from, to, n).totalSupply = l.totalSupply
         /\ Transfer(l, from, to, n).allowances = l.allowances
<1> DEFINE m == Transfer(l, from, to, n)
<1>1. /\ l \in Ledger
      /\ l.balances \in [Accounts -> UInt]
      /\ l.totalSupply = Total(l.balances, Accounts)
  BY DEF Sound, Ledger, Conserved
<1>2. CASE from = to
  <2>1. m = l
    BY <1>1, <1>2, TransferMoves DEF Ledger
  <2> QED BY <2>1
<1>3. CASE from # to
  <2>1. m.balances = [a \in Accounts |-> IF a = from THEN l.balances[a] - n
                                         ELSE IF a = to THEN l.balances[a] + n
                                         ELSE l.balances[a]]
    BY <1>1, <1>3, TransferMoves DEF Ledger
  <2>2. m.totalSupply = l.totalSupply /\ m.allowances = l.allowances
    BY <1>1 DEF Transfer, Ledger
  <2>3. l.balances[from] - n \in UInt /\ l.balances[to] + n \in UInt
    BY <1>1, <1>3, HoldingsFit DEF CanTransfer
  <2>4. m \in Ledger
    <3>1. m.balances \in [Accounts -> UInt]
      BY <1>1, <2>1, <2>3
    <3> QED BY <1>1, <3>1 DEF Transfer, Ledger
  <2>5. Total(m.balances, Accounts) = Total(l.balances, Accounts)
    <3>1. /\ \A s \in Accounts : l.balances[s] \in Nat
          /\ m.balances[from] \in Nat /\ m.balances[to] \in Nat
          /\ m.balances[from] + m.balances[to] = l.balances[from] + l.balances[to]
          /\ \A s \in Accounts \ {from, to} : m.balances[s] = l.balances[s]
      BY <1>1, <1>3, <2>1, <2>3
    <3> HIDE DEF m
    <3> QED BY <1>3, <3>1, TotalMove
  <2> QED BY <1>1, <2>2, <2>4, <2>5 DEF Sound, Conserved
<1> QED BY <1>2, <1>3

(* Minting adds n to one holder and to the supply. *)
LEMMA MintSound ==
  ASSUME NEW l, Sound(l), NEW to \in Accounts, NEW n \in UInt, CanMint(l, to, n)
  PROVE  /\ Sound(Mint(l, to, n))
         /\ Mint(l, to, n).totalSupply = l.totalSupply + n
         /\ Mint(l, to, n).allowances = l.allowances
         /\ Mint(l, to, n).balances = [l.balances EXCEPT ![to] = @ + n]
<1> DEFINE m == Mint(l, to, n)
<1>1. /\ l \in Ledger
      /\ l.balances \in [Accounts -> UInt]
      /\ l.totalSupply \in UInt
      /\ l.totalSupply = Total(l.balances, Accounts)
  BY DEF Sound, Ledger, Conserved
<1>2. l.balances[to] + n \in UInt /\ l.totalSupply + n \in UInt
  BY <1>1, HoldingsFit DEF CanMint
<1>3. Wrapped(l.balances[to] + n) = l.balances[to] + n
  BY <1>2, WrappedFits
<1>4. /\ m.totalSupply = l.totalSupply + n
      /\ m.allowances = l.allowances
      /\ m.balances = [l.balances EXCEPT ![to] = @ + n]
  BY <1>1, <1>3 DEF Mint, Ledger
<1>5. m \in Ledger
  <2>1. m.balances \in [Accounts -> UInt]
    BY <1>1, <1>2, <1>4
  <2> QED BY <1>1, <1>2, <1>3, <2>1 DEF Mint, Ledger
<1>6. Total(m.balances, Accounts) = Total(l.balances, Accounts) + n
  <2>1. /\ \A s \in Accounts : l.balances[s] \in Nat
        /\ m.balances[to] = l.balances[to] + n /\ m.balances[to] \in Nat
        /\ \A s \in Accounts \ {to} : m.balances[s] = l.balances[s]
    BY <1>1, <1>2, <1>4
  <2>2. Total(m.balances, Accounts) = Total(l.balances, Accounts) - l.balances[to] + m.balances[to]
    <3> HIDE DEF m
    <3> QED BY <2>1, TotalUpdate
  <2> QED BY <1>1, <2>1, <2>2
<1> QED BY <1>1, <1>4, <1>5, <1>6 DEF Sound, Conserved

(* Burning takes n from one holder and from the supply. *)
LEMMA BurnSound ==
  ASSUME NEW l, Sound(l), NEW from \in Accounts, NEW n \in UInt, CanBurn(l, from, n)
  PROVE  /\ Sound(Burn(l, from, n))
         /\ Burn(l, from, n).totalSupply = l.totalSupply - n
         /\ Burn(l, from, n).allowances = l.allowances
         /\ Burn(l, from, n).balances = [l.balances EXCEPT ![from] = @ - n]
<1> DEFINE m == Burn(l, from, n)
<1>1. /\ l \in Ledger
      /\ l.balances \in [Accounts -> UInt]
      /\ l.totalSupply \in UInt
      /\ l.totalSupply = Total(l.balances, Accounts)
  BY DEF Sound, Ledger, Conserved
<1>2. l.balances[from] - n \in UInt /\ l.totalSupply - n \in UInt
  BY <1>1, HoldingsFit DEF CanBurn
<1>3. /\ Wrapped(l.balances[from] - n) = l.balances[from] - n
      /\ Wrapped(l.totalSupply - n) = l.totalSupply - n
  BY <1>2, WrappedFits
<1>4. /\ m.totalSupply = l.totalSupply - n
      /\ m.allowances = l.allowances
      /\ m.balances = [l.balances EXCEPT ![from] = @ - n]
  BY <1>1, <1>3 DEF Burn, Ledger
<1>5. m \in Ledger
  <2>1. m.balances \in [Accounts -> UInt]
    BY <1>1, <1>2, <1>4
  <2> QED BY <1>1, <1>2, <1>3, <2>1 DEF Burn, Ledger
<1>6. Total(m.balances, Accounts) = Total(l.balances, Accounts) - n
  <2>1. /\ \A s \in Accounts : l.balances[s] \in Nat
        /\ m.balances[from] = l.balances[from] - n /\ m.balances[from] \in Nat
        /\ \A s \in Accounts \ {from} : m.balances[s] = l.balances[s]
    BY <1>1, <1>2, <1>4
  <2>2. Total(m.balances, Accounts) = Total(l.balances, Accounts) - l.balances[from] + m.balances[from]
    <3> HIDE DEF m
    <3> QED BY <2>1, TotalUpdate
  <2> QED BY <1>1, <2>1, <2>2
<1> QED BY <1>1, <1>4, <1>5, <1>6 DEF Sound, Conserved

(* Setting an allowance moves no token. *)
LEMMA ApproveSound ==
  ASSUME NEW l, Sound(l), NEW holder \in Accounts, NEW spender \in Accounts, NEW n \in UInt
  PROVE  /\ Sound(Approve(l, holder, spender, n))
         /\ Approve(l, holder, spender, n).totalSupply = l.totalSupply
         /\ Approve(l, holder, spender, n).balances = l.balances
BY DEF Approve, Sound, Ledger, Conserved

(* Spending an allowance moves no token. *)
LEMMA SpendSound ==
  ASSUME NEW l, Sound(l), NEW holder \in Accounts, NEW spender \in Accounts, NEW n \in UInt,
         CanSpend(l, holder, spender, n)
  PROVE  /\ Sound(Spend(l, holder, spender, n))
         /\ Spend(l, holder, spender, n).totalSupply = l.totalSupply
         /\ Spend(l, holder, spender, n).balances = l.balances
<1>1. l.allowances[holder][spender] \in UInt
  BY DEF Sound, Ledger
<1>2. l.allowances[holder][spender] - n \in UInt
  BY <1>1 DEF CanSpend
<1> QED BY <1>2, ApproveSound, ZenonT(60) DEF Spend

(* What a transfer does to each balance. *)
LEMMA TransferBalances ==
  ASSUME NEW l, Sound(l), NEW from \in Accounts, NEW to \in Accounts, NEW n \in UInt,
         CanTransfer(l, from, to, n), NEW a \in Accounts
  PROVE  Transfer(l, from, to, n).balances[a] =
           IF from = to THEN l.balances[a]
           ELSE IF a = from THEN l.balances[a] - n
           ELSE IF a = to THEN l.balances[a] + n
           ELSE l.balances[a]
<1>1. l \in Ledger
  BY DEF Sound
<1> QED BY <1>1, TransferMoves DEF Ledger

(* A transfer on an allowance is the transfer; only the holder's           *)
(* allowances change, and only a granted amount can be moved.              *)
LEMMA TransferFromSound ==
  ASSUME NEW l, Sound(l), NEW spender \in Accounts, NEW from \in Accounts, NEW to \in Accounts,
         NEW n \in UInt, CanTransferFrom(l, spender, from, to, n)
  PROVE  /\ Sound(TransferFrom(l, spender, from, to, n))
         /\ TransferFrom(l, spender, from, to, n).totalSupply = l.totalSupply
         /\ \A a \in Accounts : TransferFrom(l, spender, from, to, n).balances[a] =
              IF from = to THEN l.balances[a]
              ELSE IF a = from THEN l.balances[a] - n
              ELSE IF a = to THEN l.balances[a] + n
              ELSE l.balances[a]
         /\ \A a \in Accounts \ {from} :
              TransferFrom(l, spender, from, to, n).allowances[a] = l.allowances[a]
<1> DEFINE m == Spend(l, from, spender, n)
<1>1. CanSpend(l, from, spender, n) /\ CanTransfer(l, from, to, n)
  BY DEF CanTransferFrom
<1>2. Sound(m) /\ m.totalSupply = l.totalSupply /\ m.balances = l.balances
  BY <1>1, SpendSound
<1>3. CanTransfer(m, from, to, n)
  BY <1>1, <1>2 DEF CanTransfer
<1>4. \A a \in Accounts \ {from} : m.allowances[a] = l.allowances[a]
  BY DEF Spend, Approve, Sound, Ledger
<1>5. TransferFrom(l, spender, from, to, n) = Transfer(m, from, to, n)
  BY DEF TransferFrom
<1> HIDE DEF m
<1>6. Sound(Transfer(m, from, to, n))
  BY <1>2, <1>3, TransferSound
<1>7. /\ Transfer(m, from, to, n).totalSupply = m.totalSupply
      /\ Transfer(m, from, to, n).allowances = m.allowances
  BY <1>2, <1>3, TransferSound
<1>8. ASSUME NEW a \in Accounts
      PROVE  Transfer(m, from, to, n).balances[a] =
               IF from = to THEN m.balances[a]
               ELSE IF a = from THEN m.balances[a] - n
               ELSE IF a = to THEN m.balances[a] + n
               ELSE m.balances[a]
  BY <1>2, <1>3, TransferBalances
<1> QED BY <1>2, <1>4, <1>5, <1>6, <1>7, <1>8

(* Burning on an allowance is the burn. *)
LEMMA BurnFromSound ==
  ASSUME NEW l, Sound(l), NEW spender \in Accounts, NEW from \in Accounts,
         NEW n \in UInt, CanBurnFrom(l, spender, from, n)
  PROVE  /\ Sound(BurnFrom(l, spender, from, n))
         /\ BurnFrom(l, spender, from, n).totalSupply = l.totalSupply - n
         /\ BurnFrom(l, spender, from, n).balances = [l.balances EXCEPT ![from] = @ - n]
         /\ \A a \in Accounts \ {from} :
              BurnFrom(l, spender, from, n).allowances[a] = l.allowances[a]
<1> DEFINE m == Spend(l, from, spender, n)
<1>1. CanSpend(l, from, spender, n) /\ CanBurn(l, from, n)
  BY DEF CanBurnFrom
<1>2. Sound(m) /\ m.totalSupply = l.totalSupply /\ m.balances = l.balances
  BY <1>1, SpendSound
<1>3. CanBurn(m, from, n)
  BY <1>1, <1>2 DEF CanBurn
<1>4. \A a \in Accounts \ {from} : m.allowances[a] = l.allowances[a]
  BY DEF Spend, Approve, Sound, Ledger
<1>5. BurnFrom(l, spender, from, n) = Burn(m, from, n)
  BY DEF BurnFrom
<1> HIDE DEF m
<1>6. Sound(Burn(m, from, n))
  BY <1>2, <1>3, BurnSound
<1>7. /\ Burn(m, from, n).totalSupply = m.totalSupply - n
      /\ Burn(m, from, n).allowances = m.allowances
      /\ Burn(m, from, n).balances = [m.balances EXCEPT ![from] = @ - n]
  BY <1>2, <1>3, BurnSound
<1> QED BY <1>2, <1>4, <1>5, <1>6, <1>7

-----------------------------------------------------------------------------
(* Without its books balanced a ledger is a ledger still: what is written  *)
(* unchecked wraps, and stays a uint256.                                   *)

LEMMA WrappedType ==
  ASSUME NEW n \in Int
  PROVE  Wrapped(n) \in UInt
BY DEF Wrapped

LEMMA TransferType ==
  ASSUME NEW l \in Ledger, NEW from \in Accounts, NEW to \in Accounts, NEW n \in UInt
  PROVE  Transfer(l, from, to, n) \in Ledger
<1> DEFINE out == [l.balances EXCEPT ![from] = Wrapped(@ - n)]
           new == [out EXCEPT ![to] = Wrapped(@ + n)]
<1>1. out \in [Accounts -> UInt]
  BY WrappedType DEF Ledger
<1> HIDE DEF out
<1>2. new \in [Accounts -> UInt]
  BY <1>1, WrappedType
<1>3. Transfer(l, from, to, n) = [l EXCEPT !.balances = new]
  BY DEF Transfer, out
<1> HIDE DEF new
<1> QED BY <1>2, <1>3 DEF Ledger

LEMMA MintType ==
  ASSUME NEW l \in Ledger, NEW to \in Accounts, NEW n \in UInt, CanMint(l, to, n)
  PROVE  Mint(l, to, n) \in Ledger
<1>1. [l.balances EXCEPT ![to] = Wrapped(@ + n)] \in [Accounts -> UInt]
  BY WrappedType DEF Ledger
<1>2. l.totalSupply + n \in UInt
  BY DEF CanMint, Ledger
<1>3. Mint(l, to, n) = [l EXCEPT !.totalSupply = l.totalSupply + n,
                                 !.balances = [l.balances EXCEPT ![to] = Wrapped(@ + n)]]
  BY DEF Mint, Ledger
<1> QED BY <1>1, <1>2, <1>3 DEF Ledger

LEMMA BurnType ==
  ASSUME NEW l \in Ledger, NEW from \in Accounts, NEW n \in UInt
  PROVE  Burn(l, from, n) \in Ledger
<1>1. [l.balances EXCEPT ![from] = Wrapped(@ - n)] \in [Accounts -> UInt]
  BY WrappedType DEF Ledger
<1>2. Wrapped(l.totalSupply - n) \in UInt
  BY WrappedType DEF Ledger
<1>3. Burn(l, from, n) = [l EXCEPT !.balances = [l.balances EXCEPT ![from] = Wrapped(@ - n)],
                                   !.totalSupply = Wrapped(l.totalSupply - n)]
  BY DEF Burn, Ledger
<1> QED BY <1>1, <1>2, <1>3 DEF Ledger

LEMMA ApproveType ==
  ASSUME NEW l \in Ledger, NEW holder \in Accounts, NEW spender \in Accounts, NEW n \in UInt
  PROVE  Approve(l, holder, spender, n) \in Ledger
BY DEF Approve, Ledger

LEMMA SpendType ==
  ASSUME NEW l \in Ledger, NEW holder \in Accounts, NEW spender \in Accounts, NEW n \in UInt,
         CanSpend(l, holder, spender, n)
  PROVE  Spend(l, holder, spender, n) \in Ledger
<1>1. l.allowances[holder][spender] - n \in UInt
  BY DEF CanSpend, Ledger
<1> QED BY <1>1, ApproveType DEF Spend

LEMMA TransferFromType ==
  ASSUME NEW l \in Ledger, NEW spender \in Accounts, NEW from \in Accounts, NEW to \in Accounts,
         NEW n \in UInt, CanTransferFrom(l, spender, from, to, n)
  PROVE  TransferFrom(l, spender, from, to, n) \in Ledger
<1>1. Spend(l, from, spender, n) \in Ledger
  BY SpendType DEF CanTransferFrom
<1> QED BY <1>1, TransferType DEF TransferFrom

LEMMA BurnFromType ==
  ASSUME NEW l \in Ledger, NEW spender \in Accounts, NEW from \in Accounts, NEW n \in UInt,
         CanBurnFrom(l, spender, from, n)
  PROVE  BurnFrom(l, spender, from, n) \in Ledger
<1>1. Spend(l, from, spender, n) \in Ledger
  BY SpendType DEF CanBurnFrom
<1> QED BY <1>1, BurnType DEF BurnFrom
=============================================================================
