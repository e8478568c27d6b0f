---------------------------- MODULE Handler_proofs ----------------------------
(***************************************************************************)
(* What the fuzz suite asserts, for every number of senders and tokens,    *)
(* every price, amount and scale.                                          *)
(*                                                                         *)
(* The assertion follows from three facts kept step by step: each sender's *)
(* own deposits are worth twice its debt, the engine holds the deposits,   *)
(* and every coin is owed.  Between the first two lies a sum taken both    *)
(* ways: the deposits of all senders together are worth no less than the   *)
(* sum of what each one's are worth, since every part is rounded down.     *)
(***************************************************************************)
EXTENDS Handler, DSCEngine_proofs

USE AccountsAssumption, MaxUintAssumption DEF UInt

HInv ==
  /\ IInv
  /\ feed \in [Feeds -> Answers]
  /\ SendersAreDoublyBacked
  /\ \A t \in Tokens : s_collateralDeposited[handler][t] = 0

(* All prices are answers. *)
PricesRead == \A i \in Listed : Price(tokenAddresses[i]) \in Answers

LEMMA AnswersAreWhole == Answers \subseteq Int
BY InputsAssumption DEF Int256

LEMMA PricesAreRead ==
  ASSUME feed \in [Feeds -> Answers]
  PROVE  PricesRead /\ \A i \in Listed : Priced(tokenAddresses[i])
<1> SUFFICES ASSUME NEW i \in Listed
             PROVE  Price(tokenAddresses[i]) \in Answers /\ Priced(tokenAddresses[i])
  BY DEF PricesRead
<1> DEFINE t == tokenAddresses[i]
<1>1. t \in Tokens
  BY ListedTokens
<1>2. isAllowedToken(t)
  BY SetUpAssumption DEF Listed
<1>3. s_priceFeeds[t] \in Feeds
  BY <1>1, <1>2, FeedOfToken DEF isAllowedToken
<1>4. feed[s_priceFeeds[t]] \in Answers
  BY <1>3
<1>5. feed[s_priceFeeds[t]] # NoAnswer
  BY <1>4, AnswersAreWhole, EngineAssumption
<1> QED BY <1>2, <1>4, <1>5 DEF Price, Priced

-----------------------------------------------------------------------------
(* Worth. *)

(* What n of the i-th listed token is worth. *)
Worth(i, n) == UsdValue(Price(tokenAddresses[i]), n)

LEMMA WorthGrows ==
  ASSUME PricesRead, NEW i \in Listed, NEW m \in Nat, NEW n \in Nat
  PROVE  /\ Worth(i, m) \in Nat
         /\ m <= n => Worth(i, m) <= Worth(i, n)
         /\ Worth(i, m) + Worth(i, n) <= Worth(i, m + n)
<1>1. Price(tokenAddresses[i]) \in Int
  BY AnswersAreWhole DEF PricesRead
<1>2. Worth(i, m) \in Nat
  BY <1>1, UsdValueMonotone DEF Worth
<1>3. m <= n => Worth(i, m) <= Worth(i, n)
  BY <1>1, UsdValueMonotone DEF Worth
<1>4. Worth(i, m) + Worth(i, n) <= Worth(i, m + n)
  BY <1>1, UsdValueAdds DEF Worth
<1> QED BY <1>2, <1>3, <1>4

(* What so much of each listed token is worth together. *)
WorthOf(amounts) == Total([i \in Listed |-> Worth(i, amounts[i])], Listed)

LEMMA WorthOfGrows ==
  ASSUME PricesRead, NEW d \in [Listed -> Nat], NEW e \in [Listed -> Nat],
         \A i \in Listed : d[i] <= e[i]
  PROVE  WorthOf(d) \in Nat /\ WorthOf(d) <= WorthOf(e)
<1> DEFINE f == [i \in Listed |-> Worth(i, d[i])]
           g == [i \in Listed |-> Worth(i, e[i])]
<1>1. \A i \in Listed : f[i] \in Nat /\ g[i] \in Nat /\ f[i] <= g[i]
  BY WorthGrows
<1>2. Total(f, Listed) \in Nat /\ Total(f, Listed) <= Total(g, Listed)
  <2> HIDE DEF f, g
  <2>1. Total(f, Listed) \in Nat
    BY <1>1, ListedTokens, TotalType
  <2>2. Total(f, Listed) <= Total(g, Listed)
    BY <1>1, ListedTokens, TotalMonotone
  <2> QED BY <2>1, <2>2
<1> QED BY <1>2 DEF WorthOf

LEMMA WorthOfAdds ==
  ASSUME PricesRead, NEW d \in [Listed -> Nat], NEW e \in [Listed -> Nat]
  PROVE  WorthOf(d) + WorthOf(e) <= WorthOf([i \in Listed |-> d[i] + e[i]])
<1> DEFINE f == [i \in Listed |-> Worth(i, d[i])]
           g == [i \in Listed |-> Worth(i, e[i])]
           h == [i \in Listed |-> f[i] + g[i]]
           k == [i \in Listed |-> Worth(i, d[i] + e[i])]
           both == [i \in Listed |-> d[i] + e[i]]
<1>1. \A i \in Listed : f[i] \in Nat /\ g[i] \in Nat
  BY WorthGrows
<1>2. \A i \in Listed : h[i] = f[i] + g[i] /\ h[i] \in Nat
  BY <1>1
<1>3. ASSUME NEW i \in Listed
      PROVE  k[i] \in Nat /\ h[i] <= k[i]
  <2>1. d[i] \in Nat /\ e[i] \in Nat /\ d[i] + e[i] \in Nat
    OBVIOUS
  <2>2. Worth(i, d[i] + e[i]) \in Nat /\ Worth(i, d[i]) + Worth(i, e[i]) <= Worth(i, d[i] + e[i])
    BY <2>1, WorthGrows
  <2> QED BY <2>2
<1>4. Total(h, Listed) = Total(f, Listed) + Total(g, Listed)
  <2> HIDE DEF f, g, h
  <2> QED BY <1>1, <1>2, ListedTokens, TotalAdd
<1>5. Total(h, Listed) <= Total(k, Listed)
  <2> HIDE DEF h, k
  <2> QED BY <1>2, <1>3, ListedTokens, TotalMonotone
<1>6. WorthOf(both) = Total(k, Listed)
  <2>1. [i \in Listed |-> Worth(i, both[i])] = k
    OBVIOUS
  <2> QED BY <2>1 DEF WorthOf
<1>7. WorthOf(d) = Total(f, Listed) /\ WorthOf(e) = Total(g, Listed)
  BY DEF WorthOf
<1> HIDE DEF f, g, h, k, both
<1>8. WorthOf(d) + WorthOf(e) <= WorthOf(both)
  BY <1>4, <1>5, <1>6, <1>7
<1> QED BY <1>8 DEF both

(* An account's deposits, by the index at which a token is listed. *)
ByIndex(deposits) == [i \in Listed |-> deposits[tokenAddresses[i]]]

LEMMA AccountIsWorth ==
  ASSUME NEW deposits
  PROVE  AccountValue(deposits) = WorthOf(ByIndex(deposits))
BY DEF AccountValue, WorthOf, ByIndex, Worth

LEMMA ByIndexType ==
  ASSUME NEW deposits \in [Tokens -> UInt]
  PROVE  ByIndex(deposits) \in [Listed -> Nat]
BY ListedTokens DEF ByIndex

(* If every account's debt k is covered twice by its own deposits, all the *)
(* debts are covered twice by all the deposits together.                   *)
LEMMA DebtsCovered ==
  ASSUME PricesRead, NEW d \in [Accounts -> [Tokens -> UInt]], NEW k \in [Accounts -> Nat],
         \A u \in Accounts : AccountValue(d[u]) >= 2 * k[u]
  PROVE  2 * Total(k, Accounts) <= WorthOf([i \in Listed |-> DepositsOf(d, tokenAddresses[i])])
<1> DEFINE of(i)   == [u \in Accounts |-> d[u][tokenAddresses[i]]]
           held(T) == [i \in Listed |-> Total(of(i), T)]
           Good    == {T \in SUBSET Accounts : 2 * Total(k, T) <= WorthOf(held(T))}
<1>1. \A i \in Listed : \A u \in Accounts : of(i)[u] \in Nat /\ of(i)[u] = d[u][tokenAddresses[i]]
  BY ListedTokens
<1>2. ASSUME NEW T \in SUBSET Accounts
      PROVE  held(T) \in [Listed -> Nat] /\ Total(k, T) \in Nat
  <2>1. IsFiniteSet(T)
    BY FS_Subset
  <2>2. ASSUME NEW i \in Listed PROVE Total(of(i), T) \in Nat
    <3>1. \A u \in T : of(i)[u] \in Nat
      BY <1>1
    <3> HIDE DEF of
    <3> QED BY <2>1, <3>1, TotalType
  <2>3. Total(k, T) \in Nat
    BY <2>1, TotalType
  <2> HIDE DEF of
  <2> QED BY <2>2, <2>3
<1>3. {} \in Good
  <2>1. Total(k, {}) = 0
    BY TotalZero
  <2>2. WorthOf(held({})) \in Nat
    <3> DEFINE none == held({})
    <3>1. none \in [Listed -> Nat]
      BY <1>2
    <3> HIDE DEF none
    <3>2. \A i \in Listed : none[i] <= none[i]
      BY <3>1
    <3> QED BY <3>1, <3>2, WorthOfGrows DEF none
  <2> HIDE DEF held
  <2> QED BY <2>1, <2>2
<1>4. ASSUME NEW T \in SUBSET Accounts, T \in Good, NEW x \in Accounts \ T
      PROVE  T \cup {x} \in Good
  <2> DEFINE U   == T \cup {x}
             own == ByIndex(d[x])
  <2>1. U \in SUBSET Accounts /\ IsFiniteSet(U) /\ x \in U /\ U \ {x} = T
    BY FS_Subset
  <2>2. own \in [Listed -> Nat] /\ held(T) \in [Listed -> Nat] /\ held(U) \in [Listed -> Nat]
    <3>1. own \in [Listed -> Nat]
      BY ByIndexType
    <3>2. held(T) \in [Listed -> Nat] /\ held(U) \in [Listed -> Nat]
      BY <1>2, <2>1
    <3> QED BY <3>1, <3>2
  <2>3. ASSUME NEW i \in Listed PROVE held(U)[i] = held(T)[i] + own[i]
    <3>1. \A u \in U : of(i)[u] \in Nat
      BY <1>1, <2>1
    <3>2. Total(of(i), U) = Total(of(i), T) + of(i)[x]
      <4> HIDE DEF of, U
      <4> QED BY <2>1, <3>1, TotalSplit
    <3>3. own[i] = of(i)[x]
      BY <1>1 DEF ByIndex
    <3> HIDE DEF of, own, U
    <3> QED BY <3>2, <3>3
  <2>4. held(U) = [i \in Listed |-> held(T)[i] + own[i]]
    <3> HIDE DEF held, own, U
    <3> QED BY <2>2, <2>3
  <2>5. WorthOf(held(T)) + WorthOf(own) <= WorthOf(held(U))
    <3> HIDE DEF held, own, U
    <3> QED BY <2>2, <2>4, WorthOfAdds
  <2>6. WorthOf(own) >= 2 * k[x]
    BY AccountIsWorth
  <2>7. Total(k, U) = Total(k, T) + k[x]
    <3> HIDE DEF U
    <3> QED BY <2>1, TotalSplit
  <2>8. WorthOf(held(T)) \in Nat /\ WorthOf(own) \in Nat /\ WorthOf(held(U)) \in Nat
    <3> HIDE DEF held, own, U
    <3>1. ASSUME NEW e \in [Listed -> Nat] PROVE WorthOf(e) \in Nat
      <4>1. \A i \in Listed : e[i] <= e[i]
        OBVIOUS
      <4> QED BY <4>1, WorthOfGrows
    <3> QED BY <2>2, <3>1
  <2>9. Total(k, T) \in Nat /\ k[x] \in Nat /\ 2 * Total(k, T) <= WorthOf(held(T))
    BY <1>2, <1>4
  <2>10. 2 * Total(k, U) <= WorthOf(held(U))
    <3> HIDE DEF held, own, U
    <3> QED BY <2>5, <2>6, <2>7, <2>8, <2>9
  <2> HIDE DEF held
  <2> QED BY <2>1, <2>10
<1>5. Accounts \in Good
  <2> HIDE DEF Good
  <2> QED BY <1>3, <1>4, MemberByMember
<1>6. held(Accounts) = [i \in Listed |-> DepositsOf(d, tokenAddresses[i])]
  BY DEF DepositsOf
<1> HIDE DEF held
<1> QED BY <1>5, <1>6
-----------------------------------------------------------------------------
(* The steps. *)

LEMMA BookTypes ==
  ASSUME HInv
  PROVE  /\ s_collateralDeposited \in [Accounts -> [Tokens -> UInt]]
         /\ s_DSCMinted \in [Accounts -> UInt]
         /\ CollateralOK /\ PricesRead
         /\ \A u \in Accounts : /\ AccountValue(s_collateralDeposited[u]) \in Nat
                               /\ AccountValue(s_collateralDeposited[u]) >= 2 * s_DSCMinted[u]
<1>1. /\ s_collateralDeposited \in [Accounts -> [Tokens -> UInt]]
      /\ s_DSCMinted \in [Accounts -> UInt] /\ CollateralOK
  BY DEF HInv, IInv, CollateralOK
<1>2. PricesRead
  BY PricesAreRead DEF HInv
<1>3. ASSUME NEW u \in Accounts
      PROVE  AccountValue(s_collateralDeposited[u]) \in Nat
  <2> DEFINE d == ByIndex(s_collateralDeposited[u])
  <2>1. d \in [Listed -> Nat]
    BY <1>1, ByIndexType
  <2> HIDE DEF d
  <2>2. \A i \in Listed : d[i] <= d[i]
    BY <2>1
  <2>3. WorthOf(d) \in Nat
    BY <1>2, <2>1, <2>2, WorthOfGrows
  <2> QED BY <2>3, AccountIsWorth DEF d
<1> QED BY <1>1, <1>2, <1>3 DEF HInv, SendersAreDoublyBacked

(* mintDsc's bound: the casts to int256 and back lose nothing, and twice   *)
(* the debt stays within the value.                                        *)
LEMMA BoundedMint ==
  ASSUME HInv, NEW u \in Accounts, AccountValue(s_collateralDeposited[u]) * 2 <= MaxUint,
         NEW n \in 1 .. maxDscToMint(u)
  PROVE  n \in Nat \ {0} /\ 2 * (s_DSCMinted[u] + n) <= AccountValue(s_collateralDeposited[u])
<1> DEFINE v == AccountValue(s_collateralDeposited[u])
           m == s_DSCMinted[u]
<1>1. v \in Nat /\ m \in Nat /\ 2 * m <= v
  BY BookTypes
<1>2. v * 2 <= MaxUint
  OBVIOUS
<1> HIDE DEF v, m
<1>3. v <= MaxUint \div 2 /\ m <= MaxUint \div 2
  BY <1>1, <1>2
<1>4. Signed(v) = v /\ Signed(m) = m
  BY <1>1, <1>3 DEF Signed
<1>5. Half(v) = v \div 2 /\ v \div 2 \in Nat /\ 2 * (v \div 2) <= v /\ m <= v \div 2
  BY <1>1 DEF Half
<1>6. v \div 2 - m \in UInt
  BY <1>1, <1>2, <1>5
<1>7. maxDscToMint(u) = v \div 2 - m
  BY <1>4, <1>5, <1>6, WrappedFits DEF maxDscToMint, v, m
<1>8. n \in Nat \ {0} /\ n <= v \div 2 - m
  BY <1>6, <1>7
<1>9. 2 * (m + n) <= v
  BY <1>1, <1>5, <1>8
<1> QED BY <1>8, <1>9 DEF v, m

(* The sender's new tokens go all to the engine, under an allowance that   *)
(* replaces whatever the sender had given it.                              *)
LEMMA FuzzDepositArrives ==
  ASSUME NEW l, Sound(l), GrantsNothing(l), NEW u \in Users, NEW n \in UInt, CanMint(l, u, n),
         NEW m, m = Approve(Mint(l, u, n), u, Engine, n), CanTransferFrom(m, Engine, u, Engine, n)
  PROVE  /\ Sound(TransferFrom(m, Engine, u, Engine, n))
         /\ GrantsNothing(TransferFrom(m, Engine, u, Engine, n))
         /\ TransferFrom(m, Engine, u, Engine, n).balances[Engine] = l.balances[Engine] + n
         /\ TransferFrom(m, Engine, u, Engine, n).totalSupply = l.totalSupply + n
<1> DEFINE k == Mint(l, u, n)
           r == TransferFrom(m, Engine, u, Engine, n)
<1>1. u \in Accounts /\ u # Engine /\ Engine \in Accounts
  BY EngineAssumption DEF Users
<1>2. /\ Sound(k) /\ k.totalSupply = l.totalSupply + n /\ k.allowances = l.allowances
      /\ k.balances = [l.balances EXCEPT ![u] = @ + n]
  BY <1>1, MintSound
<1>3. k.balances[Engine] = l.balances[Engine]
  BY <1>1, <1>2 DEF Sound, Ledger
<1> HIDE DEF k
<1>4. /\ Sound(m) /\ m.totalSupply = k.totalSupply /\ m.balances = k.balances
      /\ m.allowances[Engine] = k.allowances[Engine]
  <2>1. m = Approve(k, u, Engine, n)
    BY DEF k
  <2>2. Sound(m) /\ m.totalSupply = k.totalSupply /\ m.balances = k.balances
    BY <1>1, <1>2, <2>1, ApproveSound
  <2>3. m.allowances[Engine] = k.allowances[Engine]
    BY <1>1, <1>2, <2>1 DEF Approve, Sound, Ledger
  <2> QED BY <2>2, <2>3
<1>5. /\ Sound(r) /\ r.totalSupply = m.totalSupply
      /\ r.balances[Engine] = m.balances[Engine] + n
      /\ r.allowances[Engine] = m.allowances[Engine]
  BY <1>1, <1>4, TransferFromSound
<1> HIDE DEF r
<1>6. GrantsNothing(r)
  BY <1>2, <1>4, <1>5 DEF GrantsNothing
<1> QED BY <1>2, <1>3, <1>4, <1>5, <1>6 DEF r

LEMMA FuzzDepositStep ==
  ASSUME HInv, NEW u \in Senders, NEW t \in Tokens, NEW n \in DepositAmounts, fuzzDeposit(u, t, n)
  PROVE  HInv' /\ collateral'[t].totalSupply = collateral[t].totalSupply + n
<1> DEFINE l == collateral[t]
           m == Approve(Mint(l, u, n), u, Engine, n)
           r == TransferFrom(m, Engine, u, Engine, n)
           d == s_collateralDeposited
           k == d[u][t] + n
<1>1. n \in UInt /\ u \in Users /\ u \in Accounts /\ u # handler /\ Engine \in Accounts /\ handler \in Accounts
  BY InputsAssumption, EngineAssumption, HandlerAssumption DEF Senders, Users
<1>2. /\ d \in [Accounts -> [Tokens -> UInt]] /\ s_DSCMinted \in [Accounts -> UInt]
      /\ CollateralOK /\ PricesRead
  BY BookTypes
<1>3. /\ CanMint(l, u, n) /\ k <= MaxUint /\ CanTransferFrom(m, Engine, u, Engine, n)
      /\ d' = Deposited(u, t, n) /\ collateral' = [collateral EXCEPT ![t] = r]
      /\ UNCHANGED <<s_DSCMinted, dsc, feed>>
  BY DEF fuzzDeposit
<1>4. Sound(l) /\ GrantsNothing(l) /\ collateral \in [Tokens -> Ledger]
  BY <1>2 DEF CollateralOK
<1>5. /\ Sound(r) /\ GrantsNothing(r)
      /\ r.balances[Engine] = l.balances[Engine] + n
      /\ r.totalSupply = l.totalSupply + n
  <2> HIDE DEF l, m
  <2>1. m = Approve(Mint(l, u, n), u, Engine, n)
    BY DEF m
  <2> QED BY <1>1, <1>3, <1>4, <2>1, FuzzDepositArrives
<1>6. d' = Updated(d, u, t, k) /\ k \in UInt /\ d[u][t] \in Nat
  BY <1>1, <1>2, <1>3 DEF Deposited, Updated
<1> HIDE DEF m, r, k
<1>7. Moves(u, t, k, r)
  BY <1>1, <1>3, <1>5, <1>6 DEF Moves
<1>8. /\ CollateralOK'
      /\ \A s \in Tokens \ {t} : Surplus(s)' = Surplus(s)
      /\ Surplus(t)' = r.balances[Engine] - (Deposits(t) - d[u][t] + k)
  BY <1>2, <1>7, OneTokenMoves
<1>9. \A s \in Tokens : Surplus(s) \in Int
  <2>1. \A s \in Tokens : DepositsOf(d, s) \in Nat
    BY <1>2, DepositsType
  <2>2. \A s \in Tokens : collateral[s].balances[Engine] \in Nat
    BY <1>1, <1>4 DEF Ledger
  <2> QED BY <2>1, <2>2 DEF Surplus, Deposits, DepositsOf
<1>10. Surplus(t)' = Surplus(t)
  <2>1. Deposits(t) \in Nat
    <3>1. DepositsOf(d, t) \in Nat
      BY <1>2, DepositsType
    <3> QED BY <3>1 DEF Deposits, DepositsOf
  <2>2. l.balances[Engine] \in Nat
    BY <1>1, <1>4 DEF Ledger
  <2> QED BY <1>1, <1>5, <1>6, <1>8, <2>1, <2>2 DEF Surplus, k
<1>11. CollateralKept
  <2>1. \A s \in Tokens : Surplus(s)' >= Surplus(s)
    BY <1>8, <1>9, <1>10
  <2> QED BY <1>8, <2>1 DEF CollateralKept, CollateralOK
<1>12. IInv'
  <2>1. CoinKept
    BY <1>3, CoinIdle DEF HInv
  <2>2. feed' \in [Feeds -> Answers \cup {NoAnswer}]
    BY <1>3 DEF HInv, IInv, FeedsOK
  <2> QED BY <1>11, <2>1, <2>2, KeptIInv DEF HInv, Kept
<1>13. SendersAreDoublyBacked'
  <2> SUFFICES ASSUME NEW a \in Accounts
               PROVE  AccountValue(d[a])' >= 2 * s_DSCMinted'[a]
    BY DEF SendersAreDoublyBacked
  <2>1. AccountValue(d[a])' = AccountValue(d'[a])
    BY <1>3, ValueNext
  <2>2. d'[a] \in [Tokens -> UInt] /\ d[a] \in [Tokens -> UInt]
    BY <1>2, <1>8 DEF CollateralOK
  <2>3. \A s \in Tokens : d[a][s] <= d'[a][s]
    BY <1>1, <1>2, <1>6 DEF Updated, k
  <2>4. ByIndex(d[a]) \in [Listed -> Nat] /\ ByIndex(d'[a]) \in [Listed -> Nat]
    BY <2>2, ByIndexType
  <2>5. \A i \in Listed : ByIndex(d[a])[i] <= ByIndex(d'[a])[i]
    BY <2>3, ListedTokens DEF ByIndex
  <2>6. /\ WorthOf(ByIndex(d[a])) <= WorthOf(ByIndex(d'[a])) /\ WorthOf(ByIndex(d[a])) \in Nat
    BY <1>2, <2>4, <2>5, WorthOfGrows
  <2>7. WorthOf(ByIndex(d'[a])) \in Nat
    <3>1. \A i \in Listed : ByIndex(d'[a])[i] <= ByIndex(d'[a])[i]
      BY <2>4
    <3> QED BY <1>2, <2>4, <3>1, WorthOfGrows
  <2>8. AccountValue(d[a]) >= 2 * s_DSCMinted[a] /\ s_DSCMinted'[a] = s_DSCMinted[a] /\ s_DSCMinted[a] \in Nat
    BY <1>2, <1>3, BookTypes
  <2> QED BY <2>1, <2>6, <2>7, <2>8, AccountIsWorth
<1>14. \A s \in Tokens : d'[handler][s] = 0
  BY <1>1, <1>2, <1>6 DEF HInv, Updated
<1>15. collateral'[t].totalSupply = collateral[t].totalSupply + n
  BY <1>3, <1>4, <1>5
<1>16. feed' \in [Feeds -> Answers]
  BY <1>3 DEF HInv
<1> QED BY <1>12, <1>13, <1>14, <1>15, <1>16 DEF HInv

LEMMA FuzzMintStep ==
  ASSUME HInv, NEW u \in Senders, NEW n \in DebtAmounts, fuzzMint(u, n)
  PROVE  HInv' /\ collateral' = collateral
<1> DEFINE v == AccountValue(s_collateralDeposited[u])
           m == s_DSCMinted[u]
<1>1. n \in UInt /\ u \in Users /\ u \in Accounts /\ u # Engine
  BY InputsAssumption DEF Senders, Users
<1>2. /\ CanMintDSC(u, s_collateralDeposited[u], n)
      /\ s_DSCMinted' = [s_DSCMinted EXCEPT ![u] = @ + n]
      /\ dsc' = Mint(dsc, u, n)
      /\ UNCHANGED <<s_collateralDeposited, collateral, feed>>
      /\ n \in 1 .. maxDscToMint(u)
  BY DEF fuzzMint, mintDSC
<1>3. v \in Nat /\ m \in Nat /\ s_DSCMinted \in [Accounts -> UInt]
  BY <1>1, BookTypes
<1>4. v * 2 <= MaxUint
  <2>1. n > 0 /\ HealthFactorFits(m + n, v)
    BY <1>2 DEF CanMintDSC, HealthHolds, HealthFits
  <2> HIDE DEF v, m
  <2>2. v * LIQUIDATION_THRESHOLD <= MaxUint
    BY <1>1, <1>3, <2>1 DEF HealthFactorFits
  <2>3. 2 * v <= LIQUIDATION_THRESHOLD * v
    <3>1. 2 \in Nat /\ LIQUIDATION_THRESHOLD \in Nat /\ 2 <= LIQUIDATION_THRESHOLD
      BY SetUpAssumption, ScaleAssumption
    <3> QED BY <1>3, <3>1, ProductMonotone
  <2>4. LIQUIDATION_THRESHOLD * v = v * LIQUIDATION_THRESHOLD /\ v * LIQUIDATION_THRESHOLD \in Nat
    BY <1>3, ScaleAssumption
  <2> QED BY <1>3, <2>2, <2>3, <2>4
<1>5. 2 * (m + n) <= v
  BY <1>1, <1>2, <1>4, BoundedMint
<1>6. IInv'
  <2>1. CollateralKept
    BY <1>2, CollateralIdle DEF HInv, IInv
  <2>2. CoinKept
    BY <1>1, <1>2, MintKeeps DEF HInv, CanMintDSC
  <2>3. feed' \in [Feeds -> Answers \cup {NoAnswer}]
    BY <1>2 DEF HInv, IInv, FeedsOK
  <2> QED BY <2>1, <2>2, <2>3, KeptIInv DEF HInv, Kept
<1>7. SendersAreDoublyBacked'
  <2> SUFFICES ASSUME NEW a \in Accounts
               PROVE  AccountValue(s_collateralDeposited[a])' >= 2 * s_DSCMinted'[a]
    BY DEF SendersAreDoublyBacked
  <2>1. AccountValue(s_collateralDeposited[a])' = AccountValue(s_collateralDeposited[a])
    BY <1>2, ValueNext
  <2>2. AccountValue(s_collateralDeposited[a]) \in Nat /\ AccountValue(s_collateralDeposited[a]) >= 2 * s_DSCMinted[a]
    BY BookTypes
  <2>3. CASE a = u
    <3>1. s_DSCMinted'[a] = m + n
      BY <1>1, <1>2, <1>3, <2>3
    <3>2. AccountValue(s_collateralDeposited[a]) = v
      BY <2>3
    <3> HIDE DEF v, m
    <3> QED BY <1>1, <1>3, <1>5, <2>1, <3>1, <3>2
  <2>4. CASE a # u
    <3>1. s_DSCMinted'[a] = s_DSCMinted[a]
      BY <1>2, <1>3, <2>4
    <3> QED BY <2>1, <2>2, <3>1
  <2> QED BY <2>3, <2>4
<1> QED BY <1>2, <1>6, <1>7 DEF HInv

LEMMA HandlerInitInv == HandlerInit => HInv
<1> SUFFICES ASSUME HandlerInit PROVE HInv
  OBVIOUS
<1>1. /\ IInv /\ feed \in [Feeds -> Answers]
      /\ s_collateralDeposited = [u \in Accounts |-> [t \in Tokens |-> 0]]
      /\ s_DSCMinted = [u \in Accounts |-> 0]
  BY InitIInv DEF HandlerInit, Init
<1>2. PricesRead
  BY <1>1, PricesAreRead
<1>3. ASSUME NEW u \in Accounts
      PROVE  AccountValue(s_collateralDeposited[u]) >= 2 * s_DSCMinted[u]
  <2> DEFINE d == ByIndex(s_collateralDeposited[u])
  <2>1. d \in [Listed -> Nat]
    BY <1>1, ByIndexType DEF IInv, CollateralOK
  <2> HIDE DEF d
  <2>2. \A i \in Listed : d[i] <= d[i]
    BY <2>1
  <2>3. WorthOf(d) \in Nat
    BY <1>2, <2>1, <2>2, WorthOfGrows
  <2>4. s_DSCMinted[u] = 0
    BY <1>1
  <2> QED BY <2>3, <2>4, AccountIsWorth DEF d
<1>4. handler \in Accounts
  BY HandlerAssumption DEF Users
<1> QED BY <1>1, <1>3, <1>4 DEF HInv, SendersAreDoublyBacked

LEMMA HandlerNextInv == HInv /\ [HandlerNext]_handlerVars => HInv'
<1> SUFFICES ASSUME HInv, [HandlerNext]_handlerVars PROVE HInv'
  OBVIOUS
<1>1. CASE HandlerNext
  <2> PICK u \in Senders :
        \/ \E t \in Tokens, n \in DepositAmounts :
             collateral[t].totalSupply + n <= CollateralBound /\ fuzzDeposit(u, t, n)
        \/ \E n \in DebtAmounts : fuzzMint(u, n)
    BY <1>1 DEF HandlerNext
  <2> QED BY FuzzDepositStep, FuzzMintStep
<1>2. CASE UNCHANGED handlerVars
  <2>1. UNCHANGED vars
    BY <1>2 DEF handlerVars, vars
  <2>2. IInv'
    BY <2>1, NextIInv DEF HInv
  <2>3. \A u \in Accounts : AccountValue(s_collateralDeposited[u])' = AccountValue(s_collateralDeposited[u])
    BY <2>1, ValueNext DEF vars
  <2> QED BY <2>1, <2>2, <2>3 DEF HInv, SendersAreDoublyBacked, vars
<1> QED BY <1>1, <1>2

LEMMA HandlerInvariant == HandlerSpec => []HInv
<1> QED BY HandlerInitInv, HandlerNextInv, PTL DEF HandlerSpec

(* Each sender for itself has twice its debt in collateral, whatever was   *)
(* rounded on the way: mintDsc's bound is for all mints together.          *)
THEOREM EverySenderIsBacked == HandlerSpec => []SendersAreDoublyBacked
<1>1. HInv => SendersAreDoublyBacked
  BY DEF HInv
<1> QED BY <1>1, HandlerInvariant, PTL

(* Whatever the recorded deposits of all senders are worth, the engine     *)
(* holds as much.                                                          *)
LEMMA HeldIsWorthMore ==
  ASSUME HInv
  PROVE  LET deposits == [i \in Listed |-> Deposits(tokenAddresses[i])]
             held     == [i \in Listed |-> collateral[tokenAddresses[i]].balances[Engine]]
         IN  /\ deposits \in [Listed -> Nat] /\ held \in [Listed -> Nat]
             /\ WorthOf(deposits) \in Nat /\ WorthOf(held) \in Nat
             /\ WorthOf(deposits) <= WorthOf(held)
             /\ \A k \in [Accounts -> Nat] :
                  (\A u \in Accounts : AccountValue(s_collateralDeposited[u]) >= 2 * k[u]) =>
                    2 * Total(k, Accounts) <= WorthOf(deposits)
<1> DEFINE deposits == [i \in Listed |-> Deposits(tokenAddresses[i])]
           held     == [i \in Listed |-> collateral[tokenAddresses[i]].balances[Engine]]
<1>1. PricesRead /\ CollateralOK /\ s_collateralDeposited \in [Accounts -> [Tokens -> UInt]]
  BY BookTypes
<1>2. ASSUME NEW t \in Tokens
      PROVE  /\ Deposits(t) = DepositsOf(s_collateralDeposited, t)
             /\ Deposits(t) \in Nat /\ collateral[t].balances[Engine] \in Nat
             /\ Deposits(t) <= collateral[t].balances[Engine]
  <2>1. Deposits(t) = DepositsOf(s_collateralDeposited, t)
    BY DEF Deposits, DepositsOf
  <2>2. DepositsOf(s_collateralDeposited, t) \in Nat
    BY <1>1, DepositsType
  <2>3. collateral[t].balances[Engine] \in Nat
    BY <1>1, EngineIsAccount DEF CollateralOK, Ledger
  <2> QED BY <2>1, <2>2, <2>3 DEF HInv, IInv, Solvency
<1>3. \A i \in Listed : tokenAddresses[i] \in Tokens
  BY ListedTokens
<1>4. /\ deposits \in [Listed -> Nat] /\ held \in [Listed -> Nat]
      /\ \A i \in Listed : deposits[i] <= held[i] /\ held[i] <= held[i]
  BY <1>2, <1>3
<1>5. ASSUME NEW k \in [Accounts -> Nat],
             \A u \in Accounts : AccountValue(s_collateralDeposited[u]) >= 2 * k[u]
      PROVE  2 * Total(k, Accounts) <= WorthOf(deposits)
  <2>1. 2 * Total(k, Accounts) <= WorthOf([i \in Listed |-> DepositsOf(s_collateralDeposited, tokenAddresses[i])])
    BY <1>1, <1>5, DebtsCovered
  <2>2. deposits = [i \in Listed |-> DepositsOf(s_collateralDeposited, tokenAddresses[i])]
    BY <1>2, <1>3
  <2> QED BY <2>1, <2>2
<1> HIDE DEF deposits, held
<1>6. WorthOf(deposits) \in Nat /\ WorthOf(deposits) <= WorthOf(held) /\ WorthOf(held) \in Nat
  BY <1>1, <1>4, WorthOfGrows
<1> QED BY <1>4, <1>5, <1>6 DEF deposits, held

(* What the suite asserts after every call: the engine holds more value    *)
(* than there are coins.                                                   *)
THEOREM AssertionHolds == HandlerSpec => []ProtocolHasMoreValueThanSupply
<1>1. HInv => ProtocolHasMoreValueThanSupply
  <2> SUFFICES ASSUME HInv PROVE ProtocolHasMoreValueThanSupply
    OBVIOUS
  <2> DEFINE deposits == [i \in Listed |-> Deposits(tokenAddresses[i])]
             held     == [i \in Listed |-> collateral[tokenAddresses[i]].balances[Engine]]
  <2>1. /\ s_DSCMinted \in [Accounts -> Nat]
        /\ \A u \in Accounts : AccountValue(s_collateralDeposited[u]) >= 2 * s_DSCMinted[u]
    BY BookTypes
  <2>2. /\ WorthOf(deposits) \in Nat /\ WorthOf(held) \in Nat /\ WorthOf(deposits) <= WorthOf(held)
        /\ 2 * Total(s_DSCMinted, Accounts) <= WorthOf(deposits)
    BY <2>1, HeldIsWorthMore
  <2>3. Total(s_DSCMinted, Accounts) \in Nat
    BY <2>1, TotalType
  <2>4. dsc.totalSupply <= Total(s_DSCMinted, Accounts) /\ dsc.totalSupply \in Nat
    BY DEF HInv, IInv, SupplyIsOwed, Sound, Ledger
  <2>5. Total([i \in Listed |-> UsdValue(Price(tokenAddresses[i]),
                                         collateral[tokenAddresses[i]].balances[Engine])], Listed)
          = WorthOf(held)
    BY DEF WorthOf, Worth
  <2> HIDE DEF deposits, held
  <2>6. dsc.totalSupply <= WorthOf(held)
    BY <2>2, <2>3, <2>4
  <2> QED BY <2>2, <2>4, <2>5, <2>6 DEF ProtocolHasMoreValueThanSupply
<1> QED BY <1>1, HandlerInvariant, PTL

-----------------------------------------------------------------------------
(* No mint is passed over.                                                 *)

(* All the collateral there is was minted by the suite. *)
Minted == \A t \in Tokens : collateral[t].totalSupply <= CollateralBound

LEMMA MintedInit == HandlerInit => Minted
BY RoomAssumption DEF HandlerInit, Init, Minted

LEMMA MintedStep == HInv /\ Minted /\ [HandlerNext]_handlerVars => Minted'
<1> SUFFICES ASSUME HInv, Minted, [HandlerNext]_handlerVars PROVE Minted'
  OBVIOUS
<1>1. CASE HandlerNext
  <2> PICK u \in Senders :
        \/ \E t \in Tokens, n \in DepositAmounts :
             collateral[t].totalSupply + n <= CollateralBound /\ fuzzDeposit(u, t, n)
        \/ \E n \in DebtAmounts : fuzzMint(u, n)
    BY <1>1 DEF HandlerNext
  <2>1. CASE \E n \in DebtAmounts : fuzzMint(u, n)
    BY <2>1, FuzzMintStep DEF Minted
  <2>2. CASE \E t \in Tokens, n \in DepositAmounts :
               collateral[t].totalSupply + n <= CollateralBound /\ fuzzDeposit(u, t, n)
    <3> PICK t \in Tokens, n \in DepositAmounts :
               collateral[t].totalSupply + n <= CollateralBound /\ fuzzDeposit(u, t, n)
      BY <2>2
    <3>1. collateral'[t].totalSupply <= CollateralBound
      BY FuzzDepositStep
    <3>2. \A s \in Tokens \ {t} : collateral'[s] = collateral[s]
      BY DEF fuzzDeposit, HInv, IInv, CollateralOK
    <3> QED BY <3>1, <3>2 DEF Minted
  <2> QED BY <2>1, <2>2
<1>2. CASE UNCHANGED handlerVars
  BY <1>2 DEF handlerVars, vars, Minted
<1> QED BY <1>1, <1>2

(* The engine holds no more of a token than was minted of it, and nobody   *)
(* has more on deposit than the engine holds.                              *)
LEMMA DepositsAreMinted ==
  ASSUME HInv, Minted, NEW t \in Tokens
  PROVE  /\ Deposits(t) \in Nat /\ Deposits(t) <= CollateralBound
         /\ \A u \in Accounts : s_collateralDeposited[u][t] <= CollateralBound
<1> DEFINE f == [u \in Accounts |-> s_collateralDeposited[u][t]]
<1>1. \A u \in Accounts : f[u] \in Nat /\ f[u] = s_collateralDeposited[u][t]
  BY BookTypes
<1>2. Deposits(t) = Total(f, Accounts)
  BY DEF Deposits
<1> HIDE DEF f
<1>3. Deposits(t) \in Nat /\ \A u \in Accounts : f[u] <= Deposits(t)
  BY <1>1, <1>2, TotalType, TotalBounds
<1>4. Deposits(t) <= collateral[t].balances[Engine]
  BY DEF HInv, IInv, Solvency
<1>5. /\ collateral[t].balances[Engine] <= collateral[t].totalSupply
      /\ collateral[t].balances[Engine] \in Nat /\ collateral[t].totalSupply \in Nat
  <2> DEFINE l == collateral[t]
  <2>1. Sound(l)
    BY DEF HInv, IInv, CollateralOK
  <2> HIDE DEF l
  <2>2. l.balances[Engine] <= l.totalSupply
    BY <2>1, EngineIsAccount, HoldingsFit
  <2>3. l.balances[Engine] \in Nat /\ l.totalSupply \in Nat
    BY <2>1, EngineIsAccount DEF Sound, Ledger
  <2> QED BY <2>2, <2>3 DEF l
<1>6. collateral[t].totalSupply <= CollateralBound /\ CollateralBound \in Nat
  BY HandlerAssumption DEF Minted
<1> QED BY <1>1, <1>3, <1>4, <1>5, <1>6

(* A value that all of it fits under the width, and a debt half as large:  *)
(* the health check lets it through.                                       *)
LEMMA RoomForHealth ==
  ASSUME NEW v \in Nat, v * LIQUIDATION_THRESHOLD <= MaxUint, v * PRECISION <= MaxUint,
         NEW q \in Nat \ {0}, 2 * q <= v
  PROVE  HealthFactorFits(q, v) /\ HealthFactor(q, v) >= MINIMUM_HEALTH_FACTOR
<1> DEFINE L == LIQUIDATION_PRECISION
           T == LIQUIDATION_THRESHOLD
           P == PRECISION
           A == AdjustedForThreshold(v)
<1>1. L \in Nat \ {0} /\ T \in Nat /\ T <= L /\ P \in Nat \ {0} /\ L <= 2 * T
  BY ScaleAssumption, RoomAssumption
<1>2. v * T <= MaxUint /\ v * P <= MaxUint /\ A = (v * T) \div L
  BY DEF AdjustedForThreshold
<1>h. HealthFactorFits(q, v) <=> v * T <= MaxUint /\ A * P <= MaxUint
  BY DEF HealthFactorFits
<1>c. HealthFactor(q, v) >= MINIMUM_HEALTH_FACTOR <=> MINIMUM_HEALTH_FACTOR * q <= A * P
  BY HealthComparesExactly, EngineAssumption DEF HealthIsComparable
<1> HIDE DEF L, T, P, A
<1>3. v * T \in Nat /\ v * T <= L * v
  <2>1. T * v <= L * v
    BY <1>1, ProductMonotone
  <2> QED BY <1>1, <2>1
<1>4. A \in Nat /\ A <= v
  <2>1. A \in Nat
    BY <1>1, <1>2, <1>3, FloorBounds
  <2> QED BY <1>1, <1>2, <1>3, <2>1, FloorAtMost
<1>5. A * P <= MaxUint
  <2>1. A * P <= v * P
    BY <1>1, <1>4, ProductMonotone
  <2>2. A * P \in Nat /\ v * P \in Nat
    BY <1>1, <1>4
  <2> QED BY <1>2, <2>1, <2>2
<1>6. q <= A
  <2>1. L * q <= (2 * T) * q
    BY <1>1, ProductMonotone
  <2>2. (2 * q) * T <= v * T
    BY <1>1, ProductMonotone
  <2>3. (2 * T) * q = (2 * q) * T /\ (2 * T) * q \in Nat /\ L * q \in Nat
    BY <1>1
  <2>4. L * q <= v * T
    BY <1>3, <2>1, <2>2, <2>3
  <2>5. (v * T) \div L >= q
    BY <1>1, <1>3, <2>4, FloorAtLeast
  <2> QED BY <1>2, <1>4, <2>5
<1>7. MINIMUM_HEALTH_FACTOR * q <= A * P
  <2>1. MINIMUM_HEALTH_FACTOR \in Nat /\ MINIMUM_HEALTH_FACTOR <= P
    BY EngineAssumption, RoomAssumption DEF P
  <2>2. MINIMUM_HEALTH_FACTOR * q <= P * q
    BY <1>1, <2>1, ProductMonotone
  <2>3. q * P <= A * P
    BY <1>1, <1>4, <1>6, ProductMonotone
  <2>4. P * q = q * P /\ q * P \in Nat /\ A * P \in Nat /\ MINIMUM_HEALTH_FACTOR * q \in Nat
    BY <1>1, <1>4, <2>1
  <2> QED BY <2>2, <2>3, <2>4
<1> QED BY <1>2, <1>5, <1>7, <1>h, <1>c

(* All there can be of every token is worth so little that nothing the     *)
(* engine computes of it overflows.                                        *)
LEMMA RoomForWorth ==
  ASSUME PricesRead
  PROVE  /\ \A i \in Listed, n \in Nat : n <= CollateralBound => UsdValueFits(Price(tokenAddresses[i]), n)
         /\ \A d \in [Listed -> Nat] : (\A i \in Listed : d[i] <= CollateralBound) =>
              /\ WorthOf(d) \in Nat
              /\ WorthOf(d) * LIQUIDATION_THRESHOLD <= MaxUint
              /\ WorthOf(d) * PRECISION <= MaxUint
<1> PICK most \in UInt :
      /\ \A price \in Answers :
           UsdValueFits(price, CollateralBound) /\ UsdValue(price, CollateralBound) <= most
      /\ Len(tokenAddresses) * most * LIQUIDATION_THRESHOLD <= MaxUint
      /\ Len(tokenAddresses) * most * PRECISION <= MaxUint
  BY RoomAssumption
<1>0. CollateralBound \in Nat /\ LIQUIDATION_THRESHOLD \in Nat /\ PRECISION \in Nat
  BY HandlerAssumption, ScaleAssumption
<1>1. ASSUME NEW i \in Listed, NEW n \in Nat, n <= CollateralBound
      PROVE  UsdValueFits(Price(tokenAddresses[i]), n) /\ Worth(i, n) \in Nat /\ Worth(i, n) <= most
  <2> DEFINE price == Price(tokenAddresses[i])
  <2>1. price \in Answers /\ price \in Int
    BY AnswersAreWhole DEF PricesRead
  <2>2. UsdValueFits(price, CollateralBound) /\ UsdValue(price, CollateralBound) <= most
    BY <2>1
  <2> HIDE DEF price
  <2>3. /\ UsdValue(price, n) \in Nat /\ UsdValue(price, CollateralBound) \in Nat
        /\ UsdValue(price, n) <= UsdValue(price, CollateralBound)
        /\ UsdValueFits(price, n)
    BY <1>0, <1>1, <2>1, <2>2, UsdValueMonotone
  <2> QED BY <2>2, <2>3 DEF Worth, price
<1>2. ASSUME NEW d \in [Listed -> Nat], \A i \in Listed : d[i] <= CollateralBound
      PROVE  /\ WorthOf(d) \in Nat
             /\ WorthOf(d) * LIQUIDATION_THRESHOLD <= MaxUint
             /\ WorthOf(d) * PRECISION <= MaxUint
  <2> DEFINE f   == [i \in Listed |-> Worth(i, d[i])]
             g   == [i \in Listed |-> most]
             all == Len(tokenAddresses) * most
  <2>1. \A i \in Listed : f[i] \in Nat /\ g[i] \in Nat /\ f[i] <= g[i]
    BY <1>1, <1>2
  <2>2. Total(g, Listed) = all
    <3>1. \A i \in Listed : g[i] = most
      OBVIOUS
    <3>2. Total(g, Listed) = Cardinality(Listed) * most
      <4>1. most \in Nat
        OBVIOUS
      <4> HIDE DEF g
      <4> QED BY ONLY <4>1, <3>1, ListedTokens, TotalConstant
    <3> QED BY <3>2, ListedTokens
  <2>3. WorthOf(d) = Total(f, Listed)
    BY DEF WorthOf
  <2>4. all \in Nat /\ all * LIQUIDATION_THRESHOLD <= MaxUint /\ all * PRECISION <= MaxUint
    BY ListedTokens
  <2> HIDE DEF f, g, all
  <2>5. WorthOf(d) \in Nat /\ WorthOf(d) <= all
    <3>1. Total(f, Listed) \in Nat
      BY <2>1, ListedTokens, TotalType
    <3>2. Total(f, Listed) <= Total(g, Listed)
      BY <2>1, ListedTokens, TotalMonotone
    <3> QED BY <2>2, <2>3, <3>1, <3>2
  <2>6. \A c \in Nat : WorthOf(d) * c \in Nat /\ all * c \in Nat /\ WorthOf(d) * c <= all * c
    BY <2>4, <2>5, ProductMonotone
  <2>7. WorthOf(d) * LIQUIDATION_THRESHOLD <= MaxUint
    <3>1. /\ WorthOf(d) * LIQUIDATION_THRESHOLD \in Nat /\ all * LIQUIDATION_THRESHOLD \in Nat
          /\ WorthOf(d) * LIQUIDATION_THRESHOLD <= all * LIQUIDATION_THRESHOLD
      BY ONLY <1>0, <2>6
    <3>2. all * LIQUIDATION_THRESHOLD <= MaxUint /\ MaxUint \in Nat
      BY <2>4
    <3> QED BY ONLY <3>1, <3>2
  <2>8. WorthOf(d) * PRECISION <= MaxUint
    <3>1. /\ WorthOf(d) * PRECISION \in Nat /\ all * PRECISION \in Nat
          /\ WorthOf(d) * PRECISION <= all * PRECISION
      BY ONLY <1>0, <2>6
    <3>2. all * PRECISION <= MaxUint /\ MaxUint \in Nat
      BY <2>4
    <3> QED BY ONLY <3>1, <3>2
  <2> QED BY <2>5, <2>7, <2>8
<1> QED BY <1>1, <1>2

(* Whatever mintDsc draws within its bounds, mintDSC takes: the casts lose *)
(* nothing, the account fits, its health holds and the coin can be minted. *)
LEMMA MintsGoThrough ==
  ASSUME HInv, Minted, NEW u \in Senders, NEW n \in 1 .. maxDscToMint(u)
  PROVE  CanMintDSC(u, s_collateralDeposited[u], n)
<1> DEFINE d == s_collateralDeposited[u]
           v == AccountValue(d)
           m == s_DSCMinted[u]
           k == [s_DSCMinted EXCEPT ![u] = m + n]
           deposits == [i \in Listed |-> Deposits(tokenAddresses[i])]
<1>1. u \in Accounts /\ u # ZeroAddress /\ PricesRead /\ \A i \in Listed : Priced(tokenAddresses[i])
  BY PricesAreRead DEF Senders, Users, HInv
<1>2. /\ d \in [Tokens -> UInt] /\ v \in Nat /\ m \in Nat /\ s_DSCMinted \in [Accounts -> UInt]
      /\ \A a \in Accounts : AccountValue(s_collateralDeposited[a]) >= 2 * s_DSCMinted[a]
  BY <1>1, BookTypes
<1>3. /\ ByIndex(d) \in [Listed -> Nat] /\ v = WorthOf(ByIndex(d))
      /\ \A i \in Listed : ByIndex(d)[i] = d[tokenAddresses[i]] /\ ByIndex(d)[i] <= CollateralBound
  <2>1. \A i \in Listed : ByIndex(d)[i] = d[tokenAddresses[i]]
    BY DEF ByIndex
  <2>2. \A i \in Listed : d[tokenAddresses[i]] <= CollateralBound
    BY <1>1, ListedTokens, DepositsAreMinted
  <2> QED BY <1>2, <2>1, <2>2, AccountIsWorth, ByIndexType
<1>4. /\ v * LIQUIDATION_THRESHOLD <= MaxUint /\ v * PRECISION <= MaxUint
      /\ \A i \in Listed : UsdValueFits(Price(tokenAddresses[i]), d[tokenAddresses[i]])
  <2> HIDE DEF d, v
  <2>1. v * LIQUIDATION_THRESHOLD <= MaxUint /\ v * PRECISION <= MaxUint
    BY <1>1, <1>3, RoomForWorth
  <2>2. ASSUME NEW i \in Listed
        PROVE  UsdValueFits(Price(tokenAddresses[i]), d[tokenAddresses[i]])
    <3>1. d[tokenAddresses[i]] \in Nat /\ d[tokenAddresses[i]] <= CollateralBound
      BY <1>3
    <3> QED BY <1>1, <3>1, RoomForWorth
  <2> QED BY <2>1, <2>2
<1>5. \A w \in Nat : w * LIQUIDATION_THRESHOLD <= MaxUint => w * 2 <= MaxUint
  <2> SUFFICES ASSUME NEW w \in Nat, w * LIQUIDATION_THRESHOLD <= MaxUint
               PROVE  w * 2 <= MaxUint
    OBVIOUS
  <2>1. 2 \in Nat /\ LIQUIDATION_THRESHOLD \in Nat /\ 2 <= LIQUIDATION_THRESHOLD
    BY SetUpAssumption, ScaleAssumption
  <2>2. 2 * w <= LIQUIDATION_THRESHOLD * w
    BY <2>1, ProductMonotone
  <2>3. /\ LIQUIDATION_THRESHOLD * w = w * LIQUIDATION_THRESHOLD
        /\ w * LIQUIDATION_THRESHOLD \in Nat
    BY <2>1
  <2> QED BY <2>2, <2>3
<1>6. n \in Nat \ {0} /\ 2 * (m + n) <= v /\ v * 2 <= MaxUint
  <2>1. v * 2 <= MaxUint
    BY <1>2, <1>4, <1>5
  <2> QED BY <1>1, <2>1, BoundedMint
<1>7. HealthHolds(d, m + n)
  <2> HIDE DEF d, v, m
  <2>1. m + n \in Nat \ {0}
    BY <1>2, <1>6
  <2>2. HealthFactorFits(m + n, v) /\ HealthFactor(m + n, v) >= MINIMUM_HEALTH_FACTOR
    BY <1>2, <1>4, <1>6, <2>1, RoomForHealth
  <2>3. v <= MaxUint
    BY <1>2, <1>6
  <2>4. AccountValueFits(d)
    BY <1>1, <1>4, <2>3 DEF AccountValueFits, v
  <2> QED BY <2>2, <2>4 DEF HealthHolds, HealthFits, Health, v
<1>8. dsc.totalSupply + n <= MaxUint
  <2>1. k \in [Accounts -> Nat] /\ k[u] = m + n /\ \A a \in Accounts \ {u} : k[a] = s_DSCMinted[a]
    BY <1>1, <1>2, <1>6
  <2>2. \A a \in Accounts : AccountValue(s_collateralDeposited[a]) >= 2 * k[a]
    BY <1>2, <1>6, <2>1
  <2>3. \A a \in Accounts : s_DSCMinted[a] \in Nat
    BY <1>2
  <2> HIDE DEF k, d, v
  <2>4. 2 * Total(k, Accounts) <= WorthOf(deposits)
    BY <2>1, <2>2, HeldIsWorthMore
  <2>5. Total(k, Accounts) = Total(s_DSCMinted, Accounts) - m + (m + n)
    <3> HIDE DEF m
    <3>1. m = s_DSCMinted[u]
      BY DEF m
    <3>2. k[u] \in Nat
      BY <1>1, <2>1
    <3> QED BY <1>1, <2>1, <2>3, <3>1, <3>2, TotalUpdate
  <2>6. Total(s_DSCMinted, Accounts) \in Nat
    BY <2>3, TotalType
  <2>7. dsc.totalSupply <= Total(s_DSCMinted, Accounts) /\ dsc.totalSupply \in Nat
    BY DEF HInv, IInv, SupplyIsOwed, Sound, Ledger
  <2>8. WorthOf(deposits) \in Nat /\ WorthOf(deposits) * 2 <= MaxUint
    <3>1. deposits \in [Listed -> Nat] /\ \A i \in Listed : deposits[i] <= CollateralBound
      BY ListedTokens, DepositsAreMinted
    <3> HIDE DEF deposits
    <3>2. WorthOf(deposits) \in Nat /\ WorthOf(deposits) * LIQUIDATION_THRESHOLD <= MaxUint
      BY <1>1, <3>1, RoomForWorth
    <3> QED BY <1>5, <3>2
  <2> HIDE DEF deposits, m
  <2> QED BY <1>2, <1>6, <2>4, <2>5, <2>6, <2>7, <2>8
<1>9. m + n <= MaxUint
  BY <1>2, <1>6
<1> QED BY <1>1, <1>6, <1>7, <1>8, <1>9 DEF CanMintDSC, CanMint

(* No mint and no withdrawal of the handler's reverts: fail_on_revert may  *)
(* be false, and still nothing of the two is passed over.                  *)
THEOREM NoMintIsPassedOver == HandlerSpec => []NothingIsPassedOver
<1>1. HInv /\ Minted => NothingIsPassedOver
  BY MintsGoThrough DEF NothingIsPassedOver, HInv, maxCollateralToRedeem
<1>2. HandlerSpec => []Minted
  <2>1. HandlerInit => Minted
    BY MintedInit
  <2>2. HInv /\ Minted /\ [HandlerNext]_handlerVars => Minted'
    BY MintedStep
  <2> QED BY <2>1, <2>2, HandlerInvariant, PTL DEF HandlerSpec
<1> QED BY <1>1, <1>2, HandlerInvariant, PTL
=============================================================================
