-------------------------- MODULE DSCEngine_proofs --------------------------
(***************************************************************************)
(* The engine's books for every set of users and tokens, every listing of  *)
(* tokens and feeds, every scale and every integer width.                  *)
(*                                                                         *)
(* Solvency and SupplyIsOwed are inductive only together with two facts    *)
(* about the token contracts: every ledger balances its books, without     *)
(* which an unchecked addition might wrap the engine's balance, and the    *)
(* engine has granted nobody an allowance, without which a transferFrom    *)
(* could take the deposits.                                                *)
(***************************************************************************)
EXTENDS DSCEngine, Arithmetic_proofs

USE AccountsAssumption, MaxUintAssumption DEF UInt

(* The engine approves nobody. *)
GrantsNothing(l) == \A b \in Accounts : l.allowances[Engine][b] = 0

CollateralOK ==
  /\ s_collateralDeposited \in [Accounts -> [Tokens -> UInt]]
  /\ collateral \in [Tokens -> Ledger]
  /\ \A t \in Tokens : Sound(collateral[t]) /\ GrantsNothing(collateral[t])

FeedsOK == feed \in [Feeds -> Answers \cup {NoAnswer}]

IInv ==
  /\ CollateralOK
  /\ s_DSCMinted \in [Accounts -> UInt]
  /\ Sound(dsc) /\ GrantsNothing(dsc)
  /\ FeedsOK
  /\ Solvency
  /\ SupplyIsOwed

(* What no call of a user does to a ledger: unbalance its books, take from *)
(* the engine, or give out an allowance in its name.                       *)
Respects(l, m) ==
  /\ Sound(m) /\ GrantsNothing(m)
  /\ m.balances[Engine] >= l.balances[Engine]

-----------------------------------------------------------------------------
(* Ledgers. *)

LEMMA EngineIsAccount == Engine \in Accounts
BY EngineAssumption

LEMMA UserTransferRespects ==
  ASSUME NEW l, Sound(l), GrantsNothing(l), NEW u \in Users, NEW to, NEW n \in UInt,
         CanTransfer(l, u, to, n), to \in Address
  PROVE  /\ Respects(l, Transfer(l, u, to, n))
         /\ Transfer(l, u, to, n).totalSupply = l.totalSupply
<1>1. u \in Accounts /\ u # Engine /\ to \in Accounts /\ Engine \in Accounts
  BY EngineAssumption DEF Users, Address, CanTransfer
<1>2. Sound(Transfer(l, u, to, n))
  BY <1>1, TransferSound
<1>3. /\ Transfer(l, u, to, n).totalSupply = l.totalSupply
      /\ Transfer(l, u, to, n).allowances = l.allowances
  BY <1>1, TransferSound
<1>4. Transfer(l, u, to, n).balances[Engine] =
        IF u = to THEN l.balances[Engine]
        ELSE IF Engine = u THEN l.balances[Engine] - n
        ELSE IF Engine = to THEN l.balances[Engine] + n
        ELSE l.balances[Engine]
  BY <1>1, TransferBalances
<1>5. l.balances[Engine] \in Nat
  BY <1>1 DEF Sound, Ledger
<1> QED BY <1>1, <1>2, <1>3, <1>4, <1>5 DEF Respects, GrantsNothing

LEMMA UserTransferFromRespects ==
  ASSUME NEW l, Sound(l), GrantsNothing(l), NEW u \in Users, NEW from \in Accounts,
         NEW to \in Address, NEW n \in UInt, CanTransferFrom(l, u, from, to, n)
  PROVE  /\ Respects(l, TransferFrom(l, u, from, to, n))
         /\ TransferFrom(l, u, from, to, n).totalSupply = l.totalSupply
<1> DEFINE m == TransferFrom(l, u, from, to, n)
<1> SUFFICES Respects(l, m) /\ m.totalSupply = l.totalSupply
  OBVIOUS
<1>1. u \in Accounts /\ to \in Accounts /\ Engine \in Accounts
  BY EngineAssumption DEF Users, Address, CanTransferFrom, CanTransfer
<1>2. Sound(m) /\ m.totalSupply = l.totalSupply
  BY <1>1, TransferFromSound
<1>3. m.balances[Engine] =
        IF from = to THEN l.balances[Engine]
        ELSE IF Engine = from THEN l.balances[Engine] - n
        ELSE IF Engine = to THEN l.balances[Engine] + n
        ELSE l.balances[Engine]
  BY <1>1, TransferFromSound
<1>4. \A a \in Accounts \ {from} : m.allowances[a] = l.allowances[a]
  BY <1>1, TransferFromSound
<1>5. l.balances[Engine] \in Nat /\ l.allowances \in [Accounts -> [Accounts -> UInt]]
  BY <1>1 DEF Sound, Ledger
<1>6. CASE from # Engine
  <2> HIDE DEF m
  <2> QED BY <1>1, <1>2, <1>3, <1>4, <1>5, <1>6 DEF Respects, GrantsNothing
<1>7. CASE from = Engine
  <2>1. n = 0
    BY <1>1, <1>7 DEF CanTransferFrom, CanSpend, GrantsNothing
  <2>2. l.allowances[Engine][u] = 0
    BY <1>1 DEF GrantsNothing
  <2>3. Spend(l, from, u, n) = Approve(l, Engine, u, 0)
    BY <1>7, <2>1, <2>2 DEF Spend
  <2>4. \A a \in Accounts, b \in Accounts : m.allowances[a][b] = l.allowances[a][b]
    BY <1>1, <1>5, <2>2, <2>3 DEF TransferFrom, Transfer, Approve, Sound, Ledger
  <2> HIDE DEF m
  <2>5. GrantsNothing(m)
    BY <1>1, <2>4 DEF GrantsNothing
  <2> QED BY <1>2, <1>3, <1>5, <2>1, <2>5 DEF Respects
<1> QED BY <1>6, <1>7

LEMMA UserBurnFromRespects ==
  ASSUME NEW l, Sound(l), GrantsNothing(l), NEW u \in Users, NEW from \in Accounts,
         NEW n \in UInt, CanBurnFrom(l, u, from, n)
  PROVE  /\ Respects(l, BurnFrom(l, u, from, n))
         /\ BurnFrom(l, u, from, n).totalSupply <= l.totalSupply
<1> DEFINE m == BurnFrom(l, u, from, n)
<1> SUFFICES Respects(l, m) /\ m.totalSupply <= l.totalSupply
  OBVIOUS
<1>1. u \in Accounts /\ Engine \in Accounts
  BY EngineAssumption DEF Users
<1>2. /\ Sound(m) /\ m.totalSupply = l.totalSupply - n
      /\ m.balances = [l.balances EXCEPT ![from] = @ - n]
      /\ \A a \in Accounts \ {from} : m.allowances[a] = l.allowances[a]
  BY <1>1, BurnFromSound
<1>3. /\ l.balances \in [Accounts -> UInt] /\ l.totalSupply \in Nat
      /\ l.allowances \in [Accounts -> [Accounts -> UInt]]
  BY DEF Sound, Ledger
<1>4. CASE from # Engine
  <2> HIDE DEF m
  <2> QED BY <1>1, <1>2, <1>3, <1>4 DEF Respects, GrantsNothing
<1>5. CASE from = Engine
  <2>1. n = 0
    BY <1>1, <1>5 DEF CanBurnFrom, CanSpend, GrantsNothing
  <2>2. l.allowances[Engine][u] = 0
    BY <1>1 DEF GrantsNothing
  <2>3. Spend(l, from, u, n) = Approve(l, Engine, u, 0)
    BY <1>5, <2>1, <2>2 DEF Spend
  <2>4. \A a \in Accounts, b \in Accounts : m.allowances[a][b] = l.allowances[a][b]
    BY <1>1, <1>3, <2>2, <2>3 DEF BurnFrom, Burn, Approve, Sound, Ledger
  <2> HIDE DEF m
  <2>5. GrantsNothing(m)
    BY <1>1, <2>4 DEF GrantsNothing
  <2>6. m.balances[Engine] = l.balances[Engine] - 0
    BY <1>1, <1>2, <1>3, <1>5, <2>1
  <2> QED BY <1>1, <1>2, <1>3, <2>1, <2>5, <2>6 DEF Respects
<1> QED BY <1>4, <1>5

LEMMA UserApproveRespects ==
  ASSUME NEW l, Sound(l), GrantsNothing(l), NEW u \in Users, NEW spender \in Accounts, NEW n \in UInt
  PROVE  /\ Respects(l, Approve(l, u, spender, n))
         /\ Approve(l, u, spender, n).totalSupply = l.totalSupply
<1> DEFINE m == Approve(l, u, spender, n)
<1>1. u \in Accounts /\ u # Engine /\ Engine \in Accounts
  BY EngineAssumption DEF Users
<1>2. Sound(m) /\ m.totalSupply = l.totalSupply /\ m.balances = l.balances
  BY <1>1, ApproveSound
<1>3. m.allowances[Engine] = l.allowances[Engine]
  BY <1>1 DEF Approve, Sound, Ledger
<1>4. l.balances[Engine] \in Nat
  BY <1>1 DEF Sound, Ledger
<1> QED BY <1>2, <1>3, <1>4 DEF Respects, GrantsNothing

-----------------------------------------------------------------------------
(* The collateral side: deposits and the tokens behind them.               *)

(* What is deposited of t, for any table of deposits. *)
DepositsOf(d, t) == Total([u \in Accounts |-> d[u][t]], Accounts)

(* A table of deposits with one entry changed. *)
Updated(d, u, t, k) == [d EXCEPT ![u][t] = k]

(* What every step does to the collateral side. *)
CollateralKept ==
  /\ s_collateralDeposited' \in [Accounts -> [Tokens -> UInt]]
  /\ collateral' \in [Tokens -> Ledger]
  /\ \A t \in Tokens :
       /\ Sound(collateral'[t]) /\ GrantsNothing(collateral'[t])
       /\ Surplus(t)' >= Surplus(t)

LEMMA DepositsType ==
  ASSUME NEW d \in [Accounts -> [Tokens -> UInt]], NEW t \in Tokens
  PROVE  DepositsOf(d, t) \in Nat
<1> DEFINE f == [u \in Accounts |-> d[u][t]]
<1>1. IsFiniteSet(Accounts) /\ \A u \in Accounts : f[u] \in Nat
  OBVIOUS
<1>2. Total(f, Accounts) \in Nat
  <2> HIDE DEF f
  <2> QED BY <1>1, TotalType
<1> QED BY <1>2 DEF DepositsOf

(* Changing one user's deposit of one token changes that token's total by  *)
(* the difference and no other token's.                                    *)
LEMMA DepositsChange ==
  ASSUME NEW d \in [Accounts -> [Tokens -> UInt]], NEW u \in Accounts, NEW t \in Tokens,
         NEW k \in UInt
  PROVE  /\ Updated(d, u, t, k) \in [Accounts -> [Tokens -> UInt]]
         /\ DepositsOf(Updated(d, u, t, k), t) = DepositsOf(d, t) - d[u][t] + k
         /\ \A s \in Tokens \ {t} : DepositsOf(Updated(d, u, t, k), s) = DepositsOf(d, s)
<1> DEFINE e == Updated(d, u, t, k)
<1>1. /\ e \in [Accounts -> [Tokens -> UInt]]
      /\ e[u][t] = k
      /\ \A a \in Accounts \ {u} : e[a] = d[a]
      /\ \A s \in Tokens \ {t} : e[u][s] = d[u][s]
  BY DEF Updated
<1> SUFFICES /\ DepositsOf(e, t) = DepositsOf(d, t) - d[u][t] + k
             /\ \A s \in Tokens \ {t} : DepositsOf(e, s) = DepositsOf(d, s)
  BY <1>1
<1> HIDE DEF e
<1>2. DepositsOf(e, t) = DepositsOf(d, t) - d[u][t] + k
  <2> DEFINE f == [a \in Accounts |-> d[a][t]]
             g == [a \in Accounts |-> e[a][t]]
  <2>1. /\ IsFiniteSet(Accounts)
        /\ \A a \in Accounts : f[a] \in Nat
    OBVIOUS
  <2>2. g[u] = k /\ g[u] \in Nat /\ f[u] = d[u][t]
    BY <1>1
  <2>3. \A a \in Accounts \ {u} : g[a] = f[a]
    BY <1>1
  <2>4. Total(g, Accounts) = Total(f, Accounts) - f[u] + g[u]
    <3> HIDE DEF f, g
    <3> QED BY <2>1, <2>2, <2>3, TotalUpdate
  <2> QED BY <2>2, <2>4 DEF DepositsOf
<1>3. ASSUME NEW s \in Tokens \ {t}
      PROVE  DepositsOf(e, s) = DepositsOf(d, s)
  <2>1. \A a \in Accounts : e[a][s] = d[a][s]
    BY <1>1
  <2>2. [a \in Accounts |-> e[a][s]] = [a \in Accounts |-> d[a][s]]
    BY <2>1, Zenon
  <2> QED BY <2>2 DEF DepositsOf
<1> QED BY <1>2, <1>3

(* Of one token the books and the engine's balance change by so much.      *)
Moves(u, t, k, m) ==
  /\ u \in Accounts /\ t \in Tokens /\ k \in UInt /\ Sound(m) /\ GrantsNothing(m)
  /\ s_collateralDeposited' = Updated(s_collateralDeposited, u, t, k)
  /\ collateral' = [collateral EXCEPT ![t] = m]

LEMMA OneTokenMoves ==
  ASSUME CollateralOK, NEW u, NEW t, NEW k, NEW m, Moves(u, t, k, m)
  PROVE  /\ CollateralOK'
         /\ \A s \in Tokens \ {t} : Surplus(s)' = Surplus(s)
         /\ Surplus(t)' = m.balances[Engine] - (Deposits(t) - s_collateralDeposited[u][t] + k)
<1> USE DEF Moves
<1> DEFINE d == s_collateralDeposited
<1>1. /\ d \in [Accounts -> [Tokens -> UInt]] /\ collateral \in [Tokens -> Ledger]
      /\ \A s \in Tokens : Sound(collateral[s]) /\ GrantsNothing(collateral[s])
  BY DEF CollateralOK
<1>2. /\ Updated(d, u, t, k) \in [Accounts -> [Tokens -> UInt]]
      /\ DepositsOf(Updated(d, u, t, k), t) = DepositsOf(d, t) - d[u][t] + k
      /\ \A s \in Tokens \ {t} : DepositsOf(Updated(d, u, t, k), s) = DepositsOf(d, s)
  <2> HIDE DEF d
  <2> QED BY <1>1, DepositsChange
<1>3. m \in Ledger
  BY DEF Sound
<1>4. /\ collateral' \in [Tokens -> Ledger] /\ collateral'[t] = m
      /\ \A s \in Tokens \ {t} : collateral'[s] = collateral[s]
  BY <1>1, <1>3
<1>5. CollateralOK'
  BY <1>1, <1>2, <1>4 DEF CollateralOK
<1>6. /\ DepositsOf(d', t) = DepositsOf(d, t) - d[u][t] + k
      /\ \A s \in Tokens \ {t} : DepositsOf(d', s) = DepositsOf(d, s)
  BY <1>2
<1> QED BY <1>4, <1>5, <1>6 DEF Surplus, Deposits, DepositsOf

(* Depositing: the engine takes what it writes down. *)
LEMMA DepositKeeps ==
  ASSUME CollateralOK, NEW u \in Users, NEW t \in Tokens, NEW n \in UInt, CanDeposit(u, t, n),
         s_collateralDeposited' = Deposited(u, t, n),
         collateral' = [collateral EXCEPT ![t] = TransferFrom(@, Engine, u, Engine, n)]
  PROVE  CollateralKept
<1> DEFINE l == collateral[t]
           m == TransferFrom(l, Engine, u, Engine, n)
           d == s_collateralDeposited
           k == d[u][t] + n
<1>1. u \in Accounts /\ u # Engine /\ Engine \in Accounts
  BY EngineAssumption DEF Users
<1>2. /\ d \in [Accounts -> [Tokens -> UInt]] /\ collateral \in [Tokens -> Ledger]
      /\ \A s \in Tokens : Sound(collateral[s]) /\ GrantsNothing(collateral[s])
  BY DEF CollateralOK
<1>3. k \in UInt /\ s_collateralDeposited' = Updated(d, u, t, k)
  BY <1>1, <1>2 DEF CanDeposit, Deposited, Updated
<1>4. Sound(l) /\ GrantsNothing(l) /\ CanTransferFrom(l, Engine, u, Engine, n)
  BY <1>2 DEF CanDeposit
<1>5. /\ Sound(m)
      /\ m.balances[Engine] = l.balances[Engine] + n
      /\ m.allowances[Engine] = l.allowances[Engine]
  <2> HIDE DEF l
  <2> QED BY <1>1, <1>4, TransferFromSound
<1>6. GrantsNothing(m)
  BY <1>4, <1>5 DEF GrantsNothing
<1>7. collateral' = [collateral EXCEPT ![t] = m]
  BY <1>2
<1>8. /\ s_collateralDeposited' \in [Accounts -> [Tokens -> UInt]]
      /\ DepositsOf(s_collateralDeposited', t) = DepositsOf(d, t) - d[u][t] + k
      /\ \A s \in Tokens \ {t} : DepositsOf(s_collateralDeposited', s) = DepositsOf(d, s)
  <2> HIDE DEF d, k
  <2>1. u \in Accounts /\ d \in [Accounts -> [Tokens -> UInt]] /\ k \in UInt
    BY <1>1, <1>2, <1>3
  <2> QED BY <2>1, <1>3, DepositsChange
<1>9. /\ DepositsOf(d, t) \in Nat /\ d[u][t] \in Nat /\ l.balances[Engine] \in Nat
      /\ \A s \in Tokens : DepositsOf(d, s) \in Nat /\ collateral[s].balances[Engine] \in Nat
  <2>1. \A s \in Tokens : DepositsOf(d, s) \in Nat
    <3> HIDE DEF d
    <3> QED BY <1>2, DepositsType
  <2>2. \A s \in Tokens : collateral[s].balances[Engine] \in Nat
    BY <1>1, <1>2 DEF Ledger
  <2> QED BY <1>1, <1>2, <2>1, <2>2
<1> HIDE DEF m
<1>10. collateral' \in [Tokens -> Ledger]
  BY <1>2, <1>5, <1>7 DEF Sound
<1>11. \A s \in Tokens : Sound(collateral'[s]) /\ GrantsNothing(collateral'[s])
  BY <1>2, <1>5, <1>6, <1>7
<1>12. ASSUME NEW s \in Tokens
       PROVE  collateral'[s].balances[Engine] - DepositsOf(s_collateralDeposited', s)
                >= collateral[s].balances[Engine] - DepositsOf(d, s)
  <2>1. CASE s = t
    <3>1. collateral'[s].balances[Engine] = l.balances[Engine] + n
      BY <1>2, <1>5, <1>7, <2>1
    <3> QED BY <1>8, <1>9, <2>1, <3>1
  <2>2. CASE s # t
    <3>1. collateral'[s] = collateral[s]
      BY <1>2, <1>7, <2>2
    <3> QED BY <1>8, <1>9, <2>2, <3>1
  <2> QED BY <2>1, <2>2
<1> QED BY <1>8, <1>10, <1>11, <1>12 DEF CollateralKept, Surplus, Deposits, DepositsOf

(* Withdrawing: the engine pays no more than it writes off; when it pays   *)
(* itself it keeps the amount as a surplus.                                *)
LEMMA RedeemKeeps ==
  ASSUME CollateralOK, NEW t \in Tokens, NEW n \in UInt, NEW from \in Accounts, NEW to \in Address,
         CanRedeem(t, n, from, to), Redeem(t, n, from, to)
  PROVE  CollateralKept
<1> DEFINE l == collateral[t]
           m == Transfer(l, Engine, to, n)
           d == s_collateralDeposited
           k == d[from][t] - n
<1>1. to \in Accounts /\ Engine \in Accounts
  BY EngineAssumption DEF CanRedeem, CanTransfer, Address
<1>2. /\ d \in [Accounts -> [Tokens -> UInt]] /\ collateral \in [Tokens -> Ledger]
      /\ \A s \in Tokens : Sound(collateral[s]) /\ GrantsNothing(collateral[s])
  BY DEF CollateralOK
<1>3. k \in UInt /\ s_collateralDeposited' = Updated(d, from, t, k)
  BY <1>2 DEF CanRedeem, Redeem, Redeemed, Updated
<1>4. Sound(l) /\ GrantsNothing(l) /\ CanTransfer(l, Engine, to, n)
  BY <1>2 DEF CanRedeem
<1>5. /\ Sound(m)
      /\ m.allowances = l.allowances
      /\ m.balances[Engine] = IF to = Engine THEN l.balances[Engine] ELSE l.balances[Engine] - n
  <2> HIDE DEF l
  <2>1. Sound(m) /\ m.allowances = l.allowances
    BY <1>1, <1>4, TransferSound
  <2>2. m.balances[Engine] = IF Engine = to THEN l.balances[Engine]
                             ELSE IF Engine = Engine THEN l.balances[Engine] - n
                             ELSE IF Engine = to THEN l.balances[Engine] + n
                             ELSE l.balances[Engine]
    BY <1>1, <1>4, TransferBalances
  <2> QED BY <2>1, <2>2
<1>6. GrantsNothing(m)
  BY <1>4, <1>5 DEF GrantsNothing
<1>7. collateral' = [collateral EXCEPT ![t] = m]
  BY <1>2 DEF Redeem
<1>8. /\ s_collateralDeposited' \in [Accounts -> [Tokens -> UInt]]
      /\ DepositsOf(s_collateralDeposited', t) = DepositsOf(d, t) - d[from][t] + k
      /\ \A s \in Tokens \ {t} : DepositsOf(s_collateralDeposited', s) = DepositsOf(d, s)
  <2> HIDE DEF d, k
  <2> QED BY <1>2, <1>3, DepositsChange
<1>9. /\ DepositsOf(d, t) \in Nat /\ d[from][t] \in Nat /\ l.balances[Engine] \in Nat
      /\ \A s \in Tokens : DepositsOf(d, s) \in Nat /\ collateral[s].balances[Engine] \in Nat
  <2>1. \A s \in Tokens : DepositsOf(d, s) \in Nat
    <3> HIDE DEF d
    <3> QED BY <1>2, DepositsType
  <2>2. \A s \in Tokens : collateral[s].balances[Engine] \in Nat
    BY <1>1, <1>2 DEF Ledger
  <2> QED BY <1>1, <1>2, <2>1, <2>2
<1> HIDE DEF m
<1>10. collateral' \in [Tokens -> Ledger]
  BY <1>2, <1>5, <1>7 DEF Sound
<1>11. \A s \in Tokens : Sound(collateral'[s]) /\ GrantsNothing(collateral'[s])
  BY <1>2, <1>5, <1>6, <1>7
<1>12. ASSUME NEW s \in Tokens
       PROVE  collateral'[s].balances[Engine] - DepositsOf(s_collateralDeposited', s)
                >= collateral[s].balances[Engine] - DepositsOf(d, s)
  <2>1. CASE s = t
    <3>1. collateral'[s].balances[Engine] >= l.balances[Engine] - n
      BY <1>2, <1>5, <1>7, <1>9, <2>1
    <3>2. collateral'[s].balances[Engine] \in Nat
      BY <1>1, <1>11 DEF Sound, Ledger
    <3> QED BY <1>8, <1>9, <2>1, <3>1, <3>2
  <2>2. CASE s # t
    <3>1. collateral'[s] = collateral[s]
      BY <1>2, <1>7, <2>2
    <3> QED BY <1>8, <1>9, <2>2, <3>1
  <2> QED BY <2>1, <2>2
<1> QED BY <1>8, <1>10, <1>11, <1>12 DEF CollateralKept, Surplus, Deposits, DepositsOf

(* A call on a token that respects its ledger. *)
LEMMA TokenCallKeeps ==
  ASSUME CollateralOK, NEW t \in Tokens, NEW m, Respects(collateral[t], m),
         collateral' = [collateral EXCEPT ![t] = m], UNCHANGED s_collateralDeposited
  PROVE  CollateralKept
<1>1. /\ s_collateralDeposited \in [Accounts -> [Tokens -> UInt]]
      /\ collateral \in [Tokens -> Ledger]
      /\ \A s \in Tokens : Sound(collateral[s]) /\ GrantsNothing(collateral[s])
  BY DEF CollateralOK
<1>2. m \in Ledger
  BY DEF Respects, Sound
<1>3. collateral' \in [Tokens -> Ledger]
  BY <1>1, <1>2
<1>4. \A s \in Tokens : Sound(collateral'[s]) /\ GrantsNothing(collateral'[s])
  BY <1>1 DEF Respects
<1>5. \A s \in Tokens : DepositsOf(s_collateralDeposited, s) \in Nat
  BY <1>1, DepositsType
<1>6. \A s \in Tokens : collateral[s].balances[Engine] \in Nat
  BY <1>1, EngineIsAccount DEF Ledger
<1>7. \A s \in Tokens : collateral'[s].balances[Engine] \in Nat
  BY <1>3, EngineIsAccount DEF Ledger
<1>8. \A s \in Tokens : collateral'[s].balances[Engine] >= collateral[s].balances[Engine]
  BY <1>1, <1>6 DEF Respects
<1>9. \A s \in Tokens :
        collateral'[s].balances[Engine] - DepositsOf(s_collateralDeposited', s)
          >= collateral[s].balances[Engine] - DepositsOf(s_collateralDeposited, s)
  BY <1>5, <1>6, <1>7, <1>8
<1> QED BY <1>1, <1>3, <1>4, <1>9 DEF CollateralKept, Surplus, Deposits, DepositsOf

LEMMA CollateralIdle ==
  ASSUME CollateralOK, UNCHANGED <<s_collateralDeposited, collateral>>
  PROVE  CollateralKept
<1>1. /\ s_collateralDeposited \in [Accounts -> [Tokens -> UInt]]
      /\ collateral \in [Tokens -> Ledger]
      /\ \A s \in Tokens : Sound(collateral[s]) /\ GrantsNothing(collateral[s])
  BY DEF CollateralOK
<1>2. \A s \in Tokens : DepositsOf(s_collateralDeposited, s) \in Nat
  BY <1>1, DepositsType
<1>3. \A s \in Tokens : collateral[s].balances[Engine] \in Nat
  BY <1>1, EngineIsAccount DEF Ledger
<1>4. \A s \in Tokens :
        collateral'[s].balances[Engine] - DepositsOf(s_collateralDeposited', s)
          >= collateral[s].balances[Engine] - DepositsOf(s_collateralDeposited, s)
  BY <1>2, <1>3
<1> QED BY <1>1, <1>4 DEF CollateralKept, Surplus, Deposits, DepositsOf

-----------------------------------------------------------------------------
(* The coin side: recorded debts and the stable coin.                      *)

(* What every step does to the coin side. *)
CoinKept ==
  /\ s_DSCMinted' \in [Accounts -> UInt]
  /\ Respects(dsc, dsc')
  /\ dsc'.totalSupply - Total(s_DSCMinted', Accounts) <= dsc.totalSupply - Total(s_DSCMinted, Accounts)

LEMMA DebtChange ==
  ASSUME s_DSCMinted \in [Accounts -> UInt], NEW u \in Accounts, NEW k \in UInt,
         s_DSCMinted' = [s_DSCMinted EXCEPT ![u] = k]
  PROVE  /\ s_DSCMinted' \in [Accounts -> UInt]
         /\ Total(s_DSCMinted', Accounts) = Total(s_DSCMinted, Accounts) - s_DSCMinted[u] + k
         /\ Total(s_DSCMinted, Accounts) \in Nat
<1> DEFINE f == s_DSCMinted
           g == s_DSCMinted'
<1>1. /\ IsFiniteSet(Accounts)
      /\ \A a \in Accounts : f[a] \in Nat
  OBVIOUS
<1>2. g[u] = k /\ g[u] \in Nat
  OBVIOUS
<1>3. \A a \in Accounts \ {u} : g[a] = f[a]
  OBVIOUS
<1>4. Total(g, Accounts) = Total(f, Accounts) - f[u] + g[u] /\ Total(f, Accounts) \in Nat
  <2> HIDE DEF f, g
  <2> QED BY <1>1, <1>2, <1>3, TotalUpdate, TotalType
<1> QED BY <1>2, <1>4

(* Minting adds as much debt as supply. *)
LEMMA MintKeeps ==
  ASSUME IInv, NEW u \in Users, NEW n \in UInt, s_DSCMinted[u] + n <= MaxUint, CanMint(dsc, u, n),
         s_DSCMinted' = [s_DSCMinted EXCEPT ![u] = @ + n], dsc' = Mint(dsc, u, n)
  PROVE  CoinKept
<1>1. u \in Accounts /\ u # Engine /\ Engine \in Accounts
  BY EngineAssumption DEF Users
<1>2. s_DSCMinted \in [Accounts -> UInt] /\ Sound(dsc) /\ GrantsNothing(dsc)
  BY DEF IInv
<1>3. s_DSCMinted[u] \in Nat /\ s_DSCMinted[u] + n \in UInt
  BY <1>1, <1>2
<1>4. /\ s_DSCMinted' \in [Accounts -> UInt]
      /\ Total(s_DSCMinted', Accounts) = Total(s_DSCMinted, Accounts) - s_DSCMinted[u] + (s_DSCMinted[u] + n)
      /\ Total(s_DSCMinted, Accounts) \in Nat
  BY <1>1, <1>2, <1>3, DebtChange
<1>5. /\ Sound(dsc') /\ dsc'.totalSupply = dsc.totalSupply + n
      /\ dsc'.allowances = dsc.allowances
      /\ dsc'.balances = [dsc.balances EXCEPT ![u] = @ + n]
  BY <1>1, <1>2, MintSound
<1>6. dsc.totalSupply \in Nat /\ dsc.balances \in [Accounts -> UInt]
  BY <1>2 DEF Sound, Ledger
<1>7. Respects(dsc, dsc')
  BY <1>1, <1>2, <1>5, <1>6 DEF Respects, GrantsNothing
<1> QED BY <1>3, <1>4, <1>5, <1>6, <1>7 DEF CoinKept

(* _burnDsc takes as much debt as supply, and burns what it brought in.    *)
LEMMA BurnDscKeeps ==
  ASSUME IInv, NEW user \in Accounts, NEW dscFrom \in Users, NEW n \in UInt,
         CanBurnDsc(n, user, dscFrom), BurnDsc(n, user, dscFrom)
  PROVE  CoinKept
<1> DEFINE m == Taken(dscFrom, n)
<1>1. dscFrom \in Accounts /\ dscFrom # Engine /\ Engine \in Accounts
  BY EngineAssumption DEF Users
<1>2. s_DSCMinted \in [Accounts -> UInt] /\ Sound(dsc) /\ GrantsNothing(dsc)
  BY DEF IInv
<1>3. s_DSCMinted[user] \in Nat /\ s_DSCMinted[user] - n \in UInt
  BY <1>2 DEF CanBurnDsc
<1>4. s_DSCMinted' = [s_DSCMinted EXCEPT ![user] = s_DSCMinted[user] - n]
  BY DEF BurnDsc
<1>5. /\ s_DSCMinted' \in [Accounts -> UInt]
      /\ Total(s_DSCMinted', Accounts) = Total(s_DSCMinted, Accounts) - s_DSCMinted[user] + (s_DSCMinted[user] - n)
      /\ Total(s_DSCMinted, Accounts) \in Nat
  BY <1>2, <1>3, <1>4, DebtChange
<1>6. /\ Sound(m) /\ m.totalSupply = dsc.totalSupply
      /\ m.balances[Engine] = dsc.balances[Engine] + n
      /\ m.allowances[Engine] = dsc.allowances[Engine]
  BY <1>1, <1>2, TransferFromSound DEF CanBurnDsc, Taken
<1>7. CanBurn(m, Engine, n) /\ dsc' = Burn(m, Engine, n)
  BY DEF CanBurnDsc, BurnDsc
<1> HIDE DEF m
<1>8. /\ Sound(dsc') /\ dsc'.totalSupply = m.totalSupply - n
      /\ dsc'.allowances = m.allowances
      /\ dsc'.balances = [m.balances EXCEPT ![Engine] = @ - n]
  BY <1>1, <1>6, <1>7, BurnSound
<1>9. /\ dsc.totalSupply \in Nat /\ dsc.balances[Engine] \in Nat
      /\ m.balances \in [Accounts -> UInt]
  BY <1>1, <1>2, <1>6 DEF Sound, Ledger
<1>10. dsc'.balances[Engine] = dsc.balances[Engine]
  BY <1>1, <1>6, <1>8, <1>9
<1>11. Respects(dsc, dsc')
  BY <1>2, <1>6, <1>8, <1>9, <1>10 DEF Respects, GrantsNothing
<1> QED BY <1>3, <1>5, <1>6, <1>8, <1>9, <1>11 DEF CoinKept

(* A call on the coin that respects its ledger and mints nothing. *)
LEMMA CoinCallKeeps ==
  ASSUME IInv, Respects(dsc, dsc'), dsc'.totalSupply <= dsc.totalSupply, UNCHANGED s_DSCMinted
  PROVE  CoinKept
<1>1. s_DSCMinted \in [Accounts -> UInt] /\ dsc.totalSupply \in Nat
  BY DEF IInv, Sound, Ledger
<1>2. dsc'.totalSupply \in Nat
  BY DEF Respects, Sound, Ledger
<1>3. Total(s_DSCMinted, Accounts) \in Nat
  BY <1>1, TotalType
<1> QED BY <1>1, <1>2, <1>3 DEF CoinKept

LEMMA CoinIdle ==
  ASSUME IInv, UNCHANGED <<s_DSCMinted, dsc>>
  PROVE  CoinKept
<1>1. Sound(dsc) /\ GrantsNothing(dsc)
  BY DEF IInv
<1>2. dsc.totalSupply \in Nat /\ dsc.balances[Engine] \in Nat
  BY <1>1, EngineIsAccount DEF Sound, Ledger
<1>3. Respects(dsc, dsc') /\ dsc'.totalSupply <= dsc.totalSupply
  BY <1>1, <1>2 DEF Respects
<1> QED BY <1>3, CoinCallKeeps

-----------------------------------------------------------------------------
(* Prices. *)

(* Finitely many tokens are listed. *)
LEMMA ListedTokens ==
  /\ IsFiniteSet(Listed) /\ Cardinality(Listed) = Len(tokenAddresses)
  /\ Len(tokenAddresses) \in Nat
  /\ \A i \in Listed : tokenAddresses[i] \in Tokens
<1>1. Listed = 1 .. Len(tokenAddresses) /\ Len(tokenAddresses) \in Nat
  BY EngineAssumption DEF Listed
<1>2. /\ IsFiniteSet(1 .. Len(tokenAddresses))
      /\ Cardinality(1 .. Len(tokenAddresses)) = Len(tokenAddresses)
  <2>1. \A n \in Nat : IsFiniteSet(1 .. n) /\ Cardinality(1 .. n) = n
    BY ONLY FS_Interval
  <2> QED BY ONLY <1>1, <2>1
<1>3. \A i \in 1 .. Len(tokenAddresses) : tokenAddresses[i] \in Tokens
  BY EngineAssumption
<1> QED BY <1>1, <1>2, <1>3

(* The loop of the constructor leaves every token a feed or none: of the   *)
(* indices at which a token is listed one is the last.                     *)
LEMMA FeedOfToken ==
  ASSUME NEW t \in Tokens
  PROVE  s_priceFeeds[t] \in Feeds \cup {ZeroAddress}
<1> DEFINE n == Len(tokenAddresses)
           listed == {i \in DOMAIN tokenAddresses : tokenAddresses[i] = t}
<1>1. /\ n \in Nat /\ DOMAIN tokenAddresses = 1 .. n
      /\ priceFeedAddresses \in [1 .. n -> Feeds \cup {ZeroAddress}]
  BY EngineAssumption
<1>2. listed \subseteq 1 .. n
  BY <1>1
<1>3. CASE listed = {}
  BY <1>3 DEF s_priceFeeds
<1>4. CASE listed # {}
  <2> DEFINE S == {n - i : i \in listed}
  <2>1. S \subseteq Nat /\ S # {}
    BY <1>1, <1>2, <1>4
  <2>2. PICK m \in S : \A k \in S : m <= k
    <3> HIDE DEF S
    <3> QED BY <2>1, SmallestMember
  <2>3. PICK i \in listed : m = n - i
    BY <2>2
  <2>4. ASSUME NEW j \in listed
        PROVE  j <= i
    <3>1. m <= n - j
      BY <2>2
    <3>2. i \in 1 .. n /\ j \in 1 .. n
      BY <1>2
    <3> QED BY <1>1, <2>3, <3>1, <3>2
  <2>5. (CHOOSE k \in listed : \A j \in listed : j <= k) \in listed
    BY <2>4
  <2>6. s_priceFeeds[t] = priceFeedAddresses[CHOOSE k \in listed : \A j \in listed : j <= k]
    BY <1>4 DEF s_priceFeeds
  <2> HIDE DEF listed
  <2> QED BY <1>1, <1>2, <2>5, <2>6
<1> QED BY <1>3, <1>4

(* A price that can be read is a whole number. *)
LEMMA PriceType ==
  ASSUME FeedsOK, NEW t \in Tokens, Priced(t)
  PROVE  Price(t) \in Int
<1>1. s_priceFeeds[t] \in Feeds
  BY FeedOfToken DEF Priced, isAllowedToken
<1>2. feed[s_priceFeeds[t]] \in Answers
  BY <1>1 DEF FeedsOK, Priced
<1>3. Int256 \subseteq Int
  BY DEF Int256
<1> QED BY <1>2, <1>3, InputsAssumption DEF Price

(* A health factor that can be computed is a uint256. *)
LEMMA HealthType ==
  ASSUME FeedsOK, NEW d \in [Tokens -> UInt], NEW k \in UInt, HealthFits(d, k)
  PROVE  Health(d, k) \in UInt
<1> DEFINE f == [i \in Listed |-> UsdValue(Price(tokenAddresses[i]), d[tokenAddresses[i]])]
           v == AccountValue(d)
           a == AdjustedForThreshold(v)
<1>1. ASSUME NEW i \in Listed
      PROVE  f[i] \in Nat
  <2>1. tokenAddresses[i] \in Tokens /\ Priced(tokenAddresses[i])
    BY ListedTokens DEF HealthFits, AccountValueFits
  <2>2. Price(tokenAddresses[i]) \in Int /\ d[tokenAddresses[i]] \in Nat
    BY <2>1, PriceType
  <2>3. d[tokenAddresses[i]] <= d[tokenAddresses[i]]
    BY <2>2
  <2>4. UsdValue(Price(tokenAddresses[i]), d[tokenAddresses[i]]) \in Nat
    BY ONLY <2>2, <2>3, UsdValueMonotone
  <2> QED BY <2>4
<1>2. v \in Nat
  <2>1. IsFiniteSet(Listed) /\ v = Total(f, Listed)
    BY ListedTokens DEF AccountValue
  <2> HIDE DEF f, v
  <2> QED BY <1>1, <2>1, TotalType
<1> HIDE DEF v
<1>3. k = 0 \/ a * PRECISION <= MaxUint
  BY DEF HealthFits, HealthFactorFits, v
<1>4. a \in Nat
  <2>1. v * LIQUIDATION_THRESHOLD \in Nat
    BY <1>2, ScaleAssumption
  <2> QED BY <2>1, FloorBounds, ScaleAssumption DEF AdjustedForThreshold
<1>5. Health(d, k) = IF k = 0 THEN MaxUint ELSE (a * PRECISION) \div k
  BY DEF Health, HealthFactor, v
<1> HIDE DEF a
<1>6. CASE k = 0
  BY <1>5, <1>6
<1>7. CASE k # 0
  <2> DEFINE p == a * PRECISION
  <2>1. p \in Nat /\ p <= MaxUint
    BY <1>3, <1>4, <1>7, ScaleAssumption
  <2> HIDE DEF p
  <2>2. p \div k \in Nat /\ p \div k <= p
    BY <1>7, <2>1
  <2> QED BY <1>5, <1>7, <2>1, <2>2 DEF p
<1> QED BY <1>6, <1>7

-----------------------------------------------------------------------------
(* The steps. *)

(* What every step does. *)
Kept ==
  /\ CollateralKept /\ CoinKept
  /\ feed' \in [Feeds -> Answers \cup {NoAnswer}]

LEMMA BorrowKeeps ==
  ASSUME IInv, Borrow
  PROVE  Kept
<1>0. feed \in [Feeds -> Answers \cup {NoAnswer}]
  BY DEF IInv, FeedsOK
<1> PICK u \in Users :
      \/ \E m \in DebtAmounts : MayMint(m) /\ mintDSC(u, m)
      \/ \E t \in Tokens, n \in DepositAmounts :
           \/ depositCollateral(u, t, n)
           \/ \E m \in DebtAmounts : MayMint(m) /\ depositCollateralAndMintDSC(u, t, n, m)
  BY DEF Borrow
<1>1. CASE \E t \in Tokens, n \in DepositAmounts : depositCollateral(u, t, n)
  <2> PICK t \in Tokens, n \in DepositAmounts : depositCollateral(u, t, n)
    BY <1>1
  <2>1. n \in UInt
    BY InputsAssumption
  <2>2. CollateralKept
    BY <2>1, DepositKeeps DEF IInv, depositCollateral
  <2>3. CoinKept
    BY CoinIdle DEF depositCollateral
  <2> QED BY <1>0, <2>2, <2>3 DEF Kept, depositCollateral
<1>2. CASE \E m \in DebtAmounts : MayMint(m) /\ mintDSC(u, m)
  <2> PICK m \in DebtAmounts : mintDSC(u, m)
    BY <1>2
  <2>1. m \in UInt
    BY InputsAssumption
  <2>2. CollateralKept
    BY CollateralIdle DEF IInv, mintDSC
  <2>3. CoinKept
    BY <2>1, MintKeeps DEF mintDSC, CanMintDSC
  <2> QED BY <1>0, <2>2, <2>3 DEF Kept, mintDSC
<1>3. CASE \E t \in Tokens, n \in DepositAmounts, m \in DebtAmounts :
             depositCollateralAndMintDSC(u, t, n, m)
  <2> PICK t \in Tokens, n \in DepositAmounts, m \in DebtAmounts :
             depositCollateralAndMintDSC(u, t, n, m)
    BY <1>3
  <2>1. n \in UInt /\ m \in UInt
    BY InputsAssumption
  <2>2. CollateralKept
    BY <2>1, DepositKeeps DEF IInv, depositCollateralAndMintDSC
  <2>3. CoinKept
    BY <2>1, MintKeeps DEF depositCollateralAndMintDSC, CanMintDSC
  <2> QED BY <1>0, <2>2, <2>3 DEF Kept, depositCollateralAndMintDSC
<1> QED BY <1>1, <1>2, <1>3

LEMMA RepayKeeps ==
  ASSUME IInv, Repay
  PROVE  Kept
<1>0. feed \in [Feeds -> Answers \cup {NoAnswer}]
  BY DEF IInv, FeedsOK
<1>1. CASE \E u \in Users, m \in DebtAmounts : burnDSC(u, m)
  <2> PICK u \in Users, m \in DebtAmounts : burnDSC(u, m)
    BY <1>1
  <2>1. u \in Accounts /\ m \in UInt
    BY InputsAssumption DEF Users
  <2>2. CollateralKept
    BY CollateralIdle DEF IInv, burnDSC
  <2>3. CoinKept
    BY <2>1, BurnDscKeeps DEF burnDSC
  <2> QED BY <1>0, <2>2, <2>3 DEF Kept, burnDSC
<1>2. CASE \E t \in Tokens, n \in DepositAmounts, from \in Accounts, to \in Address :
             _redeemCollateral(t, n, from, to)
  <2> PICK t \in Tokens, n \in DepositAmounts, from \in Accounts, to \in Address :
             _redeemCollateral(t, n, from, to)
    BY <1>2
  <2>1. n \in UInt
    BY InputsAssumption
  <2>2. CollateralKept
    BY <2>1, RedeemKeeps DEF IInv, _redeemCollateral
  <2>3. CoinKept
    BY CoinIdle DEF _redeemCollateral
  <2> QED BY <1>0, <2>2, <2>3 DEF Kept, _redeemCollateral
<1> QED BY <1>1, <1>2 DEF Repay

LEMMA LiquidateKeeps ==
  ASSUME IInv, Liquidate
  PROVE  Kept
<1> PICK u \in Users, t \in Tokens, user \in Accounts, m \in DebtAmounts : liquidate(u, t, user, m)
  BY DEF Liquidate
<1> DEFINE seized == Seized(Price(t), m)
<1>1. /\ Priced(t) /\ SeizedFits(Price(t), m)
      /\ CanRedeem(t, seized, user, u) /\ Redeem(t, seized, user, u)
      /\ CanBurnDsc(m, user, u) /\ BurnDsc(m, user, u)
      /\ feed' = feed
  BY DEF liquidate
<1>2. m \in UInt /\ u \in Address
  BY InputsAssumption DEF Users, Address
<1>3. seized \in UInt
  BY <1>1, <1>2, PriceType, SeizedType DEF IInv
<1> HIDE DEF seized
<1>4. CollateralKept
  BY <1>1, <1>2, <1>3, RedeemKeeps DEF IInv
<1>5. CoinKept
  BY <1>1, <1>2, BurnDscKeeps
<1> QED BY <1>1, <1>4, <1>5 DEF Kept, IInv, FeedsOK

LEMMA HoldTokensKeepsCollateral ==
  ASSUME CollateralOK, HoldTokens
  PROVE  CollateralKept
<1> PICK u \in Users, t \in Tokens :
      \/ \E to \in Address, n \in TokenTransfers :
           \/ tokenTransfer(u, t, to, n)
           \/ \E from \in Accounts : tokenTransferFrom(u, t, from, to, n)
      \/ \E spender \in TokenSpenders, n \in Approvals : tokenApprove(u, t, spender, n)
  BY DEF HoldTokens
<1> DEFINE l == collateral[t]
<1>1. Sound(l) /\ GrantsNothing(l)
  BY DEF CollateralOK
<1>2. \E m : Respects(l, m) /\ collateral' = [collateral EXCEPT ![t] = m]
  <2>1. CASE \E to \in Address, n \in TokenTransfers : tokenTransfer(u, t, to, n)
    <3> PICK to \in Address, n \in TokenTransfers : tokenTransfer(u, t, to, n)
      BY <2>1
    <3>1. n \in UInt /\ CanTransfer(l, u, to, n)
      BY InputsAssumption DEF tokenTransfer
    <3>2. collateral' = [collateral EXCEPT ![t] = Transfer(l, u, to, n)]
      BY DEF tokenTransfer
    <3>3. Respects(l, Transfer(l, u, to, n))
      <4> HIDE DEF l
      <4> QED BY <1>1, <3>1, UserTransferRespects
    <3> QED BY <3>2, <3>3
  <2>2. CASE \E to \in Address, n \in TokenTransfers, from \in Accounts :
               tokenTransferFrom(u, t, from, to, n)
    <3> PICK to \in Address, n \in TokenTransfers, from \in Accounts :
               tokenTransferFrom(u, t, from, to, n)
      BY <2>2
    <3>1. n \in UInt /\ CanTransferFrom(l, u, from, to, n)
      BY InputsAssumption DEF tokenTransferFrom
    <3>2. collateral' = [collateral EXCEPT ![t] = TransferFrom(l, u, from, to, n)]
      BY DEF tokenTransferFrom
    <3>3. Respects(l, TransferFrom(l, u, from, to, n))
      <4> HIDE DEF l
      <4> QED BY <1>1, <3>1, UserTransferFromRespects
    <3> QED BY <3>2, <3>3
  <2>3. CASE \E spender \in TokenSpenders, n \in Approvals : tokenApprove(u, t, spender, n)
    <3> PICK spender \in TokenSpenders, n \in Approvals : tokenApprove(u, t, spender, n)
      BY <2>3
    <3>1. n \in UInt /\ spender \in Accounts
      BY InputsAssumption
    <3>2. collateral' = [collateral EXCEPT ![t] = Approve(l, u, spender, n)]
      BY DEF tokenApprove
    <3>3. Respects(l, Approve(l, u, spender, n))
      <4> HIDE DEF l
      <4> QED BY <1>1, <3>1, UserApproveRespects
    <3> QED BY <3>2, <3>3
  <2> QED BY <2>1, <2>2, <2>3
<1>3. UNCHANGED s_collateralDeposited
  BY DEF tokenTransfer, tokenTransferFrom, tokenApprove
<1> QED BY <1>2, <1>3, TokenCallKeeps

LEMMA HoldTokensKeeps ==
  ASSUME IInv, HoldTokens
  PROVE  Kept
<1>1. UNCHANGED <<s_DSCMinted, dsc, feed>>
  BY DEF HoldTokens, tokenTransfer, tokenTransferFrom, tokenApprove
<1>2. CollateralKept
  BY HoldTokensKeepsCollateral DEF IInv
<1>3. CoinKept
  BY <1>1, CoinIdle
<1> QED BY <1>1, <1>2, <1>3 DEF Kept, IInv, FeedsOK

LEMMA HoldCoinsKeeps ==
  ASSUME IInv, HoldCoins
  PROVE  Kept
<1> PICK u \in Users :
      \/ \E to \in Address, n \in CoinTransfers :
           \/ coinTransfer(u, to, n)
           \/ \E from \in Accounts : coinTransferFrom(u, from, to, n)
      \/ \E from \in Accounts, n \in CoinTransfers : coinBurnFrom(u, from, n)
      \/ \E spender \in CoinSpenders, n \in Approvals : coinApprove(u, spender, n)
  BY DEF HoldCoins
<1>1. Sound(dsc) /\ GrantsNothing(dsc) /\ feed \in [Feeds -> Answers \cup {NoAnswer}]
  BY DEF IInv, FeedsOK
<1>0. dsc.totalSupply \in Nat
  BY <1>1 DEF Sound, Ledger
<1>2. Respects(dsc, dsc') /\ dsc'.totalSupply <= dsc.totalSupply
  <2>1. CASE \E to \in Address, n \in CoinTransfers : coinTransfer(u, to, n)
    <3> PICK to \in Address, n \in CoinTransfers : coinTransfer(u, to, n)
      BY <2>1
    <3>1. n \in UInt /\ CanTransfer(dsc, u, to, n) /\ dsc' = Transfer(dsc, u, to, n)
      BY InputsAssumption DEF coinTransfer
    <3> QED BY <1>0, <1>1, <3>1, UserTransferRespects
  <2>2. CASE \E to \in Address, n \in CoinTransfers, from \in Accounts :
               coinTransferFrom(u, from, to, n)
    <3> PICK to \in Address, n \in CoinTransfers, from \in Accounts :
               coinTransferFrom(u, from, to, n)
      BY <2>2
    <3>1. n \in UInt /\ CanTransferFrom(dsc, u, from, to, n) /\ dsc' = TransferFrom(dsc, u, from, to, n)
      BY InputsAssumption DEF coinTransferFrom
    <3> QED BY <1>0, <1>1, <3>1, UserTransferFromRespects
  <2>3. CASE \E from \in Accounts, n \in CoinTransfers : coinBurnFrom(u, from, n)
    <3> PICK from \in Accounts, n \in CoinTransfers : coinBurnFrom(u, from, n)
      BY <2>3
    <3>1. n \in UInt /\ CanBurnFrom(dsc, u, from, n) /\ dsc' = BurnFrom(dsc, u, from, n)
      BY InputsAssumption DEF coinBurnFrom
    <3> QED BY <1>1, <3>1, UserBurnFromRespects
  <2>4. CASE \E spender \in CoinSpenders, n \in Approvals : coinApprove(u, spender, n)
    <3> PICK spender \in CoinSpenders, n \in Approvals : coinApprove(u, spender, n)
      BY <2>4
    <3>1. n \in UInt /\ spender \in Accounts /\ dsc' = Approve(dsc, u, spender, n)
      BY InputsAssumption DEF coinApprove
    <3> QED BY <1>0, <1>1, <3>1, UserApproveRespects
  <2> QED BY <2>1, <2>2, <2>3, <2>4
<1>3. UNCHANGED <<s_collateralDeposited, s_DSCMinted, collateral, feed>>
  BY DEF coinTransfer, coinTransferFrom, coinBurnFrom, coinApprove
<1>4. CollateralKept
  BY <1>3, CollateralIdle DEF IInv
<1>5. CoinKept
  BY <1>2, <1>3, CoinCallKeeps
<1> QED BY <1>1, <1>3, <1>4, <1>5 DEF Kept

LEMMA FeedsMoveKeeps ==
  ASSUME IInv, FeedsMove
  PROVE  Kept
<1>1. CollateralKept
  BY CollateralIdle DEF IInv, FeedsMove, feedChanges
<1>2. CoinKept
  BY CoinIdle DEF FeedsMove, feedChanges
<1> QED BY <1>1, <1>2 DEF FeedsMove, feedChanges, Kept, IInv, FeedsOK

LEMMA StepKeeps ==
  ASSUME IInv, [Next]_vars
  PROVE  Kept
<1>1. CASE UNCHANGED vars
  <2>1. CollateralKept
    BY <1>1, CollateralIdle DEF IInv, vars
  <2>2. CoinKept
    BY <1>1, CoinIdle DEF vars
  <2> QED BY <1>1, <2>1, <2>2 DEF vars, Kept, IInv, FeedsOK
<1>2. CASE Next
  BY <1>2, BorrowKeeps, RepayKeeps, LiquidateKeeps, HoldTokensKeeps, HoldCoinsKeeps, FeedsMoveKeeps
  DEF Next
<1> QED BY <1>1, <1>2

-----------------------------------------------------------------------------
(* The invariant. *)

LEMMA EndowedSound == Sound(EndowedLedger) /\ GrantsNothing(EndowedLedger)
<1> DEFINE b == [a \in Accounts |-> IF a = Engine THEN 0 ELSE Endowment]
<1>1. b \in [Accounts -> UInt] /\ Endowment \in Nat
  BY InputsAssumption
<1>2. EmptyLedger \in Ledger
  BY EmptySound DEF Sound
<1>3. /\ EndowedLedger.balances = b
      /\ EndowedLedger.totalSupply = Total(b, Accounts)
      /\ EndowedLedger.allowances = EmptyLedger.allowances
      /\ EndowedLedger = [EmptyLedger EXCEPT !.balances = b, !.totalSupply = Total(b, Accounts)]
  BY <1>2 DEF EndowedLedger, Ledger
<1>4. Total(b, Accounts) \in UInt
  BY <1>3, InputsAssumption
<1> HIDE DEF b
<1>5. EndowedLedger \in Ledger
  BY <1>1, <1>2, <1>3, <1>4 DEF Ledger
<1>6. GrantsNothing(EmptyLedger)
  BY EngineIsAccount DEF GrantsNothing, EmptyLedger
<1> QED BY <1>3, <1>5, <1>6 DEF Sound, Conserved, GrantsNothing

LEMMA InitIInv == Init => IInv
<1> SUFFICES ASSUME Init PROVE IInv
  OBVIOUS
<1>1. /\ s_collateralDeposited \in [Accounts -> [Tokens -> UInt]]
      /\ s_DSCMinted \in [Accounts -> UInt]
      /\ feed \in [Feeds -> Answers \cup {NoAnswer}]
  BY DEF Init
<1>2. collateral \in [Tokens -> Ledger]
  BY EndowedSound DEF Init, Sound
<1>3. \A t \in Tokens : Sound(collateral[t]) /\ GrantsNothing(collateral[t])
  BY EndowedSound DEF Init
<1>4. Sound(dsc) /\ GrantsNothing(dsc)
  BY EmptySound, EngineIsAccount DEF Init, GrantsNothing, EmptyLedger
<1>5. ASSUME NEW t \in Tokens
      PROVE  Deposits(t) <= collateral[t].balances[Engine]
  <2> DEFINE f == [u \in Accounts |-> s_collateralDeposited[u][t]]
  <2>1. \A u \in Accounts : f[u] = 0
    BY DEF Init
  <2>2. Total(f, Accounts) = 0
    <3> HIDE DEF f
    <3> QED BY <2>1, TotalZero
  <2>3. collateral[t].balances[Engine] \in Nat
    BY <1>2, EngineIsAccount DEF Ledger
  <2> QED BY <2>2, <2>3 DEF Deposits
<1>6. SupplyIsOwed
  <2>1. Total(s_DSCMinted, Accounts) = 0
    BY TotalZero DEF Init
  <2>2. dsc.totalSupply = 0
    BY DEF Init, EmptyLedger
  <2> QED BY <2>1, <2>2 DEF SupplyIsOwed
<1> QED BY <1>1, <1>2, <1>3, <1>4, <1>5, <1>6 DEF IInv, CollateralOK, FeedsOK, Solvency

LEMMA KeptIInv == IInv /\ Kept => IInv'
<1> SUFFICES ASSUME IInv, Kept PROVE IInv'
  OBVIOUS
<1>1. /\ s_collateralDeposited' \in [Accounts -> [Tokens -> UInt]]
      /\ collateral' \in [Tokens -> Ledger]
      /\ \A t \in Tokens : Sound(collateral'[t]) /\ GrantsNothing(collateral'[t])
      /\ feed' \in [Feeds -> Answers \cup {NoAnswer}]
      /\ s_DSCMinted' \in [Accounts -> UInt]
      /\ Sound(dsc') /\ GrantsNothing(dsc')
  BY DEF Kept, CollateralKept, CoinKept, Respects
<1>2. ASSUME NEW t \in Tokens
      PROVE  Deposits(t)' <= collateral'[t].balances[Engine]
  <2>1. Surplus(t)' >= Surplus(t)
    BY DEF Kept, CollateralKept
  <2>2. Deposits(t) \in Nat /\ Deposits(t)' \in Nat
    <3>1. DepositsOf(s_collateralDeposited, t) \in Nat
      BY DepositsType DEF IInv, CollateralOK
    <3>2. DepositsOf(s_collateralDeposited', t) \in Nat
      BY <1>1, DepositsType
    <3> QED BY <3>1, <3>2 DEF Deposits, DepositsOf
  <2>3. collateral[t].balances[Engine] \in Nat /\ collateral'[t].balances[Engine] \in Nat
    BY <1>1, EngineIsAccount DEF IInv, CollateralOK, Ledger
  <2>4. Deposits(t) <= collateral[t].balances[Engine]
    BY DEF IInv, Solvency
  <2> QED BY <2>1, <2>2, <2>3, <2>4 DEF Surplus
<1>3. SupplyIsOwed'
  <2>1. dsc.totalSupply \in Nat /\ dsc'.totalSupply \in Nat
    BY <1>1 DEF IInv, Sound, Ledger
  <2>2. Total(s_DSCMinted, Accounts) \in Nat
    BY TotalType DEF IInv
  <2>3. Total(s_DSCMinted', Accounts) \in Nat
    BY <1>1, TotalType
  <2>4. dsc'.totalSupply - Total(s_DSCMinted', Accounts) <= dsc.totalSupply - Total(s_DSCMinted, Accounts)
    BY DEF Kept, CoinKept
  <2> QED BY <2>1, <2>2, <2>3, <2>4 DEF IInv, SupplyIsOwed
<1> QED BY <1>1, <1>2, <1>3 DEF IInv, CollateralOK, FeedsOK, Solvency

LEMMA NextIInv == IInv /\ [Next]_vars => IInv'
BY StepKeeps, KeptIInv

LEMMA InvariantIInv == Spec => []IInv
<1> QED BY InitIInv, NextIInv, PTL DEF Spec

(* Every balance, deposit and debt fits its uint256, and every feed        *)
(* answers what a feed can, whatever the calls.                            *)
THEOREM TypeCorrect == Spec => []TypeOK
<1>1. IInv => TypeOK
  BY DEF IInv, CollateralOK, FeedsOK, Sound, TypeOK
<1> QED BY <1>1, InvariantIInv, PTL

(* The engine can always pay out every deposit it has recorded. *)
THEOREM EngineIsSolvent == Spec => []Solvency
<1>1. IInv => Solvency
  BY DEF IInv
<1> QED BY <1>1, InvariantIInv, PTL

(* There are never more coins than recorded debt. *)
THEOREM CoinsAreOwed == Spec => []SupplyIsOwed
<1>1. IInv => SupplyIsOwed
  BY DEF IInv
<1> QED BY <1>1, InvariantIInv, PTL

(* Nothing given to the engine ever leaves it. *)
THEOREM DonationsAreKept == Spec => DonationsStay
<1>1. IInv /\ [Next]_vars =>
        [/\ \A t \in Tokens : Surplus(t)' >= Surplus(t)
         /\ dsc'.balances[Engine] >= dsc.balances[Engine]]_vars
  BY StepKeeps DEF Kept, CollateralKept, CoinKept, Respects
<1> QED BY <1>1, InvariantIInv, PTL DEF Spec, DonationsStay

(* While any listed price is stale no debt changes: a call that changes    *)
(* one has computed a health factor, which reads every listed price.       *)
THEOREM StalePricesFreezeDebt == Spec => StaleFreezesDebt
<1>1. Next => ((\E i \in Listed : ~Priced(tokenAddresses[i])) => UNCHANGED <<s_DSCMinted>>)
  <2> SUFFICES ASSUME Next, \E i \in Listed : ~Priced(tokenAddresses[i])
               PROVE  s_DSCMinted' = s_DSCMinted
    OBVIOUS
  <2>1. \A d, k : ~HealthFits(d, k)
    BY DEF HealthFits, AccountValueFits
  <2>2. ~Liquidate
    BY <2>1 DEF Liquidate, liquidate, Liquidatable
  <2>3. \A u, n : ~mintDSC(u, n) /\ ~burnDSC(u, n)
    BY <2>1 DEF mintDSC, CanMintDSC, HealthHolds, burnDSC
  <2>4. \A u, t, n, m : ~depositCollateralAndMintDSC(u, t, n, m)
    BY <2>1 DEF depositCollateralAndMintDSC, CanMintDSC, HealthHolds
  <2>5. Borrow \/ Repay => s_DSCMinted' = s_DSCMinted
    BY <2>3, <2>4 DEF Borrow, Repay, depositCollateral, _redeemCollateral
  <2>6. HoldTokens => s_DSCMinted' = s_DSCMinted
    BY DEF HoldTokens, tokenTransfer, tokenTransferFrom, tokenApprove
  <2>7. HoldCoins => s_DSCMinted' = s_DSCMinted
    BY DEF HoldCoins, coinTransfer, coinTransferFrom, coinBurnFrom, coinApprove
  <2>8. FeedsMove => s_DSCMinted' = s_DSCMinted
    BY DEF FeedsMove, feedChanges
  <2> QED BY <2>2, <2>5, <2>6, <2>7, <2>8 DEF Next
<1>2. [Next]_vars => [(\E i \in Listed : ~Priced(tokenAddresses[i])) => UNCHANGED <<s_DSCMinted>>]_vars
  BY <1>1
<1> QED BY <1>2, PTL DEF Spec, StaleFreezesDebt
-----------------------------------------------------------------------------
(* Liquidations and health. *)

(* A call other than a liquidation does not lower a debt and a deposit of  *)
(* one account.                                                            *)
LEMMA OnlyLiquidationsTakeBoth ==
  ASSUME IInv, Next, ~Liquidate, NEW u \in Accounts, NEW t \in Tokens
  PROVE  \/ ~(s_collateralDeposited[u][t] - s_collateralDeposited'[u][t] > 0)
         \/ ~(s_DSCMinted[u] - s_DSCMinted'[u] > 0)
<1>0. s_DSCMinted[u] \in Nat /\ s_collateralDeposited[u][t] \in Nat
  BY DEF IInv, CollateralOK
<1>1. ASSUME s_DSCMinted' = s_DSCMinted
      PROVE  ~(s_DSCMinted[u] - s_DSCMinted'[u] > 0)
  BY <1>0, <1>1
<1>2. ASSUME s_collateralDeposited' = s_collateralDeposited
      PROVE  ~(s_collateralDeposited[u][t] - s_collateralDeposited'[u][t] > 0)
  BY <1>0, <1>2
<1>3. ASSUME NEW w \in Users, NEW n \in DebtAmounts,
             s_DSCMinted' = [s_DSCMinted EXCEPT ![w] = @ + n]
      PROVE  ~(s_DSCMinted[u] - s_DSCMinted'[u] > 0)
  <2>1. n \in Nat
    BY InputsAssumption
  <2>2. s_DSCMinted'[u] = s_DSCMinted[u] \/ s_DSCMinted'[u] = s_DSCMinted[u] + n
    BY <1>3 DEF IInv
  <2> QED BY <1>0, <2>1, <2>2
<1>4. CASE Borrow
  <2>1. \/ s_DSCMinted' = s_DSCMinted
        \/ \E w \in Users, n \in DebtAmounts : s_DSCMinted' = [s_DSCMinted EXCEPT ![w] = @ + n]
    BY <1>4 DEF Borrow, depositCollateral, mintDSC, depositCollateralAndMintDSC
  <2> QED BY <1>1, <1>3, <2>1
<1>5. CASE Repay
  BY <1>1, <1>2, <1>5 DEF Repay, burnDSC, _redeemCollateral
<1>6. CASE HoldTokens
  BY <1>1, <1>6 DEF HoldTokens, tokenTransfer, tokenTransferFrom, tokenApprove
<1>7. CASE HoldCoins
  BY <1>1, <1>7 DEF HoldCoins, coinTransfer, coinTransferFrom, coinBurnFrom, coinApprove
<1>8. CASE FeedsMove
  BY <1>1, <1>8 DEF FeedsMove, feedChanges
<1> QED BY <1>4, <1>5, <1>6, <1>7, <1>8 DEF Next

(* What a liquidation does to the books, and what it found. *)
LEMMA LiquidationStep ==
  ASSUME IInv, Liquidate, NEW u \in Accounts, NEW t \in Tokens,
         s_collateralDeposited[u][t] - s_collateralDeposited'[u][t] > 0,
         s_DSCMinted[u] - s_DSCMinted'[u] > 0
  PROVE  /\ Broken(u)
         /\ Health(s_collateralDeposited'[u], s_DSCMinted'[u])
              > Health(s_collateralDeposited[u], s_DSCMinted[u])
         /\ Priced(t) /\ SeizedFits(Price(t), s_DSCMinted[u] - s_DSCMinted'[u])
         /\ s_DSCMinted[u] - s_DSCMinted'[u] \in Nat
         /\ s_collateralDeposited[u][t] - s_collateralDeposited'[u][t]
              = Seized(Price(t), s_DSCMinted[u] - s_DSCMinted'[u])
<1> PICK caller \in Users, c \in Tokens, user \in Accounts, m \in DebtAmounts :
      liquidate(caller, c, user, m)
  BY DEF Liquidate
<1> DEFINE seized == Seized(Price(c), m)
<1>1. /\ Liquidatable(user) /\ Priced(c) /\ SeizedFits(Price(c), m)
      /\ s_collateralDeposited' = Redeemed(c, seized, user)
      /\ s_DSCMinted' = [s_DSCMinted EXCEPT ![user] = @ - m]
  BY DEF liquidate, Redeem, BurnDsc
<1>2. Health(s_collateralDeposited'[user], s_DSCMinted'[user])
        > Health(s_collateralDeposited[user], s_DSCMinted[user])
  BY <1>1 DEF liquidate
<1>3. m \in Nat /\ seized \in Nat
  BY <1>1, InputsAssumption, PriceType, SeizedType DEF IInv
<1> HIDE DEF seized
<1>4. s_DSCMinted[u] \in Nat /\ s_collateralDeposited[u][t] \in Nat
  BY DEF IInv, CollateralOK
<1>5. u = user
  BY <1>1, <1>4 DEF IInv
<1>6. s_DSCMinted[u] - s_DSCMinted'[u] = m
  <2>1. s_DSCMinted'[u] = s_DSCMinted[u] - m
    BY <1>1, <1>5 DEF IInv
  <2> QED BY <1>3, <1>4, <2>1
<1>7. s_collateralDeposited'[u] = [s_collateralDeposited[u] EXCEPT ![c] = @ - seized]
  BY <1>1, <1>5 DEF IInv, CollateralOK, Redeemed
<1>8. t = c
  BY <1>4, <1>7 DEF IInv
<1>9. s_collateralDeposited[u][t] - s_collateralDeposited'[u][t] = seized
  <2>1. s_collateralDeposited'[u][t] = s_collateralDeposited[u][t] - seized
    BY <1>7, <1>8 DEF IInv, CollateralOK
  <2> QED BY <1>3, <1>4, <2>1
<1>10. Broken(u)
  BY <1>1, <1>5 DEF Liquidatable, Broken, HealthHolds
<1> QED BY <1>1, <1>2, <1>3, <1>5, <1>6, <1>8, <1>9, <1>10 DEF seized

(* Whoever loses collateral and debt in one step was below the minimum, is *)
(* better off, and lost no more than the debt and the bonus (liquidate).   *)
THEOREM LiquidationsAreOnTerms == Spec => LiquidationTerms
<1> DEFINE Terms ==
      \A u \in Accounts, t \in Tokens :
       LET taken   == s_collateralDeposited[u][t] - s_collateralDeposited'[u][t]
           covered == s_DSCMinted[u] - s_DSCMinted'[u]
       IN  taken > 0 /\ covered > 0 =>
             /\ Broken(u)
             /\ Health(s_collateralDeposited'[u], s_DSCMinted'[u])
                  > Health(s_collateralDeposited[u], s_DSCMinted[u])
             /\ UsdValue(Price(t), taken) * LIQUIDATION_PRECISION
                  <= covered * (LIQUIDATION_PRECISION + LIQUIDATION_BONUS)
<1>1. IInv /\ [Next]_vars => [Terms]_vars
  <2> SUFFICES ASSUME IInv, Next PROVE Terms
    OBVIOUS
  <2> SUFFICES ASSUME NEW u \in Accounts, NEW t \in Tokens,
                      s_collateralDeposited[u][t] - s_collateralDeposited'[u][t] > 0,
                      s_DSCMinted[u] - s_DSCMinted'[u] > 0
               PROVE  /\ Broken(u)
                      /\ Health(s_collateralDeposited'[u], s_DSCMinted'[u])
                           > Health(s_collateralDeposited[u], s_DSCMinted[u])
                      /\ UsdValue(Price(t), s_collateralDeposited[u][t] - s_collateralDeposited'[u][t])
                           * LIQUIDATION_PRECISION
                         <= (s_DSCMinted[u] - s_DSCMinted'[u]) * (LIQUIDATION_PRECISION + LIQUIDATION_BONUS)
    OBVIOUS
  <2>1. Liquidate
    BY OnlyLiquidationsTakeBoth
  <2> DEFINE covered == s_DSCMinted[u] - s_DSCMinted'[u]
  <2>2. /\ Broken(u)
        /\ Health(s_collateralDeposited'[u], s_DSCMinted'[u])
             > Health(s_collateralDeposited[u], s_DSCMinted[u])
        /\ Priced(t) /\ SeizedFits(Price(t), covered) /\ covered \in Nat
        /\ s_collateralDeposited[u][t] - s_collateralDeposited'[u][t] = Seized(Price(t), covered)
    BY <2>1, LiquidationStep
  <2>3. Price(t) \in Int
    BY <2>2, PriceType DEF IInv
  <2> HIDE DEF covered
  <2>4. BonusBounded(Price(t), covered)
    BY <2>2, <2>3, SeizureIsBounded
  <2> QED BY <2>2, <2>4 DEF BonusBounded, covered
<1> QED BY <1>1, InvariantIInv, PTL DEF Spec, LiquidationTerms

(* Broken, of an account with these deposits and this debt. *)
BrokenWith(d, k) == HealthFits(d, k) /\ ~HealthHolds(d, k)

(* While the prices stand still, the next state values its deposits as     *)
(* this one would.                                                         *)
LEMMA ValueNext ==
  ASSUME feed' = feed, NEW u
  PROVE  /\ AccountValue(s_collateralDeposited[u])' = AccountValue(s_collateralDeposited'[u])
         /\ AccountValueFits(s_collateralDeposited[u])' <=> AccountValueFits(s_collateralDeposited'[u])
<1>1. \A t : Price(t)' = Price(t) /\ (Priced(t)' <=> Priced(t))
  BY DEF Price, Priced
<1> DEFINE d == s_collateralDeposited[u]
<1>2. AccountValue(d)' = Total([i \in Listed |->
        UsdValue(Price(tokenAddresses[i]), s_collateralDeposited'[u][tokenAddresses[i]])], Listed)
  BY <1>1 DEF AccountValue
<1>3. AccountValue(d)' = AccountValue(s_collateralDeposited'[u])
  BY <1>2 DEF AccountValue
<1>4. AccountValueFits(d)' <=> AccountValueFits(s_collateralDeposited'[u])
  BY <1>1, <1>3 DEF AccountValueFits
<1> QED BY <1>3, <1>4

(* An account is broken in the next state exactly when this state's prices *)
(* say so of its next books.                                               *)
LEMMA BrokenNext ==
  ASSUME feed' = feed, NEW u
  PROVE  Broken(u)' <=> BrokenWith(s_collateralDeposited'[u], s_DSCMinted'[u])
BY ValueNext DEF Broken, BrokenWith, HealthHolds, HealthFits, Health

(* With more on deposit and the same debt an account that is broken was    *)
(* broken.                                                                 *)
LEMMA MoreCollateralHeals ==
  ASSUME IInv, NEW d \in [Tokens -> UInt], NEW e \in [Tokens -> UInt],
         \A t \in Tokens : d[t] <= e[t], NEW k \in Nat, BrokenWith(e, k)
  PROVE  BrokenWith(d, k)
<1> DEFINE f == [i \in Listed |-> UsdValue(Price(tokenAddresses[i]), d[tokenAddresses[i]])]
           g == [i \in Listed |-> UsdValue(Price(tokenAddresses[i]), e[tokenAddresses[i]])]
<1>1. IsFiniteSet(Listed) /\ \A i \in Listed : tokenAddresses[i] \in Tokens
  BY ListedTokens
<1>2. AccountValueFits(e) /\ HealthFactorFits(k, AccountValue(e))
  BY DEF BrokenWith, HealthFits
<1>3. ASSUME NEW i \in Listed
      PROVE  /\ Priced(tokenAddresses[i])
             /\ UsdValueFits(Price(tokenAddresses[i]), d[tokenAddresses[i]])
             /\ f[i] \in Nat /\ g[i] \in Nat /\ f[i] <= g[i]
  <2> DEFINE t == tokenAddresses[i]
  <2>1. t \in Tokens /\ Priced(t) /\ UsdValueFits(Price(t), e[t])
    BY <1>1, <1>2 DEF AccountValueFits
  <2>2. Price(t) \in Int /\ d[t] \in Nat /\ e[t] \in Nat /\ d[t] <= e[t]
    BY <2>1, PriceType DEF IInv
  <2>3. /\ UsdValue(Price(t), d[t]) \in Nat /\ UsdValue(Price(t), e[t]) \in Nat
        /\ UsdValue(Price(t), d[t]) <= UsdValue(Price(t), e[t])
        /\ UsdValueFits(Price(t), d[t])
    BY <2>1, <2>2, UsdValueMonotone
  <2> QED BY <2>1, <2>3
<1>4. AccountValue(d) = Total(f, Listed) /\ AccountValue(e) = Total(g, Listed)
  BY DEF AccountValue
<1> HIDE DEF f, g
<1>5. /\ AccountValue(d) \in Nat /\ AccountValue(e) \in Nat
      /\ AccountValue(d) <= AccountValue(e)
  BY <1>1, <1>3, <1>4, TotalType, TotalMonotone
<1>6. AccountValue(d) <= MaxUint
  BY <1>2, <1>5 DEF AccountValueFits
<1>7. AccountValueFits(d)
  BY <1>3, <1>6 DEF AccountValueFits
<1>8. /\ Health(d, k) \in Nat /\ Health(e, k) \in Nat /\ Health(d, k) <= Health(e, k)
      /\ HealthFactorFits(k, AccountValue(d))
  BY <1>2, <1>5, HealthFactorMonotone DEF Health
<1>9. HealthFits(d, k)
  BY <1>7, <1>8 DEF HealthFits
<1>10. ~(Health(e, k) >= MINIMUM_HEALTH_FACTOR)
  BY DEF BrokenWith, HealthHolds
<1>11. ~(Health(d, k) >= MINIMUM_HEALTH_FACTOR)
  <2>1. MINIMUM_HEALTH_FACTOR \in Nat
    BY EngineAssumption
  <2> QED BY <1>8, <1>10, <2>1
<1> QED BY <1>9, <1>11 DEF BrokenWith, HealthHolds

(* A step that leaves an account's books as they were breaks nothing. *)
LEMMA SameBooksSameHealth ==
  ASSUME NEW u, ~Broken(u), feed' = feed,
         s_collateralDeposited'[u] = s_collateralDeposited[u], s_DSCMinted'[u] = s_DSCMinted[u]
  PROVE  ~Broken(u)'
BY BrokenNext DEF Broken, BrokenWith

(* A borrower's health holds when the call ends, or only deposits grew. *)
LEMMA BorrowingBreaksNothing ==
  ASSUME IInv, Borrow, NEW u \in Accounts, ~Broken(u)
  PROVE  ~Broken(u)'
<1> PICK w \in Users :
      \/ \E m \in DebtAmounts : mintDSC(w, m)
      \/ \E t \in Tokens, n \in DepositAmounts :
           \/ depositCollateral(w, t, n)
           \/ \E m \in DebtAmounts : depositCollateralAndMintDSC(w, t, n, m)
  BY DEF Borrow
<1>0. w \in Accounts /\ feed' = feed
  BY DEF Users, depositCollateral, mintDSC, depositCollateralAndMintDSC
<1>1. CASE u # w
  <2>1. s_DSCMinted'[u] = s_DSCMinted[u]
    BY <1>1 DEF IInv, depositCollateral, mintDSC, depositCollateralAndMintDSC
  <2>2. s_collateralDeposited'[u] = s_collateralDeposited[u]
    BY <1>1 DEF IInv, CollateralOK, Deposited, depositCollateral, mintDSC, depositCollateralAndMintDSC
  <2> QED BY <1>0, <2>1, <2>2, SameBooksSameHealth
<1>2. CASE u = w /\ \E t \in Tokens, n \in DepositAmounts : depositCollateral(w, t, n)
  <2> PICK t \in Tokens, n \in DepositAmounts : depositCollateral(w, t, n)
    BY <1>2
  <2>1. n \in Nat /\ s_collateralDeposited[u][t] \in Nat /\ s_collateralDeposited[u][t] + n <= MaxUint
    BY <1>2, InputsAssumption DEF IInv, CollateralOK, depositCollateral, CanDeposit
  <2>2. /\ s_collateralDeposited'[u] = [s_collateralDeposited[u] EXCEPT ![t] = @ + n]
        /\ s_DSCMinted'[u] = s_DSCMinted[u]
    BY <1>2 DEF IInv, CollateralOK, depositCollateral, Deposited
  <2>3. s_collateralDeposited[u] \in [Tokens -> UInt] /\ s_DSCMinted[u] \in Nat
    BY DEF IInv, CollateralOK
  <2>4. s_collateralDeposited'[u] \in [Tokens -> UInt]
    BY <2>1, <2>2, <2>3
  <2>5. \A c \in Tokens : s_collateralDeposited[u][c] <= s_collateralDeposited'[u][c]
    BY <2>1, <2>2, <2>3
  <2>6. ~BrokenWith(s_collateralDeposited[u], s_DSCMinted[u])
    BY DEF Broken, BrokenWith
  <2> QED BY <1>0, <2>2, <2>3, <2>4, <2>5, <2>6, MoreCollateralHeals, BrokenNext
<1>3. CASE u = w /\ \E m \in DebtAmounts : mintDSC(w, m)
  <2> PICK m \in DebtAmounts : mintDSC(w, m)
    BY <1>3
  <2>1. HealthHolds(s_collateralDeposited'[u], s_DSCMinted'[u])
    BY <1>3 DEF IInv, mintDSC, CanMintDSC
  <2> QED BY <1>0, <2>1, BrokenNext DEF BrokenWith
<1>4. CASE u = w /\ \E t \in Tokens, n \in DepositAmounts, m \in DebtAmounts :
                      depositCollateralAndMintDSC(w, t, n, m)
  <2> PICK t \in Tokens, n \in DepositAmounts, m \in DebtAmounts : depositCollateralAndMintDSC(w, t, n, m)
    BY <1>4
  <2>1. HealthHolds(s_collateralDeposited'[u], s_DSCMinted'[u])
    BY <1>4 DEF IInv, depositCollateralAndMintDSC, CanMintDSC
  <2> QED BY <1>0, <2>1, BrokenNext DEF BrokenWith
<1> QED BY <1>1, <1>2, <1>3, <1>4

(* burnDSC ends with a check of the one account it touches. *)
LEMMA RepayingBreaksNothing ==
  ASSUME IInv, NEW w \in Users, NEW m \in DebtAmounts, burnDSC(w, m), NEW u \in Accounts, ~Broken(u)
  PROVE  ~Broken(u)'
<1>0. w \in Accounts /\ feed' = feed /\ s_collateralDeposited' = s_collateralDeposited
  BY DEF Users, burnDSC
<1>1. CASE u # w
  BY <1>0, <1>1, SameBooksSameHealth DEF IInv, burnDSC, BurnDsc
<1>2. CASE u = w
  <2>1. HealthHolds(s_collateralDeposited'[u], s_DSCMinted'[u])
    BY <1>0, <1>2 DEF IInv, burnDSC, BurnDsc
  <2> QED BY <1>0, <2>1, BrokenNext DEF BrokenWith
<1> QED BY <1>1, <1>2

(* The liquidated account was broken, the liquidator is checked. *)
LEMMA LiquidatingBreaksNothing ==
  ASSUME IInv, Liquidate, NEW u \in Accounts, ~Broken(u)
  PROVE  ~Broken(u)'
<1> PICK caller \in Users, c \in Tokens, user \in Accounts, m \in DebtAmounts :
      liquidate(caller, c, user, m)
  BY DEF Liquidate
<1> DEFINE seized == Seized(Price(c), m)
<1>1. /\ Liquidatable(user) /\ feed' = feed
      /\ s_collateralDeposited' = Redeemed(c, seized, user)
      /\ s_DSCMinted' = [s_DSCMinted EXCEPT ![user] = @ - m]
  BY DEF liquidate, Redeem, BurnDsc
<1>2. Broken(user)
  BY <1>1 DEF Liquidatable, Broken, HealthHolds
<1> HIDE DEF seized
<1>3. s_collateralDeposited'[u] = s_collateralDeposited[u] /\ s_DSCMinted'[u] = s_DSCMinted[u]
  BY <1>1, <1>2 DEF IInv, Redeemed
<1> QED BY <1>1, <1>3, SameBooksSameHealth

(* While the prices stand still an account becomes broken only in a step   *)
(* that takes collateral from it and leaves its debt: _redeemCollateral.   *)
THEOREM HealthIsLostToWithdrawals == Spec => HealthLossHasCause
<1> DEFINE Cause ==
      \A u \in Accounts :
       UNCHANGED feed /\ ~Broken(u) /\ Broken(u)' =>
         /\ s_DSCMinted'[u] = s_DSCMinted[u]
         /\ \E t \in Tokens : s_collateralDeposited'[u][t] < s_collateralDeposited[u][t]
<1>1. IInv /\ [Next]_vars => [Cause]_vars
  <2> SUFFICES ASSUME IInv, Next, NEW u \in Accounts, feed' = feed, ~Broken(u), Broken(u)'
               PROVE  /\ s_DSCMinted'[u] = s_DSCMinted[u]
                      /\ \E t \in Tokens : s_collateralDeposited'[u][t] < s_collateralDeposited[u][t]
    OBVIOUS
  <2>1. ~Borrow /\ ~Liquidate
    BY BorrowingBreaksNothing, LiquidatingBreaksNothing
  <2>2. ~(UNCHANGED <<s_collateralDeposited, s_DSCMinted>>)
    BY SameBooksSameHealth
  <2>3. ~HoldTokens /\ ~HoldCoins /\ ~FeedsMove
    <3>1. ~HoldTokens
      BY <2>2 DEF HoldTokens, tokenTransfer, tokenTransferFrom, tokenApprove
    <3>2. ~HoldCoins
      BY <2>2 DEF HoldCoins, coinTransfer, coinTransferFrom, coinBurnFrom, coinApprove
    <3>3. ~FeedsMove
      BY <2>2 DEF FeedsMove, feedChanges
    <3> QED BY <3>1, <3>2, <3>3
  <2>4. ~(\E w \in Users, m \in DebtAmounts : burnDSC(w, m))
    BY RepayingBreaksNothing
  <2>5. PICK t \in Tokens, n \in DepositAmounts, from \in Accounts, to \in Address :
          _redeemCollateral(t, n, from, to)
    BY <2>1, <2>3, <2>4 DEF Next, Repay
  <2>6. /\ s_DSCMinted' = s_DSCMinted /\ n \in Nat /\ n # 0
        /\ s_collateralDeposited' = Redeemed(t, n, from)
    BY <2>5, InputsAssumption DEF _redeemCollateral, CanRedeem, Redeem
  <2>7. u = from
    <3> SUFFICES ASSUME u # from PROVE s_collateralDeposited'[u] = s_collateralDeposited[u]
      BY <2>6, SameBooksSameHealth
    <3> QED BY <2>6 DEF IInv, Redeemed
  <2>8. /\ s_collateralDeposited[u][t] \in Nat
        /\ s_collateralDeposited'[u][t] = s_collateralDeposited[u][t] - n
    BY <2>6, <2>7 DEF IInv, CollateralOK, Redeemed
  <2>9. s_collateralDeposited'[u][t] < s_collateralDeposited[u][t]
    BY <2>6, <2>8
  <2> QED BY <2>6, <2>9
<1> QED BY <1>1, InvariantIInv, PTL DEF Spec, HealthLossHasCause
=============================================================================
