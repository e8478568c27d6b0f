--------------------------- MODULE DeployDSC_proofs ---------------------------
(***************************************************************************)
(* The coin and its deployment, for every set of accounts, every integer   *)
(* width and every interleaving of calls.                                  *)
(*                                                                         *)
(* For the coin by itself, Sound(ledger) with the owner's type is the      *)
(* inductive invariant: that the books balance is what shows that no       *)
(* unchecked addition wraps, and that none wraps is what keeps the books   *)
(* balanced, so neither can be proved without the other.                   *)
(*                                                                         *)
(* The deployment then leaves the engine what it takes for granted.  While *)
(* the script is not given up, nobody but the one it says owns the coin,   *)
(* so the only calls in between that could make coins or take the          *)
(* ownership away are the engine's own, and these record what they make as *)
(* a debt.                                                                 *)
(***************************************************************************)
EXTENDS DeployDSC, Arithmetic_proofs

USE AccountsAssumption, MaxUintAssumption, CoinAssumption, DeployAssumption DEF UInt, Address

-----------------------------------------------------------------------------
(* The coin. *)

IInv == Sound(ledger) /\ owner \in Address

LEMMA InitIInv == Init => IInv
BY EmptySound DEF Init, IInv

(* Only mint can make the supply grow. *)
LEMMA SupplyStep ==
  ASSUME IInv, NEW c \in Accounts, Supply(c)
  PROVE  IInv' /\ (owner = ZeroAddress => owner' = ZeroAddress /\ ledger'.totalSupply <= ledger.totalSupply)
<1> PICK n \in Amounts :
      \/ \E to \in Address : mint(c, to, n)
      \/ burn(c, n)
      \/ \E from \in Accounts : burnFrom(c, from, n)
  BY DEF Supply
<1>0. Sound(ledger) /\ n \in UInt
  BY DEF IInv
<1>n. ledger.totalSupply \in Nat
  BY <1>0 DEF Sound, Ledger
<1>1. CASE \E to \in Address : mint(c, to, n)
  <2> PICK to \in Address : mint(c, to, n)
    BY <1>1
  <2>1. to \in Accounts /\ CanMint(ledger, to, n)
    BY DEF mint, CanMint
  <2>2. Sound(ledger')
    BY <1>0, <2>1, MintSound DEF mint
  <2>3. owner # ZeroAddress
    BY DEF mint, onlyOwner
  <2> QED BY <2>2, <2>3 DEF IInv, mint
<1>2. CASE burn(c, n)
  <2>1. Sound(ledger') /\ ledger'.totalSupply = ledger.totalSupply - n
    BY <1>0, <1>2, BurnSound, ZenonT(60) DEF burn
  <2> QED BY <1>0, <1>n, <1>2, <2>1 DEF IInv, burn
<1>3. CASE \E from \in Accounts : burnFrom(c, from, n)
  <2> PICK from \in Accounts : burnFrom(c, from, n)
    BY <1>3
  <2> DEFINE l == Spend(ledger, from, c, n)
  <2>1. Sound(l) /\ l.totalSupply = ledger.totalSupply /\ l.balances = ledger.balances
    BY <1>0, SpendSound DEF burnFrom, CanBurnFrom
  <2>2. CanBurn(l, from, n)
    BY <2>1 DEF burnFrom, CanBurnFrom, CanBurn
  <2>3. ledger' = Burn(l, from, n)
    BY DEF burnFrom, BurnFrom
  <2>4. Sound(ledger') /\ ledger'.totalSupply = ledger.totalSupply - n
    <3>1. Sound(l) /\ n \in UInt /\ CanBurn(l, from, n)
      BY <1>0, <2>1, <2>2
    <3> HIDE DEF l
    <3>2. Sound(Burn(l, from, n))
      BY <3>1, BurnSound
    <3>3. Burn(l, from, n).totalSupply = l.totalSupply - n
      BY <3>1, BurnSound, ZenonT(60)
    <3> QED BY <2>1, <2>3, <3>2, <3>3
  <2> QED BY <1>0, <1>n, <2>4 DEF IInv, burnFrom
<1> QED BY <1>1, <1>2, <1>3

(* Transfers keep the supply. *)
LEMMA WalletStep ==
  ASSUME IInv, NEW c \in Accounts, Wallet(c)
  PROVE  IInv' /\ owner' = owner /\ ledger'.totalSupply = ledger.totalSupply
<1> PICK n \in Amounts, to \in Address :
      transfer(c, to, n) \/ \E from \in Accounts : transferFrom(c, from, to, n)
  BY DEF Wallet
<1>0. Sound(ledger) /\ n \in UInt
  BY DEF IInv
<1>1. CASE transfer(c, to, n)
  <2>1. to \in Accounts
    BY <1>1 DEF transfer, CanTransfer
  <2>2. Sound(ledger') /\ ledger'.totalSupply = ledger.totalSupply
    BY <1>0, <1>1, <2>1, TransferSound DEF transfer
  <2> QED BY <1>1, <2>2 DEF IInv, transfer
<1>2. CASE \E from \in Accounts : transferFrom(c, from, to, n)
  <2> PICK from \in Accounts : transferFrom(c, from, to, n)
    BY <1>2
  <2> DEFINE l == Spend(ledger, from, c, n)
  <2>1. Sound(l) /\ l.totalSupply = ledger.totalSupply /\ l.balances = ledger.balances
    BY <1>0, SpendSound DEF transferFrom, CanTransferFrom
  <2>2. CanTransfer(l, from, to, n) /\ to \in Accounts
    BY <2>1 DEF transferFrom, CanTransferFrom, CanTransfer
  <2>3. ledger' = Transfer(l, from, to, n)
    BY DEF transferFrom, TransferFrom
  <2>4. Sound(ledger') /\ ledger'.totalSupply = ledger.totalSupply
    <3> HIDE DEF l
    <3> QED BY <1>0, <2>1, <2>2, <2>3, TransferSound
  <2> QED BY <2>4 DEF IInv, transferFrom
<1> QED BY <1>1, <1>2

(* Allowances keep the supply. *)
LEMMA AllowanceStep ==
  ASSUME IInv, NEW c \in Accounts, Allowance(c)
  PROVE  IInv' /\ owner' = owner /\ ledger'.totalSupply = ledger.totalSupply
<1> PICK n \in Amounts, spender \in Address :
      \/ approve(c, spender, n)
      \/ increaseAllowance(c, spender, n)
      \/ decreaseAllowance(c, spender, n)
  BY DEF Allowance
<1>1. Sound(ledger) /\ n \in UInt
  BY DEF IInv
<1>2. spender \in Accounts
  BY DEF approve, increaseAllowance, decreaseAllowance, CanApprove, CanIncrease, CanDecrease
<1>3. ledger.allowances[c][spender] \in UInt
  BY <1>1, <1>2 DEF Sound, Ledger
<1>4. \E k \in UInt : ledger' = Approve(ledger, c, spender, k)
  <2>1. CASE approve(c, spender, n)
    BY <1>1, <2>1 DEF approve
  <2>2. CASE increaseAllowance(c, spender, n)
    BY <1>1, <1>3, <2>2 DEF increaseAllowance, CanIncrease, Increase
  <2>3. CASE decreaseAllowance(c, spender, n)
    BY <1>1, <1>3, <2>3 DEF decreaseAllowance, CanDecrease, CanSpend, Decrease
  <2> QED BY <2>1, <2>2, <2>3
<1>5. owner' = owner
  BY DEF approve, increaseAllowance, decreaseAllowance
<1>6. PICK k \in UInt : ledger' = Approve(ledger, c, spender, k)
  BY <1>4
<1>7. Sound(Approve(ledger, c, spender, k)) /\ Approve(ledger, c, spender, k).totalSupply = ledger.totalSupply
  BY <1>1, <1>2, ApproveSound
<1> QED BY <1>5, <1>6, <1>7 DEF IInv

(* Handing over or renouncing ownership moves no token. *)
LEMMA OwnershipStep ==
  ASSUME IInv, NEW c \in Accounts, Ownership(c)
  PROVE  IInv' /\ owner # ZeroAddress /\ ledger' = ledger
BY DEF Ownership, transferOwnership, renounceOwnership, onlyOwner, IInv

(* One lemma per group of calls, and stuttering. *)
LEMMA NextIInv == IInv /\ [Next]_vars => IInv'
<1> SUFFICES ASSUME IInv, [Next]_vars PROVE IInv'
  OBVIOUS
<1>1. CASE UNCHANGED vars
  BY <1>1 DEF vars, IInv
<1>2. CASE Next
  BY <1>2, SupplyStep, WalletStep, AllowanceStep, OwnershipStep DEF Next
<1> QED BY <1>1, <1>2

LEMMA InvariantIInv == Spec => []IInv
<1> QED BY InitIInv, NextIInv, PTL DEF Spec

(* Every amount of the token fits a uint256, for every width. *)
THEOREM TypeCorrect == Spec => []TypeOK
<1>1. IInv => TypeOK
  BY DEF IInv, Sound, TypeOK
<1> QED BY <1>1, InvariantIInv, PTL

(* The supply is the sum of the balances: ERC20.sol's reason for its       *)
(* unchecked additions.                                                    *)
THEOREM SupplyConserved == Spec => []SupplyIsTotal
<1>1. IInv => SupplyIsTotal
  BY DEF IInv, Sound, SupplyIsTotal
<1> QED BY <1>1, InvariantIInv, PTL

(* Renouncing the ownership is final and ends minting. *)
THEOREM RenouncingEndsMinting == Spec => RenouncedIsFinal
<1>1. IInv /\ [Next]_vars =>
        [owner = ZeroAddress =>
           owner' = ZeroAddress /\ ledger'.totalSupply <= ledger.totalSupply]_vars
  <2> SUFFICES ASSUME IInv, Next, owner = ZeroAddress
               PROVE  owner' = ZeroAddress /\ ledger'.totalSupply <= ledger.totalSupply
    OBVIOUS
  <2>1. ledger.totalSupply \in Nat
    BY DEF IInv, Sound, Ledger
  <2> QED BY <2>1, SupplyStep, WalletStep, AllowanceStep, OwnershipStep DEF Next
<1> QED BY <1>1, InvariantIInv, PTL DEF Spec, RenouncedIsFinal

-----------------------------------------------------------------------------
(* The deployment. *)

(* Who owns the coin while the script is not given up. *)
ScriptOwner == IF script = "handed over" THEN Engine ELSE Deployer

(* No coin but is owed to the engine. *)
Owed == ledger.totalSupply <= Total(s_DSCMinted, Accounts)

(* How far the script is. *)
Progress ==
  /\ script \in {"coin", "engine", "handed over"} /\ givenUp \in BOOLEAN
  /\ script = "handed over" => ~givenUp
  /\ script = "coin" => s_DSCMinted = [a \in Accounts |-> 0]

OnTrack == ~givenUp => owner = ScriptOwner /\ Owed

DInv ==
  /\ IInv
  /\ s_DSCMinted \in [Accounts -> UInt]
  /\ Progress
  /\ OnTrack

(* A step adds nothing to the coins that are not owed. *)
Kept ==
  ledger'.totalSupply - ledger.totalSupply
    <= Total(s_DSCMinted', Accounts) - Total(s_DSCMinted, Accounts)

LEMMA InitDInv == DeployInit => DInv
<1> SUFFICES ASSUME DeployInit PROVE DInv
  OBVIOUS
<1>1. IInv
  BY InitIInv DEF DeployInit
<1>2. s_DSCMinted = [a \in Accounts |-> 0] /\ script = "coin" /\ givenUp = FALSE
  BY DEF DeployInit
<1>3. Total(s_DSCMinted, Accounts) = 0
  BY <1>2, TotalZero
<1>4. ledger.totalSupply = 0 /\ owner = Deployer
  BY DEF DeployInit, Init, EmptyLedger
<1>5. s_DSCMinted \in [Accounts -> UInt] /\ Progress
  <2>1. 0 \in UInt
    OBVIOUS
  <2>2. s_DSCMinted \in [Accounts -> UInt]
    BY <1>2, <2>1
  <2>3. Progress
    BY <1>2, Zenon DEF Progress
  <2> QED BY <2>2, <2>3
<1>6. Owed /\ owner = ScriptOwner
  BY <1>2, <1>3, <1>4 DEF Owed, ScriptOwner
<1> QED BY <1>1, <1>5, <1>6 DEF DInv, OnTrack

(* The total of the debts when one of them changes. *)
LEMMA DebtMoves ==
  ASSUME s_DSCMinted \in [Accounts -> UInt], NEW u \in Accounts, NEW d \in UInt
  PROVE  LET owed == [s_DSCMinted EXCEPT ![u] = d]
         IN  /\ owed \in [Accounts -> UInt]
             /\ Total(owed, Accounts) = Total(s_DSCMinted, Accounts) - s_DSCMinted[u] + d
             /\ Total(s_DSCMinted, Accounts) \in Nat
<1> DEFINE owed == [s_DSCMinted EXCEPT ![u] = d]
<1>1. /\ owed \in [Accounts -> UInt]
      /\ owed[u] = d /\ d \in Nat
      /\ \A a \in Accounts \ {u} : owed[a] = s_DSCMinted[a]
      /\ \A a \in Accounts : s_DSCMinted[a] \in Nat
  OBVIOUS
<1>2. Total(s_DSCMinted, Accounts) \in Nat
  BY <1>1, TotalType
<1>3. Total(owed, Accounts) = Total(s_DSCMinted, Accounts) - s_DSCMinted[u] + owed[u]
  <2> HIDE DEF owed
  <2> QED BY <1>1, TotalUpdate
<1> QED BY <1>1, <1>2, <1>3

(* The script's own transactions: before each of them there is no coin the *)
(* engine would not know of.                                               *)
LEMMA ScriptStep == DInv /\ (Script \/ giveUp) => DInv'
<1> SUFFICES ASSUME DInv, Script \/ giveUp PROVE DInv'
  OBVIOUS
<1>1. CASE newEngine
  <2>1. s_DSCMinted' = s_DSCMinted
    BY <1>1 DEF DInv, Progress, newEngine
  <2> QED BY <1>1, <2>1 DEF DInv, IInv, Progress, OnTrack, Owed, ScriptOwner, newEngine
<1>2. CASE handOver
  <2>1. Engine \in Accounts /\ owner' = Engine
    BY <1>2 DEF handOver, transferOwnership
  <2> QED BY <1>2, <2>1 DEF DInv, IInv, Progress, OnTrack, Owed, ScriptOwner, handOver, transferOwnership
<1>3. CASE giveUp
  BY <1>3 DEF DInv, IInv, Progress, OnTrack, giveUp
<1> QED BY <1>1, <1>2, <1>3 DEF Script

(* The engine lends and is repaid: coins and debts move together. *)
LEMMA MintStep ==
  ASSUME DInv, NEW u \in Accounts, NEW n \in Amounts, mintDSC(u, n)
  PROVE  DInv' /\ Kept /\ owner' = owner
<1>1. /\ Sound(ledger) /\ n \in UInt /\ CanMint(ledger, u, n) /\ ledger' = Mint(ledger, u, n)
      /\ owner' = owner /\ script' = script /\ givenUp' = givenUp /\ script # "coin"
      /\ s_DSCMinted' = [s_DSCMinted EXCEPT ![u] = s_DSCMinted[u] + n]
      /\ s_DSCMinted[u] + n <= MaxUint /\ s_DSCMinted \in [Accounts -> UInt]
  BY DEF DInv, IInv, mintDSC, mint, EngineLive
<1>2. Sound(ledger') /\ ledger'.totalSupply = ledger.totalSupply + n /\ ledger.totalSupply \in Nat
  <2>1. Sound(ledger) /\ n \in UInt /\ CanMint(ledger, u, n)
    BY <1>1
  <2>2. Sound(Mint(ledger, u, n)) /\ Mint(ledger, u, n).totalSupply = ledger.totalSupply + n
    BY <2>1, MintSound, ZenonT(60)
  <2> QED BY <1>1, <2>2 DEF Sound, Ledger
<1>3. s_DSCMinted[u] + n \in UInt /\ s_DSCMinted[u] \in Nat
  BY <1>1
<1>4. /\ s_DSCMinted' \in [Accounts -> UInt]
      /\ Total(s_DSCMinted', Accounts) = Total(s_DSCMinted, Accounts) - s_DSCMinted[u] + (s_DSCMinted[u] + n)
      /\ Total(s_DSCMinted, Accounts) \in Nat
  BY <1>1, <1>3, DebtMoves
<1>5. Total(s_DSCMinted', Accounts) = Total(s_DSCMinted, Accounts) + n
  BY <1>1, <1>3, <1>4
<1>6. Kept
  BY <1>1, <1>2, <1>4, <1>5 DEF Kept
<1>7. Owed => Owed'
  BY <1>1, <1>2, <1>4, <1>5 DEF Owed
<1>8. IInv'
  BY <1>1, <1>2 DEF DInv, IInv
<1>9. DInv'
  BY <1>1, <1>4, <1>7, <1>8 DEF DInv, Progress, OnTrack, ScriptOwner
<1> QED BY <1>1, <1>6, <1>9

LEMMA BurnStep ==
  ASSUME DInv, NEW u \in Accounts, NEW dscFrom \in Accounts, NEW n \in Amounts,
         burnDsc(n, u, dscFrom)
  PROVE  DInv' /\ Kept /\ owner' = owner
<1> DEFINE taken == TransferFrom(ledger, Engine, dscFrom, Engine, n)
<1>1. /\ Sound(ledger) /\ n \in UInt /\ CanTransferFrom(ledger, Engine, dscFrom, Engine, n)
      /\ ledger' = Burn(taken, Engine, n)
      /\ owner' = owner /\ script' = script /\ givenUp' = givenUp /\ script # "coin"
      /\ s_DSCMinted' = [s_DSCMinted EXCEPT ![u] = s_DSCMinted[u] - n]
      /\ s_DSCMinted[u] >= n /\ s_DSCMinted \in [Accounts -> UInt]
  BY DEF DInv, IInv, burnDsc, EngineLive
<1>2. /\ Sound(taken) /\ taken.totalSupply = ledger.totalSupply
      /\ taken.balances[Engine] >= n
  <2>1. /\ Sound(taken) /\ taken.totalSupply = ledger.totalSupply
        /\ taken.balances[Engine] =
             IF dscFrom = Engine THEN ledger.balances[Engine]
             ELSE IF Engine = dscFrom THEN ledger.balances[Engine] - n
             ELSE IF Engine = Engine THEN ledger.balances[Engine] + n
             ELSE ledger.balances[Engine]
    BY <1>1, TransferFromSound
  <2>2. ledger.balances[dscFrom] >= n /\ ledger.balances[Engine] \in Nat
    BY <1>1 DEF CanTransferFrom, CanTransfer, Sound, Ledger
  <2> QED BY <1>1, <2>1, <2>2
<1>3. Sound(ledger') /\ ledger'.totalSupply = ledger.totalSupply - n /\ ledger.totalSupply \in Nat
  <2>1. CanBurn(taken, Engine, n)
    BY <1>2 DEF CanBurn
  <2> HIDE DEF taken
  <2>2. Sound(Burn(taken, Engine, n)) /\ Burn(taken, Engine, n).totalSupply = taken.totalSupply - n
    <3>1. Sound(taken) /\ n \in UInt /\ Engine \in Accounts
      BY <1>1, <1>2
    <3>2. Sound(Burn(taken, Engine, n))
      BY <2>1, <3>1, BurnSound
    <3>3. Burn(taken, Engine, n).totalSupply = taken.totalSupply - n
      BY <2>1, <3>1, BurnSound, ZenonT(60)
    <3> QED BY <3>2, <3>3
  <2> QED BY <1>1, <1>2, <2>2 DEF Sound, Ledger
<1>4. s_DSCMinted[u] - n \in UInt /\ s_DSCMinted[u] \in Nat
  BY <1>1
<1>5. /\ s_DSCMinted' \in [Accounts -> UInt]
      /\ Total(s_DSCMinted', Accounts) = Total(s_DSCMinted, Accounts) - s_DSCMinted[u] + (s_DSCMinted[u] - n)
      /\ Total(s_DSCMinted, Accounts) \in Nat
  BY <1>1, <1>4, DebtMoves
<1>6. Total(s_DSCMinted', Accounts) = Total(s_DSCMinted, Accounts) - n
  BY <1>1, <1>4, <1>5
<1> HIDE DEF taken
<1>7. Owed => Owed'
  BY <1>1, <1>3, <1>5, <1>6 DEF Owed
<1>8. IInv'
  BY <1>1, <1>3 DEF DInv, IInv
<1>9. DInv'
  BY <1>1, <1>5, <1>7, <1>8 DEF DInv, Progress, OnTrack, ScriptOwner
<1>10. Kept
  BY <1>1, <1>3, <1>5, <1>6 DEF Kept
<1> QED BY <1>1, <1>9, <1>10

(* burnFrom makes the supply smaller, or leaves it. *)
LEMMA BurnFromStep ==
  ASSUME IInv, NEW c \in Accounts, NEW from \in Accounts, NEW n \in Amounts, burnFrom(c, from, n)
  PROVE  /\ IInv' /\ owner' = owner
         /\ ledger.totalSupply \in Nat /\ ledger'.totalSupply \in Nat
         /\ ledger'.totalSupply <= ledger.totalSupply
<1>1. IInv'
  BY SupplyStep DEF Supply
<1>2. Sound(ledger) /\ n \in UInt /\ CanBurnFrom(ledger, c, from, n) /\ ledger' = BurnFrom(ledger, c, from, n)
  BY DEF IInv, burnFrom
<1>3. ledger'.totalSupply = ledger.totalSupply - n
  <2> DEFINE m == BurnFrom(ledger, c, from, n)
  <2>1. /\ Sound(m) /\ m.totalSupply = ledger.totalSupply - n
        /\ m.balances = [ledger.balances EXCEPT ![from] = @ - n]
        /\ \A a \in Accounts \ {from} : m.allowances[a] = ledger.allowances[a]
    BY <1>2, BurnFromSound
  <2> QED BY <1>2, <2>1
<1>4. ledger.totalSupply \in Nat /\ ledger'.totalSupply \in Nat
  BY <1>1 DEF IInv, Sound, Ledger
<1> QED BY <1>1, <1>2, <1>3, <1>4 DEF burnFrom

(* What an owner can do nobody but the deployer does, and only once the    *)
(* script is given up.                                                     *)
LEMMA OwnStep ==
  ASSUME DInv, NEW c \in Accounts, Own(c)
  PROVE  DInv'
<1>1. IInv' /\ givenUp /\ givenUp' = givenUp /\ script' = script /\ s_DSCMinted' = s_DSCMinted
  BY SupplyStep, OwnershipStep DEF DInv, Own
<1> QED BY <1>1 DEF DInv, Progress, OnTrack

(* What anybody can do makes no coins. *)
LEMMA UseStep ==
  ASSUME DInv, NEW c \in Accounts, Use(c)
  PROVE  DInv' /\ Kept /\ owner' = owner
<1>0. ledger.totalSupply \in Nat /\ Total(s_DSCMinted, Accounts) \in Nat
  <2>1. \A a \in Accounts : s_DSCMinted[a] \in Nat
    BY DEF DInv
  <2> QED BY <2>1, TotalType DEF DInv, IInv, Sound, Ledger
<1>1. IInv' /\ owner' = owner /\ ledger'.totalSupply \in Nat /\ ledger'.totalSupply <= ledger.totalSupply
  <2>1. CASE Wallet(c) \/ Allowance(c)
    <3>1. IInv' /\ owner' = owner /\ ledger'.totalSupply = ledger.totalSupply
      BY <2>1, WalletStep, AllowanceStep DEF DInv
    <3> QED BY <1>0, <3>1
  <2>2. CASE \E n \in Amounts, from \in Accounts : burnFrom(c, from, n)
    BY <2>2, BurnFromStep DEF DInv
  <2> QED BY <2>1, <2>2 DEF Use
<1>2. script' = script /\ givenUp' = givenUp /\ s_DSCMinted' = s_DSCMinted
  BY DEF Use
<1>3. Owed => Owed'
  BY <1>0, <1>1, <1>2 DEF Owed
<1>4. Progress' /\ (s_DSCMinted \in [Accounts -> UInt])'
  BY <1>2 DEF DInv, Progress
<1>5. OnTrack'
  BY <1>1, <1>2, <1>3 DEF DInv, OnTrack, ScriptOwner
<1>6. Kept
  BY <1>0, <1>1, <1>2 DEF Kept
<1> QED BY <1>1, <1>4, <1>5, <1>6 DEF DInv

LEMMA NextDInv == DInv /\ [DeployNext]_deployVars => DInv'
<1> SUFFICES ASSUME DInv, [DeployNext]_deployVars PROVE DInv'
  OBVIOUS
<1>1. CASE UNCHANGED deployVars
  BY <1>1 DEF deployVars, DInv, IInv, Progress, OnTrack, Owed, ScriptOwner
<1>2. CASE Script \/ giveUp
  BY <1>2, ScriptStep
<1>3. CASE EngineCalls
  BY <1>3, MintStep, BurnStep DEF EngineCalls
<1>4. CASE Others
  BY <1>4, OwnStep, UseStep DEF Others
<1> QED BY <1>1, <1>2, <1>3, <1>4 DEF DeployNext

LEMMA InvariantDInv == DeploySpec => []DInv
<1> QED BY InitDInv, NextDInv, PTL DEF DeploySpec

(* Once the script is through, the engine owns the coin and every coin is  *)
(* owed to it, whatever else was called between its transactions.          *)
THEOREM DeploymentHandsOver == DeploySpec => []DeployedCoinIsOwed
<1>1. DInv => DeployedCoinIsOwed
  BY DEF DInv, Progress, OnTrack, Owed, ScriptOwner, DeployedCoinIsOwed
<1> QED BY <1>1, InvariantDInv, PTL

(* The coin's books balance all through the deployment and after. *)
THEOREM DeployedSupplyConserved == DeploySpec => []SupplyIsTotal
<1>1. DInv => SupplyIsTotal
  BY DEF DInv, IInv, Sound, SupplyIsTotal
<1> QED BY <1>1, InvariantDInv, PTL

-----------------------------------------------------------------------------
(* What comes of it when the engine has the coin, however it got it.       *)
LEMMA EngineKeeps ==
  ASSUME DInv, [DeployNext]_deployVars, owner = Engine
  PROVE  owner' = Engine /\ Kept
<1>0. ledger.totalSupply \in Nat /\ Total(s_DSCMinted, Accounts) \in Nat
  <2>1. \A a \in Accounts : s_DSCMinted[a] \in Nat
    BY DEF DInv
  <2> QED BY <2>1, TotalType DEF DInv, IInv, Sound, Ledger
<1>1. CASE UNCHANGED deployVars
  BY <1>0, <1>1 DEF deployVars, Kept
<1>2. CASE newEngine
  <2>1. s_DSCMinted' = s_DSCMinted /\ ledger' = ledger /\ owner' = owner
    BY <1>2 DEF DInv, Progress, newEngine
  <2> QED BY <1>0, <2>1 DEF Kept
<1>3. CASE handOver
  <2>1. FALSE
    BY <1>3 DEF handOver, transferOwnership, onlyOwner
  <2> QED BY <2>1
<1>4. CASE giveUp
  <2>1. s_DSCMinted' = s_DSCMinted /\ ledger' = ledger /\ owner' = owner
    BY <1>4 DEF giveUp
  <2> QED BY <1>0, <2>1 DEF Kept
<1>5. CASE EngineCalls
  BY <1>5, MintStep, BurnStep DEF EngineCalls
<1>6. ASSUME NEW c \in Accounts \ {Engine}, Use(c)
      PROVE  owner' = Engine /\ Kept
  BY <1>6, UseStep
<1>7. ASSUME NEW c \in Accounts \ {Engine}, Own(c)
      PROVE  owner' = Engine /\ Kept
  <2>1. PICK n \in Amounts, from \in Accounts : burnFrom(c, from, n)
    BY <1>7 DEF Own, Supply, Ownership, mint, burn, transferOwnership, renounceOwnership, onlyOwner
  <2>2. owner' = owner /\ ledger'.totalSupply \in Nat /\ ledger'.totalSupply <= ledger.totalSupply
    BY <2>1, BurnFromStep DEF DInv
  <2>3. s_DSCMinted' = s_DSCMinted
    BY <1>7 DEF Own
  <2> QED BY <1>0, <2>2, <2>3 DEF Kept
<1> QED BY <1>1, <1>2, <1>3, <1>4, <1>5, <1>6, <1>7 DEF DeployNext, Script, Others

(* Ownable, mintDSC and _burnDsc: once the engine has the coin nobody      *)
(* takes it back, and no call adds to the coins that are not owed, whether *)
(* the script went through or was cut off and finished by hand after the   *)
(* deployer had minted.                                                    *)
THEOREM HandOverSettles == DeploySpec => HandOverIsFinal
<1>1. DInv /\ [DeployNext]_deployVars =>
        [owner = Engine =>
           /\ owner' = Engine
           /\ ledger'.totalSupply - ledger.totalSupply
                <= Total(s_DSCMinted', Accounts) - Total(s_DSCMinted, Accounts)]_deployVars
  <2> SUFFICES ASSUME DInv, DeployNext, owner = Engine
               PROVE  /\ owner' = Engine
                      /\ ledger'.totalSupply - ledger.totalSupply
                           <= Total(s_DSCMinted', Accounts) - Total(s_DSCMinted, Accounts)
    OBVIOUS
  <2> QED BY EngineKeeps DEF Kept
<1> QED BY <1>1, InvariantDInv, PTL DEF DeploySpec, HandOverIsFinal
=============================================================================
