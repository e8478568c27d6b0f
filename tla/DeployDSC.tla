------------------------------- MODULE DeployDSC -------------------------------
(***************************************************************************)
(* The deployment: run broadcasts three transactions, which make the coin, *)
(* make the engine and give it the coin.  Init is the state the first of   *)
(* them leaves.  Everybody else's calls fall in between the others; the    *)
(* script may stand still after any of them, and be taken up again, or be  *)
(* given up, when the deployer does with the coin what an owner can.       *)
(*                                                                         *)
(* Of the engine there is what it does with the coin and whom it charges   *)
(* for it; whether the caller's health allows it is left open.             *)
(***************************************************************************)
EXTENDS DecentralizedStableCoin

CONSTANT Engine   \* the address the engine is deployed at

ASSUME DeployAssumption == Engine \in Accounts /\ Engine # Deployer

VARIABLES
  script,        \* the last transaction of run that went through
  givenUp,       \* the rest of the script will not be run
  s_DSCMinted    \* the engine's record of debts

deployVars == <<ledger, owner, script, givenUp, s_DSCMinted>>

DeployInit ==
  /\ Init
  /\ script = "coin" /\ givenUp = FALSE
  /\ s_DSCMinted = [a \in Accounts |-> 0]

-----------------------------------------------------------------------------
(* The script. *)

newEngine ==
  /\ script = "coin" /\ ~givenUp
  /\ s_DSCMinted' = [a \in Accounts |-> 0]
  /\ script' = "engine"
  /\ UNCHANGED <<ledger, owner, givenUp>>

handOver ==
  /\ script = "engine" /\ ~givenUp
  /\ transferOwnership(Deployer, Engine)
  /\ script' = "handed over"
  /\ UNCHANGED <<givenUp, s_DSCMinted>>

giveUp ==
  /\ script # "handed over" /\ ~givenUp
  /\ givenUp' = TRUE
  /\ UNCHANGED <<ledger, owner, script, s_DSCMinted>>

-----------------------------------------------------------------------------
(* The engine's calls of the coin, once it is there: mintDSC, and _burnDsc *)
(* on behalf of one account with the coins of another.                     *)

EngineLive == script \in {"engine", "handed over"}

mintDSC(u, n) ==
  /\ EngineLive
  /\ s_DSCMinted[u] + n <= MaxUint
  /\ mint(Engine, u, n)
  /\ s_DSCMinted' = [s_DSCMinted EXCEPT ![u] = @ + n]
  /\ UNCHANGED <<script, givenUp>>

burnDsc(n, onBehalfOf, dscFrom) ==
  /\ EngineLive /\ n > 0
  /\ s_DSCMinted[onBehalfOf] >= n
  /\ CanTransferFrom(ledger, Engine, dscFrom, Engine, n)
  /\ onlyOwner(Engine)
  /\ ledger' = Burn(TransferFrom(ledger, Engine, dscFrom, Engine, n), Engine, n)
  /\ s_DSCMinted' = [s_DSCMinted EXCEPT ![onBehalfOf] = @ - n]
  /\ UNCHANGED <<owner, script, givenUp>>

(* A slip to compare with: the deployer uses the coin while the script is  *)
(* under way.                                                              *)
Own_early(c) ==
  /\ Supply(c) \/ Ownership(c)
  /\ UNCHANGED <<script, givenUp, s_DSCMinted>>

(* What only an owner can do is left to the script until it is given up.   *)
Own(c) ==
  /\ givenUp
  /\ Supply(c) \/ Ownership(c)
  /\ UNCHANGED <<script, givenUp, s_DSCMinted>>

(* What anybody can do.  The engine does nothing of it. *)
Use(c) ==
  /\ \/ Wallet(c) \/ Allowance(c)
     \/ \E n \in Amounts, from \in Accounts : burnFrom(c, from, n)
  /\ UNCHANGED <<script, givenUp, s_DSCMinted>>

-----------------------------------------------------------------------------
Script == newEngine \/ handOver

EngineCalls ==
  \E n \in Amounts, u \in Accounts \ {Engine} :
    \/ mintDSC(u, n)
    \/ \E dscFrom \in Accounts \ {Engine} : burnDsc(n, u, dscFrom)

Others == \E c \in Accounts \ {Engine} : Own(c) \/ Use(c)

DeployNext == Script \/ giveUp \/ EngineCalls \/ Others

DeploySpec == DeployInit /\ [][DeployNext]_deployVars

-----------------------------------------------------------------------------
(* What DSCEngine takes for granted of its coin holds once the script is   *)
(* through, whoever called what between its transactions and wherever it   *)
(* stood still: the engine owns the coin, for good, and every coin is owed *)
(* to it.  Given up, and finished by hand, it need not be so.              *)
DeployedCoinIsOwed ==
  script = "handed over" =>
    owner = Engine /\ ledger.totalSupply <= Total(s_DSCMinted, Accounts)

(* A deployment cut off may leave coins that nobody owes, minted by the    *)
(* deployer past the engine.  Whenever and by whomever the coin is given   *)
(* to the engine in the end, that is over: nobody takes the coin back, and *)
(* no call of anybody adds to the coins that are not owed (mint's and      *)
(* burn's onlyOwner with transferOwnership, mintDSC and _burnDsc).         *)
HandOverIsFinal ==
  [][owner = Engine =>
       /\ owner' = Engine
       /\ ledger'.totalSupply - ledger.totalSupply
            <= Total(s_DSCMinted', Accounts) - Total(s_DSCMinted, Accounts)]_deployVars
=============================================================================
