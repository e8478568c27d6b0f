----------------------- MODULE DecentralizedStableCoin -----------------------
(***************************************************************************)
(* The DSC token on its own: an ERC20 ledger with an owner, every external *)
(* entry point an action of whichever account calls it.  A call that       *)
(* reverts changes nothing, so each action is enabled exactly when its     *)
(* call succeeds.                                                          *)
(***************************************************************************)
EXTENDS ERC20

CONSTANTS
  Deployer,   \* the account that runs the constructor
  Amounts     \* the amounts calls are made with

ASSUME CoinAssumption == Deployer \in Accounts /\ Amounts \subseteq UInt

VARIABLES
  ledger,     \* balances, allowances and total supply
  owner       \* Ownable._owner

vars == <<ledger, owner>>

(* An address argument may be the zero address. *)
Address == Accounts \cup {ZeroAddress}

Init == ledger = EmptyLedger /\ owner = Deployer

-----------------------------------------------------------------------------
(* Supply.  mint and burn are the owner's; burnFrom is inherited from      *)
(* ERC20Burnable as it is, for anyone with an allowance.                   *)

(* A slip to compare with: the deployer keeps the owner's rights.          *)
onlyOwner_orDeployer(caller) == owner = caller \/ caller = Deployer

onlyOwner(caller) == owner = caller

(* A slip to compare with: mint without onlyOwner. *)
mint_byAnyone(caller, to, n) ==
  /\ n > 0
  /\ CanMint(ledger, to, n)
  /\ ledger' = Mint(ledger, to, n)
  /\ UNCHANGED owner

mint(caller, to, n) ==
  /\ onlyOwner(caller)
  /\ n > 0
  /\ CanMint(ledger, to, n)
  /\ ledger' = Mint(ledger, to, n)
  /\ UNCHANGED owner

burn(caller, n) ==
  /\ onlyOwner(caller)
  /\ CanBurn(ledger, caller, n)
  /\ ledger' = Burn(ledger, caller, n)
  /\ UNCHANGED owner

burnFrom(caller, from, n) ==
  /\ CanBurnFrom(ledger, caller, from, n)
  /\ ledger' = BurnFrom(ledger, caller, from, n)
  /\ UNCHANGED owner

-----------------------------------------------------------------------------
(* Transfers and allowances. *)

transfer(caller, to, n) ==
  /\ CanTransfer(ledger, caller, to, n)
  /\ ledger' = Transfer(ledger, caller, to, n)
  /\ UNCHANGED owner

transferFrom(caller, from, to, n) ==
  /\ CanTransferFrom(ledger, caller, from, to, n)
  /\ ledger' = TransferFrom(ledger, caller, from, to, n)
  /\ UNCHANGED owner

approve(caller, spender, n) ==
  /\ CanApprove(spender)
  /\ ledger' = Approve(ledger, caller, spender, n)
  /\ UNCHANGED owner

increaseAllowance(caller, spender, n) ==
  /\ CanIncrease(ledger, caller, spender, n)
  /\ ledger' = Increase(ledger, caller, spender, n)
  /\ UNCHANGED owner

decreaseAllowance(caller, spender, n) ==
  /\ CanDecrease(ledger, caller, spender, n)
  /\ ledger' = Decrease(ledger, caller, spender, n)
  /\ UNCHANGED owner

-----------------------------------------------------------------------------
(* Ownership. *)

transferOwnership(caller, newOwner) ==
  /\ onlyOwner(caller)
  /\ newOwner # ZeroAddress
  /\ owner' = newOwner
  /\ UNCHANGED ledger

renounceOwnership(caller) ==
  /\ onlyOwner(caller)
  /\ owner' = ZeroAddress
  /\ UNCHANGED ledger

-----------------------------------------------------------------------------
Supply(c) ==
  \E n \in Amounts :
    \/ \E to \in Address : mint(c, to, n)
    \/ burn(c, n)
    \/ \E from \in Accounts : burnFrom(c, from, n)

Wallet(c) ==
  \E n \in Amounts, to \in Address :
    \/ transfer(c, to, n)
    \/ \E from \in Accounts : transferFrom(c, from, to, n)

Allowance(c) ==
  \E n \in Amounts, spender \in Address :
    \/ approve(c, spender, n)
    \/ increaseAllowance(c, spender, n)
    \/ decreaseAllowance(c, spender, n)

Ownership(c) ==
  \/ \E newOwner \in Address : transferOwnership(c, newOwner)
  \/ renounceOwnership(c)

Next == \E c \in Accounts : Supply(c) \/ Wallet(c) \/ Allowance(c) \/ Ownership(c)

Spec == Init /\ [][Next]_vars

-----------------------------------------------------------------------------
(* Every amount fits its uint256 and the owner is an address. *)
TypeOK == ledger \in Ledger /\ owner \in Address

(* The total supply is the sum of the balances, whatever calls were made   *)
(* in whatever order, transfers to oneself and additions in unchecked      *)
(* blocks included (ERC20.sol _transfer, _mint, _burn).                    *)
SupplyIsTotal == Conserved(ledger)

(* Renouncing is final: from then on nobody owns the coin again and no     *)
(* call makes the supply grow (Ownable.renounceOwnership with mint's       *)
(* onlyOwner).                                                             *)
RenouncedIsFinal ==
  [][owner = ZeroAddress =>
       owner' = ZeroAddress /\ ledger'.totalSupply <= ledger.totalSupply]_vars
=============================================================================
