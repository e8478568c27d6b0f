-------------------------------- MODULE ERC20 --------------------------------
(***************************************************************************)
(* The ledger of an OpenZeppelin 4.8.3 ERC20 token, as a value.  A Can...  *)
(* operator holds when the call of that name does not revert; the operator *)
(* beside it is the ledger the call leaves.  A contract that makes several *)
(* token calls in one transaction composes them.                           *)
(*                                                                         *)
(* Solidity's `unchecked` blocks wrap around, and are modelled so: that    *)
(* they never do is a theorem about the ledger, not an assumption.         *)
(***************************************************************************)
EXTENDS UInt256, Totals

CONSTANTS
  Accounts,      \* the addresses that can hold tokens or call
  ZeroAddress    \* address(0)

ASSUME AccountsAssumption == IsFiniteSet(Accounts) /\ ZeroAddress \notin Accounts

Ledger == [balances    : [Accounts -> UInt],
           allowances  : [Accounts -> [Accounts -> UInt]],
           totalSupply : UInt]

EmptyLedger == [balances    |-> [a \in Accounts |-> 0],
                allowances  |-> [a \in Accounts |-> [b \in Accounts |-> 0]],
                totalSupply |-> 0]

(* A slip to compare with: both balances are read before either is written.*)
Transfer_readFirst(l, from, to, n) ==
  [l EXCEPT !.balances = [l.balances EXCEPT ![from] = l.balances[from] - n,
                                            ![to]   = l.balances[to] + n]]

(* _transfer: the two writes happen one after the other, so a transfer to  *)
(* oneself reads back the balance that was just written.                   *)
CanTransfer(l, from, to, n) == to # ZeroAddress /\ l.balances[from] >= n

Transfer(l, from, to, n) ==
  LET debited  == [l.balances EXCEPT ![from] = Wrapped(@ - n)]
      credited == [debited EXCEPT ![to] = Wrapped(@ + n)]
  IN  [l EXCEPT !.balances = credited]

(* A slip to compare with: the supply is not checked either. *)
CanMint_unchecked(l, to, n) == to # ZeroAddress

(* _mint: the supply is checked for overflow, the balance is not. *)
CanMint(l, to, n) == to # ZeroAddress /\ l.totalSupply + n <= MaxUint

Mint(l, to, n) == [l EXCEPT !.totalSupply  = @ + n,
                            !.balances[to] = Wrapped(@ + n)]

(* _burn *)
CanBurn(l, from, n) == l.balances[from] >= n

Burn(l, from, n) == [l EXCEPT !.balances[from] = Wrapped(@ - n),
                              !.totalSupply    = Wrapped(@ - n)]

(* _approve *)
CanApprove(spender) == spender # ZeroAddress

Approve(l, holder, spender, n) == [l EXCEPT !.allowances[holder][spender] = n]

(* _spendAllowance: the largest allowance is infinite and is not spent. *)
CanSpend(l, holder, spender, n) == l.allowances[holder][spender] >= n

Spend(l, holder, spender, n) ==
  IF l.allowances[holder][spender] = MaxUint
    THEN l
    ELSE Approve(l, holder, spender, l.allowances[holder][spender] - n)

(* transferFrom *)
CanTransferFrom(l, spender, from, to, n) ==
  CanSpend(l, from, spender, n) /\ CanTransfer(l, from, to, n)

TransferFrom(l, spender, from, to, n) ==
  Transfer(Spend(l, from, spender, n), from, to, n)

(* ERC20Burnable.burnFrom *)
CanBurnFrom(l, spender, from, n) == CanSpend(l, from, spender, n) /\ CanBurn(l, from, n)

BurnFrom(l, spender, from, n) == Burn(Spend(l, from, spender, n), from, n)

(* increaseAllowance (checked addition) and decreaseAllowance *)
CanIncrease(l, holder, spender, n) ==
  CanApprove(spender) /\ l.allowances[holder][spender] + n <= MaxUint

Increase(l, holder, spender, n) ==
  Approve(l, holder, spender, l.allowances[holder][spender] + n)

CanDecrease(l, holder, spender, n) == CanApprove(spender) /\ CanSpend(l, holder, spender, n)

Decrease(l, holder, spender, n) ==
  Approve(l, holder, spender, l.allowances[holder][spender] - n)

(* The ledger balances its books: the supply is what the holders hold.     *)
(* OpenZeppelin's comments rest the unchecked additions on this fact.      *)
Conserved(l) == l.totalSupply = Total(l.balances, Accounts)
=============================================================================
