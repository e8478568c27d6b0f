# foundry-stablecoin: specification, model checking and proofs

TLA+ beside the code of this repository: a stable coin (DSC), the engine that
mints it against collateral, the oracle library the engine reads prices
through, their deployment and their fuzz suite; and the programs the vendored
OpenZeppelin tree brings along, whose generated libraries and maintenance
scripts are the repository's only JavaScript. Paths below are relative to the
repository root, which `PROJECT.json` calls `src/`; `oz/` stands for
`lib/openzeppelin-contracts/`.

## 1. The system

| Part | Code | State | Operations |
|---|---|---|---|
| Engine | `src/DSCEngine.sol` | deposits per user and token, debt per user, price feed per token, list of tokens (the last two fixed by the constructor), the reentrancy lock | `depositCollateral`, `mintDSC`, `depositCollateralAndMintDSC`, `burnDSC`, `redeemCollateral`, `redeemCollateralForDSC`, `_redeemCollateral` (public), `liquidate`, getters |
| Engine arithmetic | `getUsdValue`, `getTokenAmountFromUsd`, `_calculateHealthFactor`, `liquidate` 223-226 | none | pure functions of an answer and amounts |
| Coin | `src/DecentralizedStableCoin.sol` | balances, allowances, supply, owner | `mint`, `burn` (owner only), and what it inherits: `burnFrom`, `transfer`, `transferFrom`, `approve`, `increaseAllowance`, `decreaseAllowance`, `transferOwnership`, `renounceOwnership` |
| Collateral tokens | OpenZeppelin `ERC20` (mocks on Anvil, WETH/WBTC elsewhere) | balances, allowances, supply | the ERC20 calls |
| Oracle | `src/libraries/OracleLib.sol` over a Chainlink feed (`test/mocks/MockV3Aggregator.sol` in the tests) | the latest round: answer, timestamp, the round it was answered in | publish a round, open a round, time passes; `staleCheckLatestRoundData` reads |
| Reentrancy lock | OpenZeppelin `ReentrancyGuard` | `_status` | enter, leave |
| Deployment | `script/DeployDSC.s.sol`, `script/HelperConfig.s.sol` | what has been created, the coin's owner | create the coin, create the engine, hand over ownership: three transactions |
| Fuzz suite | `test/fuzz/Handler.t.sol`, `InvariantsTest.t.sol` | users that have deposited, mint counter | bounded `depositCollateral`, `mintDsc`, `redeemCollateral` |
| Enumerable containers | `oz/scripts/generate/templates/EnumerableSet.js`, `EnumerableMap.js`, `conversion.js` and the mocks' templates | an array, an index into it, values | `add`, `remove`, `set`, `contains`, `length`, `at`, `values`, `tryGet`, `get` |
| Checkpoints | `oz/scripts/generate/templates/Checkpoints.js`, `CheckpointsMock.js` | a sequence of checkpoints | `push`, `latest`, `latestCheckpoint`, `lowerLookup`, `upperLookup`, `getAtBlock`, `getAtProbablyRecentBlock` |
| Safe casts | `oz/scripts/generate/templates/SafeCast.js`, `SafeCastMock.js` | none | four casts for each width |
| Gas report comparison | `oz/scripts/checks/compareGasReports.js` | none | compare two reports, display the rows |
| Import migration | `oz/scripts/migrate-imports.js` | the source files | list them, rewrite each |
| Inheritance check | `oz/scripts/checks/inheritance-ordering.js` | a graph of contracts | add a chain of bases, look for conflicts |

**How they interact.** A user's call on the engine is one transaction. Within
it the engine calls `transferFrom`/`transfer` on a collateral token,
`mint`/`transferFrom`/`burn` on the coin (which it owns), and reads one feed
per listed token through `OracleLib`; anything that fails reverts the whole
transaction. Users also call the tokens and the coin directly, and the feeds
change between transactions; the engine sees neither. A token with hooks hands
control to its holder or receiver in the middle of an engine call; the lock is
all that stands in the way of another call then, and `_redeemCollateral` does
not take it. The deployer's script makes the coin, the engine and the coin's
new owner in three transactions with anybody's calls in between. The fuzz
suite's handler calls the engine for senders it picks. The JavaScript parts do
not meet the engine: the template programs write Solidity libraries, and what
is specified of them is what the contract they write does; the scripts read
and write files.

**What is hard.** The interleaving of whole transactions of several accounts
with price moves; calls within calls, and reverts within those; composed token
calls on ledgers whose `unchecked` blocks rely on a global fact; roundings and
the width of integers; a price that is stale, zero or negative; books
(deposits, debts) kept apart from what the engine and the coin really hold; a
deployment or a migration cut off halfway; an index that must follow an array
through swaps; a search that takes a short cut.

**What makes each part correct.**
- *Engine*: it can pay out every deposit; every coin is somebody's debt; what
  was given to it stays; health is lost only where a withdrawal takes it; a
  liquidation is deserved, helps, and takes no more than debt plus bonus; no
  debt moves on a stale price. With calls within calls: one guarded call at a
  time, no debt moves while it waits, and the books are backed all along.
- *Arithmetic*: roundings favour the protocol, a rounded health factor never
  misleads a comparison, a negative answer reverts.
- *Coin*: the supply is the sum of the balances whatever is called; renouncing
  ends minting; once deployed it is the engine's and every coin is owed to it;
  a deployment cut off and finished by hand is final too.
- *Oracle*: what went stale stays so until something is published; a silent
  feed is refused in the end.
- *Fuzz suite*: what it asserts is true in every state it can reach, and its
  mints are never passed over as reverts.
- *Containers*: a set and a dictionary, however they are read.
- *Checkpoints*: every lookup finds what was written, and the past is settled.
- *Scripts*: a migration can be repeated after being cut off; a comparison of
  reports treats both alike; contracts called consistent can be put in order.

## 2. Modules

| Module | Models | State and actions |
|---|---|---|
| `UInt256` | Solidity's `uint256` | `MaxUint` is a constant; checked arithmetic is a guard `<= MaxUint`, unchecked arithmetic and `uint256(int256)` wrap |
| `Totals` | sums over a finite set | defined as a cardinality, so that the library's theorems about cardinality apply (no recursion) |
| `ERC20` | OpenZeppelin's `ERC20` and `ERC20Burnable` | a ledger is a value; `CanTransfer` is the guard of `_transfer`, `Transfer` the ledger it leaves, and so on. `Transfer` and `Mint` keep the wrap-around of the `unchecked` blocks |
| `DecentralizedStableCoin` | the coin on its own | `ledger`, `owner`; one action per external function, by any account |
| `DeployDSC` | the coin while it is deployed | the above and how far the script is (`script`, `givenUp`), the engine's `s_DSCMinted`; `newEngine`, `handOver`, `giveUp`, the engine's mints and burns, everybody's calls |
| `OracleLib` | one feed and `staleCheckLatestRoundData` | `latest` (answer, whether it has a timestamp, whether its round is behind, its age), `published` (history); the feed's three updates, `openRound`, `Tick`; `Readable` is the check |
| `Valuation` | the engine's arithmetic | pure operators; `...Fits` says the checked arithmetic does not revert |
| `DSCEngine` | the deployed system | `s_collateralDeposited`, `s_DSCMinted`, `collateral` (a ledger per token), `dsc` (the coin's ledger), `feed` (what each feed reads, or `NoAnswer` for a revert) |
| `DSCEngineSteps` | the same, cut open where a token hands over control | adds `_status`, `stack` (a frame per open call with the state a revert gives back) and `reentered`; `...Call`, `...Return`, `revert` |
| `Handler` | the fuzz suite over `DSCEngine` | adds the senders that have deposited; `fuzzDeposit`, `fuzzMint`, and the bound of the withdrawal that never happens |
| `Conversion`, `EnumerableSet`, `EnumerableMap` | the generated libraries, for each pair of types | a container is a value: `_values` and `_indexes`, or `_keys` and `_values`; an operator per function |
| `EnumerableSetMock`, `EnumerableMapMock` | the generated mocks | `_set` or `_map`, and the event of the last call; `addElement`, `setEntry`, ... |
| `FiniteCollection`, `Dictionary` | what the two promise | a set, a function with a finite domain |
| `SafeCast` | the generated casts | operators over the number of bits |
| `Checkpoints`, `CheckpointsMock` | the generated library and its two kinds of mock; a binary search is a function of the bounds it has reached | `_totalCheckpoints`, the block, what the last push returned, and `written` for reference; `pushNow`, `pushOp`, `push`, `Mine` |
| `CompareGasReports` | `Report.compare` and the rows displayed in either style | operators; rows are a set; sums are those of `Totals` |
| `MigrateImports` | the migration | operators; a source file is the sequence of its imports; `Shift` is a turn of the loop that lists files, `Visit` one of the loop that rewrites them, and `MainUntil` is a run killed between two files |
| `InheritanceOrdering` | the check of contract ordering | `graph`, `linearized`; `visit` |
| `MC...` | the same for TLC | values for the constants, symmetry of users; `MCAlgorithms` holds the pure algorithms, one state per choice of arguments |
| `..._proofs` | theorems and lemmas | see section 4 |

`DSCEngine` composes `ERC20` (twice: the tokens and the coin) and `Valuation`.
An action stands for a call that succeeds: its guard is the conjunction of
every check on the way, in the engine, in the coin and in the tokens, and its
effect is that of the whole transaction. Within one transaction the ledgers
are threaded through: `BurnDsc` burns from `Taken`, the ledger that
`transferFrom` has left. A call that reverts leaves no trace and has no step.
The coin's owner is the engine from the first state on, so of the coin's
owner-only calls only those the engine makes occur; `DeployDSC` says why that
may be assumed and `DecentralizedStableCoin` has them all. `redeemCollateral`
and `redeemCollateralForDSC` pass through `nonReentrant` twice, so they always
revert and have no step.

`DSCEngineSteps` takes the tokens to be like the vendored `ERC777`: the holder
is called before a deposit is taken and the receiver after collateral is paid
out. At those two places a call is split in a `...Call` and a `...Return`, and
in between anybody's calls are steps, to a depth of `MaxFrames`. `revert` ends
the innermost call, for whatever reason, and gives back what its frame saved,
the lock included. A transaction that nobody re-enters is one step of
`DSCEngine` (`SeenFromOutside`, which instantiates `DSCEngine` with the state
before the outermost open call). One that is re-entered need not be: an inner
`_redeemCollateral` falls between the two halves of the outer call.

`feed` is arbitrary: at any moment a feed may read any of `Answers` or
`NoAnswer`. `OracleLib` shows what lies behind one such reading. Every
behaviour of a feed through `OracleLib` is one of those, so what holds here
holds with any feed.

In `DeployDSC` the deployer keeps to the script until it is given up; then it
does whatever an owner can. Of the engine there is only what it does with the
coin, any account being charged for any amount: more than `DSCEngine` allows.

The containers' modules specify the contract a template generates, for the
types `keyType`, `valueType` and `type` name. Words and addresses are numbers
of two widths, so that a conversion to an address does cut bits off.

Operators whose comment begins "A slip to compare with" are variants of the
definition beside them that no specification uses: each breaks one property,
which shows the property is sensitive to it.

## 3. What is checked

| Run | Question | Bounds |
|---|---|---|
| `deploy` | Do the coin's books balance under every call of every account while it is deployed and after, is it the engine's in the end with every coin owed, is that final also where the script was cut off and finished by hand, and is renouncing final? | deployer, engine and a user, `MaxUint` = 2, amounts 0-2, so that wrap-around and the infinite allowance are within reach |
| `oracle` | Does an expired answer stay expired, and is a silent feed refused in the end? | `TIMEOUT` 8, blocks 1 or 4 apart, timestamps up to `TIMEOUT` in the future |
| `algorithms` | Do the engine's roundings favour the protocol, do casts keep the number or revert, are reports compared alike, and does a migration interrupted between two files end where a whole one does? | prices -3..12, amounts 0..30 in 8-bit integers; all 8-bit numbers to all even widths below; reports of one contract or one method with up to two samples around the base cost; two source files of up to two imports and every row of the table |
| `liquidation` | Is health lost only by a withdrawal, is every liquidation on terms, and is every coin owed? | 2 users, 1 token, debts 1 and 4, prices 1 and 2, stale, 0 and -1, coins sent between users: an account with a debt of 5 is liquidated in part, by the other user or by itself. Whole liquidations (which take a deposit worth next to nothing, since the health factor has to round to zero) and liquidators who are broken themselves are not reached; `LiquidationsAreOnTerms` and `HealthIsLostToWithdrawals` of section 4 are about every liquidation there is |
| `two_tokens` | Are two tokens' books apart, is what the engine was given kept, and does one stale feed stop every debt? | 1 user, 2 tokens with a feed each and the same answers, allowances to the user and the engine, gifts of tokens and coins |
| `steps` | With tokens that call back: is there one guarded call at a time, do debts wait for it, are the books backed in the middle of it, and is a transaction nobody re-enters one step of the engine? | 2 users, 1 token, calls two deep, each ending well or reverting |
| `handler` | Does the fuzz suite's assertion hold in every state the suite can reach, and does it pass over none of its mints? | 2 senders, 2 tokens, constant prices 1-3 each, up to 7 of a token |
| `enumerable` | Do array and index stay consistent, do all ways of reading agree, and are the contracts a dictionary and a set? | words 0..2, addresses 0..1, a map from `uint256` to `address` and a set of `uint256`: three keys are enough for a word to be moved by a removal and removed afterwards |
| `checkpoints` | Do all lookups find what was written, is the past settled, and does a push return what it replaced? | 3-bit keys and 1-bit values, up to 7 blocks or keys written: the probing search starts with six |
| `underwater`, `withdrawal`, `ordering` | see "Disagreements" | 2 users, 1 token; 3 contracts with up to 3 bases |

The engine's numbers are scaled down together: `PRECISION` 4,
`ADDITIONAL_FEED_PRECISION` 2, threshold and bonus one half, 7-bit integers
(in `handler` one half is 2 of 4, since a threshold is at least 2 there, and 8 bits).
The scale keeps what matters of the real one: a price drop of one step takes
an account from healthy to a health factor of zero and of between zero and
`MIN_HEALTH_FACTOR`, each division rounds somewhere, and a negative answer
overflows. Bounds: `SupplyBound` stops minting, `Endowment` is all a user has
of a token, `CollateralBound` all the suite mints of one, `LastBlock` ends the
chain, `MaxFrames` the depth of calls, the sets of amounts are named
constants. No other counter grows. `_redeemCollateral` is called for every
pair of accounts, the zero address and the engine included. Users are
symmetric where no constant tells them apart.

Deadlock is checked except in three runs. In `handler` everything can have
been minted and deposited, and prices do not move: the suite then has nothing
to do. In `checkpoints` the chain stops at `LastBlock`, and block numbers no
longer fit a key before that; a Trace whose last key is the largest still takes
pushes, a History does not. In `ordering` every contract has been visited.

**Fairness.** Only `OracleLib` has any: weak fairness of `Passing`, the clock,
because blocks keep coming whatever anyone does. Nothing makes a feed publish,
nothing makes a user call, and nothing makes a script go on.

**Disagreements.** Three runs end in a counterexample, each to a sentence of
the repository:

| Run | The sentence | What the code does |
|---|---|---|
| `underwater` | `DSCEngine.sol:315` "If a user goes below a health factor of 1 , then they can be liquidated" | the health factor, scaled by 1e18, is compared with 1 at line 219, which refuses the liquidation |
| `withdrawal` | `DSCEngine.sol:261` "Private & Internal Functions" | `_redeemCollateral` is public and checks no health |
| `ordering` | `inheritance-ordering.js:31` "We are only interested int cycles of lengths 2 (needs proof)" | three contracts whose chains contradict each other in a circle are reported as consistent |

Reading alone shows four more, which are left without a run. Three add nothing
to those: the same constant makes `mintDSC` let through far more than
"200% overcollateralized" (`DSCEngine.sol:68`); the check after a burn is
reached (`DSCEngine.sol:199` "I dont think this is ever hit??") when an account
broken by a price drop repays in part; deposits and `_redeemCollateral` go on
while a price is stale (`OracleLib.sol:10` "render the DSCEngine unusable").
The fourth is in a script that is not modelled: `update-docs-branch.js:42`
compares two minor versions as strings, so with 4.9 published a release 4.10
is refused as older ("newer version is published").

## 4. What is proved

For every value of the constants that meets the modules' assumptions: any
finite set of accounts, any tokens, feeds, answers and amounts, any width of
the integers, any bound on the supply, any depth of calls.

- `Arithmetic_proofs`: a sum is a natural number, changes by what one entry
  changes by, is monotonic, bounds each of its entries and any two of them; a
  *sound* ledger (typed and conserved) stays sound under transfer, mint, burn,
  approval and their `...From` forms, so the unchecked blocks do not wrap; what
  each does to balances, supply and allowances; and the engine's arithmetic,
  `NegativeAnswersRevert`, `HealthComparesExactly`, `RoundTripNeverGains`,
  `SeizureIsBounded`, stated of the operators for every price and amount.
- `DeployDSC_proofs`: of the coin on its own `TypeCorrect`, `SupplyConserved`,
  `RenouncingEndsMinting`. The inductive invariant is that the ledger is sound:
  neither the types nor the conservation is inductive alone, since the
  unchecked addition stays in range only because two balances together are at
  most the supply. Of its deployment `DeploymentHandsOver`,
  `HandOverSettles`, `DeployedSupplyConserved`: the inductive invariant `DInv` adds that the script
  and the flag `givenUp` fit together and that, as long as the script is not
  given up, the owner is the one the script has reached and the supply is at
  most the debts. Before the engine is there that says there are no coins at all.
  `HandOverSettles` is about the deployments that leave the track as well:
  whatever the deployer has minted, once the engine has the coin each step
  keeps the owner and adds at least as much to the debts as to the coins
  (`EngineKeeps`).
- `DSCEngine_proofs`: `TypeCorrect`, `EngineIsSolvent`, `CoinsAreOwed`,
  `DonationsAreKept`, `StalePricesFreezeDebt`, `LiquidationsAreOnTerms`,
  `HealthIsLostToWithdrawals`. The inductive invariant `IInv`
  adds to types, solvency and owed coins that every ledger is sound and that
  the engine gives nobody an allowance on its own tokens or coins: without the
  latter a `transferFrom` by a user could take what backs the deposits. The
  proof is by groups of actions (`Borrow`, `Repay`, `Liquidate`, `HoldTokens`,
  `HoldCoins`, `FeedsMove`), each resting on lemmas about a deposit, a
  withdrawal, a mint and a burn. Solvency is kept because every change of
  deposits comes with the same transfer; a withdrawal to the engine itself
  leaves the balance and lowers the deposits. `LiquidationsAreOnTerms` shows
  that no other call lowers a debt and a deposit together, and takes the bound
  from `SeizureIsBounded`. `HealthIsLostToWithdrawals` needs, beside the checks
  the calls end with, that a deposit never breaks an account: valuation and
  health grow with the collateral, and what can be valued with more can be valued with less
  (`MoreCollateralHeals`).
- `DSCEngineSteps_proofs`: `LockHolds`, `DebtsWait`, `AlwaysBacked`,
  `StepsTypeCorrect`, `TransactionsAreAtomic`. The inductive invariant
  `LockInv` is about what the frames have saved: each frame's saved lock is
  the one that goes with the frames below it, and where one of those is
  guarded its saved debts are the present ones. That is what a revert needs:
  it closes or opens the lock as the remaining frames want it, and cannot
  bring back debts a waiting guarded call has not seen. That at most one
  frame is guarded follows by the two halves of every call. `BackedInv` is
  of the same shape: the ledgers and deposits saved in a frame, and those of
  now, are sound, and back the deposits counting what is pending in the
  frames below. A frame that opens a deposit adds to the books and to what is
  pending alike, the transfer that ends it trades the one for a balance, and
  a revert finds the books it brings back already in order. The token's steps
  use the lemmas of `DSCEngine_proofs`.
  `TransactionsAreAtomic` is the refinement of `DSCEngine`: while nobody has
  re-entered, each step is a step of `DSCEngine` on the state outside the open
  call, or a stutter. A return has to be the whole call as seen from where it
  began, so the invariant `OpenInv` keeps what the first half has established:
  the stack is empty, or has one frame, and the state is the one `DSCEngine`'s
  action guards and measures (`DepositOpen`, `WithdrawalOpen`,
  `LiquidationOpen`), the liquidated account's health before the call
  included. The `Same...` lemmas say that the instance's operators are those
  of the module, the ones that read `feed` because no step of a
  call moves a price.
- `Handler_proofs`: `EverySenderIsBacked`, `AssertionHolds`,
  `NoMintIsPassedOver`. The assertion is about sums over all senders, and no
  call checks it. The inductive invariant `HInv` adds to the engine's that
  every price is an answer, that each sender alone has twice its debt and that
  the handler itself has no deposits. From there the sum is taken both ways:
  the senders' deposits together are worth at least the sum of what each one's
  are worth, since every part is rounded down, the engine holds at least the
  deposits, and every coin is owed. That no mint reverts needs bounds on top:
  what has been minted of a token bounds the deposits of any account, and its
  valuation fits.
- `EnumerableMap_proofs`: `MapTypeCorrect`, `MapStaysConsistent`,
  `ReadersAlwaysAgree`, `ListingsAlwaysAgree` and the refinements
  `MapIsDictionary`, `SetIsCollection`: the initial map is the empty
  dictionary, and each call maps to the dictionary's call of that name or to a
  stutter; likewise the set. The inductive invariant `Good` adds to array and
  index agreeing that the keys and values are words of their types, without
  which a conversion to an address would merge two of them. Dictionary and map
  are tied together by `Entries`, a function on the keys `at` lists.
- `Checkpoints_proofs`: `HistoryTypeCorrect`, `EveryLookupAgrees`,
  `ThePastIsSettled`, `EveryPushReturnsReplaced`, for histories of any length.
  A position *splits* a history at a key when the keys before it are up to the
  key and those from it on are greater; since keys increase there is exactly
  one, and `SearchFinds` shows that the binary search returns it from any
  bounds around it: a search that went wrong would do so for some narrowest
  pair of bounds, and its next step is narrower. The probing search leaves
  bounds around the position on either side of its probe. The invariant
  says that what was written, kept for reference, is what the checkpoints say
  (`Recorded`) and that no block is written before it is the present one
  (`InTime`, which settles the past).
- `Algorithms_proofs`, what needs no state of the engine. First the oracle,
  `ExpiryIsFinal`: a round that is refused and not
  merely early has no answer of its own or one past the timeout, and either is
  kept by time and by an opened round. Then every property of the `algorithms`
  run, whose one step changes nothing, so that each is a statement about all
  arguments its constants allow:
  - *The engine's arithmetic*: `RoundTripsLose`, `BonusAlwaysHolds`,
    `NegativesAlwaysFail`, `HealthAlwaysCompares`, from `Arithmetic_proofs`.
  - *Casts*: `CastsAreAlwaysExact`, between any two widths. A number that the
    narrower type has is cut to itself; one that it does not have fails the
    comparison, with the type's bounds or with what the cut has left.
  - *Reports*: `ComparisonsMirror` and `RegressionsAreShown`, of any two
    well-formed reports (samples are natural numbers, a method has as many as
    it has calls, and none has the name of a row the script makes up), and
    `ReportsAreAlwaysFair` of those of the run. A comparison the other way
    round is mirrored row by row (`RowsMirror`): both decide alike which
    contracts and methods have one, and every cell's change is negated, so the
    filter of unchanged rows keeps the same ones. No gain is shown where no
    sample fell because least, greatest and rounded average grow with the
    samples (`StatisticsGrow`).
  - *Migration*: `EverySourceMigrates` of any source and
    `EveryMigrationResumes` of any tree, any arguments and any files, and of
    the instances of the run `TableAlwaysLeadsOut`, `MigrationsAlwaysResume`. All
    rest on one fact about the table, that no path is moved to two places and
    none leads to where another leads away from (`TableLeads`). It is proved of
    the table as written, row group by row group. The loop over the table keeps
    that each import is unchanged or its successor, and that of each kind the
    first has moved (`Applied`, `UpdateIs`); so a second run finds nothing to do
    unless a file imports a path twice (`UpdateOnce`). The loop over the files
    keeps that the files listed as updated are those that have changed
    (`VisitAccounts`): a file that comes twice and is written twice never
    changes back. What is killed and started again therefore ends where one
    run would.

**Assumptions.** Each is named and stands in the module that declares the
constants; TLC evaluates it in the runs. Beyond the types of the constants
they ask for: finitely many accounts, the zero address not among them, and a
supply that fits at the outset (`AccountsAssumption`, `InputsAssumption`); a
precision above 1 and a threshold of at most the whole (`ScaleAssumption`);
that the powers of two that bound a key and a value are positive
(`PowerAssumption`, arithmetic the provers are told nothing of), and likewise
that up to the widest type of a cast each power of two is twice the one before
(`PowersAssumption`); that prices are `int256` and amounts `uint256` of whatever width, and samples
are natural numbers (`CasesAssumption`); and for the
suite, what its `setUp` deploys, a feed for every token and a threshold of at
least 2 (50 in the code), and that the value of all collateral it mints is far
from the width of the integers (`SetUpAssumption`, `RoomAssumption`): in the code
amounts of up to 2^96, at most some hundred calls, times prices of 10^21 and
scales of 10^18, against 2^256.

**What the proofs corrected.** `Borrow` once asked for a token to exist before
anyone could mint, which is no condition of `mintDSC`; `TransactionsAreAtomic` was
false for a system without tokens, and `DSCEngine` has been corrected. The walk over the directories and the two loops of the
migration were RECURSIVE operators, of which the prover says nothing; they are
functions now of how often a loop has turned. `SetUpAssumption`
came of `EverySenderIsBacked`: the suite's handler turns the value of an
account into an `int256`, and only because the engine has multiplied that
value by a threshold of at least 2, checked, does it keep its sign.

**Model-checked only**: `SilenceFreezes` of `OracleLib`, which is liveness and
beyond the prover, and the three runs that end in a counterexample. That the
walk over the directories is through after `Turns` turns is argued in its
comment, from the tree being one; `EveryMigrationResumes` does not depend on it.
Library theorems that take an operator as a parameter, induction on the natural
numbers among them, cannot be used with these provers. Where a proof needs
induction it takes a smallest counterexample instead (`SmallestMember`), and
where a loop is a recursive function it first shows that a function defined
step by step exists (`Iteration`), so that the function meets its equation.

## 5. Not modelled

- *Which error a call reverts with*: a reverted call is not a step, or one
  `revert` for every reason. `console.log` and the engine's events are left
  out.
- *Tokens that are neither OpenZeppelin ERC20s nor ones with hooks*
  (returning false, fees on transfer), and the public `mint`/`burn` of the
  test mock. The coin itself is not one of the collateral tokens.
- *Gas.* The getters, which only read.
- *HelperConfig*: it picks addresses by chain; its Anvil branch is what the
  engine's specification starts from, with the arrays of equal length the
  constructor insists on. *The unit tests*: single scenarios.
- `DSCEngine.sol` 254-259, a private function nothing calls.
- *The fuzz suite's price call*, which is commented out, and its getters.
- *The generators' own work*: templates are put together and written out;
  what is specified is the contract that comes of it. The version table of
  `SafeCast.js` is documentation.
- *A migration killed in the middle of writing one file*: what `fs.writeFile`
  leaves then is up to the file system. *A path to migrate that does not
  exist*: the script fails while it lists the files, before it writes any.
- *The layout of the gas tables*, reading the reports and the command line.
- *Other scripts and configuration* (`hardhat.config.js`, `jest.config.js`,
  `scripts/generate/run.js`, `update-docs-branch.js`, the other helpers):
  settings, and shell commands run one after the other.

`DecentralizedStableCoin.sol:42` makes the engine "responsible for the minting
and burning" of the coin, but `burnFrom` is inherited for anyone with an
allowance. It is modelled, in every module that has the coin; `SupplyIsOwed`
is an inequality because of it.

## 6. Plan

Done: the engine as transactions and cut open at its callbacks, the coin and
its deployment, the oracle, the fuzz suite, the generated libraries, the
scripts, and the proofs above. What is left, in order:

1. Runs of `DSCEngine` with a token listed twice, a zero feed, and amounts
   around the overflow of a valuation; the least debt a liquidation can cover.
2. Whether a health factor is lost only by withdrawals also with calls within
   calls.
