----------------------------- MODULE MCAlgorithms -----------------------------
(* The pure algorithms for TLC: every choice of arguments is a state.      *)
EXTENDS Valuation, SafeCast, CompareGasReports, MigrateImports

CONSTANTS
  Prices, Quantities,   \* for the engine's arithmetic
  WordBits,             \* for the casts: the widest type
  Samples               \* for the reports: gas above and below the base

ASSUME CasesAssumption ==
  /\ Prices \subseteq Int256 /\ Quantities \subseteq UInt
  /\ WordBits \in Nat \ {0}
  /\ Samples \subseteq Nat

(* Which the provers, who are told nothing of ^, cannot know. *)
ASSUME PowersAssumption ==
  \A bits \in 1 .. WordBits : 2^(bits - 1) \in Nat \ {0} /\ 2^bits = 2 * 2^(bits - 1)

VARIABLE args

(* The engine's arithmetic. *)
Quotes == -3 .. 12
Sizes  == 0 .. 30

ValuationArgs == [of : {"Valuation"}, price : Prices, amount : Quantities, usd : Quantities]

(* Casts of every number of the widest types to every narrower type.       *)
Numbers == int(WordBits, 2^(WordBits - 1)) .. maxUint(WordBits)

CastArgs == [of : {"SafeCast"}, bits : range(2, WordBits, 2), value : Numbers]

(* Reports of one contract and one method, either of them missing at times. *)
Costs == {<<>>} \cup {<<a>> : a \in Samples} \cup {<<a, b>> : a, b \in Samples}

MethodTables ==
  {<<>>} \cup {[key \in {<<"C", "f()">>} |-> [numberOfCalls |-> Len(costs), gasData |-> costs]] : costs \in Costs}

DeploymentTables ==
  {<<>>} \cup {[contract \in {"C"} |-> [digits |-> d, gasData |-> costs]]
                : d \in {4, 6}, costs \in {c \in Costs : Len(c) < 2}}

Reports ==
  {[metadata |-> m, deployments |-> <<>>, methods |-> t] : m \in {"0.8.19", "0.8.20"}, t \in MethodTables}
    \cup {[metadata |-> "0.8.19", deployments |-> t, methods |-> <<>>] : t \in DeploymentTables}

ReportArgs == [of : {"CompareGasReports"}, update : Reports, ref : Reports]

(* Two paths the table moves to one place, one of them also in the         *)
(* upgradeable package; where they go; a path that stays.                  *)
Imports ==
  { Import("contracts", At("payment", "PaymentSplitter")), Import("contracts", At("utils", "PaymentSplitter")),
    Import("contracts", At("finance", "PaymentSplitter")), Import("contracts", At("token/ERC20", "ERC20")),
    Import("contracts-upgradeable", getUpgradeablePath(At("proxy", "Initializable"))) }

Sources == {<<>>} \cup {<<a>> : a \in Imports} \cup {<<a, b>> : a, b \in Imports}

(* contracts/A.sol, contracts/sub/B.sol and contracts/sub/notes.md *)
Tree ==
  [f \in {"contracts", "A.sol", "sub", "B.sol", "notes.md"} |->
     [isFile |-> f \notin {"contracts", "sub"},
      isSol  |-> f \in {"A.sol", "B.sol"},
      names  |-> CASE f = "contracts" -> <<"A.sol", "sub">>
                   [] f = "sub"       -> <<"B.sol", "notes.md">>
                   [] OTHER           -> <<>>]]

Checkouts ==
  {[A |-> a, B |-> b] : a \in Sources, b \in {s \in Sources : Len(s) = 2}}

MigrationArgs == [of : {"MigrateImports"}, files : Checkouts]

(* A name that moves from every row of the table. *)
TableArgs == [of : {"pathUpdates"}, entry : DOMAIN pathUpdates]

CasesInit == args \in ValuationArgs \cup CastArgs \cup ReportArgs \cup MigrationArgs \cup TableArgs

CasesNext == UNCHANGED args

CasesSpec == CasesInit /\ [][CasesNext]_args

-----------------------------------------------------------------------------
(* Valuation's properties, of getUsdValue, getTokenAmountFromUsd, the      *)
(* seizure in liquidate and _calculateHealthFactor, at every state.        *)
RoundTrips    == args.of = "Valuation" => RoundTripLoses(args.price, args.amount, args.usd)
BonusHolds    == args.of = "Valuation" => BonusBounded(args.price, args.usd)
NegativesFail == args.of = "Valuation" => NegativeReverts(args.price, args.amount)
HealthCompares ==
  args.of = "Valuation" => \A h \in 0 .. 8 : HealthIsComparable(args.usd, args.amount, h)

(* A cast keeps the number or reverts, and reverts only on a number the    *)
(* type does not have (toUintDown, toIntDown, toInt, toUint of SafeCast).  *)
CastsAreExact == args.of = "SafeCast" => CastIsExact(WordBits, args.bits, args.value)

(* Antisymmetric and RegressionsShow, of every two reports.                *)
ReportsAreFair ==
  args.of = "CompareGasReports" =>
    Antisymmetric(args.update, args.ref) /\ RegressionsShow(args.update, args.ref)

(* MigrationResumes on every checkout, listed once or, by overlapping      *)
(* arguments, twice; and SourceMigrates on each file.                      *)
MigrationsResume ==
  args.of = "MigrateImports" =>
    LET files == [f \in {"A.sol", "B.sol", "notes.md"} |->
                    IF f = "A.sol" THEN args.files.A ELSE args.files.B]
    IN  /\ SourceMigrates(args.files.A)
        /\ MigrationResumes(Tree, <<"contracts">>, files)
        /\ MigrationResumes(Tree, <<"contracts", "sub">>, files)

(* SourceMigrates on every path of the table, in either package.           *)
TableLeadsOut ==
  args.of = "pathUpdates" =>
    \A p \in {"contracts", "contracts-upgradeable"} :
      SourceMigrates(<<Import(p, [pathUpdates[args.entry][1] EXCEPT !.upgradeable = (p # "contracts")])>>)
=============================================================================
