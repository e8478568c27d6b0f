-------------------------- MODULE CompareGasReports --------------------------
(***************************************************************************)
(* The script that compares two gas reports.  A report is its metadata,    *)
(* the bytecode length and construction costs of each contract deployed,   *)
(* and the calls and gas samples of each method; names are the keys.  The  *)
(* rows come as a set, since their order is only the alphabet's.           *)
(***************************************************************************)
EXTENDS Integers, SequencesExt, Totals

CONSTANT BASE_TX_COST   \* 21000

ASSUME BaseAssumption == BASE_TX_COST \in Nat

sum(args) == Total(args, DOMAIN args)

(* Math.round(average(...)): halves are rounded up. *)
roundedAverage(args) == (2 * sum(args) + Len(args)) \div (2 * Len(args))

(* The percentage stays a fraction; per nothing it is not finite. *)
variation(current, previous, offset) ==
  [value |-> current, delta |-> current - previous,
   prcnt |-> [of |-> 100 * (current - previous), per |-> previous - offset]]

-----------------------------------------------------------------------------
(* Report.compare. *)

CanCompare(update, ref) == update.metadata = ref.metadata

Smallest(samples) == Min(ToSet(samples))
Largest(samples)  == Max(ToSet(samples))

(* "0x" and two digits a byte. *)
BytecodeLength(contract) == contract.digits \div 2 - 1

deployments(update, ref) ==
  LET shared == {c \in DOMAIN update.deployments \cap DOMAIN ref.deployments :
                   update.deployments[c].gasData # <<>> /\ ref.deployments[c].gasData # <<>>}
      length(c) ==
        [contract |-> c, method |-> "[bytecode length]",
         avg |-> variation(BytecodeLength(update.deployments[c]), BytecodeLength(ref.deployments[c]), 0)]
      construction(c) ==
        [contract |-> c, method |-> "[construction cost]",
         avg |-> variation(roundedAverage(update.deployments[c].gasData),
                           roundedAverage(ref.deployments[c].gasData), BASE_TX_COST)]
  IN  {length(c) : c \in shared} \cup {construction(c) : c \in shared}

(* A slip to compare with: any number of calls will do. *)
comparable_anyCalls(update, ref) ==
  {key \in DOMAIN update.methods \cap DOMAIN ref.methods :
     update.methods[key].numberOfCalls > 0 /\ ref.methods[key].numberOfCalls > 0}

(* Methods both reports call, equally often. *)
comparable(update, ref) ==
  {key \in DOMAIN update.methods \cap DOMAIN ref.methods :
     /\ update.methods[key].numberOfCalls > 0
     /\ update.methods[key].numberOfCalls = ref.methods[key].numberOfCalls}

methods(update, ref) ==
  LET varies(f(_), key) ==
        variation(f(update.methods[key].gasData), f(ref.methods[key].gasData), BASE_TX_COST)
  IN  {[contract |-> key[1], method |-> key[2],
        min |-> varies(Smallest, key), max |-> varies(Largest, key), avg |-> varies(roundedAverage, key)]
         : key \in comparable(update, ref)}

(* A cell there is not does not show a row. *)
Cells(row) == {row[c] : c \in DOMAIN row \ {"contract", "method"}}

compare(update, ref, hideEqual) ==
  {row \in deployments(update, ref) \cup methods(update, ref) :
     hideEqual => \E cell \in Cells(row) : cell.delta # 0}

-----------------------------------------------------------------------------
(* What is displayed, without the layout: a cell is three texts, the       *)
(* number, its change and the percentage, and a text of <<>> is a dash.    *)

isFinite(prcnt) == prcnt.per # 0

plusSign(num) == IF num > 0 THEN "+" ELSE ""

percentage(prcnt) ==
  IF isFinite(prcnt) THEN <<plusSign(prcnt.of * prcnt.per), prcnt>> ELSE <<>>

texts(cell) == << <<cell.value>>, <<plusSign(cell.delta), cell.delta>>, percentage(cell.prcnt) >>

dashes == << <<>>, <<>>, <<>> >>

formatCellShell(row, c) ==
  IF c \in DOMAIN row
  THEN [colour |-> IF row[c].delta > 0 THEN "red" ELSE IF row[c].delta < 0 THEN "green" ELSE "reset",
        texts  |-> texts(row[c])]
  ELSE [colour |-> "reset", texts |-> dashes]

trend(value) ==
  IF value > 0 THEN ":x:" ELSE IF value < 0 THEN ":heavy_check_mark:" ELSE ":heavy_minus_sign:"

(* The mark follows a percentage, so what is not finite has none. *)
formatCellMarkdown(row, c) ==
  IF c \in DOMAIN row
  THEN [texts(row[c]) EXCEPT ![3] = IF @ = <<>> THEN @ ELSE Append(@, trend(row[c].delta))]
  ELSE dashes

Columns == {"min", "max", "avg"}

formatCmpShell(rows) ==
  {[contract |-> row.contract, method |-> row.method,
    cells |-> [c \in Columns |-> formatCellShell(row, c)]] : row \in rows}

formatCmpMarkdown(rows) ==
  {[contract |-> row.contract, method |-> row.method,
    cells |-> [c \in Columns |-> formatCellMarkdown(row, c)]] : row \in rows}

(* The script's last statement; any other style is the shell's. *)
display(style, update, ref) ==
  LET report == compare(update, ref, TRUE)
  IN  IF style = "markdown" THEN formatCmpMarkdown(report) ELSE formatCmpShell(report)

-----------------------------------------------------------------------------
(* Comparing the other way round shows the same rows with every delta      *)
(* negated: roundings and filters treat the two reports alike.             *)
Deltas(rows) ==
  {[name |-> <<row.contract, row.method>>,
    deltas |-> [c \in DOMAIN row \ {"contract", "method"} |-> row[c].delta]] : row \in rows}

Antisymmetric(a, b) ==
  CanCompare(a, b) =>
    Deltas(compare(b, a, TRUE)) =
      {[r EXCEPT !.deltas = [c \in DOMAIN r.deltas |-> -r.deltas[c]]] : r \in Deltas(compare(a, b, TRUE))}

(* Where every sample of a method costs at least what it did, no cell      *)
(* displayed of it shows a gain, in either style, whatever was rounded;    *)
(* and wherever the reference cost more than the base, the sign of a       *)
(* displayed percentage agrees with the mark beside it.                    *)
NoSampleFell(update, ref, key) ==
  /\ key \in DOMAIN update.methods \cap DOMAIN ref.methods
  /\ LET new == update.methods[key].gasData
         old == ref.methods[key].gasData
     IN  \A i \in DOMAIN new \cap DOMAIN old : new[i] >= old[i]

RegressionsShow(update, ref) ==
  CanCompare(update, ref) =>
    /\ \A row \in display("shell", update, ref) :
         NoSampleFell(update, ref, <<row.contract, row.method>>) =>
           \A c \in Columns : row.cells[c].colour # "green"
    /\ \A row \in display("markdown", update, ref) : \A c \in Columns :
         LET share == row.cells[c][3]
         IN  share # <<>> =>
               /\ NoSampleFell(update, ref, <<row.contract, row.method>>) => share[3] # ":heavy_check_mark:"
               /\ share[2].per > 0 => (share[1] = "+" <=> share[3] = ":x:")
=============================================================================
