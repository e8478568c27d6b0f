-------------------------- MODULE Algorithms_proofs --------------------------
(***************************************************************************)
(* What is decided without any state of the engine: the oracle's check,    *)
(* for every timeout, every set of answers and blocks any time apart; and  *)
(* the pure algorithms, for every argument.                                *)
(***************************************************************************)
EXTENDS OracleLib, MCAlgorithms, Arithmetic_proofs, SequenceTheorems

USE OracleAssumption

(* Ages run from a timestamp in the future to one past the timeout. *)
LEMMA AgesReach == 0 \in Ages /\ TIMEOUT + 1 \in Ages /\ Ages \subseteq Int
BY DEF Ages

-----------------------------------------------------------------------------
(* What a call of the feed or the passage of time leaves is a round: the   *)
(* age stays within its range because it is cut off past the timeout.      *)
LEMMA NextKeepsRounds ==
  ASSUME TypeOK, [Next]_vars
  PROVE  TypeOK'
<1> USE DEF TypeOK, Round, Ages
<1>1. ASSUME NEW a \in Answers, updateAnswer(a)
      PROVE  TypeOK'
  BY <1>1 DEF updateAnswer
<1>2. ASSUME NEW a \in Answers, NEW age \in Ages, updateRoundData(a, age)
      PROVE  TypeOK'
  BY <1>2 DEF updateRoundData
<1>3. ASSUME NEW a \in Answers, updateRoundDataUnanswered(a)
      PROVE  TypeOK'
  BY <1>3 DEF updateRoundDataUnanswered
<1>4. CASE openRound
  <2>1. CASE latest' = [latest EXCEPT !.behind = TRUE]
    BY <1>4, <2>1 DEF openRound
  <2>2. CASE latest' = [latest EXCEPT !.answered = FALSE, !.age = TIMEOUT + 1]
    <3>1. TIMEOUT + 1 \in Ages
      BY AgesReach
    <3> QED BY <1>4, <2>2, <3>1 DEF openRound
  <2> QED BY <1>4, <2>1, <2>2 DEF openRound
<1>5. ASSUME NEW d \in Delays, Tick(d)
      PROVE  TypeOK'
  <2>1. (IF latest.age + d > TIMEOUT THEN TIMEOUT + 1 ELSE latest.age + d) \in Ages
    OBVIOUS
  <2> QED BY <1>5, <2>1 DEF Tick
<1>6. CASE UNCHANGED vars
  BY <1>6 DEF vars
<1> QED BY <1>1, <1>2, <1>3, <1>4, <1>5, <1>6 DEF Next, Feed, Passing

(* A round that can be refused for good: it has no answer of its own, or   *)
(* one that is past the timeout.                                           *)
Expired(r) == ~r.answered \/ r.behind \/ r.age > TIMEOUT

(* Refused and not merely early is refused for good. *)
LEMMA RefusedIsExpired ==
  ASSUME NEW r \in Round
  PROVE  ~Readable(r) /\ ~Pending(r) <=> Expired(r)
BY DEF Readable, Pending, Expired, Round, Ages

(* Time makes an expired round no fresher, and a round that is opened is   *)
(* not readable itself.                                                    *)
LEMMA ExpiryIsLasting ==
  ASSUME TypeOK, Expired(latest), [Next]_vars, ~published'
  PROVE  Expired(latest')
<1> USE DEF TypeOK, Round, Ages, Expired
<1>1. ASSUME NEW a \in Answers,
             \/ updateAnswer(a)
             \/ \E age \in Ages : updateRoundData(a, age)
             \/ updateRoundDataUnanswered(a)
      PROVE  FALSE
  BY <1>1 DEF updateAnswer, updateRoundData, updateRoundDataUnanswered
<1>2. CASE openRound
  BY <1>2 DEF openRound
<1>3. ASSUME NEW d \in Delays, Tick(d)
      PROVE  Expired(latest')
  BY <1>3 DEF Tick
<1>4. CASE UNCHANGED vars
  BY <1>4 DEF vars
<1> QED BY <1>1, <1>2, <1>3, <1>4 DEF Next, Feed, Passing

-----------------------------------------------------------------------------
LEMMA RoundsStayTyped == Spec => []TypeOK
<1>1. Init => TypeOK
  BY AgesReach DEF Init, TypeOK, Round
<1>2. TypeOK /\ [Next]_vars => TypeOK'
  BY NextKeepsRounds
<1> QED BY <1>1, <1>2, PTL DEF Spec

(* staleCheckLatestRoundData: an answer refused for its age, or a round    *)
(* without an answer of its own, is refused until a new answer is          *)
(* published; neither time nor an opened round brings it back.             *)
THEOREM ExpiryIsFinal == Spec => ExpiredStaysExpired
<1>1. TypeOK /\ TypeOK' /\ [Next]_vars =>
        [~Readable(latest) /\ ~Pending(latest) /\ ~published' =>
           ~Readable(latest') /\ ~Pending(latest')]_vars
  <2> SUFFICES ASSUME TypeOK, TypeOK', [Next]_vars,
                      ~Readable(latest), ~Pending(latest), ~published'
               PROVE  ~Readable(latest') /\ ~Pending(latest')
    OBVIOUS
  <2>1. latest \in Round /\ latest' \in Round
    BY DEF TypeOK
  <2>2. Expired(latest)
    BY <2>1, RefusedIsExpired
  <2>3. Expired(latest')
    BY <2>2, ExpiryIsLasting
  <2> QED BY <2>1, <2>3, RefusedIsExpired
<1> QED BY <1>1, RoundsStayTyped, PTL DEF Spec, ExpiredStaysExpired

-----------------------------------------------------------------------------
(* Casts. *)

(* A remainder, of what is in range and of what is just below it. *)
LEMMA Remainders ==
  ASSUME NEW b \in Nat \ {0}, NEW n \in Int
  PROVE  /\ n % b \in 0 .. b - 1
         /\ n \in 0 .. b - 1 => n % b = n
         /\ n \in -b .. -1 => n % b = n + b
OBVIOUS

(* Solidity's conversion to a signed type of h negative numbers: it ends   *)
(* within the type, and moves nothing that is in it.                       *)
LEMMA SignedConversion ==
  ASSUME NEW bits \in Nat \ {0}, NEW h \in Nat \ {0}, 2^(bits - 1) = h, 2^bits = 2 * h, NEW n \in Int
  PROVE  /\ int(bits, n) \in -h .. h - 1
         /\ n \in -h .. h - 1 => int(bits, n) = n
<1> DEFINE w == 2 * h
           low == n % w
<1>1. /\ w \in Nat \ {0} /\ low \in 0 .. w - 1
      /\ n \in 0 .. w - 1 => low = n
      /\ n \in -w .. -1 => low = n + w
  <2>1. w \in Nat \ {0}
    OBVIOUS
  <2> HIDE DEF w
  <2> QED BY <2>1, Remainders
<1>2. int(bits, n) = IF low < h THEN low ELSE low - w
  BY DEF int
<1> HIDE DEF low
<1> QED BY <1>1, <1>2

LEMMA CastIsExactAt ==
  ASSUME NEW word \in 1 .. WordBits, NEW bits \in 1 .. WordBits, NEW value \in Int
  PROVE  CastIsExact(word, bits, value)
<1> DEFINE h == 2^(bits - 1)
           k == 2^(word - 1)
<1>1. /\ h \in Nat \ {0} /\ 2^bits = 2 * h
      /\ k \in Nat \ {0} /\ 2^word = 2 * k
      /\ word \in Nat \ {0} /\ bits \in Nat \ {0}
  BY CasesAssumption, PowersAssumption
<1>2. /\ int(bits, value) \in -h .. h - 1
      /\ value \in -h .. h - 1 => int(bits, value) = value
      /\ int(word, value) \in -k .. k - 1
      /\ value \in -k .. k - 1 => int(word, value) = value
  BY <1>1, SignedConversion
<1>3. /\ value \in 0 .. 2 * h - 1 => uint(bits, value) = value
      /\ value \in 0 .. 2 * k - 1 => uint(word, value) = value
  <2>1. 2 * h \in Nat \ {0} /\ 2 * k \in Nat \ {0}
    BY <1>1
  <2> HIDE DEF h, k
  <2> QED BY <1>1, <2>1, Remainders DEF uint
<1>4. /\ maxUint(bits) = 2 * h - 1 /\ maxUint(word) = 2 * k - 1
      /\ maxInt(bits) = h - 1 /\ maxInt(word) = k - 1
  BY <1>1 DEF maxUint, maxInt
<1> HIDE DEF h, k
<1> QED BY <1>1, <1>2, <1>3, <1>4
        DEF CastIsExact, CanToUintDown, toUintDown, CanToIntDown, toIntDown,
            CanToInt, toInt, CanToUint, toUint

-----------------------------------------------------------------------------
(* The cases, which stay what they are from the first state on. *)

LEMMA CasesStay == CasesSpec => []CasesInit
<1>1. CasesInit /\ [CasesNext]_args => CasesInit'
  BY DEF CasesInit, CasesNext
<1> QED BY <1>1, PTL DEF CasesSpec

(* What a case is of says what it consists of. *)
LEMMA CasesAre ==
  ASSUME CasesInit
  PROVE  /\ args.of = "Valuation" => args \in ValuationArgs
         /\ args.of = "SafeCast" => args \in CastArgs
         /\ args.of = "CompareGasReports" => args \in ReportArgs
         /\ args.of = "MigrateImports" => args \in MigrationArgs
         /\ args.of = "pathUpdates" => args \in TableArgs
BY DEF CasesInit, ValuationArgs, CastArgs, ReportArgs, MigrationArgs, TableArgs

LEMMA ValuationTypes ==
  ASSUME CasesInit, args.of = "Valuation"
  PROVE  args.price \in Int256 /\ args.price \in Int /\ args.amount \in UInt /\ args.usd \in UInt
<1>1. args \in ValuationArgs
  BY CasesAre
<1>2. args.price \in Prices /\ args.amount \in Quantities /\ args.usd \in Quantities
  BY <1>1 DEF ValuationArgs
<1>3. args.price \in Int
  <2>1. args.price \in Int256
    BY <1>2, CasesAssumption
  <2>2. \A x \in Int256 : x \in Int
    BY MaxUintAssumption DEF Int256
  <2> QED BY <2>1, <2>2
<1> QED BY <1>2, <1>3, CasesAssumption

(* getUsdValue and getTokenAmountFromUsd: converting there and back never  *)
(* gains, whichever way one starts.                                        *)
THEOREM RoundTripsLose == CasesSpec => []RoundTrips
<1>1. CasesInit => RoundTrips
  BY ValuationTypes, RoundTripNeverGains DEF RoundTrips, UInt
<1> QED BY <1>1, CasesStay, PTL

(* liquidate: what is seized is worth at most the debt and the bonus. *)
THEOREM BonusAlwaysHolds == CasesSpec => []BonusHolds
<1>1. CasesInit => BonusHolds
  BY ValuationTypes, SeizureIsBounded DEF BonusHolds, UInt
<1> QED BY <1>1, CasesStay, PTL

(* Either conversion reverts on a negative answer. *)
THEOREM NegativesAlwaysFail == CasesSpec => []NegativesFail
<1>1. CasesInit => NegativesFail
  BY ValuationTypes, NegativeAnswersRevert DEF NegativesFail
<1> QED BY <1>1, CasesStay, PTL

(* _calculateHealthFactor: rounding decides no comparison. *)
THEOREM HealthAlwaysCompares == CasesSpec => []HealthCompares
<1>1. CasesInit => HealthCompares
  <2>1. \A h \in 0 .. 8 : h \in Nat
    OBVIOUS
  <2> QED BY <2>1, ValuationTypes, HealthComparesExactly DEF HealthCompares, UInt
<1> QED BY <1>1, CasesStay, PTL

(* SafeCast: every cast, between any two widths, gives back the number it  *)
(* is given or reverts, and reverts on no number the target type has.      *)
THEOREM CastsAreAlwaysExact == CasesSpec => []CastsAreExact
<1>1. CasesInit => CastsAreExact
  <2> SUFFICES ASSUME CasesInit, args.of = "SafeCast"
               PROVE  CastIsExact(WordBits, args.bits, args.value)
    BY DEF CastsAreExact
  <2>1. args.bits \in range(2, WordBits, 2) /\ args.value \in Numbers
    BY CasesAre DEF CastArgs
  <2>2. args.bits \in 1 .. WordBits
    <3>1. \A i \in Nat : 2 + i * 2 \in Nat /\ 2 + i * 2 >= 1
      OBVIOUS
    <3>2. \A i \in 0 .. WordBits - 2 : i \in Nat
      BY CasesAssumption
    <3> QED BY <2>1, <3>1, <3>2, CasesAssumption DEF range
  <2>3. args.value \in Int
    BY <2>1 DEF Numbers
  <2>4. WordBits \in 1 .. WordBits
    BY CasesAssumption
  <2> QED BY <2>2, <2>3, <2>4, CastIsExactAt
<1> QED BY <1>1, CasesStay, PTL

-----------------------------------------------------------------------------
(* Gas reports.  The methods and contracts of a report are named, its      *)
(* samples are amounts of gas, one a call, and no method is called what    *)
(* the rows of a deployment are.                                           *)

Gas == Seq(Nat)

WellFormed(report) ==
  /\ \A c \in DOMAIN report.deployments :
       report.deployments[c].digits \in Nat /\ report.deployments[c].gasData \in Gas
  /\ \A key \in DOMAIN report.methods :
       /\ key = <<key[1], key[2]>>
       /\ key[2] \notin {"[bytecode length]", "[construction cost]"}
       /\ report.methods[key].gasData \in Gas
       /\ report.methods[key].numberOfCalls = Len(report.methods[key].gasData)

LEMMA SamplesAre ==
  ASSUME NEW s \in Gas
  PROVE  /\ Len(s) \in Nat /\ DOMAIN s = 1 .. Len(s) /\ IsFiniteSet(1 .. Len(s))
         /\ \A i \in 1 .. Len(s) : s[i] \in Nat
         /\ s # <<>> <=> Len(s) > 0
<1>1. Len(s) \in Nat /\ DOMAIN s = 1 .. Len(s) /\ \A i \in 1 .. Len(s) : s[i] \in Nat
  BY DEF Gas
<1>2. s # <<>> <=> Len(s) > 0
  BY EmptySeq, <1>1 DEF Gas
<1> QED BY <1>1, <1>2, FS_Interval

LEMMA SmallestIs ==
  ASSUME NEW s \in Gas, s # <<>>
  PROVE  /\ Smallest(s) \in Nat
         /\ \E i \in 1 .. Len(s) : Smallest(s) = s[i]
         /\ \A i \in 1 .. Len(s) : Smallest(s) <= s[i]
<1>1. /\ Len(s) \in Nat \ {0} /\ DOMAIN s = 1 .. Len(s)
      /\ \A i \in 1 .. Len(s) : s[i] \in Nat
  BY DEF Gas
<1>2. ToSet(s) = {s[i] : i \in 1 .. Len(s)}
  BY <1>1 DEF ToSet
<1>3. ToSet(s) \subseteq Nat /\ ToSet(s) # {}
  BY <1>1, <1>2
<1>4. \E m \in ToSet(s) : \A k \in ToSet(s) : m <= k
  BY <1>3, SmallestMember
<1>5. Smallest(s) \in ToSet(s) /\ \A k \in ToSet(s) : Smallest(s) <= k
  BY <1>4 DEF Smallest, Min
<1> QED BY <1>1, <1>2, <1>5

LEMMA LargestIs ==
  ASSUME NEW s \in Gas, s # <<>>
  PROVE  /\ Largest(s) \in Nat
         /\ \E i \in 1 .. Len(s) : Largest(s) = s[i]
         /\ \A i \in 1 .. Len(s) : Largest(s) >= s[i]
<1> DEFINE bounds == {m \in Nat : \A k \in ToSet(s) : m >= k}
<1>1. /\ Len(s) \in Nat \ {0} /\ DOMAIN s = 1 .. Len(s)
      /\ \A i \in 1 .. Len(s) : s[i] \in Nat
  BY DEF Gas
<1>2. ToSet(s) = {s[i] : i \in 1 .. Len(s)}
  BY <1>1 DEF ToSet
<1>3. ToSet(s) \subseteq Nat /\ ToSet(s) # {}
  BY <1>1, <1>2
<1>4. Total(s, DOMAIN s) \in bounds
  <2>1. IsFiniteSet(1 .. Len(s))
    BY <1>1, FS_Interval
  <2>2. Total(s, DOMAIN s) \in Nat
    BY <1>1, <2>1, TotalType
  <2>3. \A i \in 1 .. Len(s) : s[i] <= Total(s, DOMAIN s)
    BY <1>1, <2>1, TotalBounds
  <2> QED BY <1>1, <1>2, <2>2, <2>3
<1>5. PICK m \in bounds : \A k \in bounds : m <= k
  <2>1. bounds \subseteq Nat /\ bounds # {}
    BY <1>4
  <2> HIDE DEF bounds
  <2> QED BY <2>1, SmallestMember
<1>6. m \in ToSet(s)
  <2> SUFFICES ASSUME m \notin ToSet(s)
               PROVE  FALSE
    OBVIOUS
  <2>1. m \in Nat /\ \A k \in ToSet(s) : m > k
    BY <1>3
  <2>2. m - 1 \in Nat /\ \A k \in ToSet(s) : m - 1 >= k
    BY <1>3, <2>1
  <2>3. m - 1 \in bounds
    BY <2>2
  <2> QED BY <1>5, <2>1, <2>3
<1>7. Largest(s) \in ToSet(s) /\ \A k \in ToSet(s) : Largest(s) >= k
  BY <1>6 DEF Largest, Max
<1> QED BY <1>1, <1>2, <1>7

LEMMA AverageIs ==
  ASSUME NEW s \in Gas, s # <<>>
  PROVE  sum(s) \in Nat /\ roundedAverage(s) \in Nat
<1>1. Len(s) \in Nat \ {0} /\ DOMAIN s = 1 .. Len(s) /\ IsFiniteSet(1 .. Len(s))
      /\ \A i \in 1 .. Len(s) : s[i] \in Nat
  BY SamplesAre
<1>2. sum(s) \in Nat
  BY <1>1, TotalType DEF sum
<1>3. 2 * sum(s) + Len(s) \in Nat /\ 2 * Len(s) \in Nat \ {0}
  BY <1>1, <1>2
<1> QED BY <1>2, <1>3, FloorBounds DEF roundedAverage

(* Where every sample is at least what it was, so are the three numbers.   *)
LEMMA StatisticsGrow ==
  ASSUME NEW old \in Gas, NEW new \in Gas, old # <<>>, Len(new) = Len(old),
         \A i \in 1 .. Len(old) : new[i] >= old[i]
  PROVE  /\ Smallest(new) >= Smallest(old)
         /\ Largest(new) >= Largest(old)
         /\ roundedAverage(new) >= roundedAverage(old)
<1>1. /\ Len(old) \in Nat \ {0} /\ new # <<>>
      /\ DOMAIN old = 1 .. Len(old) /\ DOMAIN new = 1 .. Len(old)
      /\ \A i \in 1 .. Len(old) : new[i] \in Nat /\ old[i] \in Nat
  BY DEF Gas
<1>2. Smallest(new) >= Smallest(old)
  <2>1. PICK i \in 1 .. Len(old) : Smallest(new) = new[i]
    BY <1>1, SmallestIs
  <2>2. Smallest(old) <= old[i] /\ Smallest(old) \in Nat
    BY <1>1, SmallestIs
  <2> QED BY <1>1, <2>1, <2>2
<1>3. Largest(new) >= Largest(old)
  <2>1. PICK i \in 1 .. Len(old) : Largest(old) = old[i]
    BY <1>1, LargestIs
  <2>2. Largest(new) >= new[i] /\ Largest(new) \in Nat
    BY <1>1, LargestIs
  <2> QED BY <1>1, <2>1, <2>2
<1>4. roundedAverage(new) >= roundedAverage(old)
  <2>1. sum(old) \in Nat /\ sum(new) \in Nat
    BY <1>1, AverageIs
  <2>2. sum(old) <= sum(new)
    <3>1. \A i \in 1 .. Len(old) : old[i] \in Nat /\ new[i] \in Nat /\ old[i] <= new[i]
      BY <1>1
    <3>2. IsFiniteSet(1 .. Len(old))
      BY <1>1, FS_Interval
    <3> QED BY <1>1, <3>1, <3>2, TotalMonotone DEF sum
  <2> DEFINE a == 2 * sum(old) + Len(old)
             b == 2 * sum(new) + Len(old)
             n == 2 * Len(old)
  <2>3. a \in Nat /\ b \in Nat /\ n \in Nat \ {0} /\ a <= b
    BY <1>1, <2>1, <2>2
  <2>4. roundedAverage(old) = a \div n /\ roundedAverage(new) = b \div n
    BY DEF roundedAverage
  <2>5. roundedAverage(old) \in Nat /\ roundedAverage(new) \in Nat
    BY <1>1, AverageIs
  <2> HIDE DEF a, b, n
  <2> QED BY <2>3, <2>4, <2>5, FloorMonotone
<1> QED BY <1>2, <1>3, <1>4

(* The rows, one kind at a time. *)

Shared(update, ref) ==
  {c \in DOMAIN update.deployments \cap DOMAIN ref.deployments :
     update.deployments[c].gasData # <<>> /\ ref.deployments[c].gasData # <<>>}

LengthRow(c, new, old) ==
  [contract |-> c, method |-> "[bytecode length]",
   avg |-> variation(BytecodeLength(new), BytecodeLength(old), 0)]

ConstructionRow(c, new, old) ==
  [contract |-> c, method |-> "[construction cost]",
   avg |-> variation(roundedAverage(new.gasData), roundedAverage(old.gasData), BASE_TX_COST)]

MethodRow(key, new, old) ==
  [contract |-> key[1], method |-> key[2],
   min |-> variation(Smallest(new.gasData), Smallest(old.gasData), BASE_TX_COST),
   max |-> variation(Largest(new.gasData), Largest(old.gasData), BASE_TX_COST),
   avg |-> variation(roundedAverage(new.gasData), roundedAverage(old.gasData), BASE_TX_COST)]

LEMMA RowsAre ==
  ASSUME NEW update, NEW ref, NEW row
  PROVE  row \in deployments(update, ref) \cup methods(update, ref) <=>
           \/ \E c \in Shared(update, ref) :
                \/ row = LengthRow(c, update.deployments[c], ref.deployments[c])
                \/ row = ConstructionRow(c, update.deployments[c], ref.deployments[c])
           \/ \E key \in comparable(update, ref) :
                row = MethodRow(key, update.methods[key], ref.methods[key])
<1>1. row \in deployments(update, ref) <=>
        \E c \in Shared(update, ref) :
           \/ row = LengthRow(c, update.deployments[c], ref.deployments[c])
           \/ row = ConstructionRow(c, update.deployments[c], ref.deployments[c])
  BY DEF deployments, Shared, LengthRow, ConstructionRow
<1>2. row \in methods(update, ref) <=>
        \E key \in comparable(update, ref) :
           row = MethodRow(key, update.methods[key], ref.methods[key])
  BY DEF methods, MethodRow
<1> QED BY <1>1, <1>2

(* A cell, its percentage made of its change, and one with the opposite.   *)
CellIs(cell) ==
  cell.delta \in Int /\ cell.prcnt.of = 100 * cell.delta /\ cell.prcnt.per \in Int

CellMirrors(x, y) == CellIs(x) /\ CellIs(y) /\ y.delta = -x.delta

LEMMA VariationsMirror ==
  ASSUME NEW x \in Int, NEW y \in Int, NEW o \in Int
  PROVE  /\ CellMirrors(variation(x, y, o), variation(y, x, o))
         /\ variation(x, y, o).delta = x - y
BY DEF variation, CellMirrors, CellIs

-----------------------------------------------------------------------------
(* The same rows with every delta negated: comparing the other way round.  *)

Named(row) == DOMAIN row \ {"contract", "method"}

Mirrors(x, y) ==
  /\ x.contract = y.contract /\ x.method = y.method
  /\ Named(x) = Named(y)
  /\ \A c \in Named(x) : CellMirrors(x[c], y[c])

Rows(update, ref) == deployments(update, ref) \cup methods(update, ref)

LEMMA RowsMirror ==
  ASSUME NEW a, NEW b, WellFormed(a), WellFormed(b), NEW x \in Rows(a, b)
  PROVE  \E y \in Rows(b, a) : Mirrors(x, y)
<1>1. ASSUME NEW c \in Shared(a, b)
      PROVE  /\ c \in Shared(b, a)
             /\ Mirrors(LengthRow(c, a.deployments[c], b.deployments[c]),
                        LengthRow(c, b.deployments[c], a.deployments[c]))
             /\ Mirrors(ConstructionRow(c, a.deployments[c], b.deployments[c]),
                        ConstructionRow(c, b.deployments[c], a.deployments[c]))
  <2> DEFINE d == a.deployments[c]
             e == b.deployments[c]
  <2>1. c \in Shared(b, a)
    BY DEF Shared
  <2>2. /\ d.gasData \in Gas /\ e.gasData \in Gas /\ d.gasData # <<>> /\ e.gasData # <<>>
        /\ d.digits \in Nat /\ e.digits \in Nat
    BY DEF WellFormed, Shared
  <2>3. /\ roundedAverage(d.gasData) \in Int /\ roundedAverage(e.gasData) \in Int
        /\ BytecodeLength(d) \in Int /\ BytecodeLength(e) \in Int
    BY <2>2, AverageIs DEF BytecodeLength
  <2> HIDE DEF d, e
  <2>4. /\ Named(LengthRow(c, d, e)) = {"avg"} /\ Named(LengthRow(c, e, d)) = {"avg"}
        /\ Named(ConstructionRow(c, d, e)) = {"avg"} /\ Named(ConstructionRow(c, e, d)) = {"avg"}
    BY DEF Named, LengthRow, ConstructionRow
  <2>5. Mirrors(LengthRow(c, d, e), LengthRow(c, e, d))
    <3> DEFINE r == LengthRow(c, d, e)
               s == LengthRow(c, e, d)
    <3>1. /\ r.contract = s.contract /\ r.method = s.method
          /\ r.avg = variation(BytecodeLength(d), BytecodeLength(e), 0)
          /\ s.avg = variation(BytecodeLength(e), BytecodeLength(d), 0)
      BY DEF LengthRow
    <3>2. CellMirrors(r.avg, s.avg)
      BY <2>3, <3>1, VariationsMirror, BaseAssumption
    <3>3. Named(r) = {"avg"} /\ Named(s) = {"avg"}
      BY <2>4
    <3> HIDE DEF r, s
    <3>4. Mirrors(r, s)
      BY <3>3, <3>1, <3>2 DEF Mirrors
    <3> QED BY <3>4 DEF r, s
  <2>6. Mirrors(ConstructionRow(c, d, e), ConstructionRow(c, e, d))
    <3> DEFINE r == ConstructionRow(c, d, e)
               s == ConstructionRow(c, e, d)
    <3>1. /\ r.contract = s.contract /\ r.method = s.method
          /\ r.avg = variation(roundedAverage(d.gasData), roundedAverage(e.gasData), BASE_TX_COST)
          /\ s.avg = variation(roundedAverage(e.gasData), roundedAverage(d.gasData), BASE_TX_COST)
      BY DEF ConstructionRow
    <3>2. CellMirrors(r.avg, s.avg)
      BY <2>3, <3>1, VariationsMirror, BaseAssumption
    <3>3. Named(r) = {"avg"} /\ Named(s) = {"avg"}
      BY <2>4
    <3> HIDE DEF r, s
    <3>4. Mirrors(r, s)
      BY <3>3, <3>1, <3>2 DEF Mirrors
    <3> QED BY <3>4 DEF r, s
  <2> QED BY <2>1, <2>5, <2>6 DEF d, e
<1>2. ASSUME NEW key \in comparable(a, b)
      PROVE  /\ key \in comparable(b, a)
             /\ Mirrors(MethodRow(key, a.methods[key], b.methods[key]),
                        MethodRow(key, b.methods[key], a.methods[key]))
  <2> DEFINE d == a.methods[key]
             e == b.methods[key]
  <2>1. key \in comparable(b, a)
    BY DEF comparable
  <2>2. /\ d.gasData \in Gas /\ e.gasData \in Gas /\ Len(d.gasData) > 0 /\ Len(e.gasData) > 0
    BY DEF WellFormed, comparable
  <2>3. d.gasData # <<>> /\ e.gasData # <<>>
    BY <2>2, SamplesAre
  <2> HIDE DEF d, e
  <2>4. /\ roundedAverage(d.gasData) \in Int /\ roundedAverage(e.gasData) \in Int
        /\ Smallest(d.gasData) \in Int /\ Smallest(e.gasData) \in Int
        /\ Largest(d.gasData) \in Int /\ Largest(e.gasData) \in Int
    <3>1. roundedAverage(d.gasData) \in Int /\ roundedAverage(e.gasData) \in Int
      BY <2>2, <2>3, AverageIs
    <3>2. Smallest(d.gasData) \in Int /\ Smallest(e.gasData) \in Int
      BY <2>2, <2>3, SmallestIs
    <3>3. Largest(d.gasData) \in Int /\ Largest(e.gasData) \in Int
      BY <2>2, <2>3, LargestIs
    <3> QED BY <3>1, <3>2, <3>3
  <2>5. Named(MethodRow(key, d, e)) = Columns /\ Named(MethodRow(key, e, d)) = Columns
    BY DEF Named, MethodRow, Columns
  <2>6. Mirrors(MethodRow(key, d, e), MethodRow(key, e, d))
    <3> DEFINE r == MethodRow(key, d, e)
               s == MethodRow(key, e, d)
    <3>1. /\ r.contract = s.contract /\ r.method = s.method
          /\ r.min = variation(Smallest(d.gasData), Smallest(e.gasData), BASE_TX_COST)
          /\ s.min = variation(Smallest(e.gasData), Smallest(d.gasData), BASE_TX_COST)
          /\ r.max = variation(Largest(d.gasData), Largest(e.gasData), BASE_TX_COST)
          /\ s.max = variation(Largest(e.gasData), Largest(d.gasData), BASE_TX_COST)
          /\ r.avg = variation(roundedAverage(d.gasData), roundedAverage(e.gasData), BASE_TX_COST)
          /\ s.avg = variation(roundedAverage(e.gasData), roundedAverage(d.gasData), BASE_TX_COST)
      BY DEF MethodRow
    <3> HIDE DEF r, s
    <3>2. CellMirrors(r.min, s.min) /\ CellMirrors(r.max, s.max) /\ CellMirrors(r.avg, s.avg)
      <4> DEFINE V(i, j) == variation(i, j, BASE_TX_COST)
      <4>1. \A i, j \in Int : CellMirrors(V(i, j), V(j, i))
        BY VariationsMirror, BaseAssumption
      <4> HIDE DEF V
      <4>2. /\ CellMirrors(V(Smallest(d.gasData), Smallest(e.gasData)), V(Smallest(e.gasData), Smallest(d.gasData)))
            /\ CellMirrors(V(Largest(d.gasData), Largest(e.gasData)), V(Largest(e.gasData), Largest(d.gasData)))
            /\ CellMirrors(V(roundedAverage(d.gasData), roundedAverage(e.gasData)),
                           V(roundedAverage(e.gasData), roundedAverage(d.gasData)))
        BY <2>4, <4>1
      <4> QED BY <3>1, <4>2 DEF V
    <3>3. Named(r) = Columns /\ Named(s) = Columns
      BY <2>5 DEF r, s
    <3>4. Mirrors(r, s)
      BY <3>3, <3>1, <3>2 DEF Mirrors, Columns
    <3> QED BY <3>4 DEF r, s
  <2> QED BY <2>1, <2>6 DEF d, e
<1> QED BY <1>1, <1>2, RowsAre DEF Rows

Shows(row) == \E c \in Named(row) : row[c].delta # 0

LEMMA ComparedRows ==
  ASSUME NEW update, NEW ref, NEW row
  PROVE  row \in compare(update, ref, TRUE) <=> row \in Rows(update, ref) /\ Shows(row)
<1>1. (\E cell \in Cells(row) : cell.delta # 0) <=> Shows(row)
  BY DEF Cells, Named, Shows
<1> QED BY <1>1 DEF compare, Rows

LEMMA MirroredShows ==
  ASSUME NEW r, NEW s, Mirrors(r, s)
  PROVE  Mirrors(s, r) /\ (Shows(r) => Shows(s))
<1>1. /\ r.contract = s.contract /\ r.method = s.method /\ Named(r) = Named(s)
      /\ \A c \in Named(r) : CellMirrors(r[c], s[c])
  BY DEF Mirrors
<1>2. \A c \in Named(s) : CellMirrors(s[c], r[c]) /\ (r[c].delta # 0 => s[c].delta # 0)
  BY <1>1 DEF CellMirrors, CellIs
<1> QED BY <1>1, <1>2 DEF Mirrors, Shows

Changes(row) ==
  [name |-> <<row.contract, row.method>>, deltas |-> [c \in Named(row) |-> row[c].delta]]

Negated(r) == [r EXCEPT !.deltas = [c \in DOMAIN r.deltas |-> -r.deltas[c]]]

LEMMA MirroredChanges ==
  ASSUME NEW r, NEW s, Mirrors(r, s)
  PROVE  Changes(s) = Negated(Changes(r))
<1> DEFINE ds == [c \in Named(s) |-> s[c].delta]
           dr == [c \in Named(r) |-> r[c].delta]
<1>1. /\ r.contract = s.contract /\ r.method = s.method /\ Named(r) = Named(s)
      /\ \A c \in Named(r) : s[c].delta = -r[c].delta
  BY DEF Mirrors, CellMirrors
<1>2. ds = [c \in DOMAIN dr |-> -dr[c]]
  BY <1>1
<1> HIDE DEF ds, dr
<1>3. Changes(s) = [name |-> <<s.contract, s.method>>, deltas |-> ds]
      /\ Changes(r) = [name |-> <<r.contract, r.method>>, deltas |-> dr]
  BY DEF Changes, ds, dr
<1> QED BY <1>1, <1>2, <1>3 DEF Negated

(* Comparing any two reports the other way round shows the same rows with  *)
(* every delta negated: compare's filters and roundings prefer neither.    *)
THEOREM ComparisonsMirror ==
  ASSUME NEW a, NEW b, WellFormed(a), WellFormed(b)
  PROVE  Antisymmetric(a, b)
<1> DEFINE there == compare(a, b, TRUE)
           back  == compare(b, a, TRUE)
<1>1. Deltas(there) = {Changes(row) : row \in there} /\ Deltas(back) = {Changes(row) : row \in back}
  BY DEF Deltas, Changes, Named
<1>2. \A row \in back : \E other \in there : Changes(row) = Negated(Changes(other))
  <2> TAKE row \in back
  <2>1. row \in Rows(b, a) /\ Shows(row)
    BY ComparedRows
  <2>2. PICK other \in Rows(a, b) : Mirrors(row, other)
    BY <2>1, RowsMirror
  <2>3. other \in there /\ Mirrors(other, row)
    BY <2>1, <2>2, MirroredShows, ComparedRows
  <2> QED BY <2>3, MirroredChanges
<1>3. \A other \in there : \E row \in back : Changes(row) = Negated(Changes(other))
  <2> TAKE other \in there
  <2>1. other \in Rows(a, b) /\ Shows(other)
    BY ComparedRows
  <2>2. PICK row \in Rows(b, a) : Mirrors(other, row)
    BY <2>1, RowsMirror
  <2>3. row \in back
    BY <2>1, <2>2, MirroredShows, ComparedRows
  <2> QED BY <2>2, <2>3, MirroredChanges
<1> HIDE DEF there, back
<1>4. Deltas(back) = {Negated(r) : r \in Deltas(there)}
  BY <1>1, <1>2, <1>3
<1> QED BY <1>4 DEF Antisymmetric, Negated, there, back

-----------------------------------------------------------------------------
(* No regression is displayed as a gain.                                   *)

(* A deployment's rows are named as no method is, so the row of a method   *)
(* none of whose samples fell is that method's, and no number of it fell.  *)
LEMMA RegressionsGrow ==
  ASSUME NEW update, NEW ref, WellFormed(update), WellFormed(ref),
         NEW row \in Rows(update, ref), NoSampleFell(update, ref, <<row.contract, row.method>>)
  PROVE  \A c \in Named(row) : row[c].delta >= 0
<1> DEFINE key == <<row.contract, row.method>>
           new == update.methods[key]
           old == ref.methods[key]
<1>1. key \in DOMAIN update.methods /\ key \in DOMAIN ref.methods
  BY DEF NoSampleFell
<1>2. row.method # "[bytecode length]" /\ row.method # "[construction cost]"
  <2>1. key[2] \notin {"[bytecode length]", "[construction cost]"}
    BY <1>1 DEF WellFormed
  <2> QED BY <2>1
<1>3. PICK k \in comparable(update, ref) : row = MethodRow(k, update.methods[k], ref.methods[k])
  <2>1. \A c, d, e : /\ LengthRow(c, d, e).method = "[bytecode length]"
                     /\ ConstructionRow(c, d, e).method = "[construction cost]"
    BY DEF LengthRow, ConstructionRow
  <2>2. \/ \E c \in Shared(update, ref) :
             \/ row = LengthRow(c, update.deployments[c], ref.deployments[c])
             \/ row = ConstructionRow(c, update.deployments[c], ref.deployments[c])
        \/ \E k \in comparable(update, ref) : row = MethodRow(k, update.methods[k], ref.methods[k])
    BY RowsAre DEF Rows
  <2>3. ASSUME NEW c \in Shared(update, ref),
               \/ row = LengthRow(c, update.deployments[c], ref.deployments[c])
               \/ row = ConstructionRow(c, update.deployments[c], ref.deployments[c])
        PROVE  FALSE
    <3>1. CASE row = LengthRow(c, update.deployments[c], ref.deployments[c])
      BY <1>2, <2>1, <3>1, Zenon
    <3>2. CASE row = ConstructionRow(c, update.deployments[c], ref.deployments[c])
      BY <1>2, <2>1, <3>2, Zenon
    <3> QED BY <2>3, <3>1, <3>2
  <2> QED BY <2>2, <2>3, Zenon
<1>4. k \in DOMAIN update.methods /\ k = <<k[1], k[2]>>
  BY <1>3 DEF comparable, WellFormed
<1>5. k = key
  <2>1. row.contract = k[1] /\ row.method = k[2]
    BY <1>3 DEF MethodRow
  <2> QED BY <1>4, <2>1
<1>6. /\ new.gasData \in Gas /\ old.gasData \in Gas
      /\ new.numberOfCalls = Len(new.gasData) /\ old.numberOfCalls = Len(old.gasData)
  BY <1>1 DEF WellFormed
<1>7. Len(new.gasData) > 0 /\ Len(new.gasData) = Len(old.gasData)
  <2>1. new.numberOfCalls > 0 /\ new.numberOfCalls = old.numberOfCalls
    BY <1>3, <1>5 DEF comparable
  <2> QED BY <1>6, <2>1
<1>8. \A i \in DOMAIN new.gasData \cap DOMAIN old.gasData : new.gasData[i] >= old.gasData[i]
  BY DEF NoSampleFell
<1>9. row = MethodRow(key, new, old)
  BY <1>3, <1>5
<1> HIDE DEF new, old, key
<1>10. old.gasData # <<>> /\ new.gasData # <<>> /\ \A i \in 1 .. Len(old.gasData) : new.gasData[i] >= old.gasData[i]
  BY <1>6, <1>7, <1>8, SamplesAre
<1>11. /\ Smallest(new.gasData) >= Smallest(old.gasData)
       /\ Largest(new.gasData) >= Largest(old.gasData)
       /\ roundedAverage(new.gasData) >= roundedAverage(old.gasData)
  BY <1>6, <1>7, <1>10, StatisticsGrow
<1>12. /\ Smallest(new.gasData) \in Nat /\ Smallest(old.gasData) \in Nat
       /\ Largest(new.gasData) \in Nat /\ Largest(old.gasData) \in Nat
       /\ roundedAverage(new.gasData) \in Nat /\ roundedAverage(old.gasData) \in Nat
  BY <1>6, <1>10, SmallestIs, LargestIs, AverageIs
<1>13. row.min.delta >= 0 /\ row.max.delta >= 0 /\ row.avg.delta >= 0
  <2>1. /\ row.min = variation(Smallest(new.gasData), Smallest(old.gasData), BASE_TX_COST)
        /\ row.max = variation(Largest(new.gasData), Largest(old.gasData), BASE_TX_COST)
        /\ row.avg = variation(roundedAverage(new.gasData), roundedAverage(old.gasData), BASE_TX_COST)
    BY <1>9 DEF MethodRow
  <2> QED BY <1>11, <1>12, <2>1 DEF variation
<1>14. Named(row) = {"min", "max", "avg"}
  BY <1>9 DEF Named, MethodRow
<1> QED BY <1>13, <1>14

(* What a percentage is made of, in every cell there is.                   *)
LEMMA CellsTyped ==
  ASSUME NEW update, NEW ref, WellFormed(update), WellFormed(ref), NEW row \in Rows(update, ref),
         NEW c \in Columns, c \in DOMAIN row
  PROVE  /\ c \in Named(row)
         /\ CellIs(row[c])
<1>1. c \in Named(row)
  BY DEF Named, Columns
<1>2. PICK y : Mirrors(row, y)
  BY RowsMirror
<1> QED BY <1>1, <1>2 DEF Mirrors, CellMirrors

LEMMA SignOfProduct ==
  ASSUME NEW m \in Int, NEW n \in Int, n > 0
  PROVE  100 * m * n > 0 <=> m > 0
<1>1. CASE m > 0
  <2>1. 100 * m > 0 /\ 100 * m \in Int
    BY <1>1
  <2> QED BY <1>1, <2>1
<1>2. CASE m <= 0
  <2>1. -m \in Nat /\ n \in Nat
    BY <1>2
  <2>2. (-m) * n \in Nat
    BY <2>1
  <2>3. 100 * m * n = -(100 * ((-m) * n))
    OBVIOUS
  <2>4. 100 * m * n <= 0
    BY <2>2, <2>3
  <2> QED BY <1>2, <2>4
<1> QED BY <1>1, <1>2

(* Whatever two reports are compared, where no sample of a method fell no  *)
(* cell of it is displayed as a gain, and a percentage of what cost more   *)
(* than the base has the sign of the mark beside it.                       *)
THEOREM RegressionsAreShown ==
  ASSUME NEW update, NEW ref, WellFormed(update), WellFormed(ref)
  PROVE  RegressionsShow(update, ref)
<1>1. ASSUME NEW row \in compare(update, ref, TRUE),
             NoSampleFell(update, ref, <<row.contract, row.method>>),
             NEW c \in Columns, c \in DOMAIN row
      PROVE  row[c].delta \in Int /\ row[c].delta >= 0
  <2>1. row \in Rows(update, ref)
    BY ComparedRows
  <2> QED BY <1>1, <2>1, CellsTyped, RegressionsGrow DEF CellIs
<1>2. ASSUME NEW shown \in display("shell", update, ref),
             NoSampleFell(update, ref, <<shown.contract, shown.method>>), NEW c \in Columns
      PROVE  shown.cells[c].colour # "green"
  <2>1. PICK row \in compare(update, ref, TRUE) :
          shown = [contract |-> row.contract, method |-> row.method,
                   cells |-> [d \in Columns |-> formatCellShell(row, d)]]
    BY DEF display, formatCmpShell
  <2>2. /\ shown.contract = row.contract /\ shown.method = row.method
        /\ shown.cells[c] = formatCellShell(row, c)
    BY <2>1
  <2>3. c \in DOMAIN row => row[c].delta \in Int /\ row[c].delta >= 0
    BY <1>1, <1>2, <2>2
  <2>4. CASE c \in DOMAIN row
    BY <2>2, <2>3, <2>4 DEF formatCellShell
  <2>5. CASE c \notin DOMAIN row
    BY <2>2, <2>5 DEF formatCellShell
  <2> QED BY <2>4, <2>5
<1>3. ASSUME NEW shown \in display("markdown", update, ref), NEW c \in Columns,
             shown.cells[c][3] # <<>>
      PROVE  /\ NoSampleFell(update, ref, <<shown.contract, shown.method>>) =>
                  shown.cells[c][3][3] # ":heavy_check_mark:"
             /\ shown.cells[c][3][2].per > 0 =>
                  (shown.cells[c][3][1] = "+" <=> shown.cells[c][3][3] = ":x:")
  <2>1. PICK row \in compare(update, ref, TRUE) :
          shown = [contract |-> row.contract, method |-> row.method,
                   cells |-> [d \in Columns |-> formatCellMarkdown(row, d)]]
    BY DEF display, formatCmpMarkdown
  <2>2. /\ shown.contract = row.contract /\ shown.method = row.method
        /\ shown.cells[c] = formatCellMarkdown(row, c)
    BY <2>1
  <2>3. c \in DOMAIN row
    BY <1>3, <2>2 DEF formatCellMarkdown, dashes
  <2>4. CellIs(row[c])
    BY <2>3, ComparedRows, CellsTyped
  <2> DEFINE prcnt == row[c].prcnt
             mark  == trend(row[c].delta)
             sign  == plusSign(prcnt.of * prcnt.per)
  <2>5. shown.cells[c][3] = IF percentage(prcnt) = <<>> THEN <<>> ELSE Append(percentage(prcnt), mark)
    BY <2>2, <2>3 DEF formatCellMarkdown, texts
  <2>6. shown.cells[c][3] = Append(<<sign, prcnt>>, mark)
    BY <1>3, <2>5 DEF percentage
  <2>7. shown.cells[c][3][1] = sign /\ shown.cells[c][3][2] = prcnt /\ shown.cells[c][3][3] = mark
    BY <2>6
  <2>8. NoSampleFell(update, ref, <<row.contract, row.method>>) => mark # ":heavy_check_mark:"
    <3>1. NoSampleFell(update, ref, <<row.contract, row.method>>) => row[c].delta \in Int /\ row[c].delta >= 0
      BY <1>1, <2>3
    <3> QED BY <3>1 DEF trend
  <2>9. prcnt.per > 0 => (sign = "+" <=> mark = ":x:")
    <3>1. prcnt.of = 100 * row[c].delta /\ prcnt.per \in Int
      BY <2>4 DEF CellIs
    <3>2. prcnt.per > 0 => (prcnt.of * prcnt.per > 0 <=> row[c].delta > 0)
      BY <2>4, <3>1, SignOfProduct DEF CellIs
    <3>3. sign = "+" <=> prcnt.of * prcnt.per > 0
      BY DEF plusSign
    <3>4. mark = ":x:" <=> row[c].delta > 0
      BY <2>4 DEF trend, CellIs
    <3> QED BY <3>2, <3>3, <3>4
  <2> HIDE DEF sign, prcnt, mark
  <2> QED BY <2>2, <2>7, <2>8, <2>9
<1> QED BY <1>2, <1>3 DEF RegressionsShow

(* The reports there are cases of: their gas is of the samples.            *)
LEMMA CostsTyped == \A costs \in Costs : costs \in Gas
<1> USE CasesAssumption
<1>1. <<>> \in Gas
  BY EmptySeq DEF Gas
<1>2. \A a \in Samples : <<a>> \in Gas
  BY DEF Gas
<1>3. \A a, b \in Samples : <<a, b>> \in Gas
  BY DEF Gas
<1> QED BY <1>1, <1>2, <1>3 DEF Costs

LEMMA ReportsWellFormed == \A report \in Reports : WellFormed(report)
<1>1. DOMAIN <<>> = {}
  BY EmptySeq
<1>2. ASSUME NEW t \in MethodTables, NEW key \in DOMAIN t
      PROVE  /\ key = <<key[1], key[2]>>
             /\ key[2] \notin {"[bytecode length]", "[construction cost]"}
             /\ t[key].gasData \in Gas
             /\ t[key].numberOfCalls = Len(t[key].gasData)
  <2>1. PICK costs \in Costs :
          t = [k \in {<<"C", "f()">>} |-> [numberOfCalls |-> Len(costs), gasData |-> costs]]
    BY <1>1, <1>2 DEF MethodTables
  <2>2. costs \in Gas
    BY CostsTyped
  <2>3. key = <<"C", "f()">>
    BY <1>2, <2>1
  <2>4. t[key] = [numberOfCalls |-> Len(costs), gasData |-> costs]
    BY <2>1, <2>3
  <2>5. /\ key = <<key[1], key[2]>>
        /\ key[2] \notin {"[bytecode length]", "[construction cost]"}
    BY <2>3
  <2>6. t[key].gasData \in Gas /\ t[key].numberOfCalls = Len(t[key].gasData)
    BY <2>2, <2>4
  <2> QED BY <2>5, <2>6, Zenon
<1>3. ASSUME NEW t \in DeploymentTables, NEW c \in DOMAIN t
      PROVE  t[c].digits \in Nat /\ t[c].gasData \in Gas
  <2>1. PICK d \in {4, 6}, costs \in Costs : t = [k \in {"C"} |-> [digits |-> d, gasData |-> costs]]
    BY <1>1, <1>3 DEF DeploymentTables
  <2>2. costs \in Gas
    BY CostsTyped
  <2>3. t[c] = [digits |-> d, gasData |-> costs]
    BY <1>3, <2>1
  <2> QED BY <2>2, <2>3
<1>4. ASSUME NEW report \in Reports
      PROVE  WellFormed(report)
  <2>1. \/ report.methods \in MethodTables /\ report.deployments = <<>>
        \/ report.methods = <<>> /\ report.deployments \in DeploymentTables
    BY DEF Reports
  <2> QED BY <1>1, <1>2, <1>3, <2>1 DEF WellFormed
<1> QED BY <1>4

(* Every two of the reports compare the same both ways, and no regression  *)
(* of a method is displayed as a gain.                                     *)
THEOREM ReportsAreAlwaysFair == CasesSpec => []ReportsAreFair
<1>1. CasesInit => ReportsAreFair
  <2> SUFFICES ASSUME CasesInit, args.of = "CompareGasReports"
               PROVE  Antisymmetric(args.update, args.ref) /\ RegressionsShow(args.update, args.ref)
    BY DEF ReportsAreFair
  <2>1. args \in ReportArgs
    BY CasesAre
  <2>2. args.update \in Reports /\ args.ref \in Reports
    BY <2>1 DEF ReportArgs
  <2> QED BY <2>2, ReportsWellFormed, ComparisonsMirror, RegressionsAreShown
<1> QED BY <1>1, CasesStay, PTL

-----------------------------------------------------------------------------
(* Iterations: a function that is defined step by step there is, and what  *)
(* its steps preserve holds of it to the end.                              *)

LEMMA Induction ==
  ASSUME NEW n \in Nat, NEW P, 0 \in P, \A m \in 0 .. n - 1 : m \in P => m + 1 \in P
  PROVE  \A m \in 0 .. n : m \in P
<1> DEFINE missing == (0 .. n) \ P
<1> SUFFICES ASSUME missing # {}
             PROVE  FALSE
  OBVIOUS
<1>1. missing \subseteq Nat
  OBVIOUS
<1>2. PICK m \in missing : \A k \in missing : m <= k
  <2> HIDE DEF missing
  <2> QED BY <1>1, SmallestMember
<1>3. m \in 0 .. n /\ m \notin P /\ m # 0
  OBVIOUS
<1>4. m - 1 \in 0 .. n - 1
  BY <1>3
<1>5. m - 1 \notin missing
  BY <1>2, <1>4
<1>6. m - 1 \in P
  BY <1>4, <1>5
<1>7. (m - 1) + 1 \in P
  BY <1>4, <1>6
<1> QED BY <1>3, <1>7

Iterates(f, S, n, s0, step) ==
  /\ f \in [0 .. n -> S]
  /\ f[0] = s0
  /\ \A i \in 1 .. n : f[i] = step[i][f[i - 1]]

LEMMA Iteration ==
  ASSUME NEW S, NEW n \in Nat, NEW s0 \in S, NEW step \in [1 .. n -> [S -> S]]
  PROVE  \E f : Iterates(f, S, n, s0, step)
<1> DEFINE Upto(m) == \E f \in [0 .. m -> S] : f[0] = s0 /\ \A i \in 1 .. m : f[i] = step[i][f[i - 1]]
           P == {m \in 0 .. n : Upto(m)}
<1>1. 0 \in P
  <2>1. [i \in 0 .. 0 |-> s0] \in [0 .. 0 -> S] /\ [i \in 0 .. 0 |-> s0][0] = s0
    OBVIOUS
  <2>2. \A i \in 1 .. 0 : FALSE
    OBVIOUS
  <2>3. Upto(0)
    BY <2>1, <2>2
  <2> QED BY <2>3
<1>2. ASSUME NEW m \in 0 .. n - 1, m \in P
      PROVE  m + 1 \in P
  <2>1. PICK f \in [0 .. m -> S] : f[0] = s0 /\ \A i \in 1 .. m : f[i] = step[i][f[i - 1]]
    BY <1>2
  <2> DEFINE g == [i \in 0 .. m + 1 |-> IF i = m + 1 THEN step[m + 1][f[m]] ELSE f[i]]
  <2>2. m \in 0 .. m /\ m + 1 \in 1 .. n /\ m \in Nat
    OBVIOUS
  <2>3. step[m + 1][f[m]] \in S
    BY <2>2
  <2>4. g \in [0 .. m + 1 -> S]
    BY <2>2, <2>3
  <2>5. g[0] = s0
    BY <2>1, <2>2
  <2>6. \A i \in 1 .. m + 1 : g[i] = step[i][g[i - 1]]
    BY <2>1, <2>2
  <2> HIDE DEF g
  <2> QED BY <2>2, <2>4, <2>5, <2>6
<1> HIDE DEF Upto
<1>3. \A m \in 0 .. n : m \in P
  <2> HIDE DEF P
  <2> QED BY <1>1, <1>2, Induction
<1>4. n \in 0 .. n
  OBVIOUS
<1> QED BY <1>3, <1>4 DEF Upto, Iterates

-----------------------------------------------------------------------------
(* The migration of imports. *)

Packages == {"contracts", "contracts-upgradeable"}

(* STRING would do, but the provers do not know a string literal to be in  *)
(* it: those of the table and of the cases are named.                      *)
Names ==
  STRING
    \cup {"payment", "utils", "finance", "token/ERC20", "proxy", "PaymentSplitter", "ERC20", "Initializable"}
    \cup UNION {{pathUpdates[i][side].dir, pathUpdates[i][side].name} : i \in DOMAIN pathUpdates, side \in {1, 2}}

Path == [dir : Names, name : Names, upgradeable : BOOLEAN]

ImportType == [package : Packages, file : Path]

(* An entry of the table applied; nothing is left of an empty file. *)
Apply(s, i) == IF s = <<>> THEN <<>> ELSE migrate(s, pathUpdates[i])

LEMMA UpdatedIs ==
  ASSUME NEW S, NEW source \in S, Len(pathUpdates) \in Nat,
         \A s \in S : \A i \in 1 .. Len(pathUpdates) : Apply(s, i) \in S
  PROVE  \E f \in [0 .. Len(pathUpdates) -> S] :
           /\ f[0] = source
           /\ \A i \in 1 .. Len(pathUpdates) : f[i] = Apply(f[i - 1], i)
           /\ updateImportPaths(source) = f[Len(pathUpdates)]
<1> DEFINE N == Len(pathUpdates)
           Is(f) == f = [i \in 0 .. N |->
                           IF i = 0 THEN source
                           ELSE LET before == f[i - 1]
                                IN  IF before = <<>> THEN <<>> ELSE migrate(before, pathUpdates[i])]
           step == [i \in 1 .. N |-> [s \in S |-> Apply(s, i)]]
<1>1. N \in Nat /\ step \in [1 .. N -> [S -> S]]
  OBVIOUS
<1>2. PICK f : f \in [0 .. N -> S] /\ f[0] = source /\ \A i \in 1 .. N : f[i] = step[i][f[i - 1]]
  <2> HIDE DEF step, N
  <2>1. \E f : Iterates(f, S, N, source, step)
    BY <1>1, Iteration
  <2> QED BY <2>1 DEF Iterates
<1>3. \A i \in 1 .. N : f[i - 1] \in S /\ f[i] = Apply(f[i - 1], i)
  <2> TAKE i \in 1 .. N
  <2>1. i - 1 \in 0 .. N
    BY <1>1
  <2>2. f[i - 1] \in S
    BY <1>2, <2>1
  <2>3. step[i][f[i - 1]] = Apply(f[i - 1], i)
    BY <2>2
  <2> QED BY <1>2, <2>2, <2>3
<1>4. Is(f)
  <2> DEFINE g == [i \in 0 .. N |-> IF i = 0 THEN source ELSE Apply(f[i - 1], i)]
  <2>1. \A i \in 0 .. N : f[i] = g[i]
    BY <1>1, <1>2, <1>3
  <2>2. f = g
    <3> HIDE DEF N
    <3>1. g = [i \in 0 .. N |-> g[i]] /\ f = [i \in 0 .. N |-> f[i]]
      BY <1>2
    <3> QED BY <2>1, <3>1
  <2> HIDE DEF N
  <2> QED BY <2>2 DEF Apply
<1>5. updateImportPaths(source) = (CHOOSE g : Is(g))[N]
  BY DEF updateImportPaths
<1>6. PICK g : Is(g) /\ updateImportPaths(source) = g[N]
  <2> HIDE DEF Is
  <2> QED BY <1>4, <1>5
<1>7. g = [i \in 0 .. N |-> IF i = 0 THEN source ELSE Apply(g[i - 1], i)]
  BY <1>6 DEF Apply
<1> HIDE DEF N, Is, step
<1>8. g[0] = source /\ \A i \in 1 .. N : g[i] = Apply(g[i - 1], i)
  <2>1. 0 \in 0 .. N /\ \A i \in 1 .. N : i \in 0 .. N /\ i # 0
    BY <1>1
  <2> QED BY <1>7, <2>1
<1>9. \A i \in 0 .. N : g[i] \in S
  <2> DEFINE P == {i \in 0 .. N : g[i] \in S}
  <2>1. 0 \in P
    BY <1>1, <1>8
  <2>2. \A i \in 0 .. N - 1 : i \in P => i + 1 \in P
    <3> TAKE i \in 0 .. N - 1
    <3>1. i + 1 \in 1 .. N /\ i + 1 \in 0 .. N /\ (i + 1) - 1 = i
      BY <1>1
    <3> QED BY <1>8, <3>1 DEF N
  <2>3. \A i \in 0 .. N : i \in P
    <3> HIDE DEF P
    <3> QED BY <1>1, <2>1, <2>2, Induction
  <2> QED BY <2>3
<1>10. g \in [0 .. N -> S]
  BY <1>7, <1>9
<1> QED BY <1>6, <1>8, <1>10 DEF N

(* What the proofs need to know of the table: no path in it is in the      *)
(* upgradeable package, a path moves to one place, and none moves to a     *)
(* path that moves itself.                                                 *)
Leads(table) ==
  /\ table \in Seq(Path \X Path)
  /\ \A i \in DOMAIN table : ~table[i][1].upgradeable /\ ~table[i][2].upgradeable
  /\ \A i, j \in DOMAIN table : table[i][1] = table[j][1] => table[i][2] = table[j][2]
  /\ \A i, j \in DOMAIN table : table[i][2] # table[j][1]

(* A path as the package has it. *)
In(p, file) == Import(p, [file EXCEPT !.upgradeable = (p = "contracts-upgradeable")])

LEMMA InPackage ==
  ASSUME NEW p \in Packages, NEW file \in Path, ~file.upgradeable
  PROVE  /\ In(p, file) \in ImportType /\ In(p, file).package = p
         /\ In("contracts", file) = Import("contracts", file)
         /\ In("contracts-upgradeable", file) = Import("contracts-upgradeable", getUpgradeablePath(file))
         /\ \A other \in Path : ~other.upgradeable /\ In(p, file) = In(p, other) => file = other
<1>1. file = [dir |-> file.dir, name |-> file.name, upgradeable |-> FALSE]
  BY DEF Path
<1>2. [file EXCEPT !.upgradeable = FALSE] = file
  BY <1>1
<1>3. In(p, file) \in ImportType /\ In(p, file).package = p
  BY DEF In, Import, ImportType, Path
<1>4. In("contracts", file) = Import("contracts", file)
  BY <1>2 DEF In
<1>5. In("contracts-upgradeable", file) = Import("contracts-upgradeable", getUpgradeablePath(file))
  BY DEF In, getUpgradeablePath
<1>6. ASSUME NEW other \in Path, ~other.upgradeable, In(p, file) = In(p, other)
      PROVE  file = other
  <2>1. other = [dir |-> other.dir, name |-> other.name, upgradeable |-> FALSE]
    BY <1>6 DEF Path
  <2>2. In(p, file).file.dir = file.dir /\ In(p, file).file.name = file.name
    BY DEF In, Import, Path
  <2>3. In(p, other).file.dir = other.dir /\ In(p, other).file.name = other.name
    BY DEF In, Import, Path
  <2> QED BY <1>1, <1>6, <2>1, <2>2, <2>3
<1> QED BY <1>3, <1>4, <1>5, <1>6

Old(p, i) == In(p, pathUpdates[i][1])
New(p, i) == In(p, pathUpdates[i][2])

LEMMA EntryTypes ==
  ASSUME Leads(pathUpdates), NEW i \in DOMAIN pathUpdates
  PROVE  /\ pathUpdates[i][1] \in Path /\ ~pathUpdates[i][1].upgradeable
         /\ pathUpdates[i][2] \in Path /\ ~pathUpdates[i][2].upgradeable
<1>1. pathUpdates[i] \in Path \X Path
  BY DEF Leads
<1> QED BY <1>1 DEF Leads

LEMMA OutdatedIs ==
  ASSUME NEW x \in ImportType
  PROVE  IsOutdated(x) <=> \E i \in DOMAIN pathUpdates : x = Old(x.package, i)
<1> DEFINE suffixed(i) == [pathUpdates[i][1] EXCEPT !.upgradeable = (x.package = "contracts-upgradeable")]
<1>1. Outdated[x.package] = {suffixed(i) : i \in DOMAIN pathUpdates}
  BY DEF Outdated, ImportType, Packages
<1>2. x = [package |-> x.package, file |-> x.file]
  BY DEF ImportType
<1>3. \A i \in DOMAIN pathUpdates : x = Old(x.package, i) <=> x.file = suffixed(i)
  <2> HIDE DEF suffixed
  <2>1. \A i \in DOMAIN pathUpdates : Old(x.package, i) = [package |-> x.package, file |-> suffixed(i)]
    BY DEF Old, In, Import, suffixed
  <2> QED BY <1>2, <2>1
<1> HIDE DEF suffixed
<1> QED BY <1>1, <1>3 DEF IsOutdated

LEMMA SuccessorIs ==
  ASSUME Leads(pathUpdates), NEW p \in Packages, NEW i \in DOMAIN pathUpdates
  PROVE  /\ Old(p, i) \in ImportType /\ IsOutdated(Old(p, i)) /\ Old(p, i).package = p
         /\ New(p, i) \in ImportType /\ ~IsOutdated(New(p, i)) /\ New(p, i).package = p
         /\ Successor(Old(p, i)) = New(p, i)
<1>1. /\ pathUpdates[i][1] \in Path /\ ~pathUpdates[i][1].upgradeable
      /\ pathUpdates[i][2] \in Path /\ ~pathUpdates[i][2].upgradeable
  BY EntryTypes
<1>2. Old(p, i) \in ImportType /\ Old(p, i).package = p /\ New(p, i) \in ImportType /\ New(p, i).package = p
  BY <1>1, InPackage DEF Old, New
<1>3. IsOutdated(Old(p, i))
  BY <1>2, OutdatedIs
<1>4. ~IsOutdated(New(p, i))
  <2> SUFFICES ASSUME NEW j \in DOMAIN pathUpdates, New(p, i) = Old(p, j)
               PROVE  FALSE
    BY <1>2, OutdatedIs
  <2>1. pathUpdates[j][1] \in Path /\ ~pathUpdates[j][1].upgradeable
    BY EntryTypes
  <2>2. pathUpdates[i][2] = pathUpdates[j][1]
    BY <1>1, <2>1, InPackage DEF Old, New
  <2> QED BY <2>2 DEF Leads
<1>5. Successor(Old(p, i)) = New(p, i)
  <2> DEFINE old == Old(p, i)
             suffix(file) == [file EXCEPT !.upgradeable = (p = "contracts-upgradeable")]
             j == CHOOSE k \in DOMAIN pathUpdates : suffix(pathUpdates[k][1]) = old.file
  <2>1. \A k \in DOMAIN pathUpdates : Old(p, k) = Import(p, suffix(pathUpdates[k][1]))
                                    /\ New(p, k) = Import(p, suffix(pathUpdates[k][2]))
    BY DEF Old, New, In
  <2>2. old.file = suffix(pathUpdates[i][1])
    BY <2>1 DEF Import
  <2>3. j \in DOMAIN pathUpdates /\ suffix(pathUpdates[j][1]) = old.file
    <3> HIDE DEF suffix, old
    <3> QED BY <2>2
  <2>4. Successor(old) = [old EXCEPT !.file = suffix(pathUpdates[j][2])]
    BY <1>2 DEF Successor
  <2> HIDE DEF j
  <2>5. Old(p, j) = Old(p, i)
    <3> HIDE DEF suffix
    <3> QED BY <2>1, <2>3 DEF Import
  <2>6. pathUpdates[j][1] = pathUpdates[i][1]
    <3>1. pathUpdates[j][1] \in Path /\ ~pathUpdates[j][1].upgradeable
      BY <2>3, EntryTypes
    <3> QED BY <1>1, <2>5, <3>1, InPackage DEF Old
  <2>7. pathUpdates[j][2] = pathUpdates[i][2]
    BY <2>3, <2>6 DEF Leads
  <2>8. old = [package |-> p, file |-> old.file]
    BY <1>2 DEF ImportType
  <2>9. Successor(old) = [package |-> p, file |-> suffix(pathUpdates[i][2])]
    <3> HIDE DEF suffix, old
    <3> QED BY <2>4, <2>7, <2>8
  <2> QED BY <2>1, <2>9 DEF Import
<1> QED BY <1>2, <1>3, <1>4, <1>5

(* The first occurrence is replaced and nothing else. *)
Replaced(r, S, s, old, new) ==
  /\ r \in Seq(S) /\ Len(r) = Len(s)
  /\ \A i \in 1 .. Len(s) : r[i] = s[i] \/ (s[i] = old /\ r[i] = new)
  /\ \A i \in 1 .. Len(s) : s[i] = old /\ (\A j \in 1 .. i - 1 : s[j] # old) => r[i] = new

LEMMA ReplaceIs ==
  ASSUME NEW S, NEW s \in Seq(S), NEW old \in S, NEW new \in S
  PROVE  Replaced(replace(s, old, new), S, s, old, new)
<1> DEFINE r == replace(s, old, new)
           found == {i \in 1 .. Len(s) : s[i] = old}
<1>1. Len(s) \in Nat /\ DOMAIN s = 1 .. Len(s)
  OBVIOUS
<1>2. r = IF found = {} THEN s ELSE [s EXCEPT ![Min(found)] = new]
  BY <1>1 DEF replace
<1>3. CASE found = {}
  BY <1>1, <1>2, <1>3 DEF Replaced
<1>4. CASE found # {}
  <2> DEFINE m == Min(found)
  <2>1. m \in found /\ \A k \in found : m <= k
    <3>1. found \subseteq Nat
      BY <1>1
    <3>2. \E k \in found : \A l \in found : k <= l
      <4> HIDE DEF found
      <4> QED BY <1>4, <3>1, SmallestMember
    <3> HIDE DEF found
    <3> QED BY <3>2 DEF Min
  <2> HIDE DEF m
  <2>2. r = [s EXCEPT ![m] = new]
    BY <1>2, <1>4 DEF m
  <2>3. m \in 1 .. Len(s) /\ s[m] = old
    BY <2>1
  <2>4. r \in Seq(S) /\ Len(r) = Len(s)
    BY <2>2, <2>3
  <2>5. r[m] = new /\ \A i \in 1 .. Len(s) : i # m => r[i] = s[i]
    BY <1>1, <2>2, <2>3
  <2>6. \A i \in 1 .. Len(s) : s[i] = old /\ (\A j \in 1 .. i - 1 : s[j] # old) => i = m
    <3> TAKE i \in 1 .. Len(s)
    <3> HAVE s[i] = old /\ (\A j \in 1 .. i - 1 : s[j] # old)
    <3>1. m <= i
      BY <2>1
    <3>2. m \notin 1 .. i - 1
      BY <2>3
    <3> QED BY <1>1, <2>3, <3>1, <3>2
  <2> HIDE DEF r, found
  <2>7. Replaced(r, S, s, old, new)
    BY <2>3, <2>4, <2>5, <2>6 DEF Replaced
  <2> QED BY <2>7 DEF r
<1> QED BY <1>3, <1>4

(* An entry moves imports to their successors only, and the first of each  *)
(* import it is for.                                                       *)
Applied(r, s, k) ==
  /\ r \in Seq(ImportType) /\ Len(r) = Len(s)
  /\ \A i \in 1 .. Len(s) : r[i] = s[i] \/ (IsOutdated(s[i]) /\ r[i] = Successor(s[i]))
  /\ \A i \in 1 .. Len(s) :
       (\E p \in Packages : s[i] = Old(p, k)) /\ (\A j \in 1 .. i - 1 : s[j] # s[i])
         => r[i] = Successor(s[i])

LEMMA ApplyIs ==
  ASSUME Leads(pathUpdates), NEW s \in Seq(ImportType), NEW k \in DOMAIN pathUpdates
  PROVE  Applied(Apply(s, k), s, k)
<1> DEFINE o1 == Old("contracts", k)
           n1 == New("contracts", k)
           o2 == Old("contracts-upgradeable", k)
           n2 == New("contracts-upgradeable", k)
           q == replace(s, o1, n1)
           r == replace(q, o2, n2)
<1>1. CASE s = <<>>
  <2>1. Apply(s, k) = <<>> /\ Len(s) = 0 /\ s \in Seq(ImportType)
    BY <1>1, EmptySeq DEF Apply
  <2>2. \A i \in 1 .. 0 : FALSE
    OBVIOUS
  <2> QED BY <1>1, <2>1, <2>2 DEF Applied
<1>2. CASE s # <<>>
  <2>1. Apply(s, k) = r
    <3>1. /\ pathUpdates[k][1] \in Path /\ ~pathUpdates[k][1].upgradeable
          /\ pathUpdates[k][2] \in Path /\ ~pathUpdates[k][2].upgradeable
      BY EntryTypes
    <3>2. /\ o1 = Import("contracts", pathUpdates[k][1])
          /\ n1 = Import("contracts", pathUpdates[k][2])
          /\ o2 = Import("contracts-upgradeable", getUpgradeablePath(pathUpdates[k][1]))
          /\ n2 = Import("contracts-upgradeable", getUpgradeablePath(pathUpdates[k][2]))
      BY <3>1, InPackage DEF Old, New, Packages
    <3> HIDE DEF o1, o2, n1, n2
    <3> QED BY <1>2, <3>2 DEF Apply, migrate
  <2>2. /\ o1 \in ImportType /\ n1 \in ImportType /\ o2 \in ImportType /\ n2 \in ImportType
        /\ o1.package = "contracts" /\ n1.package = "contracts"
        /\ o2.package = "contracts-upgradeable" /\ n2.package = "contracts-upgradeable"
        /\ IsOutdated(o1) /\ Successor(o1) = n1
        /\ IsOutdated(o2) /\ Successor(o2) = n2
    BY SuccessorIs DEF Packages
  <2>3. \A p \in Packages : Old(p, k) \in {o1, o2}
    BY DEF Packages
  <2>4. o1 # o2 /\ n1 # o2
    BY <2>2
  <2> HIDE DEF o1, o2, n1, n2
  <2>5. /\ q \in Seq(ImportType) /\ Len(q) = Len(s)
        /\ \A i \in 1 .. Len(s) : q[i] = s[i] \/ (s[i] = o1 /\ q[i] = n1)
        /\ \A i \in 1 .. Len(s) :
             s[i] = o1 /\ (\A j \in 1 .. i - 1 : s[j] # o1) => q[i] = n1
    <3>1. Replaced(q, ImportType, s, o1, n1)
      BY <2>2, ReplaceIs
    <3> HIDE DEF q
    <3> QED BY <3>1 DEF Replaced
  <2> HIDE DEF q
  <2>6. /\ r \in Seq(ImportType) /\ Len(r) = Len(q)
        /\ \A i \in 1 .. Len(q) : r[i] = q[i] \/ (q[i] = o2 /\ r[i] = n2)
        /\ \A i \in 1 .. Len(q) :
             q[i] = o2 /\ (\A j \in 1 .. i - 1 : q[j] # o2) => r[i] = n2
    <3>1. Replaced(r, ImportType, q, o2, n2)
      BY <2>2, <2>5, ReplaceIs
    <3> HIDE DEF r
    <3> QED BY <3>1 DEF Replaced
  <2> HIDE DEF r
  <2>7. \A i \in 1 .. Len(s) : r[i] = s[i] \/ (IsOutdated(s[i]) /\ r[i] = Successor(s[i]))
    <3> TAKE i \in 1 .. Len(s)
    <3>1. q[i] = s[i] \/ (s[i] = o1 /\ q[i] = n1)
      BY <2>5
    <3>2. r[i] = q[i] \/ (q[i] = o2 /\ r[i] = n2)
      BY <2>5, <2>6
    <3> QED BY <2>2, <2>4, <3>1, <3>2
  <2>8. ASSUME NEW i \in 1 .. Len(s), NEW p \in Packages, s[i] = Old(p, k), \A j \in 1 .. i - 1 : s[j] # s[i]
        PROVE  r[i] = Successor(s[i])
    <3>1. r[i] = q[i] \/ (q[i] = o2 /\ r[i] = n2)
      BY <2>5, <2>6
    <3>2. CASE s[i] = o1
      <4>1. q[i] = n1
        BY <2>5, <2>8, <3>2
      <4> QED BY <2>2, <2>4, <3>1, <3>2, <4>1
    <3>3. CASE s[i] = o2
      <4>1. q[i] = o2
        BY <2>4, <2>5, <3>3
      <4>2. \A j \in 1 .. i - 1 : q[j] # o2
        <5> TAKE j \in 1 .. i - 1
        <5>1. j \in 1 .. Len(s) /\ s[j] # o2
          BY <2>8, <3>3
        <5>2. q[j] = s[j] \/ q[j] = n1
          BY <2>5, <5>1
        <5> QED BY <2>4, <5>1, <5>2
      <4>3. r[i] = n2
        BY <2>5, <2>6, <4>1, <4>2
      <4> QED BY <2>2, <3>3, <4>3
    <3> QED BY <2>3, <2>8, <3>2, <3>3
  <2>9. Applied(r, s, k)
    BY <2>5, <2>6, <2>7, <2>8 DEF Applied
  <2> QED BY <2>1, <2>9
<1> QED BY <1>1, <1>2

LEMMA SuccessorsStay ==
  ASSUME Leads(pathUpdates), NEW x \in ImportType, IsOutdated(x)
  PROVE  Successor(x) \in ImportType /\ ~IsOutdated(Successor(x)) /\ Successor(x) # x
<1>1. x.package \in Packages
  BY DEF ImportType
<1>2. PICK i \in DOMAIN pathUpdates : x = Old(x.package, i)
  BY OutdatedIs
<1> QED BY <1>1, <1>2, SuccessorIs

(* Imports are only ever moved to their successors. *)
Evolved(r, s) ==
  /\ r \in Seq(ImportType) /\ Len(r) = Len(s)
  /\ \A i \in 1 .. Len(s) : r[i] = s[i] \/ (IsOutdated(s[i]) /\ r[i] = Successor(s[i]))

LEMMA EvolvesOn ==
  ASSUME Leads(pathUpdates), NEW s \in Seq(ImportType), NEW t, NEW r, Evolved(t, s), Evolved(r, t)
  PROVE  Evolved(r, s) /\ \A i \in 1 .. Len(s) : t[i] # s[i] => r[i] = t[i]
<1>1. ASSUME NEW i \in 1 .. Len(s)
      PROVE  /\ r[i] = s[i] \/ (IsOutdated(s[i]) /\ r[i] = Successor(s[i]))
             /\ t[i] # s[i] => r[i] = t[i]
  <2>1. s[i] \in ImportType
    OBVIOUS
  <2>2. t[i] = s[i] \/ (IsOutdated(s[i]) /\ t[i] = Successor(s[i]))
    BY DEF Evolved
  <2>3. r[i] = t[i] \/ (IsOutdated(t[i]) /\ r[i] = Successor(t[i]))
    BY DEF Evolved
  <2> QED BY <2>1, <2>2, <2>3, SuccessorsStay
<1>2. r \in Seq(ImportType) /\ Len(r) = Len(s)
  BY DEF Evolved
<1> QED BY <1>1, <1>2 DEF Evolved

(* The entries one after the other: after entry k the first of every       *)
(* import an entry up to it is for has been moved.                         *)
LEMMA UpdateIs ==
  ASSUME Leads(pathUpdates), NEW s \in Seq(ImportType)
  PROVE  /\ Evolved(updateImportPaths(s), s)
         /\ \A i \in 1 .. Len(s) :
              IsOutdated(updateImportPaths(s)[i]) => \E j \in 1 .. i - 1 : s[j] = s[i]
<1> DEFINE N == Len(pathUpdates)
           u == updateImportPaths(s)
           First(i) == \A j \in 1 .. i - 1 : s[j] # s[i]
           After(r, k) == \A i \in 1 .. Len(s) :
                            First(i) /\ (\E m \in 1 .. k : \E p \in Packages : s[i] = Old(p, m))
                              => r[i] = Successor(s[i])
<1>1. N \in Nat /\ DOMAIN pathUpdates = 1 .. N
  BY DEF Leads
<1>2. \A r \in Seq(ImportType) : \A k \in 1 .. N : Apply(r, k) \in Seq(ImportType) /\ Applied(Apply(r, k), r, k)
  BY <1>1, ApplyIs DEF Applied
<1>3. PICK f : /\ f[0] = s
               /\ \A i \in 1 .. N : f[i] = Apply(f[i - 1], i)
               /\ u = f[N]
               /\ f \in [0 .. N -> Seq(ImportType)]
  <2>1. \A r \in Seq(ImportType) : \A k \in 1 .. N : Apply(r, k) \in Seq(ImportType)
    BY <1>2
  <2> QED BY <1>1, <2>1, UpdatedIs
<1> HIDE DEF u
<1>4. Evolved(s, s) /\ Len(s) \in Nat
  BY DEF Evolved
<1> DEFINE P == {k \in 0 .. N : Evolved(f[k], s) /\ After(f[k], k)}
<1>5. 0 \in P
  <2>1. \A m \in 1 .. 0 : FALSE
    OBVIOUS
  <2>2. 0 \in 0 .. N
    BY <1>1
  <2> HIDE DEF N
  <2> QED BY <1>3, <1>4, <2>1, <2>2
<1>6. ASSUME NEW k \in 0 .. N - 1, k \in P
      PROVE  k + 1 \in P
  <2> DEFINE t == f[k]
             r == f[k + 1]
  <2>1. k + 1 \in 1 .. N /\ k \in 0 .. N /\ k + 1 \in 0 .. N /\ (k + 1) - 1 = k /\ k \in Nat
    BY <1>1
  <2>2. Evolved(t, s) /\ After(t, k)
    BY <1>6
  <2>3. t \in Seq(ImportType) /\ Len(t) = Len(s)
    BY <2>2 DEF Evolved
  <2>4. r = Apply(t, k + 1)
    BY <1>3, <2>1
  <2> HIDE DEF t, r
  <2>5. Applied(r, t, k + 1)
    BY <1>2, <2>1, <2>3, <2>4
  <2>6. Evolved(r, t)
    BY <2>5 DEF Applied, Evolved
  <2>7. Evolved(r, s) /\ \A i \in 1 .. Len(s) : t[i] # s[i] => r[i] = t[i]
    BY <2>2, <2>6, EvolvesOn
  <2>8. After(r, k + 1)
    <3> SUFFICES ASSUME NEW i \in 1 .. Len(s), First(i),
                        NEW m \in 1 .. k + 1, NEW p \in Packages, s[i] = Old(p, m)
                 PROVE  r[i] = Successor(s[i])
      OBVIOUS
    <3>1. m \in DOMAIN pathUpdates
      BY <1>1, <2>1
    <3>2. s[i] \in ImportType /\ IsOutdated(s[i])
      BY <3>1, SuccessorIs
    <3>3. t[i] = s[i] \/ t[i] = Successor(s[i])
      BY <2>2 DEF Evolved
    <3>4. CASE t[i] # s[i]
      BY <2>7, <3>3, <3>4
    <3>5. CASE t[i] = s[i]
      <4>1. Successor(s[i]) # s[i]
        BY <3>2, SuccessorsStay
      <4>2. m = k + 1
        <5>1. ~(m \in 1 .. k)
          BY <2>2, <3>5, <4>1
        <5> QED BY <2>1, <5>1
      <4>3. \A j \in 1 .. i - 1 : t[j] # t[i]
        <5> TAKE j \in 1 .. i - 1
        <5>1. j \in 1 .. Len(s) /\ s[j] # s[i]
          BY <1>4
        <5>2. s[j] \in ImportType
          BY <5>1
        <5>3. t[j] = s[j] \/ (IsOutdated(s[j]) /\ t[j] = Successor(s[j]))
          BY <2>2, <5>1 DEF Evolved
        <5> QED BY <3>2, <3>5, <5>1, <5>2, <5>3, SuccessorsStay
      <4> QED BY <2>3, <2>5, <3>5, <4>2, <4>3 DEF Applied
    <3> QED BY <3>4, <3>5
  <2> HIDE DEF After
  <2> QED BY <2>1, <2>7, <2>8 DEF r
<1>7. Evolved(u, s) /\ After(u, N)
  <2>1. \A k \in 0 .. N : k \in P
    <3> HIDE DEF P, N
    <3> QED BY <1>1, <1>5, <1>6, Induction
  <2>2. N \in 0 .. N
    BY <1>1
  <2> HIDE DEF After, N
  <2> QED BY <1>3, <2>1, <2>2
<1>8. ASSUME NEW i \in 1 .. Len(s), IsOutdated(u[i]), First(i)
      PROVE  FALSE
  <2>1. s[i] \in ImportType
    OBVIOUS
  <2>2. u[i] = s[i] \/ (IsOutdated(s[i]) /\ u[i] = Successor(s[i]))
    BY <1>7 DEF Evolved
  <2>3. u[i] = s[i] /\ IsOutdated(s[i])
    BY <1>8, <2>1, <2>2, SuccessorsStay
  <2>4. \E m \in 1 .. N : \E p \in Packages : s[i] = Old(p, m)
    <3>1. s[i].package \in Packages
      BY <2>1 DEF ImportType
    <3> QED BY <1>1, <2>1, <2>3, <3>1, OutdatedIs
  <2>5. u[i] = Successor(s[i])
    BY <1>7, <1>8, <2>4
  <2> QED BY <2>1, <2>3, <2>5, SuccessorsStay
<1> QED BY <1>7, <1>8 DEF u

LEMMA SourcesMigrate ==
  ASSUME Leads(pathUpdates), NEW s \in Seq(ImportType)
  PROVE  SourceMigrates(s)
<1>1. /\ Evolved(updateImportPaths(s), s)
      /\ \A i \in 1 .. Len(s) :
           IsOutdated(updateImportPaths(s)[i]) => \E j \in 1 .. i - 1 : s[j] = s[i]
  BY UpdateIs
<1>2. DOMAIN updateImportPaths(s) = 1 .. Len(s) /\ DOMAIN s = 1 .. Len(s)
  BY <1>1 DEF Evolved
<1> QED BY <1>1, <1>2 DEF SourceMigrates, Evolved

(* An update has nothing left to do after another, unless a file imports   *)
(* something twice.                                                        *)
LEMMA UpdateOnce ==
  ASSUME Leads(pathUpdates), NEW s \in Seq(ImportType), IsInjective(s)
  PROVE  updateImportPaths(updateImportPaths(s)) = updateImportPaths(s)
<1> DEFINE u == updateImportPaths(s)
           v == updateImportPaths(u)
<1>1. /\ Evolved(u, s)
      /\ \A i \in 1 .. Len(s) : IsOutdated(u[i]) => \E j \in 1 .. i - 1 : s[j] = s[i]
  BY UpdateIs
<1> HIDE DEF u
<1>2. u \in Seq(ImportType) /\ Len(u) = Len(s) /\ Len(s) \in Nat /\ DOMAIN s = 1 .. Len(s)
  BY <1>1 DEF Evolved
<1>3. \A i \in 1 .. Len(s) : ~IsOutdated(u[i])
  <2> TAKE i \in 1 .. Len(s)
  <2>1. \A j \in 1 .. i - 1 : j \in DOMAIN s /\ i \in DOMAIN s /\ j # i
    BY <1>2
  <2> QED BY <1>1, <2>1 DEF IsInjective
<1>4. Evolved(v, u)
  BY <1>2, UpdateIs
<1> HIDE DEF v
<1>5. v \in Seq(ImportType) /\ Len(v) = Len(u) /\ \A i \in 1 .. Len(u) : v[i] = u[i]
  BY <1>2, <1>3, <1>4 DEF Evolved
<1> QED BY <1>2, <1>5, SeqEqual DEF u, v

(* One file of main after the other. *)
Visits(F) == [files : [F -> Seq(ImportType)], updated : Seq(F)]

LEMMA VisitTyped ==
  ASSUME Leads(pathUpdates), NEW F, NEW done \in Visits(F), NEW f \in F
  PROVE  Visit(done, f) \in Visits(F)
<1>1. done.files \in [F -> Seq(ImportType)] /\ done.updated \in Seq(F)
  BY DEF Visits
<1>2. updateImportPaths(done.files[f]) \in Seq(ImportType)
  BY <1>1, UpdateIs DEF Evolved
<1>3. updateFile(done.files, f) \in [F -> Seq(ImportType)]
  BY <1>1, <1>2 DEF updateFile
<1>4. Append(done.updated, f) \in Seq(F)
  BY <1>1
<1> QED BY <1>1, <1>3, <1>4 DEF Visit, Visits

Begun(g) == [files |-> g, updated |-> <<>>]

Course(done, F, list, n, g) ==
  /\ done[0] = Begun(g)
  /\ \A i \in 1 .. n : done[i] = Visit(done[i - 1], list[i])
  /\ Visited(list, n, g) = done[n]
  /\ \A i \in 0 .. n : done[i] \in Visits(F)

LEMMA VisitedIs ==
  ASSUME Leads(pathUpdates), NEW F, NEW list \in Seq(F), NEW n \in 0 .. Len(list),
         NEW g \in [F -> Seq(ImportType)]
  PROVE  \E done : Course(done, F, list, n, g)
<1> DEFINE S == Visits(F)
           Is(f) == f = [i \in 0 .. n |->
                           IF i = 0 THEN [files |-> g, updated |-> <<>>]
                           ELSE Visit(f[i - 1], list[i])]
           step == [i \in 1 .. n |-> [s \in S |-> Visit(s, list[i])]]
<1>1. n \in Nat /\ \A i \in 1 .. n : list[i] \in F
  OBVIOUS
<1>2. Begun(g) \in S
  BY EmptySeq DEF Visits, Begun
<1>3. \A s \in S : \A i \in 1 .. n : Visit(s, list[i]) \in S
  BY <1>1, VisitTyped
<1> HIDE DEF S
<1>4. step \in [1 .. n -> [S -> S]]
  BY <1>3
<1>5. PICK f : f \in [0 .. n -> S] /\ f[0] = Begun(g) /\ \A i \in 1 .. n : f[i] = step[i][f[i - 1]]
  <2> HIDE DEF step
  <2>1. \E f : Iterates(f, S, n, Begun(g), step)
    BY <1>1, <1>2, <1>4, Iteration
  <2> QED BY <2>1 DEF Iterates
<1>6. \A i \in 1 .. n : f[i] = Visit(f[i - 1], list[i])
  <2> TAKE i \in 1 .. n
  <2>1. i - 1 \in 0 .. n
    BY <1>1
  <2>2. f[i - 1] \in S
    BY <1>5, <2>1
  <2>3. step[i][f[i - 1]] = Visit(f[i - 1], list[i])
    BY <2>2
  <2> QED BY <1>5, <2>3
<1>7. Is(f)
  <2> DEFINE h == [i \in 0 .. n |-> IF i = 0 THEN Begun(g) ELSE Visit(f[i - 1], list[i])]
  <2>1. \A i \in 0 .. n : f[i] = h[i]
    BY <1>1, <1>5, <1>6
  <2>2. f = h
    <3>1. h = [i \in 0 .. n |-> h[i]] /\ f = [i \in 0 .. n |-> f[i]]
      BY <1>5
    <3> QED BY <2>1, <3>1
  <2> QED BY <2>2 DEF Begun
<1>8. Visited(list, n, g) = (CHOOSE h : Is(h))[n]
  BY DEF Visited
<1>9. PICK h : Is(h) /\ Visited(list, n, g) = h[n]
  <2> HIDE DEF Is
  <2> QED BY <1>7, <1>8
<1>10. h[0] = Begun(g) /\ \A i \in 1 .. n : h[i] = Visit(h[i - 1], list[i])
  <2>1. h = [i \in 0 .. n |-> IF i = 0 THEN Begun(g) ELSE Visit(h[i - 1], list[i])]
    BY <1>9 DEF Begun
  <2>2. 0 \in 0 .. n /\ \A i \in 1 .. n : i \in 0 .. n /\ i # 0
    BY <1>1
  <2> HIDE DEF Is
  <2> QED BY <2>1, <2>2
<1>11. \A i \in 0 .. n : h[i] \in S
  <2> DEFINE P == {i \in 0 .. n : h[i] \in S}
  <2>1. 0 \in P
    BY <1>1, <1>2, <1>10
  <2>2. \A i \in 0 .. n - 1 : i \in P => i + 1 \in P
    <3> TAKE i \in 0 .. n - 1
    <3>1. i + 1 \in 1 .. n /\ i + 1 \in 0 .. n /\ (i + 1) - 1 = i
      BY <1>1
    <3> QED BY <1>3, <1>10, <3>1
  <2>3. \A i \in 0 .. n : i \in P
    <3> HIDE DEF P
    <3> QED BY <1>1, <2>1, <2>2, Induction
  <2> QED BY <2>3
<1> QED BY <1>9, <1>10, <1>11 DEF S, Course

Lists(done, f) == \E i \in DOMAIN done.updated : done.updated[i] = f

(* A file is listed when it has changed, and what a visit writes is never  *)
(* what there was.                                                         *)
Accounted(done, g, f) ==
  Evolved(done.files[f], g[f]) /\ (Lists(done, f) <=> done.files[f] # g[f])

Effect(next, done, x, g, f) ==
  /\ Accounted(next, g, f)
  /\ next.files[f] = IF f = x THEN updateImportPaths(done.files[f]) ELSE done.files[f]

LEMMA VisitAccounts ==
  ASSUME Leads(pathUpdates), NEW F, NEW g \in [F -> Seq(ImportType)],
         NEW done \in Visits(F), NEW x \in F, NEW f \in F, Accounted(done, g, f)
  PROVE  Effect(Visit(done, x), done, x, g, f)
<1> DEFINE next == Visit(done, x)
           s == g[f]
           t == done.files[f]
           r == updateImportPaths(t)
<1>1. done.files \in [F -> Seq(ImportType)] /\ done.updated \in Seq(F)
  BY DEF Visits
<1>2. next.files[f] = IF f = x THEN r ELSE t
  BY <1>1 DEF Visit, updateFile
<1>3. Lists(next, f) <=> Lists(done, f) \/ (f = x /\ r # t)
  <2>1. next.updated = IF updateImportPaths(done.files[x]) # done.files[x]
                       THEN Append(done.updated, x) ELSE done.updated
    BY DEF Visit, Writes
  <2>2. \A h \in Seq(F) : (\E i \in DOMAIN Append(h, x) : Append(h, x)[i] = f) <=>
                            (\E i \in DOMAIN h : h[i] = f) \/ f = x
    <3> TAKE h \in Seq(F)
    <3>1. DOMAIN h = 1 .. Len(h) /\ Len(h) \in Nat /\ DOMAIN Append(h, x) = 1 .. Len(h) + 1
      OBVIOUS
    <3>2. Append(h, x)[Len(h) + 1] = x /\ \A i \in 1 .. Len(h) : Append(h, x)[i] = h[i]
      OBVIOUS
    <3> DEFINE a == Append(h, x)
               m == Len(h)
    <3>3. 1 .. m + 1 = (1 .. m) \cup {m + 1}
      BY <3>1
    <3>4. DOMAIN a = (1 .. m) \cup {m + 1} /\ a[m + 1] = x /\ \A i \in 1 .. m : a[i] = h[i]
      BY <3>1, <3>2, <3>3
    <3> HIDE DEF a, m
    <3>5. (\E i \in DOMAIN a : a[i] = f) <=> (\E i \in 1 .. m : h[i] = f) \/ f = x
      BY <3>4
    <3> QED BY <3>1, <3>5 DEF a, m
  <2>3. CASE updateImportPaths(done.files[x]) # done.files[x]
    <3>1. next.updated = Append(done.updated, x)
      BY <2>1, <2>3
    <3>2. Lists(next, f) <=> Lists(done, f) \/ f = x
      BY <1>1, <2>2, <3>1 DEF Lists
    <3> QED BY <2>3, <3>2
  <2>4. CASE updateImportPaths(done.files[x]) = done.files[x]
    <3>1. next.updated = done.updated
      BY <2>1, <2>4
    <3> QED BY <2>4, <3>1 DEF Lists
  <2> QED BY <2>3, <2>4
<1>4. s \in Seq(ImportType) /\ t \in Seq(ImportType)
  BY <1>1
<1>5. Evolved(t, s) /\ (Lists(done, f) <=> t # s)
  BY DEF Accounted
<1>6. Evolved(r, t)
  BY <1>4, UpdateIs
<1> HIDE DEF next, s, t, r
<1>7. Evolved(r, s) /\ \A i \in 1 .. Len(s) : t[i] # s[i] => r[i] = t[i]
  BY <1>4, <1>5, <1>6, EvolvesOn
<1>8. t # s => r # s
  <2> SUFFICES ASSUME t # s
               PROVE  r # s
    OBVIOUS
  <2>1. PICK i \in 1 .. Len(s) : t[i] # s[i]
    BY <1>4, <1>5, SeqEqual DEF Evolved
  <2> QED BY <1>7, <2>1
<1>9. Accounted(next, g, f)
  <2>1. Evolved(next.files[f], s)
    BY <1>2, <1>5, <1>7
  <2>2. Lists(next, f) <=> next.files[f] # s
    BY <1>2, <1>3, <1>5, <1>8
  <2> QED BY <2>1, <2>2 DEF Accounted, s
<1> QED BY <1>2, <1>9 DEF Effect, next, r, t

(* What main has done after n files: it lists what it has changed, has     *)
(* changed only files there were, and each of them as often as it likes    *)
(* where once is as good as twice.                                         *)
Done(d, F, list, n, g) ==
  \A f \in F :
    /\ Lists(d, f) <=> d.files[f] # g[f]
    /\ (\A i \in 1 .. n : list[i] # f) => d.files[f] = g[f]
    /\ (\E i \in 1 .. n : list[i] = f)
         /\ updateImportPaths(updateImportPaths(g[f])) = updateImportPaths(g[f])
         => d.files[f] = updateImportPaths(g[f])

LEMMA VisitedFiles ==
  ASSUME Leads(pathUpdates), NEW F, NEW list \in Seq(F), NEW n \in 0 .. Len(list),
         NEW g \in [F -> Seq(ImportType)]
  PROVE  /\ Visited(list, n, g) \in Visits(F)
         /\ Done(Visited(list, n, g), F, list, n, g)
<1> DEFINE U(s) == updateImportPaths(s)
           Came(k, f) == \E i \in 1 .. k : list[i] = f
           Holds(d, k, f) == /\ Accounted(d, g, f)
                             /\ ~Came(k, f) => d.files[f] = g[f]
                             /\ Came(k, f) /\ U(U(g[f])) = U(g[f]) => d.files[f] = U(g[f])
<1>1. PICK done : /\ done[0] = Begun(g)
                  /\ \A i \in 1 .. n : done[i] = Visit(done[i - 1], list[i])
                  /\ Visited(list, n, g) = done[n]
                  /\ \A i \in 0 .. n : done[i] \in Visits(F)
  <2>1. \E done : Course(done, F, list, n, g)
    BY VisitedIs
  <2> QED BY <2>1 DEF Course
<1>2. n \in Nat /\ \A i \in 1 .. n : list[i] \in F
  OBVIOUS
<1> HIDE DEF U
<1> DEFINE P == {k \in 0 .. n : \A f \in F : Holds(done[k], k, f)}
<1>3. 0 \in P
  <2> SUFFICES ASSUME NEW f \in F
               PROVE  Holds(done[0], 0, f)
    BY <1>2
  <2>1. done[0].files = g /\ done[0].updated = <<>>
    BY <1>1 DEF Begun
  <2>2. ~Lists(done[0], f)
    BY <2>1, EmptySeq DEF Lists
  <2>3. Evolved(g[f], g[f])
    BY DEF Evolved
  <2>4. ~Came(0, f)
    OBVIOUS
  <2> HIDE DEF Came
  <2> QED BY <2>1, <2>2, <2>3, <2>4 DEF Accounted
<1>4. ASSUME NEW k \in 0 .. n - 1, k \in P
      PROVE  k + 1 \in P
  <2>1. k + 1 \in 1 .. n /\ k \in 0 .. n /\ k + 1 \in 0 .. n /\ (k + 1) - 1 = k /\ k \in Nat
    BY <1>2
  <2> DEFINE d == done[k]
             x == list[k + 1]
             e == done[k + 1]
  <2>2. d \in Visits(F) /\ x \in F /\ e = Visit(d, x)
    BY <1>1, <1>2, <2>1
  <2>3. ASSUME NEW f \in F
        PROVE  Holds(e, k + 1, f)
    <3>1. Holds(d, k, f)
      BY <1>4
    <3>2. Came(k + 1, f) <=> Came(k, f) \/ f = x
      <4>1. 1 .. k + 1 = (1 .. k) \cup {k + 1}
        BY <2>1
      <4> QED BY <4>1
    <3> HIDE DEF d, x, e, Came
    <3>3. /\ Accounted(e, g, f)
          /\ e.files[f] = IF f = x THEN U(d.files[f]) ELSE d.files[f]
      <4>1. Accounted(d, g, f)
        BY <3>1
      <4>2. Effect(Visit(d, x), d, x, g, f)
        BY <2>2, <4>1, VisitAccounts
      <4> QED BY <2>2, <4>2 DEF Effect, U
    <3>4. CASE f # x
      BY <3>1, <3>2, <3>3, <3>4
    <3>5. CASE f = x
      <4>1. e.files[f] = U(d.files[f]) /\ Came(k + 1, f)
        BY <3>2, <3>3, <3>5
      <4>2. ASSUME U(U(g[f])) = U(g[f])
            PROVE  e.files[f] = U(g[f])
        <5>1. d.files[f] = g[f] \/ d.files[f] = U(g[f])
          BY <3>1, <4>2
        <5> QED BY <4>1, <4>2, <5>1
      <4> QED BY <3>3, <4>1, <4>2
    <3> QED BY <3>4, <3>5
  <2> HIDE DEF Holds
  <2> QED BY <2>1, <2>3 DEF e
<1>5. \A f \in F : Holds(done[n], n, f)
  <2>1. \A k \in 0 .. n : k \in P
    <3> HIDE DEF P
    <3> QED BY <1>2, <1>3, <1>4, Induction
  <2>2. n \in 0 .. n
    BY <1>2
  <2> HIDE DEF Holds
  <2> QED BY <2>1, <2>2
<1>6. done[n] \in Visits(F)
  BY <1>1, <1>2
<1>7. Done(done[n], F, list, n, g)
  <2> DEFINE d == done[n]
  <2> HIDE DEF d
  <2>1. \A f \in F : Holds(d, n, f)
    BY <1>5 DEF d
  <2>2. Done(d, F, list, n, g)
    BY <2>1 DEF Accounted, Done, U
  <2> QED BY <2>2 DEF d
<1> QED BY <1>1, <1>6, <1>7

(* What is listed: nothing but .sol files of the tree. *)
Sols(tree) == {d \in DOMAIN tree : tree[d].isFile /\ tree[d].isSol}

IsTree(tree) ==
  IsFiniteSet(DOMAIN tree) /\ \A d \in DOMAIN tree : tree[d].names \in Seq(DOMAIN tree)

Walks(tree) == [queue : Seq(DOMAIN tree), files : Seq(Sols(tree))]

LEMMA ShiftTyped ==
  ASSUME NEW tree, IsTree(tree), NEW walk \in Walks(tree)
  PROVE  Shift(tree, walk) \in Walks(tree)
<1> DEFINE top == Head(walk.queue)
<1>1. walk.queue \in Seq(DOMAIN tree) /\ walk.files \in Seq(Sols(tree))
      /\ walk = [queue |-> walk.queue, files |-> walk.files]
  BY DEF Walks
<1>2. CASE walk.queue = <<>>
  BY <1>2 DEF Shift
<1>3. CASE walk.queue # <<>>
  <2>1. top \in DOMAIN tree /\ Tail(walk.queue) \in Seq(DOMAIN tree)
    BY <1>1, <1>3, HeadTailProperties
  <2>2. tree[top].names \in Seq(DOMAIN tree)
    BY <2>1 DEF IsTree
  <2> HIDE DEF top
  <2>3. CASE tree[top].isFile
    <3>1. Shift(tree, walk) = [queue |-> Tail(walk.queue),
                               files |-> IF tree[top].isSol THEN Append(walk.files, top) ELSE walk.files]
      BY <1>3, <2>3 DEF Shift, top
    <3>2. tree[top].isSol => Append(walk.files, top) \in Seq(Sols(tree))
      <4>1. tree[top].isSol => top \in Sols(tree)
        BY <2>1, <2>3 DEF Sols
      <4> QED BY <1>1, <4>1
    <3> QED BY <1>1, <2>1, <3>1, <3>2 DEF Walks
  <2>4. CASE ~tree[top].isFile
    <3>1. Shift(tree, walk) = [walk EXCEPT !.queue = Tail(@) \o tree[top].names]
      BY <1>3, <2>4 DEF Shift, top
    <3>2. Tail(walk.queue) \o tree[top].names \in Seq(DOMAIN tree)
      BY <2>1, <2>2, ConcatProperties
    <3>3. Shift(tree, walk) = [queue |-> Tail(walk.queue) \o tree[top].names, files |-> walk.files]
      BY <1>1, <3>1
    <3> QED BY <1>1, <3>2, <3>3 DEF Walks
  <2> QED BY <2>3, <2>4
<1> QED BY <1>2, <1>3

LEMMA OnlySolsListed ==
  ASSUME NEW tree, IsTree(tree), NEW paths \in Seq(DOMAIN tree)
  PROVE  listFilesRecursively(tree, paths) \in Seq(Sols(tree))
<1> DEFINE S == Walks(tree)
           n == Turns(tree, paths)
           s0 == [queue |-> paths, files |-> <<>>]
           Is(f) == f = [i \in 0 .. n |->
                           IF i = 0 THEN [queue |-> paths, files |-> <<>>] ELSE Shift(tree, f[i - 1])]
           step == [i \in 1 .. n |-> [s \in S |-> Shift(tree, s)]]
<1>1. n \in Nat
  <2>1. Cardinality(DOMAIN tree) \in Nat /\ Len(paths) \in Nat
    BY FS_CardinalityType DEF IsTree
  <2> QED BY <2>1 DEF Turns
<1>2. s0 \in S
  BY EmptySeq DEF Walks
<1>3. \A s \in S : Shift(tree, s) \in S
  BY ShiftTyped
<1> HIDE DEF S, n
<1>4. step \in [1 .. n -> [S -> S]]
  BY <1>3
<1>5. PICK f : f \in [0 .. n -> S] /\ f[0] = s0 /\ \A i \in 1 .. n : f[i] = step[i][f[i - 1]]
  <2> HIDE DEF step, s0
  <2>1. \E f : Iterates(f, S, n, s0, step)
    BY <1>1, <1>2, <1>4, Iteration
  <2> QED BY <2>1 DEF Iterates
<1>6. \A i \in 1 .. n : f[i] = Shift(tree, f[i - 1])
  <2> TAKE i \in 1 .. n
  <2>1. i - 1 \in 0 .. n
    BY <1>1
  <2>2. f[i - 1] \in S
    BY <1>5, <2>1
  <2>3. step[i][f[i - 1]] = Shift(tree, f[i - 1])
    BY <2>2
  <2> QED BY <1>5, <2>3
<1>7. Is(f)
  <2> DEFINE h == [i \in 0 .. n |-> IF i = 0 THEN s0 ELSE Shift(tree, f[i - 1])]
  <2>1. \A i \in 0 .. n : f[i] = h[i]
    BY <1>1, <1>5, <1>6
  <2>2. f = h
    <3>1. h = [i \in 0 .. n |-> h[i]] /\ f = [i \in 0 .. n |-> f[i]]
      BY <1>5
    <3> QED BY <2>1, <3>1
  <2> QED BY <2>2
<1>8. listFilesRecursively(tree, paths) = (CHOOSE h : Is(h))[n].files
  BY DEF listFilesRecursively, n
<1>9. PICK h : Is(h) /\ listFilesRecursively(tree, paths) = h[n].files
  <2> HIDE DEF Is
  <2> QED BY <1>7, <1>8
<1>10. h[0] = s0 /\ \A i \in 1 .. n : h[i] = Shift(tree, h[i - 1])
  <2>1. h = [i \in 0 .. n |-> IF i = 0 THEN s0 ELSE Shift(tree, h[i - 1])]
    BY <1>9
  <2>2. 0 \in 0 .. n /\ \A i \in 1 .. n : i \in 0 .. n /\ i # 0
    BY <1>1
  <2> HIDE DEF Is, s0
  <2> QED BY <2>1, <2>2
<1>11. \A i \in 0 .. n : h[i] \in S
  <2> DEFINE P == {i \in 0 .. n : h[i] \in S}
  <2>1. 0 \in P
    BY <1>1, <1>2, <1>10
  <2>2. \A i \in 0 .. n - 1 : i \in P => i + 1 \in P
    <3> TAKE i \in 0 .. n - 1
    <3>1. i + 1 \in 1 .. n /\ i + 1 \in 0 .. n /\ (i + 1) - 1 = i
      BY <1>1
    <3> QED BY <1>3, <1>10, <3>1
  <2>3. \A i \in 0 .. n : i \in P
    <3> HIDE DEF P
    <3> QED BY <1>1, <2>1, <2>2, Induction
  <2> QED BY <2>3
<1>12. h[n] \in S
  BY <1>1, <1>11
<1> QED BY <1>9, <1>12 DEF S, Walks

(* A run that is killed, and what it lists. *)
LEMMA MigrationsAreResumed ==
  ASSUME Leads(pathUpdates), NEW tree, IsTree(tree), NEW paths \in Seq(DOMAIN tree),
         NEW F, Sols(tree) \subseteq F, NEW files \in [F -> Seq(ImportType)]
  PROVE  MigrationResumes(tree, paths, files)
<1> DEFINE list == listFilesRecursively(tree, paths)
           n == Len(list)
           ran == Visited(list, n, files)
<1>1. list \in Seq(Sols(tree)) /\ list \in Seq(F) /\ n \in Nat /\ n \in 0 .. n
      /\ \A i \in 1 .. n : list[i] \in Sols(tree)
  <2>1. list \in Seq(Sols(tree))
    BY OnlySolsListed
  <2> HIDE DEF list
  <2> QED BY <2>1
<1>2. DOMAIN files = F
  OBVIOUS
<1>3. /\ \A g : main(tree, paths, g) = Visited(list, n, g)
      /\ \A k : MainUntil(k, tree, paths, files) = Visited(list, k, files)
  BY DEF main, MainUntil
<1> HIDE DEF list, n
<1>4. ran \in Visits(F) /\ Done(ran, F, list, n, files)
  BY <1>1, VisitedFiles DEF n
<1>5. ASSUME NEW k \in 0 .. n, \A f \in F : IsInjective(files[f])
      PROVE  Visited(list, n, Visited(list, k, files).files).files = ran.files
  <2> DEFINE killed == Visited(list, k, files)
             g == killed.files
             again == Visited(list, n, g)
             U(s) == updateImportPaths(s)
  <2>1. killed \in Visits(F) /\ Done(killed, F, list, k, files)
    BY <1>1, VisitedFiles DEF n
  <2> HIDE DEF killed, U
  <2>2. g \in [F -> Seq(ImportType)]
    BY <2>1 DEF Visits
  <2> HIDE DEF g
  <2>3. again \in Visits(F) /\ Done(again, F, list, n, g)
    BY <1>1, <2>2, VisitedFiles DEF n
  <2> HIDE DEF ran, again
  <2>4. \A f \in F : again.files[f] = ran.files[f]
    <3> TAKE f \in F
    <3> DEFINE Came(m) == \E i \in 1 .. m : list[i] = f
    <3>1. U(U(files[f])) = U(files[f])
      BY <1>5, UpdateOnce DEF U
    <3>2. Came(k) => Came(n)
      BY <1>1
    <3>3. /\ ~Came(k) => g[f] = files[f]
          /\ Came(k) => g[f] = U(files[f])
      BY <2>1, <3>1 DEF Done, g, U
    <3>4. /\ ~Came(n) => ran.files[f] = files[f]
          /\ Came(n) => ran.files[f] = U(files[f])
      BY <1>4, <3>1 DEF Done, U
    <3>5. U(U(g[f])) = U(g[f]) /\ (Came(k) => U(g[f]) = U(files[f]))
      BY <3>1, <3>3
    <3>6. /\ ~Came(n) => again.files[f] = g[f]
          /\ Came(n) => again.files[f] = U(g[f])
      BY <2>3, <3>5 DEF Done, U
    <3> HIDE DEF Came
    <3> QED BY <3>2, <3>3, <3>4, <3>5, <3>6
  <2>5. again.files \in [F -> Seq(ImportType)] /\ ran.files \in [F -> Seq(ImportType)]
    BY <1>4, <2>3 DEF Visits
  <2>6. again.files = ran.files
    BY <2>4, <2>5
  <2> QED BY <2>6 DEF again, g, killed
<1> HIDE DEF ran
<1>6. \A f \in F : Lists(ran, f) <=> ran.files[f] # files[f]
  BY <1>4 DEF Done
<1>7. ASSUME NEW f \in F, ~tree[f].isSol
      PROVE  ran.files[f] = files[f]
  <2>1. f \notin Sols(tree)
    BY <1>7 DEF Sols
  <2>2. \A i \in 1 .. n : list[i] # f
    BY <1>1, <2>1
  <2> QED BY <1>4, <2>2 DEF Done
<1> QED BY <1>2, <1>3, <1>5, <1>6, <1>7 DEF MigrationResumes, Lists, ran, n, list

(* The checkouts there are cases of. *)
LEMMA AtIsPath == \A dir, name \in Names : At(dir, name) \in Path /\ ~At(dir, name).upgradeable
BY DEF At, Path

LEMMA ImportsTyped == Imports \subseteq ImportType
<1>1. \A file \in Path : Import("contracts", file) \in ImportType
  BY DEF Import, ImportType, Packages
<1>2. \A file \in Path : Import("contracts-upgradeable", getUpgradeablePath(file)) \in ImportType
  BY DEF Import, ImportType, Packages, getUpgradeablePath, Path
<1>3. /\ At("payment", "PaymentSplitter") \in Path /\ At("utils", "PaymentSplitter") \in Path
      /\ At("finance", "PaymentSplitter") \in Path /\ At("token/ERC20", "ERC20") \in Path
      /\ At("proxy", "Initializable") \in Path
  <2>1. /\ "payment" \in Names /\ "utils" \in Names /\ "finance" \in Names /\ "token/ERC20" \in Names
        /\ "proxy" \in Names /\ "PaymentSplitter" \in Names /\ "ERC20" \in Names
        /\ "Initializable" \in Names
    BY DEF Names
  <2> QED BY <2>1, AtIsPath, Zenon
<1> QED BY <1>1, <1>2, <1>3 DEF Imports

LEMMA SourcesTyped == \A source \in Sources : source \in Seq(ImportType)
<1>1. <<>> \in Seq(ImportType)
  BY EmptySeq
<1>2. \A a \in Imports : <<a>> \in Seq(ImportType)
  BY ImportsTyped
<1>3. \A a, b \in Imports : <<a, b>> \in Seq(ImportType)
  BY ImportsTyped
<1> TAKE source \in Sources
<1>4. \/ source = <<>>
      \/ \E a \in Imports : source = <<a>>
      \/ \E a, b \in Imports : source = <<a, b>>
  BY DEF Sources
<1> QED BY <1>1, <1>2, <1>3, <1>4, Zenon

LEMMA TreeIs ==
  /\ IsTree(Tree) /\ Sols(Tree) = {"A.sol", "B.sol"}
  /\ <<"contracts">> \in Seq(DOMAIN Tree) /\ <<"contracts", "sub">> \in Seq(DOMAIN Tree)
<1> DEFINE D == {"contracts", "A.sol", "sub", "B.sol", "notes.md"}
<1>1. DOMAIN Tree = D
  BY DEF Tree
<1>2. IsFiniteSet(D)
  <2>1. D = (((({} \cup {"contracts"}) \cup {"A.sol"}) \cup {"sub"}) \cup {"B.sol"}) \cup {"notes.md"}
    OBVIOUS
  <2>2. \A S, x : IsFiniteSet(S) => IsFiniteSet(S \cup {x})
    BY FS_AddElement
  <2>3. IsFiniteSet({})
    BY FS_EmptySet
  <2> HIDE DEF D
  <2> QED BY <2>1, <2>2, <2>3, Zenon
<1>3. /\ <<>> \in Seq(D) /\ \A d \in D : <<d>> \in Seq(D)
      /\ \A d, e \in D : <<d, e>> \in Seq(D)
  <2> HIDE DEF D
  <2>1. \A d \in D : <<d>> \in Seq(D)
    OBVIOUS
  <2>2. \A d, e \in D : <<d, e>> \in Seq(D)
    OBVIOUS
  <2> QED BY <2>1, <2>2, EmptySeq
<1>4. "contracts" \in D /\ "A.sol" \in D /\ "sub" \in D /\ "B.sol" \in D /\ "notes.md" \in D
  OBVIOUS
<1>5. \A d \in D : Tree[d].names = (CASE d = "contracts" -> <<"A.sol", "sub">>
                                     [] d = "sub"       -> <<"B.sol", "notes.md">>
                                     [] OTHER           -> <<>>)
  BY DEF Tree
<1>6. \A d \in D : Tree[d].names \in Seq(D)
  <2> TAKE d \in D
  <2> HIDE DEF D
  <2>1. CASE d = "contracts"
    BY <1>3, <1>4, <1>5, <2>1
  <2>2. CASE d = "sub"
    BY <1>3, <1>4, <1>5, <2>2
  <2>3. CASE d # "contracts" /\ d # "sub"
    BY <1>3, <1>5, <2>3
  <2> QED BY <2>1, <2>2, <2>3
<1>7. Sols(Tree) = {"A.sol", "B.sol"}
  BY DEF Sols, Tree
<1>8. IsTree(Tree)
  BY <1>1, <1>2, <1>6 DEF IsTree
<1>9. <<"contracts">> \in Seq(D) /\ <<"contracts", "sub">> \in Seq(D)
  <2> HIDE DEF D
  <2> QED BY <1>3, <1>4
<1> QED BY <1>1, <1>7, <1>8, <1>9

(* A run that is killed and started again ends where one run would have,   *)
(* what it lists is what it changed, and of every file no import has       *)
(* become anything but its successor.                                      *)
LEMMA CheckoutsMigrate ==
  ASSUME Leads(pathUpdates), CasesInit
  PROVE  MigrationsResume
<1> SUFFICES ASSUME args.of = "MigrateImports"
             PROVE  MigrationsResume
  BY DEF MigrationsResume
<1> DEFINE F == {"A.sol", "B.sol", "notes.md"}
           files == [f \in F |-> IF f = "A.sol" THEN args.files.A ELSE args.files.B]
<1>1. args.files.A \in Seq(ImportType) /\ args.files.B \in Seq(ImportType)
  <2>1. args.files \in Checkouts
    BY CasesAre DEF MigrationArgs
  <2>2. args.files.A \in Sources /\ args.files.B \in Sources
    BY <2>1 DEF Checkouts
  <2> QED BY <2>2, SourcesTyped
<1>2. files \in [F -> Seq(ImportType)]
  BY <1>1
<1>3. Sols(Tree) \subseteq F
  BY TreeIs
<1>4. SourceMigrates(args.files.A)
  BY <1>1, SourcesMigrate
<1> HIDE DEF F
<1>5. /\ MigrationResumes(Tree, <<"contracts">>, files)
      /\ MigrationResumes(Tree, <<"contracts", "sub">>, files)
  <2> HIDE DEF files
  <2> QED BY <1>2, <1>3, TreeIs, MigrationsAreResumed
<1> QED BY <1>4, <1>5 DEF MigrationsResume, F

-----------------------------------------------------------------------------
(* The table, row by row.  A directory is moved from or it is not, but for *)
(* utils, which Context is moved to: the only path that stays there.       *)

MovedFrom ==
  {"access", "cryptography", "drafts", "GSN", "introspection", "math", "payment/escrow", "payment",
   "utils", "presets", "proxy", "token/ERC1155", "token/ERC20", "token/ERC721"}

Context == At("utils", "Context")

(* Where a path of a directory moves to, by its name where that matters. *)
Destination(dir, name) ==
  CASE dir = "access"         -> At("governance", name)
    [] dir = "cryptography"   -> At("utils/cryptography", name)
    [] dir = "drafts"         -> IF name = "EIP712" THEN At("utils/cryptography", name)
                                 ELSE IF name = "ERC20Permit" THEN At("token/ERC20/extensions", "draft-ERC20Permit")
                                 ELSE At("token/ERC20/extensions", "draft-IERC20Permit")
    [] dir = "GSN"            -> At("utils", name)
    [] dir = "introspection"  -> At("utils/introspection", name)
    [] dir = "math"           -> At("utils/math", name)
    [] dir = "payment/escrow" -> At("utils/escrow", name)
    [] dir = "payment"        -> IF name = "PaymentSplitter" THEN At("finance", name) ELSE At("security", name)
    [] dir = "utils"          -> IF name = "PaymentSplitter" THEN At("finance", name)
                                 ELSE IF name = "Initializable" THEN At("proxy/utils", name)
                                 ELSE IF name \in {"EnumerableMap", "EnumerableSet"} THEN At("utils/structs", name)
                                 ELSE IF name = "SafeCast" THEN At("utils/math", name)
                                 ELSE At("security", name)
    [] dir = "presets"        -> IF name = "ERC1155PresetMinterPauser" THEN At("token/ERC1155/presets", name)
                                 ELSE IF name = "ERC721PresetMinterPauserAutoId" THEN At("token/ERC721/presets", name)
                                 ELSE IF name = "ERC777PresetFixedSupply" THEN At("token/ERC777/presets", name)
                                 ELSE At("token/ERC20/presets", name)
    [] dir = "proxy"          -> IF name = "Initializable" THEN At("proxy/utils", name)
                                 ELSE IF name = "UpgradeableProxy" THEN At("proxy/ERC1967", "ERC1967Proxy")
                                 ELSE IF name \in {"ProxyAdmin", "TransparentUpgradeableProxy"}
                                      THEN At("proxy/transparent", name)
                                 ELSE At("proxy/beacon", name)
    [] dir = "token/ERC1155"  -> IF name \in {"ERC1155Holder", "ERC1155Receiver"} THEN At("token/ERC1155/utils", name)
                                 ELSE At("token/ERC1155/extensions", name)
    [] dir = "token/ERC20"    -> IF name \in {"SafeERC20", "TokenTimelock"} THEN At("token/ERC20/utils", name)
                                 ELSE At("token/ERC20/extensions", name)
    [] dir = "token/ERC721"   -> IF name = "ERC721Holder" THEN At("token/ERC721/utils", name)
                                 ELSE At("token/ERC721/extensions", name)

IsRow(row) ==
  \E dir \in MovedFrom : \E name, to, now :
    /\ row = <<At(dir, name), At(to, now)>>
    /\ At(dir, name) # Context
    /\ to \notin MovedFrom \/ At(to, now) = Context
    /\ At(to, now) = Destination(dir, name)

AreRows(table) == \E S : table \in Seq(S) /\ \A row \in S : IsRow(row)

LEMMA RowsIf ==
  ASSUME NEW S, NEW table \in Seq(S), \A row \in S : IsRow(row)
  PROVE  AreRows(table)
BY DEF AreRows

LEMMA RowsJoin ==
  \A s, t : AreRows(s) /\ AreRows(t) => AreRows(s \o t)
<1> SUFFICES ASSUME NEW s, NEW t, AreRows(s), AreRows(t)
             PROVE  AreRows(s \o t)
  OBVIOUS
<1>1. PICK S : s \in Seq(S) /\ \A row \in S : IsRow(row)
  BY DEF AreRows
<1>2. PICK T : t \in Seq(T) /\ \A row \in T : IsRow(row)
  BY DEF AreRows
<1>3. s \in Seq(S \cup T) /\ t \in Seq(S \cup T)
  <2>1. S \subseteq S \cup T /\ T \subseteq S \cup T
    OBVIOUS
  <2> QED BY <1>1, <1>2, <2>1, SeqMonotonic
<1>4. s \o t \in Seq(S \cup T)
  BY <1>3, ConcatProperties
<1>5. \A row \in S \cup T : IsRow(row)
  BY <1>1, <1>2
<1> QED BY <1>4, <1>5 DEF AreRows

(* The rows of one piece of the table. *)
MovesTo(from, to, S) ==
  /\ from \in MovedFrom
  /\ \A name \in S : /\ At(from, name) # Context
                     /\ to \notin MovedFrom \/ At(to, name) = Context
                     /\ At(to, name) = Destination(from, name)

LEMMA MovedAre ==
  ASSUME NEW from, NEW to, NEW S, NEW names \in Seq(S), MovesTo(from, to, S)
  PROVE  AreRows(Moved(from, to, names))
<1> DEFINE T == {<<At(from, name), At(to, name)>> : name \in S}
<1>1. Moved(from, to, names) \in Seq(T)
  <2>1. Len(names) \in Nat /\ DOMAIN names = 1 .. Len(names) /\ \A i \in 1 .. Len(names) : names[i] \in S
    OBVIOUS
  <2>2. Moved(from, to, names) = [i \in 1 .. Len(names) |-> <<At(from, names[i]), At(to, names[i])>>]
    BY <2>1 DEF Moved
  <2>3. \A i \in 1 .. Len(names) : <<At(from, names[i]), At(to, names[i])>> \in T
    BY <2>1
  <2> HIDE DEF T
  <2> QED BY <2>1, <2>2, <2>3
<1>2. \A row \in T : IsRow(row)
  BY DEF MovesTo, IsRow
<1> QED BY <1>1, <1>2 DEF AreRows

LEMMA Lists1 == \A S, a : a \in S => <<a>> \in Seq(S)
OBVIOUS
LEMMA Lists2 == \A S, a, b : a \in S /\ b \in S => <<a, b>> \in Seq(S)
OBVIOUS
LEMMA Lists3 == \A S, a, b, c : a \in S /\ b \in S /\ c \in S => <<a, b, c>> \in Seq(S)
OBVIOUS
LEMMA Lists4 ==
  \A S, a, b, c, d : a \in S /\ b \in S /\ c \in S /\ d \in S => <<a, b, c, d>> \in Seq(S)
OBVIOUS
LEMMA Lists6 ==
  \A S, a, b, c, d, e, f :
    a \in S /\ b \in S /\ c \in S /\ d \in S /\ e \in S /\ f \in S => <<a, b, c, d, e, f>> \in Seq(S)
OBVIOUS

(* A piece of one, two, three, four or six names. *)
LEMMA Pieces ==
  ASSUME NEW from, NEW to
  PROVE  /\ \A a : MovesTo(from, to, {a}) => AreRows(Moved(from, to, <<a>>))
         /\ \A a, b : MovesTo(from, to, {a, b}) => AreRows(Moved(from, to, <<a, b>>))
         /\ \A a, b, c : MovesTo(from, to, {a, b, c}) => AreRows(Moved(from, to, <<a, b, c>>))
         /\ \A a, b, c, d : MovesTo(from, to, {a, b, c, d}) => AreRows(Moved(from, to, <<a, b, c, d>>))
         /\ \A a, b, c, d, e, f : MovesTo(from, to, {a, b, c, d, e, f}) =>
                                    AreRows(Moved(from, to, <<a, b, c, d, e, f>>))
<1>1. \A a : <<a>> \in Seq({a})
  BY Lists1
<1>2. \A a, b : <<a, b>> \in Seq({a, b})
  BY Lists2
<1>3. \A a, b, c : <<a, b, c>> \in Seq({a, b, c})
  BY Lists3
<1>4. \A a, b, c, d : <<a, b, c, d>> \in Seq({a, b, c, d})
  BY Lists4
<1>5. \A a, b, c, d, e, f : <<a, b, c, d, e, f>> \in Seq({a, b, c, d, e, f})
  BY Lists6
<1>6. \A S : \A names \in Seq(S) : MovesTo(from, to, S) => AreRows(Moved(from, to, names))
  BY MovedAre
<1> QED BY <1>1, <1>2, <1>3, <1>4, <1>5, <1>6, Zenon

LEMMA PiecesMove ==
  /\ MovesTo("access", "governance", {"TimelockController"})
  /\ MovesTo("cryptography", "utils/cryptography", {"ECDSA", "MerkleProof"})
  /\ MovesTo("drafts", "utils/cryptography", {"EIP712"})
  /\ MovesTo("GSN", "utils", {"Context"})
  /\ MovesTo("introspection", "utils/introspection",
             {"ERC165Checker", "ERC165", "ERC1820Implementer", "IERC165",
              "IERC1820Implementer", "IERC1820Registry"})
  /\ MovesTo("math", "utils/math", {"Math", "SafeMath", "SignedSafeMath"})
  /\ MovesTo("payment/escrow", "utils/escrow", {"ConditionalEscrow", "Escrow", "RefundEscrow"})
  /\ MovesTo("payment", "finance", {"PaymentSplitter"})
  /\ MovesTo("utils", "finance", {"PaymentSplitter"})
  /\ MovesTo("payment", "security", {"PullPayment"})
  /\ MovesTo("presets", "token/ERC1155/presets", {"ERC1155PresetMinterPauser"})
  /\ MovesTo("presets", "token/ERC20/presets", {"ERC20PresetFixedSupply", "ERC20PresetMinterPauser"})
  /\ MovesTo("presets", "token/ERC721/presets", {"ERC721PresetMinterPauserAutoId"})
  /\ MovesTo("presets", "token/ERC777/presets", {"ERC777PresetFixedSupply"})
  /\ MovesTo("proxy", "proxy/beacon", {"BeaconProxy", "IBeacon"})
  /\ MovesTo("proxy", "proxy/utils", {"Initializable"})
  /\ MovesTo("utils", "proxy/utils", {"Initializable"})
  /\ MovesTo("proxy", "proxy/transparent", {"ProxyAdmin", "TransparentUpgradeableProxy"})
  /\ MovesTo("proxy", "proxy/beacon", {"UpgradeableBeacon"})
  /\ MovesTo("token/ERC1155", "token/ERC1155/extensions", {"ERC1155Burnable"})
  /\ MovesTo("token/ERC1155", "token/ERC1155/utils", {"ERC1155Holder"})
  /\ MovesTo("token/ERC1155", "token/ERC1155/extensions", {"ERC1155Pausable"})
  /\ MovesTo("token/ERC1155", "token/ERC1155/utils", {"ERC1155Receiver"})
  /\ MovesTo("token/ERC1155", "token/ERC1155/extensions", {"IERC1155MetadataURI"})
  /\ MovesTo("token/ERC20", "token/ERC20/extensions",
             {"ERC20Burnable", "ERC20Capped", "ERC20Pausable", "ERC20Snapshot"})
  /\ MovesTo("token/ERC20", "token/ERC20/utils", {"SafeERC20", "TokenTimelock"})
  /\ MovesTo("token/ERC721", "token/ERC721/extensions", {"ERC721Burnable"})
  /\ MovesTo("token/ERC721", "token/ERC721/utils", {"ERC721Holder"})
  /\ MovesTo("token/ERC721", "token/ERC721/extensions",
             {"ERC721Pausable", "IERC721Enumerable", "IERC721Metadata"})
  /\ MovesTo("utils", "utils/structs", {"EnumerableMap", "EnumerableSet"})
  /\ MovesTo("utils", "security", {"Pausable", "ReentrancyGuard"})
  /\ MovesTo("utils", "utils/math", {"SafeCast"})
BY DEF MovesTo, MovedFrom, Destination, Context, At

LEMMA RowsOfTable == AreRows(pathUpdates)
<1>1. ASSUME NEW row, IsRow(row)
      PROVE  AreRows(<<row>>)
  <2> DEFINE S == {row}
  <2>1. <<row>> \in Seq(S) /\ \A r \in S : IsRow(r)
    BY <1>1, Lists1
  <2> HIDE DEF S
  <2> QED BY <2>1, RowsIf
<1>2. ASSUME NEW row, NEW other, IsRow(row), IsRow(other)
      PROVE  AreRows(<<row, other>>)
  <2> DEFINE S == {row, other}
  <2>1. <<row, other>> \in Seq(S) /\ \A r \in S : IsRow(r)
    BY <1>2, Lists2
  <2> HIDE DEF S
  <2> QED BY <2>1, RowsIf
<1>3. /\ IsRow(<<At("drafts", "ERC20Permit"), At("token/ERC20/extensions", "draft-ERC20Permit")>>)
      /\ IsRow(<<At("drafts", "IERC20Permit"), At("token/ERC20/extensions", "draft-IERC20Permit")>>)
      /\ IsRow(<<At("proxy", "UpgradeableProxy"), At("proxy/ERC1967", "ERC1967Proxy")>>)
  <2>1. \A dir \in MovedFrom : \A name, to, now :
          /\ At(dir, name) # Context /\ to \notin MovedFrom /\ At(to, now) = Destination(dir, name)
          => IsRow(<<At(dir, name), At(to, now)>>)
    BY DEF IsRow
  <2>2. /\ "drafts" \in MovedFrom /\ "proxy" \in MovedFrom
        /\ "token/ERC20/extensions" \notin MovedFrom /\ "proxy/ERC1967" \notin MovedFrom
    BY DEF MovedFrom
  <2>3. /\ At("token/ERC20/extensions", "draft-ERC20Permit") = Destination("drafts", "ERC20Permit")
        /\ At("token/ERC20/extensions", "draft-IERC20Permit") = Destination("drafts", "IERC20Permit")
        /\ At("proxy/ERC1967", "ERC1967Proxy") = Destination("proxy", "UpgradeableProxy")
    BY DEF Destination
  <2>4. /\ At("drafts", "ERC20Permit") # Context /\ At("drafts", "IERC20Permit") # Context
        /\ At("proxy", "UpgradeableProxy") # Context
    BY DEF At, Context
  <2> QED BY <2>1, <2>2, <2>3, <2>4, Zenon
<1>4. /\ AreRows(<< <<At("drafts", "ERC20Permit"), At("token/ERC20/extensions", "draft-ERC20Permit")>>,
                    <<At("drafts", "IERC20Permit"), At("token/ERC20/extensions", "draft-IERC20Permit")>> >>)
      /\ AreRows(<< <<At("proxy", "UpgradeableProxy"), At("proxy/ERC1967", "ERC1967Proxy")>> >>)
  BY <1>1, <1>2, <1>3, Zenon
<1> QED BY <1>4, PiecesMove, Pieces, RowsJoin, SMTT(60) DEF pathUpdates

LEMMA TableLeads == Leads(pathUpdates)
<1> DEFINE N == Len(pathUpdates)
<1>1. PICK S : pathUpdates \in Seq(S) /\ \A row \in S : IsRow(row)
  BY RowsOfTable DEF AreRows
<1>2. N \in Nat /\ DOMAIN pathUpdates = 1 .. N /\ pathUpdates = [i \in 1 .. N |-> pathUpdates[i]]
  BY <1>1
<1>3. \A i \in 1 .. N : IsRow(pathUpdates[i])
  BY <1>1
<1>4. ASSUME NEW i \in 1 .. N
      PROVE  pathUpdates[i] \in Path \X Path /\ ~pathUpdates[i][1].upgradeable /\ ~pathUpdates[i][2].upgradeable
  <2>1. PICK dir, name, to, now : pathUpdates[i] = <<At(dir, name), At(to, now)>>
    BY <1>3 DEF IsRow
  <2>2. {dir, name, to, now} \subseteq Names
    <3>1. /\ pathUpdates[i][1].dir = dir /\ pathUpdates[i][1].name = name
          /\ pathUpdates[i][2].dir = to /\ pathUpdates[i][2].name = now
      BY <2>1 DEF At
    <3>2. i \in DOMAIN pathUpdates
      BY <1>2
    <3>3. \A side \in {1, 2} : /\ pathUpdates[i][side].dir \in Names
                              /\ pathUpdates[i][side].name \in Names
      <4> TAKE side \in {1, 2}
      <4> DEFINE pair == {pathUpdates[i][side].dir, pathUpdates[i][side].name}
                 All  == {{pathUpdates[k][m].dir, pathUpdates[k][m].name} : k \in DOMAIN pathUpdates, m \in {1, 2}}
      <4>1. pair \in All
        BY <3>2
      <4>2. pathUpdates[i][side].dir \in pair /\ pathUpdates[i][side].name \in pair
        OBVIOUS
      <4>3. UNION All \subseteq Names
        BY DEF Names
      <4> HIDE DEF pair, All
      <4> QED BY <4>1, <4>2, <4>3
    <3> QED BY <3>1, <3>3
  <2>3. At(dir, name) \in Path /\ At(to, now) \in Path
    BY <2>2, AtIsPath
  <2>4. ~At(dir, name).upgradeable /\ ~At(to, now).upgradeable
    BY DEF At
  <2>5. pathUpdates[i][1] = At(dir, name) /\ pathUpdates[i][2] = At(to, now)
    BY <2>1
  <2> HIDE DEF N
  <2> QED BY <2>1, <2>3, <2>4, <2>5
<1>5. ASSUME NEW i \in 1 .. N, NEW j \in 1 .. N
      PROVE  /\ pathUpdates[i][1] = pathUpdates[j][1] => pathUpdates[i][2] = pathUpdates[j][2]
             /\ pathUpdates[i][2] # pathUpdates[j][1]
  <2>1. PICK d1, n1, t1, w1 :
          /\ pathUpdates[i] = <<At(d1, n1), At(t1, w1)>>
          /\ t1 \notin MovedFrom \/ At(t1, w1) = Context
          /\ At(t1, w1) = Destination(d1, n1)
    BY <1>3 DEF IsRow
  <2>2. PICK d2, n2, t2, w2 :
          /\ d2 \in MovedFrom
          /\ pathUpdates[j] = <<At(d2, n2), At(t2, w2)>>
          /\ At(d2, n2) # Context
          /\ At(t2, w2) = Destination(d2, n2)
    BY <1>3 DEF IsRow
  <2>3. At(d1, n1) = At(d2, n2) => d1 = d2 /\ n1 = n2
    BY DEF At
  <2>4. t1 \notin MovedFrom => At(t1, w1) # At(d2, n2)
    BY <2>2 DEF At
  <2> QED BY <2>1, <2>2, <2>3, <2>4
<1>6. pathUpdates \in Seq(Path \X Path)
  <2> HIDE DEF N
  <2> QED BY <1>2, <1>4
<1> QED BY <1>2, <1>4, <1>5, <1>6 DEF Leads

(* updateImportPaths, of any source: an import is left or becomes its      *)
(* successor, and the first of each import has been moved.                 *)
THEOREM EverySourceMigrates ==
  ASSUME NEW s \in Seq(ImportType)
  PROVE  SourceMigrates(s)
BY TableLeads, SourcesMigrate

(* main, of any tree and any files: a run killed between two files and     *)
(* started again ends where one run would have, where no file imports a    *)
(* path twice, and what a run lists is what it has changed.                *)
THEOREM EveryMigrationResumes ==
  ASSUME NEW tree, IsTree(tree), NEW paths \in Seq(DOMAIN tree),
         NEW F, Sols(tree) \subseteq F, NEW files \in [F -> Seq(ImportType)]
  PROVE  MigrationResumes(tree, paths, files)
BY TableLeads, MigrationsAreResumed

(* Every path the table moves has moved after one run, in either package,  *)
(* to where the table says, which it moves nothing from.                   *)
THEOREM TableAlwaysLeadsOut == CasesSpec => []TableLeadsOut
<1>1. CasesInit => TableLeadsOut
  <2> SUFFICES ASSUME args.of = "pathUpdates", args \in TableArgs, NEW p \in {"contracts", "contracts-upgradeable"}
               PROVE  SourceMigrates(<<Import(p, [pathUpdates[args.entry][1] EXCEPT !.upgradeable = (p # "contracts")])>>)
    BY CasesAre DEF TableLeadsOut
  <2>1. args.entry \in DOMAIN pathUpdates
    BY DEF TableArgs
  <2>2. Import(p, [pathUpdates[args.entry][1] EXCEPT !.upgradeable = (p # "contracts")]) = Old(p, args.entry)
    BY DEF Old, In
  <2>3. Old(p, args.entry) \in ImportType
    BY <2>1, TableLeads, SuccessorIs DEF Packages
  <2>4. <<Old(p, args.entry)>> \in Seq(ImportType)
    BY <2>3
  <2> QED BY <2>2, <2>4, TableLeads, SourcesMigrate
<1> QED BY <1>1, CasesStay, PTL

(* On every checkout, listed once or twice: a run killed after any file    *)
(* and started again leaves the files one run would have left.             *)
THEOREM MigrationsAlwaysResume == CasesSpec => []MigrationsResume
<1>1. CasesInit => MigrationsResume
  BY TableLeads, CheckoutsMigrate
<1> QED BY <1>1, CasesStay, PTL
==============================================================================
