------------------------------ MODULE OracleLib ------------------------------
(***************************************************************************)
(* One Chainlink feed as OracleLib reads it.  The feed publishes rounds,   *)
(* time passes, and staleCheckLatestRoundData decides whether the engine   *)
(* gets the latest answer or a revert.                                     *)
(*                                                                         *)
(* Timestamps matter only through block.timestamp - updatedAt, kept here   *)
(* as the age of the latest round.  An age above TIMEOUT never matters     *)
(* more than TIMEOUT + 1, so the age stops there and the clock itself is   *)
(* unbounded.  A negative age is a timestamp still in the future.          *)
(***************************************************************************)
EXTENDS Integers

CONSTANTS
  Answers,      \* the answers the feed may give
  TIMEOUT,      \* 3 hours, in units of the model's clock
  Delays        \* the time that passes between two blocks

ASSUME OracleAssumption == TIMEOUT \in Nat /\ Delays \subseteq Nat \ {0}

VARIABLES
  latest,       \* the latest round, as latestRoundData returns it
  published     \* whether the last step published an answer (history)

vars == <<latest, published>>

Ages == -TIMEOUT .. TIMEOUT + 1

Round == [answer   : Answers,
          answered : BOOLEAN,    \* updatedAt # 0
          behind   : BOOLEAN,    \* answeredInRound < roundId
          age      : Ages]       \* block.timestamp - updatedAt

Init ==
  /\ latest \in [answer : Answers, answered : {TRUE}, behind : {FALSE}, age : {0}]
  /\ published = TRUE

-----------------------------------------------------------------------------
(* The feed. *)

(* MockV3Aggregator.updateAnswer: a new round, answered now. *)
updateAnswer(a) ==
  /\ latest' = [answer |-> a, answered |-> TRUE, behind |-> FALSE, age |-> 0]
  /\ published' = TRUE

(* MockV3Aggregator.updateRoundData: a round with a timestamp of choice.   *)
updateRoundData(a, age) ==
  /\ latest' = [answer |-> a, answered |-> TRUE, behind |-> FALSE, age |-> age]
  /\ published' = TRUE

(* The same with timestamp zero, an age beyond any timeout. *)
updateRoundDataUnanswered(a) ==
  /\ latest' = [answer |-> a, answered |-> FALSE, behind |-> FALSE, age |-> TIMEOUT + 1]
  /\ published' = TRUE

(* An aggregator opens a round nobody has answered: the last answer is     *)
(* returned with the round it was given in, or with no timestamp yet.      *)
openRound ==
  /\ \/ latest' = [latest EXCEPT !.behind = TRUE]
     \/ latest' = [latest EXCEPT !.answered = FALSE, !.age = TIMEOUT + 1]
  /\ published' = FALSE

(* Time passes. *)
Tick(d) ==
  /\ latest.age <= TIMEOUT
  /\ latest' = [latest EXCEPT !.age = IF @ + d > TIMEOUT THEN TIMEOUT + 1 ELSE @ + d]
  /\ published' = FALSE

-----------------------------------------------------------------------------
(* Slips to compare with: an answer is refused at the timeout only, or at  *)
(* no age.                                                                 *)
Readable_offTimeout(r) == r.answered /\ ~r.behind /\ r.age >= 0 /\ r.age # TIMEOUT

Readable_ageless(r) == r.answered /\ ~r.behind /\ r.age >= 0

(* staleCheckLatestRoundData returns the answer; otherwise it reverts, by  *)
(* its own check or by the underflow of block.timestamp - updatedAt.       *)
Readable(r) ==
  /\ r.answered /\ ~r.behind
  /\ r.age >= 0
  /\ ~(r.age > TIMEOUT)

(* A readable round may yet come of it without a new answer. *)
Pending(r) == r.answered /\ ~r.behind /\ r.age < 0

-----------------------------------------------------------------------------
Feed ==
  \/ \E a \in Answers :
       \/ updateAnswer(a)
       \/ \E age \in Ages : updateRoundData(a, age)
       \/ updateRoundDataUnanswered(a)
  \/ openRound

Passing == \E d \in Delays : Tick(d)

Next == Feed \/ Passing

(* Blocks keep coming; nothing makes a feed publish. *)
Spec == Init /\ [][Next]_vars /\ WF_vars(Passing)

-----------------------------------------------------------------------------
(* The latest round is a round: what the proof of ExpiryIsFinal starts from. *)
TypeOK == latest \in Round /\ published \in BOOLEAN

(* Once an answer has gone stale no passage of time and no opening of a    *)
(* round makes it readable again: only a publication does.                 *)
ExpiredStaysExpired ==
  [][~Readable(latest) /\ ~Pending(latest) /\ ~published' =>
       ~Readable(latest') /\ ~Pending(latest')]_vars

(* "We want the DSCEngine to freeze if prices become stale": a feed that   *)
(* falls silent is refused from some moment on, whatever timestamp its     *)
(* last answer carried.                                                    *)
SilenceFreezes == <>[][~published']_vars => <>[](~Readable(latest))
=============================================================================
