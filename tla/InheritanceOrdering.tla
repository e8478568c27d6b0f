-------------------------- MODULE InheritanceOrdering --------------------------
(***************************************************************************)
(* The check that every two contracts stand in one order in all chains of  *)
(* base contracts.  The script goes through the contracts one by one; the  *)
(* compiler gives each its chain.  Here a contract's bases have no bases   *)
(* themselves, so its chain is itself and then its bases, the last one     *)
(* declared first.                                                         *)
(***************************************************************************)
EXTENDS Integers, FiniteSets, SequencesExt

CONSTANTS
  Bases,       \* contracts without bases
  Contracts    \* contracts that inherit some of them

VARIABLES
  visited,       \* contracts whose definition has been found, mocks left aside
  graph,         \* the edges set so far
  linearized     \* the chains

vars == <<visited, graph, linearized>>

Init == visited = {} /\ graph = {} /\ linearized = {}

Chain(c, bases) == <<c>> \o Reverse(bases)

(* Every contract of the chain gets an edge to every later one. *)
Edges(chain) ==
  UNION {{<<chain[i], chain[j]>> : j \in (i + 1)..Len(chain)} : i \in DOMAIN chain}

visit(c, bases) ==
  /\ c \notin visited
  /\ visited' = visited \cup {c}
  /\ graph' = graph \cup Edges(Chain(c, bases))
  /\ linearized' = linearized \cup {Chain(c, bases)}

Declarations == {d \in SeqOf(Bases, Cardinality(Bases)) : IsInjective(d)}

Next == \E c \in Contracts, bases \in Declarations : visit(c, bases)

Spec == Init /\ [][Next]_vars

(* What the script reports: two contracts with an edge either way. *)
Conflicts == {e \in graph : <<e[2], e[1]>> \in graph}

Consistent == Conflicts = {}

(* "We are only interested int cycles of lengths 2 (needs proof)": where   *)
(* there is none, as the script then says, "Contract ordering is           *)
(* consistent", and the contracts can be put in one order: of any set of   *)
(* them one comes first, so that no edge leads to it.                      *)
ConsistentIsOrdered ==
  Consistent =>
    \A left \in SUBSET (Bases \cup Contracts) \ {{}} :
      \E first \in left : \A other \in left : <<other, first>> \notin graph
=============================================================================
