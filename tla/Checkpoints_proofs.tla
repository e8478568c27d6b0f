-------------------------- MODULE Checkpoints_proofs --------------------------
(***************************************************************************)
(* The lookups of a history find what was written, for keys and values of  *)
(* any width.  A position splits a history at a key when what is before it *)
(* has keys up to that one and what follows has greater keys; the binary   *)
(* search returns it from any bounds around it, and the last checkpoint    *)
(* before it is the one the reference names.                               *)
(***************************************************************************)
EXTENDS CheckpointsMock, SequenceTheorems, WellFoundedInduction, TLAPS

(* A non-empty set of natural numbers has a smallest member. *)
LEMMA SmallestMember ==
  ASSUME NEW S, S \subseteq Nat, S # {}
  PROVE  \E m \in S : \A k \in S : m <= k
<1> DEFINE R == OpToRel(<, Nat)
<1>1. IsWellFoundedOn(R, Nat)
  BY NatLessThanWellFounded
<1>2. \A x \in Nat, y \in Nat : x < y => <<x, y>> \in R
  BY DEF OpToRel
<1> HIDE DEF R
<1>3. PICK x \in S : \A y \in S : ~ (<<y, x>> \in R)
  BY <1>1, WFMin
<1>4. \A y \in S : ~(y < x)
  BY <1>2, <1>3
<1> QED BY <1>3, <1>4

-----------------------------------------------------------------------------
(* The binary search, for any way of looking at a position that tells      *)
(* those before p from the others.                                         *)

Bounds(high) == (0 .. high) \X (0 .. high)

(* One step of a search for p, with `search` for the rest. *)
Step(high, p, search) ==
  [b \in Bounds(high) |->
     IF b[1] < b[2]
       THEN IF average(b[1], b[2]) >= p
              THEN search[<<b[1], average(b[1], b[2])>>]
              ELSE search[<<average(b[1], b[2]) + 1, b[2]>>]
       ELSE b[2]]

(* What the search comes to: p, or the bound that is nearest to it. *)
Nearest(high, p) ==
  [b \in Bounds(high) |-> IF b[1] >= b[2] THEN b[2]
                          ELSE IF p < b[1] THEN b[1] ELSE IF p > b[2] THEN b[2] ELSE p]

LEMMA AverageBetween ==
  ASSUME NEW l \in Nat, NEW h \in Nat, l < h
  PROVE  average(l, h) \in Nat /\ l <= average(l, h) /\ average(l, h) < h
BY DEF average

(* The search is defined, *)
LEMMA NearestSolves ==
  ASSUME NEW high \in Nat, NEW p \in Nat
  PROVE  Nearest(high, p) = Step(high, p, Nearest(high, p))
<1> DEFINE g == Nearest(high, p)
<1>1. ASSUME NEW l \in 0 .. high, NEW h \in 0 .. high
      PROVE  g[<<l, h>>] = IF l >= h THEN h ELSE IF p < l THEN l ELSE IF p > h THEN h ELSE p
  BY DEF Nearest, Bounds
<1>2. g = [b \in Bounds(high) |-> g[b]]
  BY DEF Nearest
<1> HIDE DEF g
<1>3. ASSUME NEW l \in 0 .. high, NEW h \in 0 .. high
      PROVE  g[<<l, h>>] = Step(high, p, g)[<<l, h>>]
  <2> DEFINE mid == average(l, h)
  <2>1. Step(high, p, g)[<<l, h>>] =
          IF l < h THEN IF mid >= p THEN g[<<l, mid>>] ELSE g[<<mid + 1, h>>] ELSE h
    BY DEF Step, Bounds
  <2>2. CASE l >= h
    BY <1>1, <2>1, <2>2
  <2>3. CASE l < h
    <3>1. mid \in 0 .. high /\ mid + 1 \in 0 .. high /\ l <= mid /\ mid < h
      BY <2>3, AverageBetween
    <3> HIDE DEF mid
    <3>2. CASE mid >= p
      <4>1. g[<<l, mid>>] = g[<<l, h>>]
        BY <1>1, <2>3, <3>1, <3>2
      <4> QED BY <2>1, <2>3, <3>2, <4>1
    <3>3. CASE mid < p
      <4>1. g[<<mid + 1, h>>] = g[<<l, h>>]
        BY <1>1, <2>3, <3>1, <3>3
      <4> QED BY <2>1, <2>3, <3>1, <3>3, <4>1
    <3> QED BY <3>1, <3>2, <3>3
  <2> QED BY <2>2, <2>3
<1>4. \A b \in Bounds(high) : g[b] = Step(high, p, g)[b]
  BY <1>3 DEF Bounds
<1>5. Step(high, p, g) = [b \in Bounds(high) |-> Step(high, p, g)[b]]
  BY DEF Step
<1> QED BY <1>2, <1>4, <1>5 DEF g

(* and finds p: were it to differ anywhere, then where the bounds are      *)
(* closest; but there it looks at closer ones.                             *)
LEMMA SearchFinds ==
  ASSUME NEW high \in Nat, NEW p \in Nat, NEW search, search = Step(high, p, search),
         NEW l \in 0 .. high, NEW h \in 0 .. high, l <= p, p <= h
  PROVE  search[<<l, h>>] = p
<1> DEFINE g     == Nearest(high, p)
           Wrong == {b \in Bounds(high) : b[1] < b[2] /\ search[b] # g[b]}
           Sizes == {b[2] - b[1] : b \in Wrong}
<1>1. ASSUME NEW x \in 0 .. high, NEW y \in 0 .. high
      PROVE  /\ g[<<x, y>>] = IF x < y THEN IF average(x, y) >= p THEN g[<<x, average(x, y)>>]
                                            ELSE g[<<average(x, y) + 1, y>>] ELSE y
             /\ search[<<x, y>>] = IF x < y THEN IF average(x, y) >= p THEN search[<<x, average(x, y)>>]
                                                 ELSE search[<<average(x, y) + 1, y>>] ELSE y
  <2>1. \A f : f = Step(high, p, f) =>
          f[<<x, y>>] = IF x < y THEN IF average(x, y) >= p THEN f[<<x, average(x, y)>>]
                                      ELSE f[<<average(x, y) + 1, y>>] ELSE y
    BY DEF Step, Bounds
  <2> QED BY <2>1, NearestSolves
<1>2. \A x \in 0 .. high, y \in 0 .. high : x >= y => search[<<x, y>>] = g[<<x, y>>]
  <2> SUFFICES ASSUME NEW x \in 0 .. high, NEW y \in 0 .. high, x >= y
               PROVE  search[<<x, y>>] = g[<<x, y>>]
    OBVIOUS
  <2>1. ~ (x < y)
    OBVIOUS
  <2> HIDE DEF g
  <2> QED BY ONLY <1>1, <2>1, x \in 0 .. high, y \in 0 .. high
<1>3. Wrong = {}
  <2> SUFFICES ASSUME Wrong # {} PROVE FALSE
    OBVIOUS
  <2>1. Sizes \subseteq Nat /\ Sizes # {}
    BY DEF Bounds
  <2>2. PICK s \in Sizes : \A k \in Sizes : s <= k
    <3> HIDE DEF Sizes
    <3> QED BY <2>1, SmallestMember
  <2>3. PICK x \in 0 .. high, y \in 0 .. high : x < y /\ search[<<x, y>>] # g[<<x, y>>] /\ s = y - x
    <3>1. PICK b \in Wrong : s = b[2] - b[1]
      BY <2>2
    <3>2. b[1] \in 0 .. high /\ b[2] \in 0 .. high /\ b = <<b[1], b[2]>>
      BY <3>1 DEF Bounds
    <3>3. b[1] < b[2] /\ search[b] # g[b]
      BY <3>1
    <3> HIDE DEF g, Wrong, Sizes
    <3> QED BY <3>1, <3>2, <3>3
  <2>4. \A v \in 0 .. high, w \in 0 .. high : w - v < s => search[<<v, w>>] = g[<<v, w>>]
    <3> SUFFICES ASSUME NEW v \in 0 .. high, NEW w \in 0 .. high, w - v < s
                 PROVE  search[<<v, w>>] = g[<<v, w>>]
      OBVIOUS
    <3>1. CASE v >= w
      BY <1>2, <3>1
    <3>2. CASE v < w /\ search[<<v, w>>] # g[<<v, w>>]
      <4>1. <<v, w>> \in Wrong
        BY <3>2 DEF Bounds
      <4>2. w - v \in Sizes
        BY <4>1
      <4>3. s <= w - v
        BY <2>2, <4>2
      <4> QED BY <2>3, <4>3
    <3> QED BY <3>1, <3>2
  <2> DEFINE mid == average(x, y)
  <2>5. mid \in 0 .. high /\ mid + 1 \in 0 .. high /\ x <= mid /\ mid < y
    BY <2>3, AverageBetween
  <2>6. search[<<x, mid>>] = g[<<x, mid>>] /\ search[<<mid + 1, y>>] = g[<<mid + 1, y>>]
    <3> HIDE DEF mid, g, Wrong, Sizes
    <3> QED BY <2>3, <2>4, <2>5
  <2> QED BY <1>1, <2>3, <2>6
<1>4. search[<<l, h>>] = g[<<l, h>>]
  <2>1. CASE l >= h
    BY <1>2, <2>1
  <2>2. CASE l < h
    BY <1>3, <2>2 DEF Bounds
  <2> QED BY <2>1, <2>2
<1>5. g[<<l, h>>] = p
  BY DEF Nearest, Bounds
<1> QED BY <1>4, <1>5

-----------------------------------------------------------------------------
(* The two lookups of a history are such searches. *)

(* The positions before p are the ones whose keys are at most `key`; are   *)
(* less than it.                                                           *)
SplitsUpTo(self, key, p) ==
  /\ p \in 0 .. Len(self)
  /\ \A i \in 1 .. Len(self) : self[i]._key <= key <=> i <= p

SplitsBelow(self, key, p) ==
  /\ p \in 0 .. Len(self)
  /\ \A i \in 1 .. Len(self) : self[i]._key < key <=> i <= p

LEMMA KeysAreNumbers ==
  ASSUME NEW self \in Histories
  PROVE  /\ Len(self) \in Nat
         /\ \A i \in 1 .. Len(self) : /\ self[i]._key \in Key /\ self[i]._key \in Nat
                                      /\ self[i]._value \in Value
<1>1. Key \subseteq Nat
  BY PowerAssumption DEF Key, maxUint
<1> DEFINE Checkpoint == [_key : Key, _value : Value]
<1>2. Len(self) \in Nat /\ \A i \in 1 .. Len(self) : self[i] \in Checkpoint
  <2>1. self \in Seq(Checkpoint)
    BY DEF Histories
  <2> HIDE DEF Checkpoint
  <2> QED BY <2>1
<1> QED BY <1>1, <1>2

LEMMA UpperLookupFinds ==
  ASSUME NEW self \in Histories, NEW key \in Nat, NEW p, SplitsUpTo(self, key, p),
         NEW low \in Nat, NEW high \in 0 .. Len(self), low <= p, p <= high
  PROVE  _upperBinaryLookup(self, key, low, high) = p
<1> DEFINE Body(f, b) ==
             IF b[1] < b[2]
               THEN IF self[average(b[1], b[2]) + 1]._key > key
                      THEN f[<<b[1], average(b[1], b[2])>>]
                      ELSE f[<<average(b[1], b[2]) + 1, b[2]>>]
               ELSE b[2]
           Solves(f) == f = [b \in (0 .. high) \X (0 .. high) |-> Body(f, b)]
           found == CHOOSE f : Solves(f)
<1>1. _upperBinaryLookup(self, key, low, high) = found[<<low, high>>]
  BY DEF _upperBinaryLookup, _unsafeAccess
<1>2. \A f : [b \in (0 .. high) \X (0 .. high) |-> Body(f, b)] = Step(high, p, f)
  <2> SUFFICES ASSUME NEW f, NEW b \in Bounds(high)
               PROVE  Body(f, b) = Step(high, p, f)[b]
    BY DEF Step, Bounds
  <2>1. b[1] \in 0 .. high /\ b[2] \in 0 .. high
    BY DEF Bounds
  <2>2. b[1] < b[2] => (self[average(b[1], b[2]) + 1]._key > key <=> average(b[1], b[2]) >= p)
    <3> SUFFICES ASSUME b[1] < b[2]
                 PROVE  self[average(b[1], b[2]) + 1]._key > key <=> average(b[1], b[2]) >= p
      OBVIOUS
    <3>1. average(b[1], b[2]) \in Nat /\ average(b[1], b[2]) < b[2]
      BY <2>1, AverageBetween
    <3>2. \A m \in Nat : m < high => (self[m + 1]._key > key <=> m >= p)
      BY KeysAreNumbers DEF SplitsUpTo
    <3> QED BY <2>1, <3>1, <3>2
  <2> QED BY <2>2 DEF Step
<1>3. high \in Nat /\ p \in Nat /\ low \in 0 .. high
  BY DEF SplitsUpTo
<1>4. Solves(found)
  <2> HIDE DEF Body
  <2>1. Nearest(high, p) = Step(high, p, Nearest(high, p))
    BY <1>3, NearestSolves
  <2>2. Solves(Nearest(high, p))
    BY ONLY <1>2, <2>1
  <2> HIDE DEF Solves
  <2> QED BY ONLY <2>2
<1>5. found = Step(high, p, found)
  BY <1>2, <1>4
<1> HIDE DEF found
<1> QED BY <1>1, <1>3, <1>5, SearchFinds

LEMMA LowerLookupFinds ==
  ASSUME NEW self \in Histories, NEW key \in Nat, NEW p, SplitsBelow(self, key, p),
         NEW low \in Nat, NEW high \in 0 .. Len(self), low <= p, p <= high
  PROVE  _lowerBinaryLookup(self, key, low, high) = p
<1> DEFINE Body(f, b) ==
             IF b[1] < b[2]
               THEN IF self[average(b[1], b[2]) + 1]._key < key
                      THEN f[<<average(b[1], b[2]) + 1, b[2]>>]
                      ELSE f[<<b[1], average(b[1], b[2])>>]
               ELSE b[2]
           Solves(f) == f = [b \in (0 .. high) \X (0 .. high) |-> Body(f, b)]
           found == CHOOSE f : Solves(f)
<1>1. _lowerBinaryLookup(self, key, low, high) = found[<<low, high>>]
  BY DEF _lowerBinaryLookup, _unsafeAccess
<1>2. \A f : [b \in (0 .. high) \X (0 .. high) |-> Body(f, b)] = Step(high, p, f)
  <2> SUFFICES ASSUME NEW f, NEW b \in Bounds(high)
               PROVE  Body(f, b) = Step(high, p, f)[b]
    BY DEF Step, Bounds
  <2>1. b[1] \in 0 .. high /\ b[2] \in 0 .. high
    BY DEF Bounds
  <2>2. b[1] < b[2] => (self[average(b[1], b[2]) + 1]._key < key <=> ~(average(b[1], b[2]) >= p))
    <3> SUFFICES ASSUME b[1] < b[2]
                 PROVE  self[average(b[1], b[2]) + 1]._key < key <=> ~(average(b[1], b[2]) >= p)
      OBVIOUS
    <3>1. average(b[1], b[2]) \in Nat /\ average(b[1], b[2]) < b[2]
      BY <2>1, AverageBetween
    <3>2. \A m \in Nat : m < high => (self[m + 1]._key < key <=> ~(m >= p))
      BY KeysAreNumbers DEF SplitsBelow
    <3> QED BY <2>1, <3>1, <3>2
  <2> QED BY <2>2 DEF Step
<1>3. high \in Nat /\ p \in Nat /\ low \in 0 .. high
  BY DEF SplitsBelow
<1>4. Solves(found)
  <2> HIDE DEF Body
  <2>1. Nearest(high, p) = Step(high, p, Nearest(high, p))
    BY <1>3, NearestSolves
  <2>2. Solves(Nearest(high, p))
    BY ONLY <1>2, <2>1
  <2> HIDE DEF Solves
  <2> QED BY ONLY <2>2
<1>5. found = Step(high, p, found)
  BY <1>2, <1>4
<1> HIDE DEF found
<1> QED BY <1>1, <1>3, <1>5, SearchFinds

-----------------------------------------------------------------------------
(* Keys increase, so every key splits the history, and the probe of the    *)
(* recent-block lookup is one of its positions.                            *)

Increasing(self) ==
  \A i, j \in 1 .. Len(self) : i < j => self[i]._key < self[j]._key

LEMMA EveryKeySplits ==
  ASSUME NEW self \in Histories, Increasing(self), NEW key \in Int
  PROVE  \E p : SplitsUpTo(self, key, p)
<1> DEFINE After == {m \in 0 .. Len(self) : \A i \in 1 .. Len(self) : i > m => self[i]._key > key}
<1>1. Len(self) \in After /\ After \subseteq Nat
  BY KeysAreNumbers
<1>2. PICK p \in After : \A m \in After : p <= m
  <2> HIDE DEF After
  <2> QED BY <1>1, SmallestMember
<1>3. p \in 0 .. Len(self)
  OBVIOUS
<1>4. p > 0 => self[p]._key <= key
  <2> SUFFICES ASSUME p > 0, ~ (self[p]._key <= key) PROVE FALSE
    OBVIOUS
  <2>1. p - 1 \in 0 .. Len(self) /\ p \in 1 .. Len(self)
    BY <1>3, KeysAreNumbers
  <2>2. \A i \in 1 .. Len(self) : i > p - 1 => self[i]._key > key
    <3> SUFFICES ASSUME NEW i \in 1 .. Len(self), i > p - 1 PROVE self[i]._key > key
      OBVIOUS
    <3>1. CASE i = p
      BY <2>1, <3>1, KeysAreNumbers
    <3>2. CASE i > p
      BY <1>2, <3>2
    <3> QED BY <1>3, <3>1, <3>2
  <2>3. p - 1 \in After
    BY <2>1, <2>2
  <2> HIDE DEF After
  <2> QED BY <1>2, <1>3, <2>3
<1>5. ASSUME NEW i \in 1 .. Len(self)
      PROVE  self[i]._key <= key <=> i <= p
  <2>1. CASE i > p
    <3>1. self[i]._key > key
      BY <1>2, <2>1
    <3> QED BY <1>3, <2>1, <3>1, KeysAreNumbers
  <2>2. CASE i <= p
    <3>1. p \in 1 .. Len(self) /\ self[p]._key <= key
      BY <1>3, <1>4, <2>2
    <3>2. i = p \/ self[i]._key < self[p]._key
      BY <2>2, <3>1 DEF Increasing
    <3> QED BY <2>2, <3>1, <3>2, KeysAreNumbers
  <2> QED BY <1>3, <2>1, <2>2
<1> QED BY <1>3, <1>5 DEF SplitsUpTo

LEMMA SomeSplitsBelow ==
  ASSUME NEW self \in Histories, Increasing(self), NEW key \in Nat
  PROVE  \E p : SplitsBelow(self, key, p)
<1> DEFINE before == key - 1
<1>1. PICK p : SplitsUpTo(self, before, p)
  <2>1. before \in Int
    OBVIOUS
  <2> HIDE DEF before
  <2> QED BY <2>1, EveryKeySplits
<1>2. \A i \in 1 .. Len(self) : self[i]._key <= key - 1 <=> self[i]._key < key
  BY KeysAreNumbers
<1> QED BY <1>1, <1>2 DEF SplitsUpTo, SplitsBelow

(* The root of a positive length is a positive number, at most the length. *)
LEMMA RootOfLength ==
  ASSUME NEW n \in Nat, n > 0
  PROVE  sqrt(n) \in 1 .. n
<1> DEFINE Above == {r \in Nat : n < (r + 1) * (r + 1)}
<1>1. n \in Above
  <2>1. (n + 1) * (n + 1) = n * n + 2 * n + 1 /\ n * n \in Nat
    OBVIOUS
  <2> QED BY <2>1
<1>2. PICK r \in Above : \A k \in Above : r <= k
  BY <1>1, SmallestMember
<1>3. r # 0
  OBVIOUS
<1>4. r * r <= n
  <2>1. r - 1 \in Nat /\ ~ (r - 1 \in Above)
    BY <1>2, <1>3
  <2>2. (r - 1) + 1 = r
    OBVIOUS
  <2>3. r * r \in Nat
    OBVIOUS
  <2> QED BY <2>1, <2>2, <2>3
<1>5. r \in 0 .. n
  BY <1>1, <1>2
<1>6. sqrt(n) \in 0 .. n /\ n < (sqrt(n) + 1) * (sqrt(n) + 1)
  BY <1>4, <1>5 DEF sqrt
<1> QED BY <1>6

-----------------------------------------------------------------------------
(* What each lookup returns, by the position that splits the history.      *)

LEMMA UpperLookupAt ==
  ASSUME NEW self \in Histories, NEW key \in Nat, NEW p, SplitsUpTo(self, key, p)
  PROVE  upperLookup(self, key) = IF p = 0 THEN 0 ELSE self[p]._value
<1>1. p \in 0 .. Len(self) /\ Len(self) \in Nat
  BY KeysAreNumbers DEF SplitsUpTo
<1>2. _upperBinaryLookup(self, key, 0, Len(self)) = p
  BY <1>1, UpperLookupFinds
<1> QED BY <1>1, <1>2 DEF upperLookup, length, _unsafeAccess

LEMMA LowerLookupAt ==
  ASSUME NEW self \in Histories, NEW key \in Nat, NEW p, SplitsBelow(self, key, p)
  PROVE  lowerLookup(self, key) = IF p = Len(self) THEN 0 ELSE self[p + 1]._value
<1>1. p \in 0 .. Len(self) /\ Len(self) \in Nat
  BY KeysAreNumbers DEF SplitsBelow
<1>2. _lowerBinaryLookup(self, key, 0, Len(self)) = p
  BY <1>1, LowerLookupFinds
<1> QED BY <1>2 DEF lowerLookup, length, _unsafeAccess

LEMMA FittingBlockIsKept ==
  ASSUME NEW blockNumber \in Nat, CanToUintDown(KeyBits, blockNumber)
  PROVE  blockNumber \in Key /\ toUintDown(KeyBits, blockNumber) = blockNumber
<1> DEFINE size == 2^KeyBits
<1>1. size \in Nat \ {0} /\ blockNumber < size
  BY PowerAssumption DEF CanToUintDown, maxUint
<1>2. blockNumber % size = blockNumber
  <2> HIDE DEF size
  <2> QED BY <1>1
<1> QED BY <1>1, <1>2 DEF toUintDown, uint, Key, maxUint

LEMMA BlockLookupsAt ==
  ASSUME NEW self \in Histories, NEW blockNumber \in Nat, NEW at,
         CanToUintDown(KeyBits, blockNumber),
         NEW p, SplitsUpTo(self, blockNumber, p)
  PROVE  /\ getAtBlock(self, blockNumber, at) = IF p = 0 THEN 0 ELSE self[p]._value
         /\ getAtProbablyRecentBlock(self, blockNumber, at) = IF p = 0 THEN 0 ELSE self[p]._value
<1>1. p \in 0 .. Len(self) /\ Len(self) \in Nat
  BY KeysAreNumbers DEF SplitsUpTo
<1>2. _upperBinaryLookup(self, blockNumber, 0, Len(self)) = p
  BY <1>1, UpperLookupFinds
<1>3. toUintDown(KeyBits, blockNumber) = blockNumber
  BY FittingBlockIsKept
<1>4. getAtBlock(self, blockNumber, at) = IF p = 0 THEN 0 ELSE self[p]._value
  BY <1>1, <1>2, <1>3 DEF getAtBlock, length, _unsafeAccess
<1>5. ASSUME Len(self) > 5
      PROVE  LET mid == Len(self) - sqrt(Len(self))
             IN  IF blockNumber < self[mid + 1]._key
                   THEN _upperBinaryLookup(self, blockNumber, 0, mid) = p
                   ELSE _upperBinaryLookup(self, blockNumber, mid + 1, Len(self)) = p
  <2> DEFINE mid == Len(self) - sqrt(Len(self))
  <2>1. mid \in 0 .. Len(self) /\ mid + 1 \in 1 .. Len(self)
    <3>1. sqrt(Len(self)) \in 1 .. Len(self)
      BY <1>1, <1>5, RootOfLength
    <3> QED BY ONLY <1>1, <3>1
  <2> HIDE DEF mid
  <2>2. self[mid + 1]._key <= blockNumber <=> mid + 1 <= p
    BY <2>1 DEF SplitsUpTo
  <2>3. self[mid + 1]._key \in Nat
    BY <2>1, KeysAreNumbers
  <2>4. CASE blockNumber < self[mid + 1]._key
    <3>1. p <= mid
      BY <1>1, <2>1, <2>2, <2>3, <2>4
    <3>2. _upperBinaryLookup(self, blockNumber, 0, mid) = p
      BY <1>1, <2>1, <3>1, UpperLookupFinds
    <3> QED BY <2>4, <3>2 DEF mid
  <2>5. CASE ~ (blockNumber < self[mid + 1]._key)
    <3>1. mid + 1 <= p
      BY <2>2, <2>3, <2>5
    <3>2. _upperBinaryLookup(self, blockNumber, mid + 1, Len(self)) = p
      BY <1>1, <2>1, <3>1, UpperLookupFinds
    <3> QED BY <2>5, <3>2 DEF mid
  <2> QED BY <2>4, <2>5
<1>6. getAtProbablyRecentBlock(self, blockNumber, at) = IF p = 0 THEN 0 ELSE self[p]._value
  BY <1>1, <1>2, <1>3, <1>5 DEF getAtProbablyRecentBlock, length, _unsafeAccess
<1> QED BY <1>4, <1>6

-----------------------------------------------------------------------------
(* A push either overwrites the last checkpoint or adds one whose key is   *)
(* greater than all before.                                                *)

Overwrites(self, key, value, after) ==
  /\ Len(self) > 0 /\ self[Len(self)]._key = key
  /\ Len(after) = Len(self)
  /\ \A i \in 1 .. Len(self) :
       /\ after[i]._key = self[i]._key
       /\ after[i]._value = IF i = Len(self) THEN value ELSE self[i]._value

Extends(self, key, value, after) ==
  /\ Len(after) = Len(self) + 1
  /\ \A i \in 1 .. Len(self) : after[i] = self[i] /\ self[i]._key < key
  /\ after[Len(self) + 1]._key = key /\ after[Len(self) + 1]._value = value

LEMMA InsertOverwritesOrExtends ==
  ASSUME NEW self \in Histories, Increasing(self), NEW key \in Key, NEW value \in Value,
         CanInsert(self, key)
  PROVE  /\ _insert(self, key, value) \in Histories
         /\ \/ Overwrites(self, key, value, _insert(self, key, value))
            \/ Extends(self, key, value, _insert(self, key, value))
<1> DEFINE Checkpoint == [_key : Key, _value : Value]
           n == Len(self)
<1>1. self \in Seq(Checkpoint)
  BY DEF Histories
<1>2. n \in Nat /\ (n > 0 => self[n] \in Checkpoint /\ self[n]._key <= key)
  <2>1. n \in Nat /\ \A i \in 1 .. n : self[i] \in Checkpoint
    <3> HIDE DEF Checkpoint
    <3> QED BY <1>1
  <2> QED BY <2>1 DEF CanInsert, length, _unsafeAccess
<1>3. key \in Nat
  BY PowerAssumption DEF Key, maxUint
<1>4. CASE n > 0 /\ self[n]._key = key
  <2> DEFINE last == [self[n] EXCEPT !._value = value]
  <2>1. _insert(self, key, value) = [self EXCEPT ![n] = last]
    BY <1>2, <1>4 DEF _insert, length, _unsafeAccess
  <2>2. last \in Checkpoint /\ last._key = self[n]._key /\ last._value = value
    BY <1>2, <1>4
  <2>3. n \in 1 .. Len(self)
    BY <1>2, <1>4
  <2>4. /\ [self EXCEPT ![n] = last] \in Seq(Checkpoint)
        /\ Len([self EXCEPT ![n] = last]) = Len(self)
        /\ \A i \in 1 .. Len(self) : [self EXCEPT ![n] = last][i] = IF i = n THEN last ELSE self[i]
    <3> HIDE DEF Checkpoint, last, n
    <3> QED BY <1>1, <2>2, <2>3, ExceptSeq
  <2> HIDE DEF last
  <2>5. Overwrites(self, key, value, [self EXCEPT ![n] = last])
    BY <1>4, <2>2, <2>4 DEF Overwrites
  <2> QED BY <2>1, <2>4, <2>5 DEF Histories
<1>5. CASE ~ (n > 0 /\ self[n]._key = key)
  <2> DEFINE last == [_key |-> key, _value |-> value]
  <2>1. _insert(self, key, value) = Append(self, last)
    BY <1>5 DEF _insert, length, _unsafeAccess
  <2>2. last \in Checkpoint /\ last._key = key /\ last._value = value
    OBVIOUS
  <2>3. /\ Append(self, last) \in Seq(Checkpoint)
        /\ Len(Append(self, last)) = Len(self) + 1
        /\ \A i \in 1 .. Len(self) : Append(self, last)[i] = self[i]
        /\ Append(self, last)[Len(self) + 1] = last
    <3> HIDE DEF Checkpoint, last
    <3> QED BY <1>1, <2>2, AppendProperties
  <2> HIDE DEF last
  <2>4. ASSUME NEW i \in 1 .. Len(self)
        PROVE  self[i]._key < key
    <3>1. self[n]._key < key /\ self[n]._key \in Nat /\ n \in 1 .. Len(self) /\ i \in 1 .. Len(self)
      BY <1>2, <1>3, <1>5, KeysAreNumbers
    <3>2. self[i]._key \in Nat
      BY KeysAreNumbers
    <3>3. i = n \/ self[i]._key < self[n]._key
      BY <1>2, <3>1 DEF Increasing
    <3> QED BY <1>3, <3>1, <3>2, <3>3
  <2>5. Extends(self, key, value, Append(self, last))
    BY <2>2, <2>3, <2>4 DEF Extends
  <2> QED BY <2>1, <2>3, <2>5 DEF Histories
<1> QED BY <1>4, <1>5

LEMMA InsertKeepsIncreasing ==
  ASSUME NEW self \in Histories, Increasing(self), NEW key \in Key, NEW value \in Value,
         NEW after, after \in Histories,
         Overwrites(self, key, value, after) \/ Extends(self, key, value, after)
  PROVE  Increasing(after)
<1>1. Len(self) \in Nat
  BY KeysAreNumbers
<1>2. CASE Overwrites(self, key, value, after)
  BY <1>2 DEF Overwrites, Increasing
<1>3. CASE Extends(self, key, value, after)
  BY <1>1, <1>3 DEF Extends, Increasing
<1> QED BY <1>2, <1>3

LEMMA LatestAt ==
  ASSUME NEW self \in Histories
  PROVE  /\ latest(self) = IF Len(self) = 0 THEN 0 ELSE self[Len(self)]._value
         /\ latest(self) \in Value
         /\ \A key, value : _insertReturns(self, key, value) = <<latest(self), value>>
<1>1. Len(self) \in Nat /\ 0 \in Value
  BY KeysAreNumbers, PowerAssumption DEF Value, maxUint
<1> QED BY <1>1, KeysAreNumbers DEF latest, length, _unsafeAccess, _insertReturns

-----------------------------------------------------------------------------
(* The contract.  `written` is what the checkpoints say, and no block of a *)
(* History is written before it is the present one.                        *)

Recorded ==
  /\ written = [k \in DOMAIN written |-> written[k]]
  /\ DOMAIN written = {_totalCheckpoints[i]._key : i \in 1 .. Len(_totalCheckpoints)}
  /\ \A i \in 1 .. Len(_totalCheckpoints) :
       written[_totalCheckpoints[i]._key] = _totalCheckpoints[i]._value

InTime ==
  /\ mock = "History" => \A i \in 1 .. Len(_totalCheckpoints) : _totalCheckpoints[i]._key <= now
  /\ mock = "Trace" => now = 0

CheckpointsInv == TypeOK /\ Recorded /\ InTime

LEMMA ReferenceUpTo ==
  ASSUME TypeOK, Recorded, NEW key \in Nat, NEW p, SplitsUpTo(_totalCheckpoints, key, p)
  PROVE  ValueUpTo(key) = IF p = 0 THEN 0 ELSE _totalCheckpoints[p]._value
<1> DEFINE cp     == _totalCheckpoints
           before == {k \in DOMAIN written : k <= key}
<1>1. cp \in Histories /\ Increasing(cp)
  BY DEF TypeOK, Increasing
<1>2. p \in 0 .. Len(cp) /\ Len(cp) \in Nat /\ \A i \in 1 .. Len(cp) : cp[i]._key \in Nat
  BY <1>1, KeysAreNumbers DEF SplitsUpTo
<1>3. \A k : k \in before <=> \E i \in 1 .. Len(cp) : i <= p /\ k = cp[i]._key
  BY DEF SplitsUpTo, Recorded
<1>4. CASE p = 0
  <2>1. before = {}
    BY <1>2, <1>3, <1>4
  <2> QED BY <1>4, <2>1 DEF ValueUpTo
<1>5. CASE p > 0
  <2>1. p \in 1 .. Len(cp) /\ cp[p]._key \in before
    BY <1>2, <1>3, <1>5
  <2>2. \A j \in before : j <= cp[p]._key /\ j \in Nat
    BY <1>1, <1>2, <1>3, <2>1 DEF Increasing
  <2> DEFINE greatest == CHOOSE k \in before : \A j \in before : j <= k
  <2> HIDE DEF before
  <2>3. greatest = cp[p]._key
    <3>1. \A k \in before : (\A j \in before : j <= k) => k = cp[p]._key
      BY <2>1, <2>2
    <3> QED BY <2>1, <2>2, <3>1
  <2>4. ValueUpTo(key) = IF before = {} THEN 0 ELSE written[greatest]
    BY DEF ValueUpTo, before
  <2> HIDE DEF greatest
  <2>5. written[cp[p]._key] = cp[p]._value
    BY <2>1 DEF Recorded
  <2> QED BY <1>5, <2>1, <2>3, <2>4, <2>5
<1> QED BY <1>2, <1>4, <1>5

LEMMA ReferenceFrom ==
  ASSUME TypeOK, Recorded, NEW key \in Nat, NEW p, SplitsBelow(_totalCheckpoints, key, p)
  PROVE  ValueFrom(key) = IF p = Len(_totalCheckpoints) THEN 0
                          ELSE _totalCheckpoints[p + 1]._value
<1> DEFINE cp    == _totalCheckpoints
           after == {k \in DOMAIN written : k >= key}
<1>1. cp \in Histories /\ Increasing(cp)
  BY DEF TypeOK, Increasing
<1>2. p \in 0 .. Len(cp) /\ Len(cp) \in Nat /\ \A i \in 1 .. Len(cp) : cp[i]._key \in Nat
  BY <1>1, KeysAreNumbers DEF SplitsBelow
<1>3. \A k : k \in after <=> \E i \in 1 .. Len(cp) : i > p /\ k = cp[i]._key
  <2>1. \A i \in 1 .. Len(cp) : cp[i]._key >= key <=> i > p
    BY <1>2 DEF SplitsBelow
  <2> QED BY <2>1 DEF Recorded
<1>4. CASE p = Len(cp)
  <2>1. after = {}
    BY <1>2, <1>3, <1>4
  <2> QED BY <1>4, <2>1 DEF ValueFrom
<1>5. CASE p < Len(cp)
  <2>1. p + 1 \in 1 .. Len(cp) /\ cp[p + 1]._key \in after
    BY <1>2, <1>3, <1>5
  <2>2. \A j \in after : j >= cp[p + 1]._key /\ j \in Nat
    <3>1. ASSUME NEW i \in 1 .. Len(cp), i > p
          PROVE  cp[i]._key >= cp[p + 1]._key
      <4>1. i = p + 1 \/ p + 1 < i
        BY <1>2, <3>1
      <4>2. p + 1 < i => cp[p + 1]._key < cp[i]._key
        BY <1>1, <2>1 DEF Increasing
      <4> QED BY <1>2, <2>1, <4>1, <4>2
    <3> QED BY <1>2, <1>3, <3>1
  <2> DEFINE least == CHOOSE k \in after : \A j \in after : j >= k
  <2> HIDE DEF after
  <2>3. least = cp[p + 1]._key
    <3>1. \A k \in after : (\A j \in after : j >= k) => k = cp[p + 1]._key
      BY <2>1, <2>2
    <3> QED BY <2>1, <2>2, <3>1
  <2>4. ValueFrom(key) = IF after = {} THEN 0 ELSE written[least]
    BY DEF ValueFrom, after
  <2> HIDE DEF least
  <2>5. written[cp[p + 1]._key] = cp[p + 1]._value
    BY <2>1 DEF Recorded
  <2> QED BY <1>5, <2>1, <2>3, <2>4, <2>5
<1> QED BY <1>2, <1>4, <1>5

LEMMA InvariantGivesLookups ==
  ASSUME CheckpointsInv
  PROVE  LookupsAgree
<1> DEFINE cp == _totalCheckpoints
<1>1. cp \in Histories /\ Increasing(cp) /\ TypeOK /\ Recorded
  BY DEF CheckpointsInv, TypeOK, Increasing
<1>2. \A i \in 1 .. Len(cp) : cp[i]._key \in Key /\ cp[i]._key \in Nat
  BY <1>1, KeysAreNumbers
<1>3. Key \subseteq Nat /\ maxUint(KeyBits) \in Nat /\ \A k \in Key : k <= maxUint(KeyBits)
  BY PowerAssumption DEF Key, maxUint
<1>4. Len(cp) \in Nat
  BY <1>1, KeysAreNumbers
<1>5. ASSUME NEW b \in 0 .. now, CanGetAtBlock(cp, b, now)
      PROVE  getAtBlock(cp, b, now) = ValueUpTo(b) /\ getAtProbablyRecentBlock(cp, b, now) = ValueUpTo(b)
  <2>1. b \in Nat /\ CanToUintDown(KeyBits, b)
    BY <1>5 DEF CanGetAtBlock
  <2>2. PICK p : SplitsUpTo(cp, b, p)
    BY <1>1, <2>1, EveryKeySplits
  <2> QED BY <1>1, <2>1, <2>2, BlockLookupsAt, ReferenceUpTo
<1>6. ASSUME NEW key \in Key
      PROVE  upperLookup(cp, key) = ValueUpTo(key) /\ lowerLookup(cp, key) = ValueFrom(key)
  <2>1. PICK p : SplitsUpTo(cp, key, p)
    BY <1>1, <1>3, EveryKeySplits
  <2>2. PICK q : SplitsBelow(cp, key, q)
    BY <1>1, <1>3, SomeSplitsBelow
  <2>3. upperLookup(cp, key) = ValueUpTo(key)
    BY <1>1, <1>3, <2>1, UpperLookupAt, ReferenceUpTo
  <2>4. lowerLookup(cp, key) = ValueFrom(key)
    BY <1>1, <1>3, <2>2, LowerLookupAt, ReferenceFrom
  <2> QED BY <2>3, <2>4
<1>7. latest(cp) = ValueUpTo(maxUint(KeyBits))
  <2> DEFINE n == Len(cp)
             last == maxUint(KeyBits)
  <2>1. SplitsUpTo(cp, last, n)
    BY <1>2, <1>3, <1>4 DEF SplitsUpTo
  <2> HIDE DEF last
  <2>2. last \in Nat
    BY <1>3 DEF last
  <2>3. ValueUpTo(last) = IF n = 0 THEN 0 ELSE cp[n]._value
    BY <1>1, <2>1, <2>2, ReferenceUpTo
  <2> QED BY <1>1, <2>3, LatestAt DEF last
<1>8. latestCheckpoint(cp).exists <=> written # <<>>
  <2>1. latestCheckpoint(cp).exists <=> Len(cp) # 0
    BY DEF latestCheckpoint, length
  <2>2. Len(cp) = 0 => written = <<>>
    BY <1>1 DEF Recorded
  <2>3. Len(cp) # 0 => written # <<>>
    <3>1. Len(cp) # 0 => cp[1]._key \in DOMAIN written
      BY <1>1, <1>4 DEF Recorded
    <3>2. written = <<>> => DOMAIN written = {}
      OBVIOUS
    <3> QED BY <3>1, <3>2
  <2> QED BY <2>1, <2>2, <2>3
<1> QED BY <1>5, <1>6, <1>7, <1>8 DEF LookupsAgree

-----------------------------------------------------------------------------
(* Every push keeps the invariant. *)

LEMMA PushNowInserts ==
  ASSUME CheckpointsInv, NEW value \in Nat, pushNow(value)
  PROVE  now \in Key /\ value \in Value /\ mock = "History" /\ Insert(now, value)
<1>1. now \in Nat
  BY MockAssumption DEF CheckpointsInv, TypeOK
<1>2. now \in Key /\ toUintDown(KeyBits, now) = now
  BY <1>1, FittingBlockIsKept DEF pushNow, CanPushAt
<1>3. value \in Value /\ toUintDown(ValueBits, value) = value
  <2> DEFINE size == 2^ValueBits
  <2>1. size \in Nat \ {0} /\ value < size
    BY PowerAssumption DEF pushNow, CanPushAt, CanToUintDown, maxUint
  <2>2. value % size = value
    <3> HIDE DEF size
    <3> QED BY <2>1
  <2> QED BY <2>1, <2>2 DEF toUintDown, uint, Value, maxUint
<1> QED BY <1>2, <1>3 DEF pushNow

(* A step mines a block or inserts, a History under its present block. *)
LEMMA StepsInsert ==
  ASSUME CheckpointsInv, Next
  PROVE  \/ Mine
         \/ \E key \in Key, value \in Value :
              Insert(key, value) /\ (mock = "History" => key = now)
<1>1. CASE Mine
  BY <1>1
<1>2. ASSUME NEW value \in Nat, pushNow(value)
      PROVE  \E key \in Key, v \in Value : Insert(key, v) /\ (mock = "History" => key = now)
  BY <1>2, PushNowInserts
<1>3. ASSUME NEW n \in Amounts, pushNow(n) \/ pushOp(n)
      PROVE  \E value \in Nat : pushNow(value)
  <2>1. n \in Nat
    BY MockAssumption
  <2>2. latest(_totalCheckpoints) \in Nat
    BY LatestAt, PowerAssumption DEF CheckpointsInv, TypeOK, Value, maxUint
  <2> QED BY <1>3, <2>1, <2>2 DEF pushOp
<1>4. ASSUME NEW n \in Amounts, NEW key \in TraceKeys, push(key, n)
      PROVE  \E k \in Key, v \in Value : Insert(k, v) /\ (mock = "History" => k = now)
  BY <1>4 DEF push
<1> QED BY <1>1, <1>2, <1>3, <1>4 DEF Next

LEMMA InsertKeepsInv ==
  ASSUME CheckpointsInv, NEW key \in Key, NEW value \in Value, Insert(key, value),
         mock = "History" => key = now
  PROVE  CheckpointsInv'
<1> DEFINE cp    == _totalCheckpoints
           after == _insert(_totalCheckpoints, key, value)
<1>1. cp \in Histories /\ Increasing(cp) /\ CanInsert(cp, key)
  BY DEF CheckpointsInv, TypeOK, Increasing, Insert
<1>2. after \in Histories /\ (Overwrites(cp, key, value, after) \/ Extends(cp, key, value, after))
  BY <1>1, InsertOverwritesOrExtends
<1>3. _totalCheckpoints' = after /\ mock' = mock /\ now' = now
      /\ returned' = _insertReturns(cp, key, value)
      /\ written' = [k \in DOMAIN written \cup {key} |-> IF k = key THEN value ELSE written[k]]
  BY DEF Insert
<1>4. Increasing(after) /\ Len(cp) \in Nat /\ Len(after) \in Nat
  BY <1>1, <1>2, InsertKeepsIncreasing, KeysAreNumbers
<1> HIDE DEF after
<1>5. TypeOK'
  <2>1. returned' \in Value \X Value
    BY <1>1, <1>3, LatestAt
  <2> QED BY <1>2, <1>3, <1>4, <2>1 DEF CheckpointsInv, TypeOK, Increasing
<1>6. Recorded'
  <2>1. written' = [k \in DOMAIN written' |-> written'[k]] /\ DOMAIN written' = DOMAIN written \cup {key}
    BY <1>3
  <2>2. CASE Overwrites(cp, key, value, after)
    <3>1. DOMAIN written' = {after[i]._key : i \in 1 .. Len(after)}
      <4>1. {after[i]._key : i \in 1 .. Len(after)} = {cp[i]._key : i \in 1 .. Len(cp)}
        BY <2>2 DEF Overwrites
      <4>2. key \in {cp[i]._key : i \in 1 .. Len(cp)}
        BY <1>4, <2>2 DEF Overwrites
      <4>3. DOMAIN written = {cp[i]._key : i \in 1 .. Len(cp)}
        BY DEF CheckpointsInv, Recorded
      <4> QED BY ONLY <2>1, <4>1, <4>2, <4>3
    <3>2. ASSUME NEW i \in 1 .. Len(after)
          PROVE  written'[after[i]._key] = after[i]._value
      <4>1. i \in 1 .. Len(cp) /\ after[i]._key = cp[i]._key /\ cp[i]._key \in DOMAIN written
            /\ written[cp[i]._key] = cp[i]._value
        BY <2>2 DEF CheckpointsInv, Recorded, Overwrites
      <4>2. cp[i]._key = key <=> i = Len(cp)
        BY <1>1, <1>4, <2>2, <4>1, KeysAreNumbers DEF Overwrites, Increasing
      <4> QED BY <1>3, <2>2, <4>1, <4>2 DEF Overwrites
    <3>3. _totalCheckpoints' = after
      BY <1>3
    <3> QED BY ONLY <2>1, <3>1, <3>2, <3>3 DEF Recorded
  <2>3. CASE Extends(cp, key, value, after)
    <3>1. DOMAIN written' = {after[i]._key : i \in 1 .. Len(after)}
      <4>1. \A i \in 1 .. Len(after) : i = Len(cp) + 1 \/ i \in 1 .. Len(cp)
        BY <1>4, <2>3 DEF Extends
      <4>2. Len(cp) + 1 \in 1 .. Len(after) /\ \A i \in 1 .. Len(cp) : i \in 1 .. Len(after)
        BY <1>4, <2>3 DEF Extends
      <4> QED BY <2>1, <2>3, <4>1, <4>2 DEF CheckpointsInv, Recorded, Extends
    <3>2. ASSUME NEW i \in 1 .. Len(after)
          PROVE  written'[after[i]._key] = after[i]._value
      <4>1. CASE i = Len(cp) + 1
        BY <1>3, <2>3, <4>1 DEF Extends
      <4>2. CASE i \in 1 .. Len(cp)
        <5>1. cp[i]._key \in DOMAIN written /\ written[cp[i]._key] = cp[i]._value
          BY <4>2 DEF CheckpointsInv, Recorded
        <5>2. after[i] = cp[i] /\ cp[i]._key # key
          BY <1>1, <2>3, <4>2, KeysAreNumbers DEF Extends
        <5> QED BY <1>3, <5>1, <5>2
      <4> QED BY <1>4, <2>3, <4>1, <4>2 DEF Extends
    <3>3. _totalCheckpoints' = after
      BY <1>3
    <3> QED BY ONLY <2>1, <3>1, <3>2, <3>3 DEF Recorded
  <2> QED BY <1>2, <2>2, <2>3
<1>7. InTime'
  <2>1. CASE mock = "History"
    <3>1. \A i \in 1 .. Len(cp) : cp[i]._key <= now
      BY <2>1 DEF CheckpointsInv, InTime
    <3>2. key = now /\ key <= now
      BY <2>1, PowerAssumption DEF Key, maxUint
    <3>3. CASE Overwrites(cp, key, value, after)
      BY <1>3, <2>1, <3>1, <3>3 DEF Overwrites, InTime
    <3>4. CASE Extends(cp, key, value, after)
      <4>1. \A i \in 1 .. Len(after) : i = Len(cp) + 1 \/ i \in 1 .. Len(cp)
        BY <1>4, <3>4 DEF Extends
      <4> QED BY <1>3, <2>1, <3>1, <3>2, <3>4, <4>1 DEF Extends, InTime
    <3> QED BY <1>2, <3>3, <3>4
  <2>2. CASE mock # "History"
    BY <1>3, <2>2 DEF CheckpointsInv, InTime
  <2> QED BY <2>1, <2>2
<1> QED BY <1>5, <1>6, <1>7 DEF CheckpointsInv

LEMMA MineKeepsInv ==
  ASSUME CheckpointsInv, Mine
  PROVE  CheckpointsInv'
<1>1. now \in Nat /\ now' = now + 1 /\ now' \in 0 .. LastBlock /\ mock = "History"
  BY MockAssumption DEF CheckpointsInv, TypeOK, Mine
<1>2. UNCHANGED <<mock, _totalCheckpoints, returned, written>>
  BY DEF Mine
<1>3. TypeOK'
  BY <1>1, <1>2 DEF CheckpointsInv, TypeOK
<1>4. Recorded'
  BY <1>2 DEF CheckpointsInv, Recorded
<1>5. InTime'
  <2>1. _totalCheckpoints \in Histories
    BY DEF CheckpointsInv, TypeOK
  <2>2. \A i \in 1 .. Len(_totalCheckpoints) : _totalCheckpoints[i]._key <= now + 1
    BY <1>1, <2>1, KeysAreNumbers DEF CheckpointsInv, InTime
  <2> QED BY <1>1, <1>2, <2>2 DEF InTime
<1> QED BY <1>3, <1>4, <1>5 DEF CheckpointsInv

LEMMA CheckpointsInvInductive ==
  /\ Init => CheckpointsInv
  /\ CheckpointsInv /\ [Next]_vars => CheckpointsInv'
<1>1. Init => CheckpointsInv
  <2> SUFFICES ASSUME Init PROVE CheckpointsInv
    OBVIOUS
  <2>1. <<>> \in Histories
    BY DEF Histories
  <2>2. TypeOK
    BY <2>1, MockAssumption DEF Init, TypeOK
  <2>3. Recorded
    BY DEF Init, Recorded
  <2>4. InTime
    BY DEF Init, InTime
  <2> QED BY <2>2, <2>3, <2>4 DEF CheckpointsInv
<1>2. CheckpointsInv /\ Next => CheckpointsInv'
  BY StepsInsert, InsertKeepsInv, MineKeepsInv
<1>3. CheckpointsInv /\ UNCHANGED vars => CheckpointsInv'
  BY DEF CheckpointsInv, TypeOK, Recorded, InTime, vars
<1> QED BY <1>1, <1>2, <1>3


-----------------------------------------------------------------------------
(* A push under a key leaves what is found under smaller keys. *)
LEMMA InsertLeavesThePast ==
  ASSUME NEW self \in Histories, Increasing(self), NEW key \in Key, NEW value \in Value,
         NEW after \in Histories,
         Overwrites(self, key, value, after) \/ Extends(self, key, value, after),
         NEW b \in Nat, b < key, NEW p, SplitsUpTo(self, b, p)
  PROVE  SplitsUpTo(after, b, p) /\ (p > 0 => after[p]._value = self[p]._value)
<1>1. Len(self) \in Nat /\ p \in 0 .. Len(self) /\ key \in Nat
  BY KeysAreNumbers, PowerAssumption DEF SplitsUpTo, Key, maxUint
<1>2. CASE Overwrites(self, key, value, after)
  <2>1. p < Len(self)
    BY <1>1, <1>2 DEF Overwrites, SplitsUpTo
  <2> QED BY <1>1, <1>2, <2>1 DEF Overwrites, SplitsUpTo
<1>3. CASE Extends(self, key, value, after)
  <2>1. \A i \in 1 .. Len(after) : i = Len(self) + 1 \/ i \in 1 .. Len(self)
    BY <1>1, <1>3 DEF Extends
  <2>2. SplitsUpTo(after, b, p)
    BY <1>1, <1>3, <2>1 DEF Extends, SplitsUpTo
  <2> QED BY <1>1, <1>3, <2>2 DEF Extends
<1> QED BY <1>2, <1>3

LEMMA StepSettlesThePast ==
  ASSUME CheckpointsInv, [Next]_vars, NEW b \in 0 .. now,
         CanGetAtBlock(_totalCheckpoints, b, now)
  PROVE  getAtBlock(_totalCheckpoints, b, now)' = getAtBlock(_totalCheckpoints, b, now)
<1> DEFINE cp == _totalCheckpoints
<1>1. cp \in Histories /\ Increasing(cp) /\ now \in Nat
  BY MockAssumption DEF CheckpointsInv, TypeOK, Increasing
<1>2. b \in Nat /\ b < now /\ CanToUintDown(KeyBits, b)
  BY <1>1 DEF CanGetAtBlock
<1>3. CASE cp' = cp
  BY <1>3 DEF getAtBlock
<1>4. ASSUME NEW key \in Key, NEW value \in Value, Insert(key, value), mock = "History" => key = now
      PROVE  getAtBlock(cp, b, now)' = getAtBlock(cp, b, now)
  <2>1. CASE mock # "History"
    BY <1>1, <1>2, <2>1, MockAssumption DEF CheckpointsInv, TypeOK, InTime
  <2>2. CASE mock = "History"
    <3>1. b < key /\ CanInsert(cp, key) /\ cp' = _insert(cp, key, value)
      BY <1>2, <1>4, <2>2 DEF Insert
    <3>2. cp' \in Histories /\ (Overwrites(cp, key, value, cp') \/ Extends(cp, key, value, cp'))
      BY <1>1, <3>1, InsertOverwritesOrExtends
    <3>3. PICK p : SplitsUpTo(cp, b, p)
      BY <1>1, <1>2, EveryKeySplits
    <3>4. SplitsUpTo(cp', b, p) /\ (p > 0 => cp'[p]._value = cp[p]._value)
      BY <1>1, <1>2, <3>1, <3>2, <3>3, InsertLeavesThePast
    <3>5. p \in Nat
      BY <1>1, <3>3, KeysAreNumbers DEF SplitsUpTo
    <3>6. getAtBlock(cp, b, now) = IF p = 0 THEN 0 ELSE cp[p]._value
      BY <1>1, <1>2, <3>3, BlockLookupsAt
    <3>7. getAtBlock(cp', b, now') = IF p = 0 THEN 0 ELSE cp'[p]._value
      BY <1>2, <3>2, <3>4, BlockLookupsAt
    <3> QED BY <3>4, <3>5, <3>6, <3>7
  <2> QED BY <2>1, <2>2
<1> QED BY <1>3, <1>4, StepsInsert DEF Mine, vars

LEMMA StepReturnsReplaced ==
  ASSUME CheckpointsInv, [Next]_vars, written' # written
  PROVE  returned' = <<latest(_totalCheckpoints), latest(_totalCheckpoints')>>
<1> DEFINE cp == _totalCheckpoints
<1>1. PICK key \in Key, value \in Value : Insert(key, value)
  BY StepsInsert DEF Mine, vars
<1>2. cp \in Histories /\ Increasing(cp) /\ CanInsert(cp, key) /\ cp' = _insert(cp, key, value)
      /\ returned' = _insertReturns(cp, key, value)
  BY <1>1 DEF CheckpointsInv, TypeOK, Increasing, Insert
<1>3. cp' \in Histories /\ (Overwrites(cp, key, value, cp') \/ Extends(cp, key, value, cp'))
  BY <1>2, InsertOverwritesOrExtends
<1>4. Len(cp) \in Nat
  BY <1>2, KeysAreNumbers
<1>5. latest(cp') = value
  BY <1>3, <1>4, LatestAt DEF Overwrites, Extends
<1> QED BY <1>2, <1>5, LatestAt

-----------------------------------------------------------------------------
(* Keys and values have their types and keys increase strictly, whatever   *)
(* is pushed to either mock.                                               *)
THEOREM HistoryTypeCorrect == Spec => []TypeOK
<1>1. CheckpointsInv => TypeOK
  BY DEF CheckpointsInv
<1> QED BY <1>1, CheckpointsInvInductive, PTL DEF Spec

(* Every lookup, by any of the searches, finds what was written. *)
THEOREM EveryLookupAgrees == Spec => []LookupsAgree
<1> QED BY InvariantGivesLookups, CheckpointsInvInductive, PTL DEF Spec

(* No push changes the answer for a block already mined. *)
THEOREM ThePastIsSettled == Spec => PastIsSettled
<1>1. CheckpointsInv /\ [Next]_vars =>
        [\A b \in 0 .. now : CanGetAtBlock(_totalCheckpoints, b, now) =>
           getAtBlock(_totalCheckpoints, b, now)' = getAtBlock(_totalCheckpoints, b, now)]_vars
  BY StepSettlesThePast
<1> QED BY <1>1, CheckpointsInvInductive, PTL DEF Spec, PastIsSettled

(* A push returns the value it replaces and the one it wrote. *)
THEOREM EveryPushReturnsReplaced == Spec => PushReturnsReplaced
<1>1. CheckpointsInv /\ [Next]_vars =>
        [written' # written => returned' = <<latest(_totalCheckpoints), latest(_totalCheckpoints')>>]_vars
  BY StepReturnsReplaced
<1> QED BY <1>1, CheckpointsInvInductive, PTL DEF Spec, PushReturnsReplaced
=============================================================================
