------------------------- MODULE EnumerableMap_proofs -------------------------
(***************************************************************************)
(* The map contract is a dictionary, for words and addresses of any width  *)
(* and every pair of types.  The keys' array and their indexes match, so a *)
(* key stands in the array exactly if its index says so; an absent key has *)
(* no value; and only words a value of its type converts to are stored, so *)
(* converting back loses nothing.                                          *)
(***************************************************************************)
EXTENDS MCEnumerable, SequenceTheorems, TLAPS

-----------------------------------------------------------------------------
(* The set of keys. *)

LEMMA Places ==
  ASSUME NEW s \in Keys!Sets
  PROVE  /\ Len(s._values) \in Nat
         /\ \A i \in 1..Len(s._values) : s._values[i] \in Bytes32
         /\ s._values \in Seq(Bytes32) /\ s._indexes \in [Bytes32 -> Nat]
<1>1. s._values \in Seq(Bytes32) /\ s._indexes \in [Bytes32 -> Nat]
  BY DEF Keys!Sets, Keys!Bytes32, Bytes32
<1>2. Len(s._values) \in Nat
  BY <1>1, LenProperties
<1>3. \A i \in 1..Len(s._values) : s._values[i] \in Bytes32
  BY <1>1, ElementOfSeq
<1> QED BY <1>1, <1>2, <1>3

LEMMA AddMatches ==
  ASSUME NEW s \in Keys!Sets, Keys!IndexesMatch(s), NEW word \in Bytes32
  PROVE  /\ Keys!_add(s, word) \in Keys!Sets /\ Keys!IndexesMatch(Keys!_add(s, word))
         /\ \A w \in Bytes32 :
              Keys!_contains(Keys!_add(s, word), w) <=> Keys!_contains(s, w) \/ w = word
<1>0. /\ Len(s._values) \in Nat
      /\ \A i \in 1..Len(s._values) : s._values[i] \in Bytes32
      /\ s._values \in Seq(Bytes32) /\ s._indexes \in [Bytes32 -> Nat]
  BY Places
<1>1. CASE Keys!_contains(s, word)
  BY <1>1 DEF Keys!_add
<1>2. CASE ~Keys!_contains(s, word)
  <2> DEFINE n == Len(s._values)
             v == Append(s._values, word)
             x == [s._indexes EXCEPT ![word] = n + 1]
             t == [_values |-> v, _indexes |-> x]
  <2>1. Keys!_add(s, word) = t
    BY <1>2 DEF Keys!_add
  <2>2. /\ v \in Seq(Bytes32)
        /\ v # << >>
        /\ Len(v) = n + 1
        /\ \A i \in 1..n : v[i] = s._values[i]
        /\ v[n + 1] = word
    BY <1>0, AppendProperties
  <2>3. x \in [Bytes32 -> Nat] /\ \A w \in Bytes32 : x[w] = IF w = word THEN n + 1 ELSE s._indexes[w]
    BY <1>0
  <2>4. t._values = v /\ t._indexes = x
    OBVIOUS
  <2>5. t \in Keys!Sets
    BY <2>2, <2>3 DEF Keys!Sets, Keys!Bytes32, Bytes32
  <2>6. s._indexes[word] = 0
    BY <1>2 DEF Keys!_contains
  <2> HIDE DEF v, x, t
  <2>7. ASSUME NEW i \in 1..Len(v) PROVE x[v[i]] = i
    <3>1. CASE i = n + 1
      BY <3>1, <2>2, <2>3
    <3>2. CASE i \in 1..n
      <4>1. v[i] = s._values[i] /\ v[i] \in Bytes32
        BY <1>0, <2>2, <3>2
      <4>2. s._indexes[v[i]] = i
        BY <3>2, <4>1 DEF Keys!IndexesMatch
      <4>3. v[i] # word /\ i # 0
        BY <2>6, <3>2, <4>2
      <4> QED BY <2>3, <4>1, <4>2, <4>3
    <3> QED BY <1>0, <2>2, <3>1, <3>2
  <2>8. ASSUME NEW w \in Bytes32, x[w] # 0 PROVE x[w] \in 1..Len(v) /\ v[x[w]] = w
    <3>1. CASE w = word
      <4>1. x[w] = n + 1
        BY <2>3, <3>1
      <4> QED BY <1>0, <2>2, <3>1, <4>1
    <3>2. CASE w # word
      <4>1. x[w] = s._indexes[w]
        BY <2>3, <3>2
      <4>2. x[w] \in 1..n /\ s._values[x[w]] = w
        BY <2>8, <4>1 DEF Keys!IndexesMatch, Keys!Bytes32, Bytes32
      <4> QED BY <1>0, <2>2, <4>2
    <3> QED BY <3>1, <3>2
  <2>9. Keys!IndexesMatch(t)
    BY <2>4, <2>7, <2>8 DEF Keys!IndexesMatch, Keys!Bytes32, Bytes32
  <2>10. \A w \in Bytes32 : Keys!_contains(t, w) <=> Keys!_contains(s, w) \/ w = word
    BY <1>0, <2>3, <2>4 DEF Keys!_contains
  <2> QED BY <2>1, <2>5, <2>9, <2>10
<1> QED BY <1>1, <1>2

(* Swap and pop. *)
LEMMA RemoveMatches ==
  ASSUME NEW s \in Keys!Sets, Keys!IndexesMatch(s), NEW word \in Bytes32
  PROVE  /\ Keys!_remove(s, word) \in Keys!Sets /\ Keys!IndexesMatch(Keys!_remove(s, word))
         /\ \A w \in Bytes32 :
              Keys!_contains(Keys!_remove(s, word), w) <=> Keys!_contains(s, w) /\ w # word
<1>0. /\ Len(s._values) \in Nat
      /\ \A i \in 1..Len(s._values) : s._values[i] \in Bytes32
      /\ s._values \in Seq(Bytes32) /\ s._indexes \in [Bytes32 -> Nat]
  BY Places
<1>1. CASE ~Keys!_contains(s, word)
  BY <1>1 DEF Keys!_remove
<1>2. CASE Keys!_contains(s, word)
  <2> DEFINE last     == Len(s._values)
             place    == s._indexes[word]
             lastWord == s._values[last]
             moved    == [s._values EXCEPT ![place] = lastWord]
             v        == SubSeq(moved, 1, last - 1)
             x        == [[s._indexes EXCEPT ![lastWord] = place] EXCEPT ![word] = 0]
             t        == [_values |-> v, _indexes |-> x]
  <2>1. Keys!_remove(s, word) = t
    BY <1>2 DEF Keys!_remove
  <2>2. place \in 1..last /\ s._values[place] = word
    BY <1>2 DEF Keys!_contains, Keys!IndexesMatch, Keys!Bytes32, Bytes32
  <2>3. lastWord \in Bytes32 /\ s._indexes[lastWord] = last /\ last \in 1..last
    BY <1>0, <2>2 DEF Keys!IndexesMatch
  <2>4. t._values = v /\ t._indexes = x
    OBVIOUS
  <2>5. x \in [Bytes32 -> Nat] /\ \A w \in Bytes32 :
          x[w] = IF w = word THEN 0 ELSE IF w = lastWord THEN place ELSE s._indexes[w]
    BY <1>0, <2>2, <2>3
  <2>6. t = [_values |-> v, _indexes |-> x]
    OBVIOUS
  <2> HIDE DEF x, t, v, lastWord
  <2>7. /\ moved \in Seq(Bytes32)
        /\ Len(moved) = last
        /\ \A j \in 1..last : moved[j] = IF j = place THEN lastWord ELSE s._values[j]
    BY <1>0, <2>2, <2>3, ExceptSeq
  <2>8. \A i \in 1..(last - 1) : moved[i] \in Bytes32
    BY <1>0, <2>2, <2>3, <2>7
  <2> HIDE DEF moved
  <2>9. /\ SubSeq(moved, 1, last - 1) \in Seq(Bytes32)
        /\ Len(SubSeq(moved, 1, last - 1)) = IF 1 <= last - 1 THEN last - 1 - 1 + 1 ELSE 0
        /\ \A i \in 1..(last - 1 - 1 + 1) : SubSeq(moved, 1, last - 1)[i] = moved[1 + i - 1]
    BY <1>0, <2>8, SubSeqProperties
  <2>10. /\ v \in Seq(Bytes32) /\ Len(v) = last - 1
         /\ \A i \in 1..(last - 1) : v[i] = IF i = place THEN lastWord ELSE s._values[i]
    BY <1>0, <2>2, <2>7, <2>9 DEF v
  <2>11. t \in Keys!Sets
    BY <2>5, <2>6, <2>10 DEF Keys!Sets, Keys!Bytes32, Bytes32
  <2>12. lastWord = word <=> place = last
    BY <2>2, <2>3 DEF lastWord
  <2>13. ASSUME NEW i \in 1..Len(v) PROVE x[v[i]] = i
    <3>1. i \in 1..last /\ i # last
      BY <1>0, <2>10
    <3>2. CASE i = place
      BY <2>3, <2>5, <2>10, <2>12, <3>1, <3>2
    <3>3. CASE i # place
      <4>1. v[i] = s._values[i] /\ v[i] \in Bytes32
        BY <1>0, <2>10, <3>1, <3>3
      <4>2. s._indexes[v[i]] = i
        BY <3>1, <4>1 DEF Keys!IndexesMatch
      <4> QED BY <2>3, <2>5, <3>1, <3>3, <4>1, <4>2
    <3> QED BY <3>2, <3>3
  <2>14. ASSUME NEW w \in Bytes32, x[w] # 0 PROVE x[w] \in 1..Len(v) /\ v[x[w]] = w
    <3>1. w # word
      BY <2>5, <2>14
    <3>2. CASE w = lastWord
      <4>1. x[w] = place
        BY <2>5, <3>1, <3>2
      <4>2. place \in 1..(last - 1)
        BY <1>0, <2>2, <2>12, <3>1, <3>2
      <4>3. v[place] = lastWord
        BY <2>10, <4>2
      <4> QED BY <1>0, <2>10, <3>2, <4>1, <4>2, <4>3
    <3>3. CASE w # lastWord
      <4>1. x[w] = s._indexes[w]
        BY <2>5, <3>1, <3>3
      <4>2. x[w] \in 1..last /\ s._values[x[w]] = w
        BY <2>14, <4>1 DEF Keys!IndexesMatch, Keys!Bytes32, Bytes32
      <4>3. x[w] # last /\ x[w] # place
        BY <2>2, <3>1, <3>3, <4>2 DEF lastWord
      <4>4. x[w] \in 1..(last - 1)
        BY <1>0, <4>2, <4>3
      <4>5. v[x[w]] = s._values[x[w]]
        BY <2>10, <4>3, <4>4
      <4> QED BY <1>0, <2>10, <4>2, <4>4, <4>5
    <3> QED BY <3>2, <3>3
  <2>15. Keys!IndexesMatch(t)
    BY <2>4, <2>13, <2>14 DEF Keys!IndexesMatch, Keys!Bytes32, Bytes32
  <2>16. \A w \in Bytes32 : Keys!_contains(t, w) <=> Keys!_contains(s, w) /\ w # word
    BY <1>0, <2>2, <2>3, <2>4, <2>5 DEF Keys!_contains
  <2> QED BY <2>1, <2>11, <2>15, <2>16
<1> QED BY <1>1, <1>2

-----------------------------------------------------------------------------
(* The map. *)

Good(m) ==
  /\ m = [_keys |-> m._keys, _values |-> m._values]
  /\ m._keys \in Keys!Sets /\ m._values \in [Bytes32 -> Bytes32]
  /\ Keys!IndexesMatch(m._keys)
  /\ \A w \in Bytes32 : containsWord(m, w) => w \in ValuesOf(keyType)
  /\ \A w \in Bytes32 : ~containsWord(m, w) => m._values[w] = 0
  /\ \A w \in Bytes32 : m._values[w] \in ValuesOf(valueType)

(* A value of the type converts to a word of its own and back. *)
LEMMA Converted ==
  ASSUME NEW t \in TypeNames, NEW value \in ValuesOf(t)
  PROVE  /\ value \in Bytes32 /\ 0 \in ValuesOf(t)
         /\ toBytes32(t, value) = value /\ fromBytes32(t, value) = value
<1>1. \A n \in 0..MaxAddress : n % (MaxAddress + 1) = n
  BY WidthAssumption
<1> QED BY <1>1, WidthAssumption DEF ValuesOf, Bytes32, toBytes32, fromBytes32, uint160

LEMMA KeysAreWords ==
  ASSUME NEW s, NEW w
  PROVE  /\ Keys!contains(s, w) <=> Keys!_contains(s, w)
         /\ Keys!add(s, w) = Keys!_add(s, w)
         /\ Keys!remove(s, w) = Keys!_remove(s, w)
BY DEF Keys!contains, Keys!add, Keys!remove, Keys!toBytes32

LEMMA EmptyIsGood == Good(EmptyMap) /\ \A w \in Bytes32 : ~containsWord(EmptyMap, w)
<1> DEFINE x == [w \in Bytes32 |-> 0]
<1>1. EmptyMap._keys = [_values |-> <<>>, _indexes |-> x] /\ EmptyMap._values = x
  BY DEF EmptyMap, Keys!EmptySet, Keys!Bytes32, Bytes32
<1>2. 0 \in Bytes32 /\ 0 \in ValuesOf(valueType)
  BY WidthAssumption DEF Bytes32, ValuesOf
<1>3. x \in [Bytes32 -> Bytes32] /\ x \in [Bytes32 -> Nat] /\ \A w \in Bytes32 : x[w] = 0
  BY <1>2
<1>4. <<>> \in Seq(Bytes32) /\ Len(<<>>) = 0
  BY EmptySeq
<1> HIDE DEF x
<1>5. EmptyMap._keys \in Keys!Sets
  BY <1>1, <1>3, <1>4 DEF Keys!Sets, Keys!Bytes32, Bytes32
<1>6. EmptyMap._keys._values = <<>> /\ EmptyMap._keys._indexes = x
  BY <1>1
<1>7. Keys!IndexesMatch(EmptyMap._keys)
  BY <1>3, <1>4, <1>6 DEF Keys!IndexesMatch, Keys!Bytes32, Bytes32
<1>8. \A w \in Bytes32 : ~containsWord(EmptyMap, w)
  BY <1>3, <1>6, KeysAreWords DEF containsWord, Keys!_contains
<1>9. Good(EmptyMap)
  <2>1. EmptyMap = [_keys |-> EmptyMap._keys, _values |-> EmptyMap._values]
    BY DEF EmptyMap
  <2> QED BY <1>1, <1>2, <1>3, <1>5, <1>7, <1>8, <2>1 DEF Good
<1> QED BY <1>8, <1>9

(* set adds the key, and gives it the value. *)
LEMMA SetWrites ==
  ASSUME NEW m, Good(m), NEW key \in ValuesOf(keyType), NEW value \in ValuesOf(valueType)
  PROVE  /\ Good(set(m, key, value))
         /\ \A w \in Bytes32 : containsWord(set(m, key, value), w) <=> containsWord(m, w) \/ w = key
         /\ \A w \in Bytes32 :
              set(m, key, value)._values[w] = IF w = key THEN value ELSE m._values[w]
<1>1. key \in Bytes32 /\ value \in Bytes32
      /\ toBytes32(keyType, key) = key /\ toBytes32(valueType, value) = value
  BY Converted, EntryAssumption
<1> DEFINE keys == Keys!_add(m._keys, key)
           vals == [m._values EXCEPT ![key] = value]
           n    == [_keys |-> keys, _values |-> vals]
<1>2. set(m, key, value) = n
  BY <1>1, KeysAreWords DEF set, setWord
<1>3. /\ keys \in Keys!Sets /\ Keys!IndexesMatch(keys)
      /\ \A w \in Bytes32 : Keys!_contains(keys, w) <=> Keys!_contains(m._keys, w) \/ w = key
  BY <1>1, AddMatches DEF Good
<1>4. /\ vals \in [Bytes32 -> Bytes32]
      /\ \A w \in Bytes32 : vals[w] = IF w = key THEN value ELSE m._values[w]
  BY <1>1 DEF Good
<1>5. n._keys = keys /\ n._values = vals /\ n = [_keys |-> keys, _values |-> vals]
  OBVIOUS
<1> HIDE DEF keys, vals, n
<1>6. \A w \in Bytes32 : containsWord(n, w) <=> containsWord(m, w) \/ w = key
  BY <1>3, <1>5, KeysAreWords DEF containsWord
<1>7. Good(n)
  BY <1>3, <1>4, <1>5, <1>6 DEF Good
<1> QED BY <1>2, <1>4, <1>5, <1>6, <1>7

(* remove takes the key away, and its value. *)
LEMMA RemoveWrites ==
  ASSUME NEW m, Good(m), NEW key \in ValuesOf(keyType)
  PROVE  /\ Good(remove(m, key))
         /\ \A w \in Bytes32 : containsWord(remove(m, key), w) <=> containsWord(m, w) /\ w # key
         /\ \A w \in Bytes32 : remove(m, key)._values[w] = IF w = key THEN 0 ELSE m._values[w]
<1>1. key \in Bytes32 /\ toBytes32(keyType, key) = key /\ 0 \in Bytes32
  BY Converted, EntryAssumption, WidthAssumption DEF Bytes32
<1>2. 0 \in ValuesOf(valueType)
  BY WidthAssumption DEF ValuesOf, Bytes32
<1> DEFINE keys == Keys!_remove(m._keys, key)
           vals == [m._values EXCEPT ![key] = 0]
           n    == [_keys |-> keys, _values |-> vals]
<1>3. remove(m, key) = n
  BY <1>1, KeysAreWords DEF remove, removeWord
<1>4. /\ keys \in Keys!Sets /\ Keys!IndexesMatch(keys)
      /\ \A w \in Bytes32 : Keys!_contains(keys, w) <=> Keys!_contains(m._keys, w) /\ w # key
  BY <1>1, RemoveMatches DEF Good
<1>5. /\ vals \in [Bytes32 -> Bytes32]
      /\ \A w \in Bytes32 : vals[w] = IF w = key THEN 0 ELSE m._values[w]
  BY <1>1 DEF Good
<1>6. n._keys = keys /\ n._values = vals /\ n = [_keys |-> keys, _values |-> vals]
  OBVIOUS
<1> HIDE DEF keys, vals, n
<1>7. \A w \in Bytes32 : containsWord(n, w) <=> containsWord(m, w) /\ w # key
  BY <1>4, <1>6, KeysAreWords DEF containsWord
<1>8. Good(n)
  BY <1>2, <1>4, <1>5, <1>6, <1>7 DEF Good
<1> QED BY <1>3, <1>5, <1>6, <1>7, <1>8

-----------------------------------------------------------------------------
(* Reading. *)

LEMMA KeyReads ==
  ASSUME NEW m, Good(m), NEW key \in ValuesOf(keyType)
  PROVE  /\ key \in Bytes32
         /\ contains(m, key) <=> containsWord(m, key)
         /\ get(m, key) = m._values[key]
         /\ tryGet(m, key) = <<contains(m, key), get(m, key)>>
         /\ contains(m, key) <=> CanGet(m, key)
         /\ CanGetOrFail(m, key) <=> CanGet(m, key)
<1>1. key \in Bytes32 /\ toBytes32(keyType, key) = key
  BY Converted, EntryAssumption
<1>2. m._values[key] \in ValuesOf(valueType)
  BY <1>1 DEF Good
<1>3. fromBytes32(valueType, m._values[key]) = m._values[key]
  BY <1>2, Converted, EntryAssumption
<1>4. contains(m, key) = containsWord(m, key)
  BY <1>1 DEF contains
<1>5. get(m, key) = m._values[key]
  BY <1>1, <1>3 DEF get, getWord
<1>6. m._values[key] # 0 => containsWord(m, key)
  BY <1>1 DEF Good
<1>7. tryGet(m, key) = <<contains(m, key), get(m, key)>>
  <2>1. CASE m._values[key] = 0
    <3>1. tryGetWord(m, key) = <<containsWord(m, key), 0>>
      BY <2>1 DEF tryGetWord
    <3>2. tryGet(m, key) = <<containsWord(m, key), fromBytes32(valueType, 0)>>
      BY <1>1, <3>1 DEF tryGet
    <3> QED BY <1>3, <1>4, <1>5, <2>1, <3>2
  <2>2. CASE m._values[key] # 0
    <3>1. tryGetWord(m, key) = <<TRUE, m._values[key]>>
      BY <2>2 DEF tryGetWord
    <3>2. tryGet(m, key) = <<TRUE, fromBytes32(valueType, m._values[key])>>
      BY <1>1, <3>1 DEF tryGet
    <3>3. contains(m, key) = TRUE
      BY <1>1, <1>6, <2>2
      DEF contains, containsWord, Keys!contains, Keys!_contains, Keys!toBytes32
    <3> QED BY <1>3, <1>5, <3>2, <3>3
  <2> QED BY <2>1, <2>2
<1>8. contains(m, key) <=> CanGet(m, key)
  BY <1>1, <1>4, <1>6 DEF CanGet, CanGetWord
<1>9. CanGetOrFail(m, key) <=> CanGet(m, key)
  BY DEF CanGet, CanGetWord, CanGetOrFail, CanGetWordOrFail
<1> QED BY <1>1, <1>4, <1>5, <1>7, <1>8, <1>9

(* Walking the places meets the keys, each at its own place. *)
LEMMA WalkReads ==
  ASSUME NEW m, Good(m)
  PROVE  /\ length(m) \in Nat
         /\ \A i \in 0..(length(m) - 1) :
              /\ at(m, i)[1] \in ValuesOf(keyType) /\ at(m, i)[1] \in Bytes32
              /\ containsWord(m, at(m, i)[1])
              /\ m._keys._indexes[at(m, i)[1]] = i + 1
              /\ at(m, i)[2] = m._values[at(m, i)[1]]
         /\ \A key \in ValuesOf(keyType) :
              containsWord(m, key) => \E i \in 0..(length(m) - 1) : at(m, i)[1] = key
<1>0. /\ Len(m._keys._values) \in Nat
      /\ \A i \in 1..Len(m._keys._values) : m._keys._values[i] \in Bytes32
      /\ m._keys._values \in Seq(Bytes32) /\ m._keys._indexes \in [Bytes32 -> Nat]
  BY Places DEF Good
<1>1. length(m) = Len(m._keys._values)
  BY DEF length, lengthWord, Keys!length, Keys!_length
<1>2. ASSUME NEW i \in 0..(length(m) - 1)
      PROVE  /\ at(m, i)[1] = m._keys._values[i + 1]
             /\ at(m, i)[1] \in ValuesOf(keyType) /\ at(m, i)[1] \in Bytes32
             /\ containsWord(m, at(m, i)[1])
             /\ m._keys._indexes[at(m, i)[1]] = i + 1
             /\ at(m, i)[2] = m._values[at(m, i)[1]]
  <2> DEFINE key == m._keys._values[i + 1]
  <2>1. i + 1 \in 1..Len(m._keys._values) /\ i + 1 # 0
    BY <1>0, <1>1
  <2>2. key \in Bytes32
    BY <1>0, <2>1
  <2>3. m._keys._indexes[key] = i + 1
    BY <2>1 DEF Good, Keys!IndexesMatch
  <2>4. atWord(m, i) = <<key, m._values[key]>>
    BY DEF atWord, Keys!at, Keys!_at, Keys!fromBytes32
  <2> HIDE DEF key
  <2>5. containsWord(m, key)
    BY <2>1, <2>3, KeysAreWords DEF containsWord, Keys!_contains
  <2>6. key \in ValuesOf(keyType) /\ m._values[key] \in ValuesOf(valueType)
    BY <2>2, <2>5 DEF Good
  <2>7. fromBytes32(keyType, key) = key /\ fromBytes32(valueType, m._values[key]) = m._values[key]
    BY <2>6, Converted, EntryAssumption
  <2>8. at(m, i) = <<key, m._values[key]>>
    BY <2>4, <2>7 DEF at
  <2>9. at(m, i)[1] = key /\ at(m, i)[2] = m._values[key]
    BY <2>8
  <2> QED BY <2>2, <2>3, <2>5, <2>6, <2>9 DEF key
<1>3. ASSUME NEW key \in ValuesOf(keyType), containsWord(m, key)
      PROVE  \E i \in 0..(length(m) - 1) : at(m, i)[1] = key
  <2>1. key \in Bytes32
    BY Converted, EntryAssumption
  <2>2. m._keys._indexes[key] # 0
    BY <1>3, KeysAreWords DEF containsWord, Keys!_contains
  <2>3. /\ m._keys._indexes[key] \in 1..Len(m._keys._values)
        /\ m._keys._values[m._keys._indexes[key]] = key
    BY <2>1, <2>2 DEF Good, Keys!IndexesMatch, Keys!Bytes32, Bytes32
  <2>4. PICK p \in 1..Len(m._keys._values) : m._keys._values[p] = key
    BY <2>3
  <2>5. p - 1 \in 0..(length(m) - 1) /\ (p - 1) + 1 = p
    BY <1>0, <1>1
  <2>6. at(m, p - 1)[1] = m._keys._values[(p - 1) + 1]
    BY <1>2, <2>5
  <2> QED BY <2>4, <2>5, <2>6
<1> QED BY <1>0, <1>1, <1>2, <1>3

-----------------------------------------------------------------------------
LEMMA MapGood == MapSpec => []Good(_map)
<1>1. MapInit => Good(_map)
  BY EmptyIsGood DEF MapInit
<1>2. Good(_map) /\ [MapNext]_mapVars => Good(_map)'
  <2> SUFFICES ASSUME Good(_map), [MapNext]_mapVars PROVE Good(_map')
    BY DEF Good, containsWord
  <2>1. CASE UNCHANGED mapVars
    BY <2>1 DEF mapVars
  <2>2. CASE \E key \in ValuesOf(keyType) : removeEntry(key)
    BY <2>2, RemoveWrites DEF removeEntry
  <2>3. CASE \E key \in ValuesOf(keyType), value \in ValuesOf(valueType) : setEntry(key, value)
    BY <2>3, SetWrites DEF setEntry
  <2> QED BY <2>1, <2>2, <2>3 DEF MapNext
<1> QED BY <1>1, <1>2, PTL DEF MapSpec

(* The map is made of words, no index is past the array, and an event says *)
(* yes or no.                                                              *)
THEOREM MapTypeCorrect == MapSpec => []MapTypeOK
<1> DEFINE Reported == emitted \in {<<>>, <<TRUE>>, <<FALSE>>}
<1>1. MapInit => Reported
  BY DEF MapInit
<1>2. Reported /\ [MapNext]_mapVars => Reported'
  <2> SUFFICES ASSUME Reported, [MapNext]_mapVars PROVE Reported'
    OBVIOUS
  <2>1. \A m, k : contains(m, k) \in BOOLEAN
    BY DEF contains, containsWord, Keys!contains, Keys!_contains
  <2> QED BY <2>1 DEF MapNext, removeEntry, setEntry, mapVars
<1>3. Good(_map) /\ Reported => MapTypeOK
  <2> SUFFICES ASSUME Good(_map), Reported PROVE MapTypeOK
    OBVIOUS
  <2>1. _map \in Maps
    BY DEF Good, Maps
  <2>2. ASSUME NEW w \in Bytes32
        PROVE  _map._keys._indexes[w] <= Len(_map._keys._values)
    <3>1. Len(_map._keys._values) \in Nat /\ _map._keys._indexes[w] \in Nat
      BY Places DEF Good
    <3>2. _map._keys._indexes[w] # 0 => _map._keys._indexes[w] \in 1..Len(_map._keys._values)
      BY DEF Good, Keys!IndexesMatch, Keys!Bytes32, Bytes32
    <3> QED BY <3>1, <3>2
  <2> QED BY <2>1, <2>2 DEF MapTypeOK
<1> QED BY <1>1, <1>2, <1>3, MapGood, PTL DEF MapSpec

(* The keys' array and their indexes match through every swap and pop, and *)
(* no value is left behind, whatever is set and removed in which order.    *)
THEOREM MapStaysConsistent == MapSpec => []MapConsistent
<1>1. Good(_map) => MapConsistent
  BY DEF Good, MapConsistent
<1> QED BY <1>1, MapGood, PTL

(* Walking, looking up and trying tell the same story about every key. *)
THEOREM ReadersAlwaysAgree == MapSpec => []ReadersAgree
<1>1. ASSUME Good(_map) PROVE ReadersAgree
  <2> DEFINE places == 0..(length(_map) - 1)
  <2>1. ASSUME NEW i \in places, NEW j \in places, at(_map, i)[1] = at(_map, j)[1] PROVE i = j
    BY <1>1, <2>1, WalkReads
  <2>2. ASSUME NEW key \in ValuesOf(keyType)
        PROVE  /\ contains(_map, key) <=> \E i \in places : at(_map, i)[1] = key
               /\ contains(_map, key) <=> CanGet(_map, key)
               /\ CanGetOrFail(_map, key) <=> CanGet(_map, key)
               /\ tryGet(_map, key) = <<contains(_map, key), get(_map, key)>>
    BY <1>1, KeyReads, WalkReads
  <2>3. ASSUME NEW i \in places PROVE at(_map, i)[2] = get(_map, at(_map, i)[1])
    BY <1>1, KeyReads, WalkReads
  <2> QED BY <2>1, <2>2, <2>3 DEF ReadersAgree
<1> QED BY <1>1, MapGood, PTL

-----------------------------------------------------------------------------
(* The refinement. *)

Known == {k \in ValuesOf(keyType) : contains(_map, k)}

LEMMA ListedAreKnown ==
  ASSUME NEW m, Good(m)
  PROVE  [key \in {at(m, i)[1] : i \in 0..(length(m) - 1)} |-> get(m, key)]
           = [key \in {k \in ValuesOf(keyType) : contains(m, k)} |-> m._values[key]]
<1> DEFINE listed == {at(m, i)[1] : i \in 0..(length(m) - 1)}
           known  == {k \in ValuesOf(keyType) : contains(m, k)}
<1>1. listed = known
  BY WalkReads, KeyReads
<1>2. \A k \in known : get(m, k) = m._values[k]
  BY KeyReads
<1> HIDE DEF listed, known
<1>3. [key \in listed |-> get(m, key)] = [key \in known |-> m._values[key]]
  BY <1>1, <1>2
<1> QED BY <1>3 DEF listed, known

LEMMA EntriesRead ==
  /\ Good(_map) => Entries = [key \in Known |-> _map._values[key]]
  /\ Good(_map') => Entries' = [key \in Known' |-> _map'._values[key]]
<1>1. Entries' = [key \in {at(_map', i)[1] : i \in 0..(length(_map') - 1)} |-> get(_map', key)]
  BY DEF Entries, at, atWord, length, lengthWord, get, getWord
<1>2. Known' = {k \in ValuesOf(keyType) : contains(_map', k)}
  BY DEF Known, contains, containsWord
<1> QED BY <1>1, <1>2, ListedAreKnown DEF Entries, Known

LEMMA SetIsPromised ==
  ASSUME Good(_map), NEW key \in ValuesOf(keyType), NEW value \in ValuesOf(valueType),
         setEntry(key, value)
  PROVE  Promised!set(key, value)
<1> DEFINE m == set(_map, key, value)
<1>0. _map' = m /\ emitted' = <<~contains(_map, key)>>
  BY DEF setEntry
<1>1. /\ Good(m)
      /\ \A w \in Bytes32 : containsWord(m, w) <=> containsWord(_map, w) \/ w = key
      /\ \A w \in Bytes32 : m._values[w] = IF w = key THEN value ELSE _map._values[w]
  BY SetWrites
<1> HIDE DEF m
<1>2. Good(_map')
  BY <1>0, <1>1
<1>3. /\ Entries = [k \in Known |-> _map._values[k]]
      /\ Entries' = [k \in Known' |-> m._values[k]]
  BY <1>0, <1>2, EntriesRead
<1>4. Known' = {k \in ValuesOf(keyType) : contains(m, k)}
  BY <1>0 DEF Known, contains, containsWord
<1>5. Known' = Known \cup {key}
  BY <1>1, <1>4, KeyReads DEF Known
<1>6. \A k \in Known' : m._values[k] = IF k = key THEN value ELSE Entries[k]
  BY <1>1, <1>3, <1>5, KeyReads DEF Known
<1>7. DOMAIN Entries = Known
  BY <1>3
<1>8. Entries' = [k \in DOMAIN Entries \cup {key} |-> IF k = key THEN value ELSE Entries[k]]
  BY <1>3, <1>5, <1>6, <1>7
<1>9. key \notin DOMAIN Entries <=> ~contains(_map, key)
  BY <1>7 DEF Known
<1>10. emitted' = <<key \notin DOMAIN Entries>>
  BY <1>0, <1>9
<1> QED BY <1>8, <1>10 DEF Promised!set

LEMMA RemoveIsPromised ==
  ASSUME Good(_map), NEW key \in ValuesOf(keyType), removeEntry(key)
  PROVE  Promised!remove(key)
<1> DEFINE m == remove(_map, key)
<1>0. _map' = m /\ emitted' = <<contains(_map, key)>>
  BY DEF removeEntry
<1>1. /\ Good(m)
      /\ \A w \in Bytes32 : containsWord(m, w) <=> containsWord(_map, w) /\ w # key
      /\ \A w \in Bytes32 : m._values[w] = IF w = key THEN 0 ELSE _map._values[w]
  BY RemoveWrites
<1> HIDE DEF m
<1>2. Good(_map')
  BY <1>0, <1>1
<1>3. /\ Entries = [k \in Known |-> _map._values[k]]
      /\ Entries' = [k \in Known' |-> m._values[k]]
  BY <1>0, <1>2, EntriesRead
<1>4. Known' = {k \in ValuesOf(keyType) : contains(m, k)}
  BY <1>0 DEF Known, contains, containsWord
<1>5. Known' = Known \ {key}
  BY <1>1, <1>4, KeyReads DEF Known
<1>6. \A k \in Known' : m._values[k] = Entries[k]
  BY <1>1, <1>3, <1>5, KeyReads DEF Known
<1>7. DOMAIN Entries = Known
  BY <1>3
<1>8. Entries' = [k \in DOMAIN Entries \ {key} |-> Entries[k]]
  BY <1>3, <1>5, <1>6, <1>7
<1>9. contains(_map, key) = (key \in DOMAIN Entries)
  BY <1>7 DEF Known, contains, containsWord, Keys!contains, Keys!_contains
<1>10. emitted' = <<key \in DOMAIN Entries>>
  BY <1>0, <1>9
<1> QED BY <1>8, <1>10 DEF Promised!remove

LEMMA MapInitPromised == MapInit => Promised!Init
<1> SUFFICES ASSUME MapInit PROVE Promised!Init
  OBVIOUS
<1>1. _map = EmptyMap /\ emitted = <<>>
  BY DEF MapInit
<1>2. Good(_map)
  BY <1>1, EmptyIsGood
<1>3. \A w \in Bytes32 : ~containsWord(EmptyMap, w)
  BY EmptyIsGood
<1>4. Known = {}
  BY <1>1, <1>2, <1>3, KeyReads DEF Known
<1>5. Entries = [k \in {} |-> _map._values[k]]
  BY <1>2, <1>4, EntriesRead
<1>6. Entries = <<>>
  BY <1>5
<1> QED BY <1>1, <1>6 DEF Promised!Init

(* To its callers the contract is a dictionary: each call does what the    *)
(* dictionary's call of that name does, and reports the same.              *)
THEOREM MapIsDictionary == MapSpec => IsDictionary
<1>1. Good(_map) /\ [MapNext]_mapVars =>
        [\A key \in ValuesOf(keyType) :
           /\ removeEntry(key) => Promised!remove(key)
           /\ \A value \in ValuesOf(valueType) :
                setEntry(key, value) => Promised!set(key, value)]_mapVars
  BY SetIsPromised, RemoveIsPromised
<1>2. Good(_map) /\ [MapNext]_mapVars => [Promised!Next]_<<Entries, emitted>>
  <2> SUFFICES ASSUME Good(_map), [MapNext]_mapVars
               PROVE  [Promised!Next]_<<Entries, emitted>>
    OBVIOUS
  <2>1. CASE UNCHANGED mapVars
    BY <2>1 DEF mapVars, Entries
  <2>2. CASE \E key \in ValuesOf(keyType) : removeEntry(key)
    BY <2>2, RemoveIsPromised DEF Promised!Next
  <2>3. CASE \E key \in ValuesOf(keyType), value \in ValuesOf(valueType) : setEntry(key, value)
    BY <2>3, SetIsPromised DEF Promised!Next
  <2> QED BY <2>1, <2>2, <2>3 DEF MapNext
<1> QED BY <1>1, <1>2, MapGood, MapInitPromised, PTL DEF MapSpec, IsDictionary, Promised!Spec

-----------------------------------------------------------------------------
(* The set contract, beside the map: its library is the one the map's keys *)
(* are kept in, with elements of a type of its own.                        *)

LEMMA SameLibrary ==
  /\ SetMock!Bytes32 = Bytes32 /\ SetMock!Sets = Keys!Sets
  /\ \A t : SetMock!ValuesOf(t) = ValuesOf(t)
  /\ \A t, v : /\ SetMock!toBytes32(t, v) = toBytes32(t, v)
               /\ SetMock!fromBytes32(t, v) = fromBytes32(t, v)
  /\ \A s, w : /\ SetMock!_add(s, w) = Keys!_add(s, w)
               /\ SetMock!_remove(s, w) = Keys!_remove(s, w)
               /\ SetMock!_contains(s, w) <=> Keys!_contains(s, w)
<1>1. SetMock!Bytes32 = Bytes32 /\ SetMock!Sets = Keys!Sets
  BY DEF SetMock!Bytes32, Bytes32, SetMock!Sets, Keys!Sets, Keys!Bytes32
<1>2. \A t : SetMock!ValuesOf(t) = ValuesOf(t)
  BY <1>1 DEF SetMock!ValuesOf, ValuesOf
<1>3. \A t, v : /\ SetMock!toBytes32(t, v) = toBytes32(t, v)
                /\ SetMock!fromBytes32(t, v) = fromBytes32(t, v)
  BY DEF SetMock!toBytes32, toBytes32, SetMock!fromBytes32, fromBytes32, SetMock!uint160, uint160
<1>4. \A s, w : /\ SetMock!_add(s, w) = Keys!_add(s, w)
                /\ SetMock!_remove(s, w) = Keys!_remove(s, w)
                /\ SetMock!_contains(s, w) <=> Keys!_contains(s, w)
  BY DEF SetMock!_add, Keys!_add, SetMock!_remove, Keys!_remove, SetMock!_contains, Keys!_contains
<1> QED BY <1>1, <1>2, <1>3, <1>4

GoodSet(s) ==
  /\ s \in Keys!Sets /\ Keys!IndexesMatch(s)
  /\ \A w \in Bytes32 : Keys!_contains(s, w) => w \in ValuesOf(type)

Elements(s) == {s._values[i] : i \in 1..Len(s._values)}

LEMMA EmptySetIsGood == GoodSet(SetMock!EmptySet) /\ Elements(SetMock!EmptySet) = {}
<1> DEFINE x == [w \in Bytes32 |-> 0]
           e == [_values |-> <<>>, _indexes |-> x]
<1>1. SetMock!EmptySet = e
  BY SameLibrary DEF SetMock!EmptySet
<1>2. x \in [Bytes32 -> Nat] /\ \A w \in Bytes32 : x[w] = 0
  OBVIOUS
<1>3. <<>> \in Seq(Bytes32) /\ Len(<<>>) = 0
  BY EmptySeq
<1> HIDE DEF x
<1>4. e \in Keys!Sets /\ e._values = <<>> /\ e._indexes = x
  BY <1>2, <1>3 DEF Keys!Sets, Keys!Bytes32, Bytes32
<1> HIDE DEF e
<1>5. Keys!IndexesMatch(e)
  BY <1>2, <1>3, <1>4 DEF Keys!IndexesMatch, Keys!Bytes32, Bytes32
<1>6. \A w \in Bytes32 : ~Keys!_contains(e, w)
  BY <1>2, <1>4 DEF Keys!_contains
<1>7. Elements(e) = {}
  BY <1>3, <1>4 DEF Elements
<1> QED BY <1>1, <1>4, <1>5, <1>6, <1>7 DEF GoodSet

(* The array lists the values the indexes say are there. *)
LEMMA ElementsAreContained ==
  ASSUME NEW s, GoodSet(s)
  PROVE  Elements(s) = {v \in ValuesOf(type) : Keys!_contains(s, v)}
<1>1. /\ Len(s._values) \in Nat
      /\ \A i \in 1..Len(s._values) : s._values[i] \in Bytes32
  BY Places DEF GoodSet
<1>2. ASSUME NEW i \in 1..Len(s._values)
      PROVE  s._values[i] \in ValuesOf(type) /\ Keys!_contains(s, s._values[i])
  <2>1. s._indexes[s._values[i]] = i /\ i # 0
    BY <1>1 DEF GoodSet, Keys!IndexesMatch
  <2>2. Keys!_contains(s, s._values[i])
    BY <2>1 DEF Keys!_contains
  <2> QED BY <1>1, <2>2 DEF GoodSet
<1>3. ASSUME NEW v \in ValuesOf(type), Keys!_contains(s, v)
      PROVE  \E i \in 1..Len(s._values) : s._values[i] = v
  <2>1. v \in Bytes32
    BY Converted, ElementAssumption
  <2> QED BY <1>3, <2>1 DEF GoodSet, Keys!IndexesMatch, Keys!_contains, Keys!Bytes32, Bytes32
<1> QED BY <1>2, <1>3 DEF Elements

LEMMA SetAddWrites ==
  ASSUME NEW s, GoodSet(s), NEW value \in ValuesOf(type)
  PROVE  /\ GoodSet(SetMock!add(s, value))
         /\ Elements(SetMock!add(s, value)) = Elements(s) \cup {value}
         /\ SetMock!Adds(s, value) <=> value \notin Elements(s)
<1>1. value \in Bytes32 /\ toBytes32(type, value) = value
  BY Converted, ElementAssumption
<1>2. SetMock!add(s, value) = Keys!_add(s, value) /\ (SetMock!Adds(s, value) <=> ~Keys!_contains(s, value))
  BY <1>1, SameLibrary DEF SetMock!add, SetMock!Adds
<1> DEFINE t == Keys!_add(s, value)
<1>3. /\ t \in Keys!Sets /\ Keys!IndexesMatch(t)
      /\ \A w \in Bytes32 : Keys!_contains(t, w) <=> Keys!_contains(s, w) \/ w = value
  BY <1>1, AddMatches DEF GoodSet
<1> HIDE DEF t
<1>4. GoodSet(t)
  BY <1>3 DEF GoodSet
<1>5. \A v \in ValuesOf(type) : v \in Bytes32
  BY Converted, ElementAssumption
<1>6. Elements(t) = Elements(s) \cup {value}
  BY <1>3, <1>4, <1>5, ElementsAreContained
<1>7. value \notin Elements(s) <=> ~Keys!_contains(s, value)
  BY ElementsAreContained
<1> QED BY <1>2, <1>4, <1>6, <1>7 DEF t

LEMMA SetRemoveWrites ==
  ASSUME NEW s, GoodSet(s), NEW value \in ValuesOf(type)
  PROVE  /\ GoodSet(SetMock!remove(s, value))
         /\ Elements(SetMock!remove(s, value)) = Elements(s) \ {value}
         /\ SetMock!Removes(s, value) <=> value \in Elements(s)
<1>1. value \in Bytes32 /\ toBytes32(type, value) = value
  BY Converted, ElementAssumption
<1>2. /\ SetMock!remove(s, value) = Keys!_remove(s, value)
      /\ SetMock!Removes(s, value) <=> Keys!_contains(s, value)
  BY <1>1, SameLibrary DEF SetMock!remove, SetMock!Removes
<1> DEFINE t == Keys!_remove(s, value)
<1>3. /\ t \in Keys!Sets /\ Keys!IndexesMatch(t)
      /\ \A w \in Bytes32 : Keys!_contains(t, w) <=> Keys!_contains(s, w) /\ w # value
  BY <1>1, RemoveMatches DEF GoodSet
<1> HIDE DEF t
<1>4. GoodSet(t)
  BY <1>3 DEF GoodSet
<1>5. \A v \in ValuesOf(type) : v \in Bytes32
  BY Converted, ElementAssumption
<1>6. Elements(t) = Elements(s) \ {value}
  BY <1>3, <1>4, <1>5, ElementsAreContained
<1>7. value \in Elements(s) <=> Keys!_contains(s, value)
  BY ElementsAreContained
<1> QED BY <1>2, <1>4, <1>6, <1>7 DEF t

LEMMA SetGood ==
  /\ Init => GoodSet(_set)
  /\ GoodSet(_set) /\ [Next]_<<_map, emitted, _set, setEmitted>> => GoodSet(_set)'
<1>1. Init => GoodSet(_set)
  BY EmptySetIsGood DEF Init, SetMock!SetInit
<1>2. GoodSet(_set) /\ [Next]_<<_map, emitted, _set, setEmitted>> => GoodSet(_set)'
  <2> SUFFICES ASSUME GoodSet(_set), [Next]_<<_map, emitted, _set, setEmitted>>
               PROVE  GoodSet(_set')
    BY DEF GoodSet
  <2>1. CASE _set' = _set
    BY <2>1
  <2>2. CASE SetMock!SetNext
    <3>1. PICK value \in ValuesOf(type) : SetMock!addElement(value) \/ SetMock!removeElement(value)
      BY <2>2, SameLibrary DEF SetMock!SetNext
    <3> QED BY <3>1, SetAddWrites, SetRemoveWrites DEF SetMock!addElement, SetMock!removeElement
  <2> QED BY <2>1, <2>2 DEF Next
<1> QED BY <1>1, <1>2

(* `values`, `at` and `contains` agree on what is in the set. *)
THEOREM ListingsAlwaysAgree == Spec => []ListingsAgree
<1>1. ASSUME GoodSet(_set) PROVE ListingsAgree
  <2> DEFINE listed == _set._values
  <2>1. Len(listed) \in Nat
    BY <1>1, Places DEF GoodSet
  <2>2. SetMock!values(_set) = listed /\ SetMock!length(_set) = Len(listed)
    BY DEF SetMock!values, SetMock!_values, SetMock!length, SetMock!_length
  <2>3. ASSUME NEW i \in 0..(Len(listed) - 1) PROVE SetMock!at(_set, i) = listed[i + 1]
    <3>1. i + 1 \in 1..Len(listed)
      BY <2>1
    <3>2. listed[i + 1] \in ValuesOf(type)
      BY <1>1, <3>1, ElementsAreContained DEF Elements
    <3>3. fromBytes32(type, listed[i + 1]) = listed[i + 1]
      BY <3>2, Converted, ElementAssumption
    <3> QED BY <3>3, SameLibrary DEF SetMock!at, SetMock!_at
  <2>4. ASSUME NEW v \in ValuesOf(type)
        PROVE  SetMock!contains(_set, v) <=> \E i \in 1..Len(listed) : listed[i] = v
    <3>1. toBytes32(type, v) = v
      BY Converted, ElementAssumption
    <3>2. SetMock!contains(_set, v) <=> Keys!_contains(_set, v)
      BY <3>1, SameLibrary DEF SetMock!contains
    <3> QED BY <1>1, <3>2, ElementsAreContained DEF Elements
  <2> HIDE DEF listed
  <2> QED BY <2>2, <2>3, <2>4, SameLibrary DEF ListingsAgree, SetMock!ListingsAgree
<1> QED BY <1>1, SetGood, PTL DEF Spec

LEMMA AddIsPromised ==
  ASSUME GoodSet(_set), NEW value \in ValuesOf(type), SetMock!addElement(value)
  PROVE  SetMock!Promised!add(value)
<1>1. /\ _set' = SetMock!add(_set, value)
      /\ setEmitted' = <<SetMock!Adds(_set, value)>>
  BY DEF SetMock!addElement
<1>2. Elements(_set') = Elements(_set) \cup {value}
  BY <1>1, SetAddWrites
<1>3. SetMock!Adds(_set, value) = (value \notin Elements(_set))
  <2>1. SetMock!Adds(_set, value) \in BOOLEAN
    BY DEF SetMock!Adds, SetMock!_contains
  <2> QED BY <2>1, SetAddWrites
<1> QED BY <1>1, <1>2, <1>3 DEF SetMock!Promised!add, SetMock!values, SetMock!_values, Elements

LEMMA RemovalIsPromised ==
  ASSUME GoodSet(_set), NEW value \in ValuesOf(type), SetMock!removeElement(value)
  PROVE  SetMock!Promised!remove(value)
<1>1. /\ _set' = SetMock!remove(_set, value)
      /\ setEmitted' = <<SetMock!Removes(_set, value)>>
  BY DEF SetMock!removeElement
<1>2. Elements(_set') = Elements(_set) \ {value}
  BY <1>1, SetRemoveWrites
<1>3. SetMock!Removes(_set, value) = (value \in Elements(_set))
  <2>1. SetMock!Removes(_set, value) \in BOOLEAN
    BY DEF SetMock!Removes, SetMock!_contains
  <2> QED BY <2>1, SetRemoveWrites
<1> QED BY <1>1, <1>2, <1>3 DEF SetMock!Promised!remove, SetMock!values, SetMock!_values, Elements

LEMMA SetInitPromised == Init => SetMock!Promised!Init
<1>1. ASSUME Init PROVE SetMock!Promised!Init
  <2>1. _set = SetMock!EmptySet /\ setEmitted = <<>>
    BY <1>1 DEF Init, SetMock!SetInit
  <2>2. Elements(_set) = {}
    BY <2>1, EmptySetIsGood
  <2> QED BY <2>1, <2>2 DEF SetMock!Promised!Init, SetMock!values, SetMock!_values, Elements
<1> QED BY <1>1

(* To its callers the set contract is a set: each call does what the       *)
(* collection's call of that name does, and reports the same.              *)
THEOREM SetIsCollection == Spec => IsCollection
<1>1. GoodSet(_set) /\ [Next]_<<_map, emitted, _set, setEmitted>> =>
        [\A value \in SetMock!ValuesOf(type) :
           /\ SetMock!addElement(value) => SetMock!Promised!add(value)
           /\ SetMock!removeElement(value) => SetMock!Promised!remove(value)]_(SetMock!setVars)
  BY AddIsPromised, RemovalIsPromised, SameLibrary
<1>2. GoodSet(_set) /\ [Next]_<<_map, emitted, _set, setEmitted>> =>
        [SetMock!Promised!Next]_<<{SetMock!values(_set)[i] : i \in 1..Len(SetMock!values(_set))},
                                  setEmitted>>
  <2> SUFFICES ASSUME GoodSet(_set), [Next]_<<_map, emitted, _set, setEmitted>>,
                      ~ UNCHANGED <<_set, setEmitted>>
               PROVE  SetMock!Promised!Next
    BY DEF SetMock!values, SetMock!_values
  <2>1. SetMock!SetNext
    BY DEF Next
  <2>2. PICK value \in ValuesOf(type) : SetMock!addElement(value) \/ SetMock!removeElement(value)
    BY <2>1, SameLibrary DEF SetMock!SetNext
  <2>3. SetMock!Promised!add(value) \/ SetMock!Promised!remove(value)
    BY <2>2, AddIsPromised, RemovalIsPromised
  <2> QED BY <2>3, SameLibrary DEF SetMock!Promised!Next
<1> QED
  BY <1>1, <1>2, SetGood, SetInitPromised, PTL
  DEF Spec, IsCollection, SetMock!IsCollection, SetMock!Promised!Spec
=============================================================================
