--------------------------- MODULE LmdbStoreProofs ---------------------------
(***************************************************************************)
(* Proofs about LmdbStore: what a log reads back as, what outlives a       *)
(* crash, and that the store on LMDB keeps the promise of the trait.       *)
(*                                                                         *)
(* Until a crash tears a transaction, every version that a crash may fall  *)
(* back to holds whole logs: of each identifier the events 0, 1, 2, ... up *)
(* to some number, each with its body and its first-seen entry.  A         *)
(* transaction takes one such version to another because a client stores   *)
(* only the event after the last one it reads back, and it reads back all  *)
(* and only the places of the identifier because no identifier holds the   *)
(* separator.                                                              *)
(***************************************************************************)
EXTENDS LmdbStore, FiniteSetTheorems, SequenceTheorems, WellFoundedInduction, TLAPS

----------------------------------------------------------------------------
(* Keys.                                                                   *)

Symbol == Char \cup {Sep} \cup SeqNo

\* A set of natural numbers that is not empty has a least element.
LEMMA LeastNumber ==
  ASSUME NEW S \in SUBSET Nat, S # {}
  PROVE  \E least \in S : \A n \in S : least <= n
<1>1. PICK least \in S : \A n \in S : <<n, least>> \notin OpToRel(<, Nat)
  BY WFMin, NatLessThanWellFounded, Zenon
<1>2. \A n \in S : ~(n < least)
  BY <1>1 DEF OpToRel
<1> QED
  BY <1>2

\* keys.rs, sn_key: the identifier, the separator, the number.
LEMMA SnKeyParts ==
  ASSUME NEW p \in Prefix, NEW s \in SeqNo
  PROVE  /\ p \in Seq(Char) /\ Len(p) \in Nat
         /\ SnKey(p, s) \in Seq(Symbol)
         /\ Len(SnKey(p, s)) = Len(p) + 2
         /\ \A i \in 1..Len(p) : SnKey(p, s)[i] = p[i] /\ p[i] \in Char
         /\ SnKey(p, s)[Len(p) + 1] = Sep
         /\ SnKey(p, s)[Len(p) + 2] = s
<1>1. p \in Seq(Char) /\ Len(p) \in Nat
  BY PrefixAssumption, LenProperties
<1>2. p \in Seq(Symbol)
  BY <1>1, SeqMonotonic DEF Symbol
<1>3. <<Sep, s>> \in Seq(Symbol) /\ Len(<<Sep, s>>) = 2
  BY DEF Symbol
<1>4. /\ SnKey(p, s) \in Seq(Symbol)
      /\ Len(SnKey(p, s)) = Len(p) + 2
      /\ \A i \in 1..(Len(p) + 2) :
           SnKey(p, s)[i] = IF i <= Len(p) THEN p[i] ELSE <<Sep, s>>[i - Len(p)]
  BY <1>2, <1>3, ConcatProperties DEF SnKey
<1>5. \A i \in 1..Len(p) : p[i] \in Char
  BY <1>1, ElementOfSeq
<1> QED
  BY <1>1, <1>4, <1>5

\* The separator occurs in a key once, before the number.
LEMMA SeparatorAt ==
  ASSUME NEW p \in Prefix, NEW s \in SeqNo, NEW i \in 1..(Len(p) + 2)
  PROVE  SnKey(p, s)[i] = Sep <=> i = Len(p) + 1
<1>1. CASE i \in 1..Len(p)
  BY <1>1, SnKeyParts, CharAssumption
<1>2. CASE i = Len(p) + 2
  BY <1>2, SnKeyParts, CharAssumption
<1> QED
  BY <1>1, <1>2, SnKeyParts

\* keys.rs, split_sn: the number is read back as it was written.
LEMMA SplitSnOfKey ==
  ASSUME NEW p \in Prefix, NEW s \in SeqNo
  PROVE  SplitSn(SnKey(p, s)) = s
<1> DEFINE key == SnKey(p, s)
           IsAt(n) == key[n] = Sep /\ \A m \in 1..(n - 1) : key[m] # Sep
<1>1. DOMAIN key = 1..(Len(p) + 2) /\ Len(p) \in Nat
  BY SnKeyParts, LenProperties
<1>2. \A n \in DOMAIN key : IsAt(n) <=> n = Len(p) + 1
  BY <1>1, SeparatorAt
<1>3. Len(p) + 1 \in DOMAIN key
  BY <1>1
<1>4. (CHOOSE n \in DOMAIN key : IsAt(n)) = Len(p) + 1
  BY <1>2, <1>3, Zenon
<1>5. SplitSn(key) = key[(CHOOSE n \in DOMAIN key : IsAt(n)) + 1]
  BY Zenon DEF SplitSn
<1>6. key[(Len(p) + 1) + 1] = s
  BY <1>1, SnKeyParts
<1> QED
  BY <1>4, <1>5, <1>6, Zenon

\* Two places of logs have two keys.
LEMMA SnKeyInjective ==
  ASSUME NEW p \in Prefix, NEW s \in SeqNo, NEW q \in Prefix, NEW t \in SeqNo,
         SnKey(p, s) = SnKey(q, t)
  PROVE  p = q /\ s = t
<1>1. s = t
  BY SplitSnOfKey
<1>2. Len(p) = Len(q)
  BY SnKeyParts
<1>3. \A i \in 1..Len(p) : p[i] = q[i]
  BY <1>2, SnKeyParts
<1>4. p = q
  BY <1>2, <1>3, SnKeyParts, SeqEqual
<1> QED
  BY <1>1, <1>4

\* lmdb.rs, get_kel: a key starts with "{prefix}." only if it is of that
\* identifier, also where one identifier is the beginning of another.
LEMMA KeyOfPrefix ==
  ASSUME NEW p \in Prefix, NEW q \in Prefix, NEW s \in SeqNo
  PROVE  IsPrefix(p \o <<Sep>>, SnKey(q, s)) <=> p = q
<1> DEFINE start == p \o <<Sep>>
           key   == SnKey(q, s)
<1>1. /\ p \in Seq(Symbol) /\ Len(p) \in Nat
      /\ key \in Seq(Symbol) /\ Len(key) = Len(q) + 2 /\ Len(q) \in Nat
  BY SnKeyParts, SeqMonotonic DEF Symbol
<1>2. /\ start \in Seq(Symbol)
      /\ Len(start) = Len(p) + 1
      /\ \A i \in 1..Len(p) : start[i] = p[i]
      /\ start[Len(p) + 1] = Sep
  <2>1. <<Sep>> \in Seq(Symbol) /\ Len(<<Sep>>) = 1 /\ <<Sep>>[1] = Sep
    BY DEF Symbol
  <2>2. /\ start \in Seq(Symbol)
        /\ Len(start) = Len(p) + 1
        /\ \A i \in 1..(Len(p) + 1) :
             start[i] = IF i <= Len(p) THEN p[i] ELSE <<Sep>>[i - Len(p)]
    BY <1>1, <2>1, ConcatProperties
  <2> QED
    BY <1>1, <2>1, <2>2
<1>3. ASSUME Len(start) <= Len(key)
      PROVE  /\ SubSeq(start, 1, Len(start)) = start
             /\ SubSeq(key, 1, Len(start)) \in Seq(Symbol)
             /\ Len(SubSeq(key, 1, Len(start))) = Len(start)
             /\ \A i \in 1..Len(start) : SubSeq(key, 1, Len(start))[i] = key[i]
  <2>1. \A i \in 1..Len(start) : key[i] \in Symbol
    BY <1>1, <1>2, <1>3, ElementOfSeq
  <2>2. SubSeq(start, 1, Len(start)) = start
    BY <1>2, SubSeqFull
  <2>3. /\ SubSeq(key, 1, Len(start)) \in Seq(Symbol)
        /\ Len(SubSeq(key, 1, Len(start))) = Len(start)
        /\ \A i \in 1..Len(start) : SubSeq(key, 1, Len(start))[i] = key[i]
    BY <1>1, <1>2, <2>1, SubSeqProperties
  <2> QED
    BY <2>2, <2>3
<1>4. ASSUME IsPrefix(start, key)
      PROVE  p = q
  <2>1. Len(start) <= Len(key) /\ start = SubSeq(key, 1, Len(start))
    BY <1>3, <1>4 DEF IsPrefix
  <2>2. \A i \in 1..Len(start) : start[i] = key[i]
    BY <1>3, <2>1
  <2>3. key[Len(p) + 1] = Sep
    BY <1>1, <1>2, <2>2
  <2>4. Len(p) = Len(q)
    BY <1>1, <1>2, <2>1, <2>3, SeparatorAt
  <2>5. \A i \in 1..Len(p) : p[i] = q[i]
    <3> TAKE i \in 1..Len(p)
    <3>1. start[i] = key[i] /\ start[i] = p[i]
      BY <1>1, <1>2, <2>2
    <3>2. key[i] = q[i]
      BY <2>4, SnKeyParts
    <3> QED
      BY <3>1, <3>2
  <2> QED
    BY <2>4, <2>5, SnKeyParts, SeqEqual
<1>5. ASSUME p = q
      PROVE  IsPrefix(start, key)
  <2>1. Len(start) <= Len(key)
    BY <1>1, <1>2, <1>5
  <2>2. \A i \in 1..Len(start) : key[i] = start[i]
    BY <1>1, <1>2, <1>5, SnKeyParts
  <2>3. SubSeq(key, 1, Len(start)) = start
    BY <1>2, <1>3, <2>1, <2>2, SeqEqual
  <2> QED
    BY <1>3, <2>1, <2>3 DEF IsPrefix
<1> QED
  BY <1>4, <1>5

\* The scan finds the places of the identifier that hold an event.
LEMMA EntriesFound ==
  ASSUME NEW contents, NEW p \in Prefix
  PROVE  /\ KelEntries(contents, p) \subseteq {SnKey(p, s) : s \in SeqNo}
         /\ \A s \in SeqNo : SnKey(p, s) \in KelEntries(contents, p)
                                <=> contents[<<"kels", SnKey(p, s)>>] # Absent
<1>0. KelEntries(contents, p) =
        {key \in Places : IsPrefix(p \o <<Sep>>, key) /\ contents[<<"kels", key>>] # Absent}
  BY DEF KelEntries, KeysFrom
<1>1. ASSUME NEW key \in KelEntries(contents, p)
      PROVE  key \in {SnKey(p, s) : s \in SeqNo}
  <2>1. PICK q \in Prefix, s \in SeqNo : key = SnKey(q, s)
    BY <1>0 DEF Places
  <2>2. p = q
    BY <1>0, <2>1, KeyOfPrefix
  <2> QED
    BY <2>1, <2>2
<1>2. \A s \in SeqNo : SnKey(p, s) \in Places /\ IsPrefix(p \o <<Sep>>, SnKey(p, s))
  BY KeyOfPrefix DEF Places
<1> QED
  BY <1>0, <1>1, <1>2

\* Any set of numbers can be counted in order.
LEMMA NumbersInOrder ==
  ASSUME NEW N \in SUBSET SeqNo
  PROVE  /\ IsFiniteSet(N)
         /\ \E f \in [1..Cardinality(N) -> N] :
              \A m, n \in 1..Cardinality(N) : m < n => f[m] < f[n]
<1> DEFINE Counted(M, f) == /\ f \in [1..Cardinality(M) -> M]
                            /\ \A m, n \in 1..Cardinality(M) : m < n => f[m] < f[n]
           Bad == {k \in Nat : \E M \in SUBSET SeqNo : Cardinality(M) = k /\ ~\E f : Counted(M, f)}
<1>1. \A M \in SUBSET SeqNo : IsFiniteSet(M) /\ Cardinality(M) \in Nat
  <2>1. IsFiniteSet(SeqNo)
    BY BoundAssumption, FS_Interval DEF SeqNo
  <2> QED
    BY <2>1, FS_Subset, FS_CardinalityType
<1>2. SUFFICES ASSUME Bad # {} PROVE FALSE
  BY <1>1
<1>3. PICK k \in Bad : \A j \in Bad : k <= j
  BY <1>2, LeastNumber
<1>4. PICK M \in SUBSET SeqNo : Cardinality(M) = k /\ ~\E f : Counted(M, f)
  BY <1>3
<1>5. M # {}
  <2>1. ASSUME M = {} PROVE FALSE
    <3>1. Cardinality(M) = 0
      BY <2>1, FS_EmptySet
    <3>2. Counted(M, [n \in 1..0 |-> 0])
      BY <3>1
    <3> QED
      BY <1>4, <3>2
  <2> QED
    BY <2>1
<1>6. PICK greatest \in M : \A n \in M : n <= greatest
  <2> DEFINE Distance == {MaxSn - n : n \in M}
  <2>1. Distance \in SUBSET Nat /\ Distance # {}
    <3>1. \A n \in M : MaxSn - n \in Nat
      BY BoundAssumption DEF SeqNo
    <3> QED
      BY <1>5, <3>1
  <2>2. PICK least \in Distance : \A d \in Distance : least <= d
    BY <2>1, LeastNumber
  <2>3. PICK n \in M : least = MaxSn - n
    BY <2>2
  <2>4. \A m \in M : MaxSn - n <= MaxSn - m
    BY <2>2, <2>3
  <2> QED
    BY <2>4, BoundAssumption DEF SeqNo
<1>7. Cardinality(M \ {greatest}) = k - 1 /\ k - 1 \in Nat /\ k \in Nat
  BY <1>1, <1>4, <1>5, <1>6, FS_RemoveElement, FS_EmptySet
<1>8. PICK f : Counted(M \ {greatest}, f)
  <2>1. k - 1 \notin Bad
    BY <1>3, <1>7
  <2> HIDE DEF Counted
  <2> QED
    BY <1>7, <2>1
<1> DEFINE g == [n \in 1..k |-> IF n = k THEN greatest ELSE f[n]]
<1>9. /\ f \in [1..(k - 1) -> M \ {greatest}]
      /\ \A m, n \in 1..(k - 1) : m < n => f[m] < f[n]
  BY <1>7, <1>8
<1>10. g \in [1..k -> M]
  BY <1>6, <1>7, <1>9
<1>11. ASSUME NEW m \in 1..k, NEW n \in 1..k, m < n PROVE g[m] < g[n]
  <2>1. m \in 1..(k - 1) /\ g[m] = f[m] /\ f[m] \in M /\ f[m] # greatest
    BY <1>7, <1>9, <1>11
  <2>2. CASE n = k
    <3>1. g[n] = greatest /\ f[m] <= greatest
      BY <1>6, <2>1, <2>2
    <3>2. greatest \in Nat /\ f[m] \in Nat
      <4>1. M \subseteq Nat
        BY BoundAssumption DEF SeqNo
      <4> HIDE DEF g
      <4> QED
        BY <1>6, <2>1, <4>1
    <3> QED
      BY <2>1, <3>1, <3>2
  <2>3. CASE n # k
    <3>1. n \in 1..(k - 1) /\ g[n] = f[n]
      BY <1>7, <2>3
    <3> QED
      BY <1>9, <1>11, <2>1, <3>1
  <2> QED
    BY <2>2, <2>3
<1>12. Counted(M, g)
  BY <1>4, <1>10, <1>11
<1> QED
  BY <1>4, <1>12

\* What the scan finds is put in order, whatever the places are.
LEMMA EntriesInOrder ==
  ASSUME NEW contents, NEW p \in Prefix
  PROVE  LET keys == KelEntries(contents, p)
         IN  Cardinality(keys) \in Nat /\ InOrder(keys) \in [1..Cardinality(keys) -> keys]
<1> DEFINE keys == KelEntries(contents, p)
           N == {s \in SeqNo : SnKey(p, s) \in keys}
           inverse == [s \in N |-> SnKey(p, s)]
           IsOrder(order) == \A m, n \in 1..Cardinality(keys) :
                               m < n => SplitSn(order[m]) < SplitSn(order[n])
<1>1. IsFiniteSet(N) /\ N \in SUBSET SeqNo
  BY NumbersInOrder
<1>2. \A s \in N : SplitSn(SnKey(p, s)) = s
  BY SplitSnOfKey
<1>3. inverse \in Bijection(N, keys)
  <2>1. inverse \in [N -> keys]
    OBVIOUS
  <2>2. \A s, t \in N : inverse[s] = inverse[t] => s = t
    BY <1>2
  <2>3. \A key \in keys : \E s \in N : inverse[s] = key
    BY EntriesFound
  <2> QED
    BY <2>1, <2>2, <2>3 DEF Bijection, Injection, Surjection, IsInjective
<1>4. Cardinality(keys) = Cardinality(N) /\ Cardinality(keys) \in Nat
  BY <1>1, <1>3, FS_Bijection, FS_CardinalityType DEF ExistsBijection
<1>5. PICK f \in [1..Cardinality(keys) -> N] :
        \A m, n \in 1..Cardinality(keys) : m < n => f[m] < f[n]
  BY <1>1, <1>4, NumbersInOrder
<1> DEFINE order == [n \in 1..Cardinality(keys) |-> SnKey(p, f[n])]
<1>6. order \in [1..Cardinality(keys) -> keys] /\ IsOrder(order)
  <2>1. \A n \in 1..Cardinality(keys) : order[n] \in keys /\ SplitSn(order[n]) = f[n]
    BY <1>2, <1>5
  <2>2. order \in [1..Cardinality(keys) -> keys]
    BY <2>1
  <2> HIDE DEF order, keys
  <2> QED
    BY <1>5, <2>1, <2>2
<1> HIDE DEF keys, order, IsOrder
<1>7. (CHOOSE o \in [1..Cardinality(keys) -> keys] : IsOrder(o)) \in [1..Cardinality(keys) -> keys]
  BY <1>6, Zenon
<1> QED
  BY <1>4, <1>7 DEF InOrder, keys, IsOrder

\* latest_sn names a place that holds an event, also in a log with a gap.
LEMMA LatestSnIsHeld ==
  ASSUME NEW contents, NEW p \in Prefix, LatestSn(contents, p) # Absent
  PROVE  /\ LatestSn(contents, p) \in SeqNo
         /\ contents[<<"kels", SnKey(p, LatestSn(contents, p))>>] # Absent
<1> DEFINE keys == KelEntries(contents, p)
           order == InOrder(keys)
           kel == GetKel(contents, p)
           size == Cardinality(keys)
<1>1. size \in Nat /\ order \in [1..size -> keys]
  BY EntriesInOrder
<1>2. kel = [n \in 1..size |-> <<SplitSn(order[n]), contents[<<"kels", order[n]>>]>>]
  BY <1>1 DEF GetKel
<1> HIDE DEF keys, size, order
<1> DEFINE Entry == {<<SplitSn(order[n]), contents[<<"kels", order[n]>>]>> : n \in 1..size}
<1>3. kel \in [1..size -> Entry]
  BY <1>2
<1> HIDE DEF kel, Entry
<1>4. kel \in Seq(Entry) /\ Len(kel) = size
  BY <1>1, <1>3, SeqDef, LenProperties
<1>5. kel # <<>> /\ LatestSn(contents, p) = kel[size][1]
  BY <1>4 DEF LatestSn, Last, kel
<1>6. size \in 1..size
  BY <1>1, <1>4, <1>5, EmptySeq
<1>7. LatestSn(contents, p) = SplitSn(order[size])
  BY <1>2, <1>5, <1>6
<1>8. order[size] \in KelEntries(contents, p)
  BY <1>1, <1>6 DEF keys
<1>9. PICK s \in SeqNo : order[size] = SnKey(p, s)
  BY <1>8, EntriesFound
<1>10. LatestSn(contents, p) = s
  BY <1>7, <1>9, SplitSnOfKey
<1> QED
  BY <1>8, <1>9, <1>10, EntriesFound

\* get_kel takes the keys it found in the order of their numbers: of a log
\* that holds the numbers below h, the key of n - 1 is the n-th.
LEMMA InOrderOfNumbers ==
  ASSUME NEW p \in Prefix, NEW h \in 0..(MaxSn + 1)
  PROVE  InOrder({SnKey(p, s) : s \in 0..(h - 1)}) = [n \in 1..h |-> SnKey(p, n - 1)]
<1> DEFINE keys == {SnKey(p, s) : s \in 0..(h - 1)}
           inPlace == [n \in 1..h |-> SnKey(p, n - 1)]
           IsOrder(order) == \A m, n \in 1..Cardinality(keys) :
                               m < n => SplitSn(order[m]) < SplitSn(order[n])
<1>1. h \in Nat /\ 0..(h - 1) \subseteq SeqNo
  BY BoundAssumption DEF SeqNo
<1>2. \A n \in 1..h : n - 1 \in SeqNo /\ SplitSn(SnKey(p, n - 1)) = n - 1
  BY <1>1, SplitSnOfKey
<1>3. Cardinality(keys) = h
  <2>1. inPlace \in Bijection(1..h, keys)
    <3>1. inPlace \in [1..h -> keys]
      BY <1>1
    <3>2. \A m, n \in 1..h : inPlace[m] = inPlace[n] => m = n
      BY <1>2, SMT
    <3>3. \A key \in keys : \E n \in 1..h : inPlace[n] = key
      <4> TAKE key \in keys
      <4>1. PICK s \in 0..(h - 1) : key = SnKey(p, s)
        OBVIOUS
      <4>2. s + 1 \in 1..h /\ inPlace[s + 1] = key
        BY <1>1, <4>1
      <4> QED
        BY <4>2
    <3> QED
      BY <3>1, <3>2, <3>3 DEF Bijection, Injection, Surjection, IsInjective
  <2> QED
    BY <1>1, <2>1, FS_CountingElements DEF ExistsBijection
<1>4. inPlace \in [1..Cardinality(keys) -> keys] /\ IsOrder(inPlace)
  <2>1. inPlace \in [1..h -> keys]
    BY <1>1
  <2>2. \A m, n \in 1..h : m < n => SplitSn(inPlace[m]) < SplitSn(inPlace[n])
    BY <1>2
  <2> QED
    BY <1>3, <2>1, <2>2
<1>5. ASSUME NEW order \in [1..Cardinality(keys) -> keys], IsOrder(order)
      PROVE  order = inPlace
  <2> DEFINE number == [n \in 1..h |-> SplitSn(order[n])]
  <2>1. /\ number \in [1..h -> 0..(h - 1)]
        /\ \A n \in 1..h : order[n] = SnKey(p, number[n])
    <3> SUFFICES ASSUME NEW n \in 1..h
                 PROVE  number[n] \in 0..(h - 1) /\ order[n] = SnKey(p, number[n])
      OBVIOUS
    <3>1. PICK s \in 0..(h - 1) : order[n] = SnKey(p, s)
      BY <1>3, <1>5
    <3>2. SplitSn(SnKey(p, s)) = s
      BY <1>1, SplitSnOfKey
    <3> QED
      BY <3>1, <3>2
  <2>2. \A m, n \in 1..h : m < n => number[m] < number[n]
    BY <1>3, <1>5
  <2> HIDE DEF number
  <2>3. \A n \in 1..h : number[n] >= n - 1
    <3> DEFINE Low == {n \in 1..h : number[n] < n - 1}
    <3>1. SUFFICES ASSUME Low # {} PROVE FALSE
      BY <1>1, <2>1
    <3> Low \in SUBSET Nat
      BY <1>1
    <3>2. PICK n \in Low : \A m \in Low : n <= m
      BY <3>1, LeastNumber
    <3>3. n > 1 /\ n - 1 \in 1..h /\ n - 1 \notin Low
      BY <1>1, <2>1, <3>2
    <3>4. number[n - 1] < number[n]
      BY <2>2, <3>3
    <3> QED
      BY <1>1, <2>1, <3>3, <3>4
  <2>4. \A n \in 1..h : number[n] <= n - 1
    <3> DEFINE High == {k \in 0..(h - 1) : number[h - k] > h - k - 1}
    <3>1. SUFFICES ASSUME High # {} PROVE FALSE
      <4>1. SUFFICES ASSUME NEW n \in 1..h, ~(number[n] <= n - 1)
                     PROVE  h - n \in High
        OBVIOUS
      <4>2. number[n] > n - 1 /\ h - n \in 0..(h - 1) /\ h - (h - n) = n
        BY <1>1, <2>1, <4>1
      <4> QED
        BY <4>2
    <3> High \in SUBSET Nat
      BY <1>1
    <3>2. PICK k \in High : \A m \in High : k <= m
      BY <3>1, LeastNumber
    <3>3. k > 0 /\ k - 1 \in 0..(h - 1) /\ k - 1 \notin High
      BY <1>1, <2>1, <3>2
    <3>4. number[h - k] < number[h - (k - 1)]
      BY <1>1, <2>2, <3>3
    <3> QED
      BY <1>1, <2>1, <3>3, <3>4
  <2>5. \A n \in 1..h : order[n] = inPlace[n]
    <3> TAKE n \in 1..h
    <3>1. number[n] = n - 1
      BY <1>1, <2>1, <2>3, <2>4
    <3> QED
      BY <2>1, <3>1
  <2> QED
    BY <1>3, <2>5
<1> HIDE DEF inPlace, IsOrder
<1>6. (CHOOSE order \in [1..Cardinality(keys) -> keys] : IsOrder(order)) = inPlace
  BY <1>4, <1>5, Zenon
<1> QED
  BY <1>6 DEF InOrder, inPlace, IsOrder

\* The places below h, and no others, hold an event of the identifier
HeldBelow(contents, p, h) ==
  \A s \in SeqNo : contents[<<"kels", SnKey(p, s)>>] # Absent <=> s < h

\* get_kel: a log without a gap is read back number by number from 0.
LEMMA GetKelOfLog ==
  ASSUME NEW contents, NEW p \in Prefix, NEW h \in 0..(MaxSn + 1), HeldBelow(contents, p, h)
  PROVE  GetKel(contents, p) = [n \in 1..h |-> <<n - 1, contents[<<"kels", SnKey(p, n - 1)>>]>>]
<1>1. h \in Nat /\ 0..(h - 1) \subseteq SeqNo /\ \A s \in SeqNo : s \in 0..(h - 1) <=> s < h
  BY BoundAssumption DEF SeqNo
<1>2. KelEntries(contents, p) = {SnKey(p, s) : s \in 0..(h - 1)}
  <2>1. \A s \in SeqNo : SnKey(p, s) \in KelEntries(contents, p) <=> s \in 0..(h - 1)
    BY <1>1, EntriesFound DEF HeldBelow
  <2>2. ASSUME NEW key \in KelEntries(contents, p)
        PROVE  key \in {SnKey(p, s) : s \in 0..(h - 1)}
    <3>1. PICK s \in SeqNo : key = SnKey(p, s)
      BY EntriesFound
    <3> QED
      BY <2>1, <3>1
  <2> QED
    BY <1>1, <2>1, <2>2
<1>3. InOrder(KelEntries(contents, p)) = [n \in 1..h |-> SnKey(p, n - 1)]
  BY <1>2, InOrderOfNumbers
<1>4. \A n \in 1..h : SplitSn(SnKey(p, n - 1)) = n - 1
  BY <1>1, SplitSnOfKey
<1> QED
  BY <1>3, <1>4 DEF GetKel

\* latest_sn: the last number of a log without a gap.
LEMMA LatestSnOfLog ==
  ASSUME NEW contents, NEW p \in Prefix, NEW h \in 0..(MaxSn + 1), HeldBelow(contents, p, h)
  PROVE  LatestSn(contents, p) = IF h = 0 THEN Absent ELSE h - 1
<1> DEFINE kel == GetKel(contents, p)
           Entry == Nat \X {contents[<<"kels", SnKey(p, s)>>] : s \in SeqNo}
<1>1. h \in Nat /\ \A n \in 1..h : n - 1 \in SeqNo /\ n - 1 \in Nat
  BY BoundAssumption DEF SeqNo
<1>2. kel = [n \in 1..h |-> <<n - 1, contents[<<"kels", SnKey(p, n - 1)>>]>>]
  BY GetKelOfLog
<1>3. kel \in [1..h -> Entry]
  BY <1>1, <1>2
<1> HIDE DEF kel, Entry
<1>4. kel \in Seq(Entry)
  BY <1>1, <1>3, SeqDef
<1>5. Len(kel) = h
  BY <1>1, <1>3, <1>4, LenProperties
<1>6. CASE h = 0
  BY <1>4, <1>5, <1>6, EmptySeq DEF LatestSn, kel
<1>7. CASE h # 0
  <2>1. kel # <<>>
    BY <1>4, <1>5, <1>7, EmptySeq
  <2>2. kel[h][1] = h - 1
    BY <1>1, <1>2, <1>7
  <2> QED
    BY <1>5, <1>7, <2>1, <2>2 DEF LatestSn, Last, kel
<1> QED
  BY <1>6, <1>7

----------------------------------------------------------------------------
(* What one version of the tables holds.                                   *)

\* d is the event at a place, with a body and its first-seen entry
HeldAt(contents, p, s, d) ==
  /\ d \in Said /\ PlaceOf[d] = <<p, s>>
  /\ contents[<<"evts", d>>] \in Bodies(d)
  /\ contents[<<"fels", SnKey(p, s)>>] = d

WholeLogs(contents) ==
  \A p \in Prefix :
    /\ \E h \in 0..(MaxSn + 1) : HeldBelow(contents, p, h)
    /\ \A s \in SeqNo :
         LET d == contents[<<"kels", SnKey(p, s)>>] IN d # Absent => HeldAt(contents, p, s, d)

\* The place of an event holds that event
InLog(contents, d) == contents[<<"kels", SnKey(PlaceOf[d][1], PlaceOf[d][2])>>] = d

RecordsInLog(contents) ==
  \A name \in Name :
    contents[<<"habs", name>>] # Absent =>
      \E d \in Said : contents[<<"habs", name>>] = RecordOf(d) /\ InLog(contents, d)

SavedInLog(contents, kept) ==
  \A p \in Prefix :
    kept[p] # Absent => PlaceOf[kept[p]][1] = p /\ InLog(contents, kept[p])

Consistent(contents, kept) ==
  /\ contents \in Contents /\ kept \in [Prefix -> Said \cup {Absent}]
  /\ WholeLogs(contents) /\ RecordsInLog(contents) /\ SavedInLog(contents, kept)

\* Every version that a crash may fall back to is consistent
StoreInv ==
  /\ TypeOK
  /\ ~torn => \A n \in DOMAIN versions : Consistent(versions[n], saved)

\* The calls name an event, its place and its bytes.
LEMMA CallFields ==
  ASSUME NEW e \in Calls
  PROVE  /\ e.said \in Said /\ e.prefix \in Prefix /\ e.sn \in SeqNo
         /\ PlaceOf[e.said] = <<e.prefix, e.sn>>
         /\ e.event = EventOf(e.said) /\ e.event \in Value
         /\ e.sigs \in Value \cup {Absent}
         /\ SnKey(e.prefix, e.sn) \in Places
<1>1. /\ e.said \in Said /\ PlaceOf[e.said] = <<e.prefix, e.sn>>
      /\ e.event = EventOf(e.said) /\ e.sigs \in {SigsOf(e.said), Absent}
  BY CallsAssumption
<1>2. <<e.prefix, e.sn>> \in Prefix \X SeqNo
  BY <1>1, PlaceAssumption
<1> QED
  BY <1>1, <1>2 DEF Value, Blob, EventOf, SigsOf, Places

\* What store_event leaves, cell by cell.
LEMMA WithEventCells ==
  ASSUME NEW contents \in Contents, NEW e \in Calls
  PROVE  LET next == WithEvent(contents, e)
             key  == SnKey(e.prefix, e.sn)
         IN  /\ next \in Contents
             /\ next[<<"evts", e.said>>] = e.event
             /\ next[<<"kels", key>>] = e.said /\ next[<<"fels", key>>] = e.said
             /\ next[<<"sigs", e.said>>] =
                  IF e.sigs = Absent THEN contents[<<"sigs", e.said>>] ELSE e.sigs
             /\ \A c \in Cell :
                  c \notin {<<"evts", e.said>>, <<"kels", key>>, <<"fels", key>>, <<"sigs", e.said>>}
                    => next[c] = contents[c]
<1> DEFINE key == SnKey(e.prefix, e.sn)
<1>1. /\ e.said \in Value /\ e.event \in Value /\ e.sigs \in Value \cup {Absent}
      /\ <<"evts", e.said>> \in Cell /\ <<"sigs", e.said>> \in Cell
      /\ <<"kels", key>> \in Cell /\ <<"fels", key>> \in Cell
  BY CallFields DEF Value, Cell, BySaid, ByPlace
<1> HIDE DEF key
<1>2. WithEvent(contents, e) =
        [contents EXCEPT ![<<"evts", e.said>>] = e.event, ![<<"kels", key>>] = e.said,
                         ![<<"fels", key>>] = e.said,
                         ![<<"sigs", e.said>>] = IF e.sigs = Absent THEN @ ELSE e.sigs]
  BY DEF WithEvent, key
<1>3. WithEvent(contents, e) \in Contents
  <2>1. /\ contents \in [Cell -> Value \cup {Absent}]
        /\ \A table \in {"kels", "fels"}, k \in Places : contents[<<table, k>>] \in Said \cup {Absent}
    BY DEF Contents
  <2>2. WithEvent(contents, e) \in [Cell -> Value \cup {Absent}]
    BY <1>1, <1>2, <2>1
  <2>3. ASSUME NEW table \in {"kels", "fels"}, NEW k \in Places
        PROVE  WithEvent(contents, e)[<<table, k>>] \in Said \cup {Absent}
    <3>1. <<table, k>> \in Cell /\ e.said \in Said
      BY CallFields DEF Cell, ByPlace
    <3> QED
      BY <1>1, <1>2, <2>1, <3>1
  <2> QED
    BY <2>2, <2>3 DEF Contents
<1>4. contents \in [Cell -> Value \cup {Absent}]
  BY DEF Contents
<1> QED
  BY <1>1, <1>2, <1>3, <1>4 DEF key

\* What a put of one cell leaves.
LEMMA PutCells ==
  ASSUME NEW contents \in Contents, NEW cell \in Cell, NEW value \in Value \cup {Absent},
         cell[1] \notin {"kels", "fels"}
  PROVE  /\ [contents EXCEPT ![cell] = value] \in Contents
         /\ \A c \in Cell : [contents EXCEPT ![cell] = value][c] =
                             IF c = cell THEN value ELSE contents[c]
<1> DEFINE next == [contents EXCEPT ![cell] = value]
<1>1. /\ contents \in [Cell -> Value \cup {Absent}]
      /\ \A table \in {"kels", "fels"}, k \in Places : contents[<<table, k>>] \in Said \cup {Absent}
  BY DEF Contents
<1>2. /\ next \in [Cell -> Value \cup {Absent}]
      /\ \A c \in Cell : next[c] = IF c = cell THEN value ELSE contents[c]
  BY <1>1
<1> HIDE DEF next
<1>3. \A table \in {"kels", "fels"}, k \in Places : <<table, k>> \in Cell /\ <<table, k>> # cell
  BY DEF Cell, ByPlace
<1>4. next \in Contents
  BY <1>1, <1>2, <1>3 DEF Contents
<1> QED
  BY <1>2, <1>4 DEF next

\* The cells of a place and of an event.
LEMMA CellsOfLogs ==
  ASSUME NEW p \in Prefix, NEW s \in SeqNo, NEW d \in Said
  PROVE  /\ <<"kels", SnKey(p, s)>> \in Cell /\ <<"fels", SnKey(p, s)>> \in Cell
         /\ <<"evts", d>> \in Cell
BY DEF Cell, BySaid, ByPlace, Places

\* store_event takes consistent contents to consistent contents when the
\* event is the next of its log: what was logged stays, with its body.
LEMMA NextEventKeepsLogs ==
  ASSUME NEW contents, NEW kept, Consistent(contents, kept), NEW e \in Calls,
         IF e.sn = 0 THEN LatestSn(contents, e.prefix) = Absent
                     ELSE LatestSn(contents, e.prefix) = e.sn - 1
  PROVE  Consistent(WithEvent(contents, e), kept) /\ InLog(WithEvent(contents, e), e.said)
<1> DEFINE next == WithEvent(contents, e)
<1>1. /\ contents \in Contents /\ kept \in [Prefix -> Said \cup {Absent}]
      /\ WholeLogs(contents) /\ RecordsInLog(contents) /\ SavedInLog(contents, kept)
  BY DEF Consistent
<1>2. /\ e.said \in Said /\ e.prefix \in Prefix /\ e.sn \in SeqNo
      /\ PlaceOf[e.said] = <<e.prefix, e.sn>>
      /\ e.event = EventOf(e.said)
  BY CallFields
<1>3. /\ next \in Contents
      /\ next[<<"evts", e.said>>] = e.event
      /\ next[<<"kels", SnKey(e.prefix, e.sn)>>] = e.said
      /\ next[<<"fels", SnKey(e.prefix, e.sn)>>] = e.said
      /\ \A d \in Said : d # e.said => next[<<"evts", d>>] = contents[<<"evts", d>>]
      /\ \A q \in Prefix, t \in SeqNo :
           <<q, t>> # <<e.prefix, e.sn>> =>
             /\ next[<<"kels", SnKey(q, t)>>] = contents[<<"kels", SnKey(q, t)>>]
             /\ next[<<"fels", SnKey(q, t)>>] = contents[<<"fels", SnKey(q, t)>>]
      /\ \A name \in Name : next[<<"habs", name>>] = contents[<<"habs", name>>]
  <2>1. \A q \in Prefix, t \in SeqNo :
          SnKey(q, t) = SnKey(e.prefix, e.sn) => <<q, t>> = <<e.prefix, e.sn>>
    BY <1>2, SnKeyInjective
  <2>2. \A name \in Name : <<"habs", name>> \in Cell
    BY DEF Cell
  <2> HIDE DEF next
  <2>3. /\ next \in Contents
        /\ next[<<"evts", e.said>>] = e.event
        /\ next[<<"kels", SnKey(e.prefix, e.sn)>>] = e.said
        /\ next[<<"fels", SnKey(e.prefix, e.sn)>>] = e.said
        /\ \A c \in Cell :
             c \notin {<<"evts", e.said>>, <<"kels", SnKey(e.prefix, e.sn)>>,
                       <<"fels", SnKey(e.prefix, e.sn)>>, <<"sigs", e.said>>}
               => next[c] = contents[c]
    BY <1>1, WithEventCells DEF next
  <2>4. \A d \in Said : d # e.said => next[<<"evts", d>>] = contents[<<"evts", d>>]
    BY <1>2, <2>3, CellsOfLogs
  <2>5. ASSUME NEW q \in Prefix, NEW t \in SeqNo, <<q, t>> # <<e.prefix, e.sn>>
        PROVE  /\ next[<<"kels", SnKey(q, t)>>] = contents[<<"kels", SnKey(q, t)>>]
               /\ next[<<"fels", SnKey(q, t)>>] = contents[<<"fels", SnKey(q, t)>>]
    <3>1. SnKey(q, t) # SnKey(e.prefix, e.sn)
      BY <2>1, <2>5
    <3>2. <<"kels", SnKey(q, t)>> \in Cell /\ <<"fels", SnKey(q, t)>> \in Cell
      BY <1>2, CellsOfLogs
    <3> QED
      BY <2>3, <3>1, <3>2
  <2>6. \A name \in Name : next[<<"habs", name>>] = contents[<<"habs", name>>]
    BY <2>2, <2>3
  <2> QED
    BY <2>3, <2>4, <2>5, <2>6
<1>4. PICK h \in 0..(MaxSn + 1) : HeldBelow(contents, e.prefix, h)
  BY <1>1, <1>2 DEF WholeLogs
<1>5. h = e.sn /\ contents[<<"kels", SnKey(e.prefix, e.sn)>>] = Absent
  <2>1. LatestSn(contents, e.prefix) = IF h = 0 THEN Absent ELSE h - 1
    BY <1>2, <1>4, LatestSnOfLog
  <2>2. h # 0 => h - 1 \in SeqNo
    BY BoundAssumption DEF SeqNo
  <2>3. e.sn # 0 => e.sn - 1 \in SeqNo
    BY <1>2, BoundAssumption DEF SeqNo
  <2>4. h = e.sn
    BY <1>2, <2>1, <2>2, <2>3, BoundAssumption, AbsentAssumption DEF SeqNo
  <2> QED
    BY <1>2, <1>4, <2>4, BoundAssumption DEF HeldBelow, SeqNo
<1>6. e.said # Absent
  BY <1>2, AbsentAssumption DEF Value
<1> HIDE DEF next
<1>7. WholeLogs(next)
  <2> SUFFICES ASSUME NEW p \in Prefix
               PROVE  /\ \E k \in 0..(MaxSn + 1) : HeldBelow(next, p, k)
                      /\ \A s \in SeqNo :
                           LET d == next[<<"kels", SnKey(p, s)>>]
                           IN  d # Absent => HeldAt(next, p, s, d)
    BY DEF WholeLogs
  <2>1. \E k \in 0..(MaxSn + 1) : HeldBelow(next, p, k)
    <3>1. CASE p = e.prefix
      <4>1. h + 1 \in 0..(MaxSn + 1)
        BY <1>2, <1>5, BoundAssumption DEF SeqNo
      <4>2. HeldBelow(next, p, h + 1)
        <5> SUFFICES ASSUME NEW s \in SeqNo
                     PROVE  next[<<"kels", SnKey(p, s)>>] # Absent <=> s < h + 1
          BY DEF HeldBelow
        <5>1. h \in Nat /\ s \in Nat
          BY BoundAssumption DEF SeqNo
        <5>2. CASE s = e.sn
          BY <1>3, <1>5, <1>6, <3>1, <5>1, <5>2
        <5>3. CASE s # e.sn
          <6>1. next[<<"kels", SnKey(p, s)>>] = contents[<<"kels", SnKey(p, s)>>]
            BY <1>3, <5>3
          <6>2. contents[<<"kels", SnKey(p, s)>>] # Absent <=> s < h
            BY <1>4, <3>1 DEF HeldBelow
          <6> QED
            BY <1>5, <5>1, <5>3, <6>1, <6>2
        <5> QED
          BY <5>2, <5>3
      <4> QED
        BY <4>1, <4>2
    <3>2. CASE p # e.prefix
      <4>1. PICK k \in 0..(MaxSn + 1) : HeldBelow(contents, p, k)
        BY <1>1 DEF WholeLogs
      <4>2. HeldBelow(next, p, k)
        BY <1>3, <3>2, <4>1 DEF HeldBelow
      <4> QED
        BY <4>2
    <3> QED
      BY <3>1, <3>2
  <2>2. ASSUME NEW s \in SeqNo, next[<<"kels", SnKey(p, s)>>] # Absent
        PROVE  HeldAt(next, p, s, next[<<"kels", SnKey(p, s)>>])
    <3>1. CASE <<p, s>> = <<e.prefix, e.sn>>
      BY <1>2, <1>3, <3>1 DEF HeldAt, Bodies
    <3>2. CASE <<p, s>> # <<e.prefix, e.sn>>
      <4> DEFINE d == contents[<<"kels", SnKey(p, s)>>]
      <4>1. next[<<"kels", SnKey(p, s)>>] = d /\ d # Absent
        BY <1>3, <2>2, <3>2
      <4>2. HeldAt(contents, p, s, d)
        BY <1>1, <4>1 DEF WholeLogs
      <4> HIDE DEF d
      <4>3. HeldAt(next, p, s, d)
        BY <1>2, <1>3, <3>2, <4>2 DEF HeldAt
      <4> QED
        BY <4>1, <4>3
    <3> QED
      BY <3>1, <3>2
  <2> QED
    BY <2>1, <2>2
<1>8. ASSUME NEW d \in Said, InLog(contents, d)
      PROVE  InLog(next, d)
  <2>1. PlaceOf[d][1] \in Prefix /\ PlaceOf[d][2] \in SeqNo
    BY PlaceAssumption
  <2>2. contents[<<"kels", SnKey(PlaceOf[d][1], PlaceOf[d][2])>>] # Absent
    BY <1>8, AbsentAssumption DEF InLog, Value
  <2>3. <<PlaceOf[d][1], PlaceOf[d][2]>> # <<e.prefix, e.sn>>
    BY <1>5, <2>2
  <2> QED
    BY <1>3, <1>8, <2>1, <2>3 DEF InLog
<1>9. RecordsInLog(next)
  BY <1>1, <1>3, <1>8 DEF RecordsInLog
<1>10. SavedInLog(next, kept)
  <2> SUFFICES ASSUME NEW p \in Prefix, kept[p] # Absent
               PROVE  PlaceOf[kept[p]][1] = p /\ InLog(next, kept[p])
    BY DEF SavedInLog
  <2>1. PlaceOf[kept[p]][1] = p /\ InLog(contents, kept[p])
    BY <1>1 DEF SavedInLog
  <2> QED
    BY <1>1, <1>8, <2>1
<1>11. InLog(next, e.said)
  BY <1>2, <1>3 DEF InLog
<1> QED
  BY <1>1, <1>3, <1>7, <1>9, <1>10, <1>11 DEF Consistent, next

\* What leaves the tables kels and fels alone, and a body under every SAID that
\* has one, leaves the logs whole.
LEMMA SameLogs ==
  ASSUME NEW contents, WholeLogs(contents), NEW next,
         \A d \in Said : \/ next[<<"evts", d>>] = contents[<<"evts", d>>]
                         \/ next[<<"evts", d>>] \in Bodies(d),
         \A p \in Prefix, s \in SeqNo :
           /\ next[<<"kels", SnKey(p, s)>>] = contents[<<"kels", SnKey(p, s)>>]
           /\ next[<<"fels", SnKey(p, s)>>] = contents[<<"fels", SnKey(p, s)>>]
  PROVE  WholeLogs(next)
<1> SUFFICES ASSUME NEW p \in Prefix
             PROVE  /\ \E h \in 0..(MaxSn + 1) : HeldBelow(next, p, h)
                    /\ \A s \in SeqNo :
                         LET d == next[<<"kels", SnKey(p, s)>>]
                         IN  d # Absent => HeldAt(next, p, s, d)
  BY DEF WholeLogs
<1>1. PICK h \in 0..(MaxSn + 1) : HeldBelow(contents, p, h)
  BY DEF WholeLogs
<1>2. HeldBelow(next, p, h)
  BY <1>1 DEF HeldBelow
<1>3. ASSUME NEW s \in SeqNo, next[<<"kels", SnKey(p, s)>>] # Absent
      PROVE  HeldAt(next, p, s, next[<<"kels", SnKey(p, s)>>])
  <2>1. HeldAt(contents, p, s, contents[<<"kels", SnKey(p, s)>>])
    BY <1>3 DEF WholeLogs
  <2> QED
    BY <2>1 DEF HeldAt, Bodies
<1> QED
  BY <1>2, <1>3

\* The record of a Hab is put with the event it names, or after it.
LEMMA RecordKeepsLogs ==
  ASSUME NEW contents, NEW kept, Consistent(contents, kept),
         NEW d \in Said, InLog(contents, d), NEW name \in Name
  PROVE  Consistent(WithHab(contents, name, RecordOf(d)), kept)
<1> DEFINE next == WithHab(contents, name, RecordOf(d))
<1>1. <<"habs", name>> \in Cell /\ RecordOf(d) \in Value
  BY DEF Cell, RecordOf, Value, Blob
<1>2. contents \in Contents
  BY DEF Consistent
<1>3. next \in Contents /\ \A c \in Cell : next[c] = IF c = <<"habs", name>> THEN RecordOf(d) ELSE contents[c]
  BY <1>1, <1>2, PutCells DEF WithHab
<1> HIDE DEF next
<1>4. /\ \A x \in Said : next[<<"evts", x>>] = contents[<<"evts", x>>]
      /\ \A p \in Prefix, s \in SeqNo :
           /\ next[<<"kels", SnKey(p, s)>>] = contents[<<"kels", SnKey(p, s)>>]
           /\ next[<<"fels", SnKey(p, s)>>] = contents[<<"fels", SnKey(p, s)>>]
  <2>1. \A x \in Said : <<"evts", x>> \in Cell
    BY DEF Cell, BySaid
  <2>2. \A p \in Prefix, s \in SeqNo : <<"kels", SnKey(p, s)>> \in Cell /\ <<"fels", SnKey(p, s)>> \in Cell
    BY CellsOfLogs
  <2> QED
    BY <1>3, <2>1, <2>2
<1>5. WholeLogs(next)
  BY <1>4, SameLogs DEF Consistent
<1>6. \A x \in Said : InLog(contents, x) => InLog(next, x)
  BY <1>4, PlaceAssumption, ZenonT(60) DEF InLog
<1>7. RecordsInLog(next)
  <2> SUFFICES ASSUME NEW n \in Name, next[<<"habs", n>>] # Absent
               PROVE  \E x \in Said : next[<<"habs", n>>] = RecordOf(x) /\ InLog(next, x)
    BY DEF RecordsInLog
  <2>1. <<"habs", n>> \in Cell
    BY DEF Cell
  <2>2. CASE n = name
    BY <1>3, <1>6, <2>1, <2>2
  <2>3. CASE n # name
    BY <1>3, <1>6, <2>1, <2>3 DEF RecordsInLog, Consistent
  <2> QED
    BY <2>2, <2>3
<1>8. SavedInLog(next, kept)
  BY <1>6 DEF SavedInLog, Consistent
<1> QED
  BY <1>3, <1>5, <1>7, <1>8 DEF Consistent, next

\* What a put of a client, or a deletion, may leave in its cell
MayPut(put, value) ==
  /\ value \in Value \cup {Absent}
  /\ put.table = "evts" => value = OtherOf(put.key)

\* The other puts and deletes are of cells in tables that are no log.
LEMMA OtherPutCell ==
  ASSUME NEW put \in Puts
  PROVE  LET cell == CellOf(put.table, put.key)
         IN  /\ cell \in Cell /\ cell[1] \notin {"kels", "fels", "habs"}
             /\ cell[1] = "evts" => put.table = "evts" /\ cell = <<"evts", put.key>>
<1>1. CASE put.table \in {"evts", "dtss", "wigs", "rcts"} /\ put.key \in Said
  BY <1>1 DEF CellOf, ByPlace, BySaid, Cell
<1>2. CASE put.table \in {"ooes", "pses"} /\ put.key \in Prefix \X SeqNo
  <2>1. SnKey(put.key[1], put.key[2]) \in Places
    BY <1>2 DEF Places
  <2> QED
    BY <1>2, <2>1 DEF CellOf, ByPlace, BySaid, Cell
<1>3. CASE put.table = "states" /\ put.key \in Prefix
  BY <1>3 DEF CellOf, ByPlace, BySaid, Cell
<1> QED
  BY <1>1, <1>2, <1>3, PutsAssumption

\* Puts and deletes of one cell touch no record, and no log but to put another
\* message under the SAID of an event.
LEMMA OtherPutKeepsLogs ==
  ASSUME NEW contents, NEW kept, Consistent(contents, kept),
         NEW put \in Puts, NEW value, MayPut(put, value)
  PROVE  LET cell == CellOf(put.table, put.key)
         IN  cell \in Cell /\ Consistent([contents EXCEPT ![cell] = value], kept)
<1> DEFINE cell == CellOf(put.table, put.key)
           next == [contents EXCEPT ![cell] = value]
<1>1. /\ cell \in Cell /\ cell[1] \notin {"kels", "fels", "habs"}
      /\ \A x \in Said : cell = <<"evts", x>> => value = OtherOf(x)
  BY OtherPutCell DEF MayPut
<1> HIDE DEF cell
<1>2. contents \in Contents
  BY DEF Consistent
<1>3. next \in Contents /\ \A c \in Cell : next[c] = IF c = cell THEN value ELSE contents[c]
  BY <1>1, <1>2, PutCells DEF MayPut
<1> HIDE DEF next
<1>4. /\ \A x \in Said : \/ next[<<"evts", x>>] = contents[<<"evts", x>>]
                          \/ next[<<"evts", x>>] \in Bodies(x)
      /\ \A p \in Prefix, s \in SeqNo :
           /\ next[<<"kels", SnKey(p, s)>>] = contents[<<"kels", SnKey(p, s)>>]
           /\ next[<<"fels", SnKey(p, s)>>] = contents[<<"fels", SnKey(p, s)>>]
      /\ \A name \in Name : next[<<"habs", name>>] = contents[<<"habs", name>>]
  <2>1. \A x \in Said : <<"evts", x>> \in Cell /\ OtherOf(x) \in Bodies(x)
    BY DEF Cell, BySaid, Bodies
  <2>2. \A p \in Prefix, s \in SeqNo :
          /\ <<"kels", SnKey(p, s)>> \in Cell /\ <<"kels", SnKey(p, s)>> # cell
          /\ <<"fels", SnKey(p, s)>> \in Cell /\ <<"fels", SnKey(p, s)>> # cell
    BY <1>1 DEF Cell, ByPlace, Places
  <2>3. \A name \in Name : <<"habs", name>> \in Cell /\ <<"habs", name>> # cell
    BY <1>1 DEF Cell
  <2>4. \A x \in Said : \/ next[<<"evts", x>>] = contents[<<"evts", x>>]
                         \/ next[<<"evts", x>>] \in Bodies(x)
    BY <1>1, <1>3, <2>1
  <2> QED
    BY <1>3, <2>2, <2>3, <2>4
<1>5. WholeLogs(next)
  BY <1>4, SameLogs DEF Consistent
<1>6. \A x \in Said : InLog(contents, x) => InLog(next, x)
  BY <1>4, PlaceAssumption, ZenonT(60) DEF InLog
<1>7. RecordsInLog(next)
  BY <1>4, <1>6 DEF RecordsInLog, Consistent
<1>8. SavedInLog(next, kept)
  BY <1>6 DEF SavedInLog, Consistent
<1> QED
  BY <1>1, <1>3, <1>5, <1>7, <1>8 DEF Consistent, cell, next

----------------------------------------------------------------------------
(* Steps.                                                                  *)

\* What a step that writes or falls back leaves of the versions: versions
\* there were, and the new one.
LEMMA CommitVersions ==
  ASSUME TypeOK, NEW next \in Contents, Commit(next)
  PROVE  /\ TypeOK'
         /\ \A n \in DOMAIN versions' :
              versions'[n] = next \/ \E m \in DOMAIN versions : versions'[n] = versions[m]
         /\ UNCHANGED <<config, torn, saved>>
<1>1. versions \in Seq(Contents) /\ versions # <<>>
  BY DEF TypeOK
<1>2. CASE Durable
  <2>1. versions' = <<next>>
    BY <1>2 DEF Commit
  <2> QED
    BY <2>1 DEF TypeOK, Commit
<1>3. CASE ~Durable
  <2>1. versions' = Append(versions, next)
    BY <1>3 DEF Commit
  <2>2. /\ versions' \in Seq(Contents) /\ versions' # <<>>
        /\ Len(versions') = Len(versions) + 1
        /\ \A i \in 1..Len(versions) : versions'[i] = versions[i]
        /\ versions'[Len(versions) + 1] = next
    BY <1>1, <2>1, AppendProperties
  <2>3. DOMAIN versions' = 1..(Len(versions) + 1) /\ DOMAIN versions = 1..Len(versions) /\ Len(versions) \in Nat
    BY <1>1, <2>2, LenProperties
  <2>4. \A n \in DOMAIN versions' :
          versions'[n] = next \/ \E m \in DOMAIN versions : versions'[n] = versions[m]
    BY <2>2, <2>3
  <2>5. UNCHANGED <<config, torn, saved>> /\ mapped' \in BOOLEAN
    BY <1>3 DEF Commit, TypeOK
  <2> QED
    BY <2>2, <2>4, <2>5 DEF TypeOK
<1> QED
  BY <1>2, <1>3

\* The newest version is one of the versions.
LEMMA NowIsVersion ==
  ASSUME TypeOK
  PROVE  /\ Now \in Contents
         /\ Len(versions) \in DOMAIN versions /\ Now = versions[Len(versions)]
         /\ DOMAIN versions = 1..Len(versions) /\ Len(versions) \in Nat \ {0}
<1>1. versions \in Seq(Contents) /\ versions # <<>>
  BY DEF TypeOK
<1>2. Len(versions) \in Nat \ {0}
  BY <1>1, EmptySeq
<1> QED
  BY <1>1, <1>2, LenProperties, ElementOfSeq DEF Now, Last

\* A step of the client or of the environment keeps the invariant, whatever
\* the configuration the store is opened with.
LEMMA CommitKeepsInv ==
  ASSUME StoreInv, NEW next \in Contents, Commit(next), ~torn => Consistent(next, saved)
  PROVE  StoreInv'
<1>1. /\ TypeOK'
      /\ \A n \in DOMAIN versions' :
           versions'[n] = next \/ \E m \in DOMAIN versions : versions'[n] = versions[m]
      /\ UNCHANGED <<config, torn, saved>>
  BY CommitVersions DEF StoreInv
<1>2. ASSUME ~torn', NEW n \in DOMAIN versions'
      PROVE  Consistent(versions'[n], saved')
  <2>1. ~torn
    BY <1>1, <1>2
  <2> QED
    BY <1>1, <1>2, <2>1 DEF StoreInv
<1> QED
  BY <1>1, <1>2 DEF StoreInv

\* Steps that write nothing leave versions that there were.
LEMMA FallBackKeepsInv ==
  ASSUME StoreInv, versions' \in Seq(Contents), versions' # <<>>, saved' = saved,
         config' \in Configs, mapped' \in BOOLEAN, torn' = torn,
         \A n \in DOMAIN versions' : \E m \in DOMAIN versions : versions'[n] = versions[m]
  PROVE  StoreInv'
<1>1. TypeOK'
  BY DEF StoreInv, TypeOK
<1>2. \A m \in DOMAIN versions : ~torn => Consistent(versions[m], saved)
  BY DEF StoreInv
<1> QED
  BY <1>1, <1>2 DEF StoreInv

\* A sync leaves the newest version.
LEMMA SyncVersions ==
  ASSUME TypeOK, versions' = <<Now>>
  PROVE  /\ versions' \in Seq(Contents) /\ versions' # <<>>
         /\ DOMAIN versions' = {1} /\ versions'[1] = versions[Len(versions)]
         /\ \A n \in DOMAIN versions' : \E m \in DOMAIN versions : versions'[n] = versions[m]
<1>1. Now \in Contents /\ Len(versions) \in DOMAIN versions /\ Now = versions[Len(versions)]
  BY NowIsVersion
<1> QED
  BY <1>1

\* The initial state satisfies the invariant: no log, no record.
LEMMA StoreInvInit == Init => StoreInv
<1> SUFFICES ASSUME Init PROVE StoreInv
  OBVIOUS
<1> DEFINE empty == [c \in Cell |-> Absent]
<1>1. empty \in Contents /\ versions = <<empty>> /\ saved = [p \in Prefix |-> Absent]
  <2>1. \A table \in {"kels", "fels"}, k \in Places : empty[<<table, k>>] = Absent
    BY DEF Cell, ByPlace
  <2> QED
    BY <2>1 DEF Init, Contents
<1>2. versions \in Seq(Contents) /\ versions # <<>> /\ DOMAIN versions = {1} /\ versions[1] = empty
  BY <1>1
<1>3. TypeOK
  BY <1>1, <1>2 DEF TypeOK, Init
<1>4. WholeLogs(empty)
  <2>1. \A p \in Prefix, s \in SeqNo : empty[<<"kels", SnKey(p, s)>>] = Absent
    BY DEF Cell, ByPlace, Places
  <2> HIDE DEF empty
  <2>2. \A p \in Prefix : HeldBelow(empty, p, 0)
    BY <2>1 DEF HeldBelow, SeqNo
  <2> QED
    BY <2>1, <2>2, BoundAssumption DEF WholeLogs
<1>5. RecordsInLog(empty)
  BY DEF RecordsInLog, Cell
<1>6. SavedInLog(empty, saved)
  BY <1>1 DEF SavedInLog
<1> HIDE DEF empty
<1> QED
  BY <1>1, <1>2, <1>3, <1>4, <1>5, <1>6 DEF StoreInv, Consistent

\* Extend and Incept: an event is stored only after the last one read back.
LEMMA StoreStepKeepsInv ==
  ASSUME StoreInv, NEW e \in Calls, Extend(e) \/ \E name \in Name : Incept(e, name)
  PROVE  StoreInv'
<1>1. TypeOK /\ Now \in Contents /\ (~torn => Consistent(Now, saved)) /\ e.said \in Said
  BY NowIsVersion, CallFields DEF StoreInv
<1>2. ASSUME IsNext(e), ~torn
      PROVE  Consistent(WithEvent(Now, e), saved) /\ InLog(WithEvent(Now, e), e.said)
  BY <1>1, <1>2, NextEventKeepsLogs DEF IsNext
<1>3. WithEvent(Now, e) \in Contents
  BY <1>1, WithEventCells
<1>4. CASE Extend(e)
  BY <1>2, <1>3, <1>4, CommitKeepsInv DEF Extend, StoreEvent
<1>5. ASSUME NEW name \in Name, Incept(e, name)
      PROVE  StoreInv'
  <2> DEFINE next == WithHab(WithEvent(Now, e), name, RecordOf(e.said))
  <2>1. IsNext(e) /\ Commit(next)
    BY <1>5 DEF Incept, StoreEventWithHab
  <2>2. next \in Contents
    <3>1. <<"habs", name>> \in Cell /\ RecordOf(e.said) \in Value
      BY <1>1 DEF Cell, RecordOf, Value, Blob
    <3> QED
      BY <1>3, <3>1, PutCells DEF WithHab
  <2>3. ~torn => Consistent(next, saved)
    BY <1>1, <1>2, <2>1, RecordKeepsLogs
  <2> QED
    BY <2>1, <2>2, <2>3, CommitKeepsInv
<1> QED
  BY <1>4, <1>5

\* The other puts and deletes.
LEMMA PutStepKeepsInv ==
  ASSUME StoreInv, PutOther
  PROVE  StoreInv'
<1>1. PICK put \in Puts :
        LET cell == CellOf(put.table, put.key)
        IN  PutIn(cell, put.value) \/ (put.table \in {"ooes", "pses"} /\ DeleteIn(cell))
  BY DEF PutOther
<1> DEFINE cell == CellOf(put.table, put.key)
<1>2. PICK value : MayPut(put, value) /\ Commit([Now EXCEPT ![cell] = value])
  <2>1. MayPut(put, put.value) /\ (put.table \in {"ooes", "pses"} => MayPut(put, Absent))
    BY PutsAssumption DEF MayPut
  <2> QED
    BY <1>1, <2>1 DEF PutIn, DeleteIn
<1>3. Now \in Contents /\ (~torn => Consistent(Now, saved))
  BY NowIsVersion DEF StoreInv
<1>4. [Now EXCEPT ![cell] = value] \in Contents
  BY <1>2, <1>3, OtherPutCell, PutCells DEF MayPut
<1>5. ~torn => Consistent([Now EXCEPT ![cell] = value], saved)
  BY <1>2, <1>3, OtherPutKeepsLogs
<1> HIDE DEF cell
<1> QED
  BY <1>2, <1>4, <1>5, CommitKeepsInv

\* Save: the event that is saved is the last one read back, and every version
\* left holds it.
LEMMA SaveKeepsInv ==
  ASSUME StoreInv, NEW p \in Prefix, Save(p)
  PROVE  StoreInv'
<1> DEFINE last == LatestSn(Now, p)
           d == GetKelSaid(Now, p, last)
<1>1. /\ last # Absent /\ versions' = <<Now>> /\ mapped' = FALSE
      /\ saved' = [saved EXCEPT ![p] = d]
      /\ UNCHANGED <<config, torn>>
  BY DEF Save, Forced
<1>2. /\ TypeOK /\ Now \in Contents
      /\ versions' \in Seq(Contents) /\ versions' # <<>>
      /\ DOMAIN versions' = {1} /\ versions'[1] = Now
  BY <1>1, NowIsVersion, SyncVersions DEF StoreInv
<1>3. CASE torn
  <2>1. last \in SeqNo /\ d # Absent
    BY <1>1, LatestSnIsHeld DEF GetKelSaid
  <2>2. SnKey(p, last) \in Places
    BY <2>1 DEF Places
  <2>3. d \in Said
    BY <1>2, <2>1, <2>2 DEF Contents, GetKelSaid
  <2> HIDE DEF d
  <2> QED
    BY <1>1, <1>2, <1>3, <2>3 DEF StoreInv, TypeOK
<1>4. CASE ~torn
  <2>1. Consistent(Now, saved)
    BY <1>4, NowIsVersion DEF StoreInv
  <2>2. PICK h \in 0..(MaxSn + 1) : HeldBelow(Now, p, h)
    BY <2>1 DEF Consistent, WholeLogs
  <2>3. h # 0 /\ last = h - 1 /\ last \in SeqNo /\ last < h
    BY <1>1, <2>2, LatestSnOfLog, BoundAssumption DEF SeqNo
  <2>4. d = Now[<<"kels", SnKey(p, last)>>] /\ d # Absent
    BY <2>2, <2>3 DEF HeldBelow, GetKelSaid
  <2>5. d \in Said /\ PlaceOf[d] = <<p, last>>
    BY <2>1, <2>3, <2>4 DEF Consistent, WholeLogs, HeldAt
  <2> HIDE DEF last, d
  <2>6. InLog(Now, d)
    BY <2>4, <2>5 DEF InLog
  <2>7. saved' \in [Prefix -> Said \cup {Absent}] /\ SavedInLog(Now, saved')
    BY <1>1, <2>1, <2>5, <2>6 DEF Consistent, SavedInLog
  <2>8. Consistent(Now, saved')
    BY <2>1, <2>7 DEF Consistent
  <2> QED
    BY <1>1, <1>2, <2>7, <2>8 DEF StoreInv, TypeOK
<1> QED
  BY <1>3, <1>4

\* The environment: syncs, the operating system, reopening, crashes.
LEMMA EnvironmentKeepsInv ==
  ASSUME StoreInv, Sync \/ Settle \/ Reopen \/ Crash \/ CrashMapped
  PROVE  StoreInv'
<1>1. /\ TypeOK /\ versions \in Seq(Contents) /\ versions # <<>>
      /\ config \in Configs /\ mapped \in BOOLEAN
      /\ DOMAIN versions = 1..Len(versions) /\ Len(versions) \in Nat
  BY NowIsVersion DEF StoreInv, TypeOK
<1>2. CASE Sync
  <2>1. versions' = <<Now>> /\ mapped' = FALSE /\ UNCHANGED <<config, torn, saved>>
    BY <1>2 DEF Sync, Forced
  <2> QED
    BY <1>1, <2>1, SyncVersions, FallBackKeepsInv
<1>3. CASE Settle
  <2>1. versions' = Tail(versions) /\ Len(versions) > 1 /\ UNCHANGED <<config, mapped, torn, saved>>
    BY <1>3 DEF Settle
  <2>2. /\ versions' \in Seq(Contents) /\ Len(versions') = Len(versions) - 1
        /\ \A i \in 1..Len(versions') : versions'[i] = versions[i + 1]
    BY <1>1, <2>1, HeadTailProperties
  <2>3. versions' # <<>> /\ DOMAIN versions' = 1..Len(versions')
    <3>1. Len(versions') >= 1
      BY <1>1, <2>1, <2>2
    <3> QED
      BY <2>2, <3>1, EmptySeq, LenProperties
  <2>4. \A n \in DOMAIN versions' : n + 1 \in DOMAIN versions /\ versions'[n] = versions[n + 1]
    BY <1>1, <2>2, <2>3
  <2>5. \A n \in DOMAIN versions' : \E m \in DOMAIN versions : versions'[n] = versions[m]
    BY <2>4
  <2> QED
    BY <1>1, <2>1, <2>2, <2>3, <2>5, FallBackKeepsInv
<1>4. CASE Reopen
  <2>1. versions' = versions /\ config' \in Configs /\ UNCHANGED <<mapped, torn, saved>>
    BY <1>4 DEF Reopen
  <2> QED
    BY <1>1, <2>1, FallBackKeepsInv
<1>5. CASE Crash
  <2>1. PICK n \in DOMAIN versions : versions' = <<versions[n]>>
    BY <1>5 DEF Crash
  <2>2. versions[n] \in Contents
    BY <1>1, ElementOfSeq
  <2>3. /\ versions' \in Seq(Contents) /\ versions' # <<>>
        /\ DOMAIN versions' = {1} /\ versions'[1] = versions[n]
    BY <2>1, <2>2
  <2>4. config' \in Configs /\ UNCHANGED <<mapped, torn, saved>>
    BY <1>5 DEF Crash
  <2> QED
    BY <1>1, <2>3, <2>4, FallBackKeepsInv
<1>6. CASE CrashMapped
  <2>1. PICK from \in [{"evts", "kels"} -> DOMAIN versions] :
          versions' =
            <<[c \in Cell |-> IF c[1] \in DOMAIN from THEN versions[from[c[1]]][c] ELSE Now[c]]>>
    BY <1>6 DEF CrashMapped
  <2> DEFINE next == [c \in Cell |-> IF c[1] \in DOMAIN from THEN versions[from[c[1]]][c] ELSE Now[c]]
  <2>2. \A c \in Cell : \E contents \in Contents : next[c] = contents[c]
    <3>1. Now \in Contents /\ \A n \in DOMAIN versions : versions[n] \in Contents
      BY <1>1, NowIsVersion, ElementOfSeq
    <3>2. \A t \in DOMAIN from : from[t] \in DOMAIN versions
      OBVIOUS
    <3> QED
      BY <3>1, <3>2
  <2>3. DOMAIN next = Cell /\ next = [c \in Cell |-> next[c]]
    OBVIOUS
  <2> HIDE DEF next
  <2>4. \A table \in {"kels", "fels"}, k \in Places : <<table, k>> \in Cell
    BY DEF Cell, ByPlace
  <2>5. next \in Contents
    <3>1. next \in [Cell -> Value \cup {Absent}]
      BY <2>2, <2>3 DEF Contents
    <3>2. \A table \in {"kels", "fels"}, k \in Places : next[<<table, k>>] \in Said \cup {Absent}
      BY <2>2, <2>4 DEF Contents
    <3> QED
      BY <3>1, <3>2 DEF Contents
  <2>6. versions' = <<next>> /\ torn' = TRUE /\ mapped' = FALSE /\ config' \in Configs /\ saved' = saved
    BY <1>6, <2>1 DEF CrashMapped, next
  <2>7. versions' \in Seq(Contents) /\ versions' # <<>>
    BY <2>5, <2>6
  <2> QED
    BY <2>6, <2>7 DEF StoreInv, TypeOK
<1> QED
  BY <1>2, <1>3, <1>4, <1>5, <1>6

\* Every version a crash may fall back to is consistent, as long as none tore
\* a transaction.
THEOREM StoreConsistent == Spec => []StoreInv
<1>1. ASSUME StoreInv, [Next]_vars
      PROVE  StoreInv'
  <2>1. CASE \E e \in Calls : Extend(e) \/ \E name \in Name : Incept(e, name)
    BY <1>1, <2>1, StoreStepKeepsInv
  <2>2. CASE PutOther
    BY <1>1, <2>2, PutStepKeepsInv
  <2>3. CASE \E p \in Prefix : Save(p)
    BY <1>1, <2>3, SaveKeepsInv
  <2>4. CASE Sync \/ Settle \/ Reopen \/ Crash \/ CrashMapped
    BY <1>1, <2>4, EnvironmentKeepsInv
  <2>5. CASE UNCHANGED vars
    <3>1. StoreInv /\ versions' \in Seq(Contents) /\ versions' # <<>> /\ saved' = saved
          /\ config' \in Configs /\ mapped' \in BOOLEAN /\ torn' = torn /\ versions' = versions
      BY <1>1, <2>5 DEF vars, StoreInv, TypeOK
    <3> QED
      BY <3>1, FallBackKeepsInv
  <2> QED
    BY <1>1, <2>1, <2>2, <2>3, <2>4, <2>5 DEF Next
<1> QED
  BY <1>1, StoreInvInit, PTL DEF Spec

\* LogsReadable: the tables are well typed, and get_kel gives whole logs,
\* number by number, of that identifier's events, with a body under each SAID:
\* the event's, or that of another message that states the SAID.
THEOREM StoreLogsReadable == Spec => []LogsReadable
<1>1. ASSUME StoreInv PROVE LogsReadable
  <2>1. TypeOK
    BY <1>1 DEF StoreInv
  <2>2. ASSUME ~torn, NEW p \in Prefix, NEW n \in DOMAIN GetKel(Now, p)
        PROVE  LET kel == GetKel(Now, p)
               IN  /\ kel[n][1] = n - 1
                   /\ PlaceOf[kel[n][2]] = <<p, n - 1>>
                   /\ Now[<<"evts", kel[n][2]>>] \in Bodies(kel[n][2])
                   /\ Now[<<"fels", SnKey(p, n - 1)>>] = kel[n][2]
    <3> DEFINE d == Now[<<"kels", SnKey(p, n - 1)>>]
    <3>1. Consistent(Now, saved)
      BY <1>1, <2>1, <2>2, NowIsVersion DEF StoreInv
    <3>2. PICK h \in 0..(MaxSn + 1) : HeldBelow(Now, p, h)
      BY <3>1 DEF Consistent, WholeLogs
    <3>3. GetKel(Now, p) = [i \in 1..h |-> <<i - 1, Now[<<"kels", SnKey(p, i - 1)>>]>>]
      BY <3>2, GetKelOfLog
    <3>4. n \in 1..h /\ GetKel(Now, p)[n] = <<n - 1, d>>
      BY <2>2, <3>3
    <3>5. n - 1 \in SeqNo /\ n - 1 < h
      BY <3>4, BoundAssumption DEF SeqNo
    <3>6. d # Absent
      BY <3>2, <3>5 DEF HeldBelow
    <3>7. HeldAt(Now, p, n - 1, d)
      BY <3>1, <3>5, <3>6 DEF Consistent, WholeLogs
    <3> HIDE DEF d
    <3> QED
      BY <3>4, <3>7 DEF HeldAt
  <2> QED
    BY <2>1, <2>2 DEF LogsReadable
<1> QED
  BY <1>1, StoreConsistent, PTL

\* RecordIsLogged: a Hab never resumes from a record that is ahead of its log.
THEOREM StoreRecordIsLogged == Spec => []RecordIsLogged
<1>1. ASSUME StoreInv PROVE RecordIsLogged
  <2> SUFFICES ASSUME ~torn, NEW name \in Name, Now[<<"habs", name>>] # Absent
               PROVE  LET record == Now[<<"habs", name>>]
                      IN  GetKelSaid(Now, PlaceOf[record[2]][1], PlaceOf[record[2]][2]) = record[2]
    BY DEF RecordIsLogged
  <2>1. Consistent(Now, saved)
    BY <1>1, NowIsVersion DEF StoreInv
  <2>2. PICK d \in Said : Now[<<"habs", name>>] = RecordOf(d) /\ InLog(Now, d)
    BY <2>1 DEF Consistent, RecordsInLog
  <2> QED
    BY <2>2 DEF RecordOf, InLog, GetKelSaid
<1> QED
  BY <1>1, StoreConsistent, PTL

\* SavedIsLogged: what was saved after a sync outlives every crash.
THEOREM StoreSavedIsLogged == Spec => []SavedIsLogged
<1>1. ASSUME StoreInv PROVE SavedIsLogged
  <2>1. ~torn => Consistent(Now, saved)
    BY <1>1, NowIsVersion DEF StoreInv
  <2> QED
    BY <2>1 DEF SavedIsLogged, Consistent, SavedInLog, InLog, GetKelSaid
<1> QED
  BY <1>1, StoreConsistent, PTL

----------------------------------------------------------------------------
(* The promise of the trait.                                               *)

HistoryOf(vs) == [n \in DOMAIN vs |-> Tables(vs[n])]

\* The scan of get_kel finds at each number what is stored there.
LEMMA ScanIsPlaced ==
  ASSUME NEW contents, NEW p \in Prefix
  PROVE  ScannedKel(contents, p) = [s \in SeqNo |-> contents[<<"kels", SnKey(p, s)>>]]
<1> SUFFICES ASSUME NEW s \in SeqNo
             PROVE  ScannedKel(contents, p)[s] = contents[<<"kels", SnKey(p, s)>>]
  BY DEF ScannedKel
<1> DEFINE hits == {key \in KelEntries(contents, p) : SplitSn(key) = s}
<1>1. \A key \in hits : key = SnKey(p, s)
  BY EntriesFound, SplitSnOfKey
<1>2. SnKey(p, s) \in hits <=> contents[<<"kels", SnKey(p, s)>>] # Absent
  BY EntriesFound, SplitSnOfKey
<1>3. ScannedKel(contents, p)[s] =
        IF hits = {} THEN Absent ELSE contents[<<"kels", CHOOSE key \in hits : TRUE>>]
  BY DEF ScannedKel
<1> HIDE DEF hits
<1>4. CASE hits = {}
  BY <1>2, <1>3, <1>4
<1>5. CASE hits # {}
  <2>1. (CHOOSE key \in hits : TRUE) \in hits
    BY <1>5
  <2> QED
    BY <1>1, <1>3, <1>5, <2>1
<1> QED
  BY <1>4, <1>5

\* The record of the tables, by its fields
TablesOf(evts, dtss, sigs, wigs, rcts, kels, fels, ooes, pses, states, habs) ==
  [evts |-> evts, dtss |-> dtss, sigs |-> sigs, wigs |-> wigs, rcts |-> rcts,
   kels |-> kels, fels |-> fels, ooes |-> ooes, pses |-> pses, states |-> states, habs |-> habs]

StatesOf(contents) == [p \in Prefix |-> contents[<<"states", p>>]]
HabsOf(contents)   == [name \in Name |-> contents[<<"habs", name>>]]

\* The tables, each by its own keys.
LEMMA TablesAre ==
  ASSUME NEW contents
  PROVE  Tables(contents) =
           TablesOf(Keyed(contents, "evts"), Keyed(contents, "dtss"), Keyed(contents, "sigs"),
                    Keyed(contents, "wigs"), Keyed(contents, "rcts"),
                    Placed(contents, "kels"), Placed(contents, "fels"),
                    Placed(contents, "ooes"), Placed(contents, "pses"),
                    StatesOf(contents), HabsOf(contents))
<1>1. [p \in Prefix |-> ScannedKel(contents, p)] = Placed(contents, "kels")
  BY ScanIsPlaced DEF Placed
<1> QED
  BY <1>1 DEF Tables, TablesOf, StatesOf, HabsOf

\* next differs from contents in one cell
OneCell(contents, cell, value, next) ==
  \A c \in Cell : next[c] = IF c = cell THEN value ELSE contents[c]

\* One cell of a table by SAID.
LEMMA KeyedPut ==
  ASSUME NEW contents, NEW table \in BySaid, NEW d \in Said, NEW value, NEW next,
         OneCell(contents, <<table, d>>, value, next)
  PROVE  /\ \A t \in BySaid :
              Keyed(next, t) = IF t = table THEN [Keyed(contents, t) EXCEPT ![d] = value]
                                            ELSE Keyed(contents, t)
         /\ \A t \in ByPlace : Placed(next, t) = Placed(contents, t)
<1>1. ASSUME NEW t \in BySaid
      PROVE  Keyed(next, t) = IF t = table THEN [Keyed(contents, t) EXCEPT ![d] = value]
                                           ELSE Keyed(contents, t)
  <2>1. \A x \in Said : <<t, x>> \in Cell
    BY <1>1 DEF Cell
  <2> QED
    BY <2>1 DEF Keyed, OneCell
<1>2. ASSUME NEW t \in ByPlace
      PROVE  Placed(next, t) = Placed(contents, t)
  <2>1. \A p \in Prefix, s \in SeqNo : <<t, SnKey(p, s)>> \in Cell /\ t # table
    BY <1>2 DEF Cell, Places, BySaid, ByPlace
  <2>2. \A p \in Prefix, s \in SeqNo : next[<<t, SnKey(p, s)>>] = contents[<<t, SnKey(p, s)>>]
    BY <2>1 DEF OneCell
  <2> QED
    BY <2>2 DEF Placed
<1> QED
  BY <1>1, <1>2

\* The tables by SAID are the same, those by place differ in one place of one
DifferAt(contents, next, table, p, s, value) ==
  /\ \A t \in BySaid : Keyed(next, t) = Keyed(contents, t)
  /\ \A t \in ByPlace :
       Placed(next, t) = IF t = table THEN [Placed(contents, t) EXCEPT ![p][s] = value]
                                      ELSE Placed(contents, t)

\* One cell of a table by place.
LEMMA PlacedPut ==
  ASSUME NEW contents, NEW table \in ByPlace, NEW p \in Prefix, NEW s \in SeqNo,
         NEW value, NEW next, OneCell(contents, <<table, SnKey(p, s)>>, value, next)
  PROVE  DifferAt(contents, next, table, p, s, value)
<1>1. ASSUME NEW t \in BySaid
      PROVE  Keyed(next, t) = Keyed(contents, t)
  <2>1. \A x \in Said : <<t, x>> \in Cell /\ t # table
    BY <1>1 DEF Cell, BySaid, ByPlace
  <2> QED
    BY <2>1 DEF Keyed, OneCell
<1>2. ASSUME NEW t \in ByPlace
      PROVE  Placed(next, t) = IF t = table THEN [Placed(contents, t) EXCEPT ![p][s] = value]
                                            ELSE Placed(contents, t)
  <2>1. \A q \in Prefix, n \in SeqNo : <<t, SnKey(q, n)>> \in Cell
    BY <1>2 DEF Cell, Places
  <2>2. \A q \in Prefix, n \in SeqNo :
          next[<<t, SnKey(q, n)>>] =
            IF t = table /\ q = p /\ n = s THEN value ELSE contents[<<t, SnKey(q, n)>>]
    <3> TAKE q \in Prefix, n \in SeqNo
    <3>1. <<t, SnKey(q, n)>> = <<table, SnKey(p, s)>> <=> t = table /\ q = p /\ n = s
      BY SnKeyInjective
    <3> QED
      BY <2>1, <3>1 DEF OneCell
  <2>3. CASE t # table
    BY <2>2, <2>3 DEF Placed
  <2>4. CASE t = table
    <3>1. \A q \in Prefix : q # p =>
            [n \in SeqNo |-> next[<<t, SnKey(q, n)>>]] = [n \in SeqNo |-> contents[<<t, SnKey(q, n)>>]]
      BY <2>2
    <3>2. [n \in SeqNo |-> next[<<t, SnKey(p, n)>>]] =
            [[n \in SeqNo |-> contents[<<t, SnKey(p, n)>>]] EXCEPT ![s] = value]
      BY <2>2, <2>4
    <3> QED
      BY <2>4, <3>1, <3>2 DEF Placed
  <2> QED
    BY <2>3, <2>4
<1> QED
  BY <1>1, <1>2 DEF DifferAt

\* A put of one cell, and what it is on the tables.
MappedPut(contents, put, value) ==
  Tables([contents EXCEPT ![CellOf(put.table, put.key)] = value]) =
    IF put.table \in {"kels", "fels", "ooes", "pses"}
    THEN [Tables(contents) EXCEPT ![put.table][put.key[1]][put.key[2]] = value]
    ELSE [Tables(contents) EXCEPT ![put.table][put.key] = value]

\* A put of one cell is the put of the trait.
LEMMA PutIsTraits ==
  ASSUME NEW contents \in Contents, NEW put \in Puts, NEW value \in Value \cup {Absent}
  PROVE  MappedPut(contents, put, value)
<1> DEFINE cell == CellOf(put.table, put.key)
           next == [contents EXCEPT ![cell] = value]
<1>1. next \in Contents /\ \A c \in Cell : next[c] = IF c = cell THEN value ELSE contents[c]
  <2>1. cell \in Cell /\ cell[1] \notin {"kels", "fels", "habs"}
    BY OtherPutCell
  <2> HIDE DEF cell
  <2>2. cell[1] \notin {"kels", "fels"}
    BY <2>1
  <2> QED
    BY <2>1, <2>2, PutCells
<1>2. \A t \in {"states"}, p \in Prefix : <<t, p>> \in Cell
  BY DEF Cell
<1>3. \A name \in Name : <<"habs", name>> \in Cell
  BY DEF Cell
<1> DEFINE T == Tables(contents)
           evts == Keyed(contents, "evts")
           dtss == Keyed(contents, "dtss")
           sigs == Keyed(contents, "sigs")
           wigs == Keyed(contents, "wigs")
           rcts == Keyed(contents, "rcts")
           kels == Placed(contents, "kels")
           fels == Placed(contents, "fels")
           ooes == Placed(contents, "ooes")
           pses == Placed(contents, "pses")
           states == StatesOf(contents)
           habs == HabsOf(contents)
<1>0. T = TablesOf(evts, dtss, sigs, wigs, rcts, kels, fels, ooes, pses, states, habs)
  BY TablesAre
<1> HIDE DEF next, cell, T
<1> SUFFICES Tables(next) =
               IF put.table \in {"kels", "fels", "ooes", "pses"}
               THEN [T EXCEPT ![put.table][put.key[1]][put.key[2]] = value]
               ELSE [T EXCEPT ![put.table][put.key] = value]
  BY Zenon DEF MappedPut, next, cell, T
<1>4. CASE put.table \in {"evts", "dtss", "wigs", "rcts"} /\ put.key \in Said
  <2>1. cell = <<put.table, put.key>>
    BY <1>4 DEF cell, CellOf, ByPlace
  <2>2. /\ \A t \in BySaid : Keyed(next, t) = IF t = put.table
                                             THEN [Keyed(contents, t) EXCEPT ![put.key] = value]
                                             ELSE Keyed(contents, t)
        /\ \A t \in ByPlace : Placed(next, t) = Placed(contents, t)
    <3>1. put.table \in BySaid /\ put.key \in Said
      BY <1>4 DEF BySaid
    <3>2. OneCell(contents, <<put.table, put.key>>, value, next)
      BY <1>1, <2>1 DEF OneCell
    <3> QED
      BY <3>1, <3>2, KeyedPut
  <2>3. StatesOf(next) = StatesOf(contents) /\ HabsOf(next) = HabsOf(contents)
    BY <1>1, <1>2, <1>3, <1>4, <2>1 DEF StatesOf, HabsOf
  <2>7. CASE put.table = "evts"
    <3>1. Tables(next) = TablesOf([evts EXCEPT ![put.key] = value], dtss, sigs, wigs, rcts, kels, fels, ooes, pses, states, habs)
      BY <2>2, <2>3, <2>7, TablesAre DEF BySaid, ByPlace
    <3> HIDE DEF evts, dtss, sigs, wigs, rcts, kels, fels, ooes, pses, states, habs
    <3>2. Tables(next) = [T EXCEPT !["evts"][put.key] = value]
      BY <1>0, <3>1 DEF TablesOf
    <3> QED
      BY <2>7, <3>2 DEF next, cell, T
  <2>4. CASE put.table = "dtss"
    <3>1. Tables(next) = TablesOf(evts, [dtss EXCEPT ![put.key] = value], sigs, wigs, rcts, kels, fels, ooes, pses, states, habs)
      BY <2>2, <2>3, <2>4, TablesAre DEF BySaid, ByPlace
    <3> HIDE DEF evts, dtss, sigs, wigs, rcts, kels, fels, ooes, pses, states, habs
    <3>2. Tables(next) = [T EXCEPT !["dtss"][put.key] = value]
      BY <1>0, <3>1 DEF TablesOf
    <3> QED
      BY <2>4, <3>2 DEF next, cell, T
  <2>5. CASE put.table = "wigs"
    <3>1. Tables(next) = TablesOf(evts, dtss, sigs, [wigs EXCEPT ![put.key] = value], rcts, kels, fels, ooes, pses, states, habs)
      BY <2>2, <2>3, <2>5, TablesAre DEF BySaid, ByPlace
    <3> HIDE DEF evts, dtss, sigs, wigs, rcts, kels, fels, ooes, pses, states, habs
    <3>2. Tables(next) = [T EXCEPT !["wigs"][put.key] = value]
      BY <1>0, <3>1 DEF TablesOf
    <3> QED
      BY <2>5, <3>2 DEF next, cell, T
  <2>6. CASE put.table = "rcts"
    <3>1. Tables(next) = TablesOf(evts, dtss, sigs, wigs, [rcts EXCEPT ![put.key] = value], kels, fels, ooes, pses, states, habs)
      BY <2>2, <2>3, <2>6, TablesAre DEF BySaid, ByPlace
    <3> HIDE DEF evts, dtss, sigs, wigs, rcts, kels, fels, ooes, pses, states, habs
    <3>2. Tables(next) = [T EXCEPT !["rcts"][put.key] = value]
      BY <1>0, <3>1 DEF TablesOf
    <3> QED
      BY <2>6, <3>2 DEF next, cell, T
  <2> QED
    BY <1>4, <2>4, <2>5, <2>6, <2>7
<1>5. CASE put.table \in {"ooes", "pses"} /\ put.key \in Prefix \X SeqNo
  <2>1. cell = <<put.table, SnKey(put.key[1], put.key[2])>>
    BY <1>5 DEF cell, CellOf, ByPlace
  <2>2. /\ \A t \in BySaid : Keyed(next, t) = Keyed(contents, t)
        /\ \A t \in ByPlace :
             Placed(next, t) = IF t = put.table
                               THEN [Placed(contents, t) EXCEPT ![put.key[1]][put.key[2]] = value]
                               ELSE Placed(contents, t)
    <3>1. put.table \in ByPlace /\ put.key[1] \in Prefix /\ put.key[2] \in SeqNo
      BY <1>5 DEF ByPlace
    <3>2. OneCell(contents, <<put.table, SnKey(put.key[1], put.key[2])>>, value, next)
      BY <1>1, <2>1 DEF OneCell
    <3> DEFINE q == put.key[1]
               n == put.key[2]
    <3>3. put.table \in ByPlace /\ q \in Prefix /\ n \in SeqNo /\ OneCell(contents, <<put.table, SnKey(q, n)>>, value, next)
      BY <3>1, <3>2
    <3> HIDE DEF q, n
    <3>4. DifferAt(contents, next, put.table, q, n, value)
      BY <3>3, PlacedPut
    <3> QED
      BY <3>4, Zenon DEF q, n, DifferAt
  <2>3. StatesOf(next) = StatesOf(contents) /\ HabsOf(next) = HabsOf(contents)
    BY <1>1, <1>2, <1>3, <1>5, <2>1 DEF StatesOf, HabsOf
  <2>4. CASE put.table = "ooes"
    <3>1. Tables(next) = TablesOf(evts, dtss, sigs, wigs, rcts, kels, fels, [ooes EXCEPT ![put.key[1]][put.key[2]] = value], pses, states, habs)
      BY <2>2, <2>3, <2>4, TablesAre DEF BySaid, ByPlace
    <3> HIDE DEF evts, dtss, sigs, wigs, rcts, kels, fels, ooes, pses, states, habs
    <3>2. Tables(next) = [T EXCEPT !["ooes"][put.key[1]][put.key[2]] = value]
      BY <1>0, <3>1 DEF TablesOf
    <3> QED
      BY <2>4, <3>2 DEF next, cell, T
  <2>5. CASE put.table = "pses"
    <3>1. Tables(next) = TablesOf(evts, dtss, sigs, wigs, rcts, kels, fels, ooes, [pses EXCEPT ![put.key[1]][put.key[2]] = value], states, habs)
      BY <2>2, <2>3, <2>5, TablesAre DEF BySaid, ByPlace
    <3> HIDE DEF evts, dtss, sigs, wigs, rcts, kels, fels, ooes, pses, states, habs
    <3>2. Tables(next) = [T EXCEPT !["pses"][put.key[1]][put.key[2]] = value]
      BY <1>0, <3>1 DEF TablesOf
    <3> QED
      BY <2>5, <3>2 DEF next, cell, T
  <2> QED
    BY <1>5, <2>4, <2>5
<1>6. CASE put.table = "states" /\ put.key \in Prefix
  <2>1. cell = <<"states", put.key>>
    BY <1>6 DEF cell, CellOf, ByPlace
  <2>2. StatesOf(next) = [StatesOf(contents) EXCEPT ![put.key] = value]
    BY <1>1, <1>2, <1>6, <2>1 DEF StatesOf
  <2>3. HabsOf(next) = HabsOf(contents)
    BY <1>1, <1>3, <2>1 DEF HabsOf
  <2>4. \A t \in BySaid : Keyed(next, t) = Keyed(contents, t)
    <3>1. \A t \in BySaid, x \in Said : <<t, x>> \in Cell /\ t # "states"
      BY DEF Cell, BySaid
    <3> QED
      BY <1>1, <2>1, <3>1 DEF Keyed
  <2>5. \A t \in ByPlace : Placed(next, t) = Placed(contents, t)
    <3>1. \A t \in ByPlace, p \in Prefix, s \in SeqNo : <<t, SnKey(p, s)>> \in Cell /\ t # "states"
      BY DEF Cell, ByPlace, Places
    <3>2. \A t \in ByPlace, p \in Prefix, s \in SeqNo :
            next[<<t, SnKey(p, s)>>] = contents[<<t, SnKey(p, s)>>]
      BY <1>1, <2>1, <3>1
    <3> QED
      BY <3>2 DEF Placed
  <2>6. Tables(next) = TablesOf(evts, dtss, sigs, wigs, rcts, kels, fels, ooes, pses, [states EXCEPT ![put.key] = value], habs)
    BY <2>2, <2>3, <2>4, <2>5, TablesAre DEF BySaid, ByPlace
  <2> HIDE DEF evts, dtss, sigs, wigs, rcts, kels, fels, ooes, pses, states, habs
  <2>7. Tables(next) = [T EXCEPT !["states"][put.key] = value]
    BY <1>0, <2>6 DEF TablesOf
  <2> QED
    BY <1>6, <2>7 DEF next, cell, T
<1> QED
  BY <1>4, <1>5, <1>6, PutsAssumption

\* store_event is that of the trait.
LEMMA EventIsTraits ==
  ASSUME NEW contents \in Contents, NEW e \in Calls
  PROVE  Tables(WithEvent(contents, e)) = Trait!WithEvent(Tables(contents), e)
<1> DEFINE next == WithEvent(contents, e)
           key  == SnKey(e.prefix, e.sn)
           Others == {c \in Cell : c \notin {<<"evts", e.said>>, <<"kels", key>>,
                                           <<"fels", key>>, <<"sigs", e.said>>}}
<1>1. /\ e.said \in Said /\ e.prefix \in Prefix /\ e.sn \in SeqNo
  BY CallFields
<1>2. /\ next[<<"evts", e.said>>] = e.event
      /\ next[<<"kels", key>>] = e.said /\ next[<<"fels", key>>] = e.said
      /\ next[<<"sigs", e.said>>] =
           IF e.sigs = Absent THEN contents[<<"sigs", e.said>>] ELSE e.sigs
      /\ \A c \in Others : next[c] = contents[c]
  BY WithEventCells
<1> HIDE DEF next
<1>3. \A t \in {"dtss", "wigs", "rcts"} : Keyed(next, t) = Keyed(contents, t)
  <2>1. \A t \in {"dtss", "wigs", "rcts"}, d \in Said : <<t, d>> \in Others
    BY DEF Cell, BySaid
  <2> QED
    BY <1>2, <2>1 DEF Keyed
<1>4. Keyed(next, "evts") = [Keyed(contents, "evts") EXCEPT ![e.said] = e.event]
  <2>1. \A d \in Said : d # e.said => <<"evts", d>> \in Others
    BY <1>1 DEF Cell, BySaid
  <2> QED
    BY <1>1, <1>2, <2>1 DEF Keyed
<1>5. Keyed(next, "sigs") =
        [Keyed(contents, "sigs") EXCEPT ![e.said] = IF e.sigs = Absent THEN @ ELSE e.sigs]
  <2>1. \A d \in Said : d # e.said => <<"sigs", d>> \in Others
    BY <1>1 DEF Cell, BySaid
  <2> QED
    BY <1>1, <1>2, <2>1 DEF Keyed
<1>6. \A t \in {"ooes", "pses"} : Placed(next, t) = Placed(contents, t)
  <2>1. \A t \in {"ooes", "pses"}, p \in Prefix, s \in SeqNo : <<t, SnKey(p, s)>> \in Others
    BY DEF Cell, ByPlace, Places
  <2>2. \A t \in {"ooes", "pses"}, p \in Prefix, s \in SeqNo :
          next[<<t, SnKey(p, s)>>] = contents[<<t, SnKey(p, s)>>]
    BY <1>2, <2>1
  <2> QED
    BY <2>2 DEF Placed
<1>7. \A t \in {"kels", "fels"} :
        Placed(next, t) = [Placed(contents, t) EXCEPT ![e.prefix][e.sn] = e.said]
  <2> TAKE t \in {"kels", "fels"}
  <2>1. \A p \in Prefix, s \in SeqNo : <<p, s>> # <<e.prefix, e.sn>> => <<t, SnKey(p, s)>> \in Others
    <3>1. \A p \in Prefix, s \in SeqNo : SnKey(p, s) = key => p = e.prefix /\ s = e.sn
      BY <1>1, SnKeyInjective
    <3>2. \A p \in Prefix, s \in SeqNo : <<t, SnKey(p, s)>> \in Cell
      BY CellsOfLogs, <1>1
    <3> HIDE DEF key
    <3> QED
      BY <3>1, <3>2
  <2>2. \A p \in Prefix, s \in SeqNo :
          next[<<t, SnKey(p, s)>>] =
            IF p = e.prefix /\ s = e.sn THEN e.said ELSE contents[<<t, SnKey(p, s)>>]
    BY <1>2, <2>1
  <2>3. \A p \in Prefix : p # e.prefix =>
          [s \in SeqNo |-> next[<<t, SnKey(p, s)>>]] = [s \in SeqNo |-> contents[<<t, SnKey(p, s)>>]]
    BY <2>2
  <2>4. [s \in SeqNo |-> next[<<t, SnKey(e.prefix, s)>>]] =
          [[s \in SeqNo |-> contents[<<t, SnKey(e.prefix, s)>>]] EXCEPT ![e.sn] = e.said]
    BY <1>1, <2>2
  <2> QED
    BY <1>1, <2>3, <2>4 DEF Placed
<1>8. StatesOf(next) = StatesOf(contents) /\ HabsOf(next) = HabsOf(contents)
  <2>1. /\ \A p \in Prefix : <<"states", p>> \in Others
        /\ \A name \in Name : <<"habs", name>> \in Others
    BY DEF Cell
  <2> QED
    BY <1>2, <2>1 DEF StatesOf, HabsOf
<1> DEFINE T == Tables(contents)
           evts == Keyed(contents, "evts")
           dtss == Keyed(contents, "dtss")
           sigs == Keyed(contents, "sigs")
           wigs == Keyed(contents, "wigs")
           rcts == Keyed(contents, "rcts")
           kels == Placed(contents, "kels")
           fels == Placed(contents, "fels")
           ooes == Placed(contents, "ooes")
           pses == Placed(contents, "pses")
           states == StatesOf(contents)
           habs == HabsOf(contents)
           evts2 == [evts EXCEPT ![e.said] = e.event]
           kels2 == [kels EXCEPT ![e.prefix][e.sn] = e.said]
           fels2 == [fels EXCEPT ![e.prefix][e.sn] = e.said]
           sigs2 == [sigs EXCEPT ![e.said] = IF e.sigs = Absent THEN @ ELSE e.sigs]
<1>9. T = TablesOf(evts, dtss, sigs, wigs, rcts, kels, fels, ooes, pses, states, habs)
  BY TablesAre
<1>10. Tables(next) = TablesOf(evts2, dtss, sigs2, wigs, rcts, kels2, fels2, ooes, pses, states, habs)
  BY <1>3, <1>4, <1>5, <1>6, <1>7, <1>8, TablesAre
<1> HIDE DEF T, evts, dtss, sigs, wigs, rcts, kels, fels, ooes, pses, states, habs
<1>11. Trait!WithEvent(T, e) =
         [[[[T EXCEPT !.evts[e.said] = e.event] EXCEPT !.kels[e.prefix][e.sn] = e.said]
            EXCEPT !.fels[e.prefix][e.sn] = e.said]
           EXCEPT !.sigs[e.said] = IF e.sigs = Absent THEN @ ELSE e.sigs]
  BY DEF Trait!WithEvent
<1>12. [T EXCEPT !.evts[e.said] = e.event] = TablesOf(evts2, dtss, sigs, wigs, rcts, kels, fels, ooes, pses, states, habs)
  BY <1>9 DEF TablesOf
<1> HIDE DEF evts2
<1>13. [TablesOf(evts2, dtss, sigs, wigs, rcts, kels, fels, ooes, pses, states, habs)
          EXCEPT !.kels[e.prefix][e.sn] = e.said] =
         TablesOf(evts2, dtss, sigs, wigs, rcts, kels2, fels, ooes, pses, states, habs)
  BY DEF TablesOf
<1> HIDE DEF kels2
<1>14. [TablesOf(evts2, dtss, sigs, wigs, rcts, kels2, fels, ooes, pses, states, habs)
          EXCEPT !.fels[e.prefix][e.sn] = e.said] =
         TablesOf(evts2, dtss, sigs, wigs, rcts, kels2, fels2, ooes, pses, states, habs)
  BY DEF TablesOf
<1> HIDE DEF fels2
<1>15. [TablesOf(evts2, dtss, sigs, wigs, rcts, kels2, fels2, ooes, pses, states, habs)
          EXCEPT !.sigs[e.said] = IF e.sigs = Absent THEN @ ELSE e.sigs] =
         TablesOf(evts2, dtss, sigs2, wigs, rcts, kels2, fels2, ooes, pses, states, habs)
  BY DEF TablesOf
<1> HIDE DEF sigs2
<1>16. Tables(next) = Trait!WithEvent(T, e)
  BY <1>10, <1>11, <1>12, <1>13, <1>14, <1>15
<1> QED
  BY <1>16, Zenon DEF T, next

\* The record of a Hab is one more cell.
LEMMA RecordIsTraits ==
  ASSUME NEW contents \in Contents, NEW name \in Name, NEW data \in Value
  PROVE  /\ WithHab(contents, name, data) \in Contents
         /\ Tables(WithHab(contents, name, data)) = [Tables(contents) EXCEPT !.habs[name] = data]
<1> DEFINE next == WithHab(contents, name, data)
<1>1. next \in Contents /\ \A c \in Cell : next[c] = IF c = <<"habs", name>> THEN data ELSE contents[c]
  <2>1. <<"habs", name>> \in Cell
    BY DEF Cell
  <2> QED
    BY <2>1, PutCells DEF WithHab
<1> HIDE DEF next
<1>2. \A t \in BySaid : Keyed(next, t) = Keyed(contents, t)
  <2>1. \A t \in BySaid, x \in Said : <<t, x>> \in Cell /\ t # "habs"
    BY DEF Cell, BySaid
  <2> QED
    BY <1>1, <2>1 DEF Keyed
<1>3. \A t \in ByPlace : Placed(next, t) = Placed(contents, t)
  <2>1. \A t \in ByPlace, p \in Prefix, s \in SeqNo : <<t, SnKey(p, s)>> \in Cell /\ t # "habs"
    BY DEF Cell, ByPlace, Places
  <2>2. \A t \in ByPlace, p \in Prefix, s \in SeqNo :
          next[<<t, SnKey(p, s)>>] = contents[<<t, SnKey(p, s)>>]
    BY <1>1, <2>1
  <2> QED
    BY <2>2 DEF Placed
<1>4. /\ StatesOf(next) = StatesOf(contents)
      /\ HabsOf(next) = [HabsOf(contents) EXCEPT ![name] = data]
  <2>1. \A p \in Prefix : <<"states", p>> \in Cell
    BY DEF Cell
  <2>2. \A n \in Name : <<"habs", n>> \in Cell
    BY DEF Cell
  <2> QED
    BY <1>1, <2>1, <2>2 DEF StatesOf, HabsOf
<1> DEFINE T == Tables(contents)
           evts == Keyed(contents, "evts")
           dtss == Keyed(contents, "dtss")
           sigs == Keyed(contents, "sigs")
           wigs == Keyed(contents, "wigs")
           rcts == Keyed(contents, "rcts")
           kels == Placed(contents, "kels")
           fels == Placed(contents, "fels")
           ooes == Placed(contents, "ooes")
           pses == Placed(contents, "pses")
           states == StatesOf(contents)
           habs == HabsOf(contents)
<1>5. T = TablesOf(evts, dtss, sigs, wigs, rcts, kels, fels, ooes, pses, states, habs)
  BY TablesAre
<1>6. Tables(next) = TablesOf(evts, dtss, sigs, wigs, rcts, kels, fels, ooes, pses, states, [habs EXCEPT ![name] = data])
  BY <1>2, <1>3, <1>4, TablesAre DEF BySaid, ByPlace
<1> HIDE DEF T, evts, dtss, sigs, wigs, rcts, kels, fels, ooes, pses, states, habs
<1>7. Tables(next) = [T EXCEPT !.habs[name] = data]
  BY <1>5, <1>6 DEF TablesOf
<1> QED
  BY <1>1, <1>7 DEF next, T

\* The versions of the tables are the history of the trait.
LEMMA HistoryFields ==
  ASSUME NEW vs \in Seq(Contents)
  PROVE  /\ HistoryOf(vs) \in Seq({Tables(c) : c \in Contents})
         /\ Len(HistoryOf(vs)) = Len(vs)
         /\ DOMAIN HistoryOf(vs) = 1..Len(vs)
         /\ \A n \in 1..Len(vs) : HistoryOf(vs)[n] = Tables(vs[n])
<1> DEFINE T == {Tables(c) : c \in Contents}
<1>1. Len(vs) \in Nat /\ DOMAIN vs = 1..Len(vs) /\ \A n \in 1..Len(vs) : vs[n] \in Contents
  BY LenProperties, ElementOfSeq
<1>2. \A n \in 1..Len(vs) : Tables(vs[n]) \in T
  BY <1>1
<1>3. HistoryOf(vs) = [n \in 1..Len(vs) |-> Tables(vs[n])]
  BY <1>1 DEF HistoryOf
<1> HIDE DEF T
<1>4. HistoryOf(vs) \in [1..Len(vs) -> T]
  BY <1>2, <1>3
<1>5. HistoryOf(vs) \in Seq(T)
  BY <1>1, <1>4, SeqDef
<1>6. Len(HistoryOf(vs)) = Len(vs)
  BY <1>1, <1>4, <1>5, LenProperties
<1> QED
  BY <1>3, <1>5, <1>6 DEF T

\* One version more, one version only, the newest version.
LEMMA HistoryOfCommit ==
  ASSUME NEW vs \in Seq(Contents), NEW next \in Contents
  PROVE  /\ HistoryOf(<<next>>) = <<Tables(next)>>
         /\ HistoryOf(Append(vs, next)) = Append(HistoryOf(vs), Tables(next))
         /\ vs # <<>> => Last(HistoryOf(vs)) = Tables(Last(vs))
<1> DEFINE T == {Tables(c) : c \in Contents}
           longer == Append(vs, next)
<1>1. /\ HistoryOf(vs) \in Seq(T) /\ Len(HistoryOf(vs)) = Len(vs)
      /\ \A n \in 1..Len(vs) : HistoryOf(vs)[n] = Tables(vs[n])
      /\ Len(vs) \in Nat
  BY HistoryFields, LenProperties
<1>2. Tables(next) \in T
  OBVIOUS
<1>3. /\ longer \in Seq(Contents) /\ Len(longer) = Len(vs) + 1
      /\ \A n \in 1..Len(vs) : longer[n] = vs[n]
      /\ longer[Len(vs) + 1] = next
  BY AppendProperties
<1>4. /\ HistoryOf(longer) \in Seq(T) /\ Len(HistoryOf(longer)) = Len(longer)
      /\ \A n \in 1..Len(longer) : HistoryOf(longer)[n] = Tables(longer[n])
  BY <1>3, HistoryFields
<1> HIDE DEF T, longer
<1>5. /\ Append(HistoryOf(vs), Tables(next)) \in Seq(T)
      /\ Len(Append(HistoryOf(vs), Tables(next))) = Len(vs) + 1
      /\ \A n \in 1..Len(vs) : Append(HistoryOf(vs), Tables(next))[n] = HistoryOf(vs)[n]
      /\ Append(HistoryOf(vs), Tables(next))[Len(vs) + 1] = Tables(next)
  BY <1>1, <1>2, AppendProperties
<1>6. \A n \in 1..(Len(vs) + 1) : HistoryOf(longer)[n] = Append(HistoryOf(vs), Tables(next))[n]
  <2> TAKE n \in 1..(Len(vs) + 1)
  <2>1. CASE n \in 1..Len(vs)
    BY <1>1, <1>3, <1>4, <1>5, <2>1
  <2>2. CASE n = Len(vs) + 1
    BY <1>1, <1>3, <1>4, <1>5, <2>2
  <2> QED
    BY <1>1, <2>1, <2>2
<1>7. HistoryOf(longer) = Append(HistoryOf(vs), Tables(next))
  BY <1>3, <1>4, <1>5, <1>6, SeqEqual
<1>8. HistoryOf(<<next>>) = <<Tables(next)>>
  BY DEF HistoryOf
<1>9. vs # <<>> => Last(HistoryOf(vs)) = Tables(Last(vs))
  BY <1>1, EmptySeq DEF Last
<1> QED
  BY <1>7, <1>8, <1>9 DEF longer

\* The oldest version gone.
LEMMA HistoryOfTail ==
  ASSUME NEW vs \in Seq(Contents), Len(vs) > 1
  PROVE  HistoryOf(Tail(vs)) = Tail(HistoryOf(vs))
<1> DEFINE T == {Tables(c) : c \in Contents}
<1>1. vs # <<>> /\ Len(vs) \in Nat
  BY LenProperties, EmptySeq
<1>2. /\ Tail(vs) \in Seq(Contents) /\ Len(Tail(vs)) = Len(vs) - 1
      /\ \A i \in 1..Len(Tail(vs)) : Tail(vs)[i] = vs[i + 1]
  BY <1>1, HeadTailProperties
<1>3. /\ HistoryOf(vs) \in Seq(T) /\ Len(HistoryOf(vs)) = Len(vs)
      /\ \A n \in 1..Len(vs) : HistoryOf(vs)[n] = Tables(vs[n])
  BY HistoryFields
<1>4. /\ HistoryOf(Tail(vs)) \in Seq(T) /\ Len(HistoryOf(Tail(vs))) = Len(vs) - 1
      /\ \A n \in 1..(Len(vs) - 1) : HistoryOf(Tail(vs))[n] = Tables(Tail(vs)[n])
  BY <1>2, HistoryFields
<1> HIDE DEF T
<1>5. HistoryOf(vs) # <<>>
  BY <1>1, <1>3, EmptySeq
<1>6. /\ Tail(HistoryOf(vs)) \in Seq(T) /\ Len(Tail(HistoryOf(vs))) = Len(vs) - 1
      /\ \A i \in 1..(Len(vs) - 1) : Tail(HistoryOf(vs))[i] = HistoryOf(vs)[i + 1]
  BY <1>3, <1>5, HeadTailProperties
<1>7. \A i \in 1..(Len(vs) - 1) : HistoryOf(Tail(vs))[i] = Tail(HistoryOf(vs))[i]
  BY <1>1, <1>2, <1>3, <1>4, <1>6
<1> QED
  BY <1>4, <1>6, <1>7, SeqEqual

\* The state of the trait that a state of the store maps to.
LEMMA MappedState ==
  ASSUME TypeOK
  PROVE  /\ versions \in Seq(Contents) /\ versions # <<>>
         /\ Trait!Now = Tables(Now)
<1>1. versions \in Seq(Contents) /\ versions # <<>>
  BY DEF TypeOK
<1>2. Last(HistoryOf(versions)) = Tables(Last(versions))
  <2>1. \E next : next \in Contents
    BY NowIsVersion
  <2> QED
    BY <1>1, <2>1, HistoryOfCommit
<1> QED
  BY <1>1, <1>2 DEF Trait!Now, Trait!Last, Last, HistoryOf, Now

\* A commit is one transaction: the history grows by the new tables, or they
\* are all that is left when the commit is on disk.
LEMMA CommitBecomes ==
  ASSUME TypeOK, NEW next \in Contents, Commit(next)
  PROVE  Trait!Becomes(Tables(next))
<1>1. versions \in Seq(Contents)
  BY DEF TypeOK
<1>2. versions' = <<next>> \/ versions' = Append(versions, next)
  BY DEF Commit
<1>3. HistoryOf(versions') \in {<<Tables(next)>>, Append(HistoryOf(versions), Tables(next))}
  BY <1>1, <1>2, HistoryOfCommit
<1> QED
  BY <1>3 DEF Trait!Becomes, HistoryOf

\* The empty store is the empty store of the trait.
LEMMA InitIsTraits == Init => Trait!Init
<1> SUFFICES ASSUME Init PROVE Trait!Init
  OBVIOUS
<1> DEFINE empty == [c \in Cell |-> Absent]
<1>1. empty \in Contents /\ versions = <<empty>> /\ torn = FALSE
  <2>1. \A table \in {"kels", "fels"}, k \in Places : empty[<<table, k>>] = Absent
    BY DEF Cell, ByPlace
  <2> QED
    BY <2>1 DEF Init, Contents
<1>2. /\ \A t \in BySaid, d \in Said : empty[<<t, d>>] = Absent
      /\ \A t \in ByPlace, p \in Prefix, s \in SeqNo : empty[<<t, SnKey(p, s)>>] = Absent
      /\ \A p \in Prefix : empty[<<"states", p>>] = Absent
      /\ \A name \in Name : empty[<<"habs", name>>] = Absent
  BY DEF Cell, Places
<1> HIDE DEF empty
<1>3. \A t \in BySaid : Keyed(empty, t) = Trait!Nothing(Said)
  BY <1>2 DEF Keyed, Trait!Nothing
<1>4. \A t \in ByPlace : Placed(empty, t) = Trait!Unplaced
  BY <1>2 DEF Placed, Trait!Unplaced, Trait!Nothing
<1>5. StatesOf(empty) = Trait!Nothing(Prefix) /\ HabsOf(empty) = Trait!Nothing(Name)
  BY <1>2 DEF StatesOf, HabsOf, Trait!Nothing
<1>6. Tables(empty) = Trait!Empty
  BY <1>1, <1>3, <1>4, <1>5, TablesAre DEF BySaid, ByPlace, TablesOf, Trait!Empty
<1>7. HistoryOf(versions) = <<Trait!Empty>>
  BY <1>1, <1>6 DEF HistoryOf
<1> QED
  BY <1>1, <1>7 DEF Trait!Init, HistoryOf

\* A call of store_event, with or without the record of a Hab, is that
\* transaction of the trait.
LEMMA StoreIsTraits ==
  ASSUME TypeOK, NEW e \in Calls,
         Extend(e) \/ \E name \in Name : Incept(e, name)
  PROVE  Trait!Transaction /\ torn' = torn
<1>1. Now \in Contents /\ Trait!Now = Tables(Now)
  BY NowIsVersion, MappedState
<1>2. WithEvent(Now, e) \in Contents
  BY <1>1, WithEventCells
<1>3. Tables(WithEvent(Now, e)) = Trait!WithEvent(Trait!Now, e)
  BY <1>1, EventIsTraits
<1>4. CASE Extend(e)
  <2>1. Commit(WithEvent(Now, e))
    BY <1>4 DEF Extend, StoreEvent
  <2>2. Trait!Becomes(Tables(WithEvent(Now, e)))
    BY <1>2, <2>1, CommitBecomes
  <2>3. Trait!StoreEvent(e)
    BY <1>3, <2>2 DEF Trait!StoreEvent
  <2> QED
    BY <2>1, <2>3 DEF Trait!Transaction, Commit
<1>5. ASSUME NEW name \in Name, Incept(e, name)
      PROVE  Trait!Transaction /\ torn' = torn
  <2> DEFINE data == RecordOf(e.said)
             next == WithHab(WithEvent(Now, e), name, data)
  <2>1. data \in Data /\ data \in Value
    <3>1. e.sn = 0 /\ e.said \in Said
      BY <1>5, CallFields DEF Incept
    <3> QED
      BY <3>1 DEF Data, RecordOf, Value, Blob
  <2>2. Commit(next)
    BY <1>5 DEF Incept, StoreEventWithHab
  <2> HIDE DEF data
  <2>3. /\ next \in Contents
        /\ Tables(next) = [Trait!WithEvent(Trait!Now, e) EXCEPT !.habs[name] = data]
    BY <1>2, <1>3, <2>1, RecordIsTraits
  <2> HIDE DEF next
  <2>4. Trait!Becomes(Tables(next))
    BY <2>2, <2>3, CommitBecomes
  <2>5. Trait!StoreEventWithHab(e, name, data)
    BY <2>3, <2>4 DEF Trait!StoreEventWithHab
  <2> QED
    BY <2>1, <2>2, <2>5 DEF Trait!Transaction, Commit
<1> QED
  BY <1>4, <1>5

\* A put or a deletion of one cell is that of the trait.
LEMMA PutStepIsTraits ==
  ASSUME TypeOK, PutOther
  PROVE  Trait!Transaction /\ torn' = torn
<1>1. Now \in Contents /\ Trait!Now = Tables(Now)
  BY NowIsVersion, MappedState
<1>2. PICK put \in Puts :
        \/ PutIn(CellOf(put.table, put.key), put.value)
        \/ put.table \in {"ooes", "pses"} /\ DeleteIn(CellOf(put.table, put.key))
  BY DEF PutOther
<1>3. PICK value : /\ PutIn(CellOf(put.table, put.key), value)
                   /\ value = put.value \/ (put.table \in {"ooes", "pses"} /\ value = Absent)
  BY <1>2 DEF DeleteIn
<1>4. value \in Value \cup {Absent}
  BY <1>3, PutsAssumption
<1> DEFINE next == [Now EXCEPT ![CellOf(put.table, put.key)] = value]
<1>5. Commit(next)
  BY <1>3 DEF PutIn
<1>6. next \in Contents
  <2>1. CellOf(put.table, put.key) \in Cell
        /\ CellOf(put.table, put.key)[1] \notin {"kels", "fels"}
    BY OtherPutCell
  <2> QED
    BY <1>1, <1>4, <2>1, PutCells
<1>7. Tables(next) =
        IF put.table \in {"kels", "fels", "ooes", "pses"}
        THEN [Trait!Now EXCEPT ![put.table][put.key[1]][put.key[2]] = value]
        ELSE [Trait!Now EXCEPT ![put.table][put.key] = value]
  <2>1. MappedPut(Now, put, value)
    BY <1>1, <1>4, PutIsTraits
  <2> QED
    BY <1>1, <2>1 DEF MappedPut
<1> HIDE DEF next
<1>8. Trait!Becomes(Tables(next))
  BY <1>5, <1>6, CommitBecomes
<1>9. Trait!PutIn(put.table, put.key, value)
  BY <1>7, <1>8 DEF Trait!PutIn, Trait!PlaceTables
<1>10. torn' = torn
  BY <1>5 DEF Commit
<1>11. \/ Trait!PutIn(put.table, put.key, put.value)
       \/ put.table \in {"ooes", "pses", "habs"} /\ Trait!DeleteIn(put.table, put.key)
  BY <1>3, <1>9 DEF Trait!DeleteIn
<1> QED
  BY <1>10, <1>11 DEF Trait!Transaction

\* A sync, the operating system's writing, a crash: what is left of the
\* history is what the trait allows.
LEMMA EnvironmentIsTraits ==
  ASSUME TypeOK
  PROVE  /\ versions' = <<Now>> => Trait!Sync
         /\ Settle => Trait!Settle
         /\ Crash => Trait!Rollback
<1>1. /\ versions \in Seq(Contents) /\ versions # <<>>
      /\ Now \in Contents /\ Trait!Now = Tables(Now)
  BY NowIsVersion, MappedState
<1>2. /\ Len(HistoryOf(versions)) = Len(versions)
      /\ DOMAIN HistoryOf(versions) = 1..Len(versions)
      /\ \A n \in 1..Len(versions) : HistoryOf(versions)[n] = Tables(versions[n])
      /\ DOMAIN versions = 1..Len(versions)
  BY <1>1, HistoryFields, LenProperties
<1>3. ASSUME versions' = <<Now>> PROVE Trait!Sync
  <2>1. HistoryOf(versions') = <<Trait!Now>>
    BY <1>1, <1>3, HistoryOfCommit
  <2> QED
    BY <2>1 DEF Trait!Sync, HistoryOf
<1>4. ASSUME Settle PROVE Trait!Settle
  <2>1. Len(versions) > 1 /\ versions' = Tail(versions)
    BY <1>4 DEF Settle
  <2>2. HistoryOf(versions') = Tail(HistoryOf(versions)) /\ Len(HistoryOf(versions)) > 1
    BY <1>1, <1>2, <2>1, HistoryOfTail
  <2> QED
    BY <2>2 DEF Trait!Settle, HistoryOf
<1>5. ASSUME Crash PROVE Trait!Rollback
  <2>1. PICK n \in DOMAIN versions : versions' = <<versions[n]>>
    BY <1>5 DEF Crash
  <2>2. versions[n] \in Contents
    BY <1>1, <1>2, ElementOfSeq
  <2>3. HistoryOf(versions') = <<HistoryOf(versions)[n]>>
    BY <1>1, <1>2, <2>1, <2>2, HistoryOfCommit
  <2>4. \E m \in DOMAIN HistoryOf(versions) : HistoryOf(versions') = <<HistoryOf(versions)[m]>>
    BY <1>2, <2>3
  <2> QED
    BY <2>4 DEF Trait!Rollback, HistoryOf
<1> QED
  BY <1>3, <1>4, <1>5

\* Every step of the store is a step of the trait or one it does not see.
LEMMA StepIsTraits ==
  ASSUME TypeOK, torn \in BOOLEAN, torn' \in BOOLEAN, Next
  PROVE  Trait!Next \/ UNCHANGED Trait!vars
<1>1. ASSUME NEW e \in Calls, Extend(e) \/ \E name \in Name : Incept(e, name)
      PROVE  Trait!Transaction /\ torn' = torn
  BY <1>1, StoreIsTraits
<1>2. CASE PutOther
  BY <1>2, PutStepIsTraits DEF Trait!Next
<1>3. ASSUME NEW p \in Prefix, Save(p)
      PROVE  Trait!Sync /\ torn' = torn
  BY <1>3, EnvironmentIsTraits DEF Save, Forced
<1>4. CASE Sync
  BY <1>4, EnvironmentIsTraits DEF Sync, Forced, Trait!Next
<1>5. CASE Settle
  <2>1. torn' = torn
    BY <1>5 DEF Settle
  <2> QED
    BY <1>5, <2>1, EnvironmentIsTraits DEF Trait!Next
<1>6. CASE Reopen
  BY <1>6 DEF Reopen, Trait!vars
<1>7. CASE Crash
  <2>1. torn' = torn
    BY <1>7 DEF Crash
  <2> QED
    BY <1>7, <2>1, EnvironmentIsTraits DEF Trait!Next
<1>8. CASE CrashMapped
  BY <1>8 DEF CrashMapped, Trait!Next
<1>9. CASE \E e \in Calls : Extend(e) \/ \E name \in Name : Incept(e, name)
  BY <1>1, <1>9 DEF Trait!Next
<1>10. CASE \E p \in Prefix : Save(p)
  BY <1>3, <1>10 DEF Trait!Next
<1> QED
  BY <1>2, <1>4, <1>5, <1>6, <1>7, <1>8, <1>9, <1>10 DEF Next

\* The store on LMDB implements the trait KeriStore, the reads of get_kel
\* included, as long as no crash tore a transaction: whole transactions, lost
\* only from the end, and never one that was on disk.
THEOREM StoreKeepsPromise == Spec => KeepsPromise
<1>1. Init => Trait!Init
  BY InitIsTraits
<1>2. TypeOK /\ TypeOK' /\ [Next]_vars => [Trait!Next]_(Trait!vars)
  <2> SUFFICES ASSUME TypeOK, TypeOK', [Next]_vars
               PROVE  [Trait!Next]_(Trait!vars)
    OBVIOUS
  <2>1. CASE Next
    <3>1. torn \in BOOLEAN /\ torn' \in BOOLEAN
      BY DEF TypeOK
    <3> QED
      BY <2>1, <3>1, StepIsTraits
  <2>2. CASE UNCHANGED vars
    BY <2>2 DEF vars, Trait!vars
  <2> QED
    BY <2>1, <2>2
<1>3. StoreInv => TypeOK
  BY DEF StoreInv
<1> QED
  BY <1>1, <1>2, <1>3, StoreConsistent, PTL DEF Spec, KeepsPromise, Trait!Spec

=============================================================================
