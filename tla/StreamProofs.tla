---------------------------- MODULE StreamProofs ----------------------------
(***************************************************************************)
(* Theorems about Stream: a stream that is accepted has been read whole,   *)
(* what is composed is parsed as it was meant, and a lenient parse without *)
(* uninterpreted attachments is the strict one.                            *)
(*                                                                         *)
(* Each is a fact about what is parsed from one place on, shown for all    *)
(* places from the end of the stream backwards, for what a place calls for *)
(* is parsed further on.  Around it are laws of lists: flattening, and     *)
(* what stands at a place of a stream.                                     *)
(***************************************************************************)
EXTENDS Stream, TLAPS, SequenceTheorems, FiniteSetTheorems, WellFoundedInduction

\* A set of natural numbers that is not empty has a least element.
LEMMA LeastNumber ==
  ASSUME NEW S \in SUBSET Nat, S # {}
  PROVE  \E least \in S : \A n \in S : least <= n
<1>1. PICK least \in S : \A n \in S : <<n, least>> \notin OpToRel(<, Nat)
  BY WFMin, NatLessThanWellFounded, Zenon
<1>2. \A n \in S : ~(n < least)
  BY <1>1 DEF OpToRel
<1> QED
  BY <1>2

\* A set that holds 0 and with each number the next one up to N holds all.
LEMMA Turns ==
  ASSUME NEW N \in Nat, NEW S, 0 \in S, \A n \in 1..N : n - 1 \in S => n \in S
  PROVE  \A n \in 0..N : n \in S
<1> DEFINE Bad == {n \in 0..N : n \notin S}
<1> SUFFICES ASSUME Bad # {} PROVE FALSE
  OBVIOUS
<1>1. Bad \in SUBSET Nat
  OBVIOUS
<1>2. PICK n \in Bad : \A m \in Bad : n <= m
  BY <1>1, LeastNumber
<1>3. n \in 1..N /\ n - 1 \in 0..N /\ ~(n <= n - 1)
  BY <1>2
<1>4. n - 1 \in S
  BY <1>2, <1>3
<1> QED
  BY <1>2, <1>3, <1>4

\* A set that holds a place when it holds all places after it holds all.
LEMMA Backwards ==
  ASSUME NEW N \in Nat, NEW S,
         \A n \in 1..N : (\A m \in (n + 1)..N : m \in S) => n \in S
  PROVE  \A n \in 1..N : n \in S
<1> DEFINE Rest == {k \in 0..N : \A m \in (N + 1 - k)..N : m \in S}
<1>1. 0 \in Rest
  OBVIOUS
<1>2. ASSUME NEW k \in 1..N, k - 1 \in Rest
      PROVE  k \in Rest
  <2>1. N + 1 - k \in 1..N /\ N + 1 - (k - 1) = (N + 1 - k) + 1
    OBVIOUS
  <2>2. \A m \in ((N + 1 - k) + 1)..N : m \in S
    BY <1>2, <2>1
  <2>3. N + 1 - k \in S
    BY <2>1, <2>2
  <2>4. \A m \in (N + 1 - k)..N : m = N + 1 - k \/ m \in ((N + 1 - k) + 1)..N
    BY <2>1
  <2> QED
    BY <2>2, <2>3, <2>4
<1>3. N \in Rest
  <2> HIDE DEF Rest
  <2> QED
    BY <1>1, <1>2, Turns
<1> QED
  BY <1>3

----------------------------------------------------------------------------
(* Flattening a list of lists.                                             *)

\* What a list of lists has been flattened to after each of its first n members
Flattens(T, seqs, n, f) ==
  /\ f \in [0..n -> Seq(T)]
  /\ f[0] = <<>>
  /\ \A i \in 1..n : f[i] = f[i - 1] \o seqs[i]

\* Any list of lists can be flattened, member by member.
LEMMA FlatteningExists ==
  ASSUME NEW T, NEW seqs \in Seq(Seq(T))
  PROVE  \E f : Flattens(T, seqs, Len(seqs), f)
<1> DEFINE N == Len(seqs)
           Able == {n \in 0..N : \E f : Flattens(T, seqs, n, f)}
<1>1. N \in Nat /\ \A n \in 1..N : seqs[n] \in Seq(T)
  BY LenProperties, ElementOfSeq
<1>2. 0 \in Able
  <2> DEFINE f == [i \in 0..0 |-> <<>>]
  <2>1. f \in [0..0 -> Seq(T)] /\ f[0] = <<>>
    BY EmptySeq
  <2> HIDE DEF f
  <2>2. Flattens(T, seqs, 0, f)
    BY <2>1 DEF Flattens
  <2> QED
    BY <1>1, <2>2
<1>3. ASSUME NEW n \in 1..N, n - 1 \in Able
      PROVE  n \in Able
  <2>1. PICK f : Flattens(T, seqs, n - 1, f)
    BY <1>3
  <2> DEFINE g == [i \in 0..n |-> IF i = n THEN f[n - 1] \o seqs[n] ELSE f[i]]
  <2>2. n \in Nat /\ n # 0 /\ n - 1 \in 0..(n - 1) /\ \A i \in 0..n : i = n \/ i \in 0..(n - 1)
    BY <1>1
  <2>3. f[n - 1] \o seqs[n] \in Seq(T)
    <3>1. f[n - 1] \in Seq(T) /\ seqs[n] \in Seq(T)
      BY <1>1, <2>1, <2>2 DEF Flattens
    <3> QED
      BY <3>1, ConcatProperties
  <2>4. g \in [0..n -> Seq(T)]
    BY <2>1, <2>2, <2>3 DEF Flattens
  <2>5. g[n] = f[n - 1] \o seqs[n] /\ \A i \in 0..(n - 1) : g[i] = f[i]
    <3>1. n \in 0..n /\ \A i \in 0..(n - 1) : i \in 0..n /\ i # n
      BY <2>2
    <3> QED
      BY <3>1
  <2> HIDE DEF g
  <2>6. \A i \in 1..n : g[i] = g[i - 1] \o seqs[i]
    <3> TAKE i \in 1..n
    <3>1. i - 1 \in 0..(n - 1) /\ g[i - 1] = f[i - 1]
      BY <2>2, <2>5
    <3>2. CASE i = n
      BY <2>5, <3>1, <3>2
    <3>3. CASE i # n
      <4>1. i \in 1..(n - 1) /\ i \in 0..(n - 1)
        BY <2>2, <3>3
      <4> QED
        BY <2>1, <2>5, <3>1, <4>1 DEF Flattens
    <3> QED
      BY <3>2, <3>3
  <2>7. g[0] = <<>>
    <3>1. 0 \in 0..(n - 1) /\ f[0] = <<>>
      BY <2>1, <2>2 DEF Flattens
    <3> QED
      BY <2>5, <3>1
  <2>8. Flattens(T, seqs, n, g)
    BY <2>4, <2>6, <2>7 DEF Flattens
  <2> QED
    BY <2>8
<1>4. \A n \in 0..N : n \in Able
  <2> HIDE DEF Able, N
  <2> QED
    BY <1>1, <1>2, <1>3, Turns
<1> QED
  BY <1>1, <1>4

\* FlattenSeq is what such a flattening ends with.
LEMMA FlattenIs ==
  ASSUME NEW T, NEW seqs \in Seq(Seq(T)), NEW f, Flattens(T, seqs, Len(seqs), f)
  PROVE  FlattenSeq(seqs) = f[Len(seqs)]
<1> DEFINE N == Len(seqs)
           At(h, i) == IF i = 1 THEN seqs[i] ELSE h[i - 1] \o seqs[i]
           Found == CHOOSE h : h = [i \in 1..N |-> At(h, i)]
           some == [i \in 1..N |-> f[i]]
<1>1. N \in Nat /\ \A n \in 1..N : seqs[n] \in Seq(T)
  BY LenProperties, ElementOfSeq
<1>2. f[0] = <<>> /\ (1 \in 1..N => f[1] = f[0] \o seqs[1])
  <2>1. \A i \in 1..N : f[i] = f[i - 1] \o seqs[i]
    BY DEF Flattens
  <2>2. 1 \in 1..N => f[1] = f[1 - 1] \o seqs[1]
    BY <2>1
  <2>3. 1 - 1 = 0
    OBVIOUS
  <2> QED
    BY <2>2, <2>3 DEF Flattens
<1>3. CASE N = 0
  <2>1. seqs = <<>>
    BY <1>3, EmptySeq
  <2> QED
    BY <1>3, <2>1 DEF FlattenSeq, Flattens
<1>4. CASE N # 0
  <2>1. FlattenSeq(seqs) = Found[N]
    BY <1>4 DEF FlattenSeq
  <2>2. some = [i \in 1..N |-> At(some, i)]
    <3>1. ASSUME NEW i \in 1..N
          PROVE  some[i] = At(some, i)
      <4>1. f[i] = f[i - 1] \o seqs[i] /\ seqs[i] \in Seq(T)
        BY <1>1 DEF Flattens
      <4>2. CASE i = 1
        <5>1. f[1] = f[0] \o seqs[1] /\ f[0] = <<>> /\ seqs[1] \in Seq(T)
          BY <1>2, <4>1, <4>2
        <5>2. f[1] = seqs[1]
          BY <5>1, ConcatEmptySeq
        <5> QED
          BY <4>2, <5>2
      <4>3. CASE i # 1
        <5>1. i - 1 \in 1..N
          BY <1>1, <4>3
        <5> QED
          BY <4>1, <4>3, <5>1
      <4> QED
        BY <4>2, <4>3
    <3> HIDE DEF At, N
    <3> QED
      BY <3>1
  <2>3. Found = [i \in 1..N |-> At(Found, i)]
    <3> HIDE DEF At, N, some
    <3> QED
      BY <2>2, Zenon
  <2> HIDE DEF Found
  <2>4. \A i \in 1..N : Found[i] = IF i = 1 THEN seqs[i] ELSE Found[i - 1] \o seqs[i]
    BY <2>3
  <2> DEFINE Same == {i \in 0..N : i = 0 \/ Found[i] = f[i]}
  <2>5. \A i \in 0..N : i \in Same
    <3>1. 0 \in Same
      BY <1>1
    <3>2. ASSUME NEW i \in 1..N, i - 1 \in Same
          PROVE  i \in Same
      <4>1. f[i] = f[i - 1] \o seqs[i] /\ seqs[i] \in Seq(T)
        BY <1>1 DEF Flattens
      <4>2. CASE i = 1
        <5>1. f[1] = f[0] \o seqs[1] /\ f[0] = <<>> /\ seqs[1] \in Seq(T)
          BY <1>2, <4>1, <4>2
        <5>2. f[1] = seqs[1]
          BY <5>1, ConcatEmptySeq
        <5> QED
          BY <2>4, <4>2, <5>2
      <4>3. CASE i # 1
        <5>1. Found[i - 1] = f[i - 1]
          <6>1. i - 1 # 0
            BY <4>3
          <6> QED
            BY <3>2, <6>1
        <5>2. Found[i] = Found[i - 1] \o seqs[i]
          BY <2>4, <4>3
        <5>3. Found[i] = f[i]
          BY <4>1, <5>1, <5>2
        <5> QED
          BY <5>3
      <4> QED
        BY <4>2, <4>3
    <3> HIDE DEF Same, N
    <3> QED
      BY <1>1, <3>1, <3>2, Turns
  <2> QED
    BY <1>1, <1>4, <2>1, <2>5
<1> QED
  BY <1>3, <1>4

\* A flattened list of lists is a list.
LEMMA FlattenType ==
  ASSUME NEW T, NEW seqs \in Seq(Seq(T))
  PROVE  FlattenSeq(seqs) \in Seq(T)
<1>1. PICK f : Flattens(T, seqs, Len(seqs), f)
  BY FlatteningExists
<1>2. Len(seqs) \in 0..Len(seqs)
  BY LenProperties
<1> QED
  BY <1>1, <1>2, FlattenIs DEF Flattens

\* Nothing is flattened to nothing, and one more member goes behind.
LEMMA FlattenAppend ==
  ASSUME NEW T
  PROVE  /\ FlattenSeq(<<>>) = <<>>
         /\ \A seqs \in Seq(Seq(T)), e \in Seq(T) :
              FlattenSeq(Append(seqs, e)) = FlattenSeq(seqs) \o e
<1>1. FlattenSeq(<<>>) = <<>>
  BY DEF FlattenSeq
<1>2. ASSUME NEW seqs \in Seq(Seq(T)), NEW e \in Seq(T)
      PROVE  FlattenSeq(Append(seqs, e)) = FlattenSeq(seqs) \o e
  <2> DEFINE more == Append(seqs, e)
             N == Len(seqs)
  <2>1. /\ more \in Seq(Seq(T)) /\ N \in Nat /\ Len(more) = N + 1
        /\ \A i \in 1..N : more[i] = seqs[i]
        /\ more[N + 1] = e
    BY AppendProperties, LenProperties
  <2> HIDE DEF more
  <2>2. PICK f : Flattens(T, more, N + 1, f)
    BY <2>1, FlatteningExists
  <2> DEFINE g == [i \in 0..N |-> f[i]]
  <2>3. Flattens(T, seqs, N, g)
    <3>1. g \in [0..N -> Seq(T)] /\ g[0] = <<>> /\ \A i \in 0..N : g[i] = f[i]
      BY <2>1, <2>2 DEF Flattens
    <3> HIDE DEF g
    <3>2. ASSUME NEW i \in 1..N
          PROVE  g[i] = g[i - 1] \o seqs[i]
      <4>1. i \in 1..(N + 1) /\ i \in 0..N /\ i - 1 \in 0..N
        BY <2>1
      <4> QED
        BY <2>1, <2>2, <3>1, <4>1 DEF Flattens
    <3> QED
      BY <3>1, <3>2 DEF Flattens
  <2>4. g[N] = f[N] /\ N + 1 \in 1..(N + 1)
    BY <2>1
  <2> HIDE DEF g
  <2>5. FlattenSeq(seqs) = f[N]
    BY <2>3, <2>4, FlattenIs
  <2>6. FlattenSeq(more) = f[N + 1]
    BY <2>1, <2>2, FlattenIs
  <2>7. f[N + 1] = f[N] \o more[N + 1]
    <3>1. f[N + 1] = f[(N + 1) - 1] \o more[N + 1]
      BY <2>2, <2>4 DEF Flattens
    <3>2. (N + 1) - 1 = N
      BY <2>1
    <3> QED
      BY <3>1, <3>2
  <2> QED
    BY <2>1, <2>5, <2>6, <2>7 DEF more
<1> QED
  BY <1>1, <1>2

\* Appending to the second of two lists is appending to both.
LEMMA ConcatAppend ==
  ASSUME NEW T, NEW a \in Seq(T), NEW b \in Seq(T), NEW e \in T
  PROVE  a \o Append(b, e) = Append(a \o b, e)
<1>1. <<e>> \in Seq(T) /\ a \o b \in Seq(T)
  BY ConcatProperties
<1>2. Append(b, e) = b \o <<e>> /\ Append(a \o b, e) = (a \o b) \o <<e>>
  BY <1>1, AppendIsConcat
<1> QED
  BY <1>1, <1>2, ConcatAssociative

\* With one list more behind, two lists of lists are still flattened one after
\* the other.
LEMMA FlattenConcatAppend ==
  ASSUME NEW T, NEW a \in Seq(Seq(T)), NEW b \in Seq(Seq(T)), NEW e \in Seq(T),
         FlattenSeq(a \o b) = FlattenSeq(a) \o FlattenSeq(b)
  PROVE  FlattenSeq(a \o Append(b, e)) = FlattenSeq(a) \o FlattenSeq(Append(b, e))
<1>1. a \o Append(b, e) = Append(a \o b, e) /\ a \o b \in Seq(Seq(T))
  BY ConcatAppend, ConcatProperties
<1>2. FlattenSeq(a \o Append(b, e)) = FlattenSeq(a \o b) \o e
  BY <1>1, FlattenAppend
<1>3. FlattenSeq(Append(b, e)) = FlattenSeq(b) \o e
  BY FlattenAppend
<1>4. FlattenSeq(a) \in Seq(T) /\ FlattenSeq(b) \in Seq(T)
  BY FlattenType
<1>5. (FlattenSeq(a) \o FlattenSeq(b)) \o e = FlattenSeq(a) \o (FlattenSeq(b) \o e)
  BY <1>4, ConcatAssociative
<1> QED
  BY <1>2, <1>3, <1>5

\* Two lists of lists one after the other are flattened one after the other.
LEMMA FlattenConcat ==
  ASSUME NEW T, NEW a \in Seq(Seq(T)), NEW b \in Seq(Seq(T))
  PROVE  FlattenSeq(a \o b) = FlattenSeq(a) \o FlattenSeq(b)
<1> DEFINE N == Len(b)
           Up(n) == SubSeq(b, 1, n)
           Good == {n \in 0..N : FlattenSeq(a \o Up(n)) = FlattenSeq(a) \o FlattenSeq(Up(n))}
<1>1. N \in Nat /\ \A n \in 1..N : b[n] \in Seq(T)
  BY LenProperties, ElementOfSeq
<1>2. \A n \in 0..N : Up(n) \in Seq(Seq(T))
  BY <1>1, SubSeqProperties
<1>3. 0 \in Good
  <2>1. Up(0) = <<>>
    BY SubSeqEmpty
  <2>2. a \o <<>> = a /\ FlattenSeq(a) \o <<>> = FlattenSeq(a)
    BY FlattenType, ConcatEmptySeq
  <2>3. FlattenSeq(a \o Up(0)) = FlattenSeq(a) \o FlattenSeq(Up(0))
    BY <2>1, <2>2, FlattenAppend
  <2> QED
    BY <1>1, <2>3
<1>4. ASSUME NEW n \in 1..N, n - 1 \in Good
      PROVE  n \in Good
  <2>1. Up(n - 1) \in Seq(Seq(T)) /\ b[n] \in Seq(T)
    BY <1>1, <1>2
  <2>2. Up(n) = Append(Up(n - 1), b[n])
    <3>1. n \in 1..Len(b) /\ 1 \in 1..Len(b) /\ n \in 1..Len(b)
      BY <1>1
    <3>2. Up(n) = Up(n - 1) \o <<b[n]>>
      BY <3>1, SubSeqRecursiveSecond
    <3> QED
      BY <2>1, <3>2, AppendIsConcat
  <2>3. FlattenSeq(a \o Up(n - 1)) = FlattenSeq(a) \o FlattenSeq(Up(n - 1))
    BY <1>4
  <2> HIDE DEF Up
  <2>4. FlattenSeq(a \o Up(n)) = FlattenSeq(a) \o FlattenSeq(Up(n))
    BY <2>1, <2>2, <2>3, FlattenConcatAppend, ZenonT(60)
  <2> QED
    BY <2>4
<1>5. \A n \in 0..N : n \in Good
  <2> HIDE DEF Good, N
  <2> QED
    BY <1>1, <1>3, <1>4, Turns
<1>6. Up(N) = b
  BY SubSeqFull
<1>7. FlattenSeq(a \o Up(N)) = FlattenSeq(a) \o FlattenSeq(Up(N))
  BY <1>1, <1>5
<1> HIDE DEF Up
<1> QED
  BY <1>6, <1>7

\* A list of one list is flattened to it.
LEMMA FlattenOne ==
  ASSUME NEW T, NEW a \in Seq(T)
  PROVE  FlattenSeq(<<a>>) = a
<1>1. <<>> \in Seq(Seq(T)) /\ <<>> \in Seq(T)
  BY EmptySeq
<1>2. FlattenSeq(Append(<<>>, a)) = <<>> \o a
  BY <1>1, FlattenAppend
<1>3. Append(<<>>, a) = <<a>>
  <2>1. Append(<<>>, a) = <<>> \o <<a>> /\ <<a>> \in Seq(Seq(T))
    BY <1>1, AppendIsConcat
  <2> QED
    BY <2>1, ConcatEmptySeq
<1> QED
  BY <1>2, <1>3, ConcatEmptySeq

\* What has the members of a list and then those of another is the two lists.
LEMMA JoinedByMember ==
  ASSUME NEW T, NEW a \in Seq(T), NEW b \in Seq(T), NEW c \in Seq(T),
         Len(c) = Len(a) + Len(b),
         \A i \in 1..Len(a) : c[i] = a[i],
         \A i \in 1..Len(b) : c[Len(a) + i] = b[i]
  PROVE  c = a \o b
<1>1. /\ a \o b \in Seq(T) /\ Len(a \o b) = Len(a) + Len(b) /\ Len(a) \in Nat /\ Len(b) \in Nat
      /\ \A i \in 1..(Len(a) + Len(b)) : (a \o b)[i] = IF i <= Len(a) THEN a[i] ELSE b[i - Len(a)]
  BY ConcatProperties, LenProperties
<1>2. \A i \in 1..(Len(a) + Len(b)) : c[i] = (a \o b)[i]
  <2> TAKE i \in 1..(Len(a) + Len(b))
  <2>1. CASE i <= Len(a)
    BY <1>1, <2>1
  <2>2. CASE ~(i <= Len(a))
    <3>1. i - Len(a) \in 1..Len(b) /\ Len(a) + (i - Len(a)) = i
      BY <1>1, <2>2
    <3>2. c[Len(a) + (i - Len(a))] = b[i - Len(a)]
      BY <3>1
    <3> QED
      BY <1>1, <2>2, <3>1, <3>2
  <2> QED
    BY <2>1, <2>2
<1> QED
  BY <1>1, <1>2, SeqEqual

\* Such a list of lists is flattened as the two are, one after the other.
LEMMA FlattenJoined ==
  ASSUME NEW T, NEW a \in Seq(Seq(T)), NEW b \in Seq(Seq(T)), NEW c \in Seq(Seq(T)),
         Len(c) = Len(a) + Len(b),
         \A i \in 1..Len(a) : c[i] = a[i],
         \A i \in 1..Len(b) : c[Len(a) + i] = b[i]
  PROVE  FlattenSeq(c) = FlattenSeq(a) \o FlattenSeq(b)
<1>1. c = a \o b
  BY JoinedByMember
<1> QED
  BY <1>1, FlattenConcat

\* What a function makes of the members of a list, one after the other
Gather(of, list) == FlattenSeq([j \in DOMAIN list |-> of[list[j]]])

\* What is gathered is a list, and that of two lists follows each other.
LEMMA GatherLaws ==
  ASSUME NEW S, NEW T, NEW of \in [S -> Seq(T)]
  PROVE  /\ Gather(of, <<>>) = <<>>
         /\ \A x \in S : Gather(of, <<x>>) = of[x]
         /\ \A a \in Seq(S) : Gather(of, a) \in Seq(T)
         /\ \A a, b \in Seq(S) : Gather(of, a \o b) = Gather(of, a) \o Gather(of, b)
<1> DEFINE map(list) == [j \in DOMAIN list |-> of[list[j]]]
<1>1. \A a \in Seq(S) : map(a) \in Seq(Seq(T)) /\ Len(map(a)) = Len(a)
                         /\ \A j \in 1..Len(a) : map(a)[j] = of[a[j]]
  <2> TAKE a \in Seq(S)
  <2>1. DOMAIN a = 1..Len(a) /\ Len(a) \in Nat /\ \A j \in 1..Len(a) : of[a[j]] \in Seq(T)
    BY LenProperties, ElementOfSeq
  <2> QED
    BY <2>1
<1>2. Gather(of, <<>>) = <<>>
  <2>1. map(<<>>) = <<>>
    OBVIOUS
  <2> QED
    BY <2>1, FlattenAppend DEF Gather
<1>3. ASSUME NEW x \in S
      PROVE  Gather(of, <<x>>) = of[x]
  <2>1. map(<<x>>) = <<of[x]>>
    OBVIOUS
  <2>2. of[x] \in Seq(T)
    OBVIOUS
  <2> QED
    BY <2>1, <2>2, FlattenOne DEF Gather
<1>4. ASSUME NEW a \in Seq(S)
      PROVE  Gather(of, a) \in Seq(T)
  BY <1>1, FlattenType DEF Gather
<1>5. ASSUME NEW a \in Seq(S), NEW b \in Seq(S)
      PROVE  Gather(of, a \o b) = Gather(of, a) \o Gather(of, b)
  <2>1. a \o b \in Seq(S) /\ Len(a \o b) = Len(a) + Len(b) /\ Len(a) \in Nat /\ Len(b) \in Nat
        /\ \A i \in 1..(Len(a) + Len(b)) : (a \o b)[i] = IF i <= Len(a) THEN a[i] ELSE b[i - Len(a)]
    BY ConcatProperties, LenProperties
  <2>2. /\ map(a) \in Seq(Seq(T)) /\ Len(map(a)) = Len(a)
        /\ \A j \in 1..Len(a) : map(a)[j] = of[a[j]]
    BY <1>1
  <2>3. /\ map(b) \in Seq(Seq(T)) /\ Len(map(b)) = Len(b)
        /\ \A j \in 1..Len(b) : map(b)[j] = of[b[j]]
    BY <1>1
  <2>4. /\ map(a \o b) \in Seq(Seq(T)) /\ Len(map(a \o b)) = Len(a) + Len(b)
        /\ \A j \in 1..(Len(a) + Len(b)) : map(a \o b)[j] = of[(a \o b)[j]]
    BY <1>1, <2>1
  <2> HIDE DEF map
  <2>5. \A i \in 1..Len(a) : map(a \o b)[i] = map(a)[i]
    BY <2>1, <2>2, <2>4
  <2>6. \A i \in 1..Len(b) : map(a \o b)[Len(a) + i] = map(b)[i]
    <3> TAKE i \in 1..Len(b)
    <3>1. Len(a) + i \in 1..(Len(a) + Len(b)) /\ ~(Len(a) + i <= Len(a)) /\ (Len(a) + i) - Len(a) = i
      BY <2>1
    <3> QED
      BY <2>1, <2>3, <2>4, <3>1, ZenonT(60)
  <2>7. Len(map(a \o b)) = Len(map(a)) + Len(map(b))
    BY <2>2, <2>3, <2>4
  <2>8. FlattenSeq(map(a \o b)) = FlattenSeq(map(a)) \o FlattenSeq(map(b))
    <3>1. /\ \A i \in 1..Len(map(a)) : map(a \o b)[i] = map(a)[i]
          /\ \A i \in 1..Len(map(b)) : map(a \o b)[Len(map(a)) + i] = map(b)[i]
      BY <2>2, <2>3, <2>5, <2>6
    <3>2. map(a) \in Seq(Seq(T)) /\ map(b) \in Seq(Seq(T)) /\ map(a \o b) \in Seq(Seq(T))
      BY <2>2, <2>3, <2>4
    <3> QED
      BY <2>7, <3>1, <3>2, FlattenJoined, ZenonT(60)
  <2> QED
    BY <2>8 DEF map, Gather
<1> QED
  BY <1>2, <1>3, <1>4, <1>5

\* A function that makes a list of T of each member of S
Makes(of, S, T) == of \in [S -> Seq(T)]

\* What is gathered from two lists follows each other
Joined(of, a, b) == Gather(of, a \o b) = Gather(of, a) \o Gather(of, b)

\* What is gathered grows by what is made of one more member, behind or in front
Grown(of, a, x) ==
  /\ Gather(of, a \o <<x>>) = Gather(of, a) \o of[x]
  /\ Gather(of, <<x>> \o a) = of[x] \o Gather(of, a)

\* The last law, for two lists.
LEMMA GatherConcat ==
  ASSUME NEW S, NEW T, NEW of, Makes(of, S, T), NEW a \in Seq(S), NEW b \in Seq(S)
  PROVE  Joined(of, a, b)
BY GatherLaws DEF Makes, Joined

\* What is gathered from a list with one more member.
LEMMA GatherOneMore ==
  ASSUME NEW S, NEW T, NEW of, Makes(of, S, T), NEW a \in Seq(S), NEW x \in S
  PROVE  Grown(of, a, x)
<1>1. <<x>> \in Seq(S)
  OBVIOUS
<1>2. Gather(of, <<x>>) = of[x]
  BY GatherLaws DEF Makes
<1>3. Joined(of, a, <<x>>) /\ Joined(of, <<x>>, a)
  BY <1>1, GatherConcat
<1> QED
  BY <1>2, <1>3 DEF Joined, Grown
\* A set of lists that holds the empty one and each that is one member longer
\* holds all.
LEMMA ListTurns ==
  ASSUME NEW S, NEW G, <<>> \in G,
         \A l \in Seq(S), x \in S : l \in G => l \o <<x>> \in G
  PROVE  \A l \in Seq(S) : l \in G
<1> TAKE l \in Seq(S)
<1> DEFINE N == Len(l)
           up(n) == SubSeq(l, 1, n)
           Good == {n \in 0..N : up(n) \in G}
<1>1. N \in Nat /\ \A n \in 1..N : l[n] \in S
  BY LenProperties, ElementOfSeq
<1>2. 0 \in Good
  <2>1. up(0) = <<>>
    BY SubSeqEmpty
  <2> HIDE DEF up
  <2> QED
    BY <1>1, <2>1
<1>3. ASSUME NEW n \in 1..N, n - 1 \in Good
      PROVE  n \in Good
  <2>1. SubSeq(l, 1, n - 1) \in Seq(S) /\ SubSeq(l, 1, n - 1) \in G
    BY <1>1, <1>3, SubSeqProperties
  <2>2. SubSeq(l, 1, n) = SubSeq(l, 1, n - 1) \o <<l[n]>>
    <3>1. n \in 1..Len(l) /\ 1 \in 1..Len(l)
      BY <1>1
    <3> QED
      BY <3>1, SubSeqRecursiveSecond
  <2>3. SubSeq(l, 1, n) \in G
    BY <1>1, <2>1, <2>2
  <2> QED
    BY <1>1, <2>3
<1>4. \A n \in 0..N : n \in Good
  <2> HIDE DEF Good, N
  <2> QED
    BY <1>1, <1>2, <1>3, Turns
<1>5. SubSeq(l, 1, N) \in G
  BY <1>1, <1>4 DEF up
<1> QED
  BY <1>5, SubSeqFull

\* A list that is not empty has a first member and the rest.
LEMMA FirstAndRest ==
  ASSUME NEW S, NEW l \in Seq(S), l # <<>>
  PROVE  /\ Len(l) \in Nat \ {0} /\ l[1] \in S
         /\ SubSeq(l, 2, Len(l)) \in Seq(S)
         /\ Len(SubSeq(l, 2, Len(l))) = Len(l) - 1
         /\ l = <<l[1]>> \o SubSeq(l, 2, Len(l))
<1>1. Len(l) \in Nat \ {0} /\ \A n \in 1..Len(l) : l[n] \in S
  BY EmptySeq, ElementOfSeq
<1>2. SubSeq(l, 2, Len(l)) \in Seq(S) /\ Len(SubSeq(l, 2, Len(l))) = Len(l) - 1
  <2>1. \A i \in 2..Len(l) : l[i] \in S
    BY <1>1
  <2>2. Len(l) \in Int /\ 2 \in Int /\ (2 <= Len(l) => Len(l) - 2 + 1 = Len(l) - 1)
        /\ (~(2 <= Len(l)) => Len(l) - 1 = 0)
    <3> DEFINE n == Len(l)
    <3>1. n \in Nat /\ n # 0
      BY <1>1
    <3> HIDE DEF n
    <3>2. n \in Int /\ 2 \in Int /\ (2 <= n => n - 2 + 1 = n - 1) /\ (~(2 <= n) => n - 1 = 0)
      BY <3>1
    <3> QED
      BY <3>2 DEF n
  <2>3. /\ SubSeq(l, 2, Len(l)) \in Seq(S)
        /\ Len(SubSeq(l, 2, Len(l))) = IF 2 <= Len(l) THEN Len(l) - 2 + 1 ELSE 0
    BY <2>1, <2>2, SubSeqProperties
  <2> QED
    BY <2>2, <2>3
<1>3. 1 \in 1..Len(l) /\ Len(l) \in 1..Len(l) /\ 1 + 1 = 2
  BY <1>1
<1>4. SubSeq(l, 1, Len(l)) = <<l[1]>> \o SubSeq(l, 1 + 1, Len(l))
  BY <1>3, SubSeqRecursiveFirst
<1>5. l = <<l[1]>> \o SubSeq(l, 2, Len(l))
  BY <1>3, <1>4, SubSeqFull
<1> QED
  BY <1>1, <1>2, <1>5

----------------------------------------------------------------------------
(* The units of a stream.                                                  *)

\* What a body or a primitive starts with
Heads == {"body", "matter", "indexed"}

\* The codes of both tables, and one that neither lists
AllCodes == {"A", "B", "C", "D", "E", "F", "G", "V", "None"}

\* The units of a stream that carries things of X
UnitSet(X) ==
  [u : Heads, x : X] \cup [u : {"counter"}, code : AllCodes, n : Nat] \cup [u : {"tail", "space"}]

\* A head has its tail, unless the stream ends
Streams(X) ==
  {s \in Seq(UnitSet(X)) :
     \A j \in 1..(Len(s) - 1) : s[j].u \in Heads => s[j + 1].u = "tail"}

\* What a unit is made of.
LEMMA UnitType ==
  ASSUME NEW X, NEW unit \in UnitSet(X)
  PROVE  /\ unit.u \in Heads => unit.x \in X
         /\ unit.u = "counter" => unit.n \in Nat
BY DEF UnitSet, Heads

\* What is carried by a unit
Carried(X) == [unit \in UnitSet(X) |-> IF unit.u \in Heads THEN <<unit.x>> ELSE <<>>]

\* What is carried by a unit is a list.
LEMMA CarriedType ==
  ASSUME NEW X
  PROVE  Carried(X) \in [UnitSet(X) -> Seq(X)]
<1>1. ASSUME NEW unit \in UnitSet(X)
      PROVE  (IF unit.u \in Heads THEN <<unit.x>> ELSE <<>>) \in Seq(X)
  <2>1. CASE unit.u \in Heads
    BY <2>1, UnitType
  <2>2. CASE unit.u \notin Heads
    BY <2>2
  <2> QED
    BY <2>1, <2>2
<1> QED
  BY <1>1 DEF Carried

\* The material of a list of units is gathered from them.
LEMMA MaterialGathered ==
  ASSUME NEW X, NEW l \in Seq(UnitSet(X))
  PROVE  Material(l) = Gather(Carried(X), l)
<1> DEFINE here(j) == IF l[j].u \in {"body", "matter", "indexed"} THEN <<l[j].x>> ELSE <<>>
<1>1. DOMAIN l = 1..Len(l) /\ \A j \in 1..Len(l) : l[j] \in UnitSet(X)
  BY LenProperties, ElementOfSeq
<1>2. \A j \in DOMAIN l : here(j) = Carried(X)[l[j]]
  BY <1>1 DEF Carried, Heads
<1>3. [j \in DOMAIN l |-> here(j)] = [j \in DOMAIN l |-> Carried(X)[l[j]]]
  <2> HIDE DEF here
  <2> QED
    BY <1>2
<1> QED
  BY <1>3 DEF Material, Gather

\* Laws of the material of a list of units.
LEMMA MaterialLaws ==
  ASSUME NEW X
  PROVE  /\ Material(<<>>) = <<>>
         /\ \A a \in Seq(UnitSet(X)) : Material(a) \in Seq(X)
         /\ \A a, b \in Seq(UnitSet(X)) : Material(a \o b) = Material(a) \o Material(b)
         /\ \A unit \in UnitSet(X) :
              Material(<<unit>>) = IF unit.u \in Heads THEN <<unit.x>> ELSE <<>>
<1>1. Carried(X) \in [UnitSet(X) -> Seq(X)]
  BY CarriedType
<1>2. Material(<<>>) = <<>>
  <2>1. <<>> \in Seq(UnitSet(X))
    BY EmptySeq
  <2> QED
    <3>1. Material(<<>>) = Gather(Carried(X), <<>>)
      BY <2>1, MaterialGathered
    <3>2. Gather(Carried(X), <<>>) = <<>>
      BY <1>1, GatherLaws
    <3> QED
      BY <3>1, <3>2
<1>3. ASSUME NEW a \in Seq(UnitSet(X))
      PROVE  Material(a) \in Seq(X)
  BY <1>1, MaterialGathered, GatherLaws
<1>4. ASSUME NEW a \in Seq(UnitSet(X)), NEW b \in Seq(UnitSet(X))
      PROVE  Material(a \o b) = Material(a) \o Material(b)
  <2>1. a \o b \in Seq(UnitSet(X))
    BY ConcatProperties
  <2>2. /\ Material(a) = Gather(Carried(X), a) /\ Material(b) = Gather(Carried(X), b)
        /\ Material(a \o b) = Gather(Carried(X), a \o b)
    BY <2>1, MaterialGathered
  <2>3. Gather(Carried(X), a \o b) = Gather(Carried(X), a) \o Gather(Carried(X), b)
    BY <1>1, GatherLaws, SMTT(30)
  <2> QED
    BY <2>2, <2>3
<1>5. ASSUME NEW unit \in UnitSet(X)
      PROVE  Material(<<unit>>) = IF unit.u \in Heads THEN <<unit.x>> ELSE <<>>
  <2>1. <<unit>> \in Seq(UnitSet(X))
    OBVIOUS
  <2>2. Material(<<unit>>) = Gather(Carried(X), <<unit>>)
    BY <2>1, MaterialGathered
  <2>3. Gather(Carried(X), <<unit>>) = Carried(X)[unit]
    BY <1>1, GatherLaws
  <2> QED
    BY <2>2, <2>3 DEF Carried
<1> QED
  BY <1>2, <1>3, <1>4, <1>5

\* What a stream carries from one place to before another
MaterialFrom(s, at, next) == Material(SubSeq(s, at, next - 1))

\* It is put together from that of parts, and what a single unit carries.
LEMMA MaterialParts ==
  ASSUME NEW X, NEW s \in Seq(UnitSet(X)),
         NEW a \in 1..(Len(s) + 1), NEW b \in a..(Len(s) + 1)
  PROVE  /\ MaterialFrom(s, a, a) = <<>>
         /\ MaterialFrom(s, a, b) \in Seq(X)
         /\ \A c \in b..(Len(s) + 1) :
              MaterialFrom(s, a, c) = MaterialFrom(s, a, b) \o MaterialFrom(s, b, c)
         /\ a <= Len(s) =>
              MaterialFrom(s, a, a + 1) = IF s[a].u \in Heads THEN <<s[a].x>> ELSE <<>>
<1>1. Len(s) \in Nat /\ \A j \in 1..Len(s) : s[j] \in UnitSet(X)
  BY LenProperties, ElementOfSeq
<1>2. MaterialFrom(s, a, a) = <<>>
  <2>1. SubSeq(s, a, a - 1) = <<>>
    BY <1>1, SubSeqEmpty
  <2>2. Material(<<>>) = <<>>
    BY MaterialLaws
  <2> QED
    BY <2>1, <2>2 DEF MaterialFrom
<1>3. \A i, k \in 1..(Len(s) + 1) : SubSeq(s, i, k - 1) \in Seq(UnitSet(X))
  BY <1>1, SubSeqProperties
<1>4. MaterialFrom(s, a, b) \in Seq(X)
  <2>1. SubSeq(s, a, b - 1) \in Seq(UnitSet(X))
    BY <1>1, <1>3
  <2> QED
    BY <2>1, MaterialLaws DEF MaterialFrom
<1>5. ASSUME NEW c \in b..(Len(s) + 1)
      PROVE  MaterialFrom(s, a, c) = MaterialFrom(s, a, b) \o MaterialFrom(s, b, c)
  <2>1. a \in 1..(Len(s) + 1) /\ b - 1 \in (a - 1)..Len(s) /\ c - 1 \in (b - 1)..Len(s) /\ (b - 1) + 1 = b
    BY <1>1
  <2>2. SubSeq(s, a, b - 1) \o SubSeq(s, (b - 1) + 1, c - 1) = SubSeq(s, a, c - 1)
    BY <2>1, ConcatAdjacentSubSeq
  <2>3. SubSeq(s, a, b - 1) \o SubSeq(s, b, c - 1) = SubSeq(s, a, c - 1)
    BY <2>1, <2>2
  <2>4. SubSeq(s, a, b - 1) \in Seq(UnitSet(X)) /\ SubSeq(s, b, c - 1) \in Seq(UnitSet(X))
    BY <1>1, <1>3
  <2> QED
    BY <2>3, <2>4, MaterialLaws DEF MaterialFrom
<1>6. ASSUME a <= Len(s)
      PROVE  MaterialFrom(s, a, a + 1) = IF s[a].u \in Heads THEN <<s[a].x>> ELSE <<>>
  <2>1. a \in 1..Len(s) /\ (a + 1) - 1 = a /\ s[a] \in UnitSet(X)
    BY <1>1, <1>6
  <2>2. SubSeq(s, a, a) = <<s[a]>>
    <3>1. SubSeq(s, a, a) = <<s[a]>> \o SubSeq(s, a + 1, a)
      BY <2>1, SubSeqRecursiveFirst
    <3>2. SubSeq(s, a + 1, a) = <<>>
      BY <2>1, SubSeqEmpty
    <3>3. <<s[a]>> \in Seq(UnitSet(X))
      BY <2>1
    <3> QED
      BY <3>1, <3>2, <3>3, ConcatEmptySeq
  <2> QED
    BY <2>1, <2>2, MaterialLaws DEF MaterialFrom
<1> QED
  BY <1>2, <1>4, <1>5, <1>6

\* What is gathered stays in a set of lists that is closed under joining.
LEMMA GatherIn ==
  ASSUME NEW S, NEW T, NEW W \in SUBSET Seq(T), <<>> \in W,
         \A a, b \in W : a \o b \in W, NEW of \in [S -> W]
  PROVE  \A l \in Seq(S) : Gather(of, l) \in W
<1> DEFINE G == {l \in Seq(S) : Gather(of, l) \in W}
<1>1. /\ Gather(of, <<>>) = <<>>
      /\ \A x \in S : Gather(of, <<x>>) = of[x]
      /\ \A a \in Seq(S) : Gather(of, a) \in Seq(T)
      /\ \A a, b \in Seq(S) : Gather(of, a \o b) = Gather(of, a) \o Gather(of, b)
  <2>1. of \in [S -> Seq(T)]
    OBVIOUS
  <2> QED
    BY ONLY <2>1, GatherLaws
<1>2. <<>> \in G
  <2>1. <<>> \in Seq(S)
    BY EmptySeq
  <2> QED
    BY <1>1, <2>1
<1>3. ASSUME NEW l \in Seq(S), NEW x \in S, l \in G
      PROVE  l \o <<x>> \in G
  <2>1. <<x>> \in Seq(S) /\ l \o <<x>> \in Seq(S)
    BY ConcatProperties
  <2>2. Gather(of, l \o <<x>>) = Gather(of, l) \o Gather(of, <<x>>)
    BY <1>1, <2>1, Zenon
  <2>3. Gather(of, <<x>>) = of[x] /\ of[x] \in W
    BY <1>1
  <2>4. Gather(of, l \o <<x>>) \in W
    BY <1>3, <2>2, <2>3
  <2> QED
    BY <2>1, <2>4
<1>4. \A l \in Seq(S) : l \in G
  <2> HIDE DEF G
  <2> QED
    BY <1>2, <1>3, ListTurns
<1> QED
  BY <1>4

\* Streams that do not end in a head
Wholes(X) == {l \in Streams(X) : l # <<>> => l[Len(l)].u \notin Heads}

\* They are streams, and one follows the other.
LEMMA WholesJoin ==
  ASSUME NEW X
  PROVE  /\ Wholes(X) \in SUBSET Seq(UnitSet(X)) /\ <<>> \in Wholes(X)
         /\ \A a, b \in Wholes(X) : a \o b \in Wholes(X)
<1>1. Wholes(X) \in SUBSET Seq(UnitSet(X))
  BY DEF Wholes, Streams
<1>2. <<>> \in Wholes(X)
  <2>1. <<>> \in Seq(UnitSet(X)) /\ Len(<<>>) = 0
    BY EmptySeq
  <2> QED
    BY <2>1 DEF Wholes, Streams
<1>3. ASSUME NEW a \in Wholes(X), NEW b \in Wholes(X)
      PROVE  a \o b \in Wholes(X)
  <2> DEFINE c == a \o b
             A == Len(a)
             B == Len(b)
  <2>1. a \in Seq(UnitSet(X)) /\ b \in Seq(UnitSet(X))
    BY DEF Wholes, Streams
  <2>2. /\ c \in Seq(UnitSet(X)) /\ Len(c) = A + B /\ A \in Nat /\ B \in Nat
        /\ \A i \in 1..(A + B) : c[i] = IF i <= A THEN a[i] ELSE b[i - A]
    BY <2>1, ConcatProperties, LenProperties
  <2>3. /\ \A j \in 1..(A - 1) : a[j].u \in Heads => a[j + 1].u = "tail"
        /\ \A j \in 1..(B - 1) : b[j].u \in Heads => b[j + 1].u = "tail"
        /\ A # 0 => a[A].u \notin Heads
        /\ B # 0 => b[B].u \notin Heads
    BY <2>1, EmptySeq DEF Wholes, Streams
  <2> HIDE DEF c, A, B
  <2>4. ASSUME NEW j \in 1..(A + B), c[j].u \in Heads
        PROVE  j < A + B /\ c[j + 1].u = "tail"
    <3>1. CASE j <= A
      <4>1. c[j] = a[j] /\ j # A
        BY <2>2, <2>3, <2>4, <3>1
      <4>2. j \in 1..(A - 1) /\ j + 1 \in 1..(A + B) /\ j + 1 <= A
        BY <2>2, <3>1, <4>1
      <4>3. c[j + 1] = a[j + 1]
        BY <2>2, <4>2
      <4> QED
        BY <2>2, <2>3, <2>4, <4>1, <4>2, <4>3
    <3>2. CASE ~(j <= A)
      <4>1. c[j] = b[j - A] /\ j - A \in 1..B
        BY <2>2, <3>2
      <4>2. j - A # B
        BY <2>3, <2>4, <2>2, <4>1
      <4>3. j - A \in 1..(B - 1) /\ j + 1 \in 1..(A + B) /\ ~(j + 1 <= A) /\ (j + 1) - A = (j - A) + 1
        BY <2>2, <3>2, <4>1, <4>2
      <4>4. c[j + 1] = b[(j - A) + 1]
        BY <2>2, <4>3
      <4> QED
        BY <2>2, <2>3, <2>4, <4>1, <4>3, <4>4
    <3> QED
      BY <3>1, <3>2
  <2>5. c \in Streams(X)
    BY <2>2, <2>4 DEF Streams
  <2>6. c # <<>> => c[Len(c)].u \notin Heads
    <3>1. c # <<>> => Len(c) \in 1..(A + B)
      BY <2>2, EmptySeq
    <3>2. ~(Len(c) < A + B)
      BY <2>2
    <3> QED
      BY <2>4, <3>1, <3>2
  <2>7. c \in Wholes(X)
    BY <2>5, <2>6 DEF Wholes
  <2> QED
    BY <2>7 DEF c
<1> QED
  BY <1>1, <1>2, <1>3

\* A piece from the front of such a stream is a stream.
LEMMA CutStream ==
  ASSUME NEW X, NEW l \in Wholes(X), NEW k \in Nat, k <= Len(l)
  PROVE  SubSeq(l, 1, k) \in Streams(X)
<1>1. l \in Seq(UnitSet(X)) /\ \A j \in 1..(Len(l) - 1) : l[j].u \in Heads => l[j + 1].u = "tail"
  BY DEF Wholes, Streams
<1>2. Len(l) \in Nat /\ \A j \in 1..Len(l) : l[j] \in UnitSet(X)
  BY <1>1, LenProperties, ElementOfSeq
<1> DEFINE s == SubSeq(l, 1, k)
<1>3. s \in Seq(UnitSet(X)) /\ Len(s) = k /\ \A i \in 1..k : s[i] = l[i]
  <2>1. \A i \in 1..k : l[i] \in UnitSet(X)
    BY <1>2
  <2>2. /\ s \in Seq(UnitSet(X))
        /\ Len(s) = IF 1 <= k THEN k - 1 + 1 ELSE 0
        /\ \A i \in 1..(k - 1 + 1) : s[i] = l[1 + i - 1]
    BY <2>1, SubSeqProperties
  <2>3. k - 1 + 1 = k /\ (~(1 <= k) => k = 0) /\ \A i \in 1..k : 1 + i - 1 = i
    OBVIOUS
  <2> HIDE DEF s
  <2> QED
    BY <2>2, <2>3
<1> HIDE DEF s
<1>4. s \in Streams(X)
  <2>1. ASSUME NEW j \in 1..(Len(s) - 1), s[j].u \in Heads
        PROVE  s[j + 1].u = "tail"
    <3>1. j \in 1..(Len(l) - 1) /\ j \in 1..k /\ j + 1 \in 1..k
      BY <1>2, <1>3
    <3> QED
      BY <1>1, <1>3, <2>1, <3>1
  <2> QED
    BY <1>3, <2>1 DEF Streams
<1> QED
  BY <1>4 DEF s

\* A single unit that is no head, and a head with its tail, are such streams.
LEMMA SmallWholes ==
  ASSUME NEW X
  PROVE  /\ \A unit \in UnitSet(X) : unit.u \notin Heads => <<unit>> \in Wholes(X)
         /\ \A kind \in Heads, x \in X : <<[u |-> kind, x |-> x], [u |-> "tail"]>> \in Wholes(X)
<1>1. ASSUME NEW unit \in UnitSet(X), unit.u \notin Heads
      PROVE  <<unit>> \in Wholes(X)
  <2>1. <<unit>> \in Seq(UnitSet(X)) /\ Len(<<unit>>) = 1 /\ <<unit>>[1] = unit
    OBVIOUS
  <2> QED
    BY <1>1, <2>1 DEF Wholes, Streams
<1>2. ASSUME NEW kind \in Heads, NEW x \in X
      PROVE  <<[u |-> kind, x |-> x], [u |-> "tail"]>> \in Wholes(X)
  <2> DEFINE head == [u |-> kind, x |-> x]
             tail == [u |-> "tail"]
  <2>1. head \in UnitSet(X) /\ tail \in UnitSet(X) /\ tail.u = "tail" /\ "tail" \notin Heads
    BY DEF UnitSet, Heads
  <2> HIDE DEF head, tail
  <2>2. /\ <<head, tail>> \in Seq(UnitSet(X)) /\ Len(<<head, tail>>) = 2
        /\ <<head, tail>>[1] = head /\ <<head, tail>>[2] = tail
    BY <2>1
  <2>3. \A j \in 1..(2 - 1) : j = 1 /\ j + 1 = 2
    OBVIOUS
  <2>4. <<head, tail>> \in Wholes(X)
    BY <2>1, <2>2, <2>3 DEF Wholes, Streams
  <2> QED
    BY <2>4 DEF head, tail
<1> QED
  BY <1>1, <1>2

----------------------------------------------------------------------------
(* What is composed.                                                       *)

\* The groups of anchored signatures, and the two tables
Trans == "TransIdxSigGroups"
Tables == {"V1", "V2"}

\* Anchored signatures that carry things of X
SignedSet(X) == [anchor : {l \in Seq(X) : Len(l) = 3}, sigs : Seq(X)]

\* A group that carries things of X
IsGroupOver(g, X) ==
  /\ g.n \in Nat
  /\ g.kind = Wrapper => g.wraps \in Nat
  /\ g.kind = Trans => g.groups \in Seq(SignedSet(X))
  /\ g.kind \notin {Wrapper, Trans} => g.items \in Seq(X)

\* Groups that carry things of X
GroupsOver(gs, X) == \A g \in ToSet(gs) : IsGroupOver(g, X)

\* A message that carries things of X
IsMessageOver(m, X) ==
  /\ m.body \in X
  /\ IsList(m.groups) /\ GroupsOver(m.groups, X)

\* A list is one of all it may have in it.
LEMMA ListOver ==
  ASSUME NEW l, IsList(l), NEW X, ToSet(l) \subseteq X
  PROVE  l \in Seq(X)
BY SeqMonotonic DEF IsList

\* Whatever is sent, there is a set of all that it carries.
LEMMA SendingsOver ==
  ASSUME NEW ms \in Sendings
  PROVE  /\ ms \in Seq(ToSet(ms))
         /\ \E X : \A m \in ToSet(ms) : IsMessageOver(m, X)
<1> DEFINE Signers(g) == UNION {ToSet(g.groups[j].anchor) \cup ToSet(g.groups[j].sigs) :
                                j \in DOMAIN g.groups}
           Things(m) == {m.body} \cup UNION {ToSet(g.items) \cup Signers(g) : g \in ToSet(m.groups)}
           X == UNION {Things(m) : m \in ToSet(ms)}
<1>1. ms \in Seq(ToSet(ms))
  BY SendingsAssumption DEF IsList
<1>2. ASSUME NEW m \in ToSet(ms)
      PROVE  IsMessageOver(m, X)
  <2>1. PICK j \in DOMAIN ms : m = ms[j]
    BY DEF ToSet
  <2>2. IsList(m.groups) /\ \A k \in DOMAIN m.groups : IsGroup(m.groups[k])
    BY <2>1, SendingsAssumption
  <2>3. Things(m) \subseteq X
    OBVIOUS
  <2> HIDE DEF X
  <2>4. ASSUME NEW g \in ToSet(m.groups)
        PROVE  IsGroupOver(g, X)
    <3>1. IsGroup(g)
      BY <2>2 DEF ToSet
    <3>2. Wrapper # Trans
      BY DEF Wrapper, Trans
    <3>3. CASE g.kind = Wrapper
      <4>1. g.n \in Nat /\ g.wraps \in Nat
        BY <3>1, <3>3 DEF IsGroup, Wrapper
      <4> QED
        BY <3>2, <3>3, <4>1 DEF IsGroupOver
    <3>4. CASE g.kind = Trans
      <4>1. /\ g.n \in Nat /\ IsList(g.groups)
            /\ \A k \in DOMAIN g.groups :
                 /\ g.groups[k] = [anchor |-> g.groups[k].anchor, sigs |-> g.groups[k].sigs]
                 /\ IsList(g.groups[k].anchor) /\ Len(g.groups[k].anchor) = 3
                 /\ IsList(g.groups[k].sigs)
        BY <3>1, <3>2, <3>4 DEF IsGroup, Trans
      <4>2. Signers(g) \subseteq X
        BY <2>3
      <4>3. ASSUME NEW k \in DOMAIN g.groups
            PROVE  g.groups[k] \in SignedSet(X)
        <5>1. ToSet(g.groups[k].anchor) \subseteq X /\ ToSet(g.groups[k].sigs) \subseteq X
          BY <4>2
        <5>2. g.groups[k].anchor \in Seq(X) /\ g.groups[k].sigs \in Seq(X)
          BY <4>1, <5>1, ListOver
        <5>3. [anchor |-> g.groups[k].anchor, sigs |-> g.groups[k].sigs] \in SignedSet(X)
          BY <4>1, <5>2 DEF SignedSet
        <5> QED
          BY <4>1, <5>3
      <4>4. ToSet(g.groups) \subseteq SignedSet(X)
        BY <4>3 DEF ToSet
      <4>5. g.groups \in Seq(SignedSet(X))
        BY <4>1, <4>4, ListOver
      <4> QED
        BY <3>2, <3>4, <4>1, <4>5 DEF IsGroupOver
    <3>5. CASE g.kind \notin {Wrapper, Trans}
      <4>1. g.n \in Nat /\ IsList(g.items)
        BY <3>1, <3>5 DEF IsGroup, Trans
      <4>2. ToSet(g.items) \subseteq X
        BY <2>3
      <4>3. g.items \in Seq(X)
        BY <4>1, <4>2, ListOver
      <4> QED
        BY <3>5, <4>1, <4>3 DEF IsGroupOver
    <3> QED
      BY <3>3, <3>4, <3>5
  <2>5. m.body \in X
    BY <2>3
  <2> QED
    BY <2>2, <2>4, <2>5 DEF IsMessageOver, GroupsOver
<1> QED
  BY <1>1, <1>2

\* What the tables list.
LEMMA CodesType ==
  /\ Codes.V1 \in [{"ControllerIdxSigs", "WitnessIdxSigs", "NonTransReceiptCouples",
                    "TransReceiptQuadruples", "FirstSeenReplayCouples", "TransIdxSigGroups",
                    "SealSourceCouples", "AttachedMaterialQuadlets"} -> AllCodes]
  /\ Codes.V2 \in [{"ControllerIdxSigs", "WitnessIdxSigs", "NonTransReceiptCouples",
                    "TransReceiptQuadruples", "FirstSeenReplayCouples",
                    "SealSourceCouples", "AttachedMaterialQuadlets"} -> AllCodes]
BY DEF Codes, AllCodes

\* The tables list every kind, each under a code that means it; transferable
\* groups are not in that of version 2.
LEMMA TableFacts ==
  ASSUME NEW table \in Tables
  PROVE  /\ \A kind \in DOMAIN Codes[table] : Codes[table][kind] \in AllCodes
         /\ \A kind \in Idx \cup Couples \cup {Wrapper} : kind \in DOMAIN Codes[table]
         /\ \A kind \in Idx \cup Couples \cup {Wrapper, Trans} :
              kind \in DOMAIN Codes[table] =>
                /\ Codes[table][kind] \in DOMAIN Meanings[table]
                /\ Meanings[table][Codes[table][kind]] = kind
<1>1. CASE table = "V1"
  <2>1. Codes.V1 \in [{"ControllerIdxSigs", "WitnessIdxSigs", "NonTransReceiptCouples",
                       "TransReceiptQuadruples", "FirstSeenReplayCouples", "TransIdxSigGroups",
                       "SealSourceCouples", "AttachedMaterialQuadlets"} -> AllCodes]
    BY CodesType
  <2>2. \A kind \in Idx \cup Couples \cup {Wrapper, Trans} :
          /\ kind \in DOMAIN Codes.V1 /\ Codes.V1[kind] \in DOMAIN Meanings.V1
          /\ Meanings.V1[Codes.V1[kind]] = kind
    BY DEF Codes, Meanings, Idx, Couples, Wrapper, Trans
  <2> QED
    BY <1>1, <2>1, <2>2
<1>2. CASE table = "V2"
  <2>1. Codes.V2 \in [{"ControllerIdxSigs", "WitnessIdxSigs", "NonTransReceiptCouples",
                       "TransReceiptQuadruples", "FirstSeenReplayCouples",
                       "SealSourceCouples", "AttachedMaterialQuadlets"} -> AllCodes]
    BY CodesType
  <2>2. \A kind \in Idx \cup Couples \cup {Wrapper} :
          /\ kind \in DOMAIN Codes.V2 /\ Codes.V2[kind] \in DOMAIN Meanings.V2
          /\ Meanings.V2[Codes.V2[kind]] = kind
    BY DEF Codes, Meanings, Idx, Couples, Wrapper
  <2>3. Trans \notin DOMAIN Codes.V2
    BY <2>1 DEF Trans
  <2> QED
    BY <1>2, <2>1, <2>2, <2>3
<1> QED
  BY <1>1, <1>2 DEF Tables

\* Every code is one there is, and that of a listed kind is read as the kind.
LEMMA CodeType ==
  ASSUME NEW kind, NEW table \in Tables
  PROVE  /\ CodeOf(kind, table) \in AllCodes
         /\ kind \in Idx \cup Couples \cup {Wrapper} => Classify(CodeOf(kind, table), table) = kind
         /\ kind = Trans /\ kind \in DOMAIN Codes[table] => Classify(CodeOf(kind, table), table) = kind
<1>1. CodeOf(kind, table) \in AllCodes
  <2>1. kind \in DOMAIN Codes[table] => Codes[table][kind] \in AllCodes
    BY TableFacts
  <2>2. "None" \in AllCodes
    BY DEF AllCodes
  <2> QED
    BY <2>1, <2>2 DEF CodeOf
<1>2. ASSUME kind \in Idx \cup Couples \cup {Wrapper, Trans}, kind \in DOMAIN Codes[table]
      PROVE  Classify(CodeOf(kind, table), table) = kind
  <2>1. /\ Codes[table][kind] \in DOMAIN Meanings[table]
        /\ Meanings[table][Codes[table][kind]] = kind
    BY <1>2, TableFacts
  <2>2. CodeOf(kind, table) = Codes[table][kind]
    BY <1>2 DEF CodeOf
  <2> QED
    BY <2>1, <2>2 DEF Classify
<1>3. kind \in Idx \cup Couples \cup {Wrapper} => kind \in DOMAIN Codes[table]
  BY TableFacts
<1> QED
  BY <1>1, <1>2, <1>3

\* Every version has a table.
LEMMA TableType ==
  ASSUME NEW major
  PROVE  TableFromMajor(major) \in Tables
BY DEF TableFromMajor, Tables

\* A head with its tail
Paired(kind, X) == [x \in X |-> <<[u |-> kind, x |-> x], [u |-> "tail"]>>]

\* Primitives are gathered from what they are of.
LEMMA UnitsGathered ==
  ASSUME NEW X, NEW kind \in Heads, NEW ids \in Seq(X)
  PROVE  /\ Paired(kind, X) \in [X -> Wholes(X)]
         /\ Units(kind, ids) = Gather(Paired(kind, X), ids)
<1> DEFINE pair(x) == <<[u |-> kind, x |-> x], [u |-> "tail"]>>
<1>1. \A x \in X : pair(x) \in Wholes(X)
  BY SmallWholes
<1>2. DOMAIN ids = 1..Len(ids) /\ \A j \in 1..Len(ids) : ids[j] \in X
  BY LenProperties, ElementOfSeq
<1>3. Paired(kind, X) = [x \in X |-> pair(x)]
  BY DEF Paired
<1>4. Units(kind, ids) = FlattenSeq([j \in DOMAIN ids |-> pair(ids[j])])
  BY DEF Units
<1> HIDE DEF pair
<1>5. [j \in DOMAIN ids |-> pair(ids[j])] = [j \in DOMAIN ids |-> Paired(kind, X)[ids[j]]]
  BY <1>2, <1>3
<1> QED
  BY <1>1, <1>3, <1>4, <1>5 DEF Gather

\* Primitives make a stream.
LEMMA UnitsType ==
  ASSUME NEW X, NEW kind \in Heads, NEW ids \in Seq(X)
  PROVE  Units(kind, ids) \in Wholes(X)
<1>1. Paired(kind, X) \in [X -> Wholes(X)] /\ Units(kind, ids) = Gather(Paired(kind, X), ids)
  BY UnitsGathered
<1>2. Wholes(X) \in SUBSET Seq(UnitSet(X)) /\ <<>> \in Wholes(X)
  BY WholesJoin
<1>3. \A a, b \in Wholes(X) : a \o b \in Wholes(X)
  BY WholesJoin
<1> HIDE DEF Wholes
<1>4. \A l \in Seq(X) : Gather(Paired(kind, X), l) \in Wholes(X)
  BY <1>1, <1>2, <1>3, GatherIn
<1> QED
  BY <1>1, <1>4

\* A counter makes a stream.
LEMMA CounterType ==
  ASSUME NEW X, NEW kind, NEW n \in Nat, NEW table \in Tables
  PROVE  /\ Counter(kind, n, table) \in Wholes(X)
         /\ Len(Counter(kind, n, table)) = 1
         /\ Counter(kind, n, table)[1] = [u |-> "counter", code |-> CodeOf(kind, table), n |-> n]
<1> DEFINE unit == [u |-> "counter", code |-> CodeOf(kind, table), n |-> n]
<1>1. unit \in UnitSet(X) /\ unit.u \notin Heads
  BY CodeType DEF UnitSet, Heads
<1>2. Counter(kind, n, table) = <<unit>>
  BY DEF Counter
<1> HIDE DEF unit
<1> QED
  BY <1>1, <1>2, SmallWholes DEF unit

\* What composes a list of anchored signatures
Signing(X, table) == [signed \in SignedSet(X) |-> ComposeSigned(signed, table)]

\* It makes a stream.
LEMMA SignedType ==
  ASSUME NEW X, NEW table \in Tables
  PROVE  /\ Signing(X, table) \in [SignedSet(X) -> Wholes(X)]
         /\ \A l \in Seq(SignedSet(X)) :
              /\ FlattenSeq([j \in DOMAIN l |-> ComposeSigned(l[j], table)])
                   = Gather(Signing(X, table), l)
              /\ Gather(Signing(X, table), l) \in Wholes(X)
<1>0. \A a, b \in Wholes(X) : a \o b \in Wholes(X)
  BY WholesJoin
<1>1. ASSUME NEW signed \in SignedSet(X)
      PROVE  ComposeSigned(signed, table) \in Wholes(X)
  <2>1. signed.anchor \in Seq(X) /\ signed.sigs \in Seq(X) /\ Len(signed.sigs) \in Nat
    BY LenProperties DEF SignedSet
  <2>2. Units("matter", signed.anchor) \in Wholes(X) /\ Units("indexed", signed.sigs) \in Wholes(X)
    BY <2>1, UnitsType DEF Heads
  <2>3. Counter("ControllerIdxSigs", Len(signed.sigs), table) \in Wholes(X)
    BY <2>1, CounterType
  <2> QED
    BY <1>0, <2>2, <2>3 DEF ComposeSigned
<1>2. Signing(X, table) \in [SignedSet(X) -> Wholes(X)]
  BY <1>1 DEF Signing
<1>3. ASSUME NEW l \in Seq(SignedSet(X))
      PROVE  FlattenSeq([j \in DOMAIN l |-> ComposeSigned(l[j], table)]) = Gather(Signing(X, table), l)
  <2>1. DOMAIN l = 1..Len(l) /\ \A j \in 1..Len(l) : l[j] \in SignedSet(X)
    BY LenProperties, ElementOfSeq
  <2>2. [j \in DOMAIN l |-> ComposeSigned(l[j], table)] = [j \in DOMAIN l |-> Signing(X, table)[l[j]]]
    BY <2>1 DEF Signing
  <2> QED
    BY <2>2 DEF Gather
<1>4. Wholes(X) \in SUBSET Seq(UnitSet(X)) /\ <<>> \in Wholes(X)
  BY WholesJoin
<1>5. \A l \in Seq(SignedSet(X)) : Gather(Signing(X, table), l) \in Wholes(X)
  BY <1>0, <1>2, <1>4, GatherIn
<1> QED
  BY <1>2, <1>3, <1>5

\* What a group is composed of after its counter
Body(g, table) ==
  CASE g.kind = Wrapper -> <<>>
    [] g.kind = Trans -> FlattenSeq([j \in DOMAIN g.groups |-> ComposeSigned(g.groups[j], table)])
    [] g.kind \in Idx -> Units("indexed", g.items)
    [] OTHER -> Units("matter", g.items)

\* A group is composed of a counter and more, which make a stream.
LEMMA GroupType ==
  ASSUME NEW X, NEW table \in Tables, NEW g, IsGroupOver(g, X)
  PROVE  /\ ComposeGroup(g, table) = Counter(g.kind, g.n, table) \o Body(g, table)
         /\ Counter(g.kind, g.n, table) \in Wholes(X)
         /\ Body(g, table) \in Wholes(X)
         /\ ComposeGroup(g, table) \in Wholes(X)
<1>1. ComposeGroup(g, table) = Counter(g.kind, g.n, table) \o Body(g, table)
  BY DEF ComposeGroup, Body, Trans
<1>2. Counter(g.kind, g.n, table) \in Wholes(X)
  BY CounterType DEF IsGroupOver
<1>3. Body(g, table) \in Wholes(X)
  <2> DEFINE trans == FlattenSeq([j \in DOMAIN g.groups |-> ComposeSigned(g.groups[j], table)])
             indexed == Units("indexed", g.items)
             matter == Units("matter", g.items)
  <2>0. Body(g, table) = CASE g.kind = Wrapper -> <<>>
                           [] g.kind = Trans -> trans
                           [] g.kind \in Idx -> indexed
                           [] OTHER -> matter
    BY DEF Body
  <2>1. CASE g.kind = Wrapper
    <3>1. Body(g, table) = <<>>
      <4> HIDE DEF trans, indexed, matter
      <4> QED
        BY <2>0, <2>1 DEF Wrapper, Trans, Idx
    <3> QED
      BY <3>1, WholesJoin
  <2>2. CASE g.kind = Trans
    <3>1. Body(g, table) = trans
      <4> HIDE DEF trans, indexed, matter
      <4> QED
        BY <2>0, <2>2 DEF Wrapper, Trans, Idx
    <3>2. g.groups \in Seq(SignedSet(X))
      BY <2>2 DEF IsGroupOver
    <3> QED
      BY <3>1, <3>2, SignedType
  <2>3. CASE g.kind \notin {Wrapper, Trans}
    <3>1. Body(g, table) = Units("indexed", g.items) \/ Body(g, table) = Units("matter", g.items)
      BY <2>3 DEF Body
    <3>2. g.items \in Seq(X)
      BY <2>3 DEF IsGroupOver
    <3> QED
      BY <3>1, <3>2, UnitsType DEF Heads
  <2> QED
    BY <2>1, <2>2, <2>3
<1>4. ComposeGroup(g, table) \in Wholes(X)
  BY <1>1, <1>2, <1>3, WholesJoin
<1> QED
  BY <1>1, <1>2, <1>3, <1>4

\* What composes a group of S
Grouping(S, table) == [g \in S |-> ComposeGroup(g, table)]

\* Groups are composed one after the other.
LEMMA GroupsType ==
  ASSUME NEW X, NEW table \in Tables, NEW S, \A g \in S : IsGroupOver(g, X)
  PROVE  /\ Grouping(S, table) \in [S -> Wholes(X)]
         /\ \A gs \in Seq(S) : /\ ComposeGroups(gs, table) = Gather(Grouping(S, table), gs)
                               /\ ComposeGroups(gs, table) \in Wholes(X)
<1>1. Grouping(S, table) \in [S -> Wholes(X)]
  BY GroupType DEF Grouping
<1>2. ASSUME NEW gs \in Seq(S)
      PROVE  ComposeGroups(gs, table) = Gather(Grouping(S, table), gs)
  <2>1. DOMAIN gs = 1..Len(gs) /\ \A j \in 1..Len(gs) : gs[j] \in S
    BY LenProperties, ElementOfSeq
  <2>2. [j \in DOMAIN gs |-> ComposeGroup(gs[j], table)] = [j \in DOMAIN gs |-> Grouping(S, table)[gs[j]]]
    BY <2>1 DEF Grouping
  <2> QED
    BY <2>2 DEF Gather, ComposeGroups
<1>3. Wholes(X) \in SUBSET Seq(UnitSet(X)) /\ <<>> \in Wholes(X)
  BY WholesJoin
<1>4. \A a, b \in Wholes(X) : a \o b \in Wholes(X)
  BY WholesJoin
<1>5. \A gs \in Seq(S) : Gather(Grouping(S, table), gs) \in Wholes(X)
  BY <1>1, <1>3, <1>4, GatherIn
<1> QED
  BY <1>1, <1>2, <1>5

\* What follows a message: white space or nothing
Gap(m) == IF m.gap THEN <<[u |-> "space"]>> ELSE <<>>

\* A message is composed of a body, groups and a gap, which make a stream.
LEMMA MessageType ==
  ASSUME NEW X, NEW m, IsMessageOver(m, X)
  PROVE  /\ Compose(m) = Units("body", <<m.body>>)
                           \o ComposeGroups(m.groups, TableFromMajor(m.body.major)) \o Gap(m)
         /\ Units("body", <<m.body>>) \in Wholes(X)
         /\ ComposeGroups(m.groups, TableFromMajor(m.body.major)) \in Wholes(X)
         /\ Gap(m) \in Wholes(X)
         /\ Compose(m) \in Wholes(X)
<1>1. Compose(m) = Units("body", <<m.body>>)
                     \o ComposeGroups(m.groups, TableFromMajor(m.body.major)) \o Gap(m)
  BY DEF Compose, Gap
<1>2. Units("body", <<m.body>>) \in Wholes(X)
  <2>1. <<m.body>> \in Seq(X) /\ "body" \in Heads
    BY DEF IsMessageOver, Heads
  <2> QED
    BY <2>1, UnitsType
<1>3. ComposeGroups(m.groups, TableFromMajor(m.body.major)) \in Wholes(X)
  <2>1. m.groups \in Seq(ToSet(m.groups)) /\ \A g \in ToSet(m.groups) : IsGroupOver(g, X)
    BY DEF IsMessageOver, IsList, GroupsOver
  <2>2. TableFromMajor(m.body.major) \in Tables
    BY TableType
  <2> QED
    BY <2>1, <2>2, GroupsType
<1>4. Gap(m) \in Wholes(X)
  <2>1. [u |-> "space"] \in UnitSet(X) /\ [u |-> "space"].u \notin Heads
    BY DEF UnitSet, Heads
  <2> QED
    BY <2>1, SmallWholes, WholesJoin DEF Gap
<1>5. Compose(m) \in Wholes(X)
  BY <1>1, <1>2, <1>3, <1>4, WholesJoin
<1> QED
  BY <1>1, <1>2, <1>3, <1>4, <1>5

\* What composes a message of S
Composing(S) == [m \in S |-> Compose(m)]

\* Messages are composed one after the other.
LEMMA MessagesType ==
  ASSUME NEW X, NEW S, \A m \in S : IsMessageOver(m, X)
  PROVE  /\ Composing(S) \in [S -> Wholes(X)]
         /\ \A ms \in Seq(S) : /\ ComposeAll(ms) = Gather(Composing(S), ms)
                               /\ ComposeAll(ms) \in Wholes(X)
<1>1. Composing(S) \in [S -> Wholes(X)]
  BY MessageType DEF Composing
<1>2. ASSUME NEW ms \in Seq(S)
      PROVE  ComposeAll(ms) = Gather(Composing(S), ms)
  <2>1. DOMAIN ms = 1..Len(ms) /\ \A j \in 1..Len(ms) : ms[j] \in S
    BY LenProperties, ElementOfSeq
  <2>2. [j \in DOMAIN ms |-> Compose(ms[j])] = [j \in DOMAIN ms |-> Composing(S)[ms[j]]]
    BY <2>1 DEF Composing
  <2> QED
    BY <2>2 DEF Gather, ComposeAll
<1>3. Wholes(X) \in SUBSET Seq(UnitSet(X)) /\ <<>> \in Wholes(X)
  BY WholesJoin
<1>4. \A a, b \in Wholes(X) : a \o b \in Wholes(X)
  BY WholesJoin
<1>5. \A ms \in Seq(S) : Gather(Composing(S), ms) \in Wholes(X)
  BY <1>1, <1>3, <1>4, GatherIn
<1> QED
  BY <1>1, <1>2, <1>5

----------------------------------------------------------------------------
(* What is read at a place.                                                *)

\* The attachments that a parse may give
Atts(X) ==
  [kind : Idx \cup Couples, items : Seq(X)] \cup [kind : {Trans}, groups : Seq(SignedSet(X))]
    \cup [kind : {"Unknown"}, raw : Seq(UnitSet(X))]

\* What a parse of attachments from at to to may give
AttachmentsRead(X, at, to) ==
  {Failed} \cup [ok : {TRUE}, next : at..(to + 1), atts : Seq(Atts(X))]

\* What a parse of transferable groups may give
GroupsRead(X, at, to) ==
  {Failed} \cup [ok : {TRUE}, next : at..(to + 1), groups : Seq(SignedSet(X))]

\* What a call may give
Read(X, call) ==
  IF call.what = "attachments" THEN AttachmentsRead(X, call.at, call.to)
  ELSE GroupsRead(X, call.at, call.to)

\* Three primitives stand where each of them has its head.
LEMMA ThreeStand ==
  ASSUME NEW s, NEW at, NEW to, NEW unit
  PROVE  Stand(s, at, to, <<unit, unit, unit>>)
           <=> /\ at + 2 * 3 - 1 <= to
               /\ \A j \in 1..3 : s[at + 2 * (j - 1)].u = unit
<1>1. /\ Len(<<unit, unit, unit>>) = 3 /\ DOMAIN <<unit, unit, unit>> = 1..3
      /\ \A j \in 1..3 : <<unit, unit, unit>>[j] = unit
  OBVIOUS
<1> QED
  BY <1>1 DEF Stand

\* What primitives that stand are of.
LEMMA ItemsType ==
  ASSUME NEW X, NEW s \in Streams(X), NEW at \in Nat \ {0}, NEW n \in Nat,
         at + 2 * n - 1 <= Len(s), \A j \in 1..n : s[at + 2 * (j - 1)].u \in Heads
  PROVE  /\ ItemsAt(s, at, n) \in Seq(X) /\ Len(ItemsAt(s, at, n)) = n
         /\ \A j \in 1..n : ItemsAt(s, at, n)[j] = s[at + 2 * (j - 1)].x
<1>1. Len(s) \in Nat /\ \A j \in 1..Len(s) : s[j] \in UnitSet(X)
  BY LenProperties, ElementOfSeq DEF Streams
<1>2. ASSUME NEW j \in 1..n
      PROVE  at + 2 * (j - 1) \in 1..Len(s) /\ s[at + 2 * (j - 1)].x \in X
  <2>1. at + 2 * (j - 1) \in 1..Len(s)
    BY <1>1
  <2> QED
    BY <1>1, <2>1, UnitType
<1> QED
  BY <1>2 DEF ItemsAt

\* Calls are of what they are made.
LEMMA CallsAre ==
  ASSUME NEW s, NEW at \in 1..(Len(s) + 1), NEW to \in 0..Len(s), at <= to + 1, NEW n \in Nat
  PROVE  /\ AttachmentsFrom(at, to) \in Calls(s) /\ GroupsFrom(at, to, n) \in Calls(s)
         /\ AttachmentsFrom(at, to).what = "attachments" /\ GroupsFrom(at, to, n).what = "groups"
         /\ AttachmentsFrom(at, to).at = at /\ GroupsFrom(at, to, n).at = at
         /\ AttachmentsFrom(at, to).to = to /\ GroupsFrom(at, to, n).to = to
         /\ GroupsFrom(at, to, n).left = n
BY DEF AttachmentsFrom, GroupsFrom, Calls

\* Of each call it is known what is called.
LEMMA CallForms ==
  ASSUME NEW s, NEW call \in Calls(s)
  PROVE  /\ call.at \in 1..(Len(s) + 1) /\ call.to \in 0..Len(s) /\ call.at <= call.to + 1
         /\ call.left \in Nat /\ call.what \in {"attachments", "groups"}
BY DEF Calls

\* Two functions read the same after a place
Alike(X, s, f, g, at) ==
  \A call \in Calls(s) : call.at > at => f[call] = g[call] /\ f[call] \in Read(X, call)

\* Then they do for attachments and for groups further on.
LEMMA AlikeFurtherOn ==
  ASSUME NEW X, NEW s \in Streams(X), NEW f, NEW g, NEW at \in 1..(Len(s) + 1), Alike(X, s, f, g, at),
         NEW next \in 1..(Len(s) + 1), next > at, NEW to \in 0..Len(s), next <= to + 1
  PROVE  /\ f[AttachmentsFrom(next, to)] = g[AttachmentsFrom(next, to)]
         /\ f[AttachmentsFrom(next, to)] \in AttachmentsRead(X, next, to)
         /\ \A n \in Nat : /\ f[GroupsFrom(next, to, n)] = g[GroupsFrom(next, to, n)]
                          /\ f[GroupsFrom(next, to, n)] \in GroupsRead(X, next, to)
<1> SUFFICES ASSUME NEW n \in Nat
             PROVE  /\ f[AttachmentsFrom(next, to)] = g[AttachmentsFrom(next, to)]
                    /\ f[AttachmentsFrom(next, to)] \in AttachmentsRead(X, next, to)
                    /\ f[GroupsFrom(next, to, n)] = g[GroupsFrom(next, to, n)]
                    /\ f[GroupsFrom(next, to, n)] \in GroupsRead(X, next, to)
  <2>1. 0 \in Nat
    OBVIOUS
  <2> QED
    BY <2>1
<1> DEFINE a == AttachmentsFrom(next, to)
           b == GroupsFrom(next, to, n)
<1>1. /\ a \in Calls(s) /\ a.what = "attachments" /\ a.at = next /\ a.to = to
      /\ b \in Calls(s) /\ b.what = "groups" /\ b.at = next /\ b.to = to
  BY CallsAre
<1> HIDE DEF a, b
<1>2. Read(X, a) = AttachmentsRead(X, next, to) /\ Read(X, b) = GroupsRead(X, next, to)
  BY <1>1 DEF Read
<1>3. f[a] = g[a] /\ f[a] \in Read(X, a) /\ f[b] = g[b] /\ f[b] \in Read(X, b)
  BY <1>1 DEF Alike
<1>4. /\ f[a] = g[a] /\ f[a] \in AttachmentsRead(X, next, to)
      /\ f[b] = g[b] /\ f[b] \in GroupsRead(X, next, to)
  BY <1>2, <1>3
<1> QED
  BY <1>4 DEF a, b

\* What is read is either Failed or a record.
LEMMA ReadForms ==
  ASSUME NEW X, NEW at, NEW to
  PROVE  /\ \A r \in AttachmentsRead(X, at, to) :
              /\ r.ok \in BOOLEAN /\ (~r.ok => r = Failed)
              /\ r.ok => r.next \in at..(to + 1) /\ r.atts \in Seq(Atts(X))
         /\ \A r \in GroupsRead(X, at, to) :
              /\ r.ok \in BOOLEAN /\ (~r.ok => r = Failed)
              /\ r.ok => r.next \in at..(to + 1) /\ r.groups \in Seq(SignedSet(X))
         /\ Failed \in AttachmentsRead(X, at, to) /\ Failed \in GroupsRead(X, at, to)
         /\ \A next \in at..(to + 1), atts \in Seq(Atts(X)) :
              [ok |-> TRUE, next |-> next, atts |-> atts] \in AttachmentsRead(X, at, to)
         /\ \A next \in at..(to + 1), groups \in Seq(SignedSet(X)) :
              [ok |-> TRUE, next |-> next, groups |-> groups] \in GroupsRead(X, at, to)
<1>1. Failed.ok = FALSE /\ Failed \in AttachmentsRead(X, at, to) /\ Failed \in GroupsRead(X, at, to)
  BY DEF AttachmentsRead, GroupsRead, Failed
<1>2. ASSUME NEW r \in AttachmentsRead(X, at, to)
      PROVE  /\ r.ok \in BOOLEAN /\ (~r.ok => r = Failed)
             /\ r.ok => r.next \in at..(to + 1) /\ r.atts \in Seq(Atts(X))
  <2>1. CASE r = Failed
    BY <1>1, <2>1
  <2>2. CASE r \in [ok : {TRUE}, next : at..(to + 1), atts : Seq(Atts(X))]
    BY <2>2
  <2> QED
    BY <2>1, <2>2 DEF AttachmentsRead
<1>3. ASSUME NEW r \in GroupsRead(X, at, to)
      PROVE  /\ r.ok \in BOOLEAN /\ (~r.ok => r = Failed)
             /\ r.ok => r.next \in at..(to + 1) /\ r.groups \in Seq(SignedSet(X))
  <2>1. CASE r = Failed
    BY <1>1, <2>1
  <2>2. CASE r \in [ok : {TRUE}, next : at..(to + 1), groups : Seq(SignedSet(X))]
    BY <2>2
  <2> QED
    BY <2>1, <2>2 DEF GroupsRead
<1>4. ASSUME NEW next \in at..(to + 1), NEW atts \in Seq(Atts(X))
      PROVE  [ok |-> TRUE, next |-> next, atts |-> atts] \in AttachmentsRead(X, at, to)
  BY DEF AttachmentsRead
<1>5. ASSUME NEW next \in at..(to + 1), NEW groups \in Seq(SignedSet(X))
      PROVE  [ok |-> TRUE, next |-> next, groups |-> groups] \in GroupsRead(X, at, to)
  BY DEF GroupsRead
<1> QED
  BY <1>1, <1>2, <1>3, <1>4, <1>5

\* What a counter may be classified as
Kinds == Idx \cup Couples \cup {Wrapper, Trans, "None", "TransReceiptQuadruples"}

\* What the tables mean.
LEMMA MeaningsType ==
  /\ Meanings.V1 \in [{"A", "B", "C", "D", "E", "F", "G", "V"} -> Kinds]
  /\ Meanings.V2 \in [{"A", "B", "C", "D", "E", "F", "G"} -> Kinds]
BY DEF Meanings, Kinds, Idx, Couples, Wrapper, Trans

\* Every code is classified.
LEMMA ClassifyType ==
  ASSUME NEW code, NEW table \in Tables
  PROVE  Classify(code, table) \in Kinds
<1>1. "None" \in Kinds
  BY DEF Kinds
<1>2. code \in DOMAIN Meanings[table] => Meanings[table][code] \in Kinds
  BY MeaningsType DEF Tables
<1> QED
  BY <1>1, <1>2 DEF Classify

\* The kinds of groups are different.
LEMMA KindsDiffer ==
  /\ Wrapper \notin Idx \cup Couples /\ Trans \notin Idx \cup Couples /\ Wrapper # Trans
  /\ {Wrapper, Trans} \cap {"None", "TransReceiptQuadruples", "Unknown"} = {}
  /\ (Idx \cup Couples) \cap {"None", "TransReceiptQuadruples", "Unknown"} = {}
  /\ Idx \cap Couples = {} /\ "ControllerIdxSigs" \in Idx
BY DEF Wrapper, Trans, Idx, Couples

\* How many primitives a group of n has, and of which kind
Size(kind, n) == IF kind \in Idx THEN n ELSE 2 * n
\* The units that primitives of a group stand as
UnitOf(kind) == IF kind \in Idx THEN "indexed" ELSE "matter"

\* The primitives of a group are read where they stand.
LEMMA ItemsRead ==
  ASSUME NEW X, NEW s \in Streams(X), NEW at \in Nat \ {0}, NEW to \in 0..Len(s), at <= to + 1,
         NEW kind \in Idx \cup Couples, NEW n \in Nat
  PROVE  /\ Size(kind, n) \in Nat /\ UnitOf(kind) \in Heads
         /\ ParseItems(s, at, to, kind, n) =
              IF /\ n <= MaxAttachmentCount /\ at + 2 * Size(kind, n) - 1 <= to
                 /\ \A j \in 1..Size(kind, n) : s[at + 2 * (j - 1)].u = UnitOf(kind)
              THEN [ok |-> TRUE, next |-> at + 2 * Size(kind, n),
                    atts |-> <<[kind |-> kind, items |-> ItemsAt(s, at, Size(kind, n))]>>]
              ELSE Failed
         /\ ParseItems(s, at, to, kind, n) \in AttachmentsRead(X, at, to)
<1> DEFINE size == Size(kind, n)
           unit == UnitOf(kind)
           stands == /\ at + 2 * size - 1 <= to
                     /\ \A j \in 1..size : s[at + 2 * (j - 1)].u = unit
           att == [kind |-> kind, items |-> ItemsAt(s, at, size)]
<1>1. size \in Nat /\ unit \in Heads
  BY DEF Size, UnitOf, Heads
<1>2. ParseItems(s, at, to, kind, n) =
        IF n <= MaxAttachmentCount /\ Stand(s, at, to, [j \in 1..size |-> unit])
        THEN [ok |-> TRUE, next |-> at + 2 * size, atts |-> <<att>>]
        ELSE Failed
  BY DEF ParseItems, Size, UnitOf
<1>3. Stand(s, at, to, [j \in 1..size |-> unit]) <=> stands
  <2> DEFINE kinds == [j \in 1..size |-> unit]
  <2> HIDE DEF size, unit
  <2>1. Len(kinds) = size /\ DOMAIN kinds = 1..size /\ \A j \in 1..size : kinds[j] = unit
    BY <1>1
  <2> HIDE DEF kinds
  <2>2. Stand(s, at, to, kinds) <=> stands
    BY <1>1, <2>1 DEF Stand
  <2> QED
    BY <2>2 DEF kinds
<1>4. stands => [ok |-> TRUE, next |-> at + 2 * size, atts |-> <<att>>] \in AttachmentsRead(X, at, to)
  <2> SUFFICES ASSUME stands
               PROVE  [ok |-> TRUE, next |-> at + 2 * size, atts |-> <<att>>] \in AttachmentsRead(X, at, to)
    OBVIOUS
  <2>1. Len(s) \in Nat
    BY LenProperties DEF Streams
  <2> HIDE DEF size, unit
  <2>2. at + 2 * size - 1 <= Len(s) /\ at + 2 * size \in at..(to + 1)
    BY <1>1, <2>1
  <2>3. ItemsAt(s, at, size) \in Seq(X)
    BY <1>1, <2>2, ItemsType
  <2>4. att \in Atts(X)
    BY <2>3 DEF Atts
  <2> HIDE DEF att
  <2>5. <<att>> \in Seq(Atts(X))
    BY <2>4
  <2> QED
    BY <2>2, <2>5, ReadForms
<1> HIDE DEF stands, att
<1>5. ParseItems(s, at, to, kind, n) \in AttachmentsRead(X, at, to)
  BY <1>2, <1>3, <1>4, ReadForms
<1> QED
  BY <1>1, <1>2, <1>3, <1>5 DEF stands, att

\* What a wrapper holds is read further on.
LEMMA WrappedAlike ==
  ASSUME NEW X, NEW s \in Streams(X), NEW f, NEW g, NEW at \in 1..Len(s), Alike(X, s, f, g, at),
         NEW to \in at..Len(s), NEW n \in Nat
  PROVE  /\ ParseWrapped(f, at + 1, to, n) = ParseWrapped(g, at + 1, to, n)
         /\ ParseWrapped(f, at + 1, to, n) \in AttachmentsRead(X, at + 1, to)
<1> DEFINE end == (at + 1) + n - 1
<1>1. Len(s) \in Nat
  BY LenProperties DEF Streams
<1>2. CASE ~(end <= to)
  <2>1. ParseWrapped(f, at + 1, to, n) = Failed /\ ParseWrapped(g, at + 1, to, n) = Failed
    BY <1>2 DEF ParseWrapped
  <2> QED
    BY <2>1, ReadForms
<1>3. CASE end <= to
  <2>1. end \in 0..Len(s) /\ at + 1 \in 1..(Len(s) + 1) /\ at + 1 <= end + 1 /\ at + 1 > at
        /\ end + 1 \in (at + 1)..(to + 1) /\ at \in 1..(Len(s) + 1)
    BY <1>1, <1>3
  <2> HIDE DEF end
  <2> DEFINE inner == f[AttachmentsFrom(at + 1, end)]
  <2>2. inner = g[AttachmentsFrom(at + 1, end)] /\ inner \in AttachmentsRead(X, at + 1, end)
    <3> DEFINE next == at + 1
    <3>1. /\ end \in 0..Len(s) /\ at \in 1..(Len(s) + 1)
          /\ next \in 1..(Len(s) + 1) /\ next > at /\ next <= end + 1
      BY <2>1
    <3> HIDE DEF next
    <3>2. /\ f[AttachmentsFrom(next, end)] = g[AttachmentsFrom(next, end)]
          /\ f[AttachmentsFrom(next, end)] \in AttachmentsRead(X, next, end)
      BY <3>1, AlikeFurtherOn
    <3> QED
      BY <3>2 DEF next
  <2>3. /\ ParseWrapped(f, at + 1, to, n) = IF end <= to /\ FillsSpan(inner, end)
                                            THEN [ok |-> TRUE, next |-> end + 1, atts |-> inner.atts]
                                            ELSE Failed
        /\ ParseWrapped(g, at + 1, to, n) = IF end <= to /\ FillsSpan(inner, end)
                                            THEN [ok |-> TRUE, next |-> end + 1, atts |-> inner.atts]
                                            ELSE Failed
    BY <2>2 DEF ParseWrapped, end
  <2> HIDE DEF inner
  <2>4. FillsSpan(inner, end) => inner.atts \in Seq(Atts(X))
    BY <2>2, ReadForms DEF FillsSpan
  <2> QED
    BY <2>1, <2>3, <2>4, ReadForms, SMTT(30)
<1> QED
  BY <1>2, <1>3

\* What follows an anchor is as it should be, and the signatures in it
OnlySignatures(inner) == \A j \in DOMAIN inner.atts : inner.atts[j].kind = "ControllerIdxSigs"

SignaturesOf(inner) == FlattenSeq([j \in DOMAIN inner.atts |-> inner.atts[j].items])

\* Controller signatures are lists of what they are of.
LEMMA SignaturesType ==
  ASSUME NEW X, NEW inner, inner.atts \in Seq(Atts(X)), OnlySignatures(inner)
  PROVE  /\ SignaturesOf(inner) \in Seq(X)
         /\ [j \in DOMAIN inner.atts |-> inner.atts[j].items] \in Seq(Seq(X))
<1>1. DOMAIN inner.atts = 1..Len(inner.atts) /\ Len(inner.atts) \in Nat
      /\ \A j \in 1..Len(inner.atts) : inner.atts[j] \in Atts(X)
  BY LenProperties, ElementOfSeq
<1>2. ASSUME NEW att \in Atts(X), att.kind = "ControllerIdxSigs"
      PROVE  att.items \in Seq(X)
  BY <1>2, KindsDiffer DEF Atts
<1> DEFINE lists == [j \in DOMAIN inner.atts |-> inner.atts[j].items]
<1>3. lists \in Seq(Seq(X))
  BY <1>1, <1>2 DEF OnlySignatures
<1>4. SignaturesOf(inner) = FlattenSeq(lists)
  BY DEF SignaturesOf
<1> HIDE DEF lists
<1>5. SignaturesOf(inner) \in Seq(X)
  BY <1>3, <1>4, FlattenType
<1> QED
  BY <1>3, <1>5 DEF lists

\* The three primitives of an anchor stand at a place
AnchorStands(s, at, to) == Stand(s, at, to, <<"matter", "matter", "matter">>)

\* An anchor is what three primitives are of.
LEMMA AnchorType ==
  ASSUME NEW X, NEW s \in Streams(X), NEW at \in 1..(Len(s) + 1), NEW to \in 0..Len(s),
         AnchorStands(s, at, to)
  PROVE  /\ at + 5 <= to /\ at + 6 \in 1..(Len(s) + 1) /\ at + 6 <= to + 1
         /\ ItemsAt(s, at, 3) \in Seq(X) /\ Len(ItemsAt(s, at, 3)) = 3
         /\ \A sigs \in Seq(X) : [anchor |-> ItemsAt(s, at, 3), sigs |-> sigs] \in SignedSet(X)
<1>1. Len(s) \in Nat
  BY LenProperties DEF Streams
<1>2. at + 2 * 3 - 1 <= to /\ \A j \in 1..3 : s[at + 2 * (j - 1)].u = "matter"
  BY ThreeStand DEF AnchorStands
<1>3. at + 5 <= to /\ at + 6 \in 1..(Len(s) + 1) /\ at + 6 <= to + 1 /\ at + 2 * 3 - 1 <= Len(s)
  BY <1>1, <1>2
<1>4. ItemsAt(s, at, 3) \in Seq(X) /\ Len(ItemsAt(s, at, 3)) = 3
  <2>1. at \in Nat \ {0} /\ 3 \in Nat
    BY <1>1
  <2>2. \A j \in 1..3 : s[at + 2 * (j - 1)].u \in Heads
    BY <1>2 DEF Heads
  <2> QED
    BY <1>3, <2>1, <2>2, ItemsType, ZenonT(60)
<1> QED
  BY <1>3, <1>4 DEF SignedSet

\* The signatures after an anchor and the groups after them are read further on.
LEMMA TransAlike ==
  ASSUME NEW X, NEW s \in Streams(X), NEW f, NEW g, NEW at \in 1..(Len(s) + 1), Alike(X, s, f, g, at),
         NEW to \in 0..Len(s), at <= to + 1, NEW n \in Nat
  PROVE  /\ ParseTransGroups(f, s, at, to, n) = ParseTransGroups(g, s, at, to, n)
         /\ ParseTransGroups(f, s, at, to, n) \in GroupsRead(X, at, to)
<1>1. Len(s) \in Nat
  BY LenProperties DEF Streams
<1>2. CASE n = 0
  <2>1. /\ ParseTransGroups(f, s, at, to, n) = [ok |-> TRUE, next |-> at, groups |-> <<>>]
        /\ ParseTransGroups(g, s, at, to, n) = [ok |-> TRUE, next |-> at, groups |-> <<>>]
    BY <1>2 DEF ParseTransGroups
  <2>2. <<>> \in Seq(SignedSet(X)) /\ at \in at..(to + 1)
    BY EmptySeq, <1>1
  <2> QED
    BY <2>1, <2>2, ReadForms
<1>3. CASE n # 0 /\ ~AnchorStands(s, at, to)
  <2>1. ParseTransGroups(f, s, at, to, n) = Failed /\ ParseTransGroups(g, s, at, to, n) = Failed
    BY <1>3 DEF ParseTransGroups, AnchorStands
  <2> QED
    BY <2>1, ReadForms
<1>4. CASE n # 0 /\ AnchorStands(s, at, to)
  <2> DEFINE inner == f[AttachmentsFrom(at + 6, to)]
             rest(h) == h[GroupsFrom(inner.next, to, n - 1)]
             anchored == <<[anchor |-> ItemsAt(s, at, 3), sigs |-> SignaturesOf(inner)]>>
             outcome(h) == IF inner.ok /\ OnlySignatures(inner) /\ SignaturesOf(inner) # <<>> /\ rest(h).ok
                     THEN [ok |-> TRUE, next |-> rest(h).next, groups |-> anchored \o rest(h).groups]
                     ELSE Failed
  <2>1. /\ at + 6 \in 1..(Len(s) + 1) /\ at + 6 <= to + 1 /\ at + 6 > at
        /\ \A sigs \in Seq(X) : [anchor |-> ItemsAt(s, at, 3), sigs |-> sigs] \in SignedSet(X)
    BY <1>1, <1>4, AnchorType
  <2>2. inner = g[AttachmentsFrom(at + 6, to)] /\ inner \in AttachmentsRead(X, at + 6, to)
    <3>1. \A next \in 1..(Len(s) + 1) :
            next > at /\ next <= to + 1 =>
              /\ f[AttachmentsFrom(next, to)] = g[AttachmentsFrom(next, to)]
              /\ f[AttachmentsFrom(next, to)] \in AttachmentsRead(X, next, to)
      BY AlikeFurtherOn
    <3> QED
      BY <2>1, <3>1
  <2>3. ParseTransGroups(f, s, at, to, n) = outcome(f)
    BY <1>4 DEF ParseTransGroups, AnchorStands, OnlySignatures, SignaturesOf
  <2>4. ParseTransGroups(g, s, at, to, n) = outcome(g)
    <3>1. ParseTransGroups(g, s, at, to, n) =
            LET in == g[AttachmentsFrom(at + 6, to)]
                more == g[GroupsFrom(in.next, to, n - 1)]
            IN  IF in.ok /\ OnlySignatures(in) /\ SignaturesOf(in) # <<>> /\ more.ok
                THEN [ok |-> TRUE, next |-> more.next,
                      groups |-> <<[anchor |-> ItemsAt(s, at, 3), sigs |-> SignaturesOf(in)]>>
                                   \o more.groups]
                ELSE Failed
      BY <1>4 DEF ParseTransGroups, AnchorStands, OnlySignatures, SignaturesOf
    <3>2. g[AttachmentsFrom(at + 6, to)] = inner
      BY <2>2
    <3> HIDE DEF inner
    <3> QED
      BY <3>1, <3>2
  <2> HIDE DEF inner
  <2>5. CASE ~(inner.ok /\ OnlySignatures(inner))
    <3>1. outcome(f) = Failed /\ outcome(g) = Failed
      BY <2>5
    <3> HIDE DEF outcome
    <3> QED
      BY <2>3, <2>4, <3>1, ReadForms
  <2>6. CASE inner.ok /\ OnlySignatures(inner)
    <3>1. inner.next \in (at + 6)..(to + 1) /\ inner.atts \in Seq(Atts(X))
      BY <2>2, <2>6, ReadForms
    <3>2. inner.next \in 1..(Len(s) + 1) /\ inner.next > at /\ inner.next <= to + 1 /\ n - 1 \in Nat
      BY <1>1, <1>4, <3>1
    <3>3. rest(f) = rest(g) /\ rest(f) \in GroupsRead(X, inner.next, to)
      BY <3>2, AlikeFurtherOn
    <3>4. anchored \in Seq(SignedSet(X))
      <4>1. SignaturesOf(inner) \in Seq(X)
        BY <2>6, <3>1, SignaturesType
      <4>2. [anchor |-> ItemsAt(s, at, 3), sigs |-> SignaturesOf(inner)] \in SignedSet(X)
        BY <2>1, <4>1
      <4> QED
        BY <4>2
    <3> HIDE DEF anchored, rest
    <3>5. rest(f).ok => [ok |-> TRUE, next |-> rest(f).next, groups |-> anchored \o rest(f).groups]
                          \in GroupsRead(X, at, to)
      <4> SUFFICES ASSUME rest(f).ok
                   PROVE  [ok |-> TRUE, next |-> rest(f).next, groups |-> anchored \o rest(f).groups]
                            \in GroupsRead(X, at, to)
        OBVIOUS
      <4>1. rest(f).next \in inner.next..(to + 1) /\ rest(f).groups \in Seq(SignedSet(X))
        BY <3>3, ReadForms
      <4>2. rest(f).next \in at..(to + 1)
        BY <1>1, <3>2, <4>1
      <4>3. anchored \o rest(f).groups \in Seq(SignedSet(X))
        BY <3>4, <4>1, ConcatProperties
      <4> QED
        BY <4>2, <4>3, ReadForms
    <3>6. outcome(f) \in GroupsRead(X, at, to)
      BY <3>5, ReadForms
    <3>7. outcome(f) = outcome(g)
      BY <3>3
    <3> HIDE DEF outcome
    <3> QED
      BY <2>3, <2>4, <3>6, <3>7
  <2> QED
    BY <2>5, <2>6
<1> QED
  BY <1>2, <1>3, <1>4

\* The group of a counter is read further on.
LEMMA GroupAlike ==
  ASSUME NEW X, NEW s \in Streams(X), NEW f, NEW g, NEW at \in 1..Len(s), Alike(X, s, f, g, at),
         NEW to \in at..Len(s), NEW table \in Tables, NEW strictly \in BOOLEAN, s[at].u = "counter"
  PROVE  /\ ParseGroup(f, s, at, to, table, strictly) = ParseGroup(g, s, at, to, table, strictly)
         /\ ParseGroup(f, s, at, to, table, strictly) \in AttachmentsRead(X, at + 1, to)
<1> DEFINE kind == Classify(s[at].code, table)
           n == s[at].n
           trans(h) == h[GroupsFrom(at + 1, to, n)]
           unread == IF strictly THEN Failed ELSE Uninterpreted(s, at + 1, to)
           grouped(h) == IF n <= MaxAttachmentCount /\ trans(h).ok
                         THEN [ok |-> TRUE, next |-> trans(h).next,
                               atts |-> <<[kind |-> kind, groups |-> trans(h).groups]>>]
                         ELSE Failed
           wrapped(h) == ParseWrapped(h, at + 1, to, n)
           items == ParseItems(s, at + 1, to, kind, n)
           outcome(h) == CASE kind \in {"None", "TransReceiptQuadruples"} -> unread
                          [] kind = Wrapper -> wrapped(h)
                          [] kind = Trans -> grouped(h)
                          [] OTHER -> items
<1>1. /\ Len(s) \in Nat /\ s[at] \in UnitSet(X) /\ \A j \in 1..Len(s) : s[j] \in UnitSet(X)
      /\ at + 1 \in 1..(Len(s) + 1) /\ at + 1 > at /\ at + 1 <= to + 1 /\ to \in 0..Len(s)
      /\ at \in 1..(Len(s) + 1)
  BY LenProperties, ElementOfSeq DEF Streams
<1>2. n \in Nat
  BY <1>1, UnitType
<1>3. /\ ParseGroup(f, s, at, to, table, strictly) = outcome(f)
      /\ ParseGroup(g, s, at, to, table, strictly) = outcome(g)
  BY DEF ParseGroup, Trans
<1>4. kind \in Kinds
  BY ClassifyType
<1>5. unread \in AttachmentsRead(X, at + 1, to)
  <2>1. SubSeq(s, at + 1, to) \in Seq(UnitSet(X))
    BY <1>1, SubSeqProperties
  <2>2. [kind |-> "Unknown", raw |-> SubSeq(s, at + 1, to)] \in Atts(X)
    BY <2>1 DEF Atts
  <2> DEFINE atts == <<[kind |-> "Unknown", raw |-> SubSeq(s, at + 1, to)]>>
  <2>3. atts \in Seq(Atts(X))
    BY <2>2
  <2>4. Uninterpreted(s, at + 1, to) = [ok |-> TRUE, next |-> to + 1, atts |-> atts]
    BY DEF Uninterpreted
  <2>5. to + 1 \in (at + 1)..(to + 1)
    BY <1>1
  <2> HIDE DEF atts
  <2> QED
    BY <2>3, <2>4, <2>5, ReadForms
<1>6. wrapped(f) = wrapped(g) /\ wrapped(f) \in AttachmentsRead(X, at + 1, to)
  <2> HIDE DEF n
  <2> QED
    BY <1>2, WrappedAlike
<1>7. kind = Trans => grouped(f) = grouped(g) /\ grouped(f) \in AttachmentsRead(X, at + 1, to)
  <2> SUFFICES ASSUME kind = Trans
               PROVE  grouped(f) = grouped(g) /\ grouped(f) \in AttachmentsRead(X, at + 1, to)
    OBVIOUS
  <2> HIDE DEF n, kind
  <2>1. trans(f) = trans(g) /\ trans(f) \in GroupsRead(X, at + 1, to)
    BY <1>1, <1>2, AlikeFurtherOn
  <2> HIDE DEF trans
  <2>2. trans(f).ok => grouped(f) \in AttachmentsRead(X, at + 1, to)
    <3> SUFFICES ASSUME trans(f).ok
                 PROVE  grouped(f) \in AttachmentsRead(X, at + 1, to)
      OBVIOUS
    <3>1. trans(f).next \in (at + 1)..(to + 1) /\ trans(f).groups \in Seq(SignedSet(X))
      BY <2>1, ReadForms
    <3>2. [kind |-> kind, groups |-> trans(f).groups] \in Atts(X)
      BY <3>1 DEF Atts
    <3> DEFINE atts == <<[kind |-> kind, groups |-> trans(f).groups]>>
    <3>3. atts \in Seq(Atts(X))
      BY <3>2
    <3> HIDE DEF atts
    <3>4. [ok |-> TRUE, next |-> trans(f).next, atts |-> atts] \in AttachmentsRead(X, at + 1, to)
      BY <3>1, <3>3, ReadForms
    <3> QED
      BY <3>4, ReadForms DEF atts
  <2>3. ~trans(f).ok => grouped(f) \in AttachmentsRead(X, at + 1, to)
    BY ReadForms
  <2> QED
    BY <2>1, <2>2, <2>3
<1>8. kind \in Idx \cup Couples => items \in AttachmentsRead(X, at + 1, to)
  <2> HIDE DEF n, kind
  <2>1. at + 1 \in Nat \ {0}
    BY <1>1
  <2> QED
    BY <1>1, <1>2, <2>1, ItemsRead
<1> HIDE DEF kind, n, trans, unread, grouped, wrapped, items
<1>9. outcome(f) = outcome(g) /\ outcome(f) \in AttachmentsRead(X, at + 1, to)
  <2>1. CASE kind \in {"None", "TransReceiptQuadruples"}
    <3>1. outcome(f) = unread /\ outcome(g) = unread
      BY <2>1, KindsDiffer
    <3> QED
      BY <1>5, <3>1
  <2>2. CASE kind = Wrapper
    <3>1. outcome(f) = wrapped(f) /\ outcome(g) = wrapped(g)
      BY <2>2, KindsDiffer
    <3> QED
      BY <1>6, <3>1
  <2>3. CASE kind = Trans
    <3>1. outcome(f) = grouped(f) /\ outcome(g) = grouped(g)
      BY <2>3, KindsDiffer
    <3> QED
      BY <1>7, <2>3, <3>1
  <2>4. CASE kind \in Idx \cup Couples
    <3>1. outcome(f) = items /\ outcome(g) = items
      BY <2>4, KindsDiffer
    <3> QED
      BY <1>8, <2>4, <3>1
  <2> QED
    BY <1>4, <2>1, <2>2, <2>3, <2>4 DEF Kinds
<1> QED
  BY <1>3, <1>9

\* Attachments are read further on.
LEMMA AttachmentsAlike ==
  ASSUME NEW X, NEW s \in Streams(X), NEW f, NEW g, NEW at \in 1..(Len(s) + 1), Alike(X, s, f, g, at),
         NEW to \in 0..Len(s), at <= to + 1, NEW table \in Tables, NEW strictly \in BOOLEAN
  PROVE  /\ ParseAttachments(f, s, at, to, table, strictly) = ParseAttachments(g, s, at, to, table, strictly)
         /\ ParseAttachments(f, s, at, to, table, strictly) \in AttachmentsRead(X, at, to)
<1>1. Len(s) \in Nat
  BY LenProperties DEF Streams
<1>4. ASSUME NEW next \in 1..(Len(s) + 1), next > at, next <= to + 1
      PROVE  /\ f[AttachmentsFrom(next, to)] = g[AttachmentsFrom(next, to)]
             /\ f[AttachmentsFrom(next, to)] \in AttachmentsRead(X, next, to)
  BY <1>4, AlikeFurtherOn
<1>2. CASE at > to \/ s[at].u # "counter"
  <2>1. /\ ParseAttachments(f, s, at, to, table, strictly) = [ok |-> TRUE, next |-> at, atts |-> <<>>]
        /\ ParseAttachments(g, s, at, to, table, strictly) = [ok |-> TRUE, next |-> at, atts |-> <<>>]
    BY <1>2 DEF ParseAttachments
  <2>2. <<>> \in Seq(Atts(X)) /\ at \in at..(to + 1)
    BY EmptySeq, <1>1
  <2> QED
    BY <2>1, <2>2, ReadForms
<1>3. CASE ~(at > to \/ s[at].u # "counter")
  <2> DEFINE first(h) == ParseGroup(h, s, at, to, table, strictly)
             ascii == \A j \in at..to : Ascii(s[j])
             rest(h) == h[AttachmentsFrom(first(f).next, to)]
             outcome(h) == IF ascii /\ first(f).ok /\ rest(h).ok
                          THEN [ok |-> TRUE, next |-> rest(h).next, atts |-> first(f).atts \o rest(h).atts]
                          ELSE Failed
  <2>1. at \in 1..Len(s) /\ to \in at..Len(s)
    BY <1>1, <1>3
  <2>2. first(f) = first(g) /\ first(f) \in AttachmentsRead(X, at + 1, to)
    BY <1>3, <2>1, GroupAlike
  <2>3. /\ ParseAttachments(f, s, at, to, table, strictly) = outcome(f)
        /\ ParseAttachments(g, s, at, to, table, strictly) = outcome(g)
    BY <1>3, <2>2 DEF ParseAttachments
  <2> HIDE DEF first, ascii
  <2>4. CASE ~first(f).ok
    <3>1. outcome(f) = Failed /\ outcome(g) = Failed
      BY <2>4
    <3> HIDE DEF outcome
    <3> QED
      BY <2>3, <3>1, ReadForms
  <2>5. CASE first(f).ok
    <3>1. first(f).next \in (at + 1)..(to + 1) /\ first(f).atts \in Seq(Atts(X))
      BY <2>2, <2>5, ReadForms
    <3>2. first(f).next \in 1..(Len(s) + 1) /\ first(f).next > at /\ first(f).next <= to + 1
      BY <1>1, <2>1, <3>1
    <3>3. rest(f) = rest(g) /\ rest(f) \in AttachmentsRead(X, first(f).next, to)
      BY <1>4, <3>2
    <3> HIDE DEF rest
    <3>4. rest(f).ok => [ok |-> TRUE, next |-> rest(f).next, atts |-> first(f).atts \o rest(f).atts]
                          \in AttachmentsRead(X, at, to)
      <4> SUFFICES ASSUME rest(f).ok
                   PROVE  [ok |-> TRUE, next |-> rest(f).next, atts |-> first(f).atts \o rest(f).atts]
                            \in AttachmentsRead(X, at, to)
        OBVIOUS
      <4>1. rest(f).next \in first(f).next..(to + 1) /\ rest(f).atts \in Seq(Atts(X))
        BY <3>3, ReadForms
      <4>2. rest(f).next \in at..(to + 1)
        BY <1>1, <3>2, <4>1
      <4>3. first(f).atts \o rest(f).atts \in Seq(Atts(X))
        BY <3>1, <4>1, ConcatProperties
      <4> QED
        BY <4>2, <4>3, ReadForms
    <3>5. outcome(f) \in AttachmentsRead(X, at, to)
      BY <3>4, ReadForms
    <3>6. outcome(f) = outcome(g)
      BY <3>3
    <3> HIDE DEF outcome
    <3> QED
      BY <2>3, <3>5, <3>6
  <2> QED
    BY <2>4, <2>5
<1> QED
  BY <1>2, <1>3

\* So what a call gives depends on calls further on only.
LEMMA CallAlike ==
  ASSUME NEW X, NEW s \in Streams(X), NEW f, NEW g, NEW call \in Calls(s), Alike(X, s, f, g, call.at),
         NEW table \in Tables, NEW strictly \in BOOLEAN
  PROVE  /\ ParseCall(f, s, call, table, strictly) = ParseCall(g, s, call, table, strictly)
         /\ ParseCall(f, s, call, table, strictly) \in Read(X, call)
<1>1. /\ call.at \in 1..(Len(s) + 1) /\ call.to \in 0..Len(s) /\ call.at <= call.to + 1
      /\ call.left \in Nat
  BY CallForms
<1>2. CASE call.what = "attachments"
  <2>1. /\ ParseAttachments(f, s, call.at, call.to, table, strictly)
             = ParseAttachments(g, s, call.at, call.to, table, strictly)
        /\ ParseAttachments(f, s, call.at, call.to, table, strictly) \in AttachmentsRead(X, call.at, call.to)
    BY <1>1, AttachmentsAlike
  <2> QED
    BY <1>2, <2>1 DEF ParseCall, Read
<1>3. CASE call.what # "attachments"
  <2>1. /\ ParseTransGroups(f, s, call.at, call.to, call.left)
             = ParseTransGroups(g, s, call.at, call.to, call.left)
        /\ ParseTransGroups(f, s, call.at, call.to, call.left) \in GroupsRead(X, call.at, call.to)
    BY <1>1, TransAlike
  <2> QED
    BY <1>3, <2>1 DEF ParseCall, Read
<1> QED
  BY <1>2, <1>3

\* There is a function that gives what each call does, and Parsed is it.
LEMMA ParsedUnfolds ==
  ASSUME NEW X, NEW s \in Streams(X), NEW table \in Tables, NEW strictly \in BOOLEAN
  PROVE  \A call \in Calls(s) :
           /\ Parsed(s, table, strictly)[call] = ParseCall(Parsed(s, table, strictly), s, call, table, strictly)
           /\ Parsed(s, table, strictly)[call] \in Read(X, call)
<1> DEFINE N == Len(s) + 1
           C == Calls(s)
           gives(f, call) == ParseCall(f, s, call, table, strictly)
           Upto(k) == {call \in C : call.at > N - k}
           Right(f, k) == \A call \in Upto(k) : f[call] = gives(f, call) /\ f[call] \in Read(X, call)
           Able == {k \in 0..N : \E f : Right(f, k)}
<1>1. N \in Nat /\ \A call \in C : call.at \in 1..N
  BY LenProperties, CallForms DEF Streams
<1>2. ASSUME NEW f, NEW g, NEW call \in C, Alike(X, s, f, g, call.at)
      PROVE  gives(f, call) = gives(g, call) /\ gives(f, call) \in Read(X, call)
  BY <1>2, CallAlike
<1> HIDE DEF C, N, gives
<1>3. 0 \in Able
  <2>1. \A f : Right(f, 0)
    BY <1>1
  <2> QED
    BY <1>1, <2>1
<1>4. ASSUME NEW k \in 1..N, k - 1 \in Able
      PROVE  k \in Able
  <2>1. PICK f : Right(f, k - 1)
    BY <1>4
  <2> DEFINE g == [call \in C |-> IF call.at = N - (k - 1) THEN gives(f, call) ELSE f[call]]
  <2>2. \A call \in C : g[call] = IF call.at = N - (k - 1) THEN gives(f, call) ELSE f[call]
    OBVIOUS
  <2> HIDE DEF g
  <2>3. ASSUME NEW call \in Upto(k)
        PROVE  g[call] = gives(g, call) /\ g[call] \in Read(X, call)
    <3>1. call \in C /\ call.at > N - k /\ call.at \in 1..N
      BY <1>1
    <3>2. Alike(X, s, f, g, call.at)
      <4>1. \A c \in C : c.at > call.at =>
               c \in Upto(k - 1) /\ c.at # N - (k - 1)
        BY <1>1, <3>1
      <4>2. \A c \in C : c.at > call.at => f[c] = g[c] /\ f[c] \in Read(X, c)
        BY <2>1, <2>2, <4>1
      <4> QED
        BY <4>2 DEF Alike, C
    <3>3. gives(f, call) = gives(g, call) /\ gives(f, call) \in Read(X, call)
      BY <1>2, <3>1, <3>2
    <3>4. g[call] = gives(f, call)
      <4>1. CASE call.at = N - (k - 1)
        BY <2>2, <3>1, <4>1
      <4>2. CASE call.at # N - (k - 1)
        <5>1. call \in Upto(k - 1)
          BY <1>1, <3>1, <4>2
        <5> QED
          BY <2>1, <2>2, <3>1, <4>2, <5>1
      <4> QED
        BY <4>1, <4>2
    <3> QED
      BY <3>3, <3>4
  <2>4. Right(g, k)
    BY <2>3
  <2> HIDE DEF Right
  <2> QED
    BY <1>1, <2>4
<1>5. \A k \in 0..N : k \in Able
  <2> HIDE DEF Able
  <2> QED
    BY <1>1, <1>3, <1>4, Turns
<1>6. PICK f : Right(f, N)
  <2>1. N \in Able
    <3> HIDE DEF Able
    <3> QED
      BY <1>1, <1>5
  <2> HIDE DEF Right
  <2> QED
    BY <2>1
<1>7. Upto(N) = C
  BY <1>1
<1> DEFINE whole == [call \in C |-> f[call]]
<1>8. whole = [call \in C |-> gives(whole, call)]
  <2>1. ASSUME NEW call \in C
        PROVE  whole[call] = gives(whole, call)
    <3>1. Alike(X, s, f, whole, call.at)
      BY <1>6, <1>7 DEF Alike, C
    <3>2. gives(f, call) = gives(whole, call)
      <4> HIDE DEF whole
      <4> QED
        BY <1>2, <3>1
    <3> QED
      BY <1>6, <1>7, <3>2
  <2>2. \A call \in C : f[call] = gives(whole, call)
    BY <2>1
  <2> QED
    BY <2>2
<1> DEFINE P == CHOOSE h : h = [call \in C |-> gives(h, call)]
<1>9. P = Parsed(s, table, strictly)
  BY DEF Parsed, C, gives
<1>10. P = [call \in C |-> gives(P, call)]
  <2> HIDE DEF whole
  <2> QED
    BY <1>8, Zenon
<1> HIDE DEF P
<1>11. \A call \in C : P[call] = gives(P, call)
  BY <1>10
<1> DEFINE Typed == {n \in 1..N : \A call \in C : call.at = n => P[call] \in Read(X, call)}
<1>12. ASSUME NEW n \in 1..N, \A m \in (n + 1)..N : m \in Typed
       PROVE  n \in Typed
  <2>1. ASSUME NEW call \in C, call.at = n
        PROVE  P[call] \in Read(X, call)
    <3>1. Alike(X, s, P, P, call.at)
      <4>1. \A c \in C : c.at > call.at => c.at \in (n + 1)..N
        BY <1>1, <2>1
      <4>2. \A c \in C : c.at > call.at => P[c] \in Read(X, c)
        BY <1>12, <4>1
      <4> QED
        BY <4>2 DEF Alike, C
    <3>2. gives(P, call) \in Read(X, call)
      BY <1>2, <3>1
    <3> QED
      BY <1>11, <3>2
  <2> QED
    BY <2>1
<1>13. \A n \in 1..N : n \in Typed
  <2> HIDE DEF Typed
  <2> QED
    BY <1>1, <1>12, Backwards
<1>14. \A call \in C : P[call] \in Read(X, call)
  BY <1>1, <1>13
<1> QED
  BY <1>9, <1>11, <1>14 DEF C, gives

\* A function that gives what each call does
IsParsed(X, s, table, strictly, P) ==
  \A call \in Calls(s) :
    P[call] = ParseCall(P, s, call, table, strictly) /\ P[call] \in Read(X, call)

\* What it gives for attachments and for groups.
LEMMA ParsedCalls ==
  ASSUME NEW X, NEW s \in Streams(X), NEW table \in Tables, NEW strictly \in BOOLEAN,
         NEW P, IsParsed(X, s, table, strictly, P),
         NEW at \in 1..(Len(s) + 1), NEW to \in 0..Len(s), at <= to + 1
  PROVE  /\ P[AttachmentsFrom(at, to)] = ParseAttachments(P, s, at, to, table, strictly)
         /\ P[AttachmentsFrom(at, to)] \in AttachmentsRead(X, at, to)
         /\ \A n \in Nat : /\ P[GroupsFrom(at, to, n)] = ParseTransGroups(P, s, at, to, n)
                           /\ P[GroupsFrom(at, to, n)] \in GroupsRead(X, at, to)
<1>1. ASSUME NEW n \in Nat
      PROVE  /\ P[AttachmentsFrom(at, to)] = ParseAttachments(P, s, at, to, table, strictly)
             /\ P[AttachmentsFrom(at, to)] \in AttachmentsRead(X, at, to)
             /\ P[GroupsFrom(at, to, n)] = ParseTransGroups(P, s, at, to, n)
             /\ P[GroupsFrom(at, to, n)] \in GroupsRead(X, at, to)
  <2> DEFINE a == AttachmentsFrom(at, to)
             b == GroupsFrom(at, to, n)
  <2>1. /\ a \in Calls(s) /\ a.what = "attachments" /\ a.at = at /\ a.to = to
        /\ b \in Calls(s) /\ b.what = "groups" /\ b.at = at /\ b.to = to /\ b.left = n
    BY CallsAre
  <2> HIDE DEF a, b
  <2>2. /\ P[a] = ParseCall(P, s, a, table, strictly) /\ P[a] \in Read(X, a)
        /\ P[b] = ParseCall(P, s, b, table, strictly) /\ P[b] \in Read(X, b)
    BY <2>1 DEF IsParsed
  <2>3. /\ P[a] = ParseAttachments(P, s, at, to, table, strictly) /\ P[a] \in AttachmentsRead(X, at, to)
        /\ P[b] = ParseTransGroups(P, s, at, to, n) /\ P[b] \in GroupsRead(X, at, to)
    BY <2>1, <2>2 DEF ParseCall, Read
  <2> QED
    BY <2>3 DEF a, b
<1>2. 0 \in Nat
  OBVIOUS
<1> QED
  BY <1>1, <1>2

\* It reads like itself.
LEMMA ParsedAlike ==
  ASSUME NEW X, NEW s \in Streams(X), NEW table \in Tables, NEW strictly \in BOOLEAN,
         NEW P, IsParsed(X, s, table, strictly, P), NEW at
  PROVE  Alike(X, s, P, P, at)
BY DEF IsParsed, Alike

\* Attachments fall into a group and those further on
AttachmentsSplit(X, s, table, strictly, P, at, to) ==
  LET r == P[AttachmentsFrom(at, to)]
      first == ParseGroup(P, s, at, to, table, strictly)
  IN
  /\ at > to \/ s[at].u # "counter" => r = [ok |-> TRUE, next |-> at, atts |-> <<>>]
  /\ at <= to /\ s[at].u = "counter" =>
       /\ at \in 1..Len(s) /\ to \in at..Len(s) /\ first \in AttachmentsRead(X, at + 1, to)
       /\ first.ok => /\ first.next \in (at + 1)..(to + 1) /\ first.next \in 1..(Len(s) + 1)
                      /\ first.atts \in Seq(Atts(X))
                      /\ P[AttachmentsFrom(first.next, to)] \in AttachmentsRead(X, first.next, to)
       /\ r = IF /\ \A j \in at..to : Ascii(s[j])
                 /\ first.ok /\ P[AttachmentsFrom(first.next, to)].ok
              THEN [ok |-> TRUE, next |-> P[AttachmentsFrom(first.next, to)].next,
                    atts |-> first.atts \o P[AttachmentsFrom(first.next, to)].atts]
              ELSE Failed

\* Attachments are a group and those further on.
LEMMA AttachmentsAre ==
  ASSUME NEW X, NEW s \in Streams(X), NEW table \in Tables, NEW strictly \in BOOLEAN,
         NEW P, IsParsed(X, s, table, strictly, P),
         NEW at \in 1..(Len(s) + 1), NEW to \in 0..Len(s), at <= to + 1
  PROVE  AttachmentsSplit(X, s, table, strictly, P, at, to)
<1> DEFINE r == P[AttachmentsFrom(at, to)]
           first == ParseGroup(P, s, at, to, table, strictly)
<1>1. r = ParseAttachments(P, s, at, to, table, strictly)
  BY ParsedCalls
<1>2. at > to \/ s[at].u # "counter" => r = [ok |-> TRUE, next |-> at, atts |-> <<>>]
  BY <1>1 DEF ParseAttachments
<1>3. ASSUME at <= to, s[at].u = "counter"
      PROVE  /\ at \in 1..Len(s) /\ to \in at..Len(s) /\ first \in AttachmentsRead(X, at + 1, to)
             /\ first.ok => /\ first.next \in (at + 1)..(to + 1) /\ first.next \in 1..(Len(s) + 1)
                            /\ first.atts \in Seq(Atts(X))
                            /\ P[AttachmentsFrom(first.next, to)] \in AttachmentsRead(X, first.next, to)
             /\ r = IF /\ \A j \in at..to : Ascii(s[j])
                       /\ first.ok /\ P[AttachmentsFrom(first.next, to)].ok
                    THEN [ok |-> TRUE, next |-> P[AttachmentsFrom(first.next, to)].next,
                          atts |-> first.atts \o P[AttachmentsFrom(first.next, to)].atts]
                    ELSE Failed
  <2>1. Len(s) \in Nat /\ at \in 1..Len(s) /\ to \in at..Len(s)
    BY <1>3, LenProperties DEF Streams
  <2>2. Alike(X, s, P, P, at)
    BY ParsedAlike
  <2>3. first \in AttachmentsRead(X, at + 1, to)
    BY <1>3, <2>1, <2>2, GroupAlike
  <2>4. ASSUME first.ok
        PROVE  /\ first.next \in (at + 1)..(to + 1) /\ first.next \in 1..(Len(s) + 1)
               /\ first.atts \in Seq(Atts(X))
               /\ P[AttachmentsFrom(first.next, to)] \in AttachmentsRead(X, first.next, to)
    <3>1. first.next \in (at + 1)..(to + 1) /\ first.atts \in Seq(Atts(X))
      BY <2>3, <2>4, ReadForms
    <3>2. first.next \in 1..(Len(s) + 1) /\ first.next <= to + 1
      BY <2>1, <3>1
    <3> QED
      BY <3>1, <3>2, ParsedCalls
  <2>5. ~(at > to \/ s[at].u # "counter")
    BY <1>3, <2>1
  <2> QED
    BY <1>1, <2>1, <2>3, <2>4, <2>5 DEF ParseAttachments
<1> QED
  BY <1>2, <1>3 DEF AttachmentsSplit

\* What a group is by the kind of its counter
GroupSplit(s, table, strictly, P, at, to) ==
  LET kind == Classify(s[at].code, table)
      n == s[at].n
      first == ParseGroup(P, s, at, to, table, strictly)
  IN
  /\ kind \in Kinds /\ n \in Nat
  /\ kind \in {"None", "TransReceiptQuadruples"} =>
       first = IF strictly THEN Failed ELSE Uninterpreted(s, at + 1, to)
  /\ kind = Wrapper => first = ParseWrapped(P, at + 1, to, n)
  /\ kind = Trans =>
       first = IF n <= MaxAttachmentCount /\ P[GroupsFrom(at + 1, to, n)].ok
               THEN [ok |-> TRUE, next |-> P[GroupsFrom(at + 1, to, n)].next,
                     atts |-> <<[kind |-> kind, groups |-> P[GroupsFrom(at + 1, to, n)].groups]>>]
               ELSE Failed
  /\ kind \in Idx \cup Couples => first = ParseItems(s, at + 1, to, kind, n)

\* The group of a counter is what its code means.
LEMMA GroupIs ==
  ASSUME NEW X, NEW s \in Streams(X), NEW table \in Tables, NEW strictly \in BOOLEAN,
         NEW P, NEW at \in 1..Len(s), NEW to \in at..Len(s), s[at].u = "counter"
  PROVE  GroupSplit(s, table, strictly, P, at, to)
<1> DEFINE kind == Classify(s[at].code, table)
           n == s[at].n
           first == ParseGroup(P, s, at, to, table, strictly)
<1>1. n \in Nat
  <2>1. s[at] \in UnitSet(X)
    BY ElementOfSeq DEF Streams
  <2> QED
    BY <2>1, UnitType
<1>2. kind \in Kinds
  BY ClassifyType
<1> DEFINE unread == IF strictly THEN Failed ELSE Uninterpreted(s, at + 1, to)
           grouped == IF n <= MaxAttachmentCount /\ P[GroupsFrom(at + 1, to, n)].ok
                      THEN [ok |-> TRUE, next |-> P[GroupsFrom(at + 1, to, n)].next,
                            atts |-> <<[kind |-> kind, groups |-> P[GroupsFrom(at + 1, to, n)].groups]>>]
                      ELSE Failed
           wrapped == ParseWrapped(P, at + 1, to, n)
           items == ParseItems(s, at + 1, to, kind, n)
<1>3. first = CASE kind \in {"None", "TransReceiptQuadruples"} -> unread
                [] kind = Wrapper -> wrapped
                [] kind = Trans -> grouped
                [] OTHER -> items
  BY DEF ParseGroup, Trans
<1> HIDE DEF unread, grouped, wrapped, items
<1>4. kind \in {"None", "TransReceiptQuadruples"} => first = unread
  BY <1>3, KindsDiffer
<1>5. kind = Wrapper => first = wrapped
  BY <1>3, KindsDiffer
<1>6. kind = Trans => first = grouped
  BY <1>3, KindsDiffer
<1>7. kind \in Idx \cup Couples => first = items
  BY <1>3, KindsDiffer
<1> QED
  BY <1>1, <1>2, <1>4, <1>5, <1>6, <1>7 DEF unread, grouped, wrapped, items, GroupSplit

\* What a wrapper is, by what it holds
WrappedSplit(X, s, P, at, to, n) ==
  LET inner == P[AttachmentsFrom(at + 1, at + n)]
  IN
  /\ at + n <= to => /\ at + 1 \in 1..(Len(s) + 1) /\ at + n \in 0..Len(s)
                     /\ inner \in AttachmentsRead(X, at + 1, at + n)
  /\ ParseWrapped(P, at + 1, to, n) =
       IF at + n <= to /\ inner.ok /\ inner.next = (at + n) + 1
       THEN [ok |-> TRUE, next |-> (at + n) + 1, atts |-> inner.atts]
       ELSE Failed

\* What a wrapper holds is attachments that fill it.
LEMMA WrappedIs ==
  ASSUME NEW X, NEW s \in Streams(X), NEW table \in Tables, NEW strictly \in BOOLEAN,
         NEW P, IsParsed(X, s, table, strictly, P),
         NEW at \in 1..Len(s), NEW to \in at..Len(s), NEW n \in Nat
  PROVE  WrappedSplit(X, s, P, at, to, n)
<1> DEFINE inner == P[AttachmentsFrom(at + 1, at + n)]
<1>1. Len(s) \in Nat /\ (at + 1) + n - 1 = at + n
  BY LenProperties DEF Streams
<1>2. at + n <= to => /\ at + 1 \in 1..(Len(s) + 1) /\ at + n \in 0..Len(s)
                      /\ inner \in AttachmentsRead(X, at + 1, at + n)
  <2> HAVE at + n <= to
  <2>1. at + 1 \in 1..(Len(s) + 1) /\ at + n \in 0..Len(s) /\ at + 1 <= (at + n) + 1
    BY <1>1
  <2> QED
    BY <2>1, ParsedCalls
<1> QED
  BY <1>1, <1>2 DEF ParseWrapped, FillsSpan, WrappedSplit

\* Transferable groups fall into one and those further on
TransSplit(X, s, P, at, to, n) ==
  LET r == P[GroupsFrom(at, to, n)]
      inner == P[AttachmentsFrom(at + 6, to)]
  IN
  /\ n = 0 => r = [ok |-> TRUE, next |-> at, groups |-> <<>>]
  /\ n # 0 /\ ~AnchorStands(s, at, to) => r = Failed
  /\ n # 0 /\ AnchorStands(s, at, to) =>
       /\ at + 6 \in 1..(Len(s) + 1) /\ at + 6 <= to + 1 /\ n - 1 \in Nat
       /\ inner \in AttachmentsRead(X, at + 6, to)
       /\ inner.ok => /\ inner.next \in (at + 6)..(to + 1) /\ inner.next \in 1..(Len(s) + 1)
                      /\ inner.atts \in Seq(Atts(X))
                      /\ P[GroupsFrom(inner.next, to, n - 1)] \in GroupsRead(X, inner.next, to)
       /\ r = IF /\ inner.ok /\ OnlySignatures(inner) /\ SignaturesOf(inner) # <<>>
                 /\ P[GroupsFrom(inner.next, to, n - 1)].ok
              THEN [ok |-> TRUE, next |-> P[GroupsFrom(inner.next, to, n - 1)].next,
                    groups |-> <<[anchor |-> ItemsAt(s, at, 3), sigs |-> SignaturesOf(inner)]>>
                                 \o P[GroupsFrom(inner.next, to, n - 1)].groups]
              ELSE Failed

\* Groups are an anchor, the signatures after it, and the groups further on.
LEMMA TransAre ==
  ASSUME NEW X, NEW s \in Streams(X), NEW table \in Tables, NEW strictly \in BOOLEAN,
         NEW P, IsParsed(X, s, table, strictly, P),
         NEW at \in 1..(Len(s) + 1), NEW to \in 0..Len(s), at <= to + 1, NEW n \in Nat
  PROVE  TransSplit(X, s, P, at, to, n)
<1> DEFINE r == P[GroupsFrom(at, to, n)]
           inner == P[AttachmentsFrom(at + 6, to)]
<1>1. r = ParseTransGroups(P, s, at, to, n)
  BY ParsedCalls
<1>2. n = 0 => r = [ok |-> TRUE, next |-> at, groups |-> <<>>]
  BY <1>1 DEF ParseTransGroups
<1>3. n # 0 /\ ~AnchorStands(s, at, to) => r = Failed
  BY <1>1 DEF ParseTransGroups, AnchorStands
<1>4. ASSUME n # 0, AnchorStands(s, at, to)
      PROVE  /\ at + 6 \in 1..(Len(s) + 1) /\ at + 6 <= to + 1 /\ n - 1 \in Nat
             /\ inner \in AttachmentsRead(X, at + 6, to)
             /\ inner.ok => /\ inner.next \in (at + 6)..(to + 1) /\ inner.next \in 1..(Len(s) + 1)
                            /\ inner.atts \in Seq(Atts(X))
                            /\ P[GroupsFrom(inner.next, to, n - 1)] \in GroupsRead(X, inner.next, to)
  <2>1. /\ Len(s) \in Nat /\ at + 6 \in 1..(Len(s) + 1) /\ at + 6 <= to + 1 /\ n - 1 \in Nat
    <3>1. Len(s) \in Nat
      BY LenProperties DEF Streams
    <3>2. at + 6 <= to + 1
      BY <1>4, AnchorType
    <3> QED
      BY <1>4, <3>1, <3>2
  <2>2. inner \in AttachmentsRead(X, at + 6, to)
    BY <2>1, ParsedCalls
  <2>3. ASSUME inner.ok
        PROVE  /\ inner.next \in (at + 6)..(to + 1) /\ inner.next \in 1..(Len(s) + 1)
               /\ inner.atts \in Seq(Atts(X))
               /\ P[GroupsFrom(inner.next, to, n - 1)] \in GroupsRead(X, inner.next, to)
    <3>1. inner.next \in (at + 6)..(to + 1) /\ inner.atts \in Seq(Atts(X))
      BY <2>2, <2>3, ReadForms
    <3>2. inner.next \in 1..(Len(s) + 1) /\ inner.next <= to + 1
      BY <2>1, <3>1
    <3>3. \A m \in Nat : P[GroupsFrom(inner.next, to, m)] \in GroupsRead(X, inner.next, to)
      BY <3>2, ParsedCalls
    <3> QED
      BY <2>1, <3>1, <3>2, <3>3
  <2> QED
    BY <2>1, <2>2, <2>3
<1>5. ASSUME n # 0, AnchorStands(s, at, to)
      PROVE  r = IF /\ inner.ok /\ OnlySignatures(inner) /\ SignaturesOf(inner) # <<>>
                    /\ P[GroupsFrom(inner.next, to, n - 1)].ok
                 THEN [ok |-> TRUE, next |-> P[GroupsFrom(inner.next, to, n - 1)].next,
                       groups |-> <<[anchor |-> ItemsAt(s, at, 3), sigs |-> SignaturesOf(inner)]>>
                                    \o P[GroupsFrom(inner.next, to, n - 1)].groups]
                 ELSE Failed
  BY <1>1, <1>5 DEF ParseTransGroups, AnchorStands, OnlySignatures, SignaturesOf
<1> QED
  BY <1>2, <1>3, <1>4, <1>5 DEF TransSplit

----------------------------------------------------------------------------
(* A lenient parse without uninterpreted attachments is the strict one.    *)

\* Something has been left uninterpreted
Unread(r) == \E j \in DOMAIN r.atts : r.atts[j].kind = "Unknown"

\* What strict parsing gives where lenient parsing gives this
Agree(lenient, strictly) ==
  IF lenient.ok /\ ~Unread(lenient) THEN strictly = lenient ELSE ~strictly.ok

\* Both parses give the same groups at a place
SameGroups(L, S, at, to) == \A n \in Nat : L[GroupsFrom(at, to, n)] = S[GroupsFrom(at, to, n)]

\* They agree on attachments there too
AgreeFrom(L, S, at, to) ==
  Agree(L[AttachmentsFrom(at, to)], S[AttachmentsFrom(at, to)]) /\ SameGroups(L, S, at, to)

\* Lenient and strict parsing agree after a place
AgreeAfter(s, L, S, at) ==
  \A next \in 1..(Len(s) + 1), to \in 0..Len(s) :
    next > at /\ next <= to + 1 => AgreeFrom(L, S, next, to)

\* What is uninterpreted in two lists is so in one of them.
LEMMA UnreadInParts ==
  ASSUME NEW X, NEW a \in Seq(Atts(X)), NEW b \in Seq(Atts(X)), NEW r, NEW ra, NEW rb,
         r.atts = a \o b, ra.atts = a, rb.atts = b
  PROVE  Unread(r) <=> Unread(ra) \/ Unread(rb)
<1>1. /\ DOMAIN a = 1..Len(a) /\ DOMAIN b = 1..Len(b) /\ Len(a) \in Nat /\ Len(b) \in Nat
      /\ DOMAIN (a \o b) = 1..(Len(a) + Len(b))
      /\ \A i \in 1..(Len(a) + Len(b)) : (a \o b)[i] = IF i <= Len(a) THEN a[i] ELSE b[i - Len(a)]
  <2>1. a \o b \in Seq(Atts(X)) /\ Len(a \o b) = Len(a) + Len(b)
    BY ConcatProperties
  <2> QED
    BY <2>1, LenProperties, ConcatProperties
<1> DEFINE c == a \o b
<1>2. /\ DOMAIN c = 1..(Len(a) + Len(b))
      /\ \A i \in 1..(Len(a) + Len(b)) : c[i] = IF i <= Len(a) THEN a[i] ELSE b[i - Len(a)]
  BY <1>1
<1> HIDE DEF c
<1>3. ASSUME NEW i \in 1..Len(a)
      PROVE  i \in DOMAIN c /\ c[i] = a[i]
  BY <1>1, <1>2
<1>4. ASSUME NEW i \in 1..Len(b)
      PROVE  Len(a) + i \in DOMAIN c /\ c[Len(a) + i] = b[i]
  <2>1. Len(a) + i \in 1..(Len(a) + Len(b)) /\ ~(Len(a) + i <= Len(a)) /\ (Len(a) + i) - Len(a) = i
    BY <1>1
  <2> QED
    BY <1>2, <2>1
<1>5. ASSUME NEW i \in DOMAIN c
      PROVE  (i \in 1..Len(a) /\ c[i] = a[i]) \/ (i - Len(a) \in 1..Len(b) /\ c[i] = b[i - Len(a)])
  BY <1>1, <1>2
<1> DEFINE Unknown(x) == \E j \in DOMAIN x : x[j].kind = "Unknown"
<1>6. ASSUME Unknown(c)
      PROVE  Unknown(a) \/ Unknown(b)
  <2>1. PICK i \in DOMAIN c : c[i].kind = "Unknown"
    BY <1>6
  <2> QED
    BY <1>1, <1>5, <2>1
<1>7. ASSUME Unknown(a)
      PROVE  Unknown(c)
  <2>1. PICK i \in 1..Len(a) : a[i].kind = "Unknown"
    BY <1>1, <1>7
  <2> QED
    BY <1>3, <2>1
<1>8. ASSUME Unknown(b)
      PROVE  Unknown(c)
  <2>1. PICK i \in 1..Len(b) : b[i].kind = "Unknown"
    BY <1>1, <1>8
  <2> QED
    BY <1>4, <2>1
<1>9. Unknown(c) <=> Unknown(a) \/ Unknown(b)
  <2> HIDE DEF Unknown
  <2> QED
    BY <1>6, <1>7, <1>8
<1> QED
  BY <1>9 DEF Unread, c

\* The group of a counter agrees when what is further on does.
LEMMA GroupAgrees ==
  ASSUME NEW X, NEW s \in Streams(X), NEW table \in Tables,
         NEW lax \in BOOLEAN, lax = FALSE, NEW firm \in BOOLEAN, firm = TRUE,
         NEW L, IsParsed(X, s, table, lax, L), NEW S, IsParsed(X, s, table, firm, S),
         NEW at \in 1..Len(s), NEW to \in at..Len(s), s[at].u = "counter",
         AgreeAfter(s, L, S, at),
         NEW lenient, lenient = ParseGroup(L, s, at, to, table, lax),
         NEW strictly, strictly = ParseGroup(S, s, at, to, table, firm)
  PROVE  Agree(lenient, strictly)
<1> DEFINE kind == Classify(s[at].code, table)
           n == s[at].n
<1>1. Len(s) \in Nat /\ at + 1 <= to + 1 /\ to \in 0..Len(s) /\ at + 1 \in 1..(Len(s) + 1) /\ at + 1 > at
  BY LenProperties DEF Streams
<1>0. GroupSplit(s, table, lax, L, at, to) /\ GroupSplit(s, table, firm, S, at, to)
  BY GroupIs
<1>2. kind \in Kinds /\ n \in Nat
  BY <1>0 DEF GroupSplit
<1>3. CASE kind \in {"None", "TransReceiptQuadruples"}
  <2>1. lenient = Uninterpreted(s, at + 1, to) /\ strictly = Failed
    BY <1>0, <1>3 DEF GroupSplit
  <2>2. DOMAIN lenient.atts = 1..1 /\ lenient.atts[1].kind = "Unknown"
    BY <2>1 DEF Uninterpreted
  <2> QED
    BY <2>1, <2>2 DEF Agree, Unread, Failed
<1>4. CASE kind = Wrapper
  <2> DEFINE l == L[AttachmentsFrom(at + 1, at + n)]
             t == S[AttachmentsFrom(at + 1, at + n)]
  <2>1. lenient = ParseWrapped(L, at + 1, to, n) /\ strictly = ParseWrapped(S, at + 1, to, n)
    BY <1>0, <1>4 DEF GroupSplit
  <2> HIDE DEF n, kind
  <2>0. WrappedSplit(X, s, L, at, to, n) /\ WrappedSplit(X, s, S, at, to, n)
    BY <1>2, WrappedIs
  <2>2. lenient = IF at + n <= to /\ l.ok /\ l.next = (at + n) + 1
                  THEN [ok |-> TRUE, next |-> (at + n) + 1, atts |-> l.atts]
                  ELSE Failed
    BY <2>0, <2>1 DEF WrappedSplit
  <2>3. strictly = IF at + n <= to /\ t.ok /\ t.next = (at + n) + 1
                   THEN [ok |-> TRUE, next |-> (at + n) + 1, atts |-> t.atts]
                   ELSE Failed
    BY <2>0, <2>1 DEF WrappedSplit
  <2>4. CASE ~(at + n <= to)
    BY <2>2, <2>3, <2>4 DEF Agree, Failed
  <2>5. CASE at + n <= to
    <3>1. at + n \in 0..Len(s) /\ at + 1 <= (at + n) + 1
      BY <1>1, <1>2, <2>5
    <3>2. Agree(l, t)
      BY <1>1, <3>1 DEF AgreeAfter, AgreeFrom, SameGroups
    <3> HIDE DEF l, t
    <3>3. CASE l.ok /\ ~Unread(l)
      <4>1. t = l
        BY <3>2, <3>3 DEF Agree
      <4>2. CASE l.next = (at + n) + 1
        <5>1. strictly = lenient /\ lenient.ok /\ lenient.atts = l.atts
          BY <2>2, <2>3, <2>5, <3>3, <4>1, <4>2
        <5> QED
          BY <3>3, <5>1 DEF Agree, Unread
      <4>3. CASE l.next # (at + n) + 1
        <5>1. lenient = Failed /\ strictly = Failed
          BY <2>2, <2>3, <4>1, <4>3
        <5> QED
          BY <5>1 DEF Agree, Failed
      <4> QED
        BY <4>2, <4>3
    <3>4. CASE ~(l.ok /\ ~Unread(l))
      <4>1. ~t.ok
        BY <3>2, <3>4 DEF Agree
      <4>2. strictly = Failed
        BY <2>3, <4>1
      <4>3. lenient.ok => Unread(lenient)
        <5>1. lenient.ok => l.ok /\ lenient.atts = l.atts
          BY <2>2 DEF Failed
        <5> QED
          BY <3>4, <5>1 DEF Unread
      <4> QED
        BY <4>2, <4>3 DEF Agree, Failed
    <3> QED
      BY <3>3, <3>4
  <2> QED
    BY <2>4, <2>5
<1>5. CASE kind = Trans
  <2> DEFINE l == L[GroupsFrom(at + 1, to, n)]
             t == S[GroupsFrom(at + 1, to, n)]
  <2>1. /\ lenient = IF n <= MaxAttachmentCount /\ l.ok
                     THEN [ok |-> TRUE, next |-> l.next, atts |-> <<[kind |-> kind, groups |-> l.groups]>>]
                     ELSE Failed
        /\ strictly = IF n <= MaxAttachmentCount /\ t.ok
                     THEN [ok |-> TRUE, next |-> t.next, atts |-> <<[kind |-> kind, groups |-> t.groups]>>]
                     ELSE Failed
    BY <1>0, <1>5 DEF GroupSplit
  <2> HIDE DEF n, kind
  <2>2. l = t
    BY <1>1, <1>2 DEF AgreeAfter, AgreeFrom, SameGroups
  <2> HIDE DEF l, t
  <2>3. lenient = strictly
    BY <2>1, <2>2
  <2>4. lenient.ok => ~Unread(lenient)
    <3> HAVE lenient.ok
    <3>1. lenient.atts = <<[kind |-> kind, groups |-> l.groups]>>
      BY <2>1 DEF Failed
    <3>2. kind # "Unknown"
      BY <1>5 DEF Trans
    <3> QED
      BY <3>1, <3>2 DEF Unread
  <2> QED
    BY <2>3, <2>4 DEF Agree
<1>6. CASE kind \in Idx \cup Couples
  <2>1. lenient = ParseItems(s, at + 1, to, kind, n) /\ strictly = ParseItems(s, at + 1, to, kind, n)
    BY <1>0, <1>6 DEF GroupSplit
  <2> HIDE DEF n, kind
  <2>3. lenient.ok => ~Unread(lenient)
    <3> HAVE lenient.ok
    <3> DEFINE size == IF kind \in Idx THEN n ELSE 2 * n
               items == ItemsAt(s, at + 1, size)
               unit == IF kind \in Idx THEN "indexed" ELSE "matter"
               stands == n <= MaxAttachmentCount /\ Stand(s, at + 1, to, [j \in 1..size |-> unit])
    <3>0. lenient = IF stands
                    THEN [ok |-> TRUE, next |-> at + 1 + 2 * size,
                          atts |-> <<[kind |-> kind, items |-> items]>>]
                    ELSE Failed
      BY <2>1 DEF ParseItems
    <3> HIDE DEF items, stands, size
    <3>1. lenient.atts = <<[kind |-> kind, items |-> items]>>
      BY <3>0 DEF Failed
    <3> QED
      BY <1>6, <3>1, KindsDiffer DEF Unread
  <2> QED
    BY <2>1, <2>3 DEF Agree
<1> QED
  BY <1>2, <1>3, <1>4, <1>5, <1>6 DEF Kinds

\* Attachments agree when what is further on does.
LEMMA AttachmentsAgree ==
  ASSUME NEW X, NEW s \in Streams(X), NEW table \in Tables,
         NEW lax \in BOOLEAN, lax = FALSE, NEW firm \in BOOLEAN, firm = TRUE,
         NEW L, IsParsed(X, s, table, lax, L), NEW S, IsParsed(X, s, table, firm, S),
         NEW at \in 1..(Len(s) + 1), NEW to \in 0..Len(s), at <= to + 1,
         AgreeAfter(s, L, S, at)
  PROVE  Agree(L[AttachmentsFrom(at, to)], S[AttachmentsFrom(at, to)])
<1> DEFINE l == L[AttachmentsFrom(at, to)]
           t == S[AttachmentsFrom(at, to)]
<1>0. /\ AttachmentsSplit(X, s, table, lax, L, at, to)
      /\ AttachmentsSplit(X, s, table, firm, S, at, to)
  BY AttachmentsAre
<1>1. CASE at > to \/ s[at].u # "counter"
  <2>1. l = [ok |-> TRUE, next |-> at, atts |-> <<>>]
    BY <1>0, <1>1 DEF AttachmentsSplit
  <2>2. t = [ok |-> TRUE, next |-> at, atts |-> <<>>]
    BY <1>0, <1>1 DEF AttachmentsSplit
  <2> HIDE DEF l, t
  <2>3. Agree(l, t)
    BY <2>1, <2>2 DEF Agree, Unread
  <2> QED
    BY <2>3 DEF l, t
<1>2. CASE at <= to /\ s[at].u = "counter"
  <2> DEFINE ascii == \A j \in at..to : Ascii(s[j])
             lf == ParseGroup(L, s, at, to, table, lax)
             tf == ParseGroup(S, s, at, to, table, firm)
             lr == L[AttachmentsFrom(lf.next, to)]
             tr == S[AttachmentsFrom(tf.next, to)]
  <2>1. /\ at \in 1..Len(s) /\ to \in at..Len(s)
        /\ lf.ok => /\ lf.next \in (at + 1)..(to + 1) /\ lf.next \in 1..(Len(s) + 1)
                    /\ lf.atts \in Seq(Atts(X)) /\ lr \in AttachmentsRead(X, lf.next, to)
        /\ l = IF ascii /\ lf.ok /\ lr.ok
               THEN [ok |-> TRUE, next |-> lr.next, atts |-> lf.atts \o lr.atts]
               ELSE Failed
    BY <1>0, <1>2 DEF AttachmentsSplit
  <2>2. /\ tf.ok => tf.next \in (at + 1)..(to + 1)
        /\ t = IF ascii /\ tf.ok /\ tr.ok
               THEN [ok |-> TRUE, next |-> tr.next, atts |-> tf.atts \o tr.atts]
               ELSE Failed
    BY <1>0, <1>2 DEF AttachmentsSplit
  <2>3. Agree(lf, tf)
    BY <1>2, <2>1, GroupAgrees
  <2>5. lf.ok => Agree(lr, S[AttachmentsFrom(lf.next, to)])
    <3> HAVE lf.ok
    <3>1. lf.next \in 1..(Len(s) + 1) /\ lf.next > at /\ lf.next <= to + 1
      BY <2>1
    <3> HIDE DEF lf
    <3> QED
      BY <3>1 DEF AgreeAfter, AgreeFrom, SameGroups
  <2> HIDE DEF l, t, lf, tf, ascii
  <2>6. CASE lf.ok /\ ~Unread(lf)
    <3>1. tf = lf /\ tr = S[AttachmentsFrom(lf.next, to)]
      BY <2>3, <2>6 DEF Agree
    <3>2. Agree(lr, tr)
      BY <2>5, <2>6, <3>1
    <3> HIDE DEF lr, tr
    <3>3. lr.ok => (Unread(l) <=> Unread(lf) \/ Unread(lr)) \/ ~ascii
      <4> SUFFICES ASSUME lr.ok, ascii
                   PROVE  Unread(l) <=> Unread(lf) \/ Unread(lr)
        OBVIOUS
      <4>1. lr.atts \in Seq(Atts(X)) /\ lf.atts \in Seq(Atts(X))
        BY <2>1, <2>6, ReadForms
      <4>2. l.atts = lf.atts \o lr.atts
        BY <2>1, <2>6
      <4> QED
        BY <4>1, <4>2, UnreadInParts
    <3>4. CASE ~ascii
      <4>1. l = Failed /\ t = Failed
        BY <2>1, <2>2, <3>4
      <4>2. Agree(l, t)
        BY <4>1 DEF Agree, Failed
      <4> QED
        BY <4>2 DEF l, t
    <3>5. CASE ascii /\ lr.ok /\ ~Unread(lr)
      <4>1. tr = lr
        BY <3>2, <3>5 DEF Agree
      <4>2. l = t
        BY <2>1, <2>2, <3>1, <4>1
      <4>3. l.ok /\ ~Unread(l)
        BY <2>1, <2>6, <3>3, <3>5
      <4>4. Agree(l, t)
        BY <4>2, <4>3 DEF Agree
      <4> QED
        BY <4>4 DEF l, t
    <3>6. CASE ascii /\ ~(lr.ok /\ ~Unread(lr))
      <4>1. ~tr.ok
        BY <3>2, <3>6 DEF Agree
      <4>2. t = Failed
        BY <2>2, <4>1
      <4>3. l.ok => Unread(l)
        <5>1. l.ok => lr.ok
          BY <2>1 DEF Failed
        <5> QED
          BY <3>3, <3>6, <5>1
      <4>4. Agree(l, t)
        BY <4>2, <4>3 DEF Agree, Failed
      <4> QED
        BY <4>4 DEF l, t
    <3> QED
      BY <3>4, <3>5, <3>6
  <2>7. CASE ~(lf.ok /\ ~Unread(lf))
    <3>1. ~tf.ok
      BY <2>3, <2>7 DEF Agree
    <3>2. t = Failed
      BY <2>2, <3>1
    <3> HIDE DEF lr, tr
    <3>3. l.ok => Unread(l)
      <4> HAVE l.ok
      <4>1. lf.ok /\ lr.ok /\ l.atts = lf.atts \o lr.atts
        BY <2>1 DEF Failed
      <4>2. lr.atts \in Seq(Atts(X)) /\ lf.atts \in Seq(Atts(X))
        BY <2>1, <4>1, ReadForms
      <4>3. Unread(l) <=> Unread(lf) \/ Unread(lr)
        BY <4>1, <4>2, UnreadInParts
      <4> QED
        BY <2>7, <4>1, <4>3
    <3>4. Agree(l, t)
      BY <3>2, <3>3 DEF Agree, Failed
    <3> QED
      BY <3>4 DEF l, t
  <2> QED
    BY <2>6, <2>7
<1> QED
  BY <1>1, <1>2

\* Transferable groups are the same when what is further on agrees.
LEMMA TransAgree ==
  ASSUME NEW X, NEW s \in Streams(X), NEW table \in Tables,
         NEW lax \in BOOLEAN, lax = FALSE, NEW firm \in BOOLEAN, firm = TRUE,
         NEW L, IsParsed(X, s, table, lax, L), NEW S, IsParsed(X, s, table, firm, S),
         NEW at \in 1..(Len(s) + 1), NEW to \in 0..Len(s), at <= to + 1,
         AgreeAfter(s, L, S, at)
  PROVE  SameGroups(L, S, at, to)
<1> SUFFICES ASSUME NEW n \in Nat
             PROVE  L[GroupsFrom(at, to, n)] = S[GroupsFrom(at, to, n)]
  BY DEF SameGroups
<1> DEFINE l == L[GroupsFrom(at, to, n)]
           t == S[GroupsFrom(at, to, n)]
           li == L[AttachmentsFrom(at + 6, to)]
           ti == S[AttachmentsFrom(at + 6, to)]
           lr == L[GroupsFrom(li.next, to, n - 1)]
           tr == S[GroupsFrom(ti.next, to, n - 1)]
<1>0. TransSplit(X, s, L, at, to, n) /\ TransSplit(X, s, S, at, to, n)
  BY TransAre
<1>1. CASE n = 0
  <2>1. l = [ok |-> TRUE, next |-> at, groups |-> <<>>]
    BY <1>0, <1>1 DEF TransSplit
  <2>2. t = [ok |-> TRUE, next |-> at, groups |-> <<>>]
    BY <1>0, <1>1 DEF TransSplit
  <2> QED
    BY <2>1, <2>2
<1>2. CASE n # 0 /\ ~AnchorStands(s, at, to)
  <2>1. l = Failed
    BY <1>0, <1>2 DEF TransSplit
  <2>2. t = Failed
    BY <1>0, <1>2 DEF TransSplit
  <2> QED
    BY <2>1, <2>2
<1>3. CASE n # 0 /\ AnchorStands(s, at, to)
  <2>1. /\ at + 6 \in 1..(Len(s) + 1) /\ at + 6 <= to + 1 /\ n - 1 \in Nat
        /\ li.ok => li.next \in (at + 6)..(to + 1) /\ li.next \in 1..(Len(s) + 1)
        /\ l = IF li.ok /\ OnlySignatures(li) /\ SignaturesOf(li) # <<>> /\ lr.ok
               THEN [ok |-> TRUE, next |-> lr.next,
                     groups |-> <<[anchor |-> ItemsAt(s, at, 3), sigs |-> SignaturesOf(li)]>> \o lr.groups]
               ELSE Failed
    BY <1>0, <1>3 DEF TransSplit
  <2>2. t = IF ti.ok /\ OnlySignatures(ti) /\ SignaturesOf(ti) # <<>> /\ tr.ok
            THEN [ok |-> TRUE, next |-> tr.next,
                  groups |-> <<[anchor |-> ItemsAt(s, at, 3), sigs |-> SignaturesOf(ti)]>> \o tr.groups]
            ELSE Failed
    BY <1>0, <1>3 DEF TransSplit
  <2>3. Agree(li, ti)
    <3>1. at + 6 > at
      BY <2>1
    <3> QED
      BY <2>1, <3>1 DEF AgreeAfter, AgreeFrom, SameGroups
  <2> HIDE DEF l, t, li, ti
  <2>4. CASE li.ok /\ ~Unread(li)
    <3>1. ti = li
      BY <2>3, <2>4 DEF Agree
    <3>2. li.next > at /\ li.next <= to + 1 /\ li.next \in 1..(Len(s) + 1)
      BY <2>1, <2>4
    <3>3. lr = tr
      BY <2>1, <3>1, <3>2 DEF AgreeAfter, AgreeFrom, SameGroups
    <3> HIDE DEF lr, tr
    <3>4. l = t
      BY <2>1, <2>2, <3>1, <3>3
    <3> QED
      BY <3>4 DEF l, t
  <2>5. CASE ~(li.ok /\ ~Unread(li))
    <3>1. ~ti.ok
      BY <2>3, <2>5 DEF Agree
    <3>2. li.ok => ~OnlySignatures(li)
      BY <2>5, KindsDiffer DEF Unread, OnlySignatures
    <3>3. l = Failed /\ t = Failed
      BY <2>1, <2>2, <3>1, <3>2
    <3> QED
      BY <3>3 DEF l, t
  <2> QED
    BY <2>4, <2>5
<1> QED
  BY <1>1, <1>2, <1>3

\* So both agree wherever they are called.
LEMMA ParsesAgree ==
  ASSUME NEW X, NEW s \in Streams(X), NEW table \in Tables,
         NEW lax \in BOOLEAN, lax = FALSE, NEW firm \in BOOLEAN, firm = TRUE,
         NEW L, IsParsed(X, s, table, lax, L), NEW S, IsParsed(X, s, table, firm, S)
  PROVE  \A at \in 1..(Len(s) + 1), to \in 0..Len(s) :
           at <= to + 1 => Agree(L[AttachmentsFrom(at, to)], S[AttachmentsFrom(at, to)])
<1> DEFINE N == Len(s) + 1
           Same == {at \in 1..N : \A to \in 0..Len(s) : at <= to + 1 => AgreeFrom(L, S, at, to)}
<1>1. N \in Nat /\ Len(s) \in Nat
  BY LenProperties DEF Streams
<1>2. ASSUME NEW at \in 1..N, \A next \in (at + 1)..N : next \in Same
      PROVE  at \in Same
  <2>1. AgreeAfter(s, L, S, at)
    <3>1. ASSUME NEW next \in 1..N, NEW to \in 0..Len(s), next > at, next <= to + 1
          PROVE  AgreeFrom(L, S, next, to)
      <4>1. next \in (at + 1)..N
        BY <1>1, <3>1
      <4>2. next \in Same
        BY <1>2, <4>1
      <4> QED
        BY <3>1, <4>2
    <3> QED
      BY <3>1 DEF AgreeAfter
  <2>2. ASSUME NEW to \in 0..Len(s), at <= to + 1
        PROVE  AgreeFrom(L, S, at, to)
    <3>1. Agree(L[AttachmentsFrom(at, to)], S[AttachmentsFrom(at, to)])
      BY <2>1, <2>2, AttachmentsAgree
    <3>2. SameGroups(L, S, at, to)
      BY <2>1, <2>2, TransAgree
    <3> QED
      BY <3>1, <3>2 DEF AgreeFrom
  <2> QED
    BY <2>2
<1>3. \A at \in 1..N : at \in Same
  <2> HIDE DEF Same
  <2> QED
    BY <1>1, <1>2, Backwards
<1> QED
  BY <1>3 DEF AgreeFrom

----------------------------------------------------------------------------
(* The stream and the next message of it.                                  *)

\* What is parsed unfolds at every place.
LEMMA ParsedIsParsed ==
  ASSUME NEW X, NEW s \in Streams(X), NEW table \in Tables, NEW strictly \in BOOLEAN
  PROVE  IsParsed(X, s, table, strictly, Parsed(s, table, strictly))
BY ParsedUnfolds DEF IsParsed

\* Where the attachments of a message start
Starts(s, at) == IF s[at].x.major = 0 THEN Len(s) + 1 ELSE at + 2

\* A message that stands has a body, with a tail.
LEMMA BodyIs ==
  ASSUME NEW X, NEW s \in Streams(X), NEW at \in 1..Len(s), BodyStands(s, at)
  PROVE  /\ s[at].u = "body" /\ s[at].x \in X /\ at + 1 \in 1..Len(s) /\ s[at + 1].u = "tail"
         /\ Starts(s, at) \in 1..(Len(s) + 1) /\ Starts(s, at) >= at + 2
         /\ s[at].x.major = 0 /\ s[at].x.json => \A j \in (at + 2)..Len(s) : s[j].u = "space"
<1>1. Len(s) \in Nat /\ s[at] \in UnitSet(X) /\ s[at].u = "body" /\ at + 1 <= Len(s)
  BY ElementOfSeq, LenProperties DEF Streams, BodyStands
<1>2. s[at].x \in X
  BY <1>1, UnitType DEF Heads
<1>3. at + 1 \in 1..Len(s) /\ at \in 1..(Len(s) - 1)
  BY <1>1
<1>4. s[at + 1].u = "tail"
  BY <1>1, <1>3 DEF Streams, Heads
<1>5. Starts(s, at) \in 1..(Len(s) + 1) /\ Starts(s, at) >= at + 2
  BY <1>1, <1>3 DEF Starts
<1> QED
  BY <1>1, <1>2, <1>3, <1>4, <1>5 DEF BodyStands

\* What is read after the body of a message
ReadAfterBody(s, at, strictly) ==
  Parsed(s, TableFromMajor(s[at].x.major), strictly)[AttachmentsFrom(Starts(s, at), Len(s))]

\* The next message is a body and what is read after it.
LEMMA NextIs ==
  ASSUME NEW X, NEW s \in Streams(X), NEW at \in 1..Len(s), NEW strictly \in BOOLEAN
  PROVE  /\ ~BodyStands(s, at) => ParseNext(s, at, strictly) = Failed
         /\ BodyStands(s, at) =>
              /\ ReadAfterBody(s, at, strictly) \in AttachmentsRead(X, Starts(s, at), Len(s))
              /\ ParseNext(s, at, strictly) =
                   IF ReadAfterBody(s, at, strictly).ok
                   THEN [ok |-> TRUE, next |-> ReadAfterBody(s, at, strictly).next,
                         message |-> [body |-> s[at].x, unread |-> RestInRaw(s, at),
                                      attachments |-> ReadAfterBody(s, at, strictly).atts]]
                   ELSE Failed
<1>1. ASSUME BodyStands(s, at)
      PROVE  ReadAfterBody(s, at, strictly) \in AttachmentsRead(X, Starts(s, at), Len(s))
  <2> DEFINE table == TableFromMajor(s[at].x.major)
             P == Parsed(s, table, strictly)
             from == Starts(s, at)
  <2>1. table \in Tables
    BY TableType
  <2> HIDE DEF table
  <2>2. IsParsed(X, s, table, strictly, P)
    BY <2>1, ParsedIsParsed
  <2>3. Len(s) \in 0..Len(s)
    BY LenProperties DEF Streams
  <2>4. from \in 1..(Len(s) + 1) /\ from <= Len(s) + 1
    BY <1>1, <2>3, BodyIs
  <2> HIDE DEF P, from
  <2>5. P[AttachmentsFrom(from, Len(s))] \in AttachmentsRead(X, from, Len(s))
    BY <2>1, <2>2, <2>3, <2>4, ParsedCalls
  <2> QED
    BY <2>5 DEF P, from, table, ReadAfterBody
<1>2. ~BodyStands(s, at) => ParseNext(s, at, strictly) = Failed
  BY DEF ParseNext
<1>3. BodyStands(s, at) =>
        ParseNext(s, at, strictly) =
          IF ReadAfterBody(s, at, strictly).ok
          THEN [ok |-> TRUE, next |-> ReadAfterBody(s, at, strictly).next,
                message |-> [body |-> s[at].x, unread |-> RestInRaw(s, at),
                             attachments |-> ReadAfterBody(s, at, strictly).atts]]
          ELSE Failed
  BY DEF ParseNext, ReadAfterBody, Starts
<1> QED
  BY <1>1, <1>2, <1>3

\* A lenient parse of the next message without uninterpreted attachments is the
\* strict one (parse_next_lenient and parse_next).
LEMMA NextAgrees ==
  ASSUME NEW X, NEW s \in Streams(X), NEW at \in 1..Len(s),
         NEW lax \in BOOLEAN, lax = FALSE, NEW firm \in BOOLEAN, firm = TRUE
  PROVE  IF ParseNext(s, at, lax).ok /\ ~Uninterpretable(ParseNext(s, at, lax).message)
         THEN ParseNext(s, at, firm) = ParseNext(s, at, lax)
         ELSE ~ParseNext(s, at, firm).ok
<1>1. CASE ~BodyStands(s, at)
  <2>1. ParseNext(s, at, lax) = Failed /\ ParseNext(s, at, firm) = Failed
    BY <1>1, NextIs
  <2> QED
    BY <2>1 DEF Failed
<1>2. CASE BodyStands(s, at)
  <2> DEFINE l == ReadAfterBody(s, at, lax)
             t == ReadAfterBody(s, at, firm)
             ln == ParseNext(s, at, lax)
             tn == ParseNext(s, at, firm)
             next(r) == [ok |-> TRUE, next |-> r.next,
                         message |-> [body |-> s[at].x, unread |-> RestInRaw(s, at),
                                      attachments |-> r.atts]]
  <2>1. Agree(l, t)
    <3> DEFINE table == TableFromMajor(s[at].x.major)
               L == Parsed(s, table, lax)
               S == Parsed(s, table, firm)
               from == Starts(s, at)
    <3>1. table \in Tables
      BY TableType
    <3> HIDE DEF table
    <3>2. IsParsed(X, s, table, lax, L) /\ IsParsed(X, s, table, firm, S)
      BY <3>1, ParsedIsParsed
    <3>3. Len(s) \in 0..Len(s)
      BY LenProperties DEF Streams
    <3>4. from \in 1..(Len(s) + 1) /\ from <= Len(s) + 1
      BY <1>2, <3>3, BodyIs
    <3> HIDE DEF L, S, from
    <3>5. Agree(L[AttachmentsFrom(from, Len(s))], S[AttachmentsFrom(from, Len(s))])
      BY <3>1, <3>2, <3>3, <3>4, ParsesAgree
    <3> QED
      BY <3>5 DEF L, S, from, table, ReadAfterBody
  <2>2. /\ ln = IF l.ok THEN next(l) ELSE Failed
        /\ tn = IF t.ok THEN next(t) ELSE Failed
    BY <1>2, NextIs
  <2> HIDE DEF l, t, ln, tn
  <2>3. CASE l.ok /\ ~Unread(l)
    <3>1. t = l
      BY <2>1, <2>3 DEF Agree
    <3>2. ln = next(l) /\ tn = next(l)
      BY <2>2, <2>3, <3>1
    <3>3. ln.ok /\ ~Uninterpretable(ln.message)
      BY <2>3, <3>2 DEF Uninterpretable, Unread
    <3> QED
      BY <3>2, <3>3 DEF ln, tn
  <2>4. CASE ~(l.ok /\ ~Unread(l))
    <3>1. ~t.ok
      BY <2>1, <2>4 DEF Agree
    <3>2. tn = Failed
      BY <2>2, <3>1
    <3>3. ln.ok => Uninterpretable(ln.message)
      <4> HAVE ln.ok
      <4>1. l.ok /\ ln = next(l)
        BY <2>2 DEF Failed
      <4> QED
        BY <2>4, <4>1 DEF Uninterpretable, Unread
    <3>4. IF ln.ok /\ ~Uninterpretable(ln.message) THEN tn = ln ELSE ~tn.ok
      BY <3>2, <3>3 DEF Failed
    <3> QED
      BY <3>4 DEF ln, tn
  <2> QED
    BY <2>3, <2>4
<1> QED
  BY <1>1, <1>2

\* From a place in the stream there is a first unit that is not white space, or
\* none.
LEMMA FirstFromIs ==
  ASSUME NEW X, stream \in Streams(X), NEW j \in 1..(Len(stream) + 1)
  PROVE  /\ FirstFrom(j) \in j..(Len(stream) + 1)
         /\ FirstFrom(j) <= Len(stream) => stream[FirstFrom(j)].u # "space"
         /\ \A i \in j..(FirstFrom(j) - 1) : stream[i].u = "space"
<1> DEFINE N == Len(stream)
           Is(k) == /\ k <= N => stream[k].u # "space"
                    /\ \A i \in j..(k - 1) : stream[i].u = "space"
           Ends == {k \in j..(N + 1) : k <= N => stream[k].u # "space"}
<1>1. N \in Nat
  BY LenProperties DEF Streams
<1>2. \E k \in j..(N + 1) : Is(k)
  <2>1. Ends \in SUBSET Nat /\ N + 1 \in Ends
    BY <1>1
  <2>2. PICK k \in Ends : \A m \in Ends : k <= m
    <3> HIDE DEF Ends
    <3> QED
      BY <2>1, LeastNumber
  <2>3. ASSUME NEW i \in j..(k - 1)
        PROVE  stream[i].u = "space"
    <3>1. i \in j..(N + 1) /\ ~(k <= i) /\ i <= N
      BY <1>1, <2>2
    <3>2. i \notin Ends
      BY <2>2, <3>1
    <3> QED
      BY <3>1, <3>2
  <2> QED
    BY <2>2, <2>3
<1>3. FirstFrom(j) = CHOOSE k \in j..(N + 1) : Is(k)
  BY DEF FirstFrom
<1> HIDE DEF Is, N
<1>4. FirstFrom(j) \in j..(N + 1) /\ Is(FirstFrom(j))
  BY <1>2, <1>3
<1> QED
  BY <1>4 DEF Is, N

----------------------------------------------------------------------------
(* A stream that is accepted has been read whole.                          *)

\* What anchored signatures carry
SignedContent(X) == [signed \in SignedSet(X) |-> signed.anchor \o signed.sigs]

\* What an attachment carries
Content(X) == [att \in Atts(X) |-> ContentOf(att)]

\* What is carried by groups and attachments is a list.
LEMMA ContentType ==
  ASSUME NEW X
  PROVE  /\ SignedContent(X) \in [SignedSet(X) -> Seq(X)]
         /\ Content(X) \in [Atts(X) -> Seq(X)]
         /\ \A att \in Atts(X) :
              /\ att.kind \in Idx \cup Couples => Content(X)[att] = att.items
              /\ att.kind = Trans => Content(X)[att] = Gather(SignedContent(X), att.groups)
              /\ att.kind = "Unknown" => Content(X)[att] = Material(att.raw)
<1>1. SignedContent(X) \in [SignedSet(X) -> Seq(X)]
  <2>1. ASSUME NEW signed \in SignedSet(X)
        PROVE  signed.anchor \o signed.sigs \in Seq(X)
    BY ConcatProperties DEF SignedSet
  <2> QED
    BY <2>1 DEF SignedContent
<1>2. ASSUME NEW l \in Seq(SignedSet(X))
      PROVE  FlattenSeq([j \in DOMAIN l |-> l[j].anchor \o l[j].sigs]) = Gather(SignedContent(X), l)
  <2>1. DOMAIN l = 1..Len(l) /\ \A j \in 1..Len(l) : l[j] \in SignedSet(X)
    BY LenProperties, ElementOfSeq
  <2>2. [j \in DOMAIN l |-> l[j].anchor \o l[j].sigs] = [j \in DOMAIN l |-> SignedContent(X)[l[j]]]
    BY <2>1 DEF SignedContent
  <2> QED
    BY <2>2 DEF Gather
<1>3. ASSUME NEW att \in Atts(X)
      PROVE  /\ ContentOf(att) \in Seq(X)
             /\ att.kind \in Idx \cup Couples => ContentOf(att) = att.items
             /\ att.kind = Trans => ContentOf(att) = Gather(SignedContent(X), att.groups)
             /\ att.kind = "Unknown" => ContentOf(att) = Material(att.raw)
  <2> DEFINE signed == FlattenSeq([j \in DOMAIN att.groups |-> att.groups[j].anchor \o att.groups[j].sigs])
             raw == Material(att.raw)
             items == att.items
  <2>1. ContentOf(att) = CASE att.kind = Trans -> signed [] att.kind = "Unknown" -> raw [] OTHER -> items
    BY DEF ContentOf, Trans
  <2>2. CASE att \in [kind : Idx \cup Couples, items : Seq(X)]
    <3>1. att.kind \in Idx \cup Couples /\ items \in Seq(X)
      BY <2>2
    <3> HIDE DEF signed, raw, items
    <3>2. ContentOf(att) = items /\ att.kind # Trans /\ att.kind # "Unknown"
      BY <2>1, <3>1, KindsDiffer
    <3> QED
      BY <3>1, <3>2 DEF items
  <2>3. CASE att \in [kind : {Trans}, groups : Seq(SignedSet(X))]
    <3>1. att.kind = Trans /\ att.groups \in Seq(SignedSet(X))
      BY <2>3
    <3>2. signed = Gather(SignedContent(X), att.groups)
      BY <1>2, <3>1
    <3>3. Gather(SignedContent(X), att.groups) \in Seq(X)
      BY <1>1, <3>1, GatherLaws
    <3> HIDE DEF signed, raw, items
    <3>4. ContentOf(att) = signed /\ att.kind \notin Idx \cup Couples /\ att.kind # "Unknown"
      BY <2>1, <3>1, KindsDiffer
    <3> QED
      BY <3>2, <3>3, <3>4
  <2>4. CASE att \in [kind : {"Unknown"}, raw : Seq(UnitSet(X))]
    <3>1. att.kind = "Unknown" /\ att.raw \in Seq(UnitSet(X))
      BY <2>4
    <3>2. raw \in Seq(X)
      BY <3>1, MaterialLaws
    <3> HIDE DEF signed, raw, items
    <3>3. ContentOf(att) = raw /\ att.kind \notin Idx \cup Couples /\ att.kind # Trans
      BY <2>1, <3>1, KindsDiffer
    <3> QED
      BY <3>2, <3>3 DEF raw
  <2> QED
    BY <2>2, <2>3, <2>4 DEF Atts
<1>4. \A att \in Atts(X) : Content(X)[att] = ContentOf(att)
  BY DEF Content
<1>5. Content(X) \in [Atts(X) -> Seq(X)]
  BY <1>3 DEF Content
<1> QED
  BY <1>1, <1>3, <1>4, <1>5

\* White space carries nothing.
LEMMA SpacesCarryNothing ==
  ASSUME NEW X, NEW s \in Streams(X), NEW a \in 1..(Len(s) + 1), NEW b \in a..(Len(s) + 1),
         \A i \in a..(b - 1) : s[i].u = "space"
  PROVE  MaterialFrom(s, a, b) = <<>>
<1> DEFINE Bare == {n \in 0..(b - a) : MaterialFrom(s, a, a + n) = <<>>}
<1>1. Len(s) \in Nat /\ s \in Seq(UnitSet(X)) /\ b - a \in Nat
  BY LenProperties DEF Streams
<1>2. 0 \in Bare
  <2>1. a \in a..(Len(s) + 1) /\ a + 0 = a
    BY <1>1
  <2>2. MaterialFrom(s, a, a) = <<>>
    BY <1>1, <2>1, MaterialParts
  <2> QED
    BY <1>1, <2>1, <2>2
<1>3. ASSUME NEW n \in 1..(b - a), n - 1 \in Bare
      PROVE  n \in Bare
  <2> DEFINE c == a + (n - 1)
  <2>1. c \in a..(Len(s) + 1) /\ c \in 1..(Len(s) + 1) /\ c + 1 \in c..(Len(s) + 1) /\ c <= Len(s)
        /\ c \in a..(b - 1) /\ a + n = c + 1
    BY <1>1
  <2>2. MaterialFrom(s, a, c) = <<>>
    BY <1>3
  <2> HIDE DEF c, Bare
  <2>3. MaterialFrom(s, a, c + 1) = MaterialFrom(s, a, c) \o MaterialFrom(s, c, c + 1)
    BY <1>1, <2>1, MaterialParts, ZenonT(60)
  <2>4. MaterialFrom(s, c, c + 1) = <<>>
    <3>1. s[c].u = "space"
      BY <2>1
    <3>2. MaterialFrom(s, c, c + 1) = IF s[c].u \in Heads THEN <<s[c].x>> ELSE <<>>
      BY <1>1, <2>1, MaterialParts
    <3> QED
      BY <3>1, <3>2 DEF Heads
  <2>5. MaterialFrom(s, a, a + n) = <<>>
    BY <2>1, <2>2, <2>3, <2>4
  <2> QED
    BY <2>5 DEF Bare
<1>4. \A n \in 0..(b - a) : n \in Bare
  <2> HIDE DEF Bare
  <2> QED
    BY <1>1, <1>2, <1>3, Turns
<1>5. b - a \in 0..(b - a) /\ a + (b - a) = b
  BY <1>1
<1> QED
  BY <1>4, <1>5

\* What nobody reads behind a body is what stands before the attachments, if
\* there is any: everything behind a body without a version string that is not
\* JSON (Serder::from_raw).
LEMMA RestIs ==
  ASSUME NEW X, NEW s \in Streams(X), NEW at \in 1..Len(s), BodyStands(s, at)
  PROVE  /\ RestInRaw(s, at) = MaterialFrom(s, at + 2, Starts(s, at))
         /\ RestInRaw(s, at) \in Seq(X)
         /\ RestInRaw(s, at) # <<>> =>
              s[at].x.major = 0 /\ ~s[at].x.json /\ Starts(s, at) = Len(s) + 1
         /\ (s[at].x.major = 0 => \A j \in (at + 2)..Len(s) : s[j].u = "space")
              => RestInRaw(s, at) = <<>>
<1> DEFINE from == Starts(s, at)
           b == at + 2
<1>1. Len(s) \in Nat /\ s \in Seq(UnitSet(X))
  BY LenProperties DEF Streams
<1>2. /\ at + 1 \in 1..Len(s) /\ from \in 1..(Len(s) + 1) /\ from >= b
      /\ s[at].x.major = 0 /\ s[at].x.json => \A j \in b..Len(s) : s[j].u = "space"
  BY BodyIs
<1>3. b \in 1..(Len(s) + 1) /\ from \in b..(Len(s) + 1) /\ b \in b..(Len(s) + 1)
  <2> HIDE DEF from
  <2> QED
    BY <1>1, <1>2
<1>4. MaterialFrom(s, b, from) \in Seq(X)
  <2> HIDE DEF from, b
  <2> QED
    BY <1>1, <1>3, MaterialParts
<1>5. CASE s[at].x.major = 0
  <2>1. from = Len(s) + 1 /\ from - 1 = Len(s)
    BY <1>1, <1>5 DEF Starts
  <2>2. RestInRaw(s, at) = MaterialFrom(s, b, from)
    <3> HIDE DEF from
    <3> QED
      BY <1>5, <2>1 DEF RestInRaw, MaterialFrom
  <2>3. ASSUME \A j \in b..Len(s) : s[j].u = "space"
        PROVE  RestInRaw(s, at) = <<>>
    <3> HIDE DEF from, b
    <3> QED
      BY <1>3, <2>1, <2>2, <2>3, SpacesCarryNothing
  <2> QED
    BY <1>2, <1>4, <1>5, <2>1, <2>2, <2>3
<1>6. CASE s[at].x.major # 0
  <2>1. RestInRaw(s, at) = <<>>
    BY <1>6 DEF RestInRaw
  <2>2. from = b
    BY <1>6 DEF Starts
  <2>3. MaterialFrom(s, b, b) = <<>>
    <3> HIDE DEF b
    <3> QED
      BY <1>1, <1>3, MaterialParts
  <2>4. MaterialFrom(s, b, from) = <<>>
    BY <2>2, <2>3
  <2> QED
    BY <1>4, <2>1, <2>4
<1> QED
  BY <1>5, <1>6

\* A head with its tail carries what it is of.
LEMMA HeadCarries ==
  ASSUME NEW X, NEW s \in Streams(X), NEW at \in 1..Len(s), at + 1 <= Len(s), s[at].u \in Heads
  PROVE  MaterialFrom(s, at, at + 2) = <<s[at].x>>
<1>1. Len(s) \in Nat /\ s \in Seq(UnitSet(X)) /\ at \in 1..(Len(s) - 1)
  BY LenProperties DEF Streams
<1>2. s[at + 1].u = "tail"
  BY <1>1 DEF Streams
<1> DEFINE b == at + 1
           c == at + 2
<1>3. /\ at \in 1..(Len(s) + 1) /\ b \in at..(Len(s) + 1) /\ c \in b..(Len(s) + 1) /\ b \in 1..(Len(s) + 1)
      /\ at <= Len(s) /\ b <= Len(s) /\ c = b + 1
  BY <1>1
<1>4. MaterialFrom(s, at, b) = <<s[at].x>>
  BY <1>1, <1>3, MaterialParts
<1>5. s[b].u = "tail"
  BY <1>2
<1> HIDE DEF b, c
<1>6. MaterialFrom(s, b, b + 1) = IF s[b].u \in Heads THEN <<s[b].x>> ELSE <<>>
  BY <1>1, <1>3, MaterialParts
<1>7. MaterialFrom(s, b, c) = <<>>
  BY <1>3, <1>5, <1>6 DEF Heads
<1>8. MaterialFrom(s, at, c) = MaterialFrom(s, at, b) \o MaterialFrom(s, b, c)
  BY <1>1, <1>3, MaterialParts
<1>9. <<s[at].x>> \o <<>> = <<s[at].x>>
  OBVIOUS
<1> QED
  BY <1>4, <1>7, <1>8, <1>9 DEF c

\* Primitives that stand carry what they are of, each once and in order.
LEMMA ItemsCarry ==
  ASSUME NEW X, NEW s \in Streams(X), NEW at \in Nat \ {0}, NEW n \in Nat,
         at + 2 * n - 1 <= Len(s), \A j \in 1..n : s[at + 2 * (j - 1)].u \in Heads
  PROVE  MaterialFrom(s, at, at + 2 * n) = ItemsAt(s, at, n)
<1> DEFINE Same == {m \in 0..n : MaterialFrom(s, at, at + 2 * m) = ItemsAt(s, at, m)}
<1>1. Len(s) \in Nat /\ s \in Seq(UnitSet(X)) /\ at \in 1..(Len(s) + 1)
  BY LenProperties DEF Streams
<1>2. 0 \in Same
  <2>1. at \in at..(Len(s) + 1) /\ at + 2 * 0 = at
    BY <1>1
  <2>3. MaterialFrom(s, at, at) = <<>>
    BY <1>1, <2>1, MaterialParts
  <2>2. ItemsAt(s, at, 0) = <<>>
    BY DEF ItemsAt
  <2> QED
    BY <2>1, <2>2, <2>3
<1>3. ASSUME NEW m \in 1..n, m - 1 \in Same
      PROVE  m \in Same
  <2> DEFINE c == at + 2 * (m - 1)
  <2>1. c \in at..(Len(s) + 1) /\ c \in 1..Len(s) /\ c + 1 <= Len(s) /\ c + 2 \in c..(Len(s) + 1)
        /\ at + 2 * m = c + 2
    BY <1>1
  <2>2. MaterialFrom(s, at, c) = ItemsAt(s, at, m - 1)
    BY <1>3
  <2>3. s[c].u \in Heads
    OBVIOUS
  <2>4. ItemsAt(s, at, m) = ItemsAt(s, at, m - 1) \o <<s[c].x>>
    <3> DEFINE x(j) == s[at + 2 * (j - 1)].x
    <3>1. ItemsAt(s, at, m) = [j \in 1..m |-> x(j)] /\ ItemsAt(s, at, m - 1) = [j \in 1..(m - 1) |-> x(j)]
      BY DEF ItemsAt
    <3>2. x(m) = s[c].x
      OBVIOUS
    <3> HIDE DEF x
    <3>3. [j \in 1..m |-> x(j)] = [j \in 1..(m - 1) |-> x(j)] \o <<x(m)>>
      <4> DEFINE a == [j \in 1..(m - 1) |-> x(j)]
                 T == {x(j) : j \in 1..m}
      <4>0. m \in Nat /\ m - 1 \in Nat /\ m \in 1..m /\ \A j \in 1..m : x(j) \in T
        BY <1>3
      <4> HIDE DEF T
      <4>1. a \in Seq(T) /\ Len(a) = m - 1 /\ \A j \in 1..(m - 1) : a[j] = x(j)
        BY <4>0
      <4>2. <<x(m)>> \in Seq(T) /\ Len(<<x(m)>>) = 1 /\ <<x(m)>>[1] = x(m)
        BY <4>0
      <4> DEFINE b == [j \in 1..m |-> x(j)]
      <4>3. b \in Seq(T) /\ Len(b) = m /\ \A j \in 1..m : b[j] = x(j)
        BY <4>0
      <4> HIDE DEF a, b
      <4>4. /\ Len(b) = Len(a) + Len(<<x(m)>>)
            /\ \A i \in 1..Len(a) : b[i] = a[i]
            /\ \A i \in 1..Len(<<x(m)>>) : b[Len(a) + i] = <<x(m)>>[i]
        BY <4>0, <4>1, <4>2, <4>3
      <4>5. b = a \o <<x(m)>>
        BY <4>1, <4>2, <4>3, <4>4, JoinedByMember
      <4> QED
        BY <4>5 DEF a, b
    <3> QED
      BY <3>1, <3>2, <3>3
  <2> HIDE DEF c, Same
  <2>5. MaterialFrom(s, c, c + 2) = <<s[c].x>>
    BY <2>1, <2>3, HeadCarries
  <2>6. MaterialFrom(s, at, c + 2) = MaterialFrom(s, at, c) \o MaterialFrom(s, c, c + 2)
    BY <1>1, <2>1, MaterialParts, ZenonT(60)
  <2>7. MaterialFrom(s, at, at + 2 * m) = ItemsAt(s, at, m)
    BY <2>1, <2>2, <2>4, <2>5, <2>6
  <2> QED
    BY <2>7 DEF Same
<1>4. \A m \in 0..n : m \in Same
  <2> HIDE DEF Same
  <2> QED
    BY <1>2, <1>3, Turns
<1> QED
  BY <1>4

\* What is read from a place is what the stream carries from there to its end
Reads(X, s, at, r) == r.ok => MaterialFrom(s, at, r.next) = Gather(Content(X), r.atts)

\* The same of groups, and of every number of them
ReadsGroups(X, s, at, r) == r.ok => MaterialFrom(s, at, r.next) = Gather(SignedContent(X), r.groups)

AllGroupsRead(X, s, P, at, to) == \A n \in Nat : ReadsGroups(X, s, at, P[GroupsFrom(at, to, n)])

\* It is so of what is parsed at a place, and further on
ReadFrom(X, s, P, at, to) ==
  Reads(X, s, at, P[AttachmentsFrom(at, to)]) /\ AllGroupsRead(X, s, P, at, to)

ReadAfter(X, s, P, at) ==
  \A next \in 1..(Len(s) + 1), to \in 0..Len(s) :
    next > at /\ next <= to + 1 => ReadFrom(X, s, P, next, to)

\* A single attachment carries what is gathered from the list of it.
LEMMA OneAttachment ==
  ASSUME NEW X, NEW att \in Atts(X)
  PROVE  Gather(Content(X), <<att>>) = Content(X)[att]
<1>1. Content(X) \in [Atts(X) -> Seq(X)]
  BY ContentType
<1> QED
  BY <1>1, GatherLaws

\* What is gathered from two lists of attachments or groups follows each other.
LEMMA ContentLaws ==
  ASSUME NEW X
  PROVE  /\ Gather(Content(X), <<>>) = <<>> /\ Gather(SignedContent(X), <<>>) = <<>>
         /\ \A a, b \in Seq(Atts(X)) :
              /\ Gather(Content(X), a) \in Seq(X)
              /\ Gather(Content(X), a \o b) = Gather(Content(X), a) \o Gather(Content(X), b)
         /\ \A a, b \in Seq(SignedSet(X)) :
              Gather(SignedContent(X), a \o b) = Gather(SignedContent(X), a) \o Gather(SignedContent(X), b)
         /\ \A signed \in SignedSet(X) :
              Gather(SignedContent(X), <<signed>>) = signed.anchor \o signed.sigs
<1>1. Content(X) \in [Atts(X) -> Seq(X)] /\ SignedContent(X) \in [SignedSet(X) -> Seq(X)]
  BY ContentType
<1>2. /\ Gather(Content(X), <<>>) = <<>> /\ Gather(SignedContent(X), <<>>) = <<>>
  BY <1>1, GatherLaws
<1>3. ASSUME NEW a \in Seq(Atts(X)), NEW b \in Seq(Atts(X))
      PROVE  /\ Gather(Content(X), a) \in Seq(X)
             /\ Gather(Content(X), a \o b) = Gather(Content(X), a) \o Gather(Content(X), b)
  BY <1>1, GatherLaws
<1>4. ASSUME NEW a \in Seq(SignedSet(X)), NEW b \in Seq(SignedSet(X))
      PROVE  Gather(SignedContent(X), a \o b) = Gather(SignedContent(X), a) \o Gather(SignedContent(X), b)
  BY <1>1, GatherLaws
<1>5. ASSUME NEW signed \in SignedSet(X)
      PROVE  Gather(SignedContent(X), <<signed>>) = signed.anchor \o signed.sigs
  <2>1. Gather(SignedContent(X), <<signed>>) = SignedContent(X)[signed]
    BY <1>1, GatherLaws
  <2> QED
    BY <2>1 DEF SignedContent
<1> QED
  BY <1>2, <1>3, <1>4, <1>5

\* A group whose counter stands at a place is read whole when what is further on
\* is: the counter itself carries nothing.
LEMMA GroupReads ==
  ASSUME NEW X, NEW s \in Streams(X), NEW table \in Tables, NEW strictly \in BOOLEAN,
         NEW P, IsParsed(X, s, table, strictly, P), NEW at \in 1..Len(s), ReadAfter(X, s, P, at),
         NEW to \in at..Len(s), s[at].u = "counter"
  PROVE  Reads(X, s, at + 1, ParseGroup(P, s, at, to, table, strictly))
<1> DEFINE kind == Classify(s[at].code, table)
           n == s[at].n
           first == ParseGroup(P, s, at, to, table, strictly)
<1>0. GroupSplit(s, table, strictly, P, at, to)
  BY GroupIs
<1>1. /\ Len(s) \in Nat /\ at + 1 <= to + 1 /\ to \in 0..Len(s) /\ at + 1 \in 1..(Len(s) + 1)
      /\ at + 1 > at /\ at + 1 \in Nat \ {0}
  BY LenProperties DEF Streams
<1>2. kind \in Kinds /\ n \in Nat
  BY <1>0 DEF GroupSplit
<1>3. CASE kind \in {"None", "TransReceiptQuadruples"}
  <2>1. first = Failed \/ first = Uninterpreted(s, at + 1, to)
    BY <1>0, <1>3 DEF GroupSplit
  <2>2. CASE first = Failed
    BY <2>2 DEF Reads, Failed
  <2>3. CASE first = Uninterpreted(s, at + 1, to)
    <3> DEFINE raw == SubSeq(s, at + 1, to)
               att == [kind |-> "Unknown", raw |-> raw]
    <3>1. raw \in Seq(UnitSet(X))
      BY <1>1, SubSeqProperties DEF Streams
    <3> HIDE DEF first
    <3>2. first.next = to + 1 /\ first.atts = <<att>>
      BY <2>3 DEF Uninterpreted
    <3> HIDE DEF raw
    <3>3. att \in Atts(X) /\ att.kind = "Unknown" /\ att.raw = raw
      BY <3>1 DEF Atts
    <3> HIDE DEF att
    <3>4. Gather(Content(X), <<att>>) = Material(raw)
      BY <3>3, OneAttachment, ContentType
    <3>5. MaterialFrom(s, at + 1, to + 1) = Material(raw)
      <4>1. (to + 1) - 1 = to
        BY <1>1
      <4> QED
        BY <4>1 DEF MaterialFrom, raw
    <3>6. Reads(X, s, at + 1, first)
      BY <3>2, <3>4, <3>5 DEF Reads
    <3> QED
      BY <3>6 DEF first
  <2> QED
    BY <2>1, <2>2, <2>3
<1>4. CASE kind = Wrapper
  <2> DEFINE inner == P[AttachmentsFrom(at + 1, at + n)]
  <2>1. first = ParseWrapped(P, at + 1, to, n)
    BY <1>0, <1>4 DEF GroupSplit
  <2> HIDE DEF n, kind
  <2>0. WrappedSplit(X, s, P, at, to, n)
    BY <1>2, WrappedIs
  <2>2. first = IF at + n <= to /\ inner.ok /\ inner.next = (at + n) + 1
                THEN [ok |-> TRUE, next |-> (at + n) + 1, atts |-> inner.atts]
                ELSE Failed
    BY <2>0, <2>1 DEF WrappedSplit
  <2>3. at + n <= to => Reads(X, s, at + 1, inner)
    <3> HAVE at + n <= to
    <3>1. at + n \in 0..Len(s) /\ at + 1 <= (at + n) + 1
      BY <1>1, <1>2
    <3> QED
      BY <1>1, <3>1 DEF ReadAfter, ReadFrom
  <2> HIDE DEF inner, first
  <2>4. Reads(X, s, at + 1, first)
    BY <2>2, <2>3 DEF Reads, Failed
  <2> QED
    BY <2>4 DEF first
<1>5. CASE kind = Trans
  <2> DEFINE inner == P[GroupsFrom(at + 1, to, n)]
             att == [kind |-> kind, groups |-> inner.groups]
  <2>1. first = IF n <= MaxAttachmentCount /\ inner.ok
                THEN [ok |-> TRUE, next |-> inner.next, atts |-> <<att>>]
                ELSE Failed
    BY <1>0, <1>5 DEF GroupSplit
  <2>2. AllGroupsRead(X, s, P, at + 1, to)
    BY <1>1 DEF ReadAfter, ReadFrom
  <2>3. ReadsGroups(X, s, at + 1, inner)
    BY <1>2, <2>2 DEF AllGroupsRead
  <2>4. inner \in GroupsRead(X, at + 1, to)
    BY <1>1, <1>2, ParsedCalls
  <2> HIDE DEF inner, first, n
  <2>5. CASE ~first.ok
    <3>1. Reads(X, s, at + 1, first)
      BY <2>5 DEF Reads
    <3> QED
      BY <3>1 DEF first
  <2>6. CASE first.ok
    <3>1. inner.ok /\ first.next = inner.next /\ first.atts = <<att>>
      BY <2>1, <2>6 DEF Failed
    <3>2. inner.groups \in Seq(SignedSet(X))
      BY <2>4, <3>1, ReadForms
    <3>3. att \in Atts(X) /\ att.kind = Trans /\ att.groups = inner.groups
      BY <1>5, <3>2 DEF Atts
    <3> HIDE DEF att
    <3>4. Gather(Content(X), <<att>>) = Gather(SignedContent(X), inner.groups)
      BY <3>3, OneAttachment, ContentType
    <3>5. Reads(X, s, at + 1, first)
      BY <2>3, <3>1, <3>4 DEF Reads, ReadsGroups
    <3> QED
      BY <3>5 DEF first
  <2> QED
    BY <2>5, <2>6
<1>6. CASE kind \in Idx \cup Couples
  <2> DEFINE place == at + 1
             size == Size(kind, n)
             stands == /\ n <= MaxAttachmentCount /\ place + 2 * size - 1 <= to
                       /\ \A j \in 1..size : s[place + 2 * (j - 1)].u = UnitOf(kind)
             att == [kind |-> kind, items |-> ItemsAt(s, place, size)]
  <2>1. first = ParseItems(s, place, to, kind, n)
    BY <1>0, <1>6 DEF GroupSplit
  <2> HIDE DEF n, kind
  <2>2. place \in Nat \ {0} /\ place <= to + 1
    BY <1>1
  <2> HIDE DEF place, first
  <2>3. /\ size \in Nat /\ UnitOf(kind) \in Heads
        /\ first = IF stands THEN [ok |-> TRUE, next |-> place + 2 * size, atts |-> <<att>>] ELSE Failed
    BY <1>1, <1>2, <1>6, <2>1, <2>2, ItemsRead
  <2>4. CASE ~stands
    <3>1. Reads(X, s, place, first)
      BY <2>3, <2>4 DEF Reads, Failed
    <3> QED
      BY <3>1 DEF first, place
  <2>5. CASE stands
    <3> HIDE DEF size
    <3>1. place + 2 * size - 1 <= Len(s) /\ \A j \in 1..size : s[place + 2 * (j - 1)].u \in Heads
      BY <1>1, <2>2, <2>3, <2>5, SMTT(30)
    <3>2. MaterialFrom(s, place, place + 2 * size) = ItemsAt(s, place, size)
      BY <2>2, <2>3, <3>1, ItemsCarry
    <3>3. ItemsAt(s, place, size) \in Seq(X)
      BY <2>2, <2>3, <3>1, ItemsType
    <3>4. first.next = place + 2 * size /\ first.atts = <<att>>
      BY <2>3, <2>5
    <3>5. att \in Atts(X) /\ att.kind \in Idx \cup Couples /\ att.items = ItemsAt(s, place, size)
      BY <1>6, <3>3 DEF Atts
    <3> HIDE DEF att
    <3>6. Gather(Content(X), <<att>>) = ItemsAt(s, place, size)
      BY <3>5, OneAttachment, ContentType
    <3>7. Reads(X, s, place, first)
      BY <3>2, <3>4, <3>6 DEF Reads
    <3> QED
      BY <3>7 DEF first, place
  <2> QED
    BY <2>4, <2>5
<1> QED
  BY <1>2, <1>3, <1>4, <1>5, <1>6 DEF Kinds

\* Attachments are read whole when what is further on is.
LEMMA AttachmentsReadWhole ==
  ASSUME NEW X, NEW s \in Streams(X), NEW table \in Tables, NEW strictly \in BOOLEAN,
         NEW P, IsParsed(X, s, table, strictly, P),
         NEW at \in 1..(Len(s) + 1), ReadAfter(X, s, P, at), NEW to \in 0..Len(s), at <= to + 1
  PROVE  Reads(X, s, at, P[AttachmentsFrom(at, to)])
<1> DEFINE r == P[AttachmentsFrom(at, to)]
           first == ParseGroup(P, s, at, to, table, strictly)
           rest == P[AttachmentsFrom(first.next, to)]
<1>0. AttachmentsSplit(X, s, table, strictly, P, at, to)
  BY AttachmentsAre
<1>1. Len(s) \in Nat /\ s \in Seq(UnitSet(X)) /\ Content(X) \in [Atts(X) -> Seq(X)]
  BY LenProperties, ContentType DEF Streams
<1>2. CASE at > to \/ s[at].u # "counter"
  <2>1. r.next = at /\ r.atts = <<>>
    BY <1>0, <1>2 DEF AttachmentsSplit
  <2> HIDE DEF r
  <2>2. at \in at..(Len(s) + 1)
    BY <1>1
  <2>3. MaterialFrom(s, at, at) = <<>> /\ Gather(Content(X), <<>>) = <<>>
    BY <1>1, <2>2, MaterialParts, GatherLaws
  <2>4. Reads(X, s, at, r)
    BY <2>1, <2>3 DEF Reads
  <2> QED
    BY <2>4 DEF r
<1>3. CASE at <= to /\ s[at].u = "counter"
  <2>1. /\ at \in 1..Len(s) /\ to \in at..Len(s)
        /\ first.ok => /\ first.next \in (at + 1)..(to + 1) /\ first.next \in 1..(Len(s) + 1)
                       /\ first.atts \in Seq(Atts(X)) /\ rest \in AttachmentsRead(X, first.next, to)
        /\ r = IF (\A j \in at..to : Ascii(s[j])) /\ first.ok /\ rest.ok
               THEN [ok |-> TRUE, next |-> rest.next, atts |-> first.atts \o rest.atts]
               ELSE Failed
    BY <1>0, <1>3 DEF AttachmentsSplit
  <2>2. Reads(X, s, at + 1, first)
    BY <1>3, <2>1, GroupReads
  <2>3. first.ok => Reads(X, s, first.next, rest)
    <3> HAVE first.ok
    <3>1. first.next \in 1..(Len(s) + 1) /\ first.next > at /\ first.next <= to + 1
      BY <2>1
    <3> HIDE DEF first
    <3> QED
      BY <3>1 DEF ReadAfter, ReadFrom
  <2> HIDE DEF r, first, rest
  <2>4. CASE ~r.ok
    <3>1. Reads(X, s, at, r)
      BY <2>4 DEF Reads
    <3> QED
      BY <3>1 DEF r
  <2>5. CASE r.ok
    <3>1. first.ok /\ rest.ok /\ r.next = rest.next /\ r.atts = first.atts \o rest.atts
      BY <2>1, <2>5 DEF Failed
    <3>2. /\ first.next \in (at + 1)..(to + 1) /\ first.atts \in Seq(Atts(X))
          /\ rest.next \in first.next..(to + 1) /\ rest.atts \in Seq(Atts(X))
      BY <2>1, <3>1, ReadForms
    <3>3. /\ at \in 1..(Len(s) + 1) /\ at <= Len(s) /\ at + 1 \in at..(Len(s) + 1) /\ at + 1 \in 1..(Len(s) + 1)
          /\ first.next \in (at + 1)..(Len(s) + 1) /\ first.next \in 1..(Len(s) + 1)
          /\ rest.next \in first.next..(Len(s) + 1) /\ rest.next \in (at + 1)..(Len(s) + 1)
      BY <1>1, <2>1, <3>2
    <3>4. MaterialFrom(s, at + 1, first.next) = Gather(Content(X), first.atts)
      BY <2>2, <3>1 DEF Reads
    <3>5. MaterialFrom(s, first.next, rest.next) = Gather(Content(X), rest.atts)
      BY <2>3, <3>1 DEF Reads
    <3>6. MaterialFrom(s, at, rest.next) = MaterialFrom(s, at + 1, rest.next)
      <4>1. MaterialFrom(s, at, at + 1) = <<>>
        <5>1. MaterialFrom(s, at, at + 1) = IF s[at].u \in Heads THEN <<s[at].x>> ELSE <<>>
          BY <1>1, <3>3, MaterialParts
        <5> QED
          BY <1>3, <5>1 DEF Heads
      <4>2. MaterialFrom(s, at, rest.next) = MaterialFrom(s, at, at + 1) \o MaterialFrom(s, at + 1, rest.next)
        BY <1>1, <3>3, MaterialParts, ZenonT(60)
      <4>3. MaterialFrom(s, at + 1, rest.next) \in Seq(X)
        BY <1>1, <3>3, MaterialParts
      <4> QED
        BY <4>1, <4>2, <4>3, ConcatEmptySeq
    <3>7. MaterialFrom(s, at + 1, rest.next)
            = MaterialFrom(s, at + 1, first.next) \o MaterialFrom(s, first.next, rest.next)
      BY <1>1, <3>3, MaterialParts, ZenonT(60)
    <3>8. Gather(Content(X), r.atts) = Gather(Content(X), first.atts) \o Gather(Content(X), rest.atts)
      <4>1. Gather(Content(X), first.atts \o rest.atts)
              = Gather(Content(X), first.atts) \o Gather(Content(X), rest.atts)
        BY <3>2, ContentLaws
      <4> QED
        BY <3>1, <4>1
    <3>9. Reads(X, s, at, r)
      BY <3>1, <3>4, <3>5, <3>6, <3>7, <3>8 DEF Reads
    <3> QED
      BY <3>9 DEF r
  <2> QED
    BY <2>4, <2>5
<1> QED
  BY <1>2, <1>3

\* Controller signatures carry what is gathered from them as attachments.
LEMMA SignaturesCarry ==
  ASSUME NEW X, NEW inner, inner.atts \in Seq(Atts(X)), OnlySignatures(inner)
  PROVE  Gather(Content(X), inner.atts) = SignaturesOf(inner)
<1>1. DOMAIN inner.atts = 1..Len(inner.atts) /\ \A j \in 1..Len(inner.atts) : inner.atts[j] \in Atts(X)
  BY LenProperties, ElementOfSeq
<1>2. ASSUME NEW j \in DOMAIN inner.atts
      PROVE  Content(X)[inner.atts[j]] = inner.atts[j].items
  <2>1. inner.atts[j] \in Atts(X) /\ inner.atts[j].kind \in Idx
    BY <1>1, KindsDiffer DEF OnlySignatures
  <2> QED
    BY <2>1, ContentType
<1>3. [j \in DOMAIN inner.atts |-> Content(X)[inner.atts[j]]] = [j \in DOMAIN inner.atts |-> inner.atts[j].items]
  BY <1>2
<1> QED
  BY <1>3 DEF Gather, SignaturesOf

\* Transferable groups are read whole when what is further on is.
LEMMA TransReadWhole ==
  ASSUME NEW X, NEW s \in Streams(X), NEW table \in Tables, NEW strictly \in BOOLEAN,
         NEW P, IsParsed(X, s, table, strictly, P),
         NEW at \in 1..(Len(s) + 1), ReadAfter(X, s, P, at), NEW to \in 0..Len(s), at <= to + 1
  PROVE  AllGroupsRead(X, s, P, at, to)
<1> SUFFICES ASSUME NEW n \in Nat
             PROVE  ReadsGroups(X, s, at, P[GroupsFrom(at, to, n)])
  BY DEF AllGroupsRead
<1> DEFINE r == P[GroupsFrom(at, to, n)]
           inner == P[AttachmentsFrom(at + 6, to)]
           rest == P[GroupsFrom(inner.next, to, n - 1)]
           signed == [anchor |-> ItemsAt(s, at, 3), sigs |-> SignaturesOf(inner)]
<1>0. TransSplit(X, s, P, at, to, n)
  BY TransAre
<1>1. Len(s) \in Nat /\ s \in Seq(UnitSet(X))
  BY LenProperties DEF Streams
<1>2. CASE ~r.ok
  BY <1>2 DEF ReadsGroups
<1>3. CASE n = 0
  <2>1. r.next = at /\ r.groups = <<>>
    BY <1>0, <1>3 DEF TransSplit
  <2> HIDE DEF r
  <2>2. at \in at..(Len(s) + 1)
    BY <1>1
  <2>3. MaterialFrom(s, at, at) = <<>> /\ Gather(SignedContent(X), <<>>) = <<>>
    BY <1>1, <2>2, MaterialParts, ContentLaws
  <2>4. ReadsGroups(X, s, at, r)
    BY <2>1, <2>3 DEF ReadsGroups
  <2> QED
    BY <2>4 DEF r
<1>4. CASE n # 0 /\ r.ok
  <2>1. AnchorStands(s, at, to)
    <3>1. ~AnchorStands(s, at, to) => r = Failed
      BY <1>0, <1>4 DEF TransSplit
    <3> HIDE DEF r
    <3> QED
      BY <1>4, <3>1 DEF Failed
  <2>2. /\ at + 6 \in 1..(Len(s) + 1) /\ at + 6 <= to + 1 /\ n - 1 \in Nat
        /\ inner.ok => /\ inner.next \in (at + 6)..(to + 1) /\ inner.next \in 1..(Len(s) + 1)
                       /\ inner.atts \in Seq(Atts(X)) /\ rest \in GroupsRead(X, inner.next, to)
        /\ r = IF inner.ok /\ OnlySignatures(inner) /\ SignaturesOf(inner) # <<>> /\ rest.ok
               THEN [ok |-> TRUE, next |-> rest.next, groups |-> <<signed>> \o rest.groups]
               ELSE Failed
    BY <1>0, <1>4, <2>1 DEF TransSplit
  <2>3. Reads(X, s, at + 6, inner)
    <3>1. at + 6 > at
      BY <1>1
    <3> QED
      BY <2>2, <3>1 DEF ReadAfter, ReadFrom
  <2>4. inner.ok => ReadsGroups(X, s, inner.next, rest)
    <3> HAVE inner.ok
    <3>1. inner.next \in 1..(Len(s) + 1) /\ inner.next > at /\ inner.next <= to + 1
      BY <1>1, <2>2
    <3> HIDE DEF inner
    <3>2. AllGroupsRead(X, s, P, inner.next, to)
      BY <3>1 DEF ReadAfter, ReadFrom
    <3> QED
      BY <2>2, <3>2 DEF AllGroupsRead
  <2> HIDE DEF r, inner, rest, signed
  <2>5. /\ inner.ok /\ rest.ok /\ OnlySignatures(inner)
        /\ r.next = rest.next /\ r.groups = <<signed>> \o rest.groups
    BY <1>4, <2>2 DEF Failed
  <2>6. /\ inner.next \in (at + 6)..(to + 1) /\ inner.atts \in Seq(Atts(X))
        /\ rest.next \in inner.next..(to + 1) /\ rest.groups \in Seq(SignedSet(X))
    BY <2>2, <2>5, ReadForms
  <2>7. /\ at + 6 \in at..(Len(s) + 1) /\ inner.next \in (at + 6)..(Len(s) + 1)
        /\ inner.next \in 1..(Len(s) + 1) /\ inner.next \in at..(Len(s) + 1)
        /\ rest.next \in inner.next..(Len(s) + 1)
    BY <1>1, <2>6
  <2>8. MaterialFrom(s, at, at + 6) = ItemsAt(s, at, 3)
    <3>1. at \in Nat \ {0} /\ 3 \in Nat /\ at + 2 * 3 - 1 <= Len(s) /\ at + 2 * 3 = at + 6
      BY <1>1, <2>2
    <3>2. \A j \in 1..3 : s[at + 2 * (j - 1)].u \in Heads
      BY <2>1, ThreeStand DEF AnchorStands, Heads
    <3> QED
      BY <3>1, <3>2, ItemsCarry
  <2>9. MaterialFrom(s, at + 6, inner.next) = SignaturesOf(inner)
    BY <2>3, <2>5, <2>6, SignaturesCarry DEF Reads
  <2>10. MaterialFrom(s, inner.next, rest.next) = Gather(SignedContent(X), rest.groups)
    BY <2>4, <2>5 DEF ReadsGroups
  <2>11. signed \in SignedSet(X) /\ signed.anchor = ItemsAt(s, at, 3) /\ signed.sigs = SignaturesOf(inner)
    BY <2>1, <2>5, <2>6, AnchorType, SignaturesType DEF signed
  <2>12. MaterialFrom(s, at, inner.next) = signed.anchor \o signed.sigs
    <3>1. MaterialFrom(s, at, inner.next)
            = MaterialFrom(s, at, at + 6) \o MaterialFrom(s, at + 6, inner.next)
      BY <1>1, <2>7, MaterialParts, ZenonT(60)
    <3> QED
      BY <2>8, <2>9, <2>11, <3>1
  <2>13. MaterialFrom(s, at, rest.next)
           = MaterialFrom(s, at, inner.next) \o MaterialFrom(s, inner.next, rest.next)
    BY <1>1, <2>7, MaterialParts, ZenonT(60)
  <2>14. Gather(SignedContent(X), <<signed>> \o rest.groups)
           = (signed.anchor \o signed.sigs) \o Gather(SignedContent(X), rest.groups)
    <3>1. <<signed>> \in Seq(SignedSet(X))
      BY <2>11
    <3>2. Gather(SignedContent(X), <<signed>> \o rest.groups)
            = Gather(SignedContent(X), <<signed>>) \o Gather(SignedContent(X), rest.groups)
      BY <2>6, <3>1, ContentLaws
    <3>3. Gather(SignedContent(X), <<signed>>) = signed.anchor \o signed.sigs
      BY <2>11, ContentLaws
    <3> QED
      BY <3>2, <3>3
  <2>15. ReadsGroups(X, s, at, r)
    BY <2>5, <2>10, <2>12, <2>13, <2>14 DEF ReadsGroups
  <2> QED
    BY <2>15 DEF r
<1> QED
  BY <1>2, <1>3, <1>4

\* So attachments are read whole wherever they are called for.
LEMMA AllReadWhole ==
  ASSUME NEW X, NEW s \in Streams(X), NEW table \in Tables, NEW strictly \in BOOLEAN,
         NEW P, IsParsed(X, s, table, strictly, P)
  PROVE  \A at \in 1..(Len(s) + 1), to \in 0..Len(s) :
           at <= to + 1 => Reads(X, s, at, P[AttachmentsFrom(at, to)])
<1> DEFINE N == Len(s) + 1
           Whole == {at \in 1..N : \A to \in 0..Len(s) : at <= to + 1 => ReadFrom(X, s, P, at, to)}
<1>1. N \in Nat /\ Len(s) \in Nat
  BY LenProperties DEF Streams
<1>2. ASSUME NEW at \in 1..N, \A next \in (at + 1)..N : next \in Whole
      PROVE  at \in Whole
  <2>1. ReadAfter(X, s, P, at)
    <3>1. ASSUME NEW next \in 1..N, NEW to \in 0..Len(s), next > at, next <= to + 1
          PROVE  ReadFrom(X, s, P, next, to)
      <4>1. next \in (at + 1)..N
        BY <1>1, <3>1
      <4>2. next \in Whole
        BY <1>2, <4>1
      <4> QED
        BY <3>1, <4>2
    <3> QED
      BY <3>1 DEF ReadAfter
  <2>2. ASSUME NEW to \in 0..Len(s), at <= to + 1
        PROVE  ReadFrom(X, s, P, at, to)
    <3>1. Reads(X, s, at, P[AttachmentsFrom(at, to)])
      BY <2>1, <2>2, AttachmentsReadWhole
    <3>2. AllGroupsRead(X, s, P, at, to)
      BY <2>1, <2>2, TransReadWhole
    <3> QED
      BY <3>1, <3>2 DEF ReadFrom
  <2> QED
    BY <2>2
<1>3. \A at \in 1..N : at \in Whole
  <2> HIDE DEF Whole
  <2> QED
    BY <1>1, <1>2, Backwards
<1> QED
  BY <1>3 DEF ReadFrom

\* The messages that can be read of what is of X
MessageSet(X) == [body : X, unread : Seq(X), attachments : Seq(Atts(X))]

\* What a message carries
Carrying(X) == [message \in MessageSet(X) |-> Contents(message)]

\* What a message carries is a list, of its body, what nobody read behind it and
\* what is gathered.
LEMMA CarryingType ==
  ASSUME NEW X
  PROVE  /\ Carrying(X) \in [MessageSet(X) -> Seq(X)]
         /\ \A message \in MessageSet(X) :
              Carrying(X)[message] = <<message.body>> \o message.unread
                                       \o Gather(Content(X), message.attachments)
         /\ \A l \in Seq(MessageSet(X)) :
              FlattenSeq([j \in DOMAIN l |-> Contents(l[j])]) = Gather(Carrying(X), l)
         /\ \A a, b \in Seq(MessageSet(X)) :
              Gather(Carrying(X), a \o b) = Gather(Carrying(X), a) \o Gather(Carrying(X), b)
<1>1. ASSUME NEW message \in MessageSet(X)
      PROVE  /\ Contents(message) = <<message.body>> \o message.unread
                                       \o Gather(Content(X), message.attachments)
             /\ Contents(message) \in Seq(X)
  <2> DEFINE l == message.attachments
  <2>1. l \in Seq(Atts(X)) /\ message.body \in X /\ message.unread \in Seq(X)
    BY DEF MessageSet
  <2>2. DOMAIN l = 1..Len(l) /\ \A j \in 1..Len(l) : l[j] \in Atts(X)
    BY <2>1, LenProperties, ElementOfSeq
  <2>3. [j \in DOMAIN l |-> ContentOf(l[j])] = [j \in DOMAIN l |-> Content(X)[l[j]]]
    BY <2>2 DEF Content
  <2>4. Contents(message) = <<message.body>> \o message.unread \o Gather(Content(X), l)
    BY <2>3 DEF Contents, Gather
  <2> HIDE DEF l
  <2>5. <<message.body>> \in Seq(X)
    BY <2>1
  <2>6. Gather(Content(X), l) \in Seq(X)
    BY <2>1, ContentLaws
  <2>7. <<message.body>> \o message.unread \o Gather(Content(X), l) \in Seq(X)
    <3>1. <<message.body>> \o message.unread \in Seq(X)
      BY <2>1, <2>5, ConcatProperties
    <3> QED
      BY <2>6, <3>1, ConcatProperties
  <2> QED
    BY <2>4, <2>7 DEF l
<1>2. Carrying(X) \in [MessageSet(X) -> Seq(X)]
  BY <1>1 DEF Carrying
<1>3. ASSUME NEW l \in Seq(MessageSet(X))
      PROVE  FlattenSeq([j \in DOMAIN l |-> Contents(l[j])]) = Gather(Carrying(X), l)
  <2>1. DOMAIN l = 1..Len(l) /\ \A j \in 1..Len(l) : l[j] \in MessageSet(X)
    BY LenProperties, ElementOfSeq
  <2>2. [j \in DOMAIN l |-> Contents(l[j])] = [j \in DOMAIN l |-> Carrying(X)[l[j]]]
    BY <2>1 DEF Carrying
  <2> QED
    BY <2>2 DEF Gather
<1>4. ASSUME NEW a \in Seq(MessageSet(X)), NEW b \in Seq(MessageSet(X))
      PROVE  Gather(Carrying(X), a \o b) = Gather(Carrying(X), a) \o Gather(Carrying(X), b)
  BY <1>2, GatherLaws
<1>5. \A message \in MessageSet(X) : Carrying(X)[message] = Contents(message)
  BY DEF Carrying
<1> QED
  BY <1>1, <1>2, <1>3, <1>4, <1>5

\* A message that is parsed carries what the stream does from its body to where
\* it ends, and what nobody read of it ends the stream.
LEMMA NextReadWhole ==
  ASSUME NEW X, NEW s \in Streams(X), NEW at \in 1..Len(s), NEW strictly \in BOOLEAN,
         ParseNext(s, at, strictly).ok
  PROVE  /\ ParseNext(s, at, strictly).message \in MessageSet(X)
         /\ ParseNext(s, at, strictly).next \in (at + 2)..(Len(s) + 1)
         /\ MaterialFrom(s, at, ParseNext(s, at, strictly).next)
              = Carrying(X)[ParseNext(s, at, strictly).message]
         /\ ParseNext(s, at, strictly).message.unread # <<>> =>
              /\ ParseNext(s, at, strictly).message.body.major = 0
              /\ ~ParseNext(s, at, strictly).message.body.json
              /\ ParseNext(s, at, strictly).next = Len(s) + 1
<1> DEFINE r == ReadAfterBody(s, at, strictly)
           from == Starts(s, at)
           p == ParseNext(s, at, strictly)
           u == RestInRaw(s, at)
           message == [body |-> s[at].x, unread |-> u, attachments |-> r.atts]
<1>1. Len(s) \in Nat /\ s \in Seq(UnitSet(X)) /\ Len(s) \in 0..Len(s)
  BY LenProperties DEF Streams
<1>2. BodyStands(s, at)
  BY NextIs DEF Failed
<1>3. /\ s[at].u = "body" /\ s[at].x \in X /\ at + 1 \in 1..Len(s)
      /\ from \in 1..(Len(s) + 1) /\ from >= at + 2
      /\ u = MaterialFrom(s, at + 2, from) /\ u \in Seq(X)
      /\ u # <<>> => s[at].x.major = 0 /\ ~s[at].x.json /\ from = Len(s) + 1
  BY <1>2, BodyIs, RestIs
<1>4. /\ r \in AttachmentsRead(X, from, Len(s))
      /\ p = IF r.ok THEN [ok |-> TRUE, next |-> r.next, message |-> message] ELSE Failed
  BY <1>2, NextIs
<1>5. r.ok /\ p.next = r.next /\ p.message = message
  <2> HIDE DEF r, p, message
  <2>1. p.ok
    BY DEF p
  <2> QED
    BY <1>4, <2>1 DEF Failed
<1>6. r.next \in from..(Len(s) + 1) /\ r.atts \in Seq(Atts(X))
  <2> HIDE DEF r, from
  <2> QED
    BY <1>4, <1>5, ReadForms
<1>7. Reads(X, s, from, r)
  <2> DEFINE table == TableFromMajor(s[at].x.major)
             P == Parsed(s, table, strictly)
  <2>1. table \in Tables
    BY TableType
  <2> HIDE DEF table
  <2>2. IsParsed(X, s, table, strictly, P)
    BY <2>1, ParsedIsParsed
  <2>3. from <= Len(s) + 1
    BY <1>1, <1>3
  <2> HIDE DEF P, from
  <2>4. Reads(X, s, from, P[AttachmentsFrom(from, Len(s))])
    BY <1>1, <1>3, <2>1, <2>2, <2>3, AllReadWhole
  <2> QED
    BY <2>4 DEF P, table, from, ReadAfterBody
<1> HIDE DEF r, p, u
<1>8. message \in MessageSet(X)
  BY <1>3, <1>6 DEF MessageSet
<1>9. /\ at \in 1..(Len(s) + 1) /\ at + 2 \in at..(Len(s) + 1) /\ at + 2 \in 1..(Len(s) + 1)
      /\ from \in (at + 2)..(Len(s) + 1) /\ r.next \in from..(Len(s) + 1)
      /\ from \in at..(Len(s) + 1)
      /\ r.next \in (at + 2)..(Len(s) + 1) /\ at + 1 <= Len(s)
  BY <1>1, <1>3, <1>6
<1>10. MaterialFrom(s, at, at + 2) = <<s[at].x>>
  BY <1>3, <1>9, HeadCarries DEF Heads
<1> HIDE DEF from
<1>11. MaterialFrom(s, at, from) = MaterialFrom(s, at, at + 2) \o MaterialFrom(s, at + 2, from)
  BY <1>1, <1>9, MaterialParts, ZenonT(60)
<1>12. MaterialFrom(s, from, r.next) = Gather(Content(X), r.atts)
  BY <1>5, <1>7 DEF Reads
<1>13. MaterialFrom(s, at, r.next) = MaterialFrom(s, at, from) \o MaterialFrom(s, from, r.next)
  <2>1. from \in 1..(Len(s) + 1) /\ r.next \in from..(Len(s) + 1) /\ r.next \in at..(Len(s) + 1)
    BY <1>1, <1>3, <1>9
  <2> QED
    BY <1>1, <1>9, <2>1, MaterialParts, ZenonT(60)
<1>14. message.body = s[at].x /\ message.unread = u /\ message.attachments = r.atts
  OBVIOUS
<1> HIDE DEF message
<1>15. Carrying(X)[message] = <<s[at].x>> \o u \o Gather(Content(X), r.atts)
  <2>1. Carrying(X)[message] = <<message.body>> \o message.unread
                                 \o Gather(Content(X), message.attachments)
    BY <1>8, CarryingType, Zenon
  <2> QED
    BY <1>14, <2>1
<1>16. MaterialFrom(s, at, r.next) = <<s[at].x>> \o u \o Gather(Content(X), r.atts)
  BY <1>3, <1>10, <1>11, <1>12, <1>13
<1>17. p.message \in MessageSet(X) /\ p.next \in (at + 2)..(Len(s) + 1)
       /\ MaterialFrom(s, at, p.next) = Carrying(X)[p.message]
  BY <1>5, <1>8, <1>9, <1>15, <1>16
<1>18. u # <<>> => s[at].x.major = 0 /\ ~s[at].x.json /\ r.next = Len(s) + 1
  BY <1>1, <1>3, <1>9
<1>19. p.message.unread # <<>> =>
         p.message.body.major = 0 /\ ~p.message.body.json /\ p.next = Len(s) + 1
  BY <1>5, <1>14, <1>18
<1> QED
  BY <1>17, <1>19 DEF p

----------------------------------------------------------------------------
(* The invariant: what has been read up to the offset is in the messages,  *)
(* and a body that took what follows it without its being read is the last. *)

\* Whatever nobody read ends the stream, behind a last body that is not JSON and
\* has no version string at its start
UnreadIsLast ==
  \A j \in DOMAIN messages :
    messages[j].unread # <<>> =>
      /\ j = Len(messages) /\ offset = Len(stream) + 1
      /\ messages[j].body.major = 0 /\ ~messages[j].body.json

\* Over what the stream carries
ReadUpTo(X) ==
  /\ stream \in Streams(X)
  /\ strict \in BOOLEAN
  /\ offset \in 1..(Len(stream) + 1)
  /\ messages \in Seq(MessageSet(X))
  /\ result \in {"running", "done", "error"}
  /\ result # "error" => MaterialFrom(stream, 1, offset) = Gather(Carrying(X), messages)
  /\ UnreadIsLast
  /\ result = "done" => FirstFrom(offset) > Len(stream)

\* Over something that it carries
ReadSoFar == \E X : ReadUpTo(X)

\* Whatever is missing at its end, what arrives is a stream.
LEMMA ArrivesStream ==
  ASSUME Init
  PROVE  \E X : stream \in Streams(X)
<1>1. PICK X : sent \in Seq(ToSet(sent)) /\ \A m \in ToSet(sent) : IsMessageOver(m, X)
  BY SendingsOver DEF Init
<1> DEFINE whole == ComposeAll(sent)
<1>2. whole \in Wholes(X)
  BY <1>1, MessagesType
<1>3. PICK cut \in 0..MaxCut : stream = SubSeq(whole, 1, Len(whole) - cut)
  BY DEF Init
<1>4. Len(whole) \in Nat /\ cut \in Nat
  <2>1. whole \in Seq(UnitSet(X))
    BY <1>2, WholesJoin
  <2> QED
    BY <2>1, LenProperties, StreamBoundsAssumption
<1> HIDE DEF whole
<1>5. CASE Len(whole) - cut \in Nat
  <2>1. Len(whole) - cut <= Len(whole)
    BY <1>4
  <2> QED
    BY <1>2, <1>3, <1>5, <2>1, CutStream
<1>6. CASE Len(whole) - cut < 0
  <2>1. whole \in Seq(UnitSet(X))
    BY <1>2, WholesJoin
  <2>2. stream = <<>>
    BY <1>3, <1>4, <1>6, <2>1, SubSeqEmpty
  <2>3. <<>> \in Wholes(X)
    BY WholesJoin
  <2> QED
    BY <2>2, <2>3 DEF Wholes
<1> QED
  BY <1>4, <1>5, <1>6

\* At first nothing has been read.
LEMMA ReadSoFarInit ==
  ASSUME Init
  PROVE  ReadSoFar
<1>1. PICK X : stream \in Streams(X)
  BY ArrivesStream
<1>2. Len(stream) \in Nat /\ stream \in Seq(UnitSet(X)) /\ 1 \in 1..(Len(stream) + 1)
  BY <1>1, LenProperties DEF Streams
<1>3. MaterialFrom(stream, 1, 1) = <<>>
  <2>1. 1 \in 1..(Len(stream) + 1)
    BY <1>2
  <2> QED
    BY <1>2, <2>1, MaterialParts
<1>4. Gather(Carrying(X), <<>>) = <<>> /\ <<>> \in Seq(MessageSet(X))
  <2>1. Carrying(X) \in [MessageSet(X) -> Seq(X)]
    BY CarryingType
  <2> QED
    BY <2>1, GatherLaws
<1>5. ReadUpTo(X)
  <2>1. messages = <<>> /\ DOMAIN messages = {}
    BY DEF Init
  <2>2. UnreadIsLast
    BY <2>1 DEF UnreadIsLast
  <2> QED
    BY <1>1, <1>2, <1>3, <1>4, <2>1, <2>2 DEF ReadUpTo, Init
<1> QED
  BY <1>5 DEF ReadSoFar

\* parse_all goes on where the message before ended.
LEMMA ReadSoFarNext ==
  ASSUME ReadSoFar, [Next]_vars
  PROVE  ReadSoFar'
<1>1. PICK X : ReadUpTo(X)
  BY DEF ReadSoFar
<1>2. Len(stream) \in Nat /\ stream \in Seq(UnitSet(X)) /\ stream \in Streams(X) /\ strict \in BOOLEAN
      /\ offset \in 1..(Len(stream) + 1)
  BY <1>1, LenProperties DEF Streams, ReadUpTo
<1>3. CASE ParseMessage
  <2> DEFINE at == FirstFrom(offset)
             p == ParseNext(stream, at, strict)
  <2>1. at \in offset..(Len(stream) + 1) /\ \A i \in offset..(at - 1) : stream[i].u = "space"
    BY <1>2, FirstFromIs
  <2>2. result = "running" /\ at <= Len(stream) /\ at \in 1..Len(stream) /\ UNCHANGED <<stream, strict>>
    BY <1>2, <1>3, <2>1 DEF ParseMessage
  <2>3. CASE ~p.ok
    <3>1. messages' = <<>> /\ result' = "error" /\ offset' = offset
      BY <1>3, <2>3 DEF ParseMessage
    <3>2. DOMAIN messages' = {} /\ messages' \in Seq(MessageSet(X))
      BY <3>1
    <3>3. UnreadIsLast'
      BY <3>2 DEF UnreadIsLast
    <3>4. ReadUpTo(X)'
      BY <1>1, <2>2, <3>1, <3>2, <3>3 DEF ReadUpTo
    <3> QED
      BY <3>4 DEF ReadSoFar
  <2>4. CASE p.ok
    <3>1. messages' = Append(messages, p.message) /\ offset' = p.next /\ result' = "running"
      BY <1>3, <2>2, <2>4 DEF ParseMessage
    <3>2. /\ p.message \in MessageSet(X) /\ p.next \in (at + 2)..(Len(stream) + 1)
          /\ MaterialFrom(stream, at, p.next) = Carrying(X)[p.message]
          /\ p.message.unread # <<>> =>
               p.message.body.major = 0 /\ ~p.message.body.json /\ p.next = Len(stream) + 1
      <4> HIDE DEF at
      <4> QED
        BY <1>2, <2>2, <2>4, NextReadWhole
    <3> HIDE DEF at, p
    <3>3. /\ 1 \in 1..(Len(stream) + 1) /\ offset \in 1..(Len(stream) + 1)
          /\ at \in offset..(Len(stream) + 1) /\ p.next \in at..(Len(stream) + 1)
          /\ p.next \in offset..(Len(stream) + 1) /\ p.next \in 1..(Len(stream) + 1)
      BY <1>2, <2>1, <2>2, <3>2
    <3>4. MaterialFrom(stream, offset, at) = <<>>
      BY <1>2, <2>1, SpacesCarryNothing
    <3>5. MaterialFrom(stream, offset, p.next) = Carrying(X)[p.message]
      <4>1. MaterialFrom(stream, offset, p.next)
              = MaterialFrom(stream, offset, at) \o MaterialFrom(stream, at, p.next)
        BY <1>2, <3>3, MaterialParts, ZenonT(60)
      <4>2. Carrying(X)[p.message] \in Seq(X)
        BY <3>2, CarryingType
      <4> QED
        BY <3>2, <3>4, <4>1, <4>2, ConcatEmptySeq
    <3>6. MaterialFrom(stream, 1, p.next)
            = MaterialFrom(stream, 1, offset) \o MaterialFrom(stream, offset, p.next)
      <4>1. 1 \in 1..(Len(stream) + 1) /\ offset \in 1..(Len(stream) + 1)
        BY <3>3
      <4> QED
        BY <1>2, <3>3, <4>1, MaterialParts, ZenonT(60)
    <3>7. messages \in Seq(MessageSet(X)) /\ MaterialFrom(stream, 1, offset) = Gather(Carrying(X), messages)
      BY <1>1, <2>2 DEF ReadUpTo
    <3>8. /\ messages' = messages \o <<p.message>>
          /\ <<p.message>> \in Seq(MessageSet(X))
          /\ messages' \in Seq(MessageSet(X))
      <4>1. messages' = messages \o <<p.message>>
        BY <3>1, <3>2, <3>7, AppendIsConcat
      <4> QED
        BY <3>2, <3>7, <4>1, ConcatProperties
    <3>9. Gather(Carrying(X), messages \o <<p.message>>)
            = Gather(Carrying(X), messages) \o Carrying(X)[p.message]
      <4>1. Carrying(X) \in [MessageSet(X) -> Seq(X)]
        BY CarryingType
      <4>2. Gather(Carrying(X), messages \o <<p.message>>)
              = Gather(Carrying(X), messages) \o Gather(Carrying(X), <<p.message>>)
        BY <3>7, <3>8, CarryingType
      <4>3. Gather(Carrying(X), <<p.message>>) = Carrying(X)[p.message]
        BY <3>2, <4>1, GatherLaws
      <4> QED
        BY <4>2, <4>3
    <3>10. MaterialFrom(stream, 1, p.next) = Gather(Carrying(X), messages')
      BY <3>5, <3>6, <3>7, <3>8, <3>9
    <3>11. UnreadIsLast'
      <4> DEFINE n == Len(messages)
      <4>1. n \in Nat /\ DOMAIN messages = 1..n
        BY <3>7, LenProperties
      <4>2. \A j \in 1..n : messages[j].unread = <<>>
        <5>1. offset # Len(stream) + 1
          BY <1>2, <2>1, <2>2
        <5> QED
          BY <1>1, <4>1, <5>1 DEF ReadUpTo, UnreadIsLast
      <4>3. /\ Len(messages') = n + 1 /\ DOMAIN messages' = 1..(n + 1)
            /\ \A j \in 1..n : messages'[j] = messages[j]
            /\ messages'[n + 1] = p.message
        BY <3>1, <3>2, <3>7, <3>8, AppendProperties, LenProperties
      <4> HIDE DEF n
      <4>4. ASSUME NEW j \in DOMAIN messages', messages'[j].unread # <<>>
            PROVE  /\ j = Len(messages') /\ offset' = Len(stream') + 1
                   /\ messages'[j].body.major = 0 /\ ~messages'[j].body.json
        <5>1. j \in 1..(n + 1) /\ j \notin 1..n
          BY <4>2, <4>3, <4>4
        <5>2. j = n + 1
          BY <4>1, <5>1
        <5>3. messages'[j] = p.message /\ offset' = p.next /\ stream' = stream
          BY <2>2, <3>1, <4>3, <5>2
        <5>4. p.message.body.major = 0 /\ ~p.message.body.json /\ p.next = Len(stream) + 1
          BY <3>2, <4>4, <5>3
        <5> QED
          BY <4>3, <5>2, <5>3, <5>4
      <4> QED
        BY <4>4 DEF UnreadIsLast
    <3>12. ReadUpTo(X)'
      BY <1>2, <2>2, <3>1, <3>3, <3>8, <3>10, <3>11 DEF ReadUpTo
    <3> QED
      BY <3>12 DEF ReadSoFar
  <2> QED
    BY <2>3, <2>4
<1>4. CASE Finish
  <2>1. ReadUpTo(X)'
    BY <1>1, <1>4 DEF Finish, ReadUpTo, UnreadIsLast, FirstFrom
  <2> QED
    BY <2>1 DEF ReadSoFar
<1>5. CASE UNCHANGED vars
  <2>1. ReadUpTo(X)'
    BY <1>1, <1>5 DEF vars, ReadUpTo, UnreadIsLast, FirstFrom
  <2> QED
    BY <2>1 DEF ReadSoFar
<1> QED
  BY <1>3, <1>4, <1>5 DEF Next

\* What is parsed so far carries what stands before the offset, in every state.
THEOREM StreamReadSoFar == Spec => []ReadSoFar
<1>1. Init => ReadSoFar
  BY ReadSoFarInit
<1>2. ReadSoFar /\ [Next]_vars => ReadSoFar'
  BY ReadSoFarNext
<1> QED
  BY <1>1, <1>2, PTL DEF Spec

\* Whatever counts are declared, each body and primitive of a stream that is
\* accepted is in the result, once, under the body it follows, and only a last
\* body without a version string at its start that is not JSON takes what
\* follows it without its being read (parse_attachments and its wrappers,
\* parse_trans_idx_sig_groups, parse_all, Serder::from_raw).
THEOREM StreamNothingLost == Spec => []NothingLost
<1>1. ASSUME ReadSoFar
      PROVE  NothingLost
  <2>1. PICK X : ReadUpTo(X)
    BY <1>1 DEF ReadSoFar
  <2> SUFFICES ASSUME result = "done"
               PROVE  Material(stream) = FlattenSeq([j \in DOMAIN messages |-> Contents(messages[j])])
    BY <2>1 DEF NothingLost, ReadUpTo, UnreadIsLast
  <2>2. /\ stream \in Streams(X) /\ stream \in Seq(UnitSet(X)) /\ Len(stream) \in Nat
        /\ offset \in 1..(Len(stream) + 1) /\ messages \in Seq(MessageSet(X))
        /\ MaterialFrom(stream, 1, offset) = Gather(Carrying(X), messages)
        /\ FirstFrom(offset) > Len(stream)
    BY <2>1, LenProperties DEF ReadUpTo, Streams
  <2>3. \A i \in offset..(FirstFrom(offset) - 1) : stream[i].u = "space"
    BY <2>2, FirstFromIs
  <2>4. FirstFrom(offset) = Len(stream) + 1
    <3>1. FirstFrom(offset) \in offset..(Len(stream) + 1)
      BY <2>2, FirstFromIs
    <3> QED
      BY <2>2, <3>1
  <2> DEFINE end == Len(stream) + 1
  <2>5. end \in offset..(Len(stream) + 1) /\ end - 1 = Len(stream) /\ 1 \in 1..(Len(stream) + 1)
    BY <2>2
  <2>6. MaterialFrom(stream, offset, end) = <<>>
    <3>1. \A i \in offset..(end - 1) : stream[i].u = "space"
      BY <2>3, <2>4
    <3> HIDE DEF end
    <3> QED
      BY <2>2, <2>5, <3>1, SpacesCarryNothing
  <2> HIDE DEF end
  <2>7. MaterialFrom(stream, 1, end) = MaterialFrom(stream, 1, offset) \o MaterialFrom(stream, offset, end)
    BY <2>2, <2>5, MaterialParts
  <2>8. MaterialFrom(stream, 1, end) = Material(stream)
    <3>1. SubSeq(stream, 1, Len(stream)) = stream
      BY <2>2, SubSeqFull
    <3> QED
      BY <2>5, <3>1 DEF MaterialFrom
  <2>9. Gather(Carrying(X), messages) \in Seq(X)
    BY <2>2, CarryingType, GatherLaws
  <2>10. Material(stream) = Gather(Carrying(X), messages)
    BY <2>2, <2>6, <2>7, <2>8, <2>9, ConcatEmptySeq
  <2> QED
    BY <2>2, <2>10, CarryingType
<1> QED
  BY <1>1, StreamReadSoFar, PTL

\* A lenient parse that reports no uninterpreted attachments is what the strict
\* one gives (parse_next_lenient, has_uninterpreted_attachments).
THEOREM StreamLenientIsStrictWhenInterpreted == Spec => []LenientIsStrictWhenInterpreted
<1>1. ASSUME ReadSoFar
      PROVE  LenientIsStrictWhenInterpreted
  <2>1. PICK X : ReadUpTo(X)
    BY <1>1 DEF ReadSoFar
  <2> DEFINE at == FirstFrom(offset)
  <2>2. stream \in Streams(X) /\ Len(stream) \in Nat /\ at \in 1..(Len(stream) + 1)
    <3>1. stream \in Streams(X) /\ Len(stream) \in Nat /\ offset \in 1..(Len(stream) + 1)
      BY <2>1, LenProperties DEF ReadUpTo, Streams
    <3>2. at \in offset..(Len(stream) + 1)
      BY <3>1, FirstFromIs
    <3> HIDE DEF at
    <3> QED
      BY <3>1, <3>2
  <2> HIDE DEF at
  <2>3. ASSUME NEW lax \in BOOLEAN, lax = FALSE, NEW firm \in BOOLEAN, firm = TRUE, at <= Len(stream)
        PROVE  IF ParseNext(stream, at, lax).ok /\ ~Uninterpretable(ParseNext(stream, at, lax).message)
               THEN ParseNext(stream, at, firm) = ParseNext(stream, at, lax)
               ELSE ~ParseNext(stream, at, firm).ok
    <3>1. at \in 1..Len(stream)
      BY <2>2, <2>3
    <3> QED
      BY <2>2, <2>3, <3>1, NextAgrees
  <2>4. at <= Len(stream) =>
          IF ParseNext(stream, at, FALSE).ok /\ ~Uninterpretable(ParseNext(stream, at, FALSE).message)
          THEN ParseNext(stream, at, TRUE) = ParseNext(stream, at, FALSE)
          ELSE ~ParseNext(stream, at, TRUE).ok
    BY <2>3, Zenon
  <2> QED
    BY <2>4 DEF LenientIsStrictWhenInterpreted, at
<1> QED
  BY <1>1, StreamReadSoFar, PTL

----------------------------------------------------------------------------
(* Where what is composed stands in a stream.                              *)

\* A piece of a list
LEMMA Piece ==
  ASSUME NEW S, NEW l \in Seq(S), NEW a \in 1..(Len(l) + 1), NEW b \in (a - 1)..Len(l)
  PROVE  /\ SubSeq(l, a, b) \in Seq(S) /\ Len(SubSeq(l, a, b)) = b - a + 1
         /\ \A i \in 1..(b - a + 1) : SubSeq(l, a, b)[i] = l[a + i - 1]
<1>1. Len(l) \in Nat /\ \A i \in 1..Len(l) : l[i] \in S
  BY LenProperties, ElementOfSeq
<1>2. a \in Int /\ b \in Int /\ \A i \in a..b : l[i] \in S
  BY <1>1
<1>3. (IF a <= b THEN b - a + 1 ELSE 0) = b - a + 1
  BY <1>1
<1>4. /\ SubSeq(l, a, b) \in Seq(S) /\ Len(SubSeq(l, a, b)) = IF a <= b THEN b - a + 1 ELSE 0
      /\ \A i \in 1..(b - a + 1) : SubSeq(l, a, b)[i] = l[a + i - 1]
  BY <1>2, SubSeqProperties
<1> QED
  BY <1>3, <1>4

\* A piece of a piece is a piece
Nested(l, a, b, c, d) == SubSeq(SubSeq(l, a, b), c, d) = SubSeq(l, a + c - 1, a + d - 1)

\* Pieces nest.
LEMMA PieceOfPiece ==
  ASSUME NEW S, NEW l \in Seq(S), NEW a \in 1..(Len(l) + 1), NEW b \in (a - 1)..Len(l),
         NEW c \in 1..(b - a + 2), NEW d \in (c - 1)..(b - a + 1)
  PROVE  Nested(l, a, b, c, d)
<1> DEFINE p == SubSeq(l, a, b)
           q == SubSeq(l, a + c - 1, a + d - 1)
           e == a + c - 1
           f == a + d - 1
<1>0. Len(l) \in Nat
  BY LenProperties
<1>1. p \in Seq(S) /\ Len(p) = b - a + 1 /\ \A i \in 1..(b - a + 1) : p[i] = l[a + i - 1]
  BY Piece
<1>2. e \in 1..(Len(l) + 1) /\ f \in (e - 1)..Len(l) /\ f - e + 1 = d - c + 1
  BY <1>0
<1> HIDE DEF p
<1>3. /\ q \in Seq(S) /\ Len(q) = d - c + 1
      /\ \A i \in 1..(d - c + 1) : q[i] = l[e + i - 1]
  <2> HIDE DEF e, f
  <2>1. /\ SubSeq(l, e, f) \in Seq(S) /\ Len(SubSeq(l, e, f)) = f - e + 1
        /\ \A i \in 1..(f - e + 1) : SubSeq(l, e, f)[i] = l[e + i - 1]
    BY <1>2, Piece
  <2> QED
    BY <1>2, <2>1 DEF q, e, f
<1>4. c \in 1..(Len(p) + 1) /\ d \in (c - 1)..Len(p)
  BY <1>0, <1>1
<1>5. /\ SubSeq(p, c, d) \in Seq(S) /\ Len(SubSeq(p, c, d)) = d - c + 1
      /\ \A i \in 1..(d - c + 1) : SubSeq(p, c, d)[i] = p[c + i - 1]
  BY <1>1, <1>4, Piece
<1>6. ASSUME NEW i \in 1..(d - c + 1)
      PROVE  SubSeq(p, c, d)[i] = q[i]
  <2>1. c + i - 1 \in 1..(b - a + 1) /\ a + (c + i - 1) - 1 = e + i - 1
    BY <1>0
  <2> QED
    BY <1>1, <1>3, <1>5, <2>1
<1> HIDE DEF q
<1>7. SubSeq(p, c, d) = q
  BY <1>3, <1>5, <1>6, SeqEqual
<1> QED
  BY <1>7 DEF p, q, Nested

\* A piece of a list stands at a place
Holds(s, at, l) ==
  /\ at + Len(l) - 1 <= Len(s)
  /\ \A j \in 1..Len(l) : s[at + j - 1] = l[j]

\* Of two lists that stand one after the other both do
StandInParts(s, at, a, b) ==
  /\ Holds(s, at, a) /\ Holds(s, at + Len(a), b)
  /\ Len(a \o b) = Len(a) + Len(b) /\ Len(a) \in Nat /\ Len(b) \in Nat

\* Two lists stand where the first does and the second after it.
LEMMA HoldsParts ==
  ASSUME NEW T, NEW s \in Seq(T), NEW at \in Nat \ {0}, NEW a \in Seq(T), NEW b \in Seq(T),
         Holds(s, at, a \o b)
  PROVE  StandInParts(s, at, a, b)
<1>1. /\ Len(a) \in Nat /\ Len(b) \in Nat /\ Len(s) \in Nat
      /\ Len(a \o b) = Len(a) + Len(b) /\ a \o b \in Seq(T)
      /\ \A i \in 1..(Len(a) + Len(b)) : (a \o b)[i] = IF i <= Len(a) THEN a[i] ELSE b[i - Len(a)]
  BY LenProperties, ConcatProperties
<1> DEFINE c == a \o b
<1>2. /\ Len(c) = Len(a) + Len(b) /\ at + Len(c) - 1 <= Len(s)
      /\ \A i \in 1..(Len(a) + Len(b)) : c[i] = IF i <= Len(a) THEN a[i] ELSE b[i - Len(a)]
      /\ \A i \in 1..(Len(a) + Len(b)) : s[at + i - 1] = c[i]
  BY <1>1 DEF Holds
<1> HIDE DEF c
<1>3. Holds(s, at, a)
  <2>1. ASSUME NEW j \in 1..Len(a)
        PROVE  s[at + j - 1] = a[j]
    <3>1. j \in 1..(Len(a) + Len(b)) /\ j <= Len(a)
      BY <1>1
    <3> QED
      BY <1>2, <3>1
  <2> QED
    BY <1>1, <1>2, <2>1 DEF Holds
<1>4. Holds(s, at + Len(a), b)
  <2>1. ASSUME NEW j \in 1..Len(b)
        PROVE  s[at + Len(a) + j - 1] = b[j]
    <3>1. Len(a) + j \in 1..(Len(a) + Len(b)) /\ ~(Len(a) + j <= Len(a)) /\ (Len(a) + j) - Len(a) = j
          /\ at + (Len(a) + j) - 1 = at + Len(a) + j - 1
      BY <1>1
    <3> QED
      BY <1>2, <3>1
  <2> QED
    BY <1>1, <1>2, <2>1 DEF Holds
<1> QED
  BY <1>1, <1>3, <1>4 DEF StandInParts

\* A list of units is a head and a tail for each
Pairs(X, kind, ids, units) ==
  /\ units \in Seq(UnitSet(X)) /\ Len(units) = 2 * Len(ids)
  /\ \A j \in 1..Len(ids) : units[2 * j - 1] = [u |-> kind, x |-> ids[j]]
  /\ \A j \in 1..Len(ids) : units[2 * j] = [u |-> "tail"]

\* Primitives are composed as a head and a tail each.
LEMMA UnitsAre ==
  ASSUME NEW X, NEW kind \in Heads
  PROVE  \A ids \in Seq(X) : Pairs(X, kind, ids, Units(kind, ids))
<1> DEFINE G == {ids \in Seq(X) : Pairs(X, kind, ids, Units(kind, ids))}
           pair(x) == <<[u |-> kind, x |-> x], [u |-> "tail"]>>
<1>1. /\ Paired(kind, X) \in [X -> Seq(UnitSet(X))]
      /\ \A ids \in Seq(X) : Units(kind, ids) = Gather(Paired(kind, X), ids)
  <2>1. \A ids \in Seq(X) : /\ Paired(kind, X) \in [X -> Wholes(X)]
                            /\ Units(kind, ids) = Gather(Paired(kind, X), ids)
    BY UnitsGathered
  <2>2. <<>> \in Seq(X)
    BY EmptySeq
  <2>3. Paired(kind, X) \in [X -> Wholes(X)]
    BY <2>1, <2>2
  <2> QED
    BY <2>1, <2>3, WholesJoin
<1>2. <<>> \in G
  <2>1. <<>> \in Seq(X) /\ <<>> \in Seq(UnitSet(X)) /\ Len(<<>>) = 0
    BY EmptySeq
  <2>2. Units(kind, <<>>) = <<>>
    BY <1>1, <2>1, GatherLaws
  <2>3. Pairs(X, kind, <<>>, <<>>)
    BY <2>1 DEF Pairs
  <2> QED
    BY <2>1, <2>2, <2>3
<1>3. ASSUME NEW l \in Seq(X), NEW x \in X, l \in G
      PROVE  l \o <<x>> \in G
  <2> DEFINE m == l \o <<x>>
             u == Units(kind, l)
             v == Units(kind, m)
             n == Len(l)
  <2>1. /\ m \in Seq(X) /\ n \in Nat /\ Len(m) = n + 1
        /\ \A j \in 1..n : m[j] = l[j]
        /\ m[n + 1] = x
    <3>1. <<x>> \in Seq(X) /\ Len(<<x>>) = 1 /\ <<x>>[1] = x
      OBVIOUS
    <3>2. /\ m \in Seq(X) /\ Len(m) = Len(l) + Len(<<x>>)
          /\ \A j \in 1..(Len(l) + Len(<<x>>)) : m[j] = IF j <= Len(l) THEN l[j] ELSE <<x>>[j - Len(l)]
      BY <3>1, ConcatProperties
    <3>3. n \in Nat
      BY LenProperties
    <3> HIDE DEF m
    <3>4. m[n + 1] = <<x>>[(n + 1) - n] /\ (n + 1) - n = 1
      BY <3>1, <3>2, <3>3
    <3> QED
      BY <3>1, <3>2, <3>3, <3>4
  <2>2. /\ u \in Seq(UnitSet(X)) /\ Len(u) = 2 * n
        /\ \A j \in 1..n : u[2 * j - 1] = [u |-> kind, x |-> l[j]]
        /\ \A j \in 1..n : u[2 * j] = [u |-> "tail"]
    BY <1>3 DEF Pairs
  <2>3. v = u \o pair(x) /\ pair(x) \in Seq(UnitSet(X))
    <3>1. Makes(Paired(kind, X), X, UnitSet(X))
      BY <1>1 DEF Makes
    <3>2. Grown(Paired(kind, X), l, x)
      BY <3>1, GatherOneMore
    <3>4. Paired(kind, X)[x] = pair(x) /\ Paired(kind, X)[x] \in Seq(UnitSet(X))
      BY <1>1 DEF Paired
    <3>5. v = Gather(Paired(kind, X), l \o <<x>>) /\ u = Gather(Paired(kind, X), l)
      BY <1>1, <2>1
    <3> QED
      BY <3>2, <3>4, <3>5 DEF Grown
  <2> DEFINE p == pair(x)
  <2>4. Len(p) = 2 /\ p[1] = [u |-> kind, x |-> x] /\ p[2] = [u |-> "tail"] /\ v = u \o p
        /\ p \in Seq(UnitSet(X))
    BY <2>3
  <2> HIDE DEF m, u, v, p
  <2>5. /\ v \in Seq(UnitSet(X)) /\ Len(v) = 2 * n + 2
        /\ \A i \in 1..(2 * n + 2) : v[i] = IF i <= 2 * n THEN u[i] ELSE p[i - 2 * n]
    <3>1. /\ v \in Seq(UnitSet(X)) /\ Len(v) = Len(u) + Len(p)
          /\ \A i \in 1..(Len(u) + Len(p)) : v[i] = IF i <= Len(u) THEN u[i] ELSE p[i - Len(u)]
      BY <2>2, <2>4, ConcatProperties
    <3> QED
      BY <2>2, <2>4, <3>1
  <2>6. ASSUME NEW j \in 1..(n + 1)
        PROVE  v[2 * j - 1] = [u |-> kind, x |-> m[j]] /\ v[2 * j] = [u |-> "tail"]
    <3>1. CASE j \in 1..n
      <4>1. 2 * j - 1 \in 1..(2 * n + 2) /\ 2 * j \in 1..(2 * n + 2) /\ 2 * j <= 2 * n /\ 2 * j - 1 <= 2 * n
        BY <2>1, <3>1
      <4> QED
        BY <2>1, <2>2, <2>5, <3>1, <4>1
    <3>2. CASE j = n + 1
      <4>1. /\ 2 * j - 1 \in 1..(2 * n + 2) /\ 2 * j \in 1..(2 * n + 2)
            /\ ~(2 * j - 1 <= 2 * n) /\ ~(2 * j <= 2 * n)
            /\ (2 * j - 1) - 2 * n = 1 /\ 2 * j - 2 * n = 2
        BY <2>1, <3>2
      <4> QED
        BY <2>1, <2>4, <2>5, <3>2, <4>1
    <3> QED
      BY <2>1, <3>1, <3>2
  <2>7. 2 * n + 2 = 2 * Len(m)
    BY <2>1
  <2>8. Pairs(X, kind, m, v)
    BY <2>1, <2>5, <2>6, <2>7 DEF Pairs
  <2> QED
    BY <2>1, <2>8 DEF m, v
<1>4. \A ids \in Seq(X) : ids \in G
  <2> HIDE DEF G
  <2> QED
    BY <1>2, <1>3, ListTurns
<1> QED
  BY <1>4

\* Primitives are read at a place
UnitsReadAt(s, at, kind, ids) ==
  /\ Len(ids) \in Nat /\ Len(Units(kind, ids)) = 2 * Len(ids)
  /\ \A j \in 1..Len(ids) : s[at + 2 * (j - 1)].u = kind
  /\ ItemsAt(s, at, Len(ids)) = ids

\* Where primitives stand that have been composed, what they are of is read.
LEMMA UnitsStand ==
  ASSUME NEW X, NEW kind \in Heads, NEW ids \in Seq(X), NEW s, NEW at \in Nat \ {0},
         Holds(s, at, Units(kind, ids))
  PROVE  UnitsReadAt(s, at, kind, ids)
<1>1. /\ Len(ids) \in Nat /\ Len(Units(kind, ids)) = 2 * Len(ids)
      /\ \A j \in 1..Len(ids) : Units(kind, ids)[2 * j - 1] = [u |-> kind, x |-> ids[j]]
  <2>1. Pairs(X, kind, ids, Units(kind, ids))
    BY UnitsAre
  <2> QED
    BY <2>1, LenProperties DEF Pairs
<1>2. ASSUME NEW j \in 1..Len(ids)
      PROVE  s[at + 2 * (j - 1)] = [u |-> kind, x |-> ids[j]]
  <2>1. 2 * j - 1 \in 1..Len(Units(kind, ids)) /\ at + (2 * j - 1) - 1 = at + 2 * (j - 1)
    BY <1>1
  <2>2. s[at + (2 * j - 1) - 1] = Units(kind, ids)[2 * j - 1]
    BY <2>1 DEF Holds
  <2> QED
    BY <1>1, <2>1, <2>2
<1>3. ASSUME NEW j \in 1..Len(ids)
      PROVE  s[at + 2 * (j - 1)].u = kind /\ s[at + 2 * (j - 1)].x = ids[j]
  <2> DEFINE unit == s[at + 2 * (j - 1)]
  <2>1. unit = [u |-> kind, x |-> ids[j]]
    BY <1>2
  <2> HIDE DEF unit
  <2>2. unit.u = kind /\ unit.x = ids[j]
    BY <2>1
  <2> QED
    BY <2>2 DEF unit
<1>4. ItemsAt(s, at, Len(ids)) = ids
  <2>1. ids = [j \in 1..Len(ids) |-> ids[j]]
    BY LenProperties
  <2>2. ItemsAt(s, at, Len(ids)) = [j \in 1..Len(ids) |-> ids[j]]
    BY <1>3 DEF ItemsAt
  <2> QED
    BY <2>1, <2>2
<1> QED
  BY <1>1, <1>3, <1>4 DEF UnitsReadAt

----------------------------------------------------------------------------
(* Groups with right counts.                                               *)

\* What a count has to be for a group that is no wrapper
CountedAlone(g, table) ==
  CASE g.kind = Trans ->
         /\ g.kind \in DOMAIN Codes[table]
         /\ g.n = Len(g.groups) /\ g.n <= MaxAttachmentCount
         /\ \A k \in DOMAIN g.groups : Len(g.groups[k].sigs) \in 1..MaxAttachmentCount
    [] g.kind \in Idx -> g.n = Len(g.items) /\ g.n <= MaxAttachmentCount
    [] g.kind \in Couples -> 2 * g.n = Len(g.items) /\ g.n <= MaxAttachmentCount
    [] OTHER -> FALSE

\* A wrapper counts what it wraps, other groups what they hold.
LEMMA CountedIs ==
  ASSUME NEW gs, NEW j, NEW table
  PROVE  Counted(gs, j, table) <=>
           IF gs[j].kind = Wrapper
           THEN gs[j].n = Len(ComposeGroups(SubSeq(gs, j + 1, j + gs[j].wraps), table))
           ELSE CountedAlone(gs[j], table)
<1> DEFINE kind == gs[j].kind
           wrapper == gs[j].n = Len(ComposeGroups(SubSeq(gs, j + 1, j + gs[j].wraps), table))
           trans == /\ kind \in DOMAIN Codes[table]
                    /\ gs[j].n = Len(gs[j].groups) /\ gs[j].n <= MaxAttachmentCount
                    /\ \A k \in DOMAIN gs[j].groups : Len(gs[j].groups[k].sigs) \in 1..MaxAttachmentCount
           indexed == gs[j].n = Len(gs[j].items) /\ gs[j].n <= MaxAttachmentCount
           couples == 2 * gs[j].n = Len(gs[j].items) /\ gs[j].n <= MaxAttachmentCount
<1>1. Counted(gs, j, table) = CASE kind = Wrapper -> wrapper [] kind = Trans -> trans
                                [] kind \in Idx -> indexed [] kind \in Couples -> couples [] OTHER -> FALSE
  BY DEF Counted, Trans
<1>2. CountedAlone(gs[j], table) = CASE kind = Trans -> trans
                                     [] kind \in Idx -> indexed [] kind \in Couples -> couples [] OTHER -> FALSE
  BY DEF CountedAlone
<1>3. wrapper \in BOOLEAN /\ trans \in BOOLEAN /\ indexed \in BOOLEAN /\ couples \in BOOLEAN
  OBVIOUS
<1> HIDE DEF kind, wrapper, trans, indexed, couples
<1>4. CASE kind = Wrapper
  <2>1. Counted(gs, j, table) = wrapper
    BY <1>1, <1>4, KindsDiffer
  <2> QED
    BY <1>4, <2>1 DEF kind, wrapper
<1>5. CASE kind # Wrapper
  <2>1. Counted(gs, j, table) = CountedAlone(gs[j], table)
    BY <1>1, <1>2, <1>5, KindsDiffer
  <2> QED
    BY <1>5, <2>1 DEF kind
<1> QED
  BY <1>4, <1>5

\* Groups as they should be: wrappers nest, counts are right, and transferable
\* groups are last
FaithfulGroups(gs, table) ==
  /\ WrappersNest(gs)
  /\ TransGroupsLast(gs)
  /\ \A j \in DOMAIN gs : Counted(gs, j, table)

\* A piece that no wrapper in it leaves, and that no wrapper before it ends in,
\* is as it should be.
LEMMA PieceFaithful ==
  ASSUME NEW X, NEW table \in Tables, NEW S, \A g \in S : IsGroupOver(g, X),
         NEW gs \in Seq(S), FaithfulGroups(gs, table),
         NEW a \in 1..(Len(gs) + 1), NEW b \in (a - 1)..Len(gs),
         \A j \in a..b : gs[j].kind = Wrapper => j + gs[j].wraps <= b,
         \A w \in 1..(a - 1) : gs[w].kind = Wrapper => w + gs[w].wraps < a \/ w + gs[w].wraps >= b
  PROVE  FaithfulGroups(SubSeq(gs, a, b), table)
<1> DEFINE p == SubSeq(gs, a, b)
<1>1. /\ Len(gs) \in Nat /\ DOMAIN gs = 1..Len(gs)
      /\ \A j \in 1..Len(gs) : gs[j] \in S /\ (gs[j].kind = Wrapper => gs[j].wraps \in Nat)
  BY LenProperties, ElementOfSeq DEF IsGroupOver
<1>2. p \in Seq(S) /\ Len(p) = b - a + 1 /\ \A i \in 1..(b - a + 1) : p[i] = gs[a + i - 1]
  BY Piece
<1>3. DOMAIN p = 1..(b - a + 1)
  <2> HIDE DEF p
  <2> QED
    BY <1>2, LenProperties
<1>4. /\ \A j \in 1..Len(gs) :
           gs[j].kind = Wrapper =>
             /\ j + gs[j].wraps <= Len(gs)
             /\ \A k \in (j + 1)..(j + gs[j].wraps) :
                  gs[k].kind = Wrapper => k + gs[k].wraps <= j + gs[j].wraps
  BY <1>1 DEF FaithfulGroups, WrappersNest
<1>5. \A j \in 1..Len(gs) :
        gs[j].kind = Trans => j = Len(gs) \/ \E w \in 1..(j - 1) : gs[w].kind = Wrapper /\ w + gs[w].wraps = j
  BY <1>1 DEF FaithfulGroups, TransGroupsLast, Trans
<1>6. \A j \in 1..Len(gs) : Counted(gs, j, table)
  BY <1>1 DEF FaithfulGroups
<1>7. ASSUME NEW j \in 1..(b - a + 1)
      PROVE  /\ a + j - 1 \in a..b /\ a + j - 1 \in 1..Len(gs) /\ p[j] = gs[a + j - 1]
             /\ gs[a + j - 1].kind = Wrapper =>
                  /\ gs[a + j - 1].wraps \in Nat
                  /\ j + gs[a + j - 1].wraps <= b - a + 1
  <2>1. a + j - 1 \in a..b /\ a + j - 1 \in 1..Len(gs) /\ p[j] = gs[a + j - 1]
    BY <1>1, <1>2
  <2>2. gs[a + j - 1].kind = Wrapper =>
          gs[a + j - 1].wraps \in Nat /\ (a + j - 1) + gs[a + j - 1].wraps <= b
    BY <1>1, <2>1
  <2> QED
    BY <1>1, <2>1, <2>2
<1> HIDE DEF p
<1>8. WrappersNest(p)
  <2>1. ASSUME NEW j \in 1..(b - a + 1), p[j].kind = Wrapper
        PROVE  /\ j + p[j].wraps <= Len(p)
               /\ \A k \in (j + 1)..(j + p[j].wraps) : p[k].kind = Wrapper => k + p[k].wraps <= j + p[j].wraps
    <3> DEFINE i == a + j - 1
    <3>1. /\ i \in 1..Len(gs) /\ p[j] = gs[i] /\ gs[i].wraps \in Nat /\ gs[i].kind = Wrapper
          /\ j + gs[i].wraps <= b - a + 1
      BY <1>7, <2>1
    <3>2. ASSUME NEW k \in (j + 1)..(j + p[j].wraps), p[k].kind = Wrapper
          PROVE  k + p[k].wraps <= j + p[j].wraps
      <4> DEFINE h == a + k - 1
      <4>1. k \in 1..(b - a + 1)
        BY <1>1, <3>1
      <4>2. p[k] = gs[h] /\ gs[h].kind = Wrapper /\ gs[h].wraps \in Nat
        BY <1>7, <3>2, <4>1
      <4>3. h \in (i + 1)..(i + gs[i].wraps)
        BY <1>1, <3>1
      <4>4. h + gs[h].wraps <= i + gs[i].wraps
        <5> HIDE DEF h, i
        <5> QED
          BY <1>4, <3>1, <4>2, <4>3
      <4> QED
        BY <1>1, <3>1, <4>2, <4>4, SMTT(30)
    <3> QED
      BY <1>2, <3>1, <3>2
  <2> QED
    BY <1>3, <2>1 DEF WrappersNest
<1>9. TransGroupsLast(p)
  <2>1. ASSUME NEW j \in 1..(b - a + 1), p[j].kind = Trans
        PROVE  j = Len(p) \/ \E w \in 1..(j - 1) : p[w].kind = Wrapper /\ w + p[w].wraps = j
    <3> DEFINE i == a + j - 1
    <3>1. i \in 1..Len(gs) /\ i \in a..b /\ p[j] = gs[i] /\ gs[i].kind = Trans
      BY <1>7, <2>1
    <3>2. CASE i = Len(gs)
      <4>1. j = b - a + 1
        BY <1>1, <3>1, <3>2
      <4> QED
        BY <1>2, <4>1
    <3>3. CASE \E w \in 1..(i - 1) : gs[w].kind = Wrapper /\ w + gs[w].wraps = i
      <4>1. PICK w \in 1..(i - 1) : gs[w].kind = Wrapper /\ w + gs[w].wraps = i
        BY <3>3
      <4>2. CASE w < a
        <5>1. w \in 1..(a - 1) /\ ~(w + gs[w].wraps < a)
          BY <1>1, <3>1, <4>1, <4>2
        <5>2. i >= b
          BY <4>1, <5>1
        <5>3. j = b - a + 1
          BY <1>1, <3>1, <5>2
        <5> QED
          BY <1>2, <5>3
      <4>3. CASE w >= a
        <5> DEFINE v == w - a + 1
        <5>1. v \in 1..(j - 1) /\ v \in 1..(b - a + 1) /\ a + v - 1 = w
          BY <1>1, <3>1, <4>3
        <5>2. p[v] = gs[w]
          <6> HIDE DEF v
          <6> QED
            BY <1>7, <5>1
        <5>3. gs[w].wraps \in Nat
          BY <1>1, <3>1, <4>1
        <5>4. v + gs[w].wraps = j
          <6> DEFINE x == gs[w].wraps
          <6>1. x \in Nat /\ w + x = a + j - 1 /\ w \in Int
            BY <1>1, <3>1, <4>1, <5>3
          <6> HIDE DEF x
          <6>2. (w - a + 1) + x = j
            BY <1>1, <6>1
          <6> QED
            BY <6>2 DEF x
        <5> HIDE DEF v
        <5> QED
          BY <4>1, <5>1, <5>2, <5>4
      <4> QED
        BY <1>1, <4>2, <4>3
    <3> HIDE DEF i
    <3> QED
      BY <1>5, <3>1, <3>2, <3>3
  <2> QED
    BY <1>3, <2>1 DEF TransGroupsLast, Trans
<1>10. ASSUME NEW j \in 1..(b - a + 1)
       PROVE  Counted(p, j, table)
  <2> DEFINE i == a + j - 1
  <2>1. /\ i \in 1..Len(gs) /\ p[j] = gs[i]
        /\ gs[i].kind = Wrapper => gs[i].wraps \in Nat /\ j + gs[i].wraps <= b - a + 1
    BY <1>7
  <2>2. IF gs[i].kind = Wrapper
        THEN gs[i].n = Len(ComposeGroups(SubSeq(gs, i + 1, i + gs[i].wraps), table))
        ELSE CountedAlone(gs[i], table)
    <3> HIDE DEF i
    <3> QED
      BY <1>6, <2>1, CountedIs
  <2>3. ASSUME gs[i].kind = Wrapper
        PROVE  SubSeq(p, j + 1, j + gs[i].wraps) = SubSeq(gs, i + 1, i + gs[i].wraps)
    <3> DEFINE c == j + 1
               d == j + gs[i].wraps
    <3>1. /\ c \in 1..(b - a + 2) /\ d \in (c - 1)..(b - a + 1)
          /\ a + c - 1 = i + 1 /\ a + d - 1 = i + gs[i].wraps
      BY <1>1, <2>1, <2>3
    <3> HIDE DEF c, d
    <3>2. Nested(gs, a, b, c, d)
      BY <3>1, PieceOfPiece
    <3> QED
      BY <3>1, <3>2 DEF c, d, p, Nested
  <2> HIDE DEF i
  <2>4. IF p[j].kind = Wrapper
        THEN p[j].n = Len(ComposeGroups(SubSeq(p, j + 1, j + p[j].wraps), table))
        ELSE CountedAlone(p[j], table)
    BY <2>1, <2>2, <2>3
  <2> QED
    BY <2>4, CountedIs
<1> QED
  BY <1>3, <1>8, <1>9, <1>10 DEF FaithfulGroups, p

\* What groups of S are meant as, one by one
Meaning(S) == [g \in S |-> IF g.kind = Wrapper THEN <<>> ELSE <<Attached(g)>>]

\* What is composed of two lists of groups, and meant by them
ComposedParts(table, a, b) ==
  /\ ComposeGroups(a \o b, table) = ComposeGroups(a, table) \o ComposeGroups(b, table)
  /\ Meant(a \o b) = Meant(a) \o Meant(b)

\* What is composed of a group with others behind it, and meant by them
ComposedFirst(table, g, a) ==
  /\ ComposeGroups(<<g>> \o a, table) = ComposeGroup(g, table) \o ComposeGroups(a, table)
  /\ Meant(<<g>> \o a) = (IF g.kind = Wrapper THEN <<>> ELSE <<Attached(g)>>) \o Meant(a)

\* Groups are composed, and meant, one after the other.
LEMMA ComposedLaws ==
  ASSUME NEW X, NEW table \in Tables, NEW S, \A g \in S : IsGroupOver(g, X)
  PROVE  /\ ComposeGroups(<<>>, table) = <<>> /\ Meant(<<>>) = <<>>
         /\ \A a \in Seq(S) : Meant(a) \in Seq({Attached(g) : g \in S})
         /\ \A a, b \in Seq(S) : ComposedParts(table, a, b)
         /\ \A g \in S, a \in Seq(S) : ComposedFirst(table, g, a)
<1> DEFINE T == {Attached(g) : g \in S}
<1>1. Makes(Grouping(S, table), S, UnitSet(X))
  <2>1. Grouping(S, table) \in [S -> Wholes(X)]
    BY GroupsType
  <2> QED
    BY <2>1, WholesJoin DEF Makes
<1>2. Makes(Meaning(S), S, T)
  <2>1. ASSUME NEW g \in S
        PROVE  (IF g.kind = Wrapper THEN <<>> ELSE <<Attached(g)>>) \in Seq(T)
    <3>1. Attached(g) \in T
      OBVIOUS
    <3> HIDE DEF T
    <3> QED
      BY <3>1
  <2> HIDE DEF T
  <2> QED
    BY <2>1 DEF Meaning, Makes
<1> HIDE DEF T
<1>3. ASSUME NEW a \in Seq(S)
      PROVE  ComposeGroups(a, table) = Gather(Grouping(S, table), a) /\ Meant(a) = Gather(Meaning(S), a)
  <2>1. ComposeGroups(a, table) = Gather(Grouping(S, table), a)
    BY GroupsType
  <2>2. DOMAIN a = 1..Len(a) /\ \A j \in 1..Len(a) : a[j] \in S
    BY LenProperties, ElementOfSeq
  <2>3. [j \in DOMAIN a |-> IF a[j].kind = Wrapper THEN <<>> ELSE <<Attached(a[j])>>]
          = [j \in DOMAIN a |-> Meaning(S)[a[j]]]
    BY <2>2 DEF Meaning
  <2> QED
    BY <2>1, <2>3 DEF Meant, Gather
<1>4. ComposeGroups(<<>>, table) = <<>> /\ Meant(<<>>) = <<>>
  <2>1. <<>> \in Seq(S)
    BY EmptySeq
  <2>2. Gather(Grouping(S, table), <<>>) = <<>> /\ Gather(Meaning(S), <<>>) = <<>>
    BY <1>1, <1>2, GatherLaws DEF Makes
  <2> QED
    BY <1>3, <2>1, <2>2
<1>5. ASSUME NEW a \in Seq(S)
      PROVE  Meant(a) \in Seq(T)
  <2>1. Gather(Meaning(S), a) \in Seq(T)
    BY <1>2, GatherLaws DEF Makes
  <2> QED
    BY <1>3, <2>1
<1>6. ASSUME NEW a \in Seq(S), NEW b \in Seq(S)
      PROVE  ComposedParts(table, a, b)
  <2>1. a \o b \in Seq(S)
    BY ConcatProperties
  <2>2. Joined(Grouping(S, table), a, b) /\ Joined(Meaning(S), a, b)
    BY <1>1, <1>2, GatherConcat
  <2> QED
    BY <1>3, <2>1, <2>2 DEF Joined, ComposedParts
<1>7. ASSUME NEW g \in S, NEW a \in Seq(S)
      PROVE  ComposedFirst(table, g, a)
  <2>1. <<g>> \o a \in Seq(S)
    <3>1. <<g>> \in Seq(S)
      OBVIOUS
    <3> QED
      BY <3>1, ConcatProperties
  <2>2. Grown(Grouping(S, table), a, g) /\ Grown(Meaning(S), a, g)
    BY <1>1, <1>2, GatherOneMore
  <2>3. /\ Grouping(S, table)[g] = ComposeGroup(g, table)
        /\ Meaning(S)[g] = IF g.kind = Wrapper THEN <<>> ELSE <<Attached(g)>>
    BY DEF Grouping, Meaning
  <2> QED
    BY <1>3, <2>1, <2>2, <2>3 DEF Grown, ComposedFirst
<1> QED
  BY <1>4, <1>5, <1>6, <1>7 DEF T

----------------------------------------------------------------------------
(* What is composed is parsed.                                             *)

\* A result of a parse of attachments
ReadsAs(r, next, atts) == r = [ok |-> TRUE, next |-> next, atts |-> atts]

\* The same as of a parse further on, with more in front
Precedes(P, at, to, next, atts) ==
  ReadsAs(P[AttachmentsFrom(at, to)], P[AttachmentsFrom(next, to)].next,
          atts \o P[AttachmentsFrom(next, to)].atts)

\* A result of a parse of groups
GroupsReadAs(r, next, groups) == r = [ok |-> TRUE, next |-> next, groups |-> groups]

\* A kind the table lists and the parser knows
Listed(kind, table) ==
  kind \in Idx \cup Couples \cup {Wrapper} \/ (kind = Trans /\ kind \in DOMAIN Codes[table])

\* Where a counter stands that has been composed, it is read as what it is of.
LEMMA CounterStands ==
  ASSUME NEW X, NEW s \in Streams(X), NEW at \in Nat \ {0}, NEW table \in Tables,
         NEW kind, Listed(kind, table), NEW n \in Nat, NEW b \in Seq(UnitSet(X)),
         Holds(s, at, Counter(kind, n, table) \o b)
  PROVE  /\ at \in 1..Len(s) /\ s[at].u = "counter" /\ s[at].n = n
         /\ Classify(s[at].code, table) = kind
         /\ Holds(s, at + 1, b) /\ Len(b) \in Nat
         /\ Len(Counter(kind, n, table) \o b) = 1 + Len(b)
<1> DEFINE c == Counter(kind, n, table)
<1>1. c \in Seq(UnitSet(X)) /\ Len(c) = 1 /\ c[1] = [u |-> "counter", code |-> CodeOf(kind, table), n |-> n]
  BY CounterType, WholesJoin
<1>2. s \in Seq(UnitSet(X)) /\ Len(s) \in Nat
  BY LenProperties DEF Streams
<1> HIDE DEF c
<1>3. /\ Holds(s, at, c) /\ Holds(s, at + 1, b)
      /\ Len(c \o b) = 1 + Len(b) /\ Len(b) \in Nat
  <2>1. Holds(s, at, c \o b)
    BY DEF c
  <2>2. StandInParts(s, at, c, b)
    BY <1>1, <1>2, <2>1, HoldsParts
  <2> QED
    BY <1>1, <2>2 DEF StandInParts
<1>4. at \in 1..Len(s) /\ s[at] = c[1]
  <2>1. 1 \in 1..Len(c) /\ at + 1 - 1 = at
    BY <1>1
  <2>2. s[at + 1 - 1] = c[1] /\ at + Len(c) - 1 <= Len(s)
    BY <1>3, <2>1 DEF Holds
  <2> QED
    BY <1>1, <1>2, <2>1, <2>2
<1>5. s[at].u = "counter" /\ s[at].n = n /\ s[at].code = CodeOf(kind, table)
  BY <1>1, <1>4
<1>6. Classify(CodeOf(kind, table), table) = kind
  BY CodeType DEF Listed
<1> QED
  BY <1>3, <1>4, <1>5, <1>6 DEF c

\* Attachments are a group and what is read after it, if all is ASCII.
LEMMA GroupThenRest ==
  ASSUME NEW X, NEW s \in Streams(X), NEW table \in Tables, NEW strictly \in BOOLEAN,
         NEW P, IsParsed(X, s, table, strictly, P),
         NEW at \in 1..Len(s), NEW to \in at..Len(s),
         s[at].u = "counter", \A j \in at..to : Ascii(s[j]),
         NEW next, NEW atts,
         ReadsAs(ParseGroup(P, s, at, to, table, strictly), next, atts),
         P[AttachmentsFrom(next, to)].ok
  PROVE  Precedes(P, at, to, next, atts)
<1> DEFINE first == ParseGroup(P, s, at, to, table, strictly)
<1>1. at \in 1..(Len(s) + 1) /\ to \in 0..Len(s) /\ at <= to + 1 /\ at <= to
  BY LenProperties DEF Streams
<1>2. AttachmentsSplit(X, s, table, strictly, P, at, to)
  BY <1>1, AttachmentsAre
<1>3. P[AttachmentsFrom(at, to)]
        = IF first.ok /\ P[AttachmentsFrom(first.next, to)].ok
          THEN [ok |-> TRUE, next |-> P[AttachmentsFrom(first.next, to)].next,
                atts |-> first.atts \o P[AttachmentsFrom(first.next, to)].atts]
          ELSE Failed
  BY <1>1, <1>2 DEF AttachmentsSplit
<1> HIDE DEF first
<1>4. first.ok /\ first.next = next /\ first.atts = atts
  BY DEF first, ReadsAs
<1> QED
  BY <1>3, <1>4 DEF Precedes, ReadsAs

\* A group of primitives is read as it was meant
ItemsReadAt(P, s, at, to, table, strictly, kind, items) ==
  /\ ReadsAs(ParseGroup(P, s, at, to, table, strictly), at + 1 + 2 * Len(items),
             <<[kind |-> kind, items |-> items]>>)
  /\ at \in 1..Len(s) /\ to \in at..Len(s) /\ s[at].u = "counter"

\* Primitives that have been composed with their counter are read as they were
\* meant.
LEMMA ItemsMeant ==
  ASSUME NEW X, NEW s \in Streams(X), NEW table \in Tables, NEW strictly \in BOOLEAN,
         NEW P, NEW at \in Nat \ {0}, NEW to \in 0..Len(s),
         NEW kind \in Idx \cup Couples, NEW n \in Nat, n <= MaxAttachmentCount,
         NEW items \in Seq(X), Size(kind, n) = Len(items),
         Holds(s, at, Counter(kind, n, table) \o Units(UnitOf(kind), items)),
         at + 2 * Len(items) <= to
  PROVE  ItemsReadAt(P, s, at, to, table, strictly, kind, items)
<1> DEFINE b == Units(UnitOf(kind), items)
           place == at + 1
           first == ParseGroup(P, s, at, to, table, strictly)
<1>1. UnitOf(kind) \in Heads
  BY DEF UnitOf, Heads
<1>2. b \in Seq(UnitSet(X))
  BY <1>1, UnitsType, WholesJoin
<1>3. Listed(kind, table)
  BY DEF Listed
<1>4. /\ at \in 1..Len(s) /\ s[at].u = "counter" /\ s[at].n = n
      /\ Classify(s[at].code, table) = kind /\ Holds(s, place, b)
  <2> HIDE DEF b
  <2>1. Holds(s, at, Counter(kind, n, table) \o b)
    BY DEF b
  <2> QED
    BY <1>2, <1>3, <2>1, CounterStands
<1>5. /\ Len(items) \in Nat /\ place \in Nat \ {0} /\ place <= to + 1 /\ place + 2 * Len(items) - 1 <= to
      /\ to \in at..Len(s)
  BY <1>4, LenProperties
<1>6. first = ParseItems(s, place, to, kind, n)
  <2>1. GroupSplit(s, table, strictly, P, at, to)
    BY <1>4, <1>5, GroupIs
  <2> QED
    BY <1>4, <2>1 DEF GroupSplit
<1>7. /\ \A j \in 1..Len(items) : s[place + 2 * (j - 1)].u = UnitOf(kind)
      /\ ItemsAt(s, place, Len(items)) = items
  <2>1. UnitsReadAt(s, place, UnitOf(kind), items)
    BY <1>1, <1>4, <1>5, UnitsStand
  <2> QED
    BY <2>1 DEF UnitsReadAt
<1> HIDE DEF place, first
<1>8. first = IF /\ n <= MaxAttachmentCount /\ place + 2 * Size(kind, n) - 1 <= to
                 /\ \A j \in 1..Size(kind, n) : s[place + 2 * (j - 1)].u = UnitOf(kind)
              THEN [ok |-> TRUE, next |-> place + 2 * Size(kind, n),
                    atts |-> <<[kind |-> kind, items |-> ItemsAt(s, place, Size(kind, n))]>>]
              ELSE Failed
  BY <1>5, <1>6, ItemsRead
<1>9. first = [ok |-> TRUE, next |-> place + 2 * Len(items), atts |-> <<[kind |-> kind, items |-> items]>>]
  BY <1>5, <1>7, <1>8
<1> QED
  BY <1>4, <1>5, <1>9 DEF ItemsReadAt, ReadsAs, first, place

\* A piece stands before a place where it can be read: no counter follows it, and
\* all up to the place is ASCII
Fits(s, at, to, units) ==
  /\ Holds(s, at, units)
  /\ at + Len(units) <= to + 1
  /\ at + Len(units) <= to => s[at + Len(units)].u # "counter"
  /\ units # <<>> => \A j \in at..to : Ascii(s[j])

\* Three lists one after the other
Associates(a, b, c) == (a \o b) \o c = a \o (b \o c)

\* It does not matter which two of three lists are joined first.
LEMMA ThreeLists ==
  ASSUME NEW T, NEW a \in Seq(T), NEW b \in Seq(T), NEW c \in Seq(T)
  PROVE  Associates(a, b, c)
BY ConcatAssociative DEF Associates

\* Where an anchor and its signatures stand, and more behind them
SignedAt(s, at, signed, table, more) ==
  LET sigs == Counter("ControllerIdxSigs", Len(signed.sigs), table) \o Units("indexed", signed.sigs)
  IN
  /\ Holds(s, at, Units("matter", signed.anchor))
  /\ Holds(s, at + 6, sigs)
  /\ Holds(s, at + 7 + 2 * Len(signed.sigs), more)
  /\ Len(ComposeSigned(signed, table) \o more) = 7 + 2 * Len(signed.sigs) + Len(more)
  /\ Len(signed.sigs) \in Nat /\ Len(more) \in Nat /\ ComposeSigned(signed, table) \o more # <<>>

\* An anchor is followed by a counter and its signatures.
LEMMA SignedStands ==
  ASSUME NEW X, NEW s \in Streams(X), NEW at \in Nat \ {0}, NEW table \in Tables,
         NEW signed \in SignedSet(X), NEW more \in Seq(UnitSet(X)),
         Holds(s, at, ComposeSigned(signed, table) \o more)
  PROVE  SignedAt(s, at, signed, table, more)
<1> DEFINE a == Units("matter", signed.anchor)
           c == Counter("ControllerIdxSigs", Len(signed.sigs), table)
           u == Units("indexed", signed.sigs)
           all == ComposeSigned(signed, table)
<1>1. signed.anchor \in Seq(X) /\ Len(signed.anchor) = 3 /\ signed.sigs \in Seq(X) /\ Len(signed.sigs) \in Nat
  BY LenProperties DEF SignedSet
<1>2. s \in Seq(UnitSet(X)) /\ Len(s) \in Nat
  BY LenProperties DEF Streams
<1>3. /\ a \in Seq(UnitSet(X)) /\ Len(a) = 6
      /\ u \in Seq(UnitSet(X)) /\ Len(u) = 2 * Len(signed.sigs)
      /\ c \in Seq(UnitSet(X)) /\ Len(c) = 1
  <2>1. Pairs(X, "matter", signed.anchor, a) /\ Pairs(X, "indexed", signed.sigs, u)
    BY <1>1, UnitsAre DEF Heads
  <2>2. c \in Seq(UnitSet(X)) /\ Len(c) = 1
    BY <1>1, CounterType, WholesJoin
  <2> QED
    BY <1>1, <2>1, <2>2 DEF Pairs
<1>4. all = a \o c \o u
  BY DEF ComposeSigned
<1> HIDE DEF a, c, u, all
<1>5. all = a \o (c \o u) /\ c \o u \in Seq(UnitSet(X)) /\ Len(c \o u) = 1 + 2 * Len(signed.sigs)
  <2>1. Associates(a, c, u)
    BY <1>3, ThreeLists
  <2>2. c \o u \in Seq(UnitSet(X)) /\ Len(c \o u) = Len(c) + Len(u)
    BY <1>3, ConcatProperties
  <2> QED
    BY <1>3, <1>4, <2>1, <2>2 DEF Associates
<1>6. all \in Seq(UnitSet(X)) /\ Len(all) = 7 + 2 * Len(signed.sigs)
  <2> DEFINE v == c \o u
  <2>1. v \in Seq(UnitSet(X)) /\ Len(v) = 1 + 2 * Len(signed.sigs) /\ all = a \o v
    BY <1>5
  <2> HIDE DEF v
  <2>2. all \in Seq(UnitSet(X)) /\ Len(all) = Len(a) + Len(v)
    BY <1>3, <2>1, ConcatProperties
  <2> QED
    BY <1>1, <1>3, <2>1, <2>2
<1>7. StandInParts(s, at, all, more)
  BY <1>2, <1>6, HoldsParts DEF all
<1>8. StandInParts(s, at, a, c \o u)
  <2>1. Holds(s, at, all)
    BY <1>7 DEF StandInParts
  <2>2. Holds(s, at, a \o (c \o u))
    BY <1>5, <2>1
  <2> QED
    BY <1>2, <1>3, <1>5, <2>2, HoldsParts
<1>9. /\ Holds(s, at, a) /\ Holds(s, at + 6, c \o u)
      /\ Holds(s, at + (7 + 2 * Len(signed.sigs)), more)
      /\ Len(all \o more) = 7 + 2 * Len(signed.sigs) + Len(more) /\ Len(more) \in Nat
  BY <1>3, <1>6, <1>7, <1>8 DEF StandInParts
<1>10. at + (7 + 2 * Len(signed.sigs)) = at + 7 + 2 * Len(signed.sigs)
  <2> DEFINE n == Len(signed.sigs)
  <2>1. n \in Nat
    BY <1>1
  <2> HIDE DEF n
  <2>2. at + (7 + 2 * n) = at + 7 + 2 * n
    BY <2>1
  <2> QED
    BY <2>2 DEF n
<1>11. all \o more # <<>>
  <2>1. Len(all \o more) # 0
    BY <1>1, <1>9
  <2> QED
    BY <2>1, EmptySeq
<1> QED
  BY <1>1, <1>9, <1>10, <1>11 DEF SignedAt, a, c, u, all

\* Anchored signatures that are there and within the limit
SigsCounted(l) == \A k \in DOMAIN l : Len(l[k].sigs) \in 1..MaxAttachmentCount

\* Anchored signatures composed at a place are read as they were meant
TransMeantAt(X, s, table, P, at) ==
  \A to \in 0..Len(s), l \in Seq(SignedSet(X)) :
    at <= to + 1 /\ SigsCounted(l) /\ Fits(s, at, to, Gather(Signing(X, table), l)) =>
      GroupsReadAs(P[GroupsFrom(at, to, Len(l))], at + Len(Gather(Signing(X, table), l)), l)

\* What is composed of anchored signatures, and of one with others behind it.
LEMMA SignedGathered ==
  ASSUME NEW X, NEW table \in Tables
  PROVE  /\ Gather(Signing(X, table), <<>>) = <<>>
         /\ \A l \in Seq(SignedSet(X)) : Gather(Signing(X, table), l) \in Seq(UnitSet(X))
         /\ \A signed \in SignedSet(X), l \in Seq(SignedSet(X)) :
              Gather(Signing(X, table), <<signed>> \o l)
                = ComposeSigned(signed, table) \o Gather(Signing(X, table), l)
<1>1. Makes(Signing(X, table), SignedSet(X), UnitSet(X))
  BY SignedType, WholesJoin DEF Makes
<1>2. /\ Gather(Signing(X, table), <<>>) = <<>>
      /\ \A l \in Seq(SignedSet(X)) : Gather(Signing(X, table), l) \in Seq(UnitSet(X))
  BY <1>1, GatherLaws DEF Makes
<1>3. ASSUME NEW signed \in SignedSet(X), NEW l \in Seq(SignedSet(X))
      PROVE  Gather(Signing(X, table), <<signed>> \o l)
               = ComposeSigned(signed, table) \o Gather(Signing(X, table), l)
  <2>1. Grown(Signing(X, table), l, signed)
    BY <1>1, GatherOneMore
  <2>2. Signing(X, table)[signed] = ComposeSigned(signed, table)
    BY DEF Signing
  <2> QED
    BY <2>1, <2>2 DEF Grown
<1> QED
  BY <1>2, <1>3

\* Controller signatures are read as they were meant, and nothing after them
SignaturesReadAt(P, at, to, sigs) ==
  ReadsAs(P[AttachmentsFrom(at, to)], at + 1 + 2 * Len(sigs),
          <<[kind |-> "ControllerIdxSigs", items |-> sigs]>>)

\* After an anchor its signatures are read, and nothing else before the next.
LEMMA SignaturesMeant ==
  ASSUME NEW X, NEW s \in Streams(X), NEW table \in Tables, NEW strictly \in BOOLEAN,
         NEW P, IsParsed(X, s, table, strictly, P),
         NEW at \in Nat \ {0}, NEW to \in 0..Len(s),
         NEW sigs \in Seq(X), Len(sigs) \in 1..MaxAttachmentCount,
         Holds(s, at, Counter("ControllerIdxSigs", Len(sigs), table) \o Units("indexed", sigs)),
         at + 2 * Len(sigs) <= to,
         at + 1 + 2 * Len(sigs) <= to => s[at + 1 + 2 * Len(sigs)].u # "counter",
         \A j \in at..to : Ascii(s[j])
  PROVE  SignaturesReadAt(P, at, to, sigs)
<1> DEFINE kind == "ControllerIdxSigs"
           next == at + 1 + 2 * Len(sigs)
           att == [kind |-> kind, items |-> sigs]
<1>1. kind \in Idx \cup Couples /\ kind \in Idx /\ Len(sigs) \in Nat /\ Len(sigs) <= MaxAttachmentCount
  BY KindsDiffer, StreamBoundsAssumption
<1>2. Size(kind, Len(sigs)) = Len(sigs) /\ UnitOf(kind) = "indexed"
  BY <1>1 DEF Size, UnitOf
<1>3. /\ ReadsAs(ParseGroup(P, s, at, to, table, strictly), next, <<att>>)
      /\ at \in 1..Len(s) /\ to \in at..Len(s) /\ s[at].u = "counter"
  <2> DEFINE n == Len(sigs)
  <2>1. /\ kind \in Idx \cup Couples /\ n \in Nat /\ n <= MaxAttachmentCount /\ Size(kind, n) = Len(sigs)
        /\ Holds(s, at, Counter(kind, n, table) \o Units(UnitOf(kind), sigs))
        /\ at + 2 * Len(sigs) <= to
    BY <1>1, <1>2
  <2> HIDE DEF kind, n
  <2>2. ItemsReadAt(P, s, at, to, table, strictly, kind, sigs)
    BY <2>1, ItemsMeant
  <2> QED
    BY <2>2 DEF ItemsReadAt
<1>4. /\ next \in 1..(Len(s) + 1) /\ next <= to + 1
      /\ next > to \/ s[next].u # "counter"
  <2> DEFINE n == Len(sigs)
  <2>1. n \in Nat /\ at + 2 * n <= to
    BY <1>1
  <2>2. Len(s) \in Nat
    BY LenProperties DEF Streams
  <2> HIDE DEF n
  <2>3. at + 1 + 2 * n \in 1..(Len(s) + 1) /\ at + 1 + 2 * n <= to + 1 /\ (~(at + 1 + 2 * n > to) => at + 1 + 2 * n <= to)
    BY <2>1, <2>2
  <2> QED
    BY <2>3 DEF n
<1>5. ReadsAs(P[AttachmentsFrom(next, to)], next, <<>>)
  <2> HIDE DEF next
  <2>1. AttachmentsSplit(X, s, table, strictly, P, next, to)
    BY <1>4, AttachmentsAre
  <2> QED
    BY <1>4, <2>1 DEF AttachmentsSplit, ReadsAs
<1> HIDE DEF next, att
<1>6. Precedes(P, at, to, next, <<att>>)
  <2>1. P[AttachmentsFrom(next, to)].ok
    BY <1>5 DEF ReadsAs
  <2> QED
    BY <1>3, <2>1, GroupThenRest
<1>7. <<att>> \o <<>> = <<att>>
  <2>1. <<att>> \in Seq({att})
    OBVIOUS
  <2> QED
    BY <2>1, ConcatEmptySeq
<1>8. ReadsAs(P[AttachmentsFrom(at, to)], next, <<att>>)
  BY <1>5, <1>6, <1>7 DEF Precedes, ReadsAs
<1> QED
  BY <1>8 DEF SignaturesReadAt, next, att

\* Anchored signatures are read as they were meant when those further on are.
LEMMA TransMeantHere ==
  ASSUME NEW X, NEW s \in Streams(X), NEW table \in Tables, NEW strictly \in BOOLEAN,
         NEW P, IsParsed(X, s, table, strictly, P), NEW at \in 1..(Len(s) + 1),
         \A next \in (at + 1)..(Len(s) + 1) : TransMeantAt(X, s, table, P, next)
  PROVE  TransMeantAt(X, s, table, P, at)
<1> DEFINE Composed(l) == Gather(Signing(X, table), l)
<1> SUFFICES ASSUME NEW to \in 0..Len(s), NEW l \in Seq(SignedSet(X)),
                    at <= to + 1, SigsCounted(l), Fits(s, at, to, Composed(l))
             PROVE  GroupsReadAs(P[GroupsFrom(at, to, Len(l))], at + Len(Composed(l)), l)
  BY DEF TransMeantAt
<1>1. Len(s) \in Nat /\ Len(l) \in Nat /\ at \in Nat \ {0}
  BY LenProperties DEF Streams
<1>2. TransSplit(X, s, P, at, to, Len(l))
  BY <1>1, TransAre
<1>3. CASE l = <<>>
  <2>1. Len(l) = 0 /\ Composed(l) = <<>> /\ Len(Composed(l)) = 0 /\ at + 0 = at
    BY <1>1, <1>3, SignedGathered
  <2>2. P[GroupsFrom(at, to, 0)] = [ok |-> TRUE, next |-> at, groups |-> <<>>]
    BY <1>2, <2>1 DEF TransSplit
  <2> HIDE DEF Composed
  <2> QED
    BY <1>3, <2>1, <2>2 DEF GroupsReadAs
<1>4. CASE l # <<>>
  <2> DEFINE signed == l[1]
             more == SubSeq(l, 2, Len(l))
             units == Composed(l)
             rest == Composed(more)
             n == Len(signed.sigs)
             next == at + 7 + 2 * n
             inner == P[AttachmentsFrom(at + 6, to)]
  <2>1. /\ Len(l) \in Nat \ {0} /\ signed \in SignedSet(X) /\ more \in Seq(SignedSet(X))
        /\ Len(more) = Len(l) - 1 /\ l = <<signed>> \o more
    BY <1>4, FirstAndRest
  <2>2. SigsCounted(more) /\ n \in 1..MaxAttachmentCount
    <3>1. DOMAIN l = 1..Len(l) /\ DOMAIN more = 1..(Len(l) - 1)
      BY <2>1, LenProperties
    <3>2. ASSUME NEW k \in DOMAIN more
          PROVE  Len(more[k].sigs) \in 1..MaxAttachmentCount
      <4>1. k + 1 \in DOMAIN l
        BY <1>1, <3>1
      <4>2. more[k] = l[k + 1]
        <5>1. 2 \in 1..(Len(l) + 1) /\ Len(l) \in (2 - 1)..Len(l) /\ k \in 1..(Len(l) - 2 + 1) /\ 2 + k - 1 = k + 1
          BY <2>1, <3>1
        <5>2. SubSeq(l, 2, Len(l))[k] = l[2 + k - 1]
          BY <5>1, Piece
        <5> QED
          BY <5>1, <5>2
      <4> QED
        BY <4>1, <4>2 DEF SigsCounted
    <3>3. 1 \in DOMAIN l
      BY <2>1, <3>1
    <3> QED
      BY <3>2, <3>3 DEF SigsCounted
  <2>3. signed.anchor \in Seq(X) /\ Len(signed.anchor) = 3 /\ signed.sigs \in Seq(X)
        /\ signed = [anchor |-> signed.anchor, sigs |-> signed.sigs]
    BY <2>1 DEF SignedSet
  <2>4. rest \in Seq(UnitSet(X)) /\ units = ComposeSigned(signed, table) \o rest
    <3> HIDE DEF signed, more
    <3> QED
      BY <2>1, SignedGathered
  <2> HIDE DEF signed, more, units, rest
  <2>5. SignedAt(s, at, signed, table, rest)
    <3>1. Holds(s, at, ComposeSigned(signed, table) \o rest)
      BY <2>4 DEF Fits, units
    <3> QED
      BY <1>1, <2>1, <2>4, <3>1, SignedStands
  <2>6. /\ Len(units) = 7 + 2 * n + Len(rest) /\ n \in Nat /\ Len(rest) \in Nat /\ units # <<>>
        /\ at + Len(units) <= to + 1 /\ at + Len(units) = next + Len(rest)
        /\ at + Len(units) <= to => s[at + Len(units)].u # "counter"
        /\ \A j \in at..to : Ascii(s[j])
    <3>1. /\ Len(units) = 7 + 2 * n + Len(rest) /\ n \in Nat /\ Len(rest) \in Nat /\ units # <<>>
      BY <2>4, <2>5 DEF SignedAt
    <3>2. /\ at + Len(units) <= to + 1
          /\ at + Len(units) <= to => s[at + Len(units)].u # "counter"
          /\ \A j \in at..to : Ascii(s[j])
      BY <3>1 DEF Fits, units
    <3> HIDE DEF n
    <3> QED
      BY <1>1, <3>1, <3>2 DEF next
  <2> HIDE DEF n
  <2>7. at + 6 \in Nat \ {0} /\ (at + 6) + 2 * n <= to /\ (at + 6) + 1 + 2 * n = next
        /\ next \in (at + 1)..(Len(s) + 1) /\ next <= to + 1 /\ next \in Nat \ {0}
        /\ at + 5 <= to
    BY <1>1, <2>6
  <2> HIDE DEF next
  <2>8. AnchorStands(s, at, to) /\ ItemsAt(s, at, 3) = signed.anchor
    <3>1. Holds(s, at, Units("matter", signed.anchor)) /\ "matter" \in Heads
      BY <2>5 DEF SignedAt, Heads
    <3>2. /\ \A j \in 1..3 : s[at + 2 * (j - 1)].u = "matter"
          /\ ItemsAt(s, at, 3) = signed.anchor
      <4>1. UnitsReadAt(s, at, "matter", signed.anchor)
        BY <1>1, <2>3, <3>1, UnitsStand
      <4> QED
        BY <2>3, <4>1 DEF UnitsReadAt
    <3>3. at + 2 * 3 - 1 <= to
      BY <1>1, <2>7
    <3> QED
      BY <3>2, <3>3, ThreeStand DEF AnchorStands
  <2>9. Holds(s, next, rest)
    BY <2>5 DEF SignedAt, next, n
  <2>10. next <= to => s[next].u # "counter"
    <3>1. CASE more = <<>>
      <4>1. Len(rest) = 0 /\ next + 0 = next
        BY <2>7, <3>1, SignedGathered DEF rest
      <4> QED
        BY <2>6, <4>1
    <3>2. CASE more # <<>>
      <4> DEFINE second == more[1]
                 others == SubSeq(more, 2, Len(more))
      <4>1. second \in SignedSet(X) /\ others \in Seq(SignedSet(X)) /\ more = <<second>> \o others
        BY <2>1, <3>2, FirstAndRest
      <4> HIDE DEF second, others
      <4>2. Composed(others) \in Seq(UnitSet(X)) /\ rest = ComposeSigned(second, table) \o Composed(others)
        BY <4>1, SignedGathered DEF rest
      <4> HIDE DEF Composed
      <4>3. Holds(s, next, ComposeSigned(second, table) \o Composed(others))
        BY <2>9, <4>2
      <4>4. SignedAt(s, next, second, table, Composed(others))
        BY <2>7, <4>1, <4>2, <4>3, SignedStands
      <4>5. Holds(s, next, Units("matter", second.anchor)) /\ "matter" \in Heads
            /\ second.anchor \in Seq(X) /\ Len(second.anchor) = 3
        BY <4>1, <4>4 DEF SignedAt, Heads, SignedSet
      <4>6. \A j \in 1..3 : s[next + 2 * (j - 1)].u = "matter"
        <5>1. UnitsReadAt(s, next, "matter", second.anchor)
          BY <2>7, <4>5, UnitsStand
        <5> QED
          BY <4>5, <5>1 DEF UnitsReadAt
      <4>7. 1 \in 1..3 /\ next + 2 * (1 - 1) = next
        BY <2>7
      <4> QED
        BY <4>6, <4>7
    <3> QED
      BY <3>1, <3>2
  <2>11. ReadsAs(inner, next, <<[kind |-> "ControllerIdxSigs", items |-> signed.sigs]>>)
    <3> DEFINE place == at + 6
               sigs == signed.sigs
    <3>1. Holds(s, place, Counter("ControllerIdxSigs", Len(sigs), table) \o Units("indexed", sigs))
      BY <2>5 DEF SignedAt
    <3>2. /\ sigs \in Seq(X) /\ Len(sigs) \in 1..MaxAttachmentCount /\ place \in Nat \ {0}
          /\ place + 2 * Len(sigs) <= to /\ place + 1 + 2 * Len(sigs) = next
      BY <2>2, <2>3, <2>7 DEF n
    <3>3. \A j \in place..to : Ascii(s[j])
      BY <1>1, <2>6
    <3> HIDE DEF place, sigs
    <3>4. place + 1 + 2 * Len(sigs) <= to => s[place + 1 + 2 * Len(sigs)].u # "counter"
      BY <2>10, <3>2
    <3>5. SignaturesReadAt(P, place, to, sigs)
      BY <3>1, <3>2, <3>3, <3>4, SignaturesMeant
    <3> QED
      BY <3>2, <3>5 DEF SignaturesReadAt, place, sigs
  <2>12. /\ inner.ok /\ inner.next = next /\ OnlySignatures(inner)
         /\ SignaturesOf(inner) = signed.sigs /\ SignaturesOf(inner) # <<>>
    <3> DEFINE att == [kind |-> "ControllerIdxSigs", items |-> signed.sigs]
    <3> HIDE DEF inner
    <3>1. inner.ok /\ inner.next = next /\ inner.atts = <<att>>
      BY <2>11 DEF ReadsAs
    <3>2. OnlySignatures(inner)
      BY <3>1 DEF OnlySignatures
    <3>3. [j \in DOMAIN inner.atts |-> inner.atts[j].items] = <<signed.sigs>>
      BY <3>1
    <3>4. SignaturesOf(inner) = signed.sigs
      BY <2>3, <3>3, FlattenOne DEF SignaturesOf
    <3>5. signed.sigs # <<>>
      BY <2>2 DEF n
    <3> QED
      BY <3>1, <3>2, <3>4, <3>5
  <2>13. GroupsReadAs(P[GroupsFrom(next, to, Len(more))], next + Len(rest), more)
    <3>1. TransMeantAt(X, s, table, P, next)
      BY <2>7
    <3>2. rest # <<>> => \A j \in next..to : Ascii(s[j])
      BY <1>1, <2>6, <2>7
    <3>3. Fits(s, next, to, rest)
      BY <2>6, <2>9, <3>2 DEF Fits
    <3> QED
      BY <2>1, <2>2, <2>7, <3>1, <3>3 DEF TransMeantAt, rest
  <2>14. GroupsReadAs(P[GroupsFrom(at, to, Len(l))], next + Len(rest), <<signed>> \o more)
    <3> DEFINE r == P[GroupsFrom(at, to, Len(l))]
               later == P[GroupsFrom(next, to, Len(l) - 1)]
    <3>1. r = IF /\ inner.ok /\ OnlySignatures(inner) /\ SignaturesOf(inner) # <<>>
                 /\ P[GroupsFrom(inner.next, to, Len(l) - 1)].ok
              THEN [ok |-> TRUE, next |-> P[GroupsFrom(inner.next, to, Len(l) - 1)].next,
                    groups |-> <<[anchor |-> ItemsAt(s, at, 3), sigs |-> SignaturesOf(inner)]>>
                                 \o P[GroupsFrom(inner.next, to, Len(l) - 1)].groups]
              ELSE Failed
      BY <1>2, <2>1, <2>8 DEF TransSplit
    <3>2. later = [ok |-> TRUE, next |-> next + Len(rest), groups |-> more]
      BY <2>1, <2>13 DEF GroupsReadAs
    <3>3. P[GroupsFrom(inner.next, to, Len(l) - 1)] = later
      BY <2>12
    <3> HIDE DEF r, inner, later
    <3>4. r = [ok |-> TRUE, next |-> later.next,
               groups |-> <<[anchor |-> ItemsAt(s, at, 3), sigs |-> SignaturesOf(inner)]>> \o later.groups]
      BY <2>12, <3>1, <3>2, <3>3
    <3>5. [anchor |-> ItemsAt(s, at, 3), sigs |-> SignaturesOf(inner)] = signed
      BY <2>3, <2>8, <2>12
    <3>6. GroupsReadAs(r, next + Len(rest), <<signed>> \o more)
      BY <3>2, <3>4, <3>5 DEF GroupsReadAs
    <3> QED
      BY <3>6 DEF r
  <2> QED
    BY <2>1, <2>6, <2>14 DEF units
<1> QED
  BY <1>3, <1>4

\* So they are wherever they stand.
LEMMA TransMeant ==
  ASSUME NEW X, NEW s \in Streams(X), NEW table \in Tables, NEW strictly \in BOOLEAN,
         NEW P, IsParsed(X, s, table, strictly, P)
  PROVE  \A at \in 1..(Len(s) + 1) : TransMeantAt(X, s, table, P, at)
<1> DEFINE N == Len(s) + 1
           Right == {at \in 1..N : TransMeantAt(X, s, table, P, at)}
<1>1. N \in Nat
  BY LenProperties DEF Streams
<1>2. ASSUME NEW at \in 1..N, \A next \in (at + 1)..N : next \in Right
      PROVE  at \in Right
  <2>1. \A next \in (at + 1)..(Len(s) + 1) : TransMeantAt(X, s, table, P, next)
    BY <1>2
  <2> QED
    BY <2>1, TransMeantHere
<1>3. \A at \in 1..N : at \in Right
  <2> HIDE DEF Right
  <2> QED
    BY <1>1, <1>2, Backwards
<1> QED
  BY <1>3

\* What the first of some groups wraps, and the groups behind that
WrapsFirst(S, gs, table, ins, rem) ==
  /\ ins \in Seq(S) /\ rem \in Seq(S) /\ SubSeq(gs, 2, Len(gs)) = ins \o rem
  /\ FaithfulGroups(ins, table) /\ FaithfulGroups(rem, table)
  /\ gs[1].n = Len(ComposeGroups(ins, table))

\* What is known of the first of some groups and of those behind it
FirstGroupIs(S, gs, table) ==
  LET more == SubSeq(gs, 2, Len(gs))
  IN
  /\ gs[1] \in S /\ more \in Seq(S) /\ gs = <<gs[1]>> \o more
  /\ gs[1].kind # Wrapper => CountedAlone(gs[1], table)
  /\ gs[1].kind = Trans => more = <<>>
  /\ gs[1].kind \notin {Wrapper, Trans} => FaithfulGroups(more, table)
  /\ gs[1].kind = Wrapper => \E ins, rem : WrapsFirst(S, gs, table, ins, rem)

\* The first group is a wrapper around what follows, or counts for itself.
LEMMA FirstGroup ==
  ASSUME NEW X, NEW table \in Tables, NEW S, \A g \in S : IsGroupOver(g, X),
         NEW gs \in Seq(S), gs # <<>>, FaithfulGroups(gs, table)
  PROVE  FirstGroupIs(S, gs, table)
<1> DEFINE g == gs[1]
           N == Len(gs)
           more == SubSeq(gs, 2, N)
<1>1. /\ N \in Nat \ {0} /\ g \in S /\ more \in Seq(S) /\ Len(more) = N - 1 /\ gs = <<g>> \o more
  BY FirstAndRest
<1>2. /\ DOMAIN gs = 1..N /\ \A j \in 1..N : gs[j] \in S
      /\ \A j \in 1..N : gs[j].kind = Wrapper => gs[j].wraps \in Nat
  BY LenProperties, ElementOfSeq DEF IsGroupOver
<1>3. \A j \in 1..N :
        gs[j].kind = Wrapper =>
          /\ j + gs[j].wraps <= N
          /\ \A k \in (j + 1)..(j + gs[j].wraps) :
               gs[k].kind = Wrapper => k + gs[k].wraps <= j + gs[j].wraps
  BY <1>2 DEF FaithfulGroups, WrappersNest
<1>4. Counted(gs, 1, table)
  BY <1>1, <1>2 DEF FaithfulGroups
<1>5. IF g.kind = Wrapper
      THEN g.n = Len(ComposeGroups(SubSeq(gs, 1 + 1, 1 + g.wraps), table))
      ELSE CountedAlone(g, table)
  BY <1>4, CountedIs
<1>6. g.kind = Trans => more = <<>>
  <2> HAVE g.kind = Trans
  <2>1. 1 = N \/ \E w \in 1..(1 - 1) : gs[w].kind = Wrapper /\ w + gs[w].wraps = 1
    BY <1>1, <1>2 DEF FaithfulGroups, TransGroupsLast, Trans
  <2>2. N = 1
    BY <2>1
  <2>3. Len(more) = 0
    BY <1>1, <2>2
  <2> HIDE DEF more
  <2> QED
    BY <1>1, <2>3, EmptySeq
<1>7. g.kind \notin {Wrapper, Trans} => FaithfulGroups(more, table)
  <2> HAVE g.kind \notin {Wrapper, Trans}
  <2>1. 2 \in 1..(N + 1) /\ N \in (2 - 1)..N
    BY <1>1
  <2>2. \A j \in 2..N : gs[j].kind = Wrapper => j + gs[j].wraps <= N
    BY <1>3
  <2>3. \A w \in 1..(2 - 1) : gs[w].kind = Wrapper => w + gs[w].wraps < 2 \/ w + gs[w].wraps >= N
    OBVIOUS
  <2> QED
    BY <2>1, <2>2, <2>3, PieceFaithful
<1>8. ASSUME g.kind = Wrapper
      PROVE  \E ins, rem : WrapsFirst(S, gs, table, ins, rem)
  <2> DEFINE k == g.wraps
             ins == SubSeq(gs, 2, 1 + k)
             rem == SubSeq(gs, 2 + k, N)
  <2>1. k \in Nat /\ 1 + k <= N
    BY <1>1, <1>2, <1>3, <1>8
  <2>2. \A j \in 2..(1 + k) : gs[j].kind = Wrapper => gs[j].wraps \in Nat /\ j + gs[j].wraps <= 1 + k
    <3>1. 1 \in 1..N
      BY <1>1
    <3>2. \A j \in (1 + 1)..(1 + k) : gs[j].kind = Wrapper => j + gs[j].wraps <= 1 + k
      BY <1>3, <1>8, <3>1
    <3> HIDE DEF k
    <3>3. \A j \in 2..(1 + k) : j \in 1..N
      BY <1>1, <2>1
    <3> QED
      BY <1>2, <3>2, <3>3
  <2>3. gs[1].kind = Wrapper /\ 1 + gs[1].wraps = 1 + k
    BY <1>8
  <2> HIDE DEF k
  <2>4. /\ 2 \in 1..(N + 1) /\ 1 + k \in (2 - 1)..N
        /\ 2 + k \in 1..(N + 1) /\ N \in ((2 + k) - 1)..N
    BY <1>1, <2>1
  <2>5. FaithfulGroups(ins, table)
    <3>1. \A j \in 2..(1 + k) : gs[j].kind = Wrapper => j + gs[j].wraps <= 1 + k
      BY <2>2
    <3>2. \A w \in 1..(2 - 1) : gs[w].kind = Wrapper => w + gs[w].wraps < 2 \/ w + gs[w].wraps >= 1 + k
      BY <2>1, <2>3
    <3> QED
      BY <2>4, <3>1, <3>2, PieceFaithful
  <2>6. FaithfulGroups(rem, table)
    <3>1. \A j \in (2 + k)..N : gs[j].kind = Wrapper => j + gs[j].wraps <= N
      BY <1>3, <2>4
    <3>2. ASSUME NEW w \in 1..((2 + k) - 1), gs[w].kind = Wrapper
          PROVE  w + gs[w].wraps < 2 + k
      <4>1. CASE w = 1
        <5>1. 1 + k < 2 + k
          BY <2>1
        <5> QED
          BY <2>3, <4>1, <5>1
      <4>2. CASE w # 1
        <5>1. w \in 2..(1 + k)
          BY <2>1, <4>2
        <5>2. gs[w].wraps \in Nat /\ w + gs[w].wraps <= 1 + k
          BY <2>2, <3>2, <5>1
        <5> QED
          BY <2>1, <5>2
      <4> QED
        BY <4>1, <4>2
    <3> QED
      BY <2>4, <3>1, <3>2, PieceFaithful
  <2>7. more = ins \o rem
    <3>1. /\ more \in Seq(S) /\ Len(more) = N - 2 + 1
          /\ \A i \in 1..(N - 2 + 1) : more[i] = gs[2 + i - 1]
      <4>1. N \in (2 - 1)..N
        BY <1>1
      <4> QED
        BY <2>4, <4>1, Piece
    <3>2. /\ ins \in Seq(S) /\ Len(ins) = (1 + k) - 2 + 1
          /\ \A i \in 1..((1 + k) - 2 + 1) : ins[i] = gs[2 + i - 1]
      BY <2>4, Piece
    <3>3. /\ rem \in Seq(S) /\ Len(rem) = N - (2 + k) + 1
          /\ \A i \in 1..(N - (2 + k) + 1) : rem[i] = gs[(2 + k) + i - 1]
      BY <2>4, Piece
    <3> HIDE DEF more, ins, rem
    <3>4. Len(more) = Len(ins) + Len(rem) /\ Len(ins) = k
      BY <1>1, <2>1, <3>1, <3>2, <3>3
    <3>5. \A i \in 1..Len(ins) : more[i] = ins[i]
      <4> TAKE i \in 1..Len(ins)
      <4>1. i \in 1..(N - 2 + 1) /\ i \in 1..((1 + k) - 2 + 1)
        BY <1>1, <2>1, <3>4
      <4> QED
        BY <3>1, <3>2, <4>1
    <3>6. \A i \in 1..Len(rem) : more[Len(ins) + i] = rem[i]
      <4> TAKE i \in 1..Len(rem)
      <4>1. /\ k + i \in 1..(N - 2 + 1) /\ i \in 1..(N - (2 + k) + 1)
            /\ 2 + (k + i) - 1 = (2 + k) + i - 1
        BY <1>1, <2>1, <3>3
      <4> QED
        BY <3>1, <3>3, <3>4, <4>1
    <3> QED
      BY <3>1, <3>2, <3>3, <3>4, <3>5, <3>6, JoinedByMember
  <2>8. ins \in Seq(S) /\ rem \in Seq(S)
    BY <2>4, Piece
  <2>9. g.n = Len(ComposeGroups(ins, table))
    BY <1>5, <1>8 DEF k
  <2> HIDE DEF ins, rem
  <2>10. WrapsFirst(S, gs, table, ins, rem)
    BY <2>5, <2>6, <2>7, <2>8, <2>9 DEF WrapsFirst
  <2> QED
    BY <2>10
<1> QED
  BY <1>1, <1>5, <1>6, <1>7, <1>8 DEF FirstGroupIs

\* Of two pieces the first stands and the second stands where it can be read
FitsInParts(s, at, to, a, b) ==
  /\ Holds(s, at, a) /\ Fits(s, at + Len(a), to, b)
  /\ Len(a \o b) = Len(a) + Len(b) /\ Len(a) \in Nat /\ Len(b) \in Nat
  /\ at + Len(a) + Len(b) <= to + 1
  /\ Len(a) # 0 => \A j \in at..to : Ascii(s[j])

\* What stands where it can be read falls into pieces that do.
LEMMA FitsRest ==
  ASSUME NEW X, NEW s \in Streams(X), NEW at \in Nat \ {0}, NEW to \in 0..Len(s),
         NEW a \in Seq(UnitSet(X)), NEW b \in Seq(UnitSet(X)),
         Fits(s, at, to, a \o b)
  PROVE  FitsInParts(s, at, to, a, b)
<1>1. s \in Seq(UnitSet(X)) /\ Len(s) \in Nat
  BY LenProperties DEF Streams
<1>2. StandInParts(s, at, a, b)
  BY <1>1, HoldsParts DEF Fits
<1> DEFINE c == a \o b
           m == Len(a)
           k == Len(b)
<1>3. m \in Nat /\ k \in Nat /\ Len(c) = m + k /\ Holds(s, at, a) /\ Holds(s, at + m, b)
  BY <1>2 DEF StandInParts
<1>4. m # 0 \/ k # 0 => c # <<>>
  <2> HIDE DEF c, m, k
  <2> HAVE m # 0 \/ k # 0
  <2>1. Len(c) # 0
    BY <1>3
  <2> QED
    BY <2>1, EmptySeq
<1>5. /\ at + Len(c) <= to + 1 /\ (at + Len(c) <= to => s[at + Len(c)].u # "counter")
      /\ m # 0 \/ k # 0 => \A j \in at..to : Ascii(s[j])
  BY <1>4 DEF Fits
<1> HIDE DEF c, m, k
<1>6. at + Len(c) = at + m + k /\ at + m + k <= to + 1 /\ at + m >= at
  BY <1>3, <1>5
<1>7. at + m + k <= to => s[at + m + k].u # "counter"
  BY <1>5, <1>6
<1>8. b # <<>> => \A j \in (at + m)..to : Ascii(s[j])
  <2> HAVE b # <<>>
  <2>1. k # 0
    BY EmptySeq DEF k
  <2> QED
    BY <1>3, <1>5, <1>6, <2>1
<1>9. Fits(s, at + m, to, b)
  BY <1>3, <1>6, <1>7, <1>8 DEF Fits, k
<1> QED
  BY <1>3, <1>5, <1>6, <1>9 DEF FitsInParts, c, m, k

\* A group that is no wrapper is read as it was meant
AloneReadAt(P, s, at, to, table, strictly, g) ==
  /\ ReadsAs(ParseGroup(P, s, at, to, table, strictly), at + Len(ComposeGroup(g, table)), <<Attached(g)>>)
  /\ at \in 1..Len(s) /\ to \in at..Len(s) /\ s[at].u = "counter"

\* Groups of primitives are read as they were meant.
LEMMA ItemsGroupMeant ==
  ASSUME NEW X, NEW s \in Streams(X), NEW table \in Tables, NEW strictly \in BOOLEAN,
         NEW P, NEW at \in Nat \ {0}, NEW to \in 0..Len(s),
         NEW g, IsGroupOver(g, X), g.kind \in Idx \cup Couples, CountedAlone(g, table),
         Holds(s, at, ComposeGroup(g, table)), at + Len(ComposeGroup(g, table)) <= to + 1
  PROVE  AloneReadAt(P, s, at, to, table, strictly, g)
<1>1. g.n \in Nat /\ g.items \in Seq(X) /\ g.kind \notin {Wrapper, Trans}
  BY KindsDiffer DEF IsGroupOver
<1>2. Size(g.kind, g.n) = Len(g.items) /\ g.n <= MaxAttachmentCount
  <2>1. CASE g.kind \in Idx
    BY <1>1, <2>1, KindsDiffer DEF CountedAlone, Size
  <2>2. CASE g.kind \in Couples
    <3>1. g.kind \notin Idx /\ g.kind # Trans
      BY <2>2, KindsDiffer
    <3> QED
      BY <1>1, <2>2, <3>1 DEF CountedAlone, Size
  <2> QED
    BY <2>1, <2>2
<1> DEFINE kind == g.kind
           items == g.items
           n == g.n
<1>3. ComposeGroup(g, table) = Counter(kind, n, table) \o Units(UnitOf(kind), items)
  <2>1. ComposeGroup(g, table) = Counter(kind, n, table) \o Body(g, table)
    BY GroupType
  <2>2. Body(g, table) = Units(UnitOf(kind), items)
    <3>1. kind # Wrapper /\ kind # Trans
      BY <1>1
    <3> QED
      BY <3>1 DEF Body, UnitOf
  <2> QED
    BY <2>1, <2>2
<1>4. Len(ComposeGroup(g, table)) = 1 + 2 * Len(items) /\ Len(items) \in Nat
  <2> DEFINE b == Units(UnitOf(kind), items)
  <2>1. b \in Seq(UnitSet(X)) /\ Len(b) = 2 * Len(items)
    <3>1. UnitOf(kind) \in Heads
      BY DEF UnitOf, Heads
    <3>2. Pairs(X, UnitOf(kind), items, b)
      BY <1>1, <3>1, UnitsAre
    <3> QED
      BY <3>2 DEF Pairs
  <2>2. Listed(kind, table)
    BY DEF Listed
  <2> HIDE DEF b, kind, n
  <2>3. Holds(s, at, Counter(kind, n, table) \o b)
    BY <1>3 DEF b
  <2>4. Len(Counter(kind, n, table) \o b) = 1 + Len(b)
    BY <1>1, <2>1, <2>2, <2>3, CounterStands, SMTT(30) DEF n
  <2> QED
    BY <1>1, <1>3, <2>1, <2>4, LenProperties DEF b
<1>5. ItemsReadAt(P, s, at, to, table, strictly, kind, items)
  <2>1. at + 2 * Len(items) <= to
    BY <1>4
  <2>2. Holds(s, at, Counter(kind, n, table) \o Units(UnitOf(kind), items))
    BY <1>3
  <2>3. kind \in Idx \cup Couples /\ n \in Nat /\ n <= MaxAttachmentCount /\ items \in Seq(X)
        /\ Size(kind, n) = Len(items)
    BY <1>1, <1>2
  <2> HIDE DEF kind, n, items
  <2> QED
    BY <2>1, <2>2, <2>3, ItemsMeant
<1>6. Attached(g) = [kind |-> kind, items |-> items]
  BY <1>1 DEF Attached, Trans
<1>7. at + 1 + 2 * Len(items) = at + Len(ComposeGroup(g, table))
  <2> DEFINE k == Len(items)
  <2>1. k \in Nat /\ Len(ComposeGroup(g, table)) = 1 + 2 * k
    BY <1>4
  <2> HIDE DEF k
  <2>2. at + 1 + 2 * k = at + (1 + 2 * k)
    BY <2>1
  <2> QED
    BY <2>1, <2>2 DEF k
<1> HIDE DEF kind, items
<1> QED
  BY <1>5, <1>6, <1>7 DEF ItemsReadAt, AloneReadAt

\* Groups of anchored signatures are read as they were meant.
LEMMA TransGroupMeant ==
  ASSUME NEW X, NEW s \in Streams(X), NEW table \in Tables, NEW strictly \in BOOLEAN,
         NEW P, IsParsed(X, s, table, strictly, P), NEW at \in Nat \ {0}, NEW to \in 0..Len(s),
         NEW g, IsGroupOver(g, X), g.kind = Trans, CountedAlone(g, table),
         Fits(s, at, to, ComposeGroup(g, table))
  PROVE  AloneReadAt(P, s, at, to, table, strictly, g)
<1> DEFINE groups == g.groups
           n == g.n
           c == Counter(Trans, n, table)
           b == Gather(Signing(X, table), groups)
           place == at + 1
           inner == P[GroupsFrom(place, to, n)]
<1>1. /\ n \in Nat /\ groups \in Seq(SignedSet(X)) /\ Listed(Trans, table)
      /\ n = Len(groups) /\ n <= MaxAttachmentCount /\ SigsCounted(groups)
  <2>1. g.kind \notin Idx \cup Couples
    BY KindsDiffer
  <2>2. /\ g.kind \in DOMAIN Codes[table] /\ g.n = Len(g.groups) /\ g.n <= MaxAttachmentCount
        /\ \A k \in DOMAIN g.groups : Len(g.groups[k].sigs) \in 1..MaxAttachmentCount
    BY <2>1 DEF CountedAlone
  <2> QED
    BY <2>2 DEF IsGroupOver, Listed, SigsCounted
<1>2. c \in Seq(UnitSet(X)) /\ Len(c) = 1 /\ b \in Seq(UnitSet(X))
  <2>1. b \in Seq(UnitSet(X))
    BY <1>1, SignedGathered
  <2> QED
    BY <1>1, <2>1, CounterType, WholesJoin, ZenonT(60)
<1>3. ComposeGroup(g, table) = c \o b
  <2>1. ComposeGroup(g, table) = Counter(g.kind, g.n, table) \o Body(g, table)
    BY GroupType
  <2>2. Body(g, table) = FlattenSeq([j \in DOMAIN groups |-> ComposeSigned(groups[j], table)])
    BY KindsDiffer DEF Body
  <2>3. Body(g, table) = b
    BY <1>1, <2>2, SignedType
  <2> QED
    BY <2>1, <2>3
<1> HIDE DEF b, c
<1>4. FitsInParts(s, at, to, c, b)
  <2>1. Fits(s, at, to, c \o b) /\ Len(c) # 0
    BY <1>2, <1>3
  <2> QED
    BY <1>2, <2>1, FitsRest
<1>5. /\ Fits(s, place, to, b) /\ Len(b) \in Nat /\ Len(ComposeGroup(g, table)) = 1 + Len(b)
      /\ at + 1 + Len(b) <= to + 1
  BY <1>2, <1>3, <1>4 DEF FitsInParts
<1>6. /\ at \in 1..Len(s) /\ s[at].u = "counter" /\ s[at].n = n /\ Classify(s[at].code, table) = Trans
  <2>1. Holds(s, at, c \o b)
    BY <1>3 DEF Fits
  <2> DEFINE kind == Trans
  <2>2. Listed(kind, table) /\ Holds(s, at, Counter(kind, n, table) \o b)
    BY <1>1, <2>1 DEF c
  <2> HIDE DEF kind, n
  <2>3. n \in Nat
    BY <1>1
  <2>4. at \in 1..Len(s) /\ s[at].u = "counter" /\ s[at].n = n /\ Classify(s[at].code, table) = kind
    BY <1>2, <2>2, <2>3, CounterStands
  <2> QED
    BY <2>4 DEF kind
<1>7. /\ Len(s) \in Nat /\ to \in at..Len(s) /\ place \in 1..(Len(s) + 1) /\ place <= to + 1
  BY <1>5, <1>6, LenProperties DEF Streams
<1>8. GroupsReadAs(inner, place + Len(b), groups)
  <2>1. TransMeantAt(X, s, table, P, place)
    BY <1>7, TransMeant
  <2> HIDE DEF place, groups, n
  <2> QED
    BY <1>1, <1>5, <1>7, <2>1 DEF TransMeantAt, b
<1>9. ParseGroup(P, s, at, to, table, strictly)
        = IF n <= MaxAttachmentCount /\ inner.ok
          THEN [ok |-> TRUE, next |-> inner.next, atts |-> <<[kind |-> Trans, groups |-> inner.groups]>>]
          ELSE Failed
  <2>1. GroupSplit(s, table, strictly, P, at, to)
    BY <1>6, <1>7, GroupIs
  <2> QED
    BY <1>6, <2>1 DEF GroupSplit
<1>10. Attached(g) = [kind |-> Trans, groups |-> groups]
  BY DEF Attached, Trans
<1>11. place + Len(b) = at + Len(ComposeGroup(g, table))
  BY <1>5
<1> HIDE DEF inner, place, groups
<1>12. ReadsAs(ParseGroup(P, s, at, to, table, strictly), place + Len(b), <<Attached(g)>>)
  BY <1>1, <1>8, <1>9, <1>10 DEF GroupsReadAs, ReadsAs
<1> QED
  BY <1>6, <1>7, <1>11, <1>12 DEF AloneReadAt

\* Groups composed at a place are read as they were meant
GroupsMeantAt(S, s, table, P, at) ==
  \A to \in 0..Len(s), gs \in Seq(S) :
    at <= to + 1 /\ FaithfulGroups(gs, table) /\ Fits(s, at, to, ComposeGroups(gs, table)) =>
      ReadsAs(P[AttachmentsFrom(at, to)], at + Len(ComposeGroups(gs, table)), Meant(gs))

\* A group at the front, that is no wrapper, is read as it was meant, and those
\* behind it are when what is further on is.
LEMMA AloneMeantHere ==
  ASSUME NEW X, NEW s \in Streams(X), NEW table \in Tables, NEW strictly \in BOOLEAN,
         NEW P, IsParsed(X, s, table, strictly, P), NEW at \in 1..(Len(s) + 1),
         NEW S, \A g \in S : IsGroupOver(g, X),
         \A next \in (at + 1)..(Len(s) + 1) : GroupsMeantAt(S, s, table, P, next),
         NEW to \in 0..Len(s), NEW g \in S, NEW more \in Seq(S),
         g.kind # Wrapper, CountedAlone(g, table), g.kind = Trans => more = <<>>,
         FaithfulGroups(more, table),
         FitsInParts(s, at, to, ComposeGroup(g, table), ComposeGroups(more, table)),
         Fits(s, at, to, ComposeGroup(g, table) \o ComposeGroups(more, table))
  PROVE  ReadsAs(P[AttachmentsFrom(at, to)],
                 at + Len(ComposeGroup(g, table)) + Len(ComposeGroups(more, table)),
                 <<Attached(g)>> \o Meant(more))
<1> DEFINE c == ComposeGroup(g, table)
           d == ComposeGroups(more, table)
           m == Len(c)
           next == at + m
<1>1. /\ c \in Seq(UnitSet(X)) /\ m \in Nat \ {0}
  <2>1. c = Counter(g.kind, g.n, table) \o Body(g, table) /\ Counter(g.kind, g.n, table) \in Seq(UnitSet(X))
        /\ Body(g, table) \in Seq(UnitSet(X)) /\ Len(Counter(g.kind, g.n, table)) = 1
    <3>1. g.n \in Nat
      BY DEF IsGroupOver
    <3> QED
      BY <3>1, GroupType, CounterType, WholesJoin, ZenonT(60)
  <2> DEFINE head == Counter(g.kind, g.n, table)
             body == Body(g, table)
  <2> HIDE DEF c, head, body
  <2>2. head \in Seq(UnitSet(X)) /\ body \in Seq(UnitSet(X)) /\ Len(head) = 1 /\ c = head \o body
    BY <2>1 DEF c, head, body
  <2>3. c \in Seq(UnitSet(X)) /\ Len(c) = 1 + Len(body)
    BY <2>2, ConcatProperties, ZenonT(60)
  <2>4. Len(body) \in Nat
    BY <2>2, LenProperties
  <2> QED
    BY <2>3, <2>4
<1>2. /\ Holds(s, at, c) /\ Fits(s, next, to, d) /\ Len(d) \in Nat /\ next + Len(d) <= to + 1
      /\ \A j \in at..to : Ascii(s[j])
  BY <1>1 DEF FitsInParts
<1>3. g.kind = Trans \/ g.kind \in Idx \cup Couples
  BY DEF CountedAlone
<1> HIDE DEF c, d, m
<1>4. /\ Len(s) \in Nat /\ at \in Nat \ {0} /\ next \in (at + 1)..(Len(s) + 1) /\ next <= to + 1
  BY <1>1, <1>2, LenProperties DEF Streams
<1>5. AloneReadAt(P, s, at, to, table, strictly, g)
  <2>1. CASE g.kind = Trans
    <3>1. d = <<>>
      BY <2>1, ComposedLaws DEF d
    <3>2. Fits(s, at, to, c)
      <4>1. Fits(s, at, to, c \o d)
        BY DEF c, d
      <4>2. c \o <<>> = c
        BY <1>1, ConcatEmptySeq
      <4> QED
        BY <3>1, <4>1, <4>2
    <3> QED
      BY <1>4, <2>1, <3>2, TransGroupMeant DEF c
  <2>2. CASE g.kind \in Idx \cup Couples
    <3>1. at + Len(c) <= to + 1
      BY <1>4 DEF m
    <3> QED
      BY <1>2, <1>4, <2>2, <3>1, ItemsGroupMeant DEF c
  <2> QED
    BY <1>3, <2>1, <2>2
<1>6. ReadsAs(P[AttachmentsFrom(next, to)], next + Len(d), Meant(more))
  <2> HIDE DEF next
  <2> QED
    BY <1>2, <1>4 DEF GroupsMeantAt, d
<1>7. Precedes(P, at, to, next, <<Attached(g)>>)
  <2> DEFINE atts == <<Attached(g)>>
  <2>1. /\ ReadsAs(ParseGroup(P, s, at, to, table, strictly), next, atts)
        /\ at \in 1..Len(s) /\ to \in at..Len(s) /\ s[at].u = "counter"
    BY <1>5 DEF AloneReadAt, m, c
  <2>2. P[AttachmentsFrom(next, to)].ok
    BY <1>6 DEF ReadsAs
  <2> HIDE DEF next, atts
  <2>3. Precedes(P, at, to, next, atts)
    BY <1>2, <2>1, <2>2, GroupThenRest
  <2> QED
    BY <2>3 DEF atts
<1> HIDE DEF next
<1>8. ReadsAs(P[AttachmentsFrom(at, to)], next + Len(d), <<Attached(g)>> \o Meant(more))
  BY <1>6, <1>7 DEF Precedes, ReadsAs
<1> QED
  BY <1>8 DEF next, m, c, d

\* A wrapper at the front is read as what it wraps, and the groups behind it are
\* read, when what is further on is.
LEMMA WrapperMeantHere ==
  ASSUME NEW X, NEW s \in Streams(X), NEW table \in Tables, NEW strictly \in BOOLEAN,
         NEW P, IsParsed(X, s, table, strictly, P), NEW at \in 1..(Len(s) + 1),
         NEW S, \A g \in S : IsGroupOver(g, X),
         \A next \in (at + 1)..(Len(s) + 1) : GroupsMeantAt(S, s, table, P, next),
         NEW to \in 0..Len(s), NEW g \in S, NEW ins \in Seq(S), NEW rem \in Seq(S),
         g.kind = Wrapper, g.n = Len(ComposeGroups(ins, table)),
         FaithfulGroups(ins, table), FaithfulGroups(rem, table),
         Fits(s, at, to, ComposeGroup(g, table) \o ComposeGroups(ins \o rem, table))
  PROVE  ReadsAs(P[AttachmentsFrom(at, to)],
                 at + Len(ComposeGroup(g, table)) + Len(ComposeGroups(ins \o rem, table)),
                 Meant(ins \o rem))
<1> DEFINE n == g.n
           c == Counter(Wrapper, n, table)
           a == ComposeGroups(ins, table)
           b == ComposeGroups(rem, table)
           place == at + 1
           end == at + n
           next == (at + n) + 1
           first == ParseGroup(P, s, at, to, table, strictly)
           inner == P[AttachmentsFrom(place, end)]
<1>1. a \in Seq(UnitSet(X)) /\ b \in Seq(UnitSet(X)) /\ n \in Nat /\ Len(a) = n
  <2>1. a \in Wholes(X) /\ b \in Wholes(X)
    BY GroupsType
  <2> QED
    BY <2>1, WholesJoin DEF IsGroupOver
<1>2. c \in Seq(UnitSet(X)) /\ Len(c) = 1
  BY <1>1, CounterType, WholesJoin
<1>3. ComposeGroup(g, table) = c /\ ComposeGroups(ins \o rem, table) = a \o b
      /\ Meant(ins \o rem) = Meant(ins) \o Meant(rem)
  <2>1. ComposeGroup(g, table) = c \o Body(g, table)
    BY GroupType
  <2>2. Body(g, table) = <<>>
    BY KindsDiffer DEF Body
  <2>3. c \o <<>> = c
    BY <1>2, ConcatEmptySeq
  <2>4. ComposedParts(table, ins, rem)
    BY ComposedLaws
  <2> QED
    BY <2>1, <2>2, <2>3, <2>4 DEF ComposedParts
<1>4. Fits(s, at, to, c \o (a \o b))
  BY <1>3
<1> HIDE DEF c, a, b
<1>5. a \o b \in Seq(UnitSet(X))
  BY <1>1, ConcatProperties
<1>6. Len(s) \in Nat /\ at \in Nat \ {0}
  BY LenProperties DEF Streams
<1>7. FitsInParts(s, at, to, c, a \o b)
  BY <1>2, <1>4, <1>5, <1>6, FitsRest
<1>8. Fits(s, place, to, a \o b) /\ \A j \in at..to : Ascii(s[j])
  BY <1>2, <1>7 DEF FitsInParts
<1>9. FitsInParts(s, place, to, a, b)
  <2> HIDE DEF place
  <2>1. place \in Nat \ {0}
    BY <1>6 DEF place
  <2> QED
    BY <1>1, <1>8, <2>1, FitsRest
<1>10. /\ Holds(s, place, a) /\ Fits(s, next, to, b) /\ Len(b) \in Nat /\ Len(a \o b) = n + Len(b)
       /\ next + Len(b) <= to + 1
  <2>1. /\ Holds(s, place, a) /\ Fits(s, place + n, to, b) /\ Len(b) \in Nat /\ Len(a \o b) = n + Len(b)
        /\ place + n + Len(b) <= to + 1
    BY <1>1, <1>9 DEF FitsInParts
  <2>2. place + n = next
    <3> HIDE DEF n
    <3> QED
      BY <1>1, <1>6
  <2> QED
    BY <2>1, <2>2
<1>11. /\ at \in 1..Len(s) /\ s[at].u = "counter" /\ s[at].n = n /\ Classify(s[at].code, table) = Wrapper
  <2> DEFINE kind == Wrapper
             d == a \o b
  <2>1. Listed(kind, table) /\ Holds(s, at, Counter(kind, n, table) \o d)
    BY <1>4 DEF Listed, Fits, c
  <2> HIDE DEF kind, n, d
  <2>2. n \in Nat /\ d \in Seq(UnitSet(X))
    BY <1>1, <1>5 DEF d
  <2>3. at \in 1..Len(s) /\ s[at].u = "counter" /\ s[at].n = n /\ Classify(s[at].code, table) = kind
    BY <1>6, <2>1, <2>2, CounterStands
  <2> QED
    BY <2>3 DEF kind
<1> HIDE DEF n
<1>12. /\ to \in at..Len(s) /\ end <= to /\ end \in 0..Len(s) /\ place <= end + 1
       /\ place \in (at + 1)..(Len(s) + 1) /\ next \in (at + 1)..(Len(s) + 1) /\ next <= to + 1
       /\ place + n = next /\ place + n <= end + 1 /\ ~(place + n <= end)
  BY <1>1, <1>6, <1>10, <1>11
<1>13. ReadsAs(inner, next, Meant(ins))
  <2> HIDE DEF place, end, next
  <2>1. \A j \in place..end : Ascii(s[j])
    BY <1>1, <1>6, <1>8, <1>12 DEF place
  <2>2. Fits(s, place, end, a)
    BY <1>1, <1>10, <1>12, <2>1 DEF Fits
  <2>3. ReadsAs(inner, place + Len(a), Meant(ins))
    BY <1>12, <2>2 DEF GroupsMeantAt, a
  <2> QED
    BY <1>1, <1>12, <2>3
<1>14. ReadsAs(first, next, Meant(ins))
  <2>1. GroupSplit(s, table, strictly, P, at, to)
    BY <1>11, <1>12, GroupIs
  <2>2. first = ParseWrapped(P, at + 1, to, n)
    BY <1>11, <2>1 DEF GroupSplit
  <2>3. WrappedSplit(X, s, P, at, to, n)
    BY <1>1, <1>11, <1>12, WrappedIs
  <2>4. first = IF at + n <= to /\ inner.ok /\ inner.next = (at + n) + 1
                THEN [ok |-> TRUE, next |-> (at + n) + 1, atts |-> inner.atts]
                ELSE Failed
    BY <2>2, <2>3 DEF WrappedSplit
  <2> HIDE DEF first, inner
  <2> QED
    BY <1>12, <1>13, <2>4 DEF ReadsAs
<1>15. ReadsAs(P[AttachmentsFrom(next, to)], next + Len(b), Meant(rem))
  <2> HIDE DEF next
  <2> QED
    BY <1>10, <1>12 DEF GroupsMeantAt, b
<1>16. Precedes(P, at, to, next, Meant(ins))
  <2>1. P[AttachmentsFrom(next, to)].ok
    BY <1>15 DEF ReadsAs
  <2>2. ReadsAs(ParseGroup(P, s, at, to, table, strictly), next, Meant(ins))
    BY <1>14
  <2> HIDE DEF next
  <2> QED
    BY <1>8, <1>11, <1>12, <2>1, <2>2, GroupThenRest
<1>17. at + Len(ComposeGroup(g, table)) + Len(ComposeGroups(ins \o rem, table)) = next + Len(b)
  <2>1. Len(ComposeGroup(g, table)) = 1 /\ Len(ComposeGroups(ins \o rem, table)) = n + Len(b)
    BY <1>2, <1>3, <1>10
  <2> QED
    BY <1>1, <1>6, <1>10, <2>1
<1> HIDE DEF next
<1>18. ReadsAs(P[AttachmentsFrom(at, to)], next + Len(b), Meant(ins) \o Meant(rem))
  BY <1>15, <1>16 DEF Precedes, ReadsAs
<1> QED
  BY <1>3, <1>17, <1>18

\* Groups are read as they were meant when what is further on is.
LEMMA GroupsMeantHere ==
  ASSUME NEW X, NEW s \in Streams(X), NEW table \in Tables, NEW strictly \in BOOLEAN,
         NEW P, IsParsed(X, s, table, strictly, P), NEW at \in 1..(Len(s) + 1),
         NEW S, \A g \in S : IsGroupOver(g, X),
         \A next \in (at + 1)..(Len(s) + 1) : GroupsMeantAt(S, s, table, P, next)
  PROVE  GroupsMeantAt(S, s, table, P, at)
<1> SUFFICES ASSUME NEW to \in 0..Len(s), NEW gs \in Seq(S), at <= to + 1, FaithfulGroups(gs, table),
                    Fits(s, at, to, ComposeGroups(gs, table))
             PROVE  ReadsAs(P[AttachmentsFrom(at, to)], at + Len(ComposeGroups(gs, table)), Meant(gs))
  BY DEF GroupsMeantAt
<1>1. Len(s) \in Nat /\ at \in Nat \ {0}
  BY LenProperties DEF Streams
<1>2. CASE gs = <<>>
  <2> DEFINE c == ComposeGroups(gs, table)
  <2>1. c = <<>> /\ Meant(gs) = <<>>
    BY <1>2, ComposedLaws
  <2> HIDE DEF c
  <2>2. at + Len(c) = at
    BY <1>1, <2>1
  <2>3. at > to \/ s[at].u # "counter"
    BY <1>1, <2>2 DEF Fits, c
  <2>4. AttachmentsSplit(X, s, table, strictly, P, at, to)
    BY AttachmentsAre
  <2>5. ReadsAs(P[AttachmentsFrom(at, to)], at, <<>>)
    BY <2>3, <2>4 DEF AttachmentsSplit, ReadsAs
  <2> QED
    BY <2>1, <2>2, <2>5 DEF c
<1>3. CASE gs # <<>>
  <2> DEFINE g == gs[1]
             more == SubSeq(gs, 2, Len(gs))
             c == ComposeGroup(g, table)
             d == ComposeGroups(more, table)
  <2>1. FirstGroupIs(S, gs, table)
    BY <1>3, FirstGroup
  <2>2. /\ g \in S /\ more \in Seq(S) /\ gs = <<g>> \o more
        /\ g.kind # Wrapper => CountedAlone(g, table)
        /\ g.kind = Trans => more = <<>>
        /\ g.kind \notin {Wrapper, Trans} => FaithfulGroups(more, table)
        /\ g.kind = Wrapper => \E ins, rem : WrapsFirst(S, gs, table, ins, rem)
    BY <2>1 DEF FirstGroupIs
  <2>3. /\ ComposeGroups(gs, table) = c \o d
        /\ Meant(gs) = (IF g.kind = Wrapper THEN <<>> ELSE <<Attached(g)>>) \o Meant(more)
    <3> HIDE DEF g, more
    <3>1. ComposedFirst(table, g, more)
      BY <2>2, ComposedLaws
    <3> QED
      BY <2>2, <3>1 DEF ComposedFirst
  <2>4. c \in Seq(UnitSet(X)) /\ d \in Seq(UnitSet(X))
    <3> HIDE DEF g, more
    <3>1. c \in Wholes(X) /\ d \in Wholes(X)
      BY <2>2, GroupType, GroupsType
    <3> QED
      BY <3>1, WholesJoin
  <2>5. Fits(s, at, to, c \o d)
    BY <2>3
  <2>6. FitsInParts(s, at, to, c, d)
    <3> HIDE DEF c, d
    <3> QED
      BY <1>1, <2>4, <2>5, FitsRest
  <2>7. Len(c \o d) = Len(c) + Len(d) /\ Len(c) \in Nat /\ Len(d) \in Nat
    BY <2>6 DEF FitsInParts
  <2>8. at + Len(ComposeGroups(gs, table)) = at + Len(c) + Len(d)
    <3> DEFINE m == Len(c)
               k == Len(d)
               l == Len(ComposeGroups(gs, table))
    <3>1. m \in Nat /\ k \in Nat /\ l = m + k
      BY <2>3, <2>7
    <3> HIDE DEF m, k, l
    <3>2. at + l = at + m + k
      BY <1>1, <3>1
    <3> QED
      BY <3>2 DEF m, k, l
  <2>9. CASE g.kind # Wrapper
    <3>1. FaithfulGroups(more, table)
      <4>1. CASE g.kind = Trans
        <5>1. FaithfulGroups(<<>>, table)
          BY DEF FaithfulGroups, WrappersNest, TransGroupsLast
        <5> QED
          BY <2>2, <4>1, <5>1
      <4> QED
        BY <2>2, <2>9, <4>1
    <3>2. ReadsAs(P[AttachmentsFrom(at, to)], at + Len(c) + Len(d), <<Attached(g)>> \o Meant(more))
      <4> HIDE DEF g, more
      <4> QED
        BY <2>2, <2>5, <2>6, <2>9, <3>1, AloneMeantHere DEF c, d
    <3> QED
      BY <2>3, <2>8, <2>9, <3>2
  <2>10. CASE g.kind = Wrapper
    <3>1. PICK ins, rem : WrapsFirst(S, gs, table, ins, rem)
      BY <2>2, <2>10
    <3>2. /\ ins \in Seq(S) /\ rem \in Seq(S) /\ more = ins \o rem
          /\ FaithfulGroups(ins, table) /\ FaithfulGroups(rem, table)
          /\ g.n = Len(ComposeGroups(ins, table))
      BY <3>1 DEF WrapsFirst
    <3> HIDE DEF g, more
    <3>3. Fits(s, at, to, ComposeGroup(g, table) \o ComposeGroups(ins \o rem, table))
      BY <2>5, <3>2 DEF c, d
    <3>4. ReadsAs(P[AttachmentsFrom(at, to)],
                  at + Len(ComposeGroup(g, table)) + Len(ComposeGroups(ins \o rem, table)),
                  Meant(ins \o rem))
      BY <2>2, <2>10, <3>2, <3>3, WrapperMeantHere
    <3>5. ReadsAs(P[AttachmentsFrom(at, to)], at + Len(c) + Len(d), Meant(more))
      BY <3>2, <3>4 DEF c, d
    <3>6. <<>> \o Meant(more) = Meant(more)
      <4>1. Meant(more) \in Seq({Attached(h) : h \in S})
        BY <2>2, ComposedLaws
      <4> QED
        BY <4>1, ConcatEmptySeq
    <3> QED
      BY <2>3, <2>8, <2>10, <3>5, <3>6
  <2> QED
    BY <2>9, <2>10
<1> QED
  BY <1>2, <1>3

\* So they are wherever they stand.
LEMMA GroupsMeant ==
  ASSUME NEW X, NEW s \in Streams(X), NEW table \in Tables, NEW strictly \in BOOLEAN,
         NEW P, IsParsed(X, s, table, strictly, P), NEW S, \A g \in S : IsGroupOver(g, X)
  PROVE  \A at \in 1..(Len(s) + 1) : GroupsMeantAt(S, s, table, P, at)
<1> DEFINE N == Len(s) + 1
           Right == {at \in 1..N : GroupsMeantAt(S, s, table, P, at)}
<1>1. N \in Nat
  BY LenProperties DEF Streams
<1>2. ASSUME NEW at \in 1..N, \A next \in (at + 1)..N : next \in Right
      PROVE  at \in Right
  <2>1. \A next \in (at + 1)..(Len(s) + 1) : GroupsMeantAt(S, s, table, P, next)
    BY <1>2
  <2> QED
    BY <2>1, GroupsMeantHere
<1>3. \A at \in 1..N : at \in Right
  <2> HIDE DEF Right
  <2> QED
    BY <1>1, <1>2, Backwards
<1> QED
  BY <1>3

----------------------------------------------------------------------------
(* What is composed of groups is text, and so are messages with text       *)
(* bodies.                                                                 *)

\* What is composed that has to be text wherever a counter is before it
Texts(X) == {l \in Wholes(X) : \A i \in 1..Len(l) : Ascii(l[i])}

\* One text follows the other.
LEMMA TextsJoin ==
  ASSUME NEW X
  PROVE  /\ Texts(X) \in SUBSET Seq(UnitSet(X)) /\ <<>> \in Texts(X)
         /\ \A a, b \in Texts(X) : a \o b \in Texts(X)
<1>1. Texts(X) \in SUBSET Seq(UnitSet(X))
  BY WholesJoin DEF Texts
<1>2. <<>> \in Texts(X)
  BY WholesJoin, EmptySeq DEF Texts
<1>3. ASSUME NEW a \in Texts(X), NEW b \in Texts(X)
      PROVE  a \o b \in Texts(X)
  <2> DEFINE c == a \o b
  <2>1. /\ a \in Wholes(X) /\ b \in Wholes(X) /\ a \in Seq(UnitSet(X)) /\ b \in Seq(UnitSet(X))
        /\ \A i \in 1..Len(a) : Ascii(a[i])
        /\ \A i \in 1..Len(b) : Ascii(b[i])
    BY <1>1 DEF Texts
  <2>2. /\ Len(a) \in Nat /\ Len(b) \in Nat /\ Len(c) = Len(a) + Len(b)
        /\ \A i \in 1..(Len(a) + Len(b)) : c[i] = IF i <= Len(a) THEN a[i] ELSE b[i - Len(a)]
    BY <2>1, ConcatProperties, LenProperties
  <2>3. c \in Wholes(X)
    BY <2>1, WholesJoin
  <2> HIDE DEF c
  <2>4. ASSUME NEW i \in 1..Len(c)
        PROVE  Ascii(c[i])
    <3>1. CASE i <= Len(a)
      BY <2>1, <2>2, <3>1
    <3>2. CASE ~(i <= Len(a))
      <4>1. c[i] = b[i - Len(a)] /\ i - Len(a) \in 1..Len(b)
        BY <2>2, <3>2
      <4> QED
        BY <2>1, <4>1
    <3> QED
      BY <3>1, <3>2
  <2> QED
    BY <2>3, <2>4 DEF Texts, c
<1> QED
  BY <1>1, <1>2, <1>3

\* A primitive is text.
LEMMA UnitsText ==
  ASSUME NEW X, NEW kind \in {"matter", "indexed"}, NEW ids \in Seq(X)
  PROVE  Units(kind, ids) \in Texts(X)
<1>1. kind \in Heads /\ kind # "body"
  BY DEF Heads
<1> HIDE DEF Heads
<1>2. Paired(kind, X) \in [X -> Wholes(X)] /\ Units(kind, ids) = Gather(Paired(kind, X), ids)
  BY <1>1, UnitsGathered
<1>3. ASSUME NEW x \in X
      PROVE  Paired(kind, X)[x] \in Texts(X)
  <2> DEFINE p == Paired(kind, X)[x]
  <2>1. p = <<[u |-> kind, x |-> x], [u |-> "tail"]>> /\ p \in Wholes(X)
    BY <1>2 DEF Paired
  <2>2. Len(p) = 2 /\ p[1].u # "body" /\ p[2].u # "body"
    BY <1>1, <2>1
  <2> HIDE DEF p
  <2>3. \A i \in 1..Len(p) : Ascii(p[i])
    BY <2>2 DEF Ascii
  <2> QED
    BY <2>1, <2>3 DEF Texts, p
<1>4. Paired(kind, X) \in [X -> Texts(X)]
  BY <1>2, <1>3
<1>5. Texts(X) \in SUBSET Seq(UnitSet(X)) /\ <<>> \in Texts(X)
  BY TextsJoin
<1>6. \A a, b \in Texts(X) : a \o b \in Texts(X)
  BY TextsJoin
<1>7. \A l \in Seq(X) : Gather(Paired(kind, X), l) \in Texts(X)
  BY <1>4, <1>5, <1>6, GatherIn
<1> QED
  BY <1>2, <1>7

\* So is a counter.
LEMMA CounterText ==
  ASSUME NEW X, NEW kind, NEW n \in Nat, NEW table \in Tables
  PROVE  Counter(kind, n, table) \in Texts(X)
<1> DEFINE c == Counter(kind, n, table)
<1>0. c \in Wholes(X) /\ Len(c) = 1 /\ c[1] = [u |-> "counter", code |-> CodeOf(kind, table), n |-> n]
  BY CounterType
<1>1. c \in Wholes(X) /\ Len(c) = 1 /\ c[1].u = "counter"
  <2> HIDE DEF c
  <2> QED
    BY <1>0
<1> HIDE DEF c
<1>2. \A i \in 1..Len(c) : Ascii(c[i])
  BY <1>1 DEF Ascii
<1> QED
  BY <1>1, <1>2 DEF Texts, c

\* So are anchored signatures.
LEMMA SignedText ==
  ASSUME NEW X, NEW table \in Tables, NEW l \in Seq(SignedSet(X))
  PROVE  Gather(Signing(X, table), l) \in Texts(X)
<1>1. \A a, b \in Texts(X) : a \o b \in Texts(X)
  BY TextsJoin
<1>2. ASSUME NEW signed \in SignedSet(X)
      PROVE  ComposeSigned(signed, table) \in Texts(X)
  <2>1. signed.anchor \in Seq(X) /\ signed.sigs \in Seq(X) /\ Len(signed.sigs) \in Nat
    BY LenProperties DEF SignedSet
  <2>2. Units("matter", signed.anchor) \in Texts(X) /\ Units("indexed", signed.sigs) \in Texts(X)
    BY <2>1, UnitsText
  <2>3. Counter("ControllerIdxSigs", Len(signed.sigs), table) \in Texts(X)
    BY <2>1, CounterText
  <2> QED
    BY <1>1, <2>2, <2>3 DEF ComposeSigned
<1>3. Signing(X, table) \in [SignedSet(X) -> Texts(X)]
  BY <1>2 DEF Signing
<1>4. Texts(X) \in SUBSET Seq(UnitSet(X)) /\ <<>> \in Texts(X)
  BY TextsJoin
<1>5. \A k \in Seq(SignedSet(X)) : Gather(Signing(X, table), k) \in Texts(X)
  BY <1>1, <1>3, <1>4, GatherIn
<1> QED
  BY <1>5

\* So are groups.
LEMMA GroupsText ==
  ASSUME NEW X, NEW table \in Tables, NEW S, \A g \in S : IsGroupOver(g, X), NEW gs \in Seq(S)
  PROVE  ComposeGroups(gs, table) \in Texts(X)
<1>1. \A a, b \in Texts(X) : a \o b \in Texts(X)
  BY TextsJoin
<1>2. Texts(X) \in SUBSET Seq(UnitSet(X)) /\ <<>> \in Texts(X)
  BY TextsJoin
<1>3. ASSUME NEW g \in S
      PROVE  ComposeGroup(g, table) \in Texts(X)
  <2> DEFINE trans == FlattenSeq([j \in DOMAIN g.groups |-> ComposeSigned(g.groups[j], table)])
             indexed == Units("indexed", g.items)
             matter == Units("matter", g.items)
  <2>0. Body(g, table) = CASE g.kind = Wrapper -> <<>>
                           [] g.kind = Trans -> trans
                           [] g.kind \in Idx -> indexed
                           [] OTHER -> matter
    BY DEF Body
  <2>1. CASE g.kind = Wrapper
    <3>1. Body(g, table) = <<>>
      <4> HIDE DEF trans, indexed, matter
      <4> QED
        BY <2>0, <2>1 DEF Wrapper, Trans, Idx
    <3> QED
      BY <1>1, <1>2, <3>1, GroupType, CounterText DEF IsGroupOver
  <2>2. CASE g.kind = Trans
    <3>1. Body(g, table) = trans
      <4> HIDE DEF trans, indexed, matter
      <4> QED
        BY <2>0, <2>2 DEF Wrapper, Trans, Idx
    <3>2. g.groups \in Seq(SignedSet(X)) /\ g.n \in Nat
      BY <2>2 DEF IsGroupOver
    <3>3. Body(g, table) \in Texts(X)
      BY <3>1, <3>2, SignedType, SignedText, ZenonT(60)
    <3>4. Counter(g.kind, g.n, table) \in Texts(X)
      BY <3>2, CounterText
    <3> QED
      BY <1>1, <3>3, <3>4, GroupType
  <2>3. CASE g.kind \notin {Wrapper, Trans}
    <3>1. Body(g, table) = Units("indexed", g.items) \/ Body(g, table) = Units("matter", g.items)
      BY <2>3 DEF Body
    <3>2. g.items \in Seq(X) /\ g.n \in Nat
      BY <2>3 DEF IsGroupOver
    <3>3. Body(g, table) \in Texts(X)
      BY <3>1, <3>2, UnitsText
    <3>4. Counter(g.kind, g.n, table) \in Texts(X)
      BY <3>2, CounterText
    <3> QED
      BY <1>1, <3>3, <3>4, GroupType
  <2> QED
    BY <2>1, <2>2, <2>3
<1>4. Grouping(S, table) \in [S -> Texts(X)]
  BY <1>3 DEF Grouping
<1>5. \A l \in Seq(S) : Gather(Grouping(S, table), l) \in Texts(X)
  BY <1>1, <1>2, <1>4, GatherIn
<1>6. ComposeGroups(gs, table) = Gather(Grouping(S, table), gs)
  BY GroupsType
<1> QED
  BY <1>5, <1>6

\* A body is composed as a head and a tail
BodyUnits(body, units) ==
  Len(units) = 2 /\ units[1] = [u |-> "body", x |-> body] /\ units[2] = [u |-> "tail"]

\* A body is a head and a tail.
LEMMA BodyComposed ==
  ASSUME NEW X, NEW body \in X
  PROVE  BodyUnits(body, Units("body", <<body>>))
<1> DEFINE ids == <<body>>
           kind == "body"
<1>1. ids \in Seq(X) /\ kind \in Heads /\ Len(ids) = 1 /\ ids[1] = body
  BY DEF Heads
<1> HIDE DEF ids, kind
<1> DEFINE units == Units(kind, ids)
<1>2. Pairs(X, kind, ids, units)
  BY <1>1, UnitsAre
<1> HIDE DEF units
<1>3. Len(units) = 2 /\ 1 \in 1..Len(ids) /\ 2 * 1 - 1 = 1 /\ 2 * 1 = 2
  BY <1>1, <1>2 DEF Pairs
<1>4. units[1] = [u |-> kind, x |-> ids[1]] /\ units[2] = [u |-> "tail"]
  BY <1>2, <1>3 DEF Pairs
<1> QED
  BY <1>1, <1>3, <1>4 DEF BodyUnits, units, ids, kind

\* A body that is text, with its tail, is text.
LEMMA BodyText ==
  ASSUME NEW X, NEW m, IsMessageOver(m, X), m.body.ascii
  PROVE  Units("body", <<m.body>>) \in Texts(X)
<1> DEFINE units == Units("body", <<m.body>>)
<1>1. BodyUnits(m.body, units) /\ units \in Wholes(X)
  BY BodyComposed, MessageType DEF IsMessageOver
<1> HIDE DEF units
<1>2. \A i \in 1..Len(units) : Ascii(units[i])
  BY <1>1 DEF BodyUnits, Ascii
<1> QED
  BY <1>1, <1>2 DEF Texts, units

\* White space is text.
LEMMA GapText ==
  ASSUME NEW X, NEW m, IsMessageOver(m, X)
  PROVE  /\ Gap(m) \in Texts(X)
         /\ \A i \in 1..Len(Gap(m)) : Gap(m)[i].u = "space"
<1> DEFINE gap == Gap(m)
<1>1. gap \in Wholes(X)
  BY MessageType
<1>2. \A i \in 1..Len(gap) : gap[i].u = "space"
  <2>1. CASE m.gap
    <3>1. Len(gap) = 1 /\ gap[1].u = "space"
      BY <2>1 DEF Gap
    <3> HIDE DEF gap
    <3> QED
      BY <3>1
  <2>2. CASE ~m.gap
    <3>1. Len(gap) = 0
      BY <2>2, EmptySeq DEF Gap
    <3> HIDE DEF gap
    <3> QED
      BY <3>1
  <2> QED
    BY <2>1, <2>2
<1> HIDE DEF gap
<1>3. gap \in Texts(X)
  BY <1>1, <1>2 DEF Texts, Ascii
<1> QED
  BY <1>2, <1>3 DEF gap

\* A message with a text body is text.
LEMMA MessagesText ==
  ASSUME NEW X, NEW S, \A m \in S : IsMessageOver(m, X) /\ m.body.ascii, NEW ms \in Seq(S)
  PROVE  ComposeAll(ms) \in Texts(X)
<1>1. \A a, b \in Texts(X) : a \o b \in Texts(X)
  BY TextsJoin
<1>2. Texts(X) \in SUBSET Seq(UnitSet(X)) /\ <<>> \in Texts(X)
  BY TextsJoin
<1>3. ASSUME NEW m \in S
      PROVE  Compose(m) \in Texts(X)
  <2>1. IsMessageOver(m, X) /\ m.body.ascii
    OBVIOUS
  <2>2. m.groups \in Seq(ToSet(m.groups)) /\ \A g \in ToSet(m.groups) : IsGroupOver(g, X)
    BY <2>1 DEF IsMessageOver, IsList, GroupsOver
  <2>3. TableFromMajor(m.body.major) \in Tables
    BY TableType
  <2>4. ComposeGroups(m.groups, TableFromMajor(m.body.major)) \in Texts(X)
    BY <2>2, <2>3, GroupsText
  <2>5. Units("body", <<m.body>>) \in Texts(X)
    BY <2>1, BodyText
  <2>6. Gap(m) \in Texts(X)
    BY <2>1, GapText
  <2>7. Compose(m) = Units("body", <<m.body>>)
                       \o ComposeGroups(m.groups, TableFromMajor(m.body.major)) \o Gap(m)
    BY <2>1, MessageType
  <2> QED
    BY <1>1, <2>4, <2>5, <2>6, <2>7
<1>4. Composing(S) \in [S -> Texts(X)]
  BY <1>3 DEF Composing
<1>5. \A l \in Seq(S) : Gather(Composing(S), l) \in Texts(X)
  BY <1>1, <1>2, <1>4, GatherIn
<1>6. ComposeAll(ms) = Gather(Composing(S), ms)
  BY MessagesType
<1> QED
  BY <1>5, <1>6

\* A message and others after it are composed one after the other
ComposedNext(m, ms) == ComposeAll(<<m>> \o ms) = Compose(m) \o ComposeAll(ms)

\* They are, and nothing is composed of no messages.
LEMMA MessagesJoin ==
  ASSUME NEW X, NEW S, \A m \in S : IsMessageOver(m, X)
  PROVE  /\ ComposeAll(<<>>) = <<>>
         /\ \A m \in S, ms \in Seq(S) : ComposedNext(m, ms)
<1>1. Makes(Composing(S), S, UnitSet(X))
  BY MessagesType, WholesJoin DEF Makes
<1>2. ComposeAll(<<>>) = <<>>
  <2>1. <<>> \in Seq(S)
    OBVIOUS
  <2>2. ComposeAll(<<>>) = Gather(Composing(S), <<>>)
    BY <2>1, MessagesType
  <2> QED
    BY <1>1, <2>2, GatherLaws DEF Makes
<1>3. ASSUME NEW m \in S, NEW ms \in Seq(S)
      PROVE  ComposedNext(m, ms)
  <2>1. <<m>> \o ms \in Seq(S)
    OBVIOUS
  <2>2. ComposeAll(<<m>> \o ms) = Gather(Composing(S), <<m>> \o ms)
    BY <2>1, MessagesType
  <2>3. ComposeAll(ms) = Gather(Composing(S), ms)
    BY MessagesType
  <2>4. Grown(Composing(S), ms, m)
    BY <1>1, GatherOneMore
  <2>5. Composing(S)[m] = Compose(m)
    BY DEF Composing
  <2> QED
    BY <2>2, <2>3, <2>4, <2>5 DEF Grown, ComposedNext
<1> QED
  BY <1>2, <1>3

\* A message, and so a list of some, starts with a body
StartsWithBody(units) == Len(units) \in Nat \ {0} /\ units[1].u = "body"

\* It does.
LEMMA MessageStarts ==
  ASSUME NEW X, NEW m, IsMessageOver(m, X), NEW more \in Seq(UnitSet(X))
  PROVE  StartsWithBody(Compose(m) \o more)
<1> DEFINE a == Units("body", <<m.body>>)
           b == ComposeGroups(m.groups, TableFromMajor(m.body.major))
           c == Gap(m)
<1>1. Compose(m) = a \o b \o c
  BY MessageType
<1>2. a \in Seq(UnitSet(X)) /\ b \in Seq(UnitSet(X)) /\ c \in Seq(UnitSet(X))
  <2>1. a \in Wholes(X) /\ b \in Wholes(X) /\ c \in Wholes(X)
    BY MessageType
  <2> HIDE DEF a, b, c
  <2> QED
    BY <2>1, WholesJoin
<1>3. Len(a) = 2 /\ a[1].u = "body"
  <2>1. BodyUnits(m.body, a)
    BY BodyComposed DEF IsMessageOver
  <2> HIDE DEF a
  <2> QED
    BY <2>1 DEF BodyUnits
<1> HIDE DEF a, b, c
<1>4. /\ (a \o b \o c) \o more = a \o (b \o c \o more)
      /\ b \o c \o more \in Seq(UnitSet(X))
  BY <1>2, SMTT(30)
<1> DEFINE d == b \o c \o more
<1>5. d \in Seq(UnitSet(X)) /\ Compose(m) \o more = a \o d
  BY <1>1, <1>4
<1> HIDE DEF d
<1> DEFINE e == a \o d
<1>6. Len(e) = Len(a) + Len(d) /\ Len(d) \in Nat /\ e[1] = a[1]
  <2>1. /\ Len(e) = Len(a) + Len(d) /\ Len(d) \in Nat
        /\ \A i \in 1..(Len(a) + Len(d)) : e[i] = IF i <= Len(a) THEN a[i] ELSE d[i - Len(a)]
    BY <1>2, <1>5, ConcatProperties, LenProperties
  <2> HIDE DEF e
  <2>2. 1 \in 1..(Len(a) + Len(d)) /\ 1 <= Len(a)
    BY <1>3, <2>1
  <2> QED
    BY <2>1, <2>2
<1> HIDE DEF e
<1>7. StartsWithBody(e)
  BY <1>3, <1>6 DEF StartsWithBody
<1> QED
  BY <1>5, <1>7 DEF e

\* Messages start with a body if there are any.
LEMMA MessagesStart ==
  ASSUME NEW X, NEW S, \A m \in S : IsMessageOver(m, X), NEW ms \in Seq(S), ms # <<>>
  PROVE  StartsWithBody(ComposeAll(ms))
<1> DEFINE m == ms[1]
           more == SubSeq(ms, 2, Len(ms))
<1>1. m \in S /\ more \in Seq(S) /\ ms = <<m>> \o more
  BY FirstAndRest
<1> HIDE DEF m, more
<1>2. ComposedNext(m, more)
  BY <1>1, MessagesJoin
<1>3. ComposeAll(more) \in Seq(UnitSet(X))
  <2>1. ComposeAll(more) \in Wholes(X)
    BY <1>1, MessagesType
  <2> QED
    BY <2>1, WholesJoin
<1>4. StartsWithBody(Compose(m) \o ComposeAll(more))
  BY <1>1, <1>3, MessageStarts
<1> QED
  BY <1>1, <1>2, <1>4 DEF ComposedNext

----------------------------------------------------------------------------
(* A message that is composed is parsed.                                   *)

\* What a message is parsed as
AsMeant(m) == [body |-> m.body, unread |-> <<>>, attachments |-> Meant(m.groups)]

\* A message is read as it was meant, and only white space is left up to end
MessageReadAt(s, at, strictly, m, end) ==
  \E next \in (at + 2)..end :
    /\ ParseNext(s, at, strictly) = [ok |-> TRUE, next |-> next, message |-> AsMeant(m)]
    /\ \A i \in next..(end - 1) : s[i].u = "space"

\* A message stands with its groups, its gap and what follows
MessageStands(s, at, m, d) ==
  LET b == ComposeGroups(m.groups, TableFromMajor(m.body.major))
      c == Gap(m)
  IN  /\ Len(b) \in Nat /\ Len(c) \in Nat /\ Len(d) \in Nat /\ Len(s) \in Nat
      /\ Len(Compose(m)) = 2 + Len(b) + Len(c)
      /\ at + 1 <= Len(s) /\ s[at] = [u |-> "body", x |-> m.body]
      /\ Holds(s, at + 2, b \o (c \o d)) /\ Len(b \o (c \o d)) = Len(b) + Len(c) + Len(d)
      /\ Holds(s, at + 2, b)
      /\ Holds(s, at + 2 + Len(b), c)
      /\ Holds(s, at + 2 + Len(b) + Len(c), d)

\* Where a message has been composed with more behind it, its parts stand.
LEMMA MessageParts ==
  ASSUME NEW X, NEW s \in Streams(X), NEW at \in Nat \ {0}, NEW m, IsMessageOver(m, X),
         NEW d \in Seq(UnitSet(X)), Holds(s, at, Compose(m) \o d)
  PROVE  MessageStands(s, at, m, d)
<1> DEFINE a == Units("body", <<m.body>>)
           b == ComposeGroups(m.groups, TableFromMajor(m.body.major))
           c == Gap(m)
           T == UnitSet(X)
           rest == c \o d
           all == b \o rest
<1>1. Compose(m) = a \o b \o c
  BY MessageType
<1>2. a \in Seq(T) /\ b \in Seq(T) /\ c \in Seq(T)
  <2>1. a \in Wholes(X) /\ b \in Wholes(X) /\ c \in Wholes(X)
    BY MessageType
  <2> HIDE DEF a, b, c
  <2> QED
    BY <2>1, WholesJoin
<1>3. BodyUnits(m.body, a)
  BY BodyComposed DEF IsMessageOver
<1>4. s \in Seq(T) /\ d \in Seq(T) /\ Len(s) \in Nat
  BY LenProperties DEF Streams
<1> HIDE DEF a, b, c, T
<1>5. rest \in Seq(T) /\ all \in Seq(T) /\ Compose(m) \o d = a \o all
  <2>1. rest \in Seq(T) /\ a \o b \in Seq(T)
    BY <1>2, <1>4, ConcatProperties
  <2>2. Associates(a \o b, c, d)
    BY <1>2, <1>4, <2>1, ThreeLists
  <2>3. Associates(a, b, rest)
    <3> HIDE DEF rest
    <3> QED
      BY <1>2, <2>1, ThreeLists
  <2>4. all \in Seq(T)
    <3> HIDE DEF rest
    <3> QED
      BY <1>2, <2>1, ConcatProperties
  <2> QED
    BY <1>1, <2>1, <2>2, <2>3, <2>4 DEF Associates
<1>6. Len(Compose(m)) = Len(a) + Len(b) + Len(c)
  BY <1>1, <1>2, ConcatProperties
<1> HIDE DEF rest, all
<1>7. StandInParts(s, at, a, all)
  <2>1. Holds(s, at, a \o all)
    BY <1>5
  <2> QED
    BY <1>2, <1>4, <1>5, <2>1, HoldsParts
<1>8. Len(a) = 2 /\ a[1] = [u |-> "body", x |-> m.body]
  BY <1>3 DEF BodyUnits
<1> DEFINE p == at + 2
<1>9. Holds(s, at, a) /\ Holds(s, p, all) /\ p \in Nat \ {0}
  BY <1>7, <1>8 DEF StandInParts
<1> HIDE DEF p
<1>10. StandInParts(s, p, b, rest)
  BY <1>2, <1>4, <1>5, <1>9, HoldsParts DEF all
<1>11. /\ Holds(s, p, b) /\ Holds(s, p + Len(b), rest) /\ Len(all) = Len(b) + Len(rest)
       /\ Len(b) \in Nat
  BY <1>10 DEF StandInParts, all
<1> DEFINE q == p + Len(b)
<1>12. q \in Nat \ {0} /\ Holds(s, q, rest)
  BY <1>9, <1>11
<1> HIDE DEF q
<1>13. StandInParts(s, q, c, d)
  BY <1>2, <1>4, <1>12, HoldsParts DEF rest
<1>14. Holds(s, q, c) /\ Holds(s, q + Len(c), d) /\ Len(rest) = Len(c) + Len(d) /\ Len(c) \in Nat /\ Len(d) \in Nat
  BY <1>13 DEF StandInParts, rest
<1>15. at + 1 <= Len(s) /\ s[at] = [u |-> "body", x |-> m.body]
  <2>1. 1 \in 1..Len(a) /\ at + 1 - 1 = at /\ at + Len(a) - 1 = at + 1
    BY <1>8
  <2>2. at + 1 <= Len(s) /\ s[at + 1 - 1] = a[1]
    BY <1>9, <2>1 DEF Holds
  <2> QED
    BY <1>8, <2>1, <2>2
<1>16. Len(Compose(m)) = 2 + Len(b) + Len(c)
  BY <1>6, <1>8
<1>17. Len(all) = Len(b) + Len(c) + Len(d)
  <2> DEFINE i == Len(b)
             j == Len(c)
             k == Len(d)
             l == Len(all)
             r == Len(rest)
  <2>1. i \in Nat /\ j \in Nat /\ k \in Nat /\ r = j + k /\ l = i + r
    BY <1>11, <1>14
  <2> HIDE DEF i, j, k, l, r
  <2>2. l = i + j + k
    BY <2>1
  <2> QED
    BY <2>2 DEF i, j, k, l
<1>18. Holds(s, at + 2, all) /\ Holds(s, at + 2, b) /\ Holds(s, at + 2 + Len(b), c)
       /\ Holds(s, at + 2 + Len(b) + Len(c), d)
  BY <1>9, <1>11, <1>14 DEF p, q
<1> QED
  BY <1>4, <1>11, <1>14, <1>15, <1>16, <1>17, <1>18 DEF MessageStands, all, rest, b, c

\* A message in a stream with right counts is parsed as it was meant.
LEMMA MessageMeant ==
  ASSUME NEW X, NEW s \in Streams(X), NEW at \in Nat \ {0}, NEW strictly \in BOOLEAN,
         NEW S, \A m \in S : IsMessageOver(m, X), NEW m \in S, NEW rest \in Seq(S),
         FaithfulGroups(m.groups, TableFromMajor(m.body.major)),
         m.body.major = 0 => rest = <<>> /\ m.groups = <<>>,
         m.groups # <<>> => \A l \in 1..Len(rest) : rest[l].body.ascii,
         Holds(s, at, Compose(m) \o ComposeAll(rest)),
         at + Len(Compose(m)) + Len(ComposeAll(rest)) = Len(s) + 1
  PROVE  MessageReadAt(s, at, strictly, m, at + Len(Compose(m)))
<1> DEFINE table == TableFromMajor(m.body.major)
           b == ComposeGroups(m.groups, table)
           c == Gap(m)
           d == ComposeAll(rest)
           p == at + 2
           q == p + Len(b)
           t == q + Len(c)
           N == Len(s)
           G == ToSet(m.groups)
<1>1. IsMessageOver(m, X) /\ table \in Tables
  BY TableType
<1>2. m.groups \in Seq(G) /\ \A g \in G : IsGroupOver(g, X)
  BY <1>1 DEF IsMessageOver, IsList, GroupsOver
<1>3. d \in Wholes(X) /\ d \in Seq(UnitSet(X))
  <2>1. d \in Wholes(X)
    BY MessagesType
  <2> HIDE DEF d
  <2> QED
    BY <2>1, WholesJoin
<1>4. MessageStands(s, at, m, d)
  BY <1>1, <1>3, MessageParts
<1>5. /\ Len(b) \in Nat /\ Len(c) \in Nat /\ Len(d) \in Nat /\ N \in Nat
      /\ at + 1 <= N /\ s[at] = [u |-> "body", x |-> m.body]
      /\ Holds(s, p, b \o (c \o d)) /\ Len(b \o (c \o d)) = Len(b) + Len(c) + Len(d)
      /\ Holds(s, p, b) /\ Holds(s, q, c) /\ Holds(s, t, d)
      /\ Len(Compose(m)) = 2 + Len(b) + Len(c)
  BY <1>4 DEF MessageStands
<1>6. \A i \in 1..Len(c) : c[i].u = "space"
  BY <1>1, GapText
<1>7. at + Len(Compose(m)) = t /\ t + Len(d) = N + 1
  <2> DEFINE lb == Len(b)
             lc == Len(c)
             ld == Len(d)
             lm == Len(Compose(m))
  <2>1. /\ lb \in Nat /\ lc \in Nat /\ ld \in Nat /\ lm = 2 + lb + lc
        /\ at + lm + ld = N + 1
    BY <1>5
  <2> HIDE DEF lb, lc, ld, lm, N
  <2>2. at + lm = at + 2 + lb + lc /\ at + 2 + lb + lc + ld = N + 1
    BY <2>1
  <2> QED
    BY <2>2 DEF lb, lc, ld, lm
<1>8. /\ at \in 1..N /\ p \in 1..(N + 1) /\ q \in p..(N + 1) /\ t \in q..(N + 1)
      /\ q \in 1..(N + 1) /\ N \in 0..N /\ p <= N + 1
  <2> DEFINE lb == Len(b)
             lc == Len(c)
             ld == Len(d)
  <2>1. lb \in Nat /\ lc \in Nat /\ ld \in Nat /\ N \in Nat /\ at + 2 + lb + lc + ld = N + 1
    BY <1>5, <1>7
  <2> HIDE DEF lb, lc, ld, N, b, c
  <2>2. /\ at \in 1..N /\ at + 2 \in 1..(N + 1) /\ at + 2 + lb \in (at + 2)..(N + 1)
        /\ at + 2 + lb + lc \in (at + 2 + lb)..(N + 1) /\ at + 2 + lb \in 1..(N + 1)
        /\ N \in 0..N /\ at + 2 <= N + 1
    BY <2>1
  <2> QED
    BY <2>2 DEF lb, lc
<1>9. MessageReadAt(s, at, strictly, m, t)
  <2> HIDE DEF b, c, d, G, N, table
  <2>1. \A i \in q..(t - 1) : s[i].u = "space"
    <3>1. ASSUME NEW i \in q..(t - 1)
          PROVE  s[i].u = "space"
      <4> DEFINE j == i - q + 1
      <4>1. j \in 1..Len(c) /\ q + j - 1 = i
        BY <1>5, <1>8
      <4> HIDE DEF j, q, t
      <4>2. s[q + j - 1] = c[j]
        BY <1>5, <4>1 DEF Holds
      <4> QED
        BY <1>6, <4>1, <4>2
    <3> QED
      BY <3>1
  <2>2. s[at].u = "body" /\ s[at].x = m.body
    BY <1>5
  <2>3. m.body.major = 0 => b = <<>> /\ d = <<>>
    <3>1. ComposeGroups(<<>>, table) = <<>>
      BY <1>1, <1>2, ComposedLaws
    <3>2. ComposeAll(<<>>) = <<>>
      BY MessagesJoin
    <3> QED
      BY <3>1, <3>2 DEF b, d
  <2>4. m.body.major = 0 => q = p /\ t = N + 1
    <3>1. b = <<>> /\ d = <<>> => Len(b) = 0 /\ Len(d) = 0
      BY EmptySeq
    <3> QED
      BY <1>5, <1>7, <2>3, <3>1
  <2>5. BodyStands(s, at) /\ RestInRaw(s, at) = <<>>
    <3>1. m.body.major = 0 => \A j \in (at + 2)..Len(s) : s[j].u = "space"
      <4> HIDE DEF p, q, t
      <4>1. m.body.major = 0 => \A j \in p..N : s[j].u = "space"
        <5> SUFFICES ASSUME m.body.major = 0, NEW j \in p..N
                     PROVE  s[j].u = "space"
          OBVIOUS
        <5>1. q = p /\ t - 1 = N
          BY <1>5, <2>4
        <5> QED
          BY <2>1, <5>1
      <4> QED
        BY <4>1 DEF p, N
    <3>2. BodyStands(s, at) /\ at \in 1..Len(s)
      BY <1>5, <1>8, <2>2, <3>1 DEF BodyStands, N
    <3>3. s[at].x.major = 0 => \A j \in (at + 2)..Len(s) : s[j].u = "space"
      BY <2>2, <3>1
    <3> QED
      BY <1>1, <3>2, <3>3, RestIs
  <2> DEFINE r == ReadAfterBody(s, at, strictly)
             P == Parsed(s, table, strictly)
  <2>6. IsParsed(X, s, table, strictly, P)
    BY <1>1, ParsedIsParsed
  <2>7. r = P[AttachmentsFrom(Starts(s, at), N)]
    BY <2>2 DEF ReadAfterBody, table, N
  <2> HIDE DEF r, P
  <2>8. \E next \in p..t : ReadsAs(r, next, Meant(m.groups)) /\ \A i \in next..(t - 1) : s[i].u = "space"
    <3>1. CASE m.body.major = 0
      <4>1. Starts(s, at) = N + 1
        BY <2>2, <3>1 DEF Starts, N
      <4> DEFINE n == N + 1
      <4>2. n \in 1..(Len(s) + 1) /\ N \in 0..Len(s) /\ n <= N + 1 /\ n > N
        BY <1>5 DEF N
      <4> HIDE DEF n
      <4>3. AttachmentsSplit(X, s, table, strictly, P, n, N)
        BY <1>1, <2>6, <4>2, AttachmentsAre
      <4>4. ReadsAs(P[AttachmentsFrom(n, N)], n, <<>>)
        BY <4>2, <4>3 DEF AttachmentsSplit, ReadsAs
      <4>5. Meant(<<>>) = <<>>
        BY <1>1, <1>2, ComposedLaws
      <4>6. ReadsAs(r, n, Meant(m.groups))
        BY <2>7, <3>1, <4>1, <4>4, <4>5 DEF n
      <4>7. n = t /\ n \in p..t /\ \A i \in n..(t - 1) : s[i].u = "space"
        BY <1>5, <1>8, <2>4, <3>1 DEF n
      <4> QED
        BY <4>6, <4>7
    <3>2. CASE m.body.major # 0
      <4>1. Starts(s, at) = p
        BY <2>2, <3>2 DEF Starts
      <4>2. q <= N => s[q].u # "counter"
        <5> SUFFICES ASSUME q <= N
                     PROVE  s[q].u # "counter"
          OBVIOUS
        <5>1. CASE q < t
          <6>1. q \in q..(t - 1)
            BY <1>8, <5>1
          <6> HIDE DEF q, t
          <6> QED
            BY <2>1, <6>1
        <5>2. CASE ~(q < t)
          <6>1. q = t /\ Len(d) # 0
            BY <1>5, <1>7, <1>8, <5>2, SMTT(30)
          <6>2. d # <<>>
            BY <6>1, EmptySeq
          <6>3. rest # <<>>
            BY <6>2, MessagesJoin DEF d
          <6>4. StartsWithBody(d)
            BY <6>3, MessagesStart DEF d
          <6> HIDE DEF q, t
          <6>5. s[t + 1 - 1] = d[1] /\ d[1].u = "body"
            BY <1>5, <6>4 DEF Holds, StartsWithBody
          <6>6. t + 1 - 1 = t
            BY <1>8
          <6> QED
            BY <6>1, <6>5, <6>6
        <5> QED
          BY <5>1, <5>2
      <4>3. b # <<>> => \A j \in p..N : Ascii(s[j])
        <5> SUFFICES ASSUME b # <<>>, NEW j \in p..N
                     PROVE  Ascii(s[j])
          OBVIOUS
        <5>1. m.groups # <<>>
          BY <1>1, <1>2, ComposedLaws DEF b
        <5>2. d \in Texts(X)
          <6> DEFINE A == {x \in S : x.body.ascii}
          <6>1. rest \in Seq(A)
            <7>1. Len(rest) \in Nat /\ rest \in [1..Len(rest) -> S]
              BY LenProperties
            <7>2. rest \in [1..Len(rest) -> A]
              BY <5>1, <7>1
            <7> QED
              BY <7>1, <7>2, SeqDef
          <6>2. \A x \in A : IsMessageOver(x, X) /\ x.body.ascii
            OBVIOUS
          <6> HIDE DEF A
          <6> QED
            BY <6>1, <6>2, MessagesText DEF d
        <5>3. b \in Texts(X)
          BY <1>1, <1>2, GroupsText DEF b
        <5>4. c \in Texts(X)
          BY <1>1, GapText DEF c
        <5> DEFINE all == b \o (c \o d)
                   i == j - p + 1
        <5>5. all \in Texts(X)
          <6>1. \A x, y \in Texts(X) : x \o y \in Texts(X)
            BY TextsJoin
          <6> QED
            BY <5>2, <5>3, <5>4, <6>1
        <5>6. i \in 1..Len(all) /\ p + i - 1 = j
          <6> DEFINE lb == Len(b)
                     lc == Len(c)
                     ld == Len(d)
                     l == Len(all)
          <6>1. lb \in Nat /\ lc \in Nat /\ ld \in Nat /\ N \in Nat /\ l = lb + lc + ld
                /\ at + 2 + lb + lc + ld = N + 1
            BY <1>5, <1>7
          <6> HIDE DEF lb, lc, ld, l, all
          <6>2. j - (at + 2) + 1 \in 1..l /\ (at + 2) + (j - (at + 2) + 1) - 1 = j
            BY <6>1
          <6> QED
            BY <6>2 DEF l
        <5>7. Holds(s, p, all)
          BY <1>5
        <5> HIDE DEF all, i, p
        <5>8. s[p + i - 1] = all[i] /\ Ascii(all[i])
          BY <5>5, <5>6, <5>7 DEF Holds, Texts
        <5> QED
          BY <5>6, <5>8
      <4>4. Fits(s, p, N, b)
        BY <1>5, <1>8, <4>2, <4>3 DEF Fits
      <4>5. GroupsMeantAt(G, s, table, P, p)
        <5>1. p \in 1..(Len(s) + 1)
          BY <1>8 DEF N
        <5> HIDE DEF p
        <5> QED
          BY <1>1, <1>2, <2>6, <5>1, GroupsMeant
      <4>6. ReadsAs(P[AttachmentsFrom(p, N)], q, Meant(m.groups))
        <5>1. FaithfulGroups(m.groups, table) /\ N \in 0..Len(s) /\ p <= N + 1
          BY <1>8 DEF table, N
        <5>2. Fits(s, p, N, ComposeGroups(m.groups, table))
          BY <4>4 DEF b
        <5>3. ReadsAs(P[AttachmentsFrom(p, N)], p + Len(ComposeGroups(m.groups, table)), Meant(m.groups))
          <6> HIDE DEF p
          <6> QED
            BY <1>2, <4>5, <5>1, <5>2 DEF GroupsMeantAt
        <5> QED
          BY <5>3 DEF b
      <4>7. q \in p..t
        BY <1>8
      <4> HIDE DEF p, q, t
      <4> QED
        BY <2>1, <2>7, <4>1, <4>6, <4>7
    <3> QED
      BY <3>1, <3>2
  <2>9. PICK next \in p..t : ReadsAs(r, next, Meant(m.groups)) /\ \A i \in next..(t - 1) : s[i].u = "space"
    BY <2>8
  <2>10. r = [ok |-> TRUE, next |-> next, atts |-> Meant(m.groups)]
    BY <2>9 DEF ReadsAs
  <2>11. ParseNext(s, at, strictly) =
           IF r.ok
           THEN [ok |-> TRUE, next |-> r.next,
                 message |-> [body |-> s[at].x, unread |-> <<>>, attachments |-> r.atts]]
           ELSE Failed
    <3>1. at \in 1..Len(s)
      BY <1>8 DEF N
    <3> QED
      BY <2>5, <3>1, NextIs DEF r
  <2>12. ParseNext(s, at, strictly) = [ok |-> TRUE, next |-> next, message |-> AsMeant(m)]
    BY <2>2, <2>10, <2>11 DEF AsMeant
  <2> QED
    BY <2>9, <2>12 DEF MessageReadAt
<1> QED
  BY <1>7, <1>9

----------------------------------------------------------------------------
(* The invariant: the messages parsed are the first that were sent, and the*)
(* others stand behind the offset.                                         *)

\* Of those that are left of a list one comes first
NextOf(ms, k) ==
  SubSeq(ms, k + 1, Len(ms)) = <<ms[k + 1]>> \o SubSeq(ms, k + 2, Len(ms))

\* It does.
LEMMA NextAndRest ==
  ASSUME NEW S, NEW ms \in Seq(S), NEW k \in 0..(Len(ms) - 1)
  PROVE  /\ NextOf(ms, k)
         /\ ms[k + 1] \in S /\ SubSeq(ms, k + 2, Len(ms)) \in Seq(S)
         /\ Len(SubSeq(ms, k + 2, Len(ms))) = Len(ms) - k - 1
         /\ \A l \in 1..(Len(ms) - k - 1) : SubSeq(ms, k + 2, Len(ms))[l] = ms[k + 1 + l]
<1> DEFINE n == Len(ms)
           a == k + 2
<1>1. n \in Nat /\ \A j \in 1..n : ms[j] \in S
  BY LenProperties, ElementOfSeq
<1>2. k + 1 \in 1..n /\ a \in 1..(n + 1) /\ n \in (a - 1)..n /\ n - a + 1 = n - k - 1
      /\ \A l \in 1..(n - k - 1) : a + l - 1 = k + 1 + l
  BY <1>1
<1>3. NextOf(ms, k)
  <2> DEFINE i == k + 1
  <2>1. i \in 1..Len(ms) /\ n \in i..Len(ms) /\ i + 1 = a
    BY <1>1, <1>2
  <2> HIDE DEF i, n, a
  <2>2. SubSeq(ms, i, n) = <<ms[i]>> \o SubSeq(ms, i + 1, n)
    BY <2>1, SubSeqRecursiveFirst
  <2> QED
    BY <2>1, <2>2 DEF NextOf, i, n, a
<1> HIDE DEF n, a
<1>4. /\ SubSeq(ms, a, n) \in Seq(S) /\ Len(SubSeq(ms, a, n)) = n - a + 1
      /\ \A l \in 1..(n - a + 1) : SubSeq(ms, a, n)[l] = ms[a + l - 1]
  <2>1. a \in 1..(Len(ms) + 1) /\ n \in (a - 1)..Len(ms)
    BY <1>2 DEF n
  <2> QED
    BY <2>1, Piece
<1>5. /\ ms[k + 1] \in S /\ SubSeq(ms, a, n) \in Seq(S) /\ Len(SubSeq(ms, a, n)) = n - k - 1
      /\ \A l \in 1..(n - k - 1) : SubSeq(ms, a, n)[l] = ms[k + 1 + l]
  BY <1>1, <1>2, <1>4
<1> QED
  BY <1>3, <1>5 DEF a, n

\* What is sent with right counts is so from each message on.
LEMMA FaithfulNext ==
  ASSUME NEW ms \in Sendings, Faithful(ms), NEW k \in 0..(Len(ms) - 1)
  PROVE  /\ FaithfulGroups(ms[k + 1].groups, TableFromMajor(ms[k + 1].body.major))
         /\ ms[k + 1].body.major = 0 => SubSeq(ms, k + 2, Len(ms)) = <<>> /\ ms[k + 1].groups = <<>>
         /\ ms[k + 1].groups # <<>> =>
              \A l \in 1..Len(SubSeq(ms, k + 2, Len(ms))) : SubSeq(ms, k + 2, Len(ms))[l].body.ascii
<1> DEFINE n == Len(ms)
           j == k + 1
           more == SubSeq(ms, k + 2, Len(ms))
<1>1. ms \in Seq(ToSet(ms))
  BY SendingsOver
<1>2. n \in Nat /\ DOMAIN ms = 1..n /\ j \in DOMAIN ms
  BY <1>1, LenProperties
<1>3. more \in Seq(ToSet(ms)) /\ Len(more) = n - k - 1 /\ \A l \in 1..(n - k - 1) : more[l] = ms[k + 1 + l]
  BY <1>1, NextAndRest
<1> HIDE DEF more
<1>4. FaithfulGroups(ms[j].groups, TableFromMajor(ms[j].body.major))
  <2>1. WrappersNest(ms[j].groups)
    BY <1>2, SendingsAssumption
  <2>2. /\ TransGroupsLast(ms[j].groups)
        /\ \A i \in DOMAIN ms[j].groups : Counted(ms[j].groups, i, TableFromMajor(ms[j].body.major))
    BY <1>2 DEF Faithful
  <2> QED
    BY <2>1, <2>2 DEF FaithfulGroups
<1>5. ASSUME ms[j].body.major = 0
      PROVE  more = <<>> /\ ms[j].groups = <<>>
  <2>1. j = n /\ ms[j].groups = <<>>
    BY <1>2, <1>5 DEF Faithful, Readable
  <2>2. Len(more) = 0
    <3> HIDE DEF n
    <3>1. n - k - 1 = 0
      BY <1>2, <2>1
    <3> QED
      BY <1>3, <3>1
  <2> QED
    BY <1>3, <2>1, <2>2, EmptySeq
<1>6. ASSUME ms[j].groups # <<>>, NEW l \in 1..Len(more)
      PROVE  more[l].body.ascii
  <2> DEFINE i == k + 1 + l
  <2>1. l \in 1..(n - k - 1) /\ i \in DOMAIN ms /\ j < i
    BY <1>2, <1>3
  <2>2. \A x, y \in DOMAIN ms : x < y /\ ms[x].groups # <<>> => ms[y].body.ascii
    BY DEF Faithful, Readable
  <2> HIDE DEF i, j
  <2>3. ms[i].body.ascii
    BY <1>2, <1>6, <2>1, <2>2
  <2> QED
    BY <1>3, <2>1, <2>3 DEF i
<1> QED
  BY <1>4, <1>5, <1>6 DEF more

\* The messages after the first k stand behind the offset and white space
RestStands(k) ==
  LET rest == ComposeAll(SubSeq(sent, k + 1, Len(sent)))
  IN  \E at \in offset..(Len(stream) + 1) :
        /\ \A i \in offset..(at - 1) : stream[i].u = "space"
        /\ Holds(stream, at, rest)
        /\ at + Len(rest) = Len(stream) + 1

\* The next message stands at a place, and those after it fill the stream
NextStands(k, at) ==
  LET m == Compose(sent[k + 1])
      more == ComposeAll(SubSeq(sent, k + 2, Len(sent)))
  IN  /\ at \in 1..Len(stream)
      /\ Holds(stream, at, m \o more)
      /\ at + Len(m) + Len(more) = Len(stream) + 1
      /\ Len(m) \in Nat /\ Len(more) \in Nat

\* parse_all comes to the next message, or to the end when there is none.
LEMMA ComesToNext ==
  ASSUME NEW X, sent \in Seq(ToSet(sent)), \A m \in ToSet(sent) : IsMessageOver(m, X),
         stream \in Streams(X), offset \in 1..(Len(stream) + 1),
         NEW k \in 0..Len(sent), RestStands(k)
  PROVE  /\ k = Len(sent) => FirstFrom(offset) > Len(stream)
         /\ k # Len(sent) => NextStands(k, FirstFrom(offset))
<1> DEFINE S == ToSet(sent)
           N == Len(stream)
           rest == ComposeAll(SubSeq(sent, k + 1, Len(sent)))
           from == FirstFrom(offset)
<1>1. Len(sent) \in Nat /\ N \in Nat
  BY LenProperties DEF Streams
<1>2. PICK at \in offset..(N + 1) :
        /\ \A i \in offset..(at - 1) : stream[i].u = "space"
        /\ Holds(stream, at, rest)
        /\ at + Len(rest) = N + 1
  BY DEF RestStands
<1>3. /\ from \in offset..(N + 1)
      /\ from <= N => stream[from].u # "space"
      /\ \A i \in offset..(from - 1) : stream[i].u = "space"
  BY FirstFromIs
<1>4. CASE k = Len(sent)
  <2>1. SubSeq(sent, k + 1, Len(sent)) = <<>>
    BY <1>1, <1>4, SubSeqEmpty
  <2>2. rest = <<>>
    BY <2>1, MessagesJoin
  <2>3. Len(rest) = 0
    BY <2>2, EmptySeq
  <2> HIDE DEF rest, from, N
  <2>4. at = N + 1
    BY <1>1, <1>2, <2>3
  <2>5. from > N
    BY <1>1, <1>2, <1>3, <2>4
  <2> QED
    BY <1>4, <2>5 DEF from, N
<1>5. CASE k # Len(sent)
  <2> DEFINE m == Compose(sent[k + 1])
             l == SubSeq(sent, k + 2, Len(sent))
             more == ComposeAll(l)
  <2>1. k \in 0..(Len(sent) - 1)
    BY <1>1, <1>5
  <2>2. NextOf(sent, k) /\ sent[k + 1] \in S /\ l \in Seq(S)
    BY <2>1, NextAndRest
  <2>3. rest = m \o more
    <3> HIDE DEF l
    <3>1. ComposedNext(sent[k + 1], l)
      BY <2>2, MessagesJoin
    <3> QED
      BY <2>2, <3>1 DEF NextOf, ComposedNext, l
  <2>4. m \in Seq(UnitSet(X)) /\ more \in Seq(UnitSet(X))
    <3>1. m \in Wholes(X)
      BY <2>2, MessageType
    <3>2. more \in Wholes(X)
      <4> HIDE DEF l
      <4> QED
        BY <2>2, MessagesType
    <3> HIDE DEF m, more
    <3> QED
      BY <3>1, <3>2, WholesJoin
  <2>5. StartsWithBody(m \o more)
    <3> HIDE DEF more
    <3> QED
      BY <2>2, <2>4, MessageStarts
  <2> HIDE DEF m, more, l
  <2>6. Len(m \o more) = Len(m) + Len(more) /\ Len(m) \in Nat /\ Len(more) \in Nat
    BY <2>4, ConcatProperties, LenProperties
  <2> HIDE DEF rest, N, from
  <2>7. at <= N /\ at \in 1..N /\ stream[at].u = "body"
    <3> DEFINE c == m \o more
               n == Len(c)
    <3>1. n \in Nat \ {0} /\ c[1].u = "body" /\ at + n = N + 1 /\ Holds(stream, at, c)
      BY <1>2, <2>3, <2>5 DEF StartsWithBody
    <3> HIDE DEF c
    <3>2. stream[at + 1 - 1] = c[1]
      BY <3>1 DEF Holds
    <3> HIDE DEF n
    <3>3. at <= N /\ at \in 1..N /\ at + 1 - 1 = at
      BY <1>1, <1>2, <3>1 DEF N
    <3> QED
      BY <3>1, <3>2, <3>3
  <2>8. from = at
    <3>1. ~(from < at)
      <4> SUFFICES ASSUME from < at PROVE FALSE
        OBVIOUS
      <4>1. from \in offset..(at - 1) /\ from <= N
        BY <1>1, <1>2, <1>3, <2>7 DEF N
      <4> QED
        BY <1>2, <1>3, <4>1
    <3>2. ~(at < from)
      <4> SUFFICES ASSUME at < from PROVE FALSE
        OBVIOUS
      <4>1. at \in offset..(from - 1)
        BY <1>1, <1>2, <1>3, <2>7 DEF N
      <4> QED
        BY <1>3, <2>7, <4>1
    <3> QED
      BY <1>1, <1>2, <1>3, <3>1, <3>2 DEF N
  <2>9. at + Len(m) + Len(more) = N + 1
    <3> DEFINE a == Len(m)
               b == Len(more)
               c == Len(rest)
    <3>1. a \in Nat /\ b \in Nat /\ c = a + b /\ at + c = N + 1
      BY <1>2, <2>3, <2>6
    <3> HIDE DEF a, b, c
    <3>2. at + a + b = N + 1
      BY <1>1, <1>2, <3>1 DEF N
    <3> QED
      BY <3>2 DEF a, b
  <2>10. Holds(stream, at, m \o more)
    BY <1>2, <2>3
  <2>11. NextStands(k, at)
    BY <2>6, <2>7, <2>9, <2>10 DEF NextStands, N, m, more, l
  <2> QED
    BY <1>5, <2>8, <2>11 DEF from
<1> QED
  BY <1>4, <1>5

\* The first k messages have been parsed as they were meant
ParsedUpTo(k) ==
  /\ messages = [j \in 1..k |-> AsMeant(sent[j])]
  /\ RestStands(k)
  /\ result = "done" => k = Len(sent)

\* Of a stream with right counts some have been parsed
MeantSoFar ==
  /\ sent \in Sendings /\ strict \in BOOLEAN
  /\ Faithful(sent) /\ stream = ComposeAll(sent) =>
       /\ offset \in 1..(Len(stream) + 1) /\ result # "error"
       /\ \E k \in 0..Len(sent) : ParsedUpTo(k)

\* At first nothing has been parsed, and all messages are left.
LEMMA MeantSoFarInit ==
  ASSUME Init
  PROVE  MeantSoFar
<1>1. sent \in Sendings /\ strict \in BOOLEAN /\ offset = 1 /\ messages = <<>> /\ result = "running"
  BY DEF Init
<1> SUFFICES ASSUME stream = ComposeAll(sent)
             PROVE  /\ offset \in 1..(Len(stream) + 1) /\ result # "error"
                    /\ \E k \in 0..Len(sent) : ParsedUpTo(k)
  BY <1>1 DEF MeantSoFar
<1>2. PICK X : sent \in Seq(ToSet(sent)) /\ \A m \in ToSet(sent) : IsMessageOver(m, X)
  BY <1>1, SendingsOver
<1>3. stream \in Wholes(X)
  BY <1>2, MessagesType
<1>4. Len(stream) \in Nat /\ Len(sent) \in Nat
  <2>1. stream \in Seq(UnitSet(X))
    BY <1>3, WholesJoin
  <2> QED
    BY <1>2, <2>1, LenProperties
<1>5. SubSeq(sent, 0 + 1, Len(sent)) = sent
  BY <1>2, SubSeqFull
<1>6. RestStands(0)
  <2> DEFINE rest == ComposeAll(SubSeq(sent, 0 + 1, Len(sent)))
  <2>1. rest = stream
    BY <1>5
  <2> HIDE DEF rest
  <2>2. /\ offset \in offset..(Len(stream) + 1)
        /\ \A i \in offset..(offset - 1) : stream[i].u = "space"
        /\ Holds(stream, offset, rest)
        /\ offset + Len(rest) = Len(stream) + 1
    BY <1>1, <1>4, <2>1 DEF Holds
  <2> QED
    BY <2>2 DEF RestStands, rest
<1>7. messages = [j \in 1..0 |-> AsMeant(sent[j])]
  <2>1. DOMAIN [j \in 1..0 |-> AsMeant(sent[j])] = {}
    OBVIOUS
  <2> QED
    BY <1>1
<1>8. ParsedUpTo(0)
  BY <1>1, <1>6, <1>7 DEF ParsedUpTo
<1> QED
  BY <1>1, <1>4, <1>8

\* parse_all comes to the message after those it has parsed, and parses it as
\* it was meant.
LEMMA MeantSoFarNext ==
  ASSUME MeantSoFar, [Next]_vars
  PROVE  MeantSoFar'
<1>1. sent \in Sendings /\ strict \in BOOLEAN /\ UNCHANGED <<sent, stream, strict>>
  BY DEF MeantSoFar, Next, ParseMessage, Finish, vars
<1> SUFFICES ASSUME Faithful(sent), stream = ComposeAll(sent)
             PROVE  /\ offset' \in 1..(Len(stream) + 1) /\ result' # "error"
                    /\ \E k \in 0..Len(sent) : ParsedUpTo(k)'
  <2>1. Faithful(sent)' <=> Faithful(sent)
    BY <1>1 DEF Faithful, Readable
  <2>2. (stream = ComposeAll(sent))' <=> stream = ComposeAll(sent)
    BY <1>1
  <2> QED
    BY <1>1, <2>1, <2>2 DEF MeantSoFar
<1>2. offset \in 1..(Len(stream) + 1) /\ result # "error" /\ \E k \in 0..Len(sent) : ParsedUpTo(k)
  BY DEF MeantSoFar
<1>3. PICK k \in 0..Len(sent) : ParsedUpTo(k)
  BY <1>2
<1>4. PICK X : sent \in Seq(ToSet(sent)) /\ \A m \in ToSet(sent) : IsMessageOver(m, X)
  BY <1>1, SendingsOver
<1> DEFINE S == ToSet(sent)
           at == FirstFrom(offset)
<1>5. stream \in Streams(X) /\ Len(stream) \in Nat /\ Len(sent) \in Nat
  <2>1. stream \in Wholes(X)
    BY <1>4, MessagesType
  <2>2. stream \in Streams(X) /\ stream \in Seq(UnitSet(X))
    BY <2>1 DEF Wholes, Streams
  <2> QED
    BY <1>4, <2>2, LenProperties
<1>6. /\ k = Len(sent) => at > Len(stream)
      /\ k # Len(sent) => NextStands(k, at)
  BY <1>2, <1>3, <1>4, <1>5, ComesToNext DEF ParsedUpTo
<1>7. CASE ParseMessage
  <2> DEFINE m == sent[k + 1]
             rest == SubSeq(sent, k + 2, Len(sent))
             a == Len(Compose(m))
             b == Len(ComposeAll(rest))
             end == at + a
  <2>1. result = "running" /\ at <= Len(stream)
    BY <1>7 DEF ParseMessage
  <2>2. k \in 0..(Len(sent) - 1) /\ k # Len(sent)
    <3>0. at \in offset..(Len(stream) + 1)
      BY <1>2, <1>5, FirstFromIs
    <3> HIDE DEF at
    <3>1. k # Len(sent)
      BY <1>2, <1>5, <1>6, <2>1, <3>0
    <3> QED
      BY <1>5, <3>1
  <2>3. /\ at \in 1..Len(stream) /\ Holds(stream, at, Compose(m) \o ComposeAll(rest))
        /\ at + a + b = Len(stream) + 1 /\ a \in Nat /\ b \in Nat
    BY <1>6, <2>2 DEF NextStands
  <2>4. m \in S /\ rest \in Seq(S)
    BY <1>4, <2>2, NextAndRest
  <2>5. /\ FaithfulGroups(m.groups, TableFromMajor(m.body.major))
        /\ m.body.major = 0 => rest = <<>> /\ m.groups = <<>>
        /\ m.groups # <<>> => \A l \in 1..Len(rest) : rest[l].body.ascii
    BY <1>1, <2>2, FaithfulNext
  <2>6. MessageReadAt(stream, at, strict, m, end)
    <3> HIDE DEF m, rest, at, S
    <3>1. at \in Nat \ {0} /\ at + Len(Compose(m)) + Len(ComposeAll(rest)) = Len(stream) + 1
      BY <2>3
    <3>2. \A x \in S : IsMessageOver(x, X)
      BY <1>4 DEF S
    <3> QED
      BY <1>1, <1>5, <2>3, <2>4, <2>5, <3>1, <3>2, MessageMeant
  <2>7. PICK next \in (at + 2)..end :
          /\ ParseNext(stream, at, strict) = [ok |-> TRUE, next |-> next, message |-> AsMeant(m)]
          /\ \A i \in next..(end - 1) : stream[i].u = "space"
    <3> HIDE DEF m, at, end
    <3> QED
      BY <2>6, Zenon DEF MessageReadAt
  <2>8. messages' = Append(messages, AsMeant(m)) /\ offset' = next /\ result' = "running"
    <3> DEFINE r == ParseNext(stream, at, strict)
    <3>1. r.ok /\ r.message = AsMeant(m) /\ r.next = next
      BY <2>7
    <3>2. IF r.ok
          THEN /\ messages' = Append(messages, r.message)
               /\ offset' = r.next
               /\ UNCHANGED result
          ELSE /\ messages' = <<>>
               /\ result' = "error"
               /\ UNCHANGED offset
      BY <1>7 DEF ParseMessage
    <3> HIDE DEF r, m
    <3> QED
      BY <2>1, <3>1, <3>2
  <2>9. messages' = [j \in 1..(k + 1) |-> AsMeant(sent[j])]
    <3>1. messages = [j \in 1..k |-> AsMeant(sent[j])]
      BY <1>3 DEF ParsedUpTo
    <3>2. messages' = [j \in 1..(k + 1) |-> IF j <= k THEN messages[j] ELSE AsMeant(m)]
      <4> DEFINE T == {AsMeant(sent[j]) : j \in 1..(k + 1)}
                 x == AsMeant(m)
      <4>1. k \in Nat /\ k + 1 \in 1..(k + 1) /\ \A j \in 1..k : j \in 1..(k + 1)
        BY <2>2
      <4>2. x \in T /\ messages \in [1..k -> T]
        BY <3>1, <4>1
      <4> HIDE DEF T, x
      <4>3. messages \in Seq(T) /\ Len(messages) = k
        BY <4>1, <4>2, SeqDef
      <4>4. Append(messages, x) = [j \in 1..(k + 1) |-> IF j <= k THEN messages[j] ELSE x]
        <5>1. /\ Append(messages, x) \in Seq(T) /\ Len(Append(messages, x)) = k + 1
              /\ \A j \in 1..k : Append(messages, x)[j] = messages[j]
              /\ Append(messages, x)[k + 1] = x
          BY <4>2, <4>3, AppendProperties
        <5> DEFINE y == Append(messages, x)
        <5>2. y \in [1..(k + 1) -> T]
          BY <5>1, LenProperties
        <5>3. \A j \in 1..k : y[j] = messages[j]
          BY <5>1
        <5>4. y[k + 1] = x
          BY <5>1
        <5> HIDE DEF y
        <5>5. ASSUME NEW j \in 1..(k + 1)
              PROVE  y[j] = IF j <= k THEN messages[j] ELSE x
          <6>1. CASE j <= k
            <7>1. j \in 1..k
              BY <4>1, <6>1
            <7> QED
              BY <5>3, <6>1, <7>1
          <6>2. CASE ~(j <= k)
            <7>1. j = k + 1
              BY <4>1, <6>2
            <7> QED
              BY <5>4, <6>2, <7>1
          <6> QED
            BY <6>1, <6>2
        <5>6. y = [j \in 1..(k + 1) |-> y[j]]
          BY <5>2
        <5>7. y = [j \in 1..(k + 1) |-> IF j <= k THEN messages[j] ELSE x]
          BY <5>5, <5>6
        <5> QED
          BY <5>7 DEF y
      <4> QED
        BY <2>8, <4>4 DEF x
    <3>3. ASSUME NEW j \in 1..(k + 1)
          PROVE  (IF j <= k THEN messages[j] ELSE AsMeant(m)) = AsMeant(sent[j])
      <4>1. CASE j <= k
        <5>1. j \in 1..k
          BY <2>2, <4>1
        <5> QED
          BY <3>1, <4>1, <5>1
      <4>2. CASE ~(j <= k)
        <5>1. j = k + 1
          BY <2>2, <4>2
        <5> QED
          BY <4>2, <5>1
      <4> QED
        BY <4>1, <4>2
    <3> QED
      BY <3>2, <3>3
  <2>10. RestStands(k + 1)'
    <3>1. /\ end \in next..(Len(stream) + 1)
          /\ \A i \in next..(end - 1) : stream[i].u = "space"
      <4> HIDE DEF a, b, at
      <4> QED
        BY <1>5, <2>3, <2>7
    <3>2. Holds(stream, end, ComposeAll(rest)) /\ end + Len(ComposeAll(rest)) = Len(stream) + 1
      <4>1. Compose(m) \in Seq(UnitSet(X)) /\ ComposeAll(rest) \in Seq(UnitSet(X)) /\ stream \in Seq(UnitSet(X))
        <5>1. Compose(m) \in Wholes(X)
          BY <1>4, <2>4, MessageType
        <5>2. ComposeAll(rest) \in Wholes(X)
          <6> HIDE DEF rest
          <6> QED
            BY <1>4, <2>4, MessagesType
        <5> HIDE DEF m, rest
        <5> QED
          BY <1>5, <5>1, <5>2, WholesJoin DEF Streams
      <4>2. StandInParts(stream, at, Compose(m), ComposeAll(rest))
        <5> HIDE DEF m, rest, at
        <5>1. at \in Nat \ {0}
          BY <2>3
        <5> QED
          BY <2>3, <4>1, <5>1, HoldsParts
      <4> QED
        BY <2>3, <4>2 DEF StandInParts
    <3>3. SubSeq(sent, (k + 1) + 1, Len(sent)) = rest
      <4>1. (k + 1) + 1 = k + 2
        BY <2>2
      <4> QED
        BY <4>1
    <3> HIDE DEF end, rest
    <3>4. \E i \in offset'..(Len(stream) + 1) :
            /\ \A h \in offset'..(i - 1) : stream[h].u = "space"
            /\ Holds(stream, i, ComposeAll(rest))
            /\ i + Len(ComposeAll(rest)) = Len(stream) + 1
      BY <2>8, <3>1, <3>2
    <3>5. RestStands(k + 1)' <=>
            \E i \in offset'..(Len(stream) + 1) :
              /\ \A h \in offset'..(i - 1) : stream[h].u = "space"
              /\ Holds(stream, i, ComposeAll(rest))
              /\ i + Len(ComposeAll(rest)) = Len(stream) + 1
      BY <1>1, <3>3 DEF RestStands
    <3> QED
      BY <3>4, <3>5
  <2>11. offset' \in 1..(Len(stream) + 1)
    <3> HIDE DEF a, b, at
    <3> QED
      BY <1>5, <2>3, <2>7, <2>8
  <2>12. ParsedUpTo(k + 1)'
    BY <1>1, <2>8, <2>9, <2>10 DEF ParsedUpTo
  <2>13. k + 1 \in 0..Len(sent)
    BY <1>5, <2>2
  <2> QED
    BY <2>8, <2>11, <2>12, <2>13
<1>8. CASE Finish
  <2>1. UNCHANGED <<sent, stream, strict, offset, messages>> /\ result' = "done" /\ at > Len(stream)
    BY <1>8 DEF Finish
  <2>2. k = Len(sent)
    <3> SUFFICES ASSUME k # Len(sent) PROVE FALSE
      OBVIOUS
    <3>1. at \in 1..Len(stream)
      BY <1>6 DEF NextStands
    <3> HIDE DEF at
    <3> QED
      BY <1>5, <2>1, <3>1
  <2>3. ParsedUpTo(k)'
    BY <1>3, <2>1, <2>2 DEF ParsedUpTo, RestStands
  <2> QED
    BY <1>2, <2>1, <2>3
<1>9. CASE UNCHANGED vars
  <2>1. ParsedUpTo(k)'
    BY <1>3, <1>9 DEF vars, ParsedUpTo, RestStands
  <2> QED
    BY <1>2, <1>9, <2>1 DEF vars
<1> QED
  BY <1>7, <1>8, <1>9 DEF Next

\* In every state the messages parsed of a stream with right counts are the
\* first that were sent.
THEOREM StreamMeantSoFar == Spec => []MeantSoFar
<1>1. Init => MeantSoFar
  BY MeantSoFarInit
<1>2. MeantSoFar /\ [Next]_vars => MeantSoFar'
  BY MeantSoFarNext
<1> QED
  BY <1>1, <1>2, PTL DEF Spec

\* Composing and parsing agree: a stream with right counts is accepted in both
\* modes, of either version or mixed, and each attachment is found as it was
\* meant, in its message (compose_attachments, parse_all, parse_all_lenient).
THEOREM StreamComposedIsParsed == Spec => []ComposedIsParsed
<1>1. ASSUME MeantSoFar
      PROVE  ComposedIsParsed
  <2> SUFFICES ASSUME Faithful(sent), stream = ComposeAll(sent)
               PROVE  /\ result # "error"
                      /\ result = "done" =>
                           messages = [j \in DOMAIN sent |-> [body |-> sent[j].body, unread |-> <<>>,
                                                              attachments |-> Meant(sent[j].groups)]]
    BY DEF ComposedIsParsed
  <2>1. sent \in Sendings /\ result # "error" /\ \E k \in 0..Len(sent) : ParsedUpTo(k)
    BY <1>1 DEF MeantSoFar
  <2>2. DOMAIN sent = 1..Len(sent)
    BY <2>1, SendingsOver, LenProperties
  <2>3. ASSUME result = "done"
        PROVE  messages = [j \in DOMAIN sent |-> AsMeant(sent[j])]
    BY <2>1, <2>2, <2>3 DEF ParsedUpTo
  <2> QED
    BY <2>1, <2>3 DEF AsMeant
<1> QED
  BY <1>1, StreamMeantSoFar, PTL
=============================================================================
