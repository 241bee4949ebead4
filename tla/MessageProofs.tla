--------------------------- MODULE MessageProofs ---------------------------
(***************************************************************************)
(* Proofs about the counting of signatures, receipts and weights, for any  *)
(* keys, signatures, thresholds and bounds of the integers: what the loops *)
(* of verify_sigs_static, verify_witness_receipts_static and is_satisfied  *)
(* compute, whatever lists they are given.                                 *)
(*                                                                         *)
(* A loop is a recursive function over the turns it has taken.  Loop says  *)
(* that there is such a function, Turns that what holds at the start and   *)
(* survives a turn holds at the end.                                       *)
(***************************************************************************)
EXTENDS MCMessage, TLAPS, FiniteSetTheorems, SequenceTheorems, WellFoundedInduction

----------------------------------------------------------------------------
(* Loops.                                                                  *)

\* A set of natural numbers that is not empty has a least element.
LEMMA LeastNumber ==
  ASSUME NEW S \in SUBSET Nat, S # {}
  PROVE  \E least \in S : \A n \in S : least <= n
<1>1. PICK least \in S : \A n \in S : <<n, least>> \notin OpToRel(<, Nat)
  BY WFMin, NatLessThanWellFounded, Zenon
<1>2. \A n \in S : ~(n < least)
  BY <1>1 DEF OpToRel
<1> QED
  BY <1>2

\* A set that holds the start of a loop and with a turn the next one holds all.
LEMMA Turns ==
  ASSUME NEW N \in Nat, NEW S, 0 \in S, \A n \in 1..N : n - 1 \in S => n \in S
  PROVE  \A n \in 0..N : n \in S
<1> DEFINE Bad == {n \in 0..N : n \notin S}
<1> SUFFICES ASSUME Bad # {} PROVE FALSE
  OBVIOUS
<1>1. Bad \in SUBSET Nat
  OBVIOUS
<1>2. PICK n \in Bad : \A m \in Bad : n <= m
  BY <1>1, LeastNumber
<1>3. n \in 1..N /\ n - 1 \in 0..N /\ ~(n <= n - 1)
  BY <1>2
<1>4. n - 1 \in S
  BY <1>2, <1>3
<1> QED
  BY <1>2, <1>3, <1>4

\* Each of N turns leads from A to A.
StaysIn(A, N, turn) == \A n \in 1..N : \A a \in A : turn[n][a] \in A

\* What a loop has after each of N turns
RunOf(A, N, first, turn, run) ==
  /\ run \in [0..N -> A]
  /\ run[0] = first
  /\ \A n \in 1..N : run[n] = turn[n][run[n - 1]]

\* A loop whose turns stay in a set can be run for any number of turns.
LEMMA Loop ==
  ASSUME NEW A, NEW N \in Nat, NEW first \in A, NEW turn, StaysIn(A, N, turn)
  PROVE  \E run : RunOf(A, N, first, turn, run)
<1> DEFINE Runs(m, run) == run[0] = first /\ \A n \in 1..m : run[n] = turn[n][run[n - 1]]
           Able == {m \in 0..N : \E run \in [0..m -> A] : Runs(m, run)}
<1>1. 0 \in Able
  <2> DEFINE run == [n \in 0..0 |-> first]
  <2>1. run \in [0..0 -> A] /\ Runs(0, run)
    OBVIOUS
  <2> HIDE DEF run
  <2> QED
    BY <2>1
<1>2. ASSUME NEW m \in 1..N, m - 1 \in Able
      PROVE  m \in Able
  <2>1. PICK run \in [0..(m - 1) -> A] : Runs(m - 1, run)
    BY <1>2
  <2> DEFINE more == [n \in 0..m |-> IF n = m THEN turn[m][run[m - 1]] ELSE run[n]]
  <2>2. m \in Nat /\ m # 0 /\ m - 1 \in 0..(m - 1)
    OBVIOUS
  <2>3. turn[m][run[m - 1]] \in A
    BY <2>2 DEF StaysIn
  <2>4. more \in [0..m -> A]
    BY <2>3
  <2>5. more[m] = turn[m][run[m - 1]] /\ \A n \in 0..(m - 1) : more[n] = run[n]
    BY <2>2
  <2> HIDE DEF more
  <2>6. more[0] = first
    BY <2>1, <2>2, <2>5
  <2>7. ASSUME NEW n \in 1..m
        PROVE  more[n] = turn[n][more[n - 1]]
    <3>1. n - 1 \in 0..(m - 1) /\ more[n - 1] = run[n - 1]
      BY <2>2, <2>5
    <3>2. CASE n = m
      BY <2>5, <3>1, <3>2
    <3>3. CASE n # m
      <4>1. n \in 1..(m - 1) /\ n \in 0..(m - 1)
        BY <2>2, <3>3
      <4> QED
        BY <2>1, <2>5, <3>1, <4>1
    <3> QED
      BY <3>2, <3>3
  <2>8. Runs(m, more)
    BY <2>6, <2>7
  <2> QED
    BY <2>4, <2>8
<1> HIDE DEF Able
<1>3. N \in Able
  BY <1>1, <1>2, Turns
<1> QED
  BY <1>3 DEF Able, RunOf

\* The last element of a list that grows by one is in it, and so is what was.
LEMMA AppendToSet ==
  ASSUME NEW T, NEW s \in Seq(T), NEW e \in T
  PROVE  /\ Append(s, e) \in Seq(T) /\ Len(Append(s, e)) = Len(s) + 1 /\ Len(s) \in Nat
         /\ ToSet(Append(s, e)) = ToSet(s) \cup {e}
<1>1. /\ Append(s, e) \in Seq(T) /\ Len(Append(s, e)) = Len(s) + 1
      /\ \A i \in 1..Len(s) : Append(s, e)[i] = s[i]
      /\ Append(s, e)[Len(s) + 1] = e
      /\ Len(s) \in Nat /\ DOMAIN s = 1..Len(s) /\ DOMAIN Append(s, e) = 1..(Len(s) + 1)
  BY AppendProperties, LenProperties
<1>2. \A i \in 1..(Len(s) + 1) : i \in 1..Len(s) \/ i = Len(s) + 1
  BY <1>1
<1>3. \A i \in 1..Len(s) : i \in 1..(Len(s) + 1)
  BY <1>1
<1>4. Len(s) + 1 \in 1..(Len(s) + 1)
  BY <1>1
<1> QED
  BY <1>1, <1>2, <1>3, <1>4 DEF ToSet

\* A list without repetitions, and the set of what is on it
Once(s) == IsFiniteSet(ToSet(s)) /\ Cardinality(ToSet(s)) = Len(s)

\* It stays one when what is not on it is appended.
LEMMA AppendOnce ==
  ASSUME NEW T, NEW s \in Seq(T), NEW e \in T, Once(s), ~Contains(s, e)
  PROVE  Once(Append(s, e))
<1>1. /\ Len(Append(s, e)) = Len(s) + 1
      /\ ToSet(Append(s, e)) = ToSet(s) \cup {e}
  BY AppendToSet
<1>2. e \notin ToSet(s)
  BY DEF Contains, ToSet
<1>3. /\ IsFiniteSet(ToSet(s) \cup {e})
      /\ Cardinality(ToSet(s) \cup {e}) = Cardinality(ToSet(s)) + 1
  BY <1>2, FS_AddElement DEF Once
<1> QED
  BY <1>1, <1>3 DEF Once
----------------------------------------------------------------------------
(* Signatures.                                                             *)

\* What a loop over a list has: has it failed, and whom it has counted
Counting(T) == [failed : BOOLEAN, counted : Seq(T)]

NoneCounted == [failed |-> FALSE, counted |-> <<>>]

\* Is this the key of verfers that made the signature, or can the two not be parsed?
SigSays(message, verfers, sig, answer) ==
  sig.index \in DOMAIN verfers /\ Verify(verfers[sig.index], message, sig.raw) = answer

\* Taken one turn further, the loop over signatures fails when the signature
\* does and counts its key, once, when it is valid.
LEMMA CountSigTurn ==
  ASSUME NEW T, NEW verfers \in Seq(T), NEW message, NEW acc \in Counting(Nat),
         NEW sig, sig.index \in Nat \ {0}
  PROVE  LET next == CountSig(message, verfers, acc, sig)
         IN  /\ next \in Counting(Nat)
             /\ next.failed <=> acc.failed \/ SigSays(message, verfers, sig, "error")
             /\ ~next.failed =>
                  /\ ToSet(next.counted) = ToSet(acc.counted)
                       \cup {j \in {sig.index} : SigSays(message, verfers, sig, "valid")}
                  /\ Once(acc.counted) => Once(next.counted)
<1> DEFINE next == CountSig(message, verfers, acc, sig)
           result == Verify(verfers[sig.index], message, sig.raw)
<1>0. acc.failed \in BOOLEAN /\ acc.counted \in Seq(Nat)
  BY DEF Counting
<1>1. DOMAIN verfers = 1..Len(verfers) /\ Len(verfers) \in Nat
  BY LenProperties
<1>2. CASE acc.failed
  <2>1. next = acc
    BY <1>2 DEF CountSig
  <2> QED
    BY <1>2, <2>1
<1>3. CASE ~acc.failed /\ sig.index > Len(verfers)
  <2>1. next = acc
    BY <1>3 DEF CountSig
  <2>2. sig.index \notin DOMAIN verfers
    BY <1>1, <1>3
  <2>3. ~SigSays(message, verfers, sig, "error") /\ ~SigSays(message, verfers, sig, "valid")
    BY <2>2 DEF SigSays
  <2> QED
    BY <1>3, <2>1, <2>3
<1>4. CASE ~acc.failed /\ ~(sig.index > Len(verfers))
  <2>1. sig.index \in DOMAIN verfers
    BY <1>1, <1>4
  <2>2. next = [failed |-> result = "error",
                counted |-> IF result = "valid" /\ ~Contains(acc.counted, sig.index)
                            THEN Append(acc.counted, sig.index) ELSE acc.counted]
    BY <1>4 DEF CountSig
  <2>3. /\ SigSays(message, verfers, sig, "error") <=> result = "error"
        /\ SigSays(message, verfers, sig, "valid") <=> result = "valid"
    BY <2>1 DEF SigSays
  <2>4. /\ Append(acc.counted, sig.index) \in Seq(Nat)
        /\ ToSet(Append(acc.counted, sig.index)) = ToSet(acc.counted) \cup {sig.index}
    BY <1>0, AppendToSet
  <2>5. Contains(acc.counted, sig.index) => sig.index \in ToSet(acc.counted)
    BY DEF Contains, ToSet
  <2>6. Once(acc.counted) /\ ~Contains(acc.counted, sig.index) => Once(Append(acc.counted, sig.index))
    BY <1>0, AppendOnce
  <2> HIDE DEF next, result
  <2>7. next.failed = (result = "error")
    BY <2>2
  <2>8. next.counted = IF result = "valid" /\ ~Contains(acc.counted, sig.index)
                       THEN Append(acc.counted, sig.index) ELSE acc.counted
    BY <2>2
  <2>9. next \in Counting(Nat)
    BY <1>0, <2>2, <2>4 DEF Counting
  <2>10. next.failed <=> acc.failed \/ SigSays(message, verfers, sig, "error")
    BY <1>4, <2>3, <2>7
  <2>11. CASE result = "valid" /\ ~Contains(acc.counted, sig.index)
    <3>1. next.counted = Append(acc.counted, sig.index)
      BY <2>8, <2>11
    <3> QED
      BY <2>3, <2>4, <2>6, <2>9, <2>10, <2>11, <3>1 DEF next
  <2>12. CASE ~(result = "valid" /\ ~Contains(acc.counted, sig.index))
    <3>1. next.counted = acc.counted
      BY <2>8, <2>12
    <3> QED
      BY <2>3, <2>5, <2>9, <2>10, <2>12, <3>1 DEF next
  <2> QED
    BY <2>11, <2>12
<1> QED
  BY <1>2, <1>3, <1>4

\* The keys that have made one of the first n signatures
SignedBy(message, list, keys, n) ==
  {j \in DOMAIN keys :
     \E m \in 1..n : list[m].index = j /\ SigSays(message, keys, list[m], "valid")}

\* After n turns of verify_sigs_static: failed when one of the first n signatures
\* fails, and otherwise the keys that made them, each once
SigsCounted(message, list, keys, n, acc) ==
  /\ acc \in Counting(Nat)
  /\ acc.failed <=> \E m \in 1..n : SigSays(message, keys, list[m], "error")
  /\ ~acc.failed => ToSet(acc.counted) = SignedBy(message, list, keys, n) /\ Once(acc.counted)

\* Before the first turn nothing is counted.
LEMMA SigsStart ==
  ASSUME NEW message, NEW list, NEW keys
  PROVE  SigsCounted(message, list, keys, 0, NoneCounted)
<1>1. NoneCounted \in Counting(Nat)
  BY DEF NoneCounted, Counting
<1>2. ToSet(<<>>) = {} /\ Once(<<>>)
  BY FS_EmptySet DEF ToSet, Once
<1>3. SignedBy(message, list, keys, 0) = {}
  BY DEF SignedBy
<1>4. ~\E m \in 1..0 : SigSays(message, keys, list[m], "error")
  OBVIOUS
<1>5. NoneCounted.failed = FALSE /\ NoneCounted.counted = <<>>
  BY DEF NoneCounted
<1> QED
  BY <1>1, <1>2, <1>3, <1>4, <1>5 DEF SigsCounted

\* A turn counts one more signature.
LEMMA SigsTurn ==
  ASSUME NEW T, NEW keys \in Seq(T), NEW message, NEW list, NEW N \in Nat, NEW n \in 1..N,
         list[n].index \in Nat \ {0},
         NEW acc, SigsCounted(message, list, keys, n - 1, acc)
  PROVE  SigsCounted(message, list, keys, n, CountSig(message, keys, acc, list[n]))
<1> DEFINE next == CountSig(message, keys, acc, list[n])
<1>1. acc \in Counting(Nat)
  BY DEF SigsCounted
<1>2. /\ next \in Counting(Nat)
      /\ next.failed <=> acc.failed \/ SigSays(message, keys, list[n], "error")
      /\ ~next.failed =>
           /\ ToSet(next.counted) = ToSet(acc.counted)
                \cup {j \in {list[n].index} : SigSays(message, keys, list[n], "valid")}
           /\ Once(acc.counted) => Once(next.counted)
  BY <1>1, CountSigTurn
<1>3. \A m : m \in 1..n <=> m \in 1..(n - 1) \/ m = n
  OBVIOUS
<1> HIDE DEF next
<1>4. next.failed <=> \E m \in 1..n : SigSays(message, keys, list[m], "error")
  BY <1>2, <1>3 DEF SigsCounted
<1>5. SignedBy(message, list, keys, n) =
        SignedBy(message, list, keys, n - 1)
          \cup {j \in {list[n].index} : SigSays(message, keys, list[n], "valid")}
  <2>1. ASSUME NEW j
        PROVE  j \in SignedBy(message, list, keys, n) <=>
                 \/ j \in SignedBy(message, list, keys, n - 1)
                 \/ j = list[n].index /\ SigSays(message, keys, list[n], "valid")
    <3>1. SigSays(message, keys, list[n], "valid") => list[n].index \in DOMAIN keys
      BY DEF SigSays
    <3> QED
      BY <1>3, <3>1, Zenon DEF SignedBy
  <2> QED
    BY <2>1
<1>6. ~next.failed => ToSet(next.counted) = SignedBy(message, list, keys, n) /\ Once(next.counted)
  BY <1>2, <1>5 DEF SigsCounted
<1> QED
  BY <1>2, <1>4, <1>6 DEF SigsCounted, next

\* What the whole list of signatures comes to (verify_sigs_static)
LEMMA SigsLoop ==
  ASSUME NEW T, NEW keys \in Seq(T), NEW message, NEW S, NEW list \in Seq(S),
         \A sig \in S : sig.index \in Nat \ {0}
  PROVE  LET acc[n \in 0..Len(list)] ==
               IF n = 0 THEN [failed |-> FALSE, counted |-> <<>>]
               ELSE CountSig(message, keys, acc[n - 1], list[n])
         IN  SigsCounted(message, list, keys, Len(list), acc[Len(list)])
<1> DEFINE N == Len(list)
           At(f, n) == IF n = 0 THEN [failed |-> FALSE, counted |-> <<>>]
                       ELSE CountSig(message, keys, f[n - 1], list[n])
           Found == CHOOSE f : f = [n \in 0..N |-> At(f, n)]
           turn == [n \in 1..N |-> [a \in Counting(Nat) |-> CountSig(message, keys, a, list[n])]]
<1>1. N \in Nat /\ \A n \in 1..N : list[n].index \in Nat \ {0}
  BY LenProperties, ElementOfSeq
<1>2. NoneCounted \in Counting(Nat)
  BY DEF NoneCounted, Counting
<1>3. \A n \in 1..N : \A a \in Counting(Nat) :
        turn[n][a] \in Counting(Nat) /\ turn[n][a] = CountSig(message, keys, a, list[n])
  BY <1>1, CountSigTurn
<1>4. PICK run : RunOf(Counting(Nat), N, NoneCounted, turn, run)
  <2>1. StaysIn(Counting(Nat), N, turn)
    BY <1>3 DEF StaysIn
  <2> HIDE DEF N, turn
  <2> QED
    BY <1>1, <1>2, <2>1, Loop
<1>5. run = [n \in 0..N |-> At(run, n)]
  <2>1. \A n \in 0..N : run[n] = At(run, n)
    <3>1. \A n \in 0..N : n = 0 \/ (n \in 1..N /\ n - 1 \in 0..N)
      BY <1>1
    <3> HIDE DEF turn, N
    <3> QED
      BY <1>3, <1>4, <3>1 DEF NoneCounted, RunOf
  <2> HIDE DEF At
  <2> QED
    BY <1>4, <2>1 DEF RunOf
<1>6. Found = [n \in 0..N |-> At(Found, n)]
  <2> HIDE DEF At, N
  <2> QED
    BY <1>5, Zenon
<1> HIDE DEF Found
<1>7. \A n \in 0..N : Found[n] = At(Found, n)
  BY <1>6
<1>8. /\ Found[0] = NoneCounted
      /\ \A n \in 1..N : Found[n] = CountSig(message, keys, Found[n - 1], list[n])
  BY <1>1, <1>7 DEF NoneCounted
<1> DEFINE Held == {n \in 0..N : SigsCounted(message, list, keys, n, Found[n])}
<1>9. 0 \in Held
  BY <1>1, <1>8, SigsStart
<1>10. ASSUME NEW n \in 1..N, n - 1 \in Held
       PROVE  n \in Held
  <2>1. SigsCounted(message, list, keys, n - 1, Found[n - 1])
    BY <1>10
  <2>2. SigsCounted(message, list, keys, n, CountSig(message, keys, Found[n - 1], list[n]))
    BY <1>1, <2>1, SigsTurn
  <2> QED
    BY <1>8, <2>2
<1>11. N \in Held
  <2> HIDE DEF Held, N
  <2>1. \A n \in 0..N : n \in Held
    BY <1>1, <1>9, <1>10, Turns
  <2> QED
    BY <1>1, <2>1
<1> QED
  BY <1>11 DEF Held, Found

----------------------------------------------------------------------------
(* Receipts.                                                               *)

\* Did this backer make this receipt?
ReceiptValid(message, backers, couple) ==
  /\ couple.prefix \in ToSet(backers)
  /\ IsVerfer(couple.prefix)
  /\ Verify(couple.prefix, message, couple.raw) = "valid"

\* Can the receipt of a backer not be parsed?
ReceiptFails(message, backers, couple) ==
  /\ couple.prefix \in ToSet(backers)
  /\ \/ ~IsVerfer(couple.prefix)
     \/ Verify(couple.prefix, message, couple.raw) = "error"

\* Taken one turn further, the loop over receipts counts the backer, once, when
\* its receipt is valid, and fails only on a receipt of a backer.
LEMMA CountReceiptTurn ==
  ASSUME NEW T, NEW backers \in Seq(T), NEW message, NEW acc \in Counting(ToSet(backers)),
         NEW couple
  PROVE  LET next == CountReceipt(message, backers, acc, couple)
         IN  /\ next \in Counting(ToSet(backers))
             /\ acc.failed => next.failed
             /\ next.failed => acc.failed \/ ReceiptFails(message, backers, couple)
             /\ ~next.failed =>
                  /\ \/ couple.prefix \in ToSet(acc.counted) /\ next.counted = acc.counted
                     \/ ToSet(next.counted) = ToSet(acc.counted)
                          \cup {p \in {couple.prefix} : ReceiptValid(message, backers, couple)}
                  /\ Once(acc.counted) => Once(next.counted)
<1> DEFINE next == CountReceipt(message, backers, acc, couple)
           p == couple.prefix
           result == Verify(p, message, couple.raw)
<1>0. acc.failed \in BOOLEAN /\ acc.counted \in Seq(ToSet(backers))
  BY DEF Counting
<1>1. (Contains(backers, p) <=> p \in ToSet(backers))
      /\ (Contains(acc.counted, p) <=> p \in ToSet(acc.counted))
  BY SMTT(30) DEF Contains, ToSet
<1>2. CASE acc.failed
  <2>1. next = acc
    BY <1>2 DEF CountReceipt
  <2> QED
    BY <1>2, <2>1
<1>3. CASE ~acc.failed /\ p \notin ToSet(backers)
  <2>1. next = acc
    BY <1>1, <1>3 DEF CountReceipt
  <2>2. ~ReceiptValid(message, backers, couple)
    BY <1>3 DEF ReceiptValid
  <2> QED
    BY <1>3, <2>1, <2>2
<1>4. CASE ~acc.failed /\ p \in ToSet(backers) /\ p \in ToSet(acc.counted)
  <2>1. next = acc
    BY <1>1, <1>4 DEF CountReceipt
  <2> QED
    BY <1>4, <2>1
<1>5. CASE ~acc.failed /\ p \in ToSet(backers) /\ p \notin ToSet(acc.counted) /\ ~IsVerfer(p)
  <2>1. next = [acc EXCEPT !.failed = TRUE]
    BY <1>1, <1>5 DEF CountReceipt
  <2>2. next \in Counting(ToSet(backers)) /\ next.failed
    BY <1>0, <2>1 DEF Counting
  <2>3. ReceiptFails(message, backers, couple)
    BY <1>5 DEF ReceiptFails
  <2> QED
    BY <2>2, <2>3
<1>6. CASE ~acc.failed /\ p \in ToSet(backers) /\ p \notin ToSet(acc.counted) /\ IsVerfer(p)
  <2>1. next = [failed |-> result = "error",
                counted |-> IF result = "valid" THEN Append(acc.counted, p) ELSE acc.counted]
    BY <1>1, <1>6 DEF CountReceipt
  <2>2. /\ ReceiptFails(message, backers, couple) <=> result = "error"
        /\ ReceiptValid(message, backers, couple) <=> result = "valid"
    BY <1>6 DEF ReceiptFails, ReceiptValid
  <2>3. /\ Append(acc.counted, p) \in Seq(ToSet(backers))
        /\ ToSet(Append(acc.counted, p)) = ToSet(acc.counted) \cup {p}
    BY <1>0, <1>6, AppendToSet
  <2>4. Once(acc.counted) => Once(Append(acc.counted, p))
    BY <1>0, <1>1, <1>6, AppendOnce
  <2> HIDE DEF next, result
  <2>5. next.failed = (result = "error")
    BY <2>1
  <2>6. next.counted = IF result = "valid" THEN Append(acc.counted, p) ELSE acc.counted
    BY <2>1
  <2>7. next \in Counting(ToSet(backers))
    BY <1>0, <2>1, <2>3 DEF Counting
  <2>8. CASE result = "valid"
    BY <1>6, <2>2, <2>3, <2>4, <2>5, <2>6, <2>7, <2>8 DEF next
  <2>9. CASE result # "valid"
    BY <1>6, <2>2, <2>5, <2>6, <2>7, <2>9 DEF next
  <2> QED
    BY <2>8, <2>9
<1> QED
  BY <1>2, <1>3, <1>4, <1>5, <1>6

\* The backers that have made one of the first n receipts
ReceiptedBy(message, list, backers, n) ==
  {p \in ToSet(backers) :
     \E m \in 1..n : list[m].prefix = p /\ ReceiptValid(message, backers, list[m])}

\* After n turns of verify_witness_receipts_static
ReceiptsCounted(message, list, backers, n, acc) ==
  /\ acc \in Counting(ToSet(backers))
  /\ acc.failed => \E m \in 1..n : ReceiptFails(message, backers, list[m])
  /\ ~acc.failed =>
       ToSet(acc.counted) = ReceiptedBy(message, list, backers, n) /\ Once(acc.counted)

\* Before the first turn nothing is counted.
LEMMA ReceiptsStart ==
  ASSUME NEW message, NEW list, NEW backers
  PROVE  ReceiptsCounted(message, list, backers, 0, NoneCounted)
<1>1. NoneCounted \in Counting(ToSet(backers))
  BY DEF NoneCounted, Counting
<1>2. ToSet(<<>>) = {} /\ Once(<<>>)
  BY FS_EmptySet DEF ToSet, Once
<1>3. ReceiptedBy(message, list, backers, 0) = {}
  BY DEF ReceiptedBy
<1>4. NoneCounted.failed = FALSE /\ NoneCounted.counted = <<>>
  BY DEF NoneCounted
<1> QED
  BY <1>1, <1>2, <1>3, <1>4 DEF ReceiptsCounted

\* A turn counts one more receipt.
LEMMA ReceiptsTurn ==
  ASSUME NEW T, NEW backers \in Seq(T), NEW message, NEW list, NEW N \in Nat, NEW n \in 1..N,
         NEW acc, ReceiptsCounted(message, list, backers, n - 1, acc)
  PROVE  ReceiptsCounted(message, list, backers, n, CountReceipt(message, backers, acc, list[n]))
<1> DEFINE next == CountReceipt(message, backers, acc, list[n])
           valid == {p \in {list[n].prefix} : ReceiptValid(message, backers, list[n])}
<1>1. acc \in Counting(ToSet(backers))
  BY DEF ReceiptsCounted
<1>2. /\ next \in Counting(ToSet(backers))
      /\ acc.failed => next.failed
      /\ next.failed => acc.failed \/ ReceiptFails(message, backers, list[n])
      /\ ~next.failed =>
           /\ \/ list[n].prefix \in ToSet(acc.counted) /\ next.counted = acc.counted
              \/ ToSet(next.counted) = ToSet(acc.counted) \cup valid
           /\ Once(acc.counted) => Once(next.counted)
  BY <1>1, CountReceiptTurn
<1>3. \A m : m \in 1..n <=> m \in 1..(n - 1) \/ m = n
  OBVIOUS
<1>4. ReceiptedBy(message, list, backers, n) =
        ReceiptedBy(message, list, backers, n - 1) \cup valid
  <2>1. ASSUME NEW p
        PROVE  p \in ReceiptedBy(message, list, backers, n) <=>
                 \/ p \in ReceiptedBy(message, list, backers, n - 1)
                 \/ p = list[n].prefix /\ ReceiptValid(message, backers, list[n])
    <3>1. ReceiptValid(message, backers, list[n]) => list[n].prefix \in ToSet(backers)
      BY DEF ReceiptValid
    <3> QED
      BY <1>3, <3>1, Zenon DEF ReceiptedBy
  <2> QED
    BY <2>1
<1>5. valid \subseteq {list[n].prefix}
  OBVIOUS
<1> HIDE DEF next, valid
<1>6. next.failed => \E m \in 1..n : ReceiptFails(message, backers, list[m])
  BY <1>2, <1>3 DEF ReceiptsCounted
<1>7. ~next.failed =>
        ToSet(next.counted) = ReceiptedBy(message, list, backers, n) /\ Once(next.counted)
  BY <1>2, <1>4, <1>5 DEF ReceiptsCounted
<1> QED
  BY <1>2, <1>6, <1>7 DEF ReceiptsCounted, next

\* What the whole list of receipts comes to (verify_witness_receipts_static)
LEMMA ReceiptsLoop ==
  ASSUME NEW T, NEW backers \in Seq(T), NEW message, NEW S, NEW list \in Seq(S)
  PROVE  LET acc[n \in 0..Len(list)] ==
               IF n = 0 THEN [failed |-> FALSE, counted |-> <<>>]
               ELSE CountReceipt(message, backers, acc[n - 1], list[n])
         IN  ReceiptsCounted(message, list, backers, Len(list), acc[Len(list)])
<1> DEFINE N == Len(list)
           A == Counting(ToSet(backers))
           At(f, n) == IF n = 0 THEN [failed |-> FALSE, counted |-> <<>>]
                       ELSE CountReceipt(message, backers, f[n - 1], list[n])
           Found == CHOOSE f : f = [n \in 0..N |-> At(f, n)]
           turn == [n \in 1..N |-> [a \in A |-> CountReceipt(message, backers, a, list[n])]]
<1>1. N \in Nat
  BY LenProperties
<1>2. NoneCounted \in A
  BY DEF NoneCounted, Counting
<1>3. \A n \in 1..N : \A a \in A :
        turn[n][a] \in A /\ turn[n][a] = CountReceipt(message, backers, a, list[n])
  BY <1>1, CountReceiptTurn
<1>4. PICK run : RunOf(A, N, NoneCounted, turn, run)
  <2>1. StaysIn(A, N, turn)
    BY <1>3 DEF StaysIn
  <2> HIDE DEF N, turn, A
  <2> QED
    BY <1>1, <1>2, <2>1, Loop
<1>5. run = [n \in 0..N |-> At(run, n)]
  <2>1. \A n \in 0..N : run[n] = At(run, n)
    <3>1. \A n \in 0..N : n = 0 \/ (n \in 1..N /\ n - 1 \in 0..N)
      BY <1>1
    <3> HIDE DEF turn, N, A
    <3> QED
      BY <1>3, <1>4, <3>1 DEF NoneCounted, RunOf
  <2> HIDE DEF At
  <2> QED
    BY <1>4, <2>1 DEF RunOf
<1>6. Found = [n \in 0..N |-> At(Found, n)]
  <2> HIDE DEF At, N
  <2> QED
    BY <1>5, Zenon
<1> HIDE DEF Found
<1>7. \A n \in 0..N : Found[n] = At(Found, n)
  BY <1>6
<1>8. /\ Found[0] = NoneCounted
      /\ \A n \in 1..N : Found[n] = CountReceipt(message, backers, Found[n - 1], list[n])
  BY <1>1, <1>7 DEF NoneCounted
<1> DEFINE Held == {n \in 0..N : ReceiptsCounted(message, list, backers, n, Found[n])}
<1>9. 0 \in Held
  BY <1>1, <1>8, ReceiptsStart
<1>10. ASSUME NEW n \in 1..N, n - 1 \in Held
       PROVE  n \in Held
  <2>1. ReceiptsCounted(message, list, backers, n - 1, Found[n - 1])
    BY <1>10
  <2>2. ReceiptsCounted(message, list, backers, n,
          CountReceipt(message, backers, Found[n - 1], list[n]))
    BY <1>1, <2>1, ReceiptsTurn
  <2> QED
    BY <1>8, <2>2
<1>11. N \in Held
  <2> HIDE DEF Held, N
  <2>1. \A n \in 0..N : n \in Held
    BY <1>1, <1>9, <1>10, Turns
  <2> QED
    BY <1>1, <2>1
<1> QED
  BY <1>11 DEF Held, Found

----------------------------------------------------------------------------
(* Thresholds as they are read.                                            *)

\* A weight that is read has parts in the range of their type.
LEMMA WeightRead ==
  ASSUME NEW text \in JsonText, IsWeight(text)
  PROVE  /\ ParseWeight(text) \in Weight
         /\ ParseWeight(text).num <= U32Max /\ ParseWeight(text).den \in 1..U32Max
         /\ ParseWeight(text) = [num |-> ParseWeight(text).num, den |-> ParseWeight(text).den]
BY U32MaxAssumption DEF JsonText, OtherText, IsWeight, ParseWeight, Weight

\* It is read from what it is written as.
LEMMA WeightReadBack ==
  ASSUME NEW num \in 0..U32Max, NEW den \in 1..U32Max
  PROVE  LET w == [num |-> num, den |-> den]
         IN  IsWeight(ToFractionString(w)) /\ ParseWeight(ToFractionString(w)) = w
<1>1. U32Max \in Nat \ {0}
  BY U32MaxAssumption
<1>2. CASE den = 1
  BY <1>1, <1>2 DEF ToFractionString, Whole, IsWeight, ParseWeight
<1>3. CASE den # 1
  BY <1>1, <1>3 DEF ToFractionString, Fraction, IsWeight, ParseWeight
<1> QED
  BY <1>2, <1>3

\* The clauses that are read: each of at least one weight, in range
ClausesRead(clauses) ==
  /\ clauses \in Seq(Seq(Weight)) /\ clauses # <<>>
  /\ \A c \in DOMAIN clauses :
       /\ clauses[c] # <<>>
       /\ \A n \in DOMAIN clauses[c] :
            /\ clauses[c][n].num \in 0..U32Max /\ clauses[c][n].den \in 1..U32Max
            /\ clauses[c][n] = [num |-> clauses[c][n].num, den |-> clauses[c][n].den]

\* A clause is read weight by weight.
LEMMA ClauseRead ==
  ASSUME NEW value \in JsonClause, IsClause(value)
  PROVE  LET clause == ParseClause(value)
         IN  /\ clause \in Seq(Weight) /\ clause # <<>>
             /\ \A n \in DOMAIN clause :
                  /\ clause[n].num \in 0..U32Max /\ clause[n].den \in 1..U32Max
                  /\ clause[n] = [num |-> clause[n].num, den |-> clause[n].den]
<1> DEFINE clause == ParseClause(value)
<1>1. value.json = "array" /\ value.items # <<>>
  BY DEF IsClause
<1>2. value.items \in Seq(JsonScalar)
  BY <1>1 DEF JsonClause, JsonScalar, JsonNull
<1>3. DOMAIN value.items = 1..Len(value.items) /\ Len(value.items) \in Nat /\ Len(value.items) # 0
  BY <1>1, <1>2, LenProperties, EmptySeq
<1>4. ASSUME NEW n \in DOMAIN value.items
      PROVE  value.items[n].text \in JsonText /\ IsWeight(value.items[n].text)
  <2>1. value.items[n] \in JsonScalar
    BY <1>2, <1>4
  <2>2. value.items[n].json = "string" /\ IsWeight(value.items[n].text)
    BY <1>4 DEF IsClause
  <2> QED
    BY <2>1, <2>2 DEF JsonScalar, JsonNull
<1>5. DOMAIN clause = DOMAIN value.items
      /\ \A n \in DOMAIN clause : clause[n] = ParseWeight(value.items[n].text)
  BY DEF ParseClause
<1> HIDE DEF clause
<1>6. ASSUME NEW n \in DOMAIN clause
      PROVE  /\ clause[n] \in Weight
             /\ clause[n].num \in Nat /\ clause[n].num <= U32Max /\ clause[n].den \in 1..U32Max
             /\ clause[n] = [num |-> clause[n].num, den |-> clause[n].den]
  <2> DEFINE text == value.items[n].text
  <2>1. text \in JsonText /\ IsWeight(text) /\ clause[n] = ParseWeight(text)
    BY <1>4, <1>5
  <2> HIDE DEF text
  <2>2. clause[n] \in Weight => clause[n].num \in Nat
    BY DEF Weight
  <2> QED
    BY <2>1, <2>2, WeightRead
<1>7. clause \in Seq(Weight)
  <2>1. clause = [n \in 1..Len(value.items) |-> clause[n]]
    BY <1>3, <1>5 DEF clause, ParseClause
  <2>2. clause \in [1..Len(value.items) -> Weight]
    BY <1>3, <1>5, <1>6, <2>1
  <2> QED
    BY <1>3, <2>2, SeqDef
<1>8. clause # <<>>
  BY <1>3, <1>5
<1> QED
  BY <1>5, <1>6, <1>7, <1>8, U32MaxAssumption DEF clause

\* A threshold that is read is a positive count in range, or clauses that are read.
LEMMA FieldRead ==
  ASSUME NEW value \in JsonField, FromJsonValue(value) # Invalid
  PROVE  \/ \E k \in 1..U64Max : FromJsonValue(value) = Simple(k)
         \/ \E clauses : ClausesRead(clauses) /\ FromJsonValue(value) = Weighted(clauses)
<1>1. CASE value.json = "string"
  <2>1. value.text.form = "whole" /\ IsCount(value.text.num)
        /\ FromJsonValue(value) = Simple(value.text.num)
    BY <1>1 DEF FromJsonValue
  <2> QED
    BY <2>1 DEF IsCount
<1>2. CASE value.json = "number"
  <2>1. IsCount(value.num) /\ FromJsonValue(value) = Simple(value.num)
    BY <1>2 DEF FromJsonValue
  <2> QED
    BY <2>1 DEF IsCount
<1>3. CASE value.json = "array"
  <2> DEFINE clauses == [c \in DOMAIN value.items |-> ParseClause(value.items[c])]
  <2>1. /\ value.items # <<>>
        /\ \A c \in DOMAIN value.items : IsClause(value.items[c])
        /\ FromJsonValue(value) = Weighted(clauses)
    BY <1>3 DEF FromJsonValue
  <2>2. value.items \in Seq(JsonClause)
    BY <1>3 DEF JsonField, JsonScalar, JsonNull
  <2>3. /\ DOMAIN value.items = 1..Len(value.items) /\ Len(value.items) \in Nat
        /\ Len(value.items) # 0
    BY <2>1, <2>2, LenProperties, EmptySeq
  <2>4. ASSUME NEW c \in DOMAIN value.items
        PROVE  LET clause == clauses[c]
               IN  /\ clause \in Seq(Weight) /\ clause # <<>>
                   /\ \A n \in DOMAIN clause :
                        /\ clause[n].num \in 0..U32Max /\ clause[n].den \in 1..U32Max
                        /\ clause[n] = [num |-> clause[n].num, den |-> clause[n].den]
    <3>1. value.items[c] \in JsonClause /\ IsClause(value.items[c])
      BY <2>1, <2>2
    <3>2. clauses[c] = ParseClause(value.items[c])
      OBVIOUS
    <3> HIDE DEF clauses
    <3> QED
      BY <3>1, <3>2, ClauseRead
  <2>5. clauses \in [1..Len(value.items) -> Seq(Weight)]
    BY <2>3, <2>4
  <2>6. clauses \in Seq(Seq(Weight)) /\ clauses # <<>> /\ DOMAIN clauses = DOMAIN value.items
    <3>1. DOMAIN clauses = DOMAIN value.items /\ clauses # <<>>
      BY <2>3, SMTT(30)
    <3> HIDE DEF clauses
    <3>2. clauses \in Seq(Seq(Weight))
      BY ONLY <2>3, <2>5, SeqDef
    <3> QED
      BY <3>1, <3>2
  <2> HIDE DEF clauses
  <2>7. ClausesRead(clauses)
    BY <2>4, <2>6 DEF ClausesRead
  <2> QED
    BY <2>1, <2>7
<1>4. CASE value.json \notin {"string", "number", "array"}
  BY <1>4 DEF FromJsonValue
<1> QED
  BY <1>1, <1>2, <1>3, <1>4

\* A threshold that was read is a threshold.
LEMMA KtType ==
  ASSUME NEW value \in JsonField, FromJsonValue(value) # Invalid
  PROVE  FromJsonValue(value) \in ThresholdType
<1>1. CASE \E k \in 1..U64Max : FromJsonValue(value) = Simple(k)
  BY <1>1, U64MaxAssumption DEF Simple, ThresholdType
<1>2. CASE \E clauses : ClausesRead(clauses) /\ FromJsonValue(value) = Weighted(clauses)
  BY <1>2 DEF ClausesRead, Weighted, ThresholdType
<1> QED
  BY <1>1, <1>2, FieldRead

\* Clauses are read from what they are written as.
LEMMA ClausesReadBack ==
  ASSUME NEW clauses, ClausesRead(clauses)
  PROVE  FromJsonValue(ToJsonValue(Weighted(clauses))) = Weighted(clauses)
<1> DEFINE items == [c \in DOMAIN clauses |->
                       JsonArray([n \in DOMAIN clauses[c] |->
                                    JsonString(ToFractionString(clauses[c][n]))])]
           read == [c \in DOMAIN items |-> ParseClause(items[c])]
<1>1. ToJsonValue(Weighted(clauses)) = JsonArray(items)
  BY DEF ToJsonValue, Weighted
<1>2. clauses \in Seq(Seq(Weight)) /\ clauses # <<>> /\ DOMAIN clauses # {}
  <2>1. clauses \in Seq(Seq(Weight)) /\ clauses # <<>>
    BY DEF ClausesRead
  <2>2. Len(clauses) \in Nat /\ DOMAIN clauses = 1..Len(clauses) /\ Len(clauses) # 0
    BY <2>1, LenProperties, EmptySeq
  <2>3. 1 \in DOMAIN clauses
    BY <2>2
  <2> QED
    BY <2>1, <2>3
<1>3. DOMAIN items = DOMAIN clauses /\ items # <<>>
  BY <1>2
<1>4. ASSUME NEW c \in DOMAIN clauses
      PROVE  IsClause(items[c]) /\ ParseClause(items[c]) = clauses[c]
  <2> DEFINE clause == clauses[c]
             texts == [n \in DOMAIN clause |-> JsonString(ToFractionString(clause[n]))]
  <2>1. items[c] = JsonArray(texts)
    OBVIOUS
  <2>2. clause \in Seq(Weight) /\ clause # <<>>
    BY <1>2 DEF ClausesRead
  <2>3. Len(clause) \in Nat /\ DOMAIN clause = 1..Len(clause) /\ Len(clause) # 0
    BY <2>2, LenProperties, EmptySeq
  <2>4. texts # <<>> /\ DOMAIN texts = DOMAIN clause
    BY <2>3
  <2>5. ASSUME NEW n \in DOMAIN clause
        PROVE  /\ texts[n].json = "string" /\ IsWeight(texts[n].text)
               /\ ParseWeight(texts[n].text) = clause[n]
    <3>1. texts[n].json = "string" /\ texts[n].text = ToFractionString(clause[n])
      BY DEF JsonString
    <3>2. /\ clause[n].num \in 0..U32Max /\ clause[n].den \in 1..U32Max
          /\ clause[n] = [num |-> clause[n].num, den |-> clause[n].den]
      BY DEF ClausesRead
    <3> DEFINE num == clause[n].num
               den == clause[n].den
    <3> HIDE DEF texts, clause
    <3>3. clause[n] = [num |-> num, den |-> den]
      BY <3>2
    <3> HIDE DEF num, den
    <3>4. num \in 0..U32Max /\ den \in 1..U32Max
      BY <3>2 DEF num, den
    <3> QED
      BY <3>1, <3>3, <3>4, WeightReadBack
  <2>6. items[c].json = "array" /\ items[c].items = texts
    BY <2>1 DEF JsonArray
  <2> HIDE DEF items
  <2>7. IsClause(items[c])
    <3> HIDE DEF texts
    <3> QED
      BY <2>4, <2>5, <2>6 DEF IsClause
  <2>8. ParseClause(items[c]) = clause
    <3>1. clause = [n \in DOMAIN clause |-> clause[n]]
      BY <2>2
    <3> HIDE DEF texts, clause
    <3> QED
      BY <2>4, <2>5, <2>6, <3>1 DEF ParseClause
  <2> QED
    BY <2>7, <2>8
<1>5. read = clauses
  <2>1. clauses = [c \in DOMAIN clauses |-> clauses[c]]
    BY <1>2
  <2> HIDE DEF items
  <2> QED
    BY <1>3, <1>4, <2>1
<1> HIDE DEF items
<1>6. FromJsonValue(JsonArray(items)) = Weighted(read)
  BY <1>3, <1>4 DEF FromJsonValue, JsonArray
<1> QED
  BY <1>1, <1>5, <1>6

\* A threshold that is read is read again from what it is written as.
LEMMA ReadBack ==
  ASSUME NEW value \in JsonField, FromJsonValue(value) # Invalid
  PROVE  FromJsonValue(ToJsonValue(FromJsonValue(value))) = FromJsonValue(value)
<1>1. CASE \E k \in 1..U64Max : FromJsonValue(value) = Simple(k)
  <2>1. PICK k \in 1..U64Max : FromJsonValue(value) = Simple(k)
    BY <1>1
  <2>2. ToJsonValue(Simple(k)) = JsonString(Whole(k))
    BY DEF ToJsonValue, Simple
  <2>3. FromJsonValue(JsonString(Whole(k))) = Simple(k)
    BY DEF FromJsonValue, JsonString, Whole, IsCount
  <2> QED
    BY <2>1, <2>2, <2>3
<1>2. CASE \E clauses : ClausesRead(clauses) /\ FromJsonValue(value) = Weighted(clauses)
  BY <1>2, ClausesReadBack
<1> QED
  BY <1>1, <1>2, FieldRead

----------------------------------------------------------------------------
(* The invariant: what was made, and lists of what was attached, with       *)
(* signatures at places.                                                   *)

\* The signatures that may be attached in a case
MayAttach(c) == AnySigs(c) \cup {SignIndexed(c.signers[j], Bytes, j, TRUE) : j \in DOMAIN c.signers}

\* What is made in a case: by Hab, or by Serder alone
Made(c) ==
  IF c.maker = "hab" THEN SerderNew(ComputeSaid(FixVersionString(c.draft)), "JSON")
  ELSE SerderNew(c.draft, c.kind)

MessageOK ==
  /\ case \in Cases
  /\ event = NotMade \/ event = Made(case)
  /\ sigs \in Seq(MayAttach(case))
  /\ couples \in Seq(AnyCouples(case))

\* Every signature that may be attached is at a place from 1.
LEMMA AttachPlaces ==
  ASSUME NEW c \in Cases, NEW sig \in MayAttach(c)
  PROVE  sig.index \in Nat \ {0}
<1>1. CASE sig \in AnySigs(c)
  BY <1>1, CasesAssumption
<1>2. CASE \E j \in DOMAIN c.signers : sig = SignIndexed(c.signers[j], Bytes, j, TRUE)
  <2>1. PICK j \in DOMAIN c.signers : sig = SignIndexed(c.signers[j], Bytes, j, TRUE)
    BY <1>2
  <2>2. c.signers \in Seq(ToSet(c.signers))
    BY CasesAssumption
  <2>3. DOMAIN c.signers = 1..Len(c.signers) /\ Len(c.signers) \in Nat
    BY <2>2, LenProperties
  <2>4. j \in Nat \ {0}
    BY <2>3
  <2> QED
    BY <2>1, <2>4 DEF SignIndexed
<1> QED
  BY <1>1, <1>2 DEF MayAttach

\* The lists stay lists, whatever is attached in whatever order.
LEMMA MessageInvariant == Spec => []MessageOK
<1>1. Init => MessageOK
  BY DEF Init, MessageOK
<1>2. MessageOK /\ [Next]_vars => MessageOK'
  <2> SUFFICES ASSUME MessageOK, [Next]_vars
               PROVE  MessageOK'
    OBVIOUS
  <2>1. CASE Make
    BY <2>1 DEF Make, MessageOK, Made
  <2>2. ASSUME NEW sig \in MayAttach(case), Attach(sig)
        PROVE  MessageOK'
    BY <2>2, AppendProperties DEF Attach, MessageOK
  <2>3. CASE AttachOwn
    <3>1. PICK j \in DOMAIN case.signers : Attach(OwnSig(j))
      BY <2>3 DEF AttachOwn
    <3>2. OwnSig(j) \in MayAttach(case)
      BY DEF OwnSig, MayAttach
    <3> QED
      BY <2>2, <3>1, <3>2
  <2>4. CASE AttachAny
    BY <2>2, <2>4 DEF AttachAny, MayAttach
  <2>5. CASE AttachCouple
    BY <2>5, AppendProperties DEF AttachCouple, MessageOK
  <2>6. CASE UNCHANGED vars
    BY <2>6 DEF vars, MessageOK
  <2> QED
    BY <2>1, <2>3, <2>4, <2>5, <2>6 DEF Next
<1> QED
  BY <1>1, <1>2, PTL DEF Spec

\* The lists of a case
LEMMA CaseLists ==
  ASSUME NEW c \in Cases
  PROVE  /\ c.keys \in Seq(ToSet(c.keys)) /\ c.backers \in Seq(ToSet(c.backers))
         /\ c.field \in JsonField /\ c.bt \in Nat
BY CasesAssumption

\* A threshold that was read and is written again is read as the same threshold
\* (Threshold::from_json_value and to_json_value, Weight::parse and
\* to_fraction_string).
THEOREM MessageThresholdReadBack == Spec => []ThresholdReadBack
<1>1. MessageOK => ThresholdReadBack
  BY CaseLists, ReadBack DEF MessageOK, ThresholdReadBack, Kt
<1> QED
  BY <1>1, MessageInvariant, PTL

----------------------------------------------------------------------------
(* Counting.                                                               *)

\* A list without repetitions counts as the set of what is on it.
LEMMA CountedOnce ==
  ASSUME NEW threshold \in ThresholdType, NEW counted, Once(counted), NEW totalKeys
  PROVE  IsSatisfiedBy(threshold, counted, totalKeys)
           <=> IsSatisfied(threshold, ToSet(counted), totalKeys)
<1>1. CASE threshold.kind = "simple"
  BY <1>1 DEF IsSatisfiedBy, IsSatisfied, Once
<1>2. CASE threshold.kind # "simple"
  BY <1>2 DEF IsSatisfiedBy
<1> QED
  BY <1>1, <1>2

\* The keys that made one of the signatures are those with a valid signature.
LEMMA SignedByAll ==
  ASSUME MessageOK
  PROVE  /\ SignedBy(Bytes, sigs, case.keys, Len(sigs)) = ValidIndices
         /\ (\E n \in 1..Len(sigs) : SigSays(Bytes, case.keys, sigs[n], "error"))
              <=> \E n \in DOMAIN sigs :
                    sigs[n].index \in DOMAIN case.keys
                    /\ Verify(case.keys[sigs[n].index], Bytes, sigs[n].raw) = "error"
<1>1. DOMAIN sigs = 1..Len(sigs)
  BY LenProperties DEF MessageOK
<1>2. ASSUME NEW j \in DOMAIN case.keys, NEW n \in DOMAIN sigs
      PROVE  sigs[n].index = j =>
               (SigSays(Bytes, case.keys, sigs[n], "valid")
                  <=> Verify(case.keys[j], Bytes, sigs[n].raw) = "valid")
  BY <1>2 DEF SigSays
<1>3. SignedBy(Bytes, sigs, case.keys, Len(sigs)) = ValidIndices
  BY <1>1, <1>2, Zenon DEF SignedBy, ValidIndices
<1> QED
  BY <1>1, <1>3 DEF SigSays

\* The answer of verify_sigs_static is that of the set of the keys that signed.
LEMMA SigsAnswer ==
  ASSUME MessageOK, Kt # Invalid
  PROVE  VerifySigsStatic(Bytes, sigs, case.keys, Kt) = "Ok"
           <=> ~SomeSigFails /\ IsSatisfied(Kt, ValidIndices, Len(case.keys))
<1> DEFINE acc[n \in 0..Len(sigs)] ==
             IF n = 0 THEN [failed |-> FALSE, counted |-> <<>>]
             ELSE CountSig(Bytes, case.keys, acc[n - 1], sigs[n])
           end == acc[Len(sigs)]
<1>1. SigsCounted(Bytes, sigs, case.keys, Len(sigs), end)
  <2>1. /\ case.keys \in Seq(ToSet(case.keys))
        /\ sigs \in Seq(MayAttach(case))
        /\ \A sig \in MayAttach(case) : sig.index \in Nat \ {0}
    BY CaseLists, AttachPlaces DEF MessageOK
  <2> QED
    BY <2>1, SigsLoop, Zenon
<1>2. Kt \in ThresholdType
  BY CaseLists, KtType DEF MessageOK, Kt
<1>3. VerifySigsStatic(Bytes, sigs, case.keys, Kt) =
        IF (\E n \in DOMAIN case.keys : ~IsVerfer(case.keys[n])) \/ end.failed THEN "Crypto"
        ELSE IF IsSatisfiedBy(Kt, end.counted, Len(case.keys)) THEN "Ok"
        ELSE "ThresholdNotMet"
  BY DEF VerifySigsStatic
<1> HIDE DEF end
<1>4. SomeSigFails <=> (\E n \in DOMAIN case.keys : ~IsVerfer(case.keys[n])) \/ end.failed
  BY <1>1, SignedByAll, Zenon DEF SomeSigFails, SigsCounted
<1>5. ~end.failed => (IsSatisfiedBy(Kt, end.counted, Len(case.keys))
                        <=> IsSatisfied(Kt, ValidIndices, Len(case.keys)))
  BY <1>1, <1>2, SignedByAll, CountedOnce DEF SigsCounted
<1> QED
  BY <1>3, <1>4, <1>5

\* Whatever signatures come with an event, in whatever order and however often,
\* it is accepted exactly when nothing fails to parse and the keys that signed
\* reach the threshold (verify_sigs_static, is_satisfied).
THEOREM MessageSigsCountedOnce == Spec => []SigsCountedOnce
<1>1. MessageOK => SigsCountedOnce
  <2> SUFFICES ASSUME MessageOK, event # NotMade
               PROVE  Accepted <=> ~SomeSigFails /\ IsSatisfied(Kt, ValidIndices, Len(case.keys))
    BY DEF SigsCountedOnce
  <2>1. CASE Kt = Invalid
    BY <2>1 DEF Accepted, IsSatisfied, Invalid
  <2>2. CASE Kt # Invalid
    BY <2>2, SigsAnswer DEF Accepted
  <2> QED
    BY <2>1, <2>2
<1> QED
  BY <1>1, MessageInvariant, PTL

\* What is on a list is a finite set.
LEMMA ListedFinite ==
  ASSUME NEW T, NEW s \in Seq(T)
  PROVE  IsFiniteSet(ToSet(s))
<1> DEFINE place == [n \in 1..Len(s) |-> s[n]]
<1>1. Len(s) \in Nat /\ DOMAIN s = 1..Len(s)
  BY LenProperties
<1>2. IsFiniteSet(1..Len(s))
  BY <1>1, FS_Interval, 1 \in Int /\ Len(s) \in Int
<1>3. place \in Surjection(1..Len(s), ToSet(s))
  BY <1>1 DEF Surjection, ToSet
<1> HIDE DEF place
<1> QED
  BY <1>2, <1>3, FS_Surjection

\* The backers that made one of the receipts are those with a valid receipt.
LEMMA ReceiptedByAll ==
  ASSUME MessageOK
  PROVE  ReceiptedBy(Bytes, couples, case.backers, Len(couples)) = ValidBackers
<1>1. DOMAIN couples = 1..Len(couples)
  BY LenProperties DEF MessageOK
<1>2. ASSUME NEW p \in ToSet(case.backers), NEW n \in DOMAIN couples, couples[n].prefix = p
      PROVE  ReceiptValid(Bytes, case.backers, couples[n])
               <=> IsVerfer(p) /\ Verify(p, Bytes, couples[n].raw) = "valid"
  BY <1>2 DEF ReceiptValid
<1> QED
  BY <1>1, <1>2, Zenon DEF ReceiptedBy, ValidBackers

\* Whatever receipts come with an event, the witness threshold counts each backer
\* once; and it is reached whenever enough backers have signed, unless the receipt
\* of a backer cannot be parsed (verify_witness_receipts_static).
THEOREM MessageReceiptsCountedOnce == Spec => []ReceiptsCountedOnce
<1>1. MessageOK => ReceiptsCountedOnce
  <2> SUFFICES ASSUME MessageOK
               PROVE  /\ Receipted = "Ok" => Cardinality(ValidBackers) >= case.bt
                      /\ (/\ Cardinality(ValidBackers) >= case.bt
                          /\ \A n \in DOMAIN couples :
                               couples[n].prefix \in ToSet(case.backers) =>
                                 /\ IsVerfer(couples[n].prefix)
                                 /\ Verify(couples[n].prefix, Bytes, couples[n].raw) # "error")
                         => Receipted = "Ok"
    BY DEF ReceiptsCountedOnce
  <2> DEFINE acc[n \in 0..Len(couples)] ==
               IF n = 0 THEN [failed |-> FALSE, counted |-> <<>>]
               ELSE CountReceipt(Bytes, case.backers, acc[n - 1], couples[n])
             end == acc[Len(couples)]
  <2>1. case.backers \in Seq(ToSet(case.backers)) /\ case.bt \in Nat
    BY CaseLists DEF MessageOK
  <2>2. ReceiptsCounted(Bytes, couples, case.backers, Len(couples), end)
    <3>1. couples \in Seq(AnyCouples(case))
      BY DEF MessageOK
    <3> QED
      BY <2>1, <3>1, ReceiptsLoop, Zenon
  <2>3. Receipted = IF case.bt = 0 THEN "Ok"
                    ELSE IF end.failed THEN "Crypto"
                    ELSE IF Len(end.counted) >= case.bt THEN "Ok"
                    ELSE "Validation"
    BY DEF Receipted, VerifyWitnessReceiptsStatic
  <2> HIDE DEF end
  <2>4. Cardinality(ValidBackers) \in Nat
    <3>1. ValidBackers \subseteq ToSet(case.backers)
      BY DEF ValidBackers
    <3> QED
      BY <2>1, <3>1, ListedFinite, FS_Subset, FS_CardinalityType
  <2>5. ~end.failed => Cardinality(ValidBackers) = Len(end.counted)
    BY <2>2, ReceiptedByAll DEF ReceiptsCounted, Once
  <2>6. end.failed => \E n \in DOMAIN couples : ReceiptFails(Bytes, case.backers, couples[n])
    <3>1. DOMAIN couples = 1..Len(couples)
      BY LenProperties DEF MessageOK
    <3> QED
      BY <2>2, <3>1 DEF ReceiptsCounted
  <2>7. Receipted = "Ok" => Cardinality(ValidBackers) >= case.bt
    BY <2>1, <2>3, <2>4, <2>5
  <2>8. ASSUME Cardinality(ValidBackers) >= case.bt,
               \A n \in DOMAIN couples : ~ReceiptFails(Bytes, case.backers, couples[n])
        PROVE  Receipted = "Ok"
    BY <2>3, <2>5, <2>6, <2>8
  <2> QED
    BY <2>7, <2>8 DEF ReceiptFails
<1> QED
  BY <1>1, MessageInvariant, PTL

----------------------------------------------------------------------------
(* Sums of weights.                                                        *)

Positive == Nat \ {0}

\* Products of positive numbers are positive.
LEMMA TimesPositive ==
  ASSUME NEW a \in Positive, NEW b \in Positive
  PROVE  a * b \in Positive
BY DEF Positive

\* The weights of a clause
LEMMA WeightAt ==
  ASSUME NEW clause \in Seq(Weight)
  PROVE  /\ Len(clause) \in Nat /\ DOMAIN clause = 1..Len(clause)
         /\ \A n \in 1..Len(clause) : clause[n].num \in Nat /\ clause[n].den \in Positive
<1>1. Len(clause) \in Nat /\ DOMAIN clause = 1..Len(clause)
  BY LenProperties
<1>2. \A n \in 1..Len(clause) : clause[n] \in Weight
  BY ElementOfSeq
<1> QED
  BY <1>1, <1>2 DEF Weight, Positive

\* The products of the first denominators
LEMMA ProductsLoop ==
  ASSUME NEW clause \in Seq(Weight)
  PROVE  /\ \A n \in 0..Len(clause) : Products(clause)[n] \in Positive
         /\ Products(clause)[0] = 1
         /\ \A n \in 1..Len(clause) :
              Products(clause)[n] = Products(clause)[n - 1] * clause[n].den
<1> DEFINE N == Len(clause)
           At(f, n) == IF n = 0 THEN 1 ELSE f[n - 1] * clause[n].den
           Found == CHOOSE f : f = [n \in 0..N |-> At(f, n)]
           turn == [n \in 1..N |-> [a \in Positive |-> a * clause[n].den]]
<1>1. N \in Nat /\ (\A n \in 1..N : clause[n].den \in Positive) /\ 1 \in Positive
  BY WeightAt DEF Positive
<1>2. \A n \in 1..N : \A a \in Positive :
        turn[n][a] = a * clause[n].den /\ a * clause[n].den \in Positive
  BY <1>1, TimesPositive
<1>3. PICK run : RunOf(Positive, N, 1, turn, run)
  <2>1. StaysIn(Positive, N, turn)
    BY <1>2 DEF StaysIn
  <2> HIDE DEF N, turn
  <2> QED
    BY <1>1, <2>1, Loop
<1>4. run = [n \in 0..N |-> At(run, n)]
  <2>1. \A n \in 0..N : n = 0 \/ (n \in 1..N /\ n - 1 \in 0..N)
    BY <1>1
  <2> HIDE DEF turn, N
  <2>2. \A n \in 0..N : run[n] = At(run, n)
    BY <1>2, <1>3, <2>1 DEF RunOf
  <2> HIDE DEF At
  <2> QED
    BY <1>3, <2>2 DEF RunOf
<1>5. Found = [n \in 0..N |-> At(Found, n)]
  <2> HIDE DEF At, N
  <2> QED
    BY <1>4, Zenon
<1>6. Products(clause) = Found
  BY DEF Products
<1> HIDE DEF Found
<1>7. \A n \in 0..N : Found[n] = At(Found, n)
  BY <1>5
<1>8. Found[0] = 1 /\ \A n \in 1..N : Found[n] = Found[n - 1] * clause[n].den
  BY <1>1, <1>7
<1> DEFINE Held == {n \in 0..N : Found[n] \in Positive}
<1>9. \A n \in 0..N : n \in Held
  <2>1. 0 \in Held
    BY <1>1, <1>8
  <2>2. ASSUME NEW n \in 1..N, n - 1 \in Held
        PROVE  n \in Held
    <3>1. Found[n - 1] * clause[n].den \in Positive
      BY <1>1, <2>2, TimesPositive
    <3> QED
      BY <1>8, <3>1
  <2> HIDE DEF Held, N
  <2> QED
    BY <1>1, <2>1, <2>2, Turns
<1> QED
  BY <1>6, <1>8, <1>9

\* The sums of the first numbers of a list
LEMMA SumsLoop ==
  ASSUME NEW numbers \in Seq(Nat)
  PROVE  /\ \A n \in 0..Len(numbers) : Sums(numbers)[n] \in Nat
         /\ Sums(numbers)[0] = 0
         /\ \A n \in 1..Len(numbers) : Sums(numbers)[n] = Sums(numbers)[n - 1] + numbers[n]
<1> DEFINE N == Len(numbers)
           At(f, n) == IF n = 0 THEN 0 ELSE f[n - 1] + numbers[n]
           Found == CHOOSE f : f = [n \in 0..N |-> At(f, n)]
           turn == [n \in 1..N |-> [a \in Nat |-> a + numbers[n]]]
<1>1. N \in Nat /\ \A n \in 1..N : numbers[n] \in Nat
  BY LenProperties, ElementOfSeq
<1>2. \A n \in 1..N : \A a \in Nat : turn[n][a] = a + numbers[n] /\ a + numbers[n] \in Nat
  BY <1>1
<1>3. PICK run : RunOf(Nat, N, 0, turn, run)
  <2>1. StaysIn(Nat, N, turn)
    BY <1>2 DEF StaysIn
  <2> HIDE DEF N, turn
  <2> QED
    BY <1>1, <2>1, Loop
<1>4. run = [n \in 0..N |-> At(run, n)]
  <2>1. \A n \in 0..N : n = 0 \/ (n \in 1..N /\ n - 1 \in 0..N)
    BY <1>1
  <2> HIDE DEF turn, N
  <2>2. \A n \in 0..N : run[n] = At(run, n)
    BY <1>2, <1>3, <2>1 DEF RunOf
  <2> HIDE DEF At
  <2> QED
    BY <1>3, <2>2 DEF RunOf
<1>5. Found = [n \in 0..N |-> At(Found, n)]
  <2> HIDE DEF At, N
  <2> QED
    BY <1>4, Zenon
<1>6. Sums(numbers) = Found
  BY DEF Sums
<1> HIDE DEF Found
<1>7. \A n \in 0..N : Found[n] = At(Found, n)
  BY <1>5
<1>8. Found[0] = 0 /\ \A n \in 1..N : Found[n] = Found[n - 1] + numbers[n]
  BY <1>1, <1>7
<1> DEFINE Held == {n \in 0..N : Found[n] \in Nat}
<1>9. \A n \in 0..N : n \in Held
  <2>1. 0 \in Held
    BY <1>1, <1>8
  <2>2. ASSUME NEW n \in 1..N, n - 1 \in Held
        PROVE  n \in Held
    <3>1. Found[n - 1] \in Nat /\ numbers[n] \in Nat
      BY <1>1, <2>2
    <3> QED
      BY <1>8, <3>1
  <2> HIDE DEF Held, N
  <2> QED
    BY <1>1, <2>1, <2>2, Turns
<1> QED
  BY <1>6, <1>8, <1>9

\* There are n numbers from 1 to n.
LEMMA CountTo ==
  ASSUME NEW n \in Nat
  PROVE  IsFiniteSet(1..n) /\ Cardinality(1..n) = n
<1>1. n \in Int /\ 1 \in Int
  OBVIOUS
<1>2. IsFiniteSet(1..n) /\ Cardinality(1..n) = IF 1 > n THEN 0 ELSE n - 1 + 1
  BY <1>1, FS_Interval, Zenon
<1> QED
  BY <1>2

\* Labelling the elements of a set does not change how many they are.
LEMMA LabelledCount ==
  ASSUME NEW T, IsFiniteSet(T), NEW x
  PROVE  IsFiniteSet({x} \X T) /\ Cardinality({x} \X T) = Cardinality(T)
<1>1. IsFiniteSet({x}) /\ Cardinality({x}) = 1
  BY FS_Singleton
<1>2. Cardinality(T) \in Nat
  BY FS_CardinalityType
<1>3. IsFiniteSet({x} \X T) /\ Cardinality({x} \X T) = Cardinality({x}) * Cardinality(T)
  BY <1>1, FS_Product, Zenon
<1> QED
  BY <1>1, <1>2, <1>3

\* Of disjoint sets the numbers of elements add up.
LEMMA DisjointCount ==
  ASSUME NEW S, IsFiniteSet(S), NEW T, IsFiniteSet(T), S \cap T = {}
  PROVE  /\ IsFiniteSet(S \cup T)
         /\ Cardinality(S \cup T) = Cardinality(S) + Cardinality(T)
<1>1. Cardinality(S \cap T) = 0
  BY FS_EmptySet
<1>2. Cardinality(S) \in Nat /\ Cardinality(T) \in Nat
  BY FS_CardinalityType
<1>3. /\ IsFiniteSet(S \cup T)
      /\ Cardinality(S \cup T) = Cardinality(S) + Cardinality(T) - Cardinality(S \cap T)
  BY FS_Union, Zenon
<1> DEFINE common == Cardinality(S \cap T)
           both == Cardinality(S \cup T)
           one == Cardinality(S)
           other == Cardinality(T)
<1>4. common = 0 /\ one \in Nat /\ other \in Nat /\ both = one + other - common
  BY <1>1, <1>2, <1>3
<1> HIDE DEF common, both, one, other
<1>5. both = one + other
  BY <1>4
<1> QED
  BY <1>3, <1>5 DEF both, one, other

\* The keys that the clauses before a clause stand for
LEMMA KeysBeforeLoop ==
  ASSUME NEW clauses \in Seq(Seq(Weight)), NEW N \in 0..Len(clauses)
  PROVE  KeysBefore(clauses, N + 1)
           = Cardinality(UNION {{b} \X DOMAIN clauses[b] : b \in 1..N})
<1> DEFINE At(f, n) == IF n = 0 THEN 0 ELSE f[n - 1] + Len(clauses[n])
           Found == CHOOSE f : f = [n \in 0..N |-> At(f, n)]
           turn == [n \in 1..N |-> [a \in Nat |-> a + Len(clauses[n])]]
           Places(n) == UNION {{b} \X DOMAIN clauses[b] : b \in 1..n}
<1>1. /\ N \in Nat
      /\ \A n \in 1..N : Len(clauses[n]) \in Nat /\ DOMAIN clauses[n] = 1..Len(clauses[n])
  <2>1. Len(clauses) \in Nat /\ \A n \in 1..Len(clauses) : clauses[n] \in Seq(Weight)
    BY LenProperties, ElementOfSeq
  <2>2. \A n \in 1..N : n \in 1..Len(clauses)
    BY <2>1
  <2> QED
    BY <2>1, <2>2, WeightAt
<1>2. \A n \in 1..N : \A a \in Nat :
        turn[n][a] = a + Len(clauses[n]) /\ a + Len(clauses[n]) \in Nat
  BY <1>1
<1>3. PICK run : RunOf(Nat, N, 0, turn, run)
  <2>1. StaysIn(Nat, N, turn)
    BY <1>2 DEF StaysIn
  <2> HIDE DEF turn
  <2> QED
    BY <1>1, <2>1, Loop
<1>4. run = [n \in 0..N |-> At(run, n)]
  <2>1. \A n \in 0..N : n = 0 \/ (n \in 1..N /\ n - 1 \in 0..N)
    BY <1>1
  <2> HIDE DEF turn
  <2>2. \A n \in 0..N : run[n] = At(run, n)
    BY <1>2, <1>3, <2>1 DEF RunOf
  <2> HIDE DEF At
  <2> QED
    BY <1>3, <2>2 DEF RunOf
<1>5. Found = [n \in 0..N |-> At(Found, n)]
  <2> HIDE DEF At
  <2> QED
    BY <1>4, Zenon
<1>6. KeysBefore(clauses, N + 1) = Found[N]
  <2>1. N + 1 - 1 = N
    BY <1>1
  <2> QED
    BY <2>1 DEF KeysBefore
<1> HIDE DEF Found
<1>7. \A n \in 0..N : Found[n] = At(Found, n)
  BY <1>5
<1>8. Found[0] = 0 /\ \A n \in 1..N : Found[n] = Found[n - 1] + Len(clauses[n])
  BY <1>1, <1>7
<1> DEFINE Held == {n \in 0..N : IsFiniteSet(Places(n)) /\ Cardinality(Places(n)) = Found[n]}
<1>9. 0 \in Held
  <2>1. Places(0) = {}
    OBVIOUS
  <2>2. IsFiniteSet({}) /\ Cardinality({}) = 0 /\ 0 \in 0..N
    BY <1>1, FS_EmptySet
  <2> HIDE DEF Places
  <2> QED
    BY <1>8, <2>1, <2>2
<1>10. ASSUME NEW n \in 1..N, n - 1 \in Held
       PROVE  n \in Held
  <2> DEFINE new == {n} \X DOMAIN clauses[n]
  <2>1. IsFiniteSet(Places(n - 1)) /\ Cardinality(Places(n - 1)) = Found[n - 1]
    BY <1>10
  <2>2. Places(n) = Places(n - 1) \cup new
    <3>1. \A b : b \in 1..n <=> b \in 1..(n - 1) \/ b = n
      BY <1>1
    <3>2. ASSUME NEW x
          PROVE  x \in Places(n) <=> x \in Places(n - 1) \/ x \in new
      BY <3>1, Zenon
    <3> QED
      BY <3>2
  <2>3. Places(n - 1) \cap new = {}
    <3> SUFFICES ASSUME NEW x \in Places(n - 1), x \in new PROVE FALSE
      OBVIOUS
    <3>1. PICK b \in 1..(n - 1) : x \in {b} \X DOMAIN clauses[b]
      OBVIOUS
    <3>2. x[1] = b /\ x[1] = n
      BY <3>1
    <3> QED
      BY <1>1, <3>2
  <2>4. IsFiniteSet(new) /\ Cardinality(new) = Len(clauses[n])
    <3>1. DOMAIN clauses[n] = 1..Len(clauses[n]) /\ Len(clauses[n]) \in Nat
      BY <1>1
    <3>2. IsFiniteSet(DOMAIN clauses[n]) /\ Cardinality(DOMAIN clauses[n]) = Len(clauses[n])
      BY <3>1, CountTo
    <3> QED
      BY <3>2, LabelledCount
  <2> HIDE DEF Places, new
  <2>5. /\ IsFiniteSet(Places(n))
        /\ Cardinality(Places(n)) = Cardinality(Places(n - 1)) + Cardinality(new)
    BY <2>1, <2>2, <2>3, <2>4, DisjointCount
  <2> QED
    BY <1>8, <2>1, <2>4, <2>5
<1>11. N \in Held
  <2> HIDE DEF Held
  <2>1. \A n \in 0..N : n \in Held
    BY <1>1, <1>9, <1>10, Turns
  <2> QED
    BY <1>1, <2>1
<1> QED
  BY <1>6, <1>11

\* A sum of weights: a fraction, and whether it has left the range of its type
Fractions == [num : Nat, den : Positive, overflow : BOOLEAN]

NoWeight == [num |-> 0, den |-> 1, overflow |-> FALSE]

\* Adding a weight to a fraction gives a fraction.
LEMMA AddWeightType ==
  ASSUME NEW total \in Fractions, NEW w, w.num \in Nat, w.den \in Positive
  PROVE  /\ AddWeight(total, w) \in Fractions
         /\ AddWeight(total, w).num = total.num * w.den + w.num * total.den
         /\ AddWeight(total, w).den = total.den * w.den
         /\ AddWeight(total, w).overflow <=>
              \/ total.overflow
              \/ AddWeight(total, w).num > U64Max
              \/ AddWeight(total, w).den > U64Max
<1>1. total.num \in Nat /\ total.den \in Positive
  BY DEF Fractions
<1>2. /\ total.den * w.den \in Positive
      /\ total.num * w.den \in Nat /\ w.num * total.den \in Nat
  BY <1>1, TimesPositive DEF Positive
<1> DEFINE num == total.num * w.den + w.num * total.den
           den == total.den * w.den
           overflow == total.overflow \/ num > U64Max \/ den > U64Max
<1>3. num \in Nat /\ den \in Positive /\ overflow \in BOOLEAN
  BY <1>2
<1>4. AddWeight(total, w) = [num |-> num, den |-> den, overflow |-> overflow]
  BY DEF AddWeight
<1> HIDE DEF num, den, overflow
<1>5. AddWeight(total, w) \in Fractions
  BY <1>3, <1>4 DEF Fractions
<1>6. AddWeight(total, w).num = num /\ AddWeight(total, w).den = den
  BY <1>4
<1>7. AddWeight(total, w).overflow <=> overflow
  BY <1>4
<1>8. overflow <=> total.overflow \/ num > U64Max \/ den > U64Max
  BY DEF overflow
<1> QED
  BY <1>5, <1>6, <1>7, <1>8 DEF num, den

\* total is the sum of clause c after each of its weights.
TotalOf(clauses, c, indices, totalKeys, total) ==
  /\ \A n \in 0..Len(clauses[c]) : total[n] \in Fractions
  /\ total[0] = NoWeight
  /\ \A n \in 1..Len(clauses[c]) :
       total[n] = IF Counts(clauses, c, n, indices, totalKeys)
                  THEN AddWeight(total[n - 1], clauses[c][n]) ELSE total[n - 1]

\* total is the loop that ClauseTotal runs.
RunsTotal(clauses, c, indices, totalKeys, total) ==
  /\ TotalOf(clauses, c, indices, totalKeys, total)
  /\ ClauseTotal(clauses, c, indices, totalKeys) = total[Len(clauses[c])]

\* The loop over the weights of a clause
LEMMA TotalLoop ==
  ASSUME NEW clauses \in Seq(Seq(Weight)), NEW c \in DOMAIN clauses, NEW indices, NEW totalKeys
  PROVE  \E total : RunsTotal(clauses, c, indices, totalKeys, total)
<1> DEFINE N == Len(clauses[c])
           Turn(a, n) == IF Counts(clauses, c, n, indices, totalKeys)
                         THEN AddWeight(a, clauses[c][n]) ELSE a
           At(f, n) == IF n = 0 THEN [num |-> 0, den |-> 1, overflow |-> FALSE]
                       ELSE IF Counts(clauses, c, n, indices, totalKeys)
                            THEN AddWeight(f[n - 1], clauses[c][n])
                       ELSE f[n - 1]
           Found == CHOOSE f : f = [n \in 0..N |-> At(f, n)]
           turn == [n \in 1..N |-> [a \in Fractions |-> Turn(a, n)]]
<1>1. N \in Nat /\ \A n \in 1..N : clauses[c][n].num \in Nat /\ clauses[c][n].den \in Positive
  <2>1. clauses[c] \in Seq(Weight)
    OBVIOUS
  <2> QED
    BY <2>1, WeightAt
<1>2. NoWeight \in Fractions
  BY DEF NoWeight, Fractions, Positive
<1>3. \A n \in 1..N : \A a \in Fractions : Turn(a, n) \in Fractions
  BY <1>1, AddWeightType
<1>4. \A n \in 1..N : \A a \in Fractions : turn[n][a] = Turn(a, n) /\ turn[n][a] \in Fractions
  <2> HIDE DEF N, Turn
  <2> QED
    BY <1>3
<1>5. PICK run : RunOf(Fractions, N, NoWeight, turn, run)
  <2>1. StaysIn(Fractions, N, turn)
    BY <1>4 DEF StaysIn
  <2> HIDE DEF N, turn
  <2> QED
    BY <1>1, <1>2, <2>1, Loop
<1>6. run = [n \in 0..N |-> At(run, n)]
  <2>1. \A n \in 1..N : n # 0 /\ n - 1 \in 0..N
    BY <1>1
  <2>2. \A n \in 1..N : At(run, n) = Turn(run[n - 1], n)
    BY <2>1
  <2>3. At(run, 0) = NoWeight
    BY DEF NoWeight
  <2>4. \A n \in 0..N : n = 0 \/ n \in 1..N
    BY <1>1
  <2> HIDE DEF turn, N, At, Turn
  <2>5. run[0] = NoWeight /\ \A n \in 1..N : run[n] = Turn(run[n - 1], n)
    BY <1>4, <1>5, <2>1 DEF RunOf
  <2>6. \A n \in 0..N : run[n] = At(run, n)
    BY <2>2, <2>3, <2>4, <2>5
  <2> QED
    BY <1>5, <2>6 DEF RunOf
<1>7. Found = [n \in 0..N |-> At(Found, n)]
  <2> HIDE DEF At, N
  <2> QED
    BY <1>6, Zenon
<1>8. ClauseTotal(clauses, c, indices, totalKeys) = Found[N]
  BY DEF ClauseTotal
<1> HIDE DEF Found
<1>9. \A n \in 0..N : Found[n] = At(Found, n)
  <2> HIDE DEF At
  <2> QED
    BY <1>7
<1>10. Found[0] = NoWeight /\ \A n \in 1..N : Found[n] = Turn(Found[n - 1], n)
  <2>1. 0 \in 0..N /\ \A n \in 1..N : n \in 0..N /\ n # 0
    BY <1>1
  <2>2. \A n \in 1..N : At(Found, n) = Turn(Found[n - 1], n)
    BY <2>1
  <2>3. At(Found, 0) = NoWeight
    BY DEF NoWeight
  <2> HIDE DEF At, Turn, N
  <2> QED
    BY <1>9, <2>1, <2>2, <2>3
<1> DEFINE Held == {n \in 0..N : Found[n] \in Fractions}
<1>11. \A n \in 0..N : n \in Held
  <2>1. 0 \in Held
    BY <1>1, <1>2, <1>10
  <2>2. ASSUME NEW n \in 1..N, n - 1 \in Held
        PROVE  n \in Held
    <3> HIDE DEF Turn
    <3> QED
      BY <1>1, <1>3, <1>10, <2>2
  <2> HIDE DEF Held, N
  <2> QED
    BY <1>1, <2>1, <2>2, Turns
<1>12. TotalOf(clauses, c, indices, totalKeys, Found)
  BY <1>10, <1>11 DEF TotalOf
<1> QED
  BY <1>8, <1>12 DEF RunsTotal

\* Division undoes multiplication.
LEMMA DivideProduct ==
  ASSUME NEW q \in Nat, NEW d \in Positive
  PROVE  (q * d) \div d = q
<1>1. d \in Nat /\ d > 0
  BY DEF Positive
<1> QED
  BY <1>1

\* If a/b is s/P, then a/b + n/d is (s + n q)/P, where P is q d.
LEMMA AddShare ==
  ASSUME NEW a \in Nat, NEW b \in Nat, NEW s \in Nat, NEW q \in Nat, NEW n \in Nat, NEW d \in Nat,
         a * (q * d) = s * b
  PROVE  (a * d + n * b) * (q * d) = (s + n * q) * (b * d)
<1>1. (a * d + n * b) * (q * d) = d * (a * (q * d)) + n * b * q * d
  OBVIOUS
<1>2. (s + n * q) * (b * d) = d * (s * b) + n * b * q * d
  OBVIOUS
<1> QED
  BY <1>1, <1>2

\* a/b is at least 1 when the s/P it is equal to is.
LEMMA AtLeastOne ==
  ASSUME NEW a \in Nat, NEW b \in Positive, NEW s \in Nat, NEW P \in Positive, a * P = s * b
  PROVE  a >= b <=> s >= P
<1>1. b \in Nat /\ b > 0 /\ P \in Nat /\ P > 0
  BY DEF Positive
<1>2. ASSUME a >= b, s < P PROVE FALSE
  <2>1. s * b < P * b
    BY <1>1, <1>2
  <2>2. a * P >= b * P
    BY <1>1, <1>2
  <2> QED
    BY <1>1, <2>1, <2>2
<1>3. ASSUME s >= P, a < b PROVE FALSE
  <2>1. a * P < b * P
    BY <1>1, <1>3
  <2>2. s * b >= P * b
    BY <1>1, <1>3
  <2> QED
    BY <1>1, <2>1, <2>2
<1> QED
  BY <1>1, <1>2, <1>3

\* Every denominator divides the product of all.
LEMMA DividesProduct ==
  ASSUME NEW clause \in Seq(Weight), NEW k \in 1..Len(clause)
  PROVE  \E q \in Nat : Product(clause) = q * clause[k].den
                        /\ Product(clause) \div clause[k].den = q
<1> DEFINE N == Len(clause)
           P == Products(clause)
           Held == {n \in 0..N : n >= k => \E q \in Nat : P[n] = q * clause[k].den}
<1>1. /\ N \in Nat
      /\ \A n \in 1..N : clause[n].den \in Positive
      /\ \A n \in 0..N : P[n] \in Positive
      /\ \A n \in 1..N : P[n] = P[n - 1] * clause[n].den
  BY WeightAt, ProductsLoop
<1> HIDE DEF P, N
<1>0. k \in 1..N
  BY DEF N
<1>2. 0 \in Held
  BY <1>0, <1>1
<1>3. ASSUME NEW n \in 1..N, n - 1 \in Held
      PROVE  n \in Held
  <2>1. n - 1 \in 0..N /\ n \in 0..N /\ P[n] = P[n - 1] * clause[n].den
    BY <1>1
  <2>2. P[n - 1] \in Nat /\ clause[n].den \in Nat /\ clause[k].den \in Nat
    BY <1>0, <1>1, <2>1 DEF Positive
  <2>3. CASE n = k
    BY <2>1, <2>2, <2>3
  <2>4. CASE n > k
    <3>1. PICK q \in Nat : P[n - 1] = q * clause[k].den
      BY <1>0, <1>3, <2>4
    <3> DEFINE d == clause[n].den
               e == clause[k].den
    <3>2. P[n] = (q * e) * d /\ d \in Nat /\ e \in Nat
      BY <2>1, <2>2, <3>1
    <3> HIDE DEF d, e
    <3>3. P[n] = (q * d) * e /\ q * d \in Nat
      BY <3>2
    <3> QED
      BY <2>1, <3>3 DEF e
  <2>5. CASE n < k
    BY <1>0, <2>1, <2>5
  <2> QED
    BY <1>0, <2>3, <2>4, <2>5
<1>4. N \in Held
  <2> HIDE DEF Held
  <2>1. \A n \in 0..N : n \in Held
    BY <1>1, <1>2, <1>3, Turns
  <2> QED
    BY <1>1, <2>1
<1>5. PICK q \in Nat : P[N] = q * clause[k].den
  BY <1>0, <1>1, <1>4
<1>6. (q * clause[k].den) \div clause[k].den = q
  BY <1>0, <1>1, DivideProduct
<1>7. Product(clause) = P[N]
  BY DEF Product, P, N
<1> QED
  BY <1>5, <1>6, <1>7

\* What weight j adds when counted selects it, in units of 1 / Product(clause)
SharesOf(clause, counted) ==
  [j \in DOMAIN clause |->
     IF j \in counted THEN clause[j].num * (Product(clause) \div clause[j].den) ELSE 0]

\* They are natural numbers.
LEMMA SharesType ==
  ASSUME NEW clause \in Seq(Weight), NEW counted
  PROVE  SharesOf(clause, counted) \in Seq(Nat) /\ Len(SharesOf(clause, counted)) = Len(clause)
<1>1. /\ Len(clause) \in Nat /\ DOMAIN clause = 1..Len(clause)
      /\ \A n \in 1..Len(clause) : clause[n].num \in Nat
  BY WeightAt
<1> DEFINE share(j) == IF j \in counted
                       THEN clause[j].num * (Product(clause) \div clause[j].den) ELSE 0
<1>2. ASSUME NEW j \in 1..Len(clause)
      PROVE  share(j) \in Nat
  <2>1. PICK q \in Nat : Product(clause) \div clause[j].den = q
    BY DividesProduct
  <2>2. clause[j].num * q \in Nat
    BY <1>1
  <2> QED
    BY <2>1, <2>2
<1>3. SharesOf(clause, counted) = [j \in 1..Len(clause) |-> share(j)]
  BY <1>1 DEF SharesOf
<1> HIDE DEF share
<1> QED
  BY <1>1, <1>2, <1>3

\* The code's sum of a clause is the exact one.
LEMMA ExactSum ==
  ASSUME NEW clauses \in Seq(Seq(Weight)), NEW c \in DOMAIN clauses, NEW indices, NEW totalKeys,
         NEW total, TotalOf(clauses, c, indices, totalKeys, total),
         NEW counted,
         \A j \in 1..Len(clauses[c]) :
           j \in counted <=> Counts(clauses, c, j, indices, totalKeys)
  PROVE  LET clause == clauses[c]
             N      == Len(clause)
         IN  total[N].num * Product(clause)
               = Sums(SharesOf(clause, counted))[N] * total[N].den
<1> DEFINE clause == clauses[c]
           N == Len(clause)
           P == Product(clause)
           shares == SharesOf(clause, counted)
           S == Sums(shares)
           Held == {n \in 0..N : total[n].num * P = S[n] * total[n].den}
<1>1. clause \in Seq(Weight)
  OBVIOUS
<1>2. /\ N \in Nat /\ DOMAIN clause = 1..N
      /\ \A n \in 1..N : clause[n].num \in Nat /\ clause[n].den \in Positive
  <2> HIDE DEF clause
  <2> QED
    BY <1>1, WeightAt
<1>3. shares \in Seq(Nat) /\ Len(shares) = N
  <2> HIDE DEF clause
  <2> QED
    BY <1>1, SharesType
<1>4. /\ S[0] = 0
      /\ \A n \in 0..N : S[n] \in Nat
      /\ \A n \in 1..N : S[n] = S[n - 1] + shares[n]
  <2> HIDE DEF shares, clause, N
  <2> QED
    BY <1>3, SumsLoop
<1>5. /\ \A n \in 0..N : total[n].num \in Nat /\ total[n].den \in Positive
      /\ \A n \in 0..N : total[n] \in Fractions
      /\ total[0].num = 0 /\ total[0].den = 1
      /\ \A n \in 1..N : total[n] = IF n \in counted THEN AddWeight(total[n - 1], clause[n])
                                    ELSE total[n - 1]
  BY DEF TotalOf, Fractions, NoWeight
<1>6. P \in Nat
  <2>1. Products(clause)[N] \in Positive
    <3> HIDE DEF clause
    <3> QED
      BY <1>1, <1>2, ProductsLoop
  <2> QED
    BY <2>1 DEF Product, Positive
<1>7. \A n \in 1..N : shares[n] = IF n \in counted THEN clause[n].num * (P \div clause[n].den) ELSE 0
  BY <1>2 DEF SharesOf
<1>8. \A n \in 1..N : \E q \in Nat : P = q * clause[n].den /\ P \div clause[n].den = q
  <2> HIDE DEF clause
  <2> QED
    BY <1>1, DividesProduct
<1> HIDE DEF clause, N, P, shares, S
<1>9. 0 \in Held
  BY <1>2, <1>4, <1>5, <1>6
<1>10. ASSUME NEW n \in 1..N, n - 1 \in Held
       PROVE  n \in Held
  <2>1. n \in 0..N /\ n - 1 \in 0..N
    BY <1>2
  <2>2. CASE n \notin counted
    <3>1. total[n] = total[n - 1] /\ shares[n] = 0
      BY <1>5, <1>7, <2>2
    <3>2. S[n] = S[n - 1]
      BY <1>4, <2>1, <3>1
    <3> QED
      BY <1>10, <2>1, <3>1, <3>2
  <2>3. CASE n \in counted
    <3>1. PICK q \in Nat : P = q * clause[n].den /\ P \div clause[n].den = q
      BY <1>8
    <3>2. /\ total[n].num = total[n - 1].num * clause[n].den + clause[n].num * total[n - 1].den
          /\ total[n].den = total[n - 1].den * clause[n].den
      <4> DEFINE prev == total[n - 1]
                 more == clause[n]
      <4>1. total[n] = AddWeight(prev, more)
        BY <1>5, <2>3
      <4>2. prev \in Fractions /\ more.num \in Nat /\ more.den \in Positive
        BY <1>2, <1>5, <2>1
      <4> HIDE DEF prev, more
      <4>3. /\ total[n].num = prev.num * more.den + more.num * prev.den
            /\ total[n].den = prev.den * more.den
        BY <4>1, <4>2, AddWeightType
      <4> QED
        BY <4>3 DEF prev, more
    <3>3. S[n] = S[n - 1] + clause[n].num * q
      BY <1>4, <1>7, <2>3, <3>1
    <3> DEFINE a == total[n - 1].num
               b == total[n - 1].den
               s == S[n - 1]
               w == clause[n].num
               d == clause[n].den
    <3>4. a \in Nat /\ b \in Nat /\ s \in Nat /\ w \in Nat /\ d \in Nat
      BY <1>2, <1>4, <1>5, <2>1 DEF Positive
    <3>5. a * (q * d) = s * b
      BY <1>10, <3>1
    <3> HIDE DEF a, b, s, w, d
    <3>6. (a * d + w * b) * (q * d) = (s + w * q) * (b * d)
      BY <3>4, <3>5, AddShare
    <3> QED
      BY <2>1, <3>1, <3>2, <3>3, <3>6 DEF a, b, s, w, d
  <2> QED
    BY <2>2, <2>3
<1>11. N \in Held
  <2> HIDE DEF Held
  <2>1. \A n \in 0..N : n \in Held
    BY <1>2, <1>9, <1>10, Turns
  <2> QED
    BY <1>2, <2>1
<1> QED
  BY <1>11 DEF clause, N, P, shares, S

----------------------------------------------------------------------------
(* Thresholds against the reference.                                       *)

\* The weights of clause c whose keys have a valid signature
Counted(c) == {j \in DOMAIN Kt.clauses[c] : Offset(c) + j \in ValidIndices}

\* A key counts for the weight that the reference gives it.
LEMMA WhichCount ==
  ASSUME MessageOK, Kt \in ThresholdType, Kt.kind = "weighted",
         NEW c \in DOMAIN Kt.clauses, NEW j \in 1..Len(Kt.clauses[c])
  PROVE  j \in Counted(c) <=> Counts(Kt.clauses, c, j, ValidIndices, Len(case.keys))
<1>1. Kt.clauses \in Seq(Seq(Weight))
  BY DEF ThresholdType
<1>2. c \in 1..Len(Kt.clauses) /\ Len(Kt.clauses) \in Nat /\ c - 1 \in 0..Len(Kt.clauses)
  BY <1>1
<1>3. KeysBefore(Kt.clauses, c) = Offset(c)
  <2>1. KeysBefore(Kt.clauses, (c - 1) + 1)
          = Cardinality(UNION {{b} \X DOMAIN Kt.clauses[b] : b \in 1..(c - 1)})
    BY <1>1, <1>2, KeysBeforeLoop
  <2>2. (c - 1) + 1 = c
    BY <1>2
  <2> QED
    BY <2>1, <2>2 DEF Offset
<1>4. \A key \in ValidIndices : key <= Len(case.keys)
  <2>1. case.keys \in Seq(ToSet(case.keys))
    BY CaseLists DEF MessageOK
  <2>2. DOMAIN case.keys = 1..Len(case.keys)
    BY <2>1, LenProperties
  <2> QED
    BY <2>2 DEF ValidIndices
<1>5. j \in DOMAIN Kt.clauses[c]
  <2>1. Kt.clauses[c] \in Seq(Weight)
    BY <1>1
  <2> QED
    BY <2>1, LenProperties
<1> QED
  BY <1>3, <1>4, <1>5 DEF Counted, Counts

\* A clause is found to reach 1 exactly when its exact sum does.
LEMMA ClauseReached ==
  ASSUME MessageOK, Kt \in ThresholdType, Kt.kind = "weighted", NEW c \in DOMAIN Kt.clauses
  PROVE  LET total == ClauseTotal(Kt.clauses, c, ValidIndices, Len(case.keys))
         IN  total.num >= total.den <=> Total(c) >= Product(Kt.clauses[c])
<1> DEFINE clause == Kt.clauses[c]
           N == Len(clause)
<1>1. Kt.clauses \in Seq(Seq(Weight)) /\ clause \in Seq(Weight)
  BY DEF ThresholdType
<1> DEFINE clauses == Kt.clauses
           counted == Counted(c)
<1>0. clauses \in Seq(Seq(Weight)) /\ c \in DOMAIN clauses
  BY <1>1
<1>2. PICK total : RunsTotal(clauses, c, ValidIndices, Len(case.keys), total)
  <2> HIDE DEF clauses
  <2> QED
    BY <1>0, TotalLoop
<1>3. total[N].num * Product(clause) = Sums(SharesOf(clause, Counted(c)))[N] * total[N].den
  <2>1. \A j \in 1..Len(clauses[c]) :
          j \in counted <=> Counts(clauses, c, j, ValidIndices, Len(case.keys))
    BY WhichCount
  <2>2. clause = clauses[c] /\ N = Len(clauses[c])
    OBVIOUS
  <2> HIDE DEF clauses, counted
  <2>3. total[Len(clauses[c])].num * Product(clauses[c])
          = Sums(SharesOf(clauses[c], counted))[Len(clauses[c])] * total[Len(clauses[c])].den
    BY <1>0, <1>2, <2>1, ExactSum DEF RunsTotal
  <2> QED
    BY <2>3 DEF clauses, counted
<1>4. Total(c) = Sums(SharesOf(clause, Counted(c)))[N]
  <2>1. SharesOf(clause, Counted(c)) = [j \in DOMAIN clause |-> Share(c, j)]
    BY DEF SharesOf, Share, Counted
  <2> QED
    BY <2>1 DEF Total
<1>5. Total(c) \in Nat
  <2> DEFINE shares == SharesOf(clause, Counted(c))
  <2> HIDE DEF clause
  <2>1. N \in Nat /\ shares \in Seq(Nat) /\ Len(shares) = N
    BY <1>1, SharesType, WeightAt
  <2> HIDE DEF shares
  <2>2. Sums(shares)[N] \in Nat
    BY <2>1, SumsLoop
  <2> QED
    BY <1>4, <2>2 DEF shares
<1>6. Product(clause) \in Positive /\ N \in Nat
  <2> HIDE DEF clause
  <2> QED
    BY <1>1, WeightAt, ProductsLoop DEF Product
<1>7. total[N].num \in Nat /\ total[N].den \in Positive
  BY <1>2, <1>6 DEF RunsTotal, TotalOf, Fractions
<1>8. ClauseTotal(Kt.clauses, c, ValidIndices, Len(case.keys)) = total[N]
  BY <1>2 DEF RunsTotal
<1> HIDE DEF clause, N
<1>9. total[N].num * Product(clause) = Total(c) * total[N].den
  BY <1>3, <1>4
<1>10. total[N].num >= total[N].den <=> Total(c) >= Product(clause)
  BY <1>5, <1>6, <1>7, <1>9, AtLeastOne
<1> QED
  BY <1>8, <1>10 DEF clause

\* A threshold is reached whenever is_satisfied says so.
LEMMA SatisfiedReached ==
  ASSUME MessageOK, Kt \in ThresholdType, IsSatisfied(Kt, ValidIndices, Len(case.keys))
  PROVE  Reached
<1>1. CASE Kt.kind = "simple"
  BY <1>1 DEF IsSatisfied, Reached
<1>2. CASE Kt.kind = "weighted"
  BY <1>2, ClauseReached DEF IsSatisfied, Reached
<1> QED
  BY <1>1, <1>2 DEF ThresholdType

\* Nothing is accepted below the threshold: neither an overflow nor any
\* combination of signatures makes is_satisfied answer yes too early.
THEOREM MessageNeverMetBelowOne == Spec => []NeverMetBelowOne
<1>1. MessageOK => NeverMetBelowOne
  <2> SUFFICES ASSUME MessageOK, Accepted PROVE Reached
    BY DEF NeverMetBelowOne
  <2>1. Kt # Invalid /\ VerifySigsStatic(Bytes, sigs, case.keys, Kt) = "Ok"
    BY DEF Accepted
  <2>2. IsSatisfied(Kt, ValidIndices, Len(case.keys))
    BY <2>1, SigsAnswer
  <2>3. Kt \in ThresholdType
    BY <2>1, CaseLists, KtType DEF MessageOK, Kt
  <2> QED
    BY <2>2, <2>3, SatisfiedReached
<1> QED
  BY <1>1, MessageInvariant, PTL

\* The product and the sum that bound a sum of weights grow with every weight.
LEMMA BoundsGrow ==
  ASSUME NEW a \in Nat, NEW b \in Positive, NEW P \in Positive, NEW S \in Nat,
         NEW n \in Nat, NEW d \in Positive, b <= P, a <= P * S
  PROVE  /\ b <= P * d /\ b * d <= P * d
         /\ a <= (P * d) * (S + n) /\ a * d + n * b <= (P * d) * (S + n)
         /\ P * (1 + S) <= (P * d) * (1 + (S + n))
<1>1. b \in Nat /\ P \in Nat /\ d \in Nat /\ d >= 1 /\ P >= 1
  BY DEF Positive
<1> DEFINE Pd == P * d
<1>2. Pd \in Nat /\ P <= Pd /\ b * d <= Pd
  BY <1>1
<1>3. a * d <= (P * S) * d /\ a <= a * d
  BY <1>1
<1>4. (P * S) * d = Pd * S
  BY <1>1
<1>5. n * b <= n * Pd
  BY <1>1, <1>2
<1>6. P * (1 + S) <= Pd * (1 + S)
  BY <1>1, <1>2
<1> HIDE DEF Pd
<1>7. Pd * (S + n) = Pd * S + n * Pd /\ Pd * S \in Nat /\ n * Pd \in Nat
  BY <1>2
<1>8. Pd * (1 + (S + n)) = Pd * (1 + S) + n * Pd
  BY <1>2
<1>9. a * d \in Nat /\ n * b \in Nat /\ Pd * (1 + S) \in Nat /\ P * (1 + S) \in Nat
      /\ b * d \in Nat
  BY <1>1, <1>2
<1>10. a * d <= Pd * S
  BY <1>3, <1>4
<1>11. a <= Pd * (S + n) /\ a * d + n * b <= Pd * (S + n)
  BY <1>3, <1>5, <1>7, <1>9, <1>10
<1>12. P * (1 + S) <= Pd * (1 + (S + n))
  BY <1>6, <1>7, <1>8, <1>9
<1>13. b <= Pd
  BY <1>1, <1>2
<1> QED
  BY <1>2, <1>11, <1>12, <1>13 DEF Pd

\* The bound of a sum is a number.
LEMMA BoundType ==
  ASSUME NEW P \in Positive, NEW S \in Nat
  PROVE  P * (1 + S) \in Nat
BY DEF Positive

\* What is within the bound is within its parts.
LEMMA WithinBound ==
  ASSUME NEW P \in Positive, NEW S \in Nat, NEW U \in Nat, P * (1 + S) <= U
  PROVE  P <= U /\ P * S <= U
<1>1. P \in Nat /\ P * S \in Nat
  BY DEF Positive
<1>2. P * (1 + S) = P + P * S
  BY <1>1
<1> QED
  BY <1>1, <1>2

\* An intermediate sum of a clause whose exact bound is in range is in range.
LEMMA SumInRange ==
  ASSUME NEW clauses \in Seq(Seq(Weight)), NEW c \in DOMAIN clauses, NEW indices, NEW totalKeys,
         NEW total, TotalOf(clauses, c, indices, totalKeys, total),
         Product(clauses[c]) * (1 + Numerators(clauses[c])[Len(clauses[c])]) <= U64Max
  PROVE  ~total[Len(clauses[c])].overflow
<1> DEFINE clause == clauses[c]
           N == Len(clause)
           P == Products(clause)
           numbers == [j \in DOMAIN clause |-> clause[j].num]
           S == Sums(numbers)
           Within(n) == P[n] * (1 + S[n]) <= U64Max
           Good(n) == /\ total[n].den <= P[n]
                      /\ total[n].num <= P[n] * S[n]
                      /\ Within(n) => ~total[n].overflow
           Held == {n \in 0..N : Good(n)}
<1>1. clause \in Seq(Weight)
  OBVIOUS
<1>2. /\ N \in Nat /\ DOMAIN clause = 1..N
      /\ \A n \in 1..N : clause[n].num \in Nat /\ clause[n].den \in Positive
  <2> HIDE DEF clause
  <2> QED
    BY <1>1, WeightAt
<1>3. /\ \A n \in 0..N : P[n] \in Positive
      /\ P[0] = 1
      /\ \A n \in 1..N : P[n] = P[n - 1] * clause[n].den
  <2> HIDE DEF clause
  <2> QED
    BY <1>1, ProductsLoop
<1>4. numbers \in Seq(Nat) /\ Len(numbers) = N /\ \A n \in 1..N : numbers[n] = clause[n].num
  <2>1. numbers \in [1..N -> Nat] /\ \A n \in 1..N : numbers[n] = clause[n].num
    BY <1>2
  <2> HIDE DEF clause, N, numbers
  <2> QED
    BY <1>2, <2>1
<1>5. /\ S[0] = 0
      /\ \A n \in 0..N : S[n] \in Nat
      /\ \A n \in 1..N : S[n] = S[n - 1] + clause[n].num
  <2> HIDE DEF numbers, clause, N
  <2> QED
    BY <1>4, SumsLoop
<1>6. /\ \A n \in 0..N : total[n] \in Fractions /\ total[n].num \in Nat /\ total[n].den \in Positive
      /\ total[0] = NoWeight
      /\ \A n \in 1..N :
           total[n] = total[n - 1] \/ total[n] = AddWeight(total[n - 1], clause[n])
  BY DEF TotalOf, Fractions
<1>7. Within(N)
  BY DEF Product, Numerators
<1> HIDE DEF clause, N, P, numbers, S
<1>8. 0 \in Held
  <2>1. total[0].num = 0 /\ total[0].den = 1 /\ total[0].overflow = FALSE /\ 0 \in 0..N
    BY <1>2, <1>6 DEF NoWeight
  <2> QED
    BY <1>3, <1>5, <2>1
<1>9. ASSUME NEW n \in 1..N, n - 1 \in Held
      PROVE  n \in Held
  <2> DEFINE prev == total[n - 1]
             d == clause[n].den
             w == clause[n].num
             Pp == P[n - 1]
             Sp == S[n - 1]
  <2>1. n \in 0..N /\ n - 1 \in 0..N
    BY <1>2
  <2>2. /\ prev \in Fractions /\ prev.num \in Nat /\ prev.den \in Positive
        /\ w \in Nat /\ d \in Positive /\ Pp \in Positive /\ Sp \in Nat
    BY <1>2, <1>3, <1>5, <1>6, <2>1
  <2>3. /\ prev.den <= Pp /\ prev.num <= Pp * Sp
        /\ Pp * (1 + Sp) <= U64Max => ~prev.overflow
    BY <1>9
  <2>4. P[n] = Pp * d /\ S[n] = Sp + w
    BY <1>3, <1>5
  <2> HIDE DEF d, w, Pp, Sp
  <2>5. /\ prev.den <= Pp * d /\ prev.den * d <= Pp * d
        /\ prev.num <= (Pp * d) * (Sp + w) /\ prev.num * d + w * prev.den <= (Pp * d) * (Sp + w)
        /\ Pp * (1 + Sp) <= (Pp * d) * (1 + (Sp + w))
    <3> HIDE DEF prev
    <3> QED
      BY <2>2, <2>3, BoundsGrow
  <2>6. P[n] \in Positive /\ S[n] \in Nat /\ U64Max \in Nat
    BY <1>3, <1>5, <2>1, U64MaxAssumption
  <2>7. Within(n) => ~prev.overflow /\ P[n] <= U64Max /\ P[n] * S[n] <= U64Max
    <3> SUFFICES ASSUME Within(n)
                 PROVE  ~prev.overflow /\ P[n] <= U64Max /\ P[n] * S[n] <= U64Max
      OBVIOUS
    <3>1. P[n] <= U64Max /\ P[n] * S[n] <= U64Max
      BY <2>6, WithinBound
    <3>2. Pp * (1 + Sp) <= U64Max
      <4> DEFINE before == Pp * (1 + Sp)
                 after == P[n] * (1 + S[n])
      <4>1. before <= after /\ after <= U64Max
        BY <2>4, <2>5
      <4>2. before \in Nat /\ after \in Nat
        BY <2>2, <2>6, BoundType
      <4> HIDE DEF before, after
      <4>3. before <= U64Max
        BY <2>6, <4>1, <4>2
      <4> QED
        BY <4>3 DEF before
    <3> QED
      BY <2>3, <3>1, <3>2
  <2>8. CASE total[n] = prev
    <3>1. total[n].den <= P[n] /\ total[n].num <= P[n] * S[n]
      BY <2>4, <2>5, <2>8
    <3> QED
      BY <2>1, <2>7, <2>8, <3>1
  <2>9. CASE total[n] = AddWeight(prev, clause[n])
    <3>1. /\ total[n].num = prev.num * d + w * prev.den
          /\ total[n].den = prev.den * d
          /\ total[n].overflow <=> prev.overflow \/ total[n].num > U64Max \/ total[n].den > U64Max
      <4> DEFINE more == clause[n]
      <4>1. more.num = w /\ more.den = d /\ total[n] = AddWeight(prev, more)
        BY <2>9 DEF d, w
      <4> DEFINE sum == AddWeight(prev, more)
      <4>2. more.num \in Nat /\ more.den \in Positive /\ prev \in Fractions
        BY <2>2, <4>1
      <4> HIDE DEF more, prev
      <4>3. /\ sum.num = prev.num * more.den + more.num * prev.den
            /\ sum.den = prev.den * more.den
            /\ sum.overflow <=> prev.overflow \/ sum.num > U64Max \/ sum.den > U64Max
        BY ONLY <4>2, AddWeightType
      <4> HIDE DEF sum
      <4>4. sum = total[n]
        BY <4>1 DEF sum
      <4> QED
        BY ONLY <4>1, <4>3, <4>4
    <3>2. total[n].den <= P[n] /\ total[n].num <= P[n] * S[n]
      BY <2>4, <2>5, <3>1
    <3>3. Within(n) => ~total[n].overflow
      <4> DEFINE num == total[n].num
                 den == total[n].den
                 top == P[n] * S[n]
                 wide == P[n]
      <4>1. num \in Nat /\ den \in Nat /\ top \in Nat /\ wide \in Nat /\ U64Max \in Nat
        BY <1>6, <2>1, <2>6, SMTT(30) DEF Positive
      <4>2. Within(n) => ~prev.overflow /\ wide <= U64Max /\ top <= U64Max
        BY <2>7
      <4>3. den <= wide /\ num <= top
        BY <3>2
      <4>4. total[n].overflow <=> prev.overflow \/ num > U64Max \/ den > U64Max
        BY <3>1
      <4> HIDE DEF num, den, top, wide, Within, prev
      <4>5. Within(n) => ~(num > U64Max) /\ ~(den > U64Max)
        BY <4>1, <4>2, <4>3
      <4> QED
        BY <4>2, <4>4, <4>5
    <3> QED
      BY <2>1, <3>2, <3>3
  <2> QED
    BY <1>6, <2>8, <2>9
<1>10. N \in Held
  <2> HIDE DEF Held
  <2>1. \A n \in 0..N : n \in Held
    BY <1>2, <1>8, <1>9, Turns
  <2> QED
    BY <1>2, <2>1
<1> QED
  BY <1>7, <1>10 DEF clause, N

\* In range, a threshold that is reached satisfies is_satisfied.
LEMMA ReachedSatisfied ==
  ASSUME MessageOK, Kt \in ThresholdType, InRange, Reached
  PROVE  IsSatisfied(Kt, ValidIndices, Len(case.keys))
<1>1. CASE Kt.kind = "simple"
  BY <1>1 DEF IsSatisfied, Reached
<1>2. CASE Kt.kind = "weighted"
  <2> DEFINE clauses == Kt.clauses
  <2>1. clauses \in Seq(Seq(Weight))
    BY <1>2 DEF ThresholdType
  <2>2. ASSUME NEW c \in DOMAIN clauses
        PROVE  ~ClauseTotal(clauses, c, ValidIndices, Len(case.keys)).overflow
    <3>1. Product(clauses[c]) * (1 + Numerators(clauses[c])[Len(clauses[c])]) <= U64Max
      BY <1>2 DEF InRange
    <3> HIDE DEF clauses
    <3>2. PICK total : RunsTotal(clauses, c, ValidIndices, Len(case.keys), total)
      BY <2>1, TotalLoop
    <3>3. ~total[Len(clauses[c])].overflow
      BY <2>1, <3>1, <3>2, SumInRange DEF RunsTotal
    <3> QED
      BY <3>2, <3>3 DEF RunsTotal
  <2>3. clauses # <<>> /\ \A c \in DOMAIN clauses : Total(c) >= Product(clauses[c])
    BY <1>2 DEF Reached
  <2> QED
    BY <1>2, <2>2, <2>3, ClauseReached DEF IsSatisfied
<1> QED
  BY <1>1, <1>2 DEF ThresholdType

\* Where no intermediate sum can leave its type and everything can be parsed, an
\* event is accepted exactly when the keys with a valid signature reach its
\* threshold (verify_sigs_static with Threshold::is_satisfied).
THEOREM MessageExactInRange == Spec => []ExactInRange
<1>1. MessageOK => ExactInRange
  <2> SUFFICES ASSUME MessageOK, event # NotMade, InRange, ~SomeSigFails
               PROVE  Accepted <=> Reached
    BY DEF ExactInRange
  <2>1. CASE Kt = Invalid
    BY <2>1 DEF Accepted, Reached, Invalid
  <2>2. CASE Kt # Invalid
    <3>1. Kt \in ThresholdType
      BY <2>2, CaseLists, KtType DEF MessageOK, Kt
    <3>2. Accepted <=> IsSatisfied(Kt, ValidIndices, Len(case.keys))
      BY <2>2, SigsAnswer DEF Accepted
    <3> QED
      BY <3>1, <3>2, SatisfiedReached, ReachedSatisfied
  <2> QED
    BY <2>1, <2>2
<1> QED
  BY <1>1, MessageInvariant, PTL
----------------------------------------------------------------------------
(* Sizes.                                                                  *)

\* The powers of the radix: what n digits can say
LEMMA PowersLoop ==
  ASSUME NEW N \in Nat
  PROVE  \E power :
           /\ power \in [0..N -> Positive]
           /\ power[0] = 1
           /\ \A k \in 1..N : power[k] = power[k - 1] * Radix
           /\ Capacity(N) = power[N]
<1> DEFINE At(f, k) == IF k = 0 THEN 1 ELSE f[k - 1] * Radix
           Found == CHOOSE f : f = [k \in 0..N |-> At(f, k)]
           turn == [k \in 1..N |-> [a \in Positive |-> a * Radix]]
<1>1. Radix \in Positive /\ 1 \in Positive
  BY SizesAssumption DEF Positive
<1>2. \A k \in 1..N : \A a \in Positive : turn[k][a] = a * Radix /\ a * Radix \in Positive
  BY <1>1, TimesPositive
<1>3. PICK run : RunOf(Positive, N, 1, turn, run)
  <2>1. StaysIn(Positive, N, turn)
    BY <1>2 DEF StaysIn
  <2> HIDE DEF turn
  <2> QED
    BY <1>1, <2>1, Loop
<1>4. run = [k \in 0..N |-> At(run, k)]
  <2>1. \A k \in 0..N : k = 0 \/ (k \in 1..N /\ k - 1 \in 0..N)
    OBVIOUS
  <2> HIDE DEF turn
  <2>2. \A k \in 0..N : run[k] = At(run, k)
    BY <1>2, <1>3, <2>1 DEF RunOf
  <2> HIDE DEF At
  <2> QED
    BY <1>3, <2>2 DEF RunOf
<1>5. Found = [k \in 0..N |-> At(Found, k)]
  <2> HIDE DEF At
  <2> QED
    BY <1>4, Zenon
<1>6. Capacity(N) = Found[N]
  BY DEF Capacity
<1> HIDE DEF Found
<1>7. \A k \in 0..N : Found[k] = At(Found, k)
  BY <1>5
<1>8. Found[0] = 1 /\ \A k \in 1..N : Found[k] = Found[k - 1] * Radix
  BY <1>7
<1> DEFINE Held == {k \in 0..N : Found[k] \in Positive}
<1>9. \A k \in 0..N : k \in Held
  <2>1. 0 \in Held
    BY <1>1, <1>8
  <2>2. ASSUME NEW k \in 1..N, k - 1 \in Held
        PROVE  k \in Held
    <3>1. Found[k - 1] * Radix \in Positive
      BY <1>1, <2>2, TimesPositive
    <3> QED
      BY <1>8, <3>1
  <2> HIDE DEF Held
  <2> QED
    BY <2>1, <2>2, Turns
<1>10. Found \in [0..N -> Positive]
  BY <1>5, <1>9
<1> QED
  BY <1>6, <1>8, <1>10

\* Powers of numbers from 2 are larger than their exponents.
LEMMA CapacityExceeds ==
  ASSUME NEW N \in Nat
  PROVE  Capacity(N) \in Nat /\ Capacity(N) > N
<1>1. PICK power :
        /\ power \in [0..N -> Positive]
        /\ power[0] = 1
        /\ \A k \in 1..N : power[k] = power[k - 1] * Radix
        /\ Capacity(N) = power[N]
  BY PowersLoop
<1> DEFINE Held == {k \in 0..N : power[k] > k}
<1>2. 0 \in Held
  BY <1>1
<1>3. ASSUME NEW k \in 1..N, k - 1 \in Held
      PROVE  k \in Held
  <2>1. power[k - 1] \in Nat /\ power[k - 1] > k - 1 /\ k - 1 \in Nat
    BY <1>1, <1>3 DEF Positive
  <2>2. Radix \in Nat /\ Radix >= 2
    BY SizesAssumption
  <2>3. power[k - 1] * Radix >= power[k - 1] + power[k - 1]
    <3>1. \A a \in Nat, r \in Nat : a * (r + 2) = a * r + a + a /\ a * r \in Nat
      OBVIOUS
    <3>2. PICK r \in Nat : Radix = r + 2
      <4>1. Radix - 2 \in Nat /\ Radix = (Radix - 2) + 2
        BY <2>2
      <4> QED
        BY <4>1
    <3> QED
      BY <2>1, <3>1, <3>2
  <2>4. power[k] = power[k - 1] * Radix /\ power[k] \in Nat
    BY <1>1 DEF Positive
  <2>5. power[k] > k
    <3> DEFINE before == power[k - 1]
               now == power[k]
    <3>1. before \in Nat /\ now \in Nat /\ before > k - 1 /\ now >= before + before /\ k \in Nat \ {0}
      BY <2>1, <2>3, <2>4
    <3> HIDE DEF before, now
    <3>2. now > k
      BY <3>1
    <3> QED
      BY <3>2 DEF now
  <2> QED
    BY <2>5
<1> HIDE DEF Held
<1>4. N \in Held
  BY <1>2, <1>3, Turns
<1> QED
  BY <1>1, <1>4 DEF Held, Positive

\* A size takes SizeDigits digits if it fits in them, and otherwise not fewer.
LEMMA DigitsOf ==
  ASSUME NEW size \in Nat
  PROVE  /\ Digits(size) \in Nat /\ Digits(size) >= SizeDigits
         /\ size < Capacity(SizeDigits) => Digits(size) = SizeDigits
<1>1. SizeDigits \in Nat /\ Capacity(SizeDigits) \in Nat
  BY SizesAssumption, CapacityExceeds
<1>2. CASE size < Capacity(SizeDigits)
  BY <1>1, <1>2 DEF Digits
<1>3. CASE ~(size < Capacity(SizeDigits))
  <2> DEFINE S == {k \in Nat : size < Capacity(SizeDigits + k)}
  <2>1. size \in S
    <3>1. Capacity(SizeDigits + size) \in Nat /\ Capacity(SizeDigits + size) > SizeDigits + size
      BY <1>1, CapacityExceeds
    <3> QED
      BY <1>1, <3>1
  <2>2. PICK least \in S : \A k \in S : least <= k
    <3>1. S \in SUBSET Nat /\ S # {}
      BY <2>1
    <3> HIDE DEF S
    <3> QED
      BY <3>1, LeastNumber
  <2>3. least \in Nat /\ least <= size /\ size < Capacity(SizeDigits + least)
    BY <2>1, <2>2
  <2>4. least # 0
    BY <1>1, <1>3, <2>3
  <2>5. least - 1 \in Nat /\ ~(size < Capacity(SizeDigits + (least - 1)))
    BY <2>2, <2>3, <2>4
  <2>6. SizeDigits + (least - 1) = SizeDigits + least - 1 /\ SizeDigits + least - 1 \in Nat
    BY <1>1, <2>5
  <2>7. Capacity(SizeDigits + least - 1) <= size
    <3>1. Capacity(SizeDigits + least - 1) \in Nat
      BY <2>6, CapacityExceeds
    <3>2. ~(size < Capacity(SizeDigits + least - 1))
      BY <2>5, <2>6
    <3> QED
      BY <3>1, <3>2
  <2>8. SizeDigits + least \in (SizeDigits + 1)..(SizeDigits + size)
    BY <1>1, <2>3, <2>4
  <2>9. Digits(size) \in (SizeDigits + 1)..(SizeDigits + size)
    <3> DEFINE Says(n) == Capacity(n - 1) <= size /\ size < Capacity(n)
               Lengths == (SizeDigits + 1)..(SizeDigits + size)
    <3>1. Digits(size) = CHOOSE n \in Lengths : Says(n)
      BY <1>3 DEF Digits
    <3>2. Says(SizeDigits + least)
      BY <1>1, <2>3, <2>7
    <3>4. SizeDigits + least \in Lengths
      BY <2>8
    <3> HIDE DEF Says, Lengths
    <3>3. Digits(size) \in Lengths
      BY <3>1, <3>2, <3>4
    <3> QED
      BY <3>3 DEF Lengths
  <2> QED
    BY <1>1, <1>3, <2>9
<1> QED
  BY <1>2, <1>3

----------------------------------------------------------------------------
(* Serialization.                                                          *)

Kinds == {"JSON", "CBOR", "MGPK"}

\* The length of a message without the text of its version
Body(sad) == sad.lead + FieldLen(sad.d) + FieldLen(sad.i) + sad.rest

\* The length of a message, by its parts
LEMMA LengthOf ==
  ASSUME NEW sad, IsSad(sad)
  PROVE  /\ Body(sad) \in Nat
         /\ sad.v = <<>> => Length(sad) = Body(sad)
         /\ sad.v # <<>> => sad.v = <<sad.v[1]>> /\ sad.v[1] \in TextType
                            /\ Length(sad) = Body(sad) + sad.v[1].len
<1>1. \A id : FieldLen(id) \in Nat
  BY SizesAssumption DEF FieldLen
<1>2. sad.lead \in Nat /\ sad.rest \in Nat /\ sad.v \in Seq(TextType) /\ Len(sad.v) <= 1
  BY DEF IsSad, TextType
<1>3. Body(sad) \in Nat
  BY <1>1, <1>2 DEF Body
<1>4. CASE sad.v = <<>>
  <2>1. Length(sad) = Body(sad)
    BY <1>1, <1>2, <1>4 DEF Length, Body
  <2> QED
    BY <1>3, <1>4, <2>1
<1>5. CASE sad.v # <<>>
  <2>1. Len(sad.v) = 1
    <3> DEFINE n == Len(sad.v)
    <3>1. n \in Nat
      BY <1>2, LenProperties
    <3>2. n # 0
      BY <1>2, <1>5, EmptySeq
    <3>3. n <= 1
      BY <1>2
    <3> HIDE DEF n
    <3>4. n = 1
      BY <3>1, <3>2, <3>3
    <3> QED
      BY <3>4 DEF n
  <2>2. sad.v = <<sad.v[1]>> /\ sad.v[1] \in TextType
    BY <1>2, <2>1, ElementOfSeq
  <2>3. sad.v[1].len \in Nat
    BY <2>2 DEF TextType
  <2>4. Length(sad) = Body(sad) + sad.v[1].len
    BY <1>1, <1>2, <1>5, <2>3 DEF Length, Body
  <2> QED
    BY <1>3, <1>5, <2>2, <2>4
<1> QED
  BY <1>4, <1>5

\* A message with another version text
LEMMA TextPut ==
  ASSUME NEW sad, IsSad(sad), NEW text \in TextType, NEW next, next = [sad EXCEPT !.v = <<text>>]
  PROVE  /\ IsSad(next) /\ next.v = <<text>> /\ next.v # <<>> /\ next.v[1] = text
         /\ next.lead = sad.lead /\ next.d = sad.d /\ next.i = sad.i /\ next.rest = sad.rest
         /\ Body(next) = Body(sad) /\ Length(next) = Body(sad) + text.len
<1>1. next = [lead |-> sad.lead, v |-> <<text>>, d |-> sad.d, i |-> sad.i, rest |-> sad.rest]
  BY DEF IsSad
<1>2. /\ next.lead = sad.lead /\ next.v = <<text>> /\ next.d = sad.d /\ next.i = sad.i
      /\ next.rest = sad.rest
  BY <1>1
<1>3. <<text>> \in Seq(TextType) /\ Len(<<text>>) = 1 /\ <<text>> # <<>> /\ <<text>>[1] = text
  OBVIOUS
<1>4. IsSad(next)
  BY <1>1, <1>2, <1>3 DEF IsSad, TextType
<1>5. Body(next) = Body(sad)
  BY <1>2 DEF Body
<1> QED
  BY <1>2, <1>3, <1>4, <1>5, LengthOf

\* The text of a version is read as the version when its size takes SizeDigits digits.
LEMMA TextRead ==
  ASSUME NEW version \in Version
  PROVE  /\ VersionText(version) \in TextType
         /\ VersionText(version).len = VersionFixed + Digits(version.size)
         /\ version # NoVersion /\ version.size \in Nat
         /\ version.size < Capacity(SizeDigits) =>
              /\ VersionText(version).len = VersionFixed + SizeDigits
              /\ ParseVersion(VersionText(version)) = version
<1>1. version.size \in Nat /\ version.protocol \in {"KERI", "ACDC"}
  BY DEF Version
<1>2. version # NoVersion
  BY <1>1 DEF NoVersion
<1>3. Digits(version.size) \in Nat
  BY <1>1, DigitsOf
<1>4. VersionFixed + Digits(version.size) \in Nat
  BY <1>3, SizesAssumption
<1>5. VersionText(version) \in TextType /\ VersionText(version).len = VersionFixed + Digits(version.size)
  BY <1>4 DEF VersionText, TextType
<1>6. ASSUME version.size < Capacity(SizeDigits)
      PROVE  /\ VersionText(version).len = VersionFixed + SizeDigits
             /\ ParseVersion(VersionText(version)) = version
  <2>1. Digits(version.size) = SizeDigits
    BY <1>1, <1>6, DigitsOf
  <2> QED
    BY <2>1 DEF VersionText, ParseVersion
<1> QED
  BY <1>1, <1>2, <1>5, <1>6

\* The version of a message with another size: the one it has, or that of its kind
Resized(sad, kind, size) ==
  LET old == ParseVersion(sad.v[1])
  IN  [(IF old = NoVersion THEN DefaultV1(kind, 0) ELSE old) EXCEPT !.size = size]

\* What a made message says: the size is computed over the text before.
Says(made, sad, kind) ==
  /\ made.version \in Version
  /\ made.version.size = Body(sad) + VersionFixed + Digits(Length(sad))
  /\ made.kind = kind
  /\ made.sad = [sad EXCEPT !.v = <<VersionText(made.version)>>]
  /\ made.raw = Length(made.sad)
  /\ made.version = Resized(sad, kind, made.version.size)

\* Serder::new writes the size that the message has with a first version text; that
\* is its size with the second text when both take the same digits.
LEMMA SerderSays ==
  ASSUME NEW sad, IsSad(sad), sad.v # <<>>, NEW kind \in Kinds, NEW made, made = SerderNew(sad, kind)
  PROVE  Says(made, sad, kind)
<1> DEFINE old     == ParseVersion(sad.v[1])
           version == IF old = NoVersion THEN DefaultV1(kind, Length(sad))
                      ELSE [old EXCEPT !.size = Length(sad)]
           first   == [sad EXCEPT !.v = <<VersionText(version)>>]
           size    == Length(first)
           final   == [version EXCEPT !.size = size]
           second  == [sad EXCEPT !.v = <<VersionText(final)>>]
<1>1. Length(sad) \in Nat /\ Body(sad) \in Nat /\ sad.v[1] \in TextType
  <2>1. sad.v[1] \in TextType /\ Length(sad) = Body(sad) + sad.v[1].len /\ Body(sad) \in Nat
    BY LengthOf
  <2> QED
    BY <2>1 DEF TextType
<1>2. old \in Version \cup {NoVersion}
  BY <1>1 DEF ParseVersion, TextType
<1>3. version \in Version /\ version.size = Length(sad)
  BY <1>1, <1>2 DEF Version, DefaultV1, Kinds
<1>4. VersionText(version) \in TextType /\ VersionText(version).len = VersionFixed + Digits(Length(sad))
  <2> HIDE DEF version
  <2> QED
    BY <1>3, TextRead
<1>5. size = Body(sad) + VersionText(version).len
  <2> HIDE DEF version
  <2> QED
    BY <1>4, TextPut
<1>6. size = Body(sad) + VersionFixed + Digits(Length(sad)) /\ size \in Nat
  <2>1. Digits(Length(sad)) \in Nat /\ VersionFixed \in Nat
    BY <1>1, DigitsOf, SizesAssumption
  <2> HIDE DEF size, version
  <2> QED
    BY <1>1, <1>4, <1>5, <2>1
<1>7. final \in Version /\ final.size = size
  <2> HIDE DEF version, size
  <2> QED
    BY <1>3, <1>6 DEF Version
<1>8. made = [version |-> final, kind |-> kind, sad |-> second, raw |-> Length(second)]
  BY DEF SerderNew, Embed
<1>9. final = Resized(sad, kind, size)
  <2>0. Resized(sad, kind, size) = [(IF old = NoVersion THEN DefaultV1(kind, 0) ELSE old) EXCEPT !.size = size]
    BY DEF Resized
  <2>1. CASE old = NoVersion
    <3> HIDE DEF size, old
    <3>1. version = [protocol |-> "KERI", kind |-> kind, size |-> Length(sad)]
      BY <2>1 DEF DefaultV1
    <3> HIDE DEF version
    <3> QED
      BY <2>0, <2>1, <3>1 DEF DefaultV1
  <2>2. CASE old # NoVersion
    <3> HIDE DEF size, old
    <3>1. old \in Version /\ version = [old EXCEPT !.size = Length(sad)]
      BY <1>2, <2>2
    <3> HIDE DEF version
    <3> QED
      BY <2>0, <2>2, <3>1 DEF Version
  <2> QED
    BY <2>1, <2>2
<1> HIDE DEF second, final, size
<1>10. made.version = final /\ made.kind = kind /\ made.sad = second /\ made.raw = Length(second)
  BY <1>8
<1> QED
  BY <1>6, <1>7, <1>9, <1>10 DEF second, Says

\* A message that fits with both texts says the size that it has, and can be read.
LEMMA SizeSaid ==
  ASSUME NEW sad, IsSad(sad), sad.v # <<>>, NEW kind \in Kinds, NEW made, made = SerderNew(sad, kind),
         Length(sad) < Capacity(SizeDigits), made.version.size < Capacity(SizeDigits)
  PROVE  /\ made.sad.v # <<>> /\ ParseVersion(made.sad.v[1]) = made.version
         /\ made.version # NoVersion
         /\ made.raw = made.version.size /\ made.raw \in Nat
         /\ made.version.size = Body(sad) + VersionFixed + SizeDigits
<1>1. /\ made.version \in Version
      /\ made.version.size = Body(sad) + VersionFixed + Digits(Length(sad))
      /\ made.sad = [sad EXCEPT !.v = <<VersionText(made.version)>>]
      /\ made.raw = Length(made.sad)
  BY SerderSays, SMTT(30) DEF Says
<1>2. Body(sad) \in Nat /\ Length(sad) \in Nat /\ VersionFixed \in Nat /\ SizeDigits \in Nat
  <2>1. sad.v[1] \in TextType /\ Length(sad) = Body(sad) + sad.v[1].len /\ Body(sad) \in Nat
    BY LengthOf
  <2> QED
    BY <2>1, SizesAssumption DEF TextType
<1>3. Digits(Length(sad)) = SizeDigits
  BY <1>2, DigitsOf
<1>4. /\ VersionText(made.version) \in TextType
      /\ VersionText(made.version).len = VersionFixed + SizeDigits
      /\ ParseVersion(VersionText(made.version)) = made.version
      /\ made.version # NoVersion
  BY <1>1, TextRead
<1>5. made.sad.v # <<>> /\ made.sad.v[1] = VersionText(made.version)
      /\ Length(made.sad) = Body(sad) + VersionText(made.version).len
  BY <1>1, <1>4, TextPut
<1> QED
  BY <1>1, <1>2, <1>3, <1>4, <1>5

\* What stands in d stands in i if the two were the same.
Placed(sad, id) ==
  [lead |-> sad.lead, v |-> sad.v, d |-> id, i |-> IF sad.i = sad.d THEN id ELSE sad.i,
   rest |-> sad.rest]

\* Another identifier in d
LEMMA IdPut ==
  ASSUME NEW sad, NEW id,
         sad = [lead |-> sad.lead, v |-> sad.v, d |-> sad.d, i |-> sad.i, rest |-> sad.rest]
  PROVE  WithPlaceholders(sad, id) = Placed(sad, id)
<1>1. CASE sad.i = sad.d
  <2>1. WithPlaceholders(sad, id) = [sad EXCEPT !.d = id, !.i = id]
    BY <1>1 DEF WithPlaceholders
  <2>2. Placed(sad, id) = [lead |-> sad.lead, v |-> sad.v, d |-> id, i |-> id, rest |-> sad.rest]
    BY <1>1 DEF Placed
  <2> QED
    BY <2>1, <2>2
<1>2. CASE sad.i # sad.d
  <2>1. WithPlaceholders(sad, id) = [sad EXCEPT !.d = id]
    BY <1>2 DEF WithPlaceholders
  <2>2. Placed(sad, id) = [lead |-> sad.lead, v |-> sad.v, d |-> id, i |-> sad.i, rest |-> sad.rest]
    BY <1>2 DEF Placed
  <2> QED
    BY <2>1, <2>2
<1> QED
  BY <1>1, <1>2

\* What fix_version_string and compute_said make of a draft of event.rs: a version
\* text of the length of the draft's, an identifier, and the SAID of the whole.
LEMMA HabMakes ==
  ASSUME NEW draft, IsSad(draft), draft.v = <<VersionText(DefaultV1("JSON", 0))>>,
         NEW fixed, fixed = FixVersionString(draft),
         fixed.i = fixed.d \/ fixed.i # ComputeSaid(fixed).d,
         NEW size, size = Length(WithPlaceholders(draft, Hashes)),
         NEW sad, sad = ComputeSaid(fixed)
  PROVE  /\ IsSad(sad) /\ size \in Nat
         /\ sad.v = <<VersionText(DefaultV1("JSON", size))>>
         /\ size = Body(sad) + VersionFixed + SizeDigits
         /\ VerifySaid(sad)
<1> DEFINE text == VersionText(DefaultV1("JSON", 0))
           hashed == WithPlaceholders(draft, Hashes)
           said == Digest(WithPlaceholders(fixed, Hashes))
<1>1. /\ draft = [lead |-> draft.lead, v |-> <<text>>, d |-> draft.d, i |-> draft.i, rest |-> draft.rest]
      /\ draft.lead \in Nat /\ draft.rest \in Nat
  BY DEF IsSad
<1>2. hashed = [lead |-> draft.lead, v |-> <<text>>, d |-> Hashes,
                i |-> IF draft.i = draft.d THEN Hashes ELSE draft.i, rest |-> draft.rest]
  <2> HIDE DEF text
  <2> QED
    BY <1>1, IdPut DEF Placed
<1>3. text \in TextType /\ text.len = VersionFixed + SizeDigits
  <2>1. DefaultV1("JSON", 0) \in Version /\ DefaultV1("JSON", 0).size = 0
    BY DEF DefaultV1, Version
  <2>2. 0 < Capacity(SizeDigits)
    BY CapacityExceeds, SizesAssumption
  <2> QED
    BY <2>1, <2>2, TextRead
<1>4. IsSad(hashed) /\ hashed.v = <<text>> /\ size = Body(hashed) + VersionFixed + SizeDigits /\ size \in Nat
  <2>1. IsSad(hashed) /\ hashed.v = <<text>>
    <3> HIDE DEF text
    <3>1. hashed.v = <<text>> /\ hashed.lead \in Nat /\ hashed.rest \in Nat
      BY <1>1, <1>2
    <3>2. hashed = [lead |-> hashed.lead, v |-> hashed.v, d |-> hashed.d, i |-> hashed.i,
                    rest |-> hashed.rest]
      BY <1>2
    <3>3. <<text>> \in Seq(TextType) /\ Len(<<text>>) = 1
      BY <1>3
    <3> HIDE DEF hashed
    <3> QED
      BY <3>1, <3>2, <3>3 DEF IsSad
  <2>2. size = Length(hashed)
    OBVIOUS
  <2> HIDE DEF hashed, text
  <2>3. Body(hashed) \in Nat /\ size = Body(hashed) + text.len
    <3>1. hashed.v # <<>> /\ hashed.v[1] = text
      BY <2>1
    <3> QED
      BY <2>1, <2>2, <3>1, LengthOf
  <2> QED
    BY <1>3, <2>1, <2>3, SizesAssumption
<1> HIDE DEF text, hashed
<1> DEFINE newText == VersionText(DefaultV1("JSON", size))
<1>5. newText \in TextType
  <2>1. DefaultV1("JSON", size) \in Version
    BY <1>4 DEF DefaultV1, Version
  <2> QED
    BY <2>1, TextRead
<1> HIDE DEF newText
<1>6. fixed = [lead |-> draft.lead, v |-> <<newText>>, d |-> draft.d, i |-> draft.i, rest |-> draft.rest]
  <2>1. fixed = [draft EXCEPT !.v = <<newText>>]
    BY DEF FixVersionString, newText
  <2> QED
    BY <1>1, <2>1
<1>7. said # Empty /\ Hashes # Empty /\ said # Hashes
  BY DEF Digest, Empty, Hashes
<1> HIDE DEF said
<1>8. sad = [lead |-> draft.lead, v |-> <<newText>>, d |-> said,
             i |-> IF draft.i = draft.d THEN said ELSE draft.i, rest |-> draft.rest]
  <2>1. sad = WithPlaceholders(fixed, said)
    BY DEF ComputeSaid, said
  <2>2. fixed = [lead |-> fixed.lead, v |-> fixed.v, d |-> fixed.d, i |-> fixed.i, rest |-> fixed.rest]
    BY <1>6
  <2>3. sad = Placed(fixed, said)
    BY <2>1, <2>2, IdPut
  <2> QED
    BY <1>6, <2>3 DEF Placed
<1>9. IsSad(sad) /\ sad.v = <<newText>>
  <2>1. <<newText>> \in Seq(TextType) /\ Len(<<newText>>) = 1
    BY <1>5
  <2>2. /\ sad.v = <<newText>> /\ sad.lead \in Nat /\ sad.rest \in Nat
        /\ sad = [lead |-> sad.lead, v |-> sad.v, d |-> sad.d, i |-> sad.i, rest |-> sad.rest]
    BY <1>1, <1>8
  <2> QED
    BY <2>1, <2>2 DEF IsSad
<1>10. Body(sad) = Body(hashed)
  <2>1. FieldLen(said) = SaidLen /\ FieldLen(Hashes) = SaidLen
    BY <1>7 DEF FieldLen
  <2>2. /\ sad.lead = hashed.lead /\ sad.rest = hashed.rest
        /\ FieldLen(sad.d) = FieldLen(hashed.d) /\ FieldLen(sad.i) = FieldLen(hashed.i)
    BY <1>2, <1>8, <2>1
  <2> QED
    BY <2>2 DEF Body
<1>11. VerifySaid(sad)
  <2>1. sad.d = said /\ fixed.d = draft.d /\ fixed.i = draft.i
    BY <1>6, <1>8
  <2>2. WithPlaceholders(sad, Hashes) = WithPlaceholders(fixed, Hashes)
    <3>1. WithPlaceholders(fixed, Hashes) =
            [lead |-> draft.lead, v |-> <<newText>>, d |-> Hashes,
             i |-> IF draft.i = draft.d THEN Hashes ELSE draft.i, rest |-> draft.rest]
      BY <1>6, IdPut DEF Placed
    <3>2. draft.i # draft.d => draft.i # said
      BY <2>1
    <3>3. WithPlaceholders(sad, Hashes) =
            [lead |-> draft.lead, v |-> <<newText>>, d |-> Hashes,
             i |-> IF draft.i = draft.d THEN Hashes ELSE draft.i, rest |-> draft.rest]
      BY <1>8, <3>2, IdPut DEF Placed
    <3> QED
      BY <3>1, <3>3
  <2>3. ComputeSaid(sad) = WithPlaceholders(sad, said)
    BY <2>2 DEF ComputeSaid, said
  <2>4. ComputeSaid(sad).d = said
    BY <1>8, <2>3, IdPut DEF Placed
  <2> QED
    BY <2>1, <2>4 DEF VerifySaid
<1> QED
  BY <1>4, <1>9, <1>10, <1>11 DEF newText

----------------------------------------------------------------------------
(* Streams.                                                                *)

\* A stream is at least as long as its first message.
LEMMA FirstBytes ==
  ASSUME NEW stream, Len(stream) \in Nat, Len(stream) > 0, DOMAIN stream = 1..Len(stream),
         \A n \in 1..Len(stream) : stream[n].raw \in Nat
  PROVE  /\ BytesTo(stream)[0] = 0 /\ BytesTo(stream)[Len(stream)] \in Nat
         /\ \A n \in 0..Len(stream) : BytesTo(stream)[n] \in Nat
         /\ BytesTo(stream)[Len(stream)] >= stream[1].raw
<1> DEFINE N == Len(stream)
           numbers == [n \in DOMAIN stream |-> stream[n].raw]
           sum == Sums(numbers)
<1>1. numbers \in Seq(Nat) /\ Len(numbers) = N
  <2>1. numbers = [n \in 1..N |-> stream[n].raw]
    OBVIOUS
  <2>2. numbers \in [1..N -> Nat]
    BY <2>1
  <2> HIDE DEF numbers, N
  <2> QED
    BY <2>2 DEF N
<1>2. \A n \in 1..N : numbers[n] = stream[n].raw
  OBVIOUS
<1>3. BytesTo(stream) = sum
  BY DEF BytesTo
<1> HIDE DEF numbers
<1>4. /\ \A n \in 0..N : sum[n] \in Nat
      /\ sum[0] = 0
      /\ \A n \in 1..N : sum[n] = sum[n - 1] + numbers[n]
  BY <1>1, SumsLoop
<1> HIDE DEF sum
<1> DEFINE Held == {n \in 0..N : n = 0 \/ sum[n] >= stream[1].raw}
<1>5. N \in Nat /\ N > 0
  OBVIOUS
<1>6. \A n \in 0..N : n \in Held
  <2>1. 0 \in Held
    BY <1>5
  <2>2. ASSUME NEW n \in 1..N, n - 1 \in Held
        PROVE  n \in Held
    <3>1. sum[n] = sum[n - 1] + stream[n].raw /\ sum[n - 1] \in Nat /\ stream[n].raw \in Nat
      <4>1. n - 1 \in 0..N
        BY <1>5
      <4> QED
        BY <1>2, <1>4, <4>1
    <3>2. CASE n = 1
      BY <1>4, <3>1, <3>2
    <3>3. CASE n # 1
      <4>1. sum[n - 1] >= stream[1].raw
        BY <2>2, <3>3
      <4>2. stream[1].raw \in Nat
        BY <1>5
      <4> QED
        BY <3>1, <4>1, <4>2
    <3> QED
      BY <3>2, <3>3
  <2> HIDE DEF Held, N
  <2> QED
    BY <1>5, <2>1, <2>2, Turns
<1>7. sum[N] \in Nat /\ sum[N] >= stream[1].raw
  <2>1. N \in 0..N /\ N # 0
    BY <1>5
  <2> QED
    BY <1>4, <1>6, <2>1
<1> QED
  BY <1>3, <1>4, <1>7

\* The first message of a stream
LEMMA FirstOf ==
  ASSUME NEW made, made.raw \in Nat, NEW following \in Followers
  PROVE  LET stream == <<made>> \o following
         IN  /\ Len(stream) \in Nat /\ Len(stream) > 0 /\ DOMAIN stream = 1..Len(stream)
             /\ stream[1] = made
             /\ \A n \in 1..Len(stream) : stream[n].raw \in Nat
<1> DEFINE T == ToSet(following) \cup {made}
           stream == <<made>> \o following
<1>1. following \in Seq(ToSet(following)) /\ \A n \in DOMAIN following : following[n].raw \in Nat
  BY FollowersAssumption
<1>2. \A m \in ToSet(following) : m.raw \in Nat
  BY <1>1 DEF ToSet
<1>3. \A m \in T : m.raw \in Nat
  BY <1>2
<1>4. following \in Seq(T) /\ <<made>> \in Seq(T)
  <2>1. ToSet(following) \subseteq T /\ made \in T
    OBVIOUS
  <2> HIDE DEF T
  <2> QED
    BY <1>1, <2>1
<1> HIDE DEF T
<1>5. stream \in Seq(T) /\ Len(stream) = 1 + Len(following) /\ stream[1] = made
  BY <1>4
<1>6. Len(stream) \in Nat /\ DOMAIN stream = 1..Len(stream) /\ \A n \in 1..Len(stream) : stream[n] \in T
  <2> HIDE DEF stream
  <2> QED
    BY <1>5, LenProperties, ElementOfSeq
<1>7. Len(following) \in Nat
  BY <1>1, LenProperties
<1>8. Len(stream) > 0
  <2> HIDE DEF stream
  <2> QED
    BY <1>5, <1>7
<1> HIDE DEF stream
<1>9. \A n \in 1..Len(stream) : stream[n].raw \in Nat
  BY <1>3, <1>6
<1> QED
  BY <1>5, <1>6, <1>8, <1>9 DEF stream

\* A message that says its own size within the window is read as it was made.
LEMMA ReadFirst ==
  ASSUME NEW made, made.raw \in Nat, NEW following \in Followers,
         made.sad.v # <<>>, ParseVersion(made.sad.v[1]) = made.version, made.version # NoVersion,
         made.version.size = made.raw,
         made.sad.lead \in Nat, made.sad.lead + TagLen <= Window
  PROVE  FromRaw(<<made>> \o following) =
           [read |-> TRUE, sad |-> made.sad, kind |-> made.kind, raw |-> made.raw,
            version |-> made.version]
<1> DEFINE stream == <<made>> \o following
           hits == {n \in DOMAIN stream :
                      stream[n].sad.v # <<>>
                      /\ BytesTo(stream)[n - 1] + stream[n].sad.lead + TagLen <= Window}
           first == CHOOSE n \in hits : \A m \in hits : n <= m
<1>1. /\ Len(stream) \in Nat /\ Len(stream) > 0 /\ DOMAIN stream = 1..Len(stream)
      /\ stream[1] = made
      /\ \A n \in 1..Len(stream) : stream[n].raw \in Nat
  BY FirstOf
<1> HIDE DEF stream
<1>2. BytesTo(stream)[0] = 0 /\ BytesTo(stream)[Len(stream)] \in Nat
      /\ BytesTo(stream)[Len(stream)] >= made.raw
  BY <1>1, FirstBytes
<1>3. 1 \in hits /\ \A m \in hits : m \in Nat /\ 1 <= m
  <2>1. 1 \in DOMAIN stream /\ 1 - 1 = 0
    BY <1>1
  <2>2. BytesTo(stream)[1 - 1] + stream[1].sad.lead + TagLen <= Window
    BY <1>1, <1>2 DEF TagLen
  <2>3. 1 \in hits
    BY <1>1, <2>1, <2>2
  <2> QED
    BY <1>1, <2>3
<1>4. ExtractVersion(stream) = IF hits = {} THEN NoVersion ELSE ParseVersion(stream[first].sad.v[1])
  BY DEF ExtractVersion
<1> HIDE DEF hits
<1>5. first = 1
  <2>1. first \in hits /\ \A m \in hits : first <= m
    BY <1>3
  <2> HIDE DEF first
  <2>2. first \in Nat /\ first <= 1 /\ 1 <= first
    BY <1>3, <2>1
  <2> QED
    BY <2>2
<1> HIDE DEF first
<1>6. ExtractVersion(stream) = made.version
  BY <1>1, <1>3, <1>4, <1>5
<1>7. DecodesFrom(made, made.raw)
  BY DEF DecodesFrom
<1>8. ~(made.raw > BytesTo(stream)[Len(stream)])
  BY <1>2
<1>9. FromRaw(stream) =
        [read |-> TRUE, sad |-> made.sad, kind |-> made.kind, raw |-> made.raw,
         version |-> made.version]
  BY <1>1, <1>6, <1>7, <1>8, Zenon DEF FromRaw
<1> QED
  BY <1>9 DEF stream

\* Whatever is read as JSON is as long as its first message.
LEMMA JsonRead ==
  ASSUME NEW made, NEW following, made.kind = "JSON",
         FromRaw(<<made>> \o following).read, (<<made>> \o following)[1] = made
  PROVE  FromRaw(<<made>> \o following).raw = made.raw
<1> DEFINE stream == <<made>> \o following
           found  == ExtractVersion(stream)
           msgLen == IF found = NoVersion THEN BytesTo(stream)[Len(stream)] ELSE found.size
           inBody == IF made.sad.v = <<>> THEN NoVersion ELSE ParseVersion(made.sad.v[1])
           version == IF found = NoVersion THEN inBody ELSE found
<1> HIDE DEF stream
<1>1. FromRaw(stream) =
        IF msgLen > BytesTo(stream)[Len(stream)] \/ ~DecodesFrom(made, msgLen) THEN Unreadable
        ELSE [read |-> TRUE, sad |-> made.sad, kind |-> made.kind, raw |-> msgLen, version |-> version]
  <2>1. stream[1] = made
    BY DEF stream
  <2> QED
    BY <2>1 DEF FromRaw
<1> HIDE DEF msgLen, version
<1>2. Unreadable.read = FALSE
  BY DEF Unreadable
<1>3. DecodesFrom(made, msgLen) /\ FromRaw(stream).raw = msgLen
  <2>1. FromRaw(stream).read
    BY DEF stream
  <2> QED
    BY <1>1, <1>2, <2>1
<1>4. msgLen = made.raw
  BY <1>3 DEF DecodesFrom
<1> QED
  BY <1>3, <1>4 DEF stream

\* What a Hab makes says its size if it fits, and has the SAID that was computed
\* before the size was filled in.
LEMMA HabSays ==
  ASSUME NEW c \in Cases, c.maker = "hab", Made(c).version.size < Capacity(SizeDigits)
  PROVE  /\ Made(c).sad.v # <<>> /\ ParseVersion(Made(c).sad.v[1]) = Made(c).version
         /\ Made(c).version # NoVersion
         /\ Made(c).raw = Made(c).version.size /\ Made(c).raw \in Nat
         /\ VerifySaid(Made(c).sad)
<1> DEFINE fixed == FixVersionString(c.draft)
           size == Length(WithPlaceholders(c.draft, Hashes))
           sad == ComputeSaid(fixed)
           made == SerderNew(sad, "JSON")
           version == DefaultV1("JSON", size)
<1>1. IsSad(c.draft) /\ c.draft.v = <<VersionText(DefaultV1("JSON", 0))>>
      /\ (fixed.i = fixed.d \/ fixed.i # sad.d)
  BY CasesAssumption, HabDraftsAssumption
<1>2. /\ IsSad(sad) /\ size \in Nat
      /\ sad.v = <<VersionText(version)>>
      /\ size = Body(sad) + VersionFixed + SizeDigits
      /\ VerifySaid(sad)
  <2> HIDE DEF version
  <2>1. version = DefaultV1("JSON", size)
    BY DEF version
  <2> HIDE DEF fixed
  <2> HIDE DEF size
  <2>2. fixed = FixVersionString(c.draft) /\ size = Length(WithPlaceholders(c.draft, Hashes))
    BY DEF fixed, size
  <2> QED
    BY <1>1, <2>1, <2>2, HabMakes
<1>3. Made(c) = made
  BY DEF Made
<1>4. version \in Version /\ version.size = size
  <2> HIDE DEF size
  <2> QED
    BY <1>2 DEF DefaultV1, Version
<1>5. VersionText(version) \in TextType /\ VersionText(version).len = VersionFixed + Digits(size)
      /\ VersionText(version).version = version
  <2> HIDE DEF version, size
  <2> QED
    BY <1>4, TextRead DEF VersionText
<1> HIDE DEF version, size, sad
<1>6. sad.v # <<>> /\ sad.v[1] = VersionText(version)
  BY <1>2
<1>7. Length(sad) = Body(sad) + VersionFixed + Digits(size) /\ Body(sad) \in Nat
  <2>1. Length(sad) = Body(sad) + VersionText(version).len /\ Body(sad) \in Nat
    BY <1>2, <1>6, LengthOf
  <2>2. Digits(size) \in Nat /\ VersionFixed \in Nat
    BY <1>2, DigitsOf, SizesAssumption
  <2> QED
    BY <1>5, <2>1, <2>2
<1>8. /\ made.version \in Version
      /\ made.version.size = Body(sad) + VersionFixed + Digits(Length(sad))
      /\ made.sad = [sad EXCEPT !.v = <<VersionText(made.version)>>]
      /\ made.version = Resized(sad, "JSON", made.version.size)
  <2>1. made = SerderNew(sad, "JSON") /\ "JSON" \in Kinds
    BY DEF Kinds, made
  <2>2. IsSad(sad) /\ sad.v # <<>>
    BY <1>2, <1>6
  <2> HIDE DEF made
  <2>3. Says(made, sad, "JSON")
    BY <2>1, <2>2, SerderSays
  <2> QED
    BY <2>3 DEF Says
<1>9. Capacity(SizeDigits) \in Nat /\ VersionFixed \in Nat /\ SizeDigits \in Nat
  BY SizesAssumption, CapacityExceeds
<1>10. Digits(size) \in Nat /\ Digits(size) >= SizeDigits
       /\ (size < Capacity(SizeDigits) => Digits(size) = SizeDigits)
  BY <1>2, DigitsOf
<1>11. Length(sad) \in Nat
  BY <1>7, <1>9, <1>10
<1>12. Digits(Length(sad)) \in Nat /\ Digits(Length(sad)) >= SizeDigits
  BY <1>11, DigitsOf
<1>13. made.version.size < Capacity(SizeDigits)
  BY <1>3
<1> HIDE DEF made
<1>14. size < Capacity(SizeDigits)
  <2> DEFINE said == made.version.size
             capacity == Capacity(SizeDigits)
             digits == Digits(Length(sad))
             body == Body(sad)
  <2>1. /\ said = body + VersionFixed + digits /\ said < capacity /\ digits >= SizeDigits
        /\ size = body + VersionFixed + SizeDigits
        /\ body \in Nat /\ digits \in Nat /\ capacity \in Nat
    BY <1>2, <1>7, <1>8, <1>9, <1>12, <1>13
  <2> HIDE DEF said, capacity, digits, body
  <2>2. size < capacity
    BY <1>9, <2>1
  <2> QED
    BY <2>2 DEF capacity
<1>15. Length(sad) = size
  BY <1>2, <1>7, <1>10, <1>14
<1>16. /\ made.sad.v # <<>> /\ ParseVersion(made.sad.v[1]) = made.version
       /\ made.version # NoVersion
       /\ made.raw = made.version.size /\ made.raw \in Nat
       /\ made.version.size = Body(sad) + VersionFixed + SizeDigits
  <2>1. made = SerderNew(sad, "JSON") /\ Length(sad) < Capacity(SizeDigits)
    BY <1>14, <1>15 DEF made
  <2> QED
    BY <1>2, <1>6, <1>13, <2>1, SizeSaid DEF Kinds
<1>17. made.sad = sad
  <2>1. ParseVersion(sad.v[1]) = version
    BY <1>4, <1>6, <1>14, TextRead
  <2>2. made.version.size = size
    BY <1>2, <1>16
  <2>3. version # NoVersion
    BY <1>4, TextRead
  <2>4. version = [protocol |-> "KERI", kind |-> "JSON", size |-> size]
    BY DEF version, DefaultV1
  <2>5. made.version = version
    BY <1>8, <2>1, <2>2, <2>3, <2>4 DEF Resized
  <2>6. made.sad = [sad EXCEPT !.v = <<VersionText(version)>>]
    BY <1>8, <2>5
  <2>7. sad = [lead |-> sad.lead, v |-> sad.v, d |-> sad.d, i |-> sad.i, rest |-> sad.rest]
    BY <1>2 DEF IsSad
  <2> QED
    BY <1>2, <2>6, <2>7
<1> QED
  BY <1>2, <1>3, <1>16, <1>17

\* What Serder makes of any fields says its size if it fits.
LEMMA UserSays ==
  ASSUME NEW c \in Cases, c.maker # "hab", Made(c).sad.v # <<>>,
         Made(c).version.size < Capacity(SizeDigits), Length(c.draft) < Capacity(SizeDigits)
  PROVE  /\ ParseVersion(Made(c).sad.v[1]) = Made(c).version
         /\ Made(c).version # NoVersion
         /\ Made(c).raw = Made(c).version.size /\ Made(c).raw \in Nat
<1>1. Made(c) = SerderNew(c.draft, c.kind) /\ IsSad(c.draft) /\ c.kind \in Kinds
  BY CasesAssumption DEF Made, Kinds
<1>2. c.draft.v # <<>>
  BY <1>1 DEF SerderNew
<1> QED
  BY <1>1, <1>2, SizeSaid

\* The lead of a message is a number of bytes.
LEMMA LeadType ==
  ASSUME NEW c \in Cases, Made(c).sad.v # <<>>
  PROVE  Made(c).sad.lead \in Nat
<1> DEFINE sad == IF c.maker = "hab" THEN ComputeSaid(FixVersionString(c.draft)) ELSE c.draft
           kind == IF c.maker = "hab" THEN "JSON" ELSE c.kind
<1>1. Made(c) = SerderNew(sad, kind)
  BY DEF Made
<1>2. IsSad(c.draft)
  BY CasesAssumption
<1>3. IsSad(sad)
  <2>1. CASE c.maker = "hab"
    <3> DEFINE fixed == FixVersionString(c.draft)
    <3>1. c.draft.v = <<VersionText(DefaultV1("JSON", 0))>>
          /\ (fixed.i = fixed.d \/ fixed.i # ComputeSaid(fixed).d)
      BY <2>1, HabDraftsAssumption
    <3> HIDE DEF fixed
    <3>2. IsSad(ComputeSaid(fixed))
      BY <1>2, <3>1, HabMakes DEF fixed
    <3> QED
      BY <2>1, <3>2 DEF fixed
  <2>2. CASE c.maker # "hab"
    BY <1>2, <2>2
  <2> QED
    BY <2>1, <2>2
<1>4. kind \in Kinds
  BY CasesAssumption DEF Kinds
<1> HIDE DEF sad, kind
<1>5. sad.lead \in Nat
  BY <1>3 DEF IsSad
<1>6. sad.v # <<>>
  BY <1>1 DEF SerderNew
<1>7. Made(c).sad = [sad EXCEPT !.v = <<VersionText(Made(c).version)>>] /\ Made(c).version \in Version
  BY <1>1, <1>3, <1>4, <1>6, SerderSays, SMTT(30) DEF Says
<1>8. Made(c).sad.lead = sad.lead
  BY <1>3, <1>7, TextRead, TextPut
<1> QED
  BY <1>5, <1>8

\* A message that says its size is cut out of any stream as it was made, with the
\* SAID it was given, and reading takes no byte of the next one (Serder::new,
\* Serder::from_raw, fix_version_string, verify_said).
THEOREM MessageReadsAsMade == Spec => []ReadsAsMade
<1>1. MessageOK => ReadsAsMade
  <2> SUFFICES ASSUME MessageOK, event # NotMade, NEW following \in Followers
               PROVE  LET got == FromRaw(<<event>> \o following)
                      IN  /\ (event.sad.v # <<>> /\ Fits /\ event.sad.lead + TagLen <= Window) =>
                               /\ got.read /\ got.sad = event.sad
                               /\ got.raw = event.raw /\ got.version = event.version
                               /\ case.maker = "hab" => VerifySaid(got.sad)
                          /\ got.read /\ event.kind = "JSON" => got.raw = event.raw
    BY DEF ReadsAsMade
  <2>1. case \in Cases /\ event = Made(case)
    BY DEF MessageOK
  <2> DEFINE got == FromRaw(<<event>> \o following)
  <2>2. ASSUME event.sad.v # <<>>, Fits, event.sad.lead + TagLen <= Window
        PROVE  /\ got.read /\ got.sad = event.sad
               /\ got.raw = event.raw /\ got.version = event.version
               /\ case.maker = "hab" => VerifySaid(got.sad)
    <3>1. event.sad.lead \in Nat
      BY <2>1, <2>2, LeadType
    <3>2. /\ ParseVersion(event.sad.v[1]) = event.version
          /\ event.version # NoVersion
          /\ event.raw = event.version.size /\ event.raw \in Nat
          /\ case.maker = "hab" => VerifySaid(event.sad)
      <4>1. CASE case.maker = "hab"
        BY <2>1, <2>2, <4>1, HabSays DEF Fits
      <4>2. CASE case.maker # "hab"
        BY <2>1, <2>2, <4>2, UserSays DEF Fits
      <4> QED
        BY <4>1, <4>2
    <3>3. got = [read |-> TRUE, sad |-> event.sad, kind |-> event.kind, raw |-> event.raw,
                 version |-> event.version]
      BY <2>2, <3>1, <3>2, ReadFirst
    <3> HIDE DEF got
    <3> QED
      BY <3>2, <3>3
  <2>3. ASSUME got.read, event.kind = "JSON"
        PROVE  got.raw = event.raw
    <3>1. (<<event>> \o following)[1] = event
      BY FollowersAssumption
    <3> QED
      BY <2>3, <3>1, JsonRead
  <2> QED
    BY <2>2, <2>3
<1> QED
  BY <1>1, MessageInvariant, PTL

=============================================================================
