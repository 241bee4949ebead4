---------------------------- MODULE EscrowProofs ----------------------------
(***************************************************************************)
(* Proofs about the promotion of partially witnessed events: the receipts  *)
(* an entry holds are the first of those handed in since the event was put *)
(* at its place, up to the limit, so that what Enough counts is who has    *)
(* receipted it.  Holds for any thresholds, limits, places and witnesses.  *)
(*                                                                         *)
(* Then about the two queues: they keep to their limits, which needs the   *)
(* entries of a map counted one by one, and pruning, a loop over a list,   *)
(* loses nothing fresh.                                                    *)
(***************************************************************************)
EXTENDS MCEscrow, TLAPS, FiniteSetTheorems, SequenceTheorems, WellFoundedInduction

gvars == <<vars, given>>

\* What an entry has kept of the receipts g handed in for its place
Kept(entry, g) ==
  /\ Len(entry.receipts) = IF Len(g) <= MaxAttachments THEN Len(g) ELSE MaxAttachments
  /\ \A j \in DOMAIN entry.receipts : entry.receipts[j].w = g[j]

GivenTypeOK ==
  /\ partially_witnessed \in [Place -> PartiallyWitnessedEntry \cup {NoEntry}]
  /\ given \in [Place -> Seq(Witness)]
  /\ now \in Nat

\* PromotedWhenReceipted compares two numbers of witnesses; it is inductive
\* only with the lists they are the numbers of
ReceiptsKept ==
  /\ GivenTypeOK
  /\ \A x \in Place : partially_witnessed[x] # NoEntry => Kept(partially_witnessed[x], given[x])

----------------------------------------------------------------------------

\* An entry that has kept its receipts is counted by who receipted it
LEMMA KeptIsCounted ==
  ASSUME NEW entry \in PartiallyWitnessedEntry, NEW g \in Seq(Witness), Kept(entry, g)
  PROVE  LET reached == Cardinality(ToSet(g)) >= entry.backer_threshold
         IN  /\ Enough(entry) => reached
             /\ reached /\ Len(g) <= MaxAttachments => Enough(entry)
<1> DEFINE rs == entry.receipts
           Heard == {r.w : r \in ToSet(rs)}
           Given == ToSet(g)
<1>1. /\ rs \in Seq(Receipt) /\ entry.backer_threshold \in Nat
      /\ DOMAIN rs = 1..Len(rs) /\ DOMAIN g = 1..Len(g)
      /\ Len(rs) \in Nat /\ Len(g) \in Nat
  BY DEF PartiallyWitnessedEntry
<1>2. Heard = {rs[j].w : j \in DOMAIN rs}
  BY DEF ToSet
<1>3. Given = {g[j] : j \in DOMAIN g}
  BY DEF ToSet
<1>4. DOMAIN rs \subseteq DOMAIN g
  BY <1>1, EscrowBoundsAssumption DEF Kept
<1>5. Heard \subseteq Given
  BY <1>2, <1>3, <1>4 DEF Kept
<1>6. Len(g) <= MaxAttachments => Heard = Given
  <2> SUFFICES ASSUME Len(g) <= MaxAttachments
               PROVE  Given \subseteq Heard
    BY <1>5
  <2>1. DOMAIN rs = DOMAIN g
    BY <1>1 DEF Kept
  <2> QED
    BY <1>2, <1>3, <2>1 DEF Kept
<1>7. Given \in SUBSET Witness
  BY <1>1, <1>3
<1>8. IsFiniteSet(Given)
  BY <1>7, EscrowSetsAssumption, FS_Subset
<1>9. /\ Cardinality(Heard) <= Cardinality(Given)
      /\ Cardinality(Heard) \in Nat /\ Cardinality(Given) \in Nat
  BY <1>5, <1>8, FS_Subset, FS_CardinalityType
<1>10. Enough(entry) <=> Cardinality(Heard) >= entry.backer_threshold
  BY DEF Enough
<1> HIDE DEF Heard, Given
<1>11. Enough(entry) => Cardinality(Given) >= entry.backer_threshold
  BY <1>1, <1>9, <1>10
<1>12. Cardinality(Given) >= entry.backer_threshold /\ Len(g) <= MaxAttachments => Enough(entry)
  BY <1>6, <1>10
<1> QED
  BY <1>11, <1>12 DEF Given

\* A receipt handed in is kept at the end, or refused because the list is full
LEMMA GiveKeeps ==
  ASSUME ReceiptsKept, NEW x \in Place, NEW r \in Receipt, Give(x, r)
  PROVE  ReceiptsKept'
<1> DEFINE entry == partially_witnessed[x]
           g == given[x]
<1>1. /\ given' = [given EXCEPT ![x] = Append(g, r.w)]
      /\ entry # NoEntry
  BY DEF Give, add_witness_receipt
<1>2. /\ entry \in PartiallyWitnessedEntry /\ g \in Seq(Witness) /\ Kept(entry, g)
      /\ r.w \in Witness
  BY <1>1 DEF ReceiptsKept, GivenTypeOK, Receipt
<1>3. /\ Append(g, r.w) \in Seq(Witness) /\ Len(Append(g, r.w)) = Len(g) + 1 /\ Len(g) \in Nat
      /\ Append(g, r.w)[Len(g) + 1] = r.w
      /\ \A j \in 1..Len(g) : Append(g, r.w)[j] = g[j]
  BY <1>2
<1>4. /\ entry.receipts \in Seq(Receipt) /\ Len(entry.receipts) \in Nat
      /\ DOMAIN entry.receipts = 1..Len(entry.receipts)
  BY <1>2 DEF PartiallyWitnessedEntry
<1>5. given' \in [Place -> Seq(Witness)]
  BY <1>1, <1>3 DEF ReceiptsKept, GivenTypeOK
<1>6. CASE add_witness_receipt(x, r)
  <2> DEFINE rs == Append(entry.receipts, r)
             new == [entry EXCEPT !.receipts = rs]
  <2>1. /\ Len(entry.receipts) < MaxAttachments
        /\ partially_witnessed' = [partially_witnessed EXCEPT ![x] = new]
        /\ now' = now
    BY <1>6 DEF add_witness_receipt
  <2>2. /\ rs \in Seq(Receipt) /\ Len(rs) = Len(entry.receipts) + 1 /\ DOMAIN rs = 1..Len(rs)
        /\ rs[Len(rs)] = r
        /\ \A j \in 1..Len(entry.receipts) : rs[j] = entry.receipts[j]
    BY <1>4
  <2>3. Len(g) = Len(entry.receipts) /\ Len(g) < MaxAttachments
    BY <1>2, <1>3, <1>4, <2>1, EscrowBoundsAssumption DEF Kept
  <2>4. new \in PartiallyWitnessedEntry /\ new.receipts = rs
    BY <1>2, <2>2 DEF PartiallyWitnessedEntry
  <2>5. Kept(new, Append(g, r.w))
    <3>1. Len(rs) = IF Len(Append(g, r.w)) <= MaxAttachments
                    THEN Len(Append(g, r.w)) ELSE MaxAttachments
      BY <1>3, <2>2, <2>3, EscrowBoundsAssumption
    <3>2. \A j \in 1..Len(entry.receipts) : entry.receipts[j].w = g[j]
      BY <1>2, <1>4 DEF Kept
    <3>3. ASSUME NEW j \in DOMAIN rs
          PROVE  rs[j].w = Append(g, r.w)[j]
      <4>1. j \in 1..Len(entry.receipts) \/ j = Len(entry.receipts) + 1
        BY <1>4, <2>2
      <4> QED
        BY <1>3, <2>2, <2>3, <3>2, <4>1
    <3> HIDE DEF rs, new
    <3> QED
      BY <2>4, <3>1, <3>3 DEF Kept
  <2> HIDE DEF new
  <2> QED
    BY <1>1, <1>5, <2>1, <2>4, <2>5 DEF ReceiptsKept, GivenTypeOK
<1>7. CASE Len(entry.receipts) >= MaxAttachments /\ UNCHANGED vars
  <2>1. partially_witnessed' = partially_witnessed /\ now' = now
    BY <1>7 DEF vars
  <2>2. Len(entry.receipts) = MaxAttachments /\ Len(g) >= MaxAttachments
    BY <1>2, <1>3, <1>4, <1>7, EscrowBoundsAssumption DEF Kept
  <2>3. Len(entry.receipts) = IF Len(Append(g, r.w)) <= MaxAttachments
                              THEN Len(Append(g, r.w)) ELSE MaxAttachments
    BY <1>3, <2>2, EscrowBoundsAssumption
  <2>4. \A j \in DOMAIN entry.receipts : entry.receipts[j].w = Append(g, r.w)[j]
    BY <1>2, <1>3, <1>4, <2>2, EscrowBoundsAssumption DEF Kept
  <2>5. Kept(entry, Append(g, r.w))
    BY <2>3, <2>4 DEF Kept
  <2> QED
    BY <1>1, <1>5, <2>1, <2>5 DEF ReceiptsKept, GivenTypeOK
<1> QED
  BY <1>6, <1>7 DEF Give

\* A fresh entry has no receipts, and no history; a promoted one is gone
LEMMA EntryKeeps ==
  ASSUME ReceiptsKept, NEW x \in Place, given' = [given EXCEPT ![x] = <<>>],
         \/ \E e \in Event, bt \in BackerThresholds : escrow_partially_witnessed(x, e, bt)
         \/ check_and_promote_witnessed(x)
  PROVE  ReceiptsKept'
<1>1. given' \in [Place -> Seq(Witness)]
  BY DEF ReceiptsKept, GivenTypeOK
<1>2. ASSUME NEW e \in Event, NEW bt \in BackerThresholds, escrow_partially_witnessed(x, e, bt)
      PROVE  ReceiptsKept'
  <2> DEFINE new == [ev |-> e, receipts |-> <<>>, backer_threshold |-> bt, at |-> now]
  <2>1. partially_witnessed' = [partially_witnessed EXCEPT ![x] = new] /\ now' = now
    BY <1>2 DEF escrow_partially_witnessed
  <2>2. new \in PartiallyWitnessedEntry
    BY EscrowSetsAssumption DEF PartiallyWitnessedEntry, ReceiptsKept, GivenTypeOK
  <2>3. Kept(new, <<>>)
    BY EscrowBoundsAssumption DEF Kept
  <2> HIDE DEF new
  <2> QED
    BY <1>1, <2>1, <2>2, <2>3 DEF ReceiptsKept, GivenTypeOK
<1>3. CASE check_and_promote_witnessed(x)
  BY <1>1, <1>3 DEF check_and_promote_witnessed, ReceiptsKept, GivenTypeOK
<1> QED
  BY <1>2, <1>3

\* Whatever the escrow is told and in whatever order, a partially witnessed
\* event is ready for promotion exactly when enough different witnesses have
\* receipted its place since it was put there, unless more receipts came than
\* the limit lets in (add_witness_receipt, check_and_promote_witnessed).
THEOREM EscrowPromotedWhenReceipted == GivenSpec => []PromotedWhenReceipted
<1>1. GivenInit => ReceiptsKept
  BY DEF GivenInit, Init, ReceiptsKept, GivenTypeOK
<1>2. ReceiptsKept /\ [GivenNext]_gvars => ReceiptsKept'
  <2> SUFFICES ASSUME ReceiptsKept, [GivenNext]_gvars
               PROVE  ReceiptsKept'
    OBVIOUS
  <2>1. ASSUME NEW x \in Place, NEW w \in Witness, NEW e \in Event, Give(x, [w |-> w, of |-> e])
        PROVE  ReceiptsKept'
    BY <2>1, GiveKeeps DEF Receipt
  <2>2. ASSUME NEW x \in Place, given' = [given EXCEPT ![x] = <<>>],
               \/ \E e \in Event, bt \in BackerThresholds : escrow_partially_witnessed(x, e, bt)
               \/ check_and_promote_witnessed(x)
        PROVE  ReceiptsKept'
    BY <2>2, EntryKeeps
  <2>3. ASSUME NEW x \in Place, UNCHANGED given,
               \/ \E e \in Event : escrow_out_of_order(x, e) \/ escrow_partially_signed(x, e)
               \/ process_escrow(x)
        PROVE  ReceiptsKept'
    <3>1. UNCHANGED <<partially_witnessed, now>>
      BY <2>3 DEF escrow_out_of_order, escrow_partially_signed, process_escrow
    <3> QED
      BY <2>3, <3>1 DEF ReceiptsKept, GivenTypeOK
  <2>4. CASE prune /\ UNCHANGED given
    BY <2>4 DEF prune, ReceiptsKept, GivenTypeOK
  <2>5. CASE Tick /\ UNCHANGED given
    BY <2>5 DEF Tick, ReceiptsKept, GivenTypeOK
  <2>6. CASE UNCHANGED gvars
    BY <2>6 DEF gvars, vars, ReceiptsKept, GivenTypeOK
  <2> QED
    BY <2>1, <2>2, <2>3, <2>4, <2>5, <2>6 DEF GivenNext
<1>3. ReceiptsKept => PromotedWhenReceipted
  BY KeptIsCounted DEF ReceiptsKept, GivenTypeOK, PromotedWhenReceipted
<1> QED
  BY <1>1, <1>2, <1>3, PTL DEF GivenSpec, gvars

----------------------------------------------------------------------------
(* The queues.                                                             *)

\* A set of natural numbers that is not empty has a least element.
LEMMA LeastNumber ==
  ASSUME NEW S \in SUBSET Nat, S # {}
  PROVE  \E least \in S : \A n \in S : least <= n
<1>1. PICK least \in S : \A n \in S : <<n, least>> \notin OpToRel(<, Nat)
  BY WFMin, NatLessThanWellFounded, Zenon
<1>2. \A n \in S : ~(n < least)
  BY <1>1 DEF OpToRel
<1> QED
  BY <1>2

\* kept is what the retain loop holds after each of the first n entries of s
Retains(s, n, kept) ==
  kept = [j \in 0..n |->
            IF j = 0 THEN <<>>
            ELSE IF Fresh(s[j]) THEN Append(kept[j - 1], s[j]) ELSE kept[j - 1]]

\* After n entries: a list no longer than they are, with all of them that are
\* fresh
RetainedOf(s, n, kept) ==
  /\ DOMAIN kept = 0..n
  /\ \A j \in 0..n :
       /\ kept[j] \in Seq(EscrowedEvent) /\ Len(kept[j]) <= j
       /\ \A i \in 1..j : Fresh(s[i]) => s[i] \in ToSet(kept[j])

\* The loop can go on.
LEMMA RetainLoop ==
  ASSUME NEW s \in Seq(EscrowedEvent)
  PROVE  \A n \in 0..Len(s) : \E kept : Retains(s, n, kept)
<1> DEFINE Stuck == {n \in 0..Len(s) : ~\E kept : Retains(s, n, kept)}
<1>0. Len(s) \in Nat
  BY LenProperties
<1> SUFFICES ASSUME Stuck # {} PROVE FALSE
  OBVIOUS
<1>1. Stuck \in SUBSET Nat
  BY <1>0
<1>2. PICK n \in Stuck : \A j \in Stuck : n <= j
  BY <1>1, LeastNumber
<1>3. n \in Nat /\ n \in 0..Len(s) /\ ~\E kept : Retains(s, n, kept)
  BY <1>1, <1>2
<1>4. CASE n = 0
  <2> DEFINE none == [j \in 0..0 |-> <<>>]
  <2>1. Retains(s, 0, none)
    BY DEF Retains
  <2> HIDE DEF none
  <2> QED
    BY <1>3, <1>4, <2>1
<1>5. CASE n # 0
  <2>1. n - 1 \in 0..Len(s) /\ n - 1 \in Nat /\ ~(n <= n - 1)
    BY <1>0, <1>3, <1>5
  <2>2. PICK kept : Retains(s, n - 1, kept)
    BY <1>2, <2>1
  <2> DEFINE more == [j \in 0..n |->
                        IF j = n
                        THEN IF Fresh(s[n]) THEN Append(kept[n - 1], s[n]) ELSE kept[n - 1]
                        ELSE kept[j]]
             Turn(f, j) == IF j = 0 THEN <<>>
                           ELSE IF Fresh(s[j]) THEN Append(f[j - 1], s[j]) ELSE f[j - 1]
  <2>3. \A j \in 0..(n - 1) : more[j] = kept[j] /\ j \in 0..n
    BY <1>3
  <2>4. more[n] = Turn(kept, n)
    BY <1>3, <1>5
  <2>5. \A j \in 0..(n - 1) : kept[j] = Turn(kept, j)
    BY <2>2 DEF Retains
  <2>6. \A j \in 0..n : j = 0 \/ j - 1 \in 0..(n - 1)
    BY <1>3
  <2>7. more = [j \in 0..n |-> more[j]]
    OBVIOUS
  <2> HIDE DEF more
  <2>8. \A j \in 0..n : Turn(more, j) = Turn(kept, j)
    BY <2>3, <2>6
  <2>9. \A j \in 0..n : more[j] = Turn(more, j)
    <3>1. \A j \in 0..n : j = n \/ j \in 0..(n - 1)
      BY <1>3
    <3> HIDE DEF Turn
    <3> QED
      BY <2>3, <2>4, <2>5, <2>8, <3>1
  <2>10. Retains(s, n, more)
    <3> HIDE DEF Turn
    <3>1. more = [j \in 0..n |-> Turn(more, j)]
      BY <2>7, <2>9
    <3> QED
      BY <3>1 DEF Retains, Turn
  <2> QED
    BY <1>3, <2>10
<1> QED
  BY <1>4, <1>5

\* The last entry of a list that grows by one is in it, and so is what was.
LEMMA AppendToSet ==
  ASSUME NEW T, NEW s \in Seq(T), NEW e \in T
  PROVE  /\ Append(s, e) \in Seq(T) /\ Len(Append(s, e)) = Len(s) + 1 /\ Len(s) \in Nat
         /\ ToSet(Append(s, e)) = ToSet(s) \cup {e}
<1>1. /\ Append(s, e) \in Seq(T) /\ Len(Append(s, e)) = Len(s) + 1
      /\ \A i \in 1..Len(s) : Append(s, e)[i] = s[i]
      /\ Append(s, e)[Len(s) + 1] = e
      /\ Len(s) \in Nat /\ DOMAIN s = 1..Len(s) /\ DOMAIN Append(s, e) = 1..(Len(s) + 1)
  BY AppendProperties, LenProperties
<1>2. \A i \in 1..(Len(s) + 1) : i \in 1..Len(s) \/ i = Len(s) + 1
  BY <1>1
<1>3. \A i \in 1..Len(s) : i \in 1..(Len(s) + 1)
  BY <1>1
<1>4. Len(s) + 1 \in 1..(Len(s) + 1)
  BY <1>1
<1> QED
  BY <1>1, <1>2, <1>3, <1>4 DEF ToSet

\* What the loop keeps.
LEMMA RetainKeeps ==
  ASSUME NEW s \in Seq(EscrowedEvent), NEW kept, Retains(s, Len(s), kept)
  PROVE  RetainedOf(s, Len(s), kept)
<1> DEFINE N == Len(s)
           Good(j) == /\ kept[j] \in Seq(EscrowedEvent) /\ Len(kept[j]) <= j
                      /\ \A i \in 1..j : Fresh(s[i]) => s[i] \in ToSet(kept[j])
           Bad == {j \in 0..N : ~Good(j)}
<1>1. N \in Nat /\ \A j \in 1..N : s[j] \in EscrowedEvent
  BY LenProperties, ElementOfSeq
<1>2. /\ DOMAIN kept = 0..N
      /\ kept[0] = <<>>
      /\ \A j \in 1..N : kept[j] = IF Fresh(s[j]) THEN Append(kept[j - 1], s[j]) ELSE kept[j - 1]
  <2> DEFINE Turn(j) == IF j = 0 THEN <<>>
                        ELSE IF Fresh(s[j]) THEN Append(kept[j - 1], s[j]) ELSE kept[j - 1]
  <2>1. kept = [j \in 0..N |-> Turn(j)]
    BY DEF Retains
  <2> HIDE DEF Turn, N
  <2>2. DOMAIN kept = 0..N /\ \A j \in 0..N : kept[j] = Turn(j)
    BY <2>1
  <2>3. 0 \in 0..N /\ Turn(0) = <<>>
    BY <1>1 DEF Turn
  <2>4. \A j \in 1..N : j \in 0..N
                        /\ Turn(j) = IF Fresh(s[j]) THEN Append(kept[j - 1], s[j]) ELSE kept[j - 1]
    BY <1>1 DEF Turn
  <2> QED
    BY <2>2, <2>3, <2>4
<1>3. Bad = {}
  <2> SUFFICES ASSUME Bad # {} PROVE FALSE
    OBVIOUS
  <2> HIDE DEF N
  <2>1. Bad \in SUBSET Nat
    BY <1>1
  <2>2. PICK n \in Bad : \A j \in Bad : n <= j
    BY <2>1, LeastNumber
  <2>3. n \in Nat /\ n \in 0..N /\ ~Good(n)
    BY <1>1, <2>2
  <2>4. n # 0
    <3>1. Good(0)
      BY <1>2
    <3> QED
      BY <2>3, <3>1
  <2>5. n \in 1..N /\ n - 1 \in 0..N /\ ~(n <= n - 1)
    BY <1>1, <2>3, <2>4
  <2>6. Good(n - 1)
    BY <2>2, <2>5
  <2>7. \A i \in 1..n : i \in 1..(n - 1) \/ i = n
    BY <2>3, <2>4
  <2>8. kept[n - 1] \in Seq(EscrowedEvent) /\ s[n] \in EscrowedEvent
    BY <1>1, <2>5, <2>6
  <2>9. Good(n)
    <3>1. CASE Fresh(s[n])
      <4>1. kept[n] = Append(kept[n - 1], s[n])
        BY <1>2, <2>5, <3>1
      <4>2. /\ kept[n] \in Seq(EscrowedEvent) /\ Len(kept[n]) = Len(kept[n - 1]) + 1
            /\ Len(kept[n - 1]) \in Nat
            /\ ToSet(kept[n]) = ToSet(kept[n - 1]) \cup {s[n]}
        BY <2>8, <4>1, AppendToSet
      <4>3. Len(kept[n]) <= n
        BY <2>3, <2>6, <4>2
      <4> QED
        BY <2>6, <2>7, <4>2, <4>3
    <3>2. CASE ~Fresh(s[n])
      <4>1. kept[n] = kept[n - 1]
        BY <1>2, <2>5, <3>2
      <4>2. Len(kept[n]) \in Nat
        BY <2>8, <4>1, LenProperties
      <4>3. Len(kept[n]) <= n
        BY <2>3, <2>6, <4>1, <4>2
      <4> QED
        BY <2>6, <2>7, <3>2, <4>1, <4>3
    <3> QED
      BY <3>1, <3>2
  <2> QED
    BY <2>3, <2>9
<1> QED
  BY <1>2, <1>3 DEF RetainedOf

\* Pruning a list leaves a list no longer, with all that is fresh.
LEMMA RetainedFields ==
  ASSUME NEW s \in Seq(EscrowedEvent)
  PROVE  /\ Retained(s) \in Seq(EscrowedEvent) /\ Len(Retained(s)) <= Len(s)
         /\ \A j \in DOMAIN s : Fresh(s[j]) => s[j] \in ToSet(Retained(s))
<1>0. Len(s) \in Nat /\ DOMAIN s = 1..Len(s) /\ Len(s) \in 0..Len(s)
  BY LenProperties
<1> DEFINE Found == CHOOSE kept : Retains(s, Len(s), kept)
<1>1. Retains(s, Len(s), Found)
  <2>1. \E kept : Retains(s, Len(s), kept)
    BY <1>0, RetainLoop
  <2> QED
    BY <2>1, Zenon
<1>2. Retained(s) = Found[Len(s)]
  BY DEF Retained, Retains
<1> HIDE DEF Found
<1>3. RetainedOf(s, Len(s), Found)
  BY <1>1, RetainKeeps
<1> QED
  BY <1>0, <1>2, <1>3 DEF RetainedOf

\* A map of lists within the limit for one place
QueueOK(map) ==
  /\ map \in [Place -> Seq(EscrowedEvent)]
  /\ \A x \in Place : Len(map[x]) <= MaxPerKey

\* The entries of such a map can be counted.
LEMMA EntriesCounted ==
  ASSUME NEW map, QueueOK(map)
  PROVE  /\ Entries(map) = {y \in Place \X (1..MaxPerKey) : y[2] <= Len(map[y[1]])}
         /\ IsFiniteSet(Entries(map)) /\ Count(map) \in Nat
<1>1. \A x \in Place : Len(map[x]) \in Nat /\ DOMAIN map[x] = 1..Len(map[x]) /\ Len(map[x]) <= MaxPerKey
  BY LenProperties DEF QueueOK
<1>2. \A x \in Place : DOMAIN map[x] = {j \in 1..MaxPerKey : j <= Len(map[x])}
  BY <1>1, EscrowBoundsAssumption
<1>3. Entries(map) = {y \in Place \X (1..MaxPerKey) : y[2] <= Len(map[y[1]])}
  BY <1>2 DEF Entries
<1>4. IsFiniteSet(Place \X (1..MaxPerKey))
  <2>1. IsFiniteSet(Place) /\ IsFiniteSet(1..MaxPerKey)
    BY EscrowSetsAssumption, EscrowBoundsAssumption, FS_Interval
  <2> QED
    BY <2>1, FS_Product
<1>5. IsFiniteSet(Entries(map))
  BY <1>3, <1>4, FS_Subset
<1> QED
  BY <1>3, <1>5, FS_CardinalityType DEF Count

\* Lists that are no longer have no more entries.
LEMMA FewerEntries ==
  ASSUME NEW map, QueueOK(map), NEW map2, map2 \in [Place -> Seq(EscrowedEvent)],
         \A x \in Place : Len(map2[x]) <= Len(map[x])
  PROVE  QueueOK(map2) /\ Count(map2) <= Count(map)
<1>1. \A x \in Place : Len(map[x]) \in Nat /\ Len(map2[x]) \in Nat /\ Len(map[x]) <= MaxPerKey
  BY LenProperties DEF QueueOK
<1>2. QueueOK(map2)
  BY <1>1, EscrowBoundsAssumption DEF QueueOK
<1>3. Entries(map2) \subseteq Entries(map) /\ IsFiniteSet(Entries(map))
  <2>1. /\ Entries(map) = {y \in Place \X (1..MaxPerKey) : y[2] <= Len(map[y[1]])}
        /\ Entries(map2) = {y \in Place \X (1..MaxPerKey) : y[2] <= Len(map2[y[1]])}
        /\ IsFiniteSet(Entries(map))
    BY <1>2, EntriesCounted
  <2>2. \A y \in Place \X (1..MaxPerKey) : y[2] <= Len(map2[y[1]]) => y[2] <= Len(map[y[1]])
    BY <1>1, EscrowBoundsAssumption
  <2> QED
    BY <2>1, <2>2
<1> QED
  BY <1>2, <1>3, FS_Subset DEF Count

\* map2 is map with new after the entries of x.
WithEntry(map, x, new, map2) == map2 = [map EXCEPT ![x] = Append(@, new)]

\* An entry appended is one entry more.
LEMMA OneMoreEntry ==
  ASSUME NEW map, QueueOK(map), NEW x \in Place, NEW new \in EscrowedEvent,
         Len(map[x]) < MaxPerKey, NEW map2, WithEntry(map, x, new, map2)
  PROVE  QueueOK(map2) /\ Count(map2) = Count(map) + 1
<1> DEFINE place == <<x, Len(map[x]) + 1>>
<1>1. /\ map[x] \in Seq(EscrowedEvent) /\ Len(map[x]) \in Nat
      /\ Append(map[x], new) \in Seq(EscrowedEvent) /\ Len(Append(map[x], new)) = Len(map[x]) + 1
  BY AppendProperties, LenProperties DEF QueueOK
<1>2. /\ map2 \in [Place -> Seq(EscrowedEvent)] /\ map2[x] = Append(map[x], new)
      /\ \A z \in Place : z # x => map2[z] = map[z]
  BY <1>1 DEF QueueOK, WithEntry
<1>3. QueueOK(map2)
  <2>1. \A z \in Place : Len(map2[z]) <= MaxPerKey
    <3> TAKE z \in Place
    <3>1. CASE z = x
      BY <1>1, <1>2, <3>1, EscrowBoundsAssumption
    <3>2. CASE z # x
      BY <1>2, <3>2 DEF QueueOK
    <3> QED
      BY <3>1, <3>2
  <2> QED
    BY <1>2, <2>1 DEF QueueOK
<1>4. /\ Entries(map) = {y \in Place \X (1..MaxPerKey) : y[2] <= Len(map[y[1]])}
      /\ Entries(map2) = {y \in Place \X (1..MaxPerKey) : y[2] <= Len(map2[y[1]])}
      /\ IsFiniteSet(Entries(map))
  BY <1>3, EntriesCounted
<1>5. \A y \in Place \X (1..MaxPerKey) :
        y[2] <= Len(map2[y[1]]) <=> y[2] <= Len(map[y[1]]) \/ y = place
  <2> TAKE y \in Place \X (1..MaxPerKey)
  <2>1. CASE y[1] # x
    BY <1>2, <2>1
  <2>2. CASE y[1] = x
    <3>1. y[2] \in Nat /\ Len(map2[y[1]]) = Len(map[x]) + 1
      BY <1>1, <1>2, <2>2, EscrowBoundsAssumption
    <3>2. y = <<y[1], y[2]>>
      OBVIOUS
    <3> QED
      BY <1>1, <2>2, <3>1, <3>2
  <2> QED
    BY <2>1, <2>2
<1>6. place \in Place \X (1..MaxPerKey) /\ ~(place[2] <= Len(map[place[1]]))
  BY <1>1, EscrowBoundsAssumption
<1>7. Entries(map2) = Entries(map) \cup {place} /\ place \notin Entries(map)
  BY <1>4, <1>5, <1>6
<1>8. Cardinality(Entries(map2)) = Cardinality(Entries(map)) + 1
  <2> HIDE DEF place
  <2> QED
    BY <1>4, <1>7, FS_AddElement
<1> QED
  BY <1>3, <1>8 DEF Count

\* QueuesBounded in the form that steps are checked against
Bounded ==
  /\ TypeOK /\ QueueOK(out_of_order) /\ QueueOK(partially_signed)
  /\ Count(out_of_order) + Count(partially_signed) <= MaxEntries

\* An event that is put in a queue finds room there, and room in total.
LEMMA PushedBounded ==
  ASSUME Bounded, NEW map, QueueOK(map), map \in {out_of_order, partially_signed},
         NEW x \in Place, NEW e \in Event
  PROVE  /\ QueueOK(Pushed(map, x, e))
         /\ \/ Pushed(map, x, e) = map
            \/ /\ Count(Pushed(map, x, e)) = Count(map) + 1
               /\ Count(out_of_order) + Count(partially_signed) < MaxEntries
<1>1. CASE RoomFor(map, x)
  <2> DEFINE new == [ev |-> e, at |-> now]
  <2>1. new \in EscrowedEvent
    BY DEF Bounded, TypeOK, EscrowedEvent
  <2>2. Pushed(map, x, e) = [map EXCEPT ![x] = Append(@, new)]
    BY <1>1 DEF Pushed
  <2> HIDE DEF new
  <2>3. Len(map[x]) < MaxPerKey /\ total_count < MaxEntries
    BY <1>1 DEF RoomFor
  <2>4. QueueOK(Pushed(map, x, e)) /\ Count(Pushed(map, x, e)) = Count(map) + 1
    <3> DEFINE pushed == Pushed(map, x, e)
    <3>1. WithEntry(map, x, new, pushed)
      BY <2>2 DEF WithEntry
    <3> HIDE DEF pushed
    <3>2. QueueOK(pushed) /\ Count(pushed) = Count(map) + 1
      BY <2>1, <2>3, <3>1, OneMoreEntry
    <3> QED
      BY <3>2 DEF pushed
  <2>5. partially_witnessed_count \in Nat
    BY EscrowSetsAssumption, FS_Subset, FS_CardinalityType DEF partially_witnessed_count
  <2>6. Count(out_of_order) \in Nat /\ Count(partially_signed) \in Nat
    BY EntriesCounted DEF Bounded
  <2> QED
    BY <2>3, <2>4, <2>5, <2>6, EscrowBoundsAssumption DEF total_count
<1>2. CASE ~RoomFor(map, x)
  BY <1>2 DEF Pushed
<1> QED
  BY <1>1, <1>2

\* Pruning a queue leaves no more in it.
LEMMA PrunedBounded ==
  ASSUME NEW map, QueueOK(map)
  PROVE  /\ QueueOK(prune_map(map)) /\ Count(prune_map(map)) <= Count(map)
         /\ prune_map(map) \in [Place -> Seq(EscrowedEvent)]
<1>1. \A x \in Place : /\ Retained(map[x]) \in Seq(EscrowedEvent)
                       /\ Len(Retained(map[x])) <= Len(map[x])
  BY RetainedFields DEF QueueOK
<1>2. /\ prune_map(map) \in [Place -> Seq(EscrowedEvent)]
      /\ \A x \in Place : Len(prune_map(map)[x]) <= Len(map[x])
  BY <1>1 DEF prune_map
<1> QED
  BY <1>2, FewerEntries

\* Whatever is called, the queues keep to the limits.
LEMMA StepBounded ==
  ASSUME Bounded, Next
  PROVE  Bounded'
<1>0. /\ TypeOK /\ QueueOK(out_of_order) /\ QueueOK(partially_signed)
      /\ Count(out_of_order) \in Nat /\ Count(partially_signed) \in Nat
      /\ Count(out_of_order) + Count(partially_signed) <= MaxEntries
      /\ MaxEntries \in Nat
  BY EntriesCounted, EscrowBoundsAssumption DEF Bounded
<1>1. ASSUME NEW x \in Place, NEW e \in Event, escrow_out_of_order(x, e)
      PROVE  Bounded'
  <2>1. /\ out_of_order' = Pushed(out_of_order, x, e) /\ returned' = <<>>
        /\ UNCHANGED <<partially_signed, partially_witnessed, now>>
    BY <1>1 DEF escrow_out_of_order
  <2> DEFINE pushed == Pushed(out_of_order, x, e)
  <2>2. /\ QueueOK(pushed)
        /\ \/ pushed = out_of_order
           \/ /\ Count(pushed) = Count(out_of_order) + 1
              /\ Count(out_of_order) + Count(partially_signed) < MaxEntries
    BY <1>0, PushedBounded
  <2> HIDE DEF pushed
  <2>3. /\ QueueOK(out_of_order)' /\ Count(out_of_order)' = Count(pushed)
        /\ Count(partially_signed)' = Count(partially_signed)
    BY <2>1, <2>2 DEF QueueOK, Count, Entries, pushed
  <2>4. QueueOK(out_of_order)' /\ Count(out_of_order)' + Count(partially_signed)' <= MaxEntries
    BY <1>0, <2>2, <2>3
  <2>5. TypeOK'
    BY <1>0, <2>1, <2>4 DEF TypeOK, QueueOK
  <2> QED
    BY <1>0, <2>1, <2>4, <2>5 DEF Bounded, QueueOK
<1>2. ASSUME NEW x \in Place, NEW e \in Event, escrow_partially_signed(x, e)
      PROVE  Bounded'
  <2>1. /\ partially_signed' = Pushed(partially_signed, x, e) /\ returned' = <<>>
        /\ UNCHANGED <<out_of_order, partially_witnessed, now>>
    BY <1>2 DEF escrow_partially_signed
  <2> DEFINE pushed == Pushed(partially_signed, x, e)
  <2>2. /\ QueueOK(pushed)
        /\ \/ pushed = partially_signed
           \/ /\ Count(pushed) = Count(partially_signed) + 1
              /\ Count(out_of_order) + Count(partially_signed) < MaxEntries
    BY <1>0, PushedBounded
  <2> HIDE DEF pushed
  <2>3. /\ QueueOK(partially_signed)' /\ Count(partially_signed)' = Count(pushed)
        /\ Count(out_of_order)' = Count(out_of_order)
    BY <2>1, <2>2 DEF QueueOK, Count, Entries, pushed
  <2>4. QueueOK(partially_signed)' /\ Count(out_of_order)' + Count(partially_signed)' <= MaxEntries
    BY <1>0, <2>2, <2>3
  <2>5. TypeOK'
    BY <1>0, <2>1, <2>4 DEF TypeOK, QueueOK
  <2> QED
    BY <1>0, <2>1, <2>4, <2>5 DEF Bounded, QueueOK
<1>3. ASSUME NEW x \in Place, process_escrow(x)
      PROVE  Bounded'
  <2> DEFINE emptied == [out_of_order EXCEPT ![x] = <<>>]
  <2>1. /\ out_of_order' = emptied /\ returned' = out_of_order[x]
        /\ UNCHANGED <<partially_signed, partially_witnessed, now>>
    BY <1>3 DEF process_escrow
  <2>2. emptied \in [Place -> Seq(EscrowedEvent)] /\ \A z \in Place : Len(emptied[z]) <= Len(out_of_order[z])
    <3>1. <<>> \in Seq(EscrowedEvent) /\ Len(<<>>) = 0
      OBVIOUS
    <3>2. \A z \in Place : Len(out_of_order[z]) \in Nat
      BY <1>0, LenProperties DEF TypeOK
    <3> QED
      BY <1>0, <3>1, <3>2 DEF TypeOK
  <2> HIDE DEF emptied
  <2>3. QueueOK(emptied) /\ Count(emptied) <= Count(out_of_order)
    BY <1>0, <2>2, FewerEntries
  <2>4. Count(emptied) \in Nat
    BY <2>3, EntriesCounted
  <2>5. QueueOK(out_of_order)' /\ Count(out_of_order)' = Count(emptied)
        /\ Count(partially_signed)' = Count(partially_signed)
    BY <2>1, <2>3 DEF QueueOK, Count, Entries
  <2>6. returned' \in Seq(EscrowedEvent \cup PartiallyWitnessedEntry)
    BY <1>0, <2>1 DEF TypeOK
  <2>7. TypeOK'
    BY <1>0, <2>1, <2>2, <2>6 DEF TypeOK
  <2> QED
    BY <1>0, <2>1, <2>3, <2>4, <2>5, <2>7 DEF Bounded, QueueOK
<1>4. CASE prune
  <2>1. /\ out_of_order' = prune_map(out_of_order) /\ partially_signed' = prune_map(partially_signed)
        /\ returned' = <<>> /\ UNCHANGED now
    BY <1>4 DEF prune
  <2>2. partially_witnessed' \in [Place -> PartiallyWitnessedEntry \cup {NoEntry}]
    BY <1>0, <1>4 DEF prune, TypeOK
  <2>3. /\ QueueOK(out_of_order)' /\ QueueOK(partially_signed)'
        /\ Count(out_of_order)' = Count(prune_map(out_of_order))
        /\ Count(partially_signed)' = Count(prune_map(partially_signed))
    BY <1>0, <2>1, PrunedBounded DEF QueueOK, Count, Entries
  <2>4. /\ Count(prune_map(out_of_order)) \in Nat /\ Count(prune_map(partially_signed)) \in Nat
        /\ Count(prune_map(out_of_order)) <= Count(out_of_order)
        /\ Count(prune_map(partially_signed)) <= Count(partially_signed)
    BY <1>0, PrunedBounded, EntriesCounted
  <2>5. TypeOK'
    BY <1>0, <2>1, <2>2, <2>3 DEF TypeOK, QueueOK
  <2> QED
    BY <1>0, <2>3, <2>4, <2>5 DEF Bounded
<1>5. ASSUME UNCHANGED queues, TypeOK'
      PROVE  Bounded'
  BY <1>0, <1>5 DEF Bounded, queues, QueueOK, Count, Entries
<1>6. ASSUME NEW x \in Place, NEW e \in Event, NEW bt \in BackerThresholds,
             escrow_partially_witnessed(x, e, bt)
      PROVE  Bounded'
  <2> DEFINE new == [ev |-> e, receipts |-> <<>>, backer_threshold |-> bt, at |-> now]
  <2>1. new \in PartiallyWitnessedEntry
    BY <1>0, EscrowSetsAssumption DEF PartiallyWitnessedEntry, TypeOK
  <2>2. /\ partially_witnessed' = [partially_witnessed EXCEPT ![x] = new]
        /\ returned' = <<>> /\ UNCHANGED <<queues, now>>
    BY <1>6 DEF escrow_partially_witnessed
  <2> HIDE DEF new
  <2>3. TypeOK'
    BY <1>0, <2>1, <2>2 DEF TypeOK, queues
  <2> QED
    BY <1>5, <2>2, <2>3
<1>7. ASSUME NEW x \in Place, NEW w \in Witness, NEW e \in Event,
             add_witness_receipt(x, [w |-> w, of |-> e])
      PROVE  Bounded'
  <2> DEFINE entry == partially_witnessed[x]
             rs == Append(entry.receipts, [w |-> w, of |-> e])
             new == [entry EXCEPT !.receipts = rs]
  <2>1. /\ partially_witnessed' = [partially_witnessed EXCEPT ![x] = new] /\ entry # NoEntry
        /\ returned' = <<>> /\ UNCHANGED <<queues, now>>
    BY <1>7 DEF add_witness_receipt
  <2>2. entry \in PartiallyWitnessedEntry
    BY <1>0, <2>1 DEF TypeOK
  <2>3. rs \in Seq(Receipt)
    <3>1. [w |-> w, of |-> e] \in Receipt /\ entry.receipts \in Seq(Receipt)
      BY <2>2 DEF Receipt, PartiallyWitnessedEntry
    <3> QED
      BY <3>1, AppendProperties
  <2> HIDE DEF rs
  <2>4. new \in PartiallyWitnessedEntry
    BY <2>2, <2>3 DEF PartiallyWitnessedEntry
  <2> HIDE DEF new
  <2>5. TypeOK'
    BY <1>0, <2>1, <2>4 DEF TypeOK, queues
  <2> QED
    BY <1>5, <2>1, <2>5
<1>8. ASSUME NEW x \in Place, check_and_promote_witnessed(x)
      PROVE  Bounded'
  <2>1. /\ partially_witnessed[x] # NoEntry /\ returned' = <<partially_witnessed[x]>>
        /\ partially_witnessed' = [partially_witnessed EXCEPT ![x] = NoEntry]
        /\ UNCHANGED <<queues, now>>
    BY <1>8 DEF check_and_promote_witnessed
  <2>2. TypeOK'
    BY <1>0, <2>1 DEF TypeOK, queues
  <2> QED
    BY <1>5, <2>1, <2>2
<1>9. CASE Tick
  <2>1. TypeOK' /\ UNCHANGED queues
    BY <1>0, <1>9 DEF Tick, TypeOK, queues
  <2> QED
    BY <1>5, <2>1
<1> QED
  BY <1>1, <1>2, <1>3, <1>4, <1>6, <1>7, <1>8, <1>9 DEF Next

\* The queues keep to the limits in all behaviours of the escrow.
LEMMA EscrowBounded == Spec => []Bounded
<1>1. Init => Bounded
  <2> SUFFICES ASSUME Init PROVE Bounded
    OBVIOUS
  <2> DEFINE none == [x \in Place |-> <<>>]
  <2>1. none \in [Place -> Seq(EscrowedEvent)] /\ \A x \in Place : none[x] = <<>> /\ Len(none[x]) = 0
    OBVIOUS
  <2>2. out_of_order = none /\ partially_signed = none
    BY DEF Init
  <2>3. QueueOK(none)
    BY <2>1, EscrowBoundsAssumption DEF QueueOK
  <2>4. Entries(none) = {}
    BY <2>1 DEF Entries
  <2> HIDE DEF none
  <2>5. Count(none) = 0
    BY <2>4, FS_EmptySet DEF Count
  <2>6. TypeOK
    BY <2>1, <2>2 DEF Init, TypeOK
  <2> QED
    BY <2>2, <2>3, <2>5, <2>6, EscrowBoundsAssumption DEF Bounded
<1>2. Bounded /\ [Next]_vars => Bounded'
  <2>1. Bounded /\ Next => Bounded'
    BY StepBounded
  <2>2. Bounded /\ UNCHANGED vars => Bounded'
    BY DEF vars, Bounded, TypeOK, QueueOK, Count, Entries
  <2> QED
    BY <2>1, <2>2
<1> QED
  BY <1>1, <1>2, PTL DEF Spec

\* The limits of escrow_out_of_order and escrow_partially_signed hold whatever
\* is repeated, processed, promoted and pruned in between, for any limits.
THEOREM EscrowQueuesBounded == Spec => []QueuesBounded
<1>1. Bounded => QueuesBounded
  BY DEF Bounded, QueuesBounded, QueueOK
<1> QED
  BY <1>1, EscrowBounded, PTL

\* Nothing young is lost: an event that was put in a queue stays until it is
\* older than the age pruned at, or is handed back (prune, process_escrow).
THEOREM EscrowFreshIsKept == Spec => FreshIsKept
<1> DEFINE Stays ==
      \A x \in Place :
        /\ \A j \in DOMAIN out_of_order[x] :
             Fresh(out_of_order[x][j]) =>
               out_of_order[x][j] \in ToSet(out_of_order'[x]) \cup ToSet(returned')
        /\ \A j \in DOMAIN partially_signed[x] :
             Fresh(partially_signed[x][j]) =>
               partially_signed[x][j] \in ToSet(partially_signed'[x])
<1>1. Bounded /\ Next => Stays
  <2> SUFFICES ASSUME Bounded, Next, NEW x \in Place
               PROVE  /\ \A j \in DOMAIN out_of_order[x] :
                           Fresh(out_of_order[x][j]) =>
                             out_of_order[x][j] \in ToSet(out_of_order'[x]) \cup ToSet(returned')
                      /\ \A j \in DOMAIN partially_signed[x] :
                           Fresh(partially_signed[x][j]) =>
                             partially_signed[x][j] \in ToSet(partially_signed'[x])
    OBVIOUS
  <2>1. out_of_order[x] \in Seq(EscrowedEvent) /\ partially_signed[x] \in Seq(EscrowedEvent)
    BY DEF Bounded, TypeOK
  <2>2. /\ \A j \in DOMAIN out_of_order[x] : out_of_order[x][j] \in ToSet(out_of_order[x])
        /\ \A j \in DOMAIN partially_signed[x] : partially_signed[x][j] \in ToSet(partially_signed[x])
    BY DEF ToSet
  <2>3. ASSUME NEW map, QueueOK(map), NEW z \in Place, NEW e \in Event
        PROVE  ToSet(map[x]) \subseteq ToSet(Pushed(map, z, e)[x])
    <3>1. CASE Pushed(map, z, e) = map
      BY <3>1
    <3>2. CASE Pushed(map, z, e) = [map EXCEPT ![z] = Append(@, [ev |-> e, at |-> now])]
      <4>1. [ev |-> e, at |-> now] \in EscrowedEvent /\ map[x] \in Seq(EscrowedEvent)
        BY <2>3 DEF Bounded, TypeOK, EscrowedEvent, QueueOK
      <4>2. ToSet(map[x]) \subseteq ToSet(Append(map[x], [ev |-> e, at |-> now]))
        BY <4>1, AppendToSet
      <4>3. Pushed(map, z, e)[x] \in {map[x], Append(map[x], [ev |-> e, at |-> now])}
        BY <2>3, <3>2 DEF QueueOK
      <4> QED
        BY <4>2, <4>3
    <3> QED
      BY <3>1, <3>2 DEF Pushed
  <2>4. ASSUME NEW z \in Place, NEW e \in Event,
               escrow_out_of_order(z, e) \/ escrow_partially_signed(z, e)
        PROVE  /\ ToSet(out_of_order[x]) \subseteq ToSet(out_of_order'[x])
               /\ ToSet(partially_signed[x]) \subseteq ToSet(partially_signed'[x])
    BY <2>3, <2>4 DEF escrow_out_of_order, escrow_partially_signed, Bounded
  <2>5. ASSUME NEW z \in Place, process_escrow(z)
        PROVE  /\ out_of_order'[x] = out_of_order[x] \/ returned' = out_of_order[x]
               /\ partially_signed'[x] = partially_signed[x]
    BY <2>5 DEF process_escrow, Bounded, TypeOK
  <2>6. CASE prune
    <3>1. /\ out_of_order'[x] = Retained(out_of_order[x])
          /\ partially_signed'[x] = Retained(partially_signed[x])
      BY <2>6 DEF prune, prune_map
    <3> QED
      BY <2>1, <3>1, RetainedFields
  <2>7. CASE UNCHANGED queues
    BY <2>2, <2>7 DEF queues
  <2>8. CASE \E z \in Place, e \in Event : escrow_out_of_order(z, e) \/ escrow_partially_signed(z, e)
    BY <2>2, <2>4, <2>8
  <2>9. CASE \E z \in Place : process_escrow(z)
    BY <2>2, <2>5, <2>9
  <2>10. CASE \/ \E z \in Place, e \in Event, bt \in BackerThresholds : escrow_partially_witnessed(z, e, bt)
              \/ \E z \in Place, w \in Witness, e \in Event : add_witness_receipt(z, [w |-> w, of |-> e])
              \/ \E z \in Place : check_and_promote_witnessed(z)
              \/ Tick
    <3>1. UNCHANGED queues
      BY <2>10 DEF escrow_partially_witnessed, add_witness_receipt, check_and_promote_witnessed, Tick, queues
    <3> QED
      BY <2>7, <3>1
  <2> QED
    BY <2>6, <2>8, <2>9, <2>10 DEF Next
<1> HIDE DEF Stays
<1>2. Spec => [][Stays]_vars
  BY <1>1, EscrowBounded, PTL DEF Spec
<1> QED
  BY <1>2 DEF FreshIsKept, Stays
=============================================================================
