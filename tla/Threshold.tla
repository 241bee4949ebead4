----------------------------- MODULE Threshold -----------------------------
(***************************************************************************)
(* Signing thresholds (affinidi-keri-core/src/threshold.rs).  A threshold  *)
(* is a count, or a sequence of clauses of fractional weights, one weight  *)
(* per key, the keys being numbered across the clauses.  The code sums the *)
(* weights of a clause as a fraction in checked u64 arithmetic and refuses *)
(* on overflow; U64Max is the largest value of that type.                  *)
(*                                                                         *)
(* Keys are numbered from 1 here, from 0 in the code.                      *)
(***************************************************************************)
EXTENDS Naturals, FiniteSets, Sequences, SequencesExt

CONSTANT U64Max

ASSUME U64MaxAssumption == U64Max \in Nat \ {0}

Weight == [num : Nat, den : Nat \ {0}]

Simple(k) == [kind |-> "simple", k |-> k]

Weighted(clauses) == [kind |-> "weighted", clauses |-> clauses]

ThresholdType ==
  [kind : {"simple"}, k : Nat] \cup [kind : {"weighted"}, clauses : Seq(Seq(Weight))]

----------------------------------------------------------------------------
(* Faulty variants of AddWeight, which the properties of MCMessage must    *)
(* tell from the real one.                                                 *)

AddWeightWrapping(total, w) ==
  [num |-> (total.num * w.den + w.num * total.den) % (U64Max + 1),
   den |-> (total.den * w.den) % (U64Max + 1),
   overflow |-> FALSE]

AddWeightStickyDen(total, w) ==
  [num |-> total.num * w.den + w.num * total.den,
   den |-> total.den,
   overflow |-> FALSE]

----------------------------------------------------------------------------

\* total_num/total_den + num/den, or an overflow that the caller refuses
AddWeight(total, w) ==
  LET num == total.num * w.den + w.num * total.den
      den == total.den * w.den
  IN  [num |-> num, den |-> den,
       overflow |-> total.overflow \/ num > U64Max \/ den > U64Max]

\* How many keys the clauses before clause c stand for
KeysBefore(clauses, c) ==
  LET count[n \in 0..(c - 1)] == IF n = 0 THEN 0 ELSE count[n - 1] + Len(clauses[n])
  IN  count[c - 1]

\* Does the key that weight j of clause c stands for count?
Counts(clauses, c, j, indices, totalKeys) ==
  LET key == KeysBefore(clauses, c) + j
  IN  key <= totalKeys /\ key \in indices

ClauseTotal(clauses, c, indices, totalKeys) ==
  LET total[j \in 0..Len(clauses[c])] ==
        IF j = 0 THEN [num |-> 0, den |-> 1, overflow |-> FALSE]
        ELSE IF Counts(clauses, c, j, indices, totalKeys) THEN AddWeight(total[j - 1], clauses[c][j])
        ELSE total[j - 1]
  IN  total[Len(clauses[c])]

\* Is the threshold met by valid signatures of the keys numbered in indices?
IsSatisfied(threshold, indices, totalKeys) ==
  \/ /\ threshold.kind = "simple"
     /\ threshold.k > 0
     /\ Cardinality(indices) >= threshold.k
  \/ /\ threshold.kind = "weighted"
     /\ threshold.clauses # <<>>
     /\ \A c \in DOMAIN threshold.clauses :
          LET total == ClauseTotal(threshold.clauses, c, indices, totalKeys)
          IN  ~total.overflow /\ total.num >= total.den
=============================================================================
