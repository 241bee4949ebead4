------------------------------ MODULE MCEscrow ------------------------------
(***************************************************************************)
(* Instances of Escrow, with a history of the receipts that were handed to *)
(* it.  Places, events and witnesses are interchangeable.                  *)
(***************************************************************************)
EXTENDS Escrow, TLC

CONSTANT MaxGiven  \* bound: receipts handed in for one entry

\* The witnesses of the receipts handed in for each place since an event was
\* put there, in order and with those that were refused
VARIABLE given

GivenInit == Init /\ given = [x \in Place |-> <<>>]

Give(x, r) ==
  /\ Len(given[x]) < MaxGiven
  /\ given' = [given EXCEPT ![x] = Append(@, r.w)]
  /\ \/ add_witness_receipt(x, r)
     \/ /\ partially_witnessed[x] # NoEntry
        /\ Len(partially_witnessed[x].receipts) >= MaxAttachments
        /\ UNCHANGED vars

GivenNext ==
  \/ \E x \in Place :
       \/ \E w \in Witness, e \in Event : Give(x, [w |-> w, of |-> e])
       \/ /\ \/ \E e \in Event, bt \in BackerThresholds : escrow_partially_witnessed(x, e, bt)
             \/ check_and_promote_witnessed(x)
          /\ given' = [given EXCEPT ![x] = <<>>]
       \/ /\ \/ \E e \in Event : escrow_out_of_order(x, e) \/ escrow_partially_signed(x, e)
             \/ process_escrow(x)
          /\ UNCHANGED given
  \/ (prune \/ Tick) /\ UNCHANGED given

GivenSpec == GivenInit /\ [][GivenNext]_<<vars, given>>

\* An event is promoted only when as many different witnesses as it asks for
\* have receipted its place since it was put there, whatever was there before;
\* and then for certain, unless so many receipts came before that some were
\* refused.
PromotedWhenReceipted ==
  \A x \in Place :
    partially_witnessed[x] # NoEntry =>
      LET entry   == partially_witnessed[x]
          reached == Cardinality(ToSet(given[x])) >= entry.backer_threshold
      IN  /\ Enough(entry) => reached
          /\ reached /\ Len(given[x]) <= MaxAttachments => Enough(entry)

Symmetry == Permutations(Place) \cup Permutations(Event) \cup Permutations(Witness)
=============================================================================
