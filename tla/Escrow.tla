------------------------------- MODULE Escrow -------------------------------
(***************************************************************************)
(* The escrow of events that cannot be verified yet                        *)
(* (affinidi-keri-core/src/escrow.rs).  It is driven by the embedder, who  *)
(* may call any operation at any time; nothing in the repository does.     *)
(*                                                                         *)
(* A place is a (prefix, sn) pair.  Forks and repetitions of an event go   *)
(* to the same place, so that an event stands for any body that claims it. *)
(* An absent key of the three maps is an empty sequence or NoEntry.        *)
(***************************************************************************)
EXTENDS Naturals, Sequences, SequencesExt, FiniteSets

CONSTANTS Place, Event, Witness,
          BackerThresholds,  \* the thresholds events may ask for
          MaxEntries,        \* MAX_ESCROW_ENTRIES, 10000 in the code
          MaxPerKey,         \* MAX_ENTRIES_PER_KEY, 16 in the code
          MaxAttachments,    \* MAX_ATTACHMENT_COUNT, 4096 in the code
          MaxAge,            \* the age the embedder prunes at
          MaxTime,           \* bound on the clock
          NoEntry

ASSUME EscrowBoundsAssumption ==
  MaxEntries \in Nat /\ MaxPerKey \in Nat /\ MaxAttachments \in Nat /\ MaxAge \in Nat

ASSUME EscrowSetsAssumption ==
  BackerThresholds \subseteq Nat /\ IsFiniteSet(Place) /\ IsFiniteSet(Witness)

VARIABLES out_of_order, partially_signed, partially_witnessed,
          now,       \* the clock
          returned   \* what the last call handed back to the embedder

queues == <<out_of_order, partially_signed>>

vars == <<out_of_order, partially_signed, partially_witnessed, now, returned>>

EscrowedEvent == [ev : Event, at : Nat]

\* A receipt couple names its witness; of is the event the witness signed,
\* which the escrow does not look at
Receipt == [w : Witness, of : Event]

PartiallyWitnessedEntry ==
  [ev : Event, receipts : Seq(Receipt), backer_threshold : Nat, at : Nat]

TypeOK ==
  /\ out_of_order \in [Place -> Seq(EscrowedEvent)]
  /\ partially_signed \in [Place -> Seq(EscrowedEvent)]
  /\ partially_witnessed \in [Place -> PartiallyWitnessedEntry \cup {NoEntry}]
  /\ now \in Nat
  /\ returned \in Seq(EscrowedEvent \cup PartiallyWitnessedEntry)

Init ==
  /\ out_of_order = [x \in Place |-> <<>>]
  /\ partially_signed = [x \in Place |-> <<>>]
  /\ partially_witnessed = [x \in Place |-> NoEntry]
  /\ now = 0
  /\ returned = <<>>

----------------------------------------------------------------------------

\* The entries of a map of lists, each given by its place and its index
Entries(map) == UNION {{x} \X DOMAIN map[x] : x \in Place}

Count(map) == Cardinality(Entries(map))

partially_witnessed_count == Cardinality({x \in Place : partially_witnessed[x] # NoEntry})

total_count == Count(out_of_order) + Count(partially_signed) + partially_witnessed_count

\* Faulty variant: one entry too many
RoomForOffByOne(map, x) == total_count < MaxEntries /\ Len(map[x]) <= MaxPerKey

RoomFor(map, x) == total_count < MaxEntries /\ Len(map[x]) < MaxPerKey

\* An event that finds no room is dropped without notice
Pushed(map, x, e) ==
  IF RoomFor(map, x)
  THEN [map EXCEPT ![x] = Append(@, [ev |-> e, at |-> now])]
  ELSE map

escrow_out_of_order(x, e) ==
  /\ out_of_order' = Pushed(out_of_order, x, e)
  /\ returned' = <<>>
  /\ UNCHANGED <<partially_signed, partially_witnessed, now>>

escrow_partially_signed(x, e) ==
  /\ partially_signed' = Pushed(partially_signed, x, e)
  /\ returned' = <<>>
  /\ UNCHANGED <<out_of_order, partially_witnessed, now>>

\* Called with the place after the last accepted event; empties it
process_escrow(x) ==
  /\ returned' = out_of_order[x]
  /\ out_of_order' = [out_of_order EXCEPT ![x] = <<>>]
  /\ UNCHANGED <<partially_signed, partially_witnessed, now>>

\* No room is asked for, and what was there is replaced, receipts and all
escrow_partially_witnessed(x, e, bt) ==
  /\ partially_witnessed' = [partially_witnessed EXCEPT
       ![x] = [ev |-> e, receipts |-> <<>>, backer_threshold |-> bt, at |-> now]]
  /\ returned' = <<>>
  /\ UNCHANGED <<queues, now>>

add_witness_receipt(x, r) ==
  /\ partially_witnessed[x] # NoEntry
  /\ Len(partially_witnessed[x].receipts) < MaxAttachments
  /\ partially_witnessed' = [partially_witnessed EXCEPT ![x].receipts = Append(@, r)]
  /\ returned' = <<>>
  /\ UNCHANGED <<queues, now>>

\* Faulty variant: repetitions count
EnoughByLength(entry) == Len(entry.receipts) >= entry.backer_threshold

\* Distinct witness prefixes reach the threshold
Enough(entry) == Cardinality({r.w : r \in ToSet(entry.receipts)}) >= entry.backer_threshold

check_and_promote_witnessed(x) ==
  /\ partially_witnessed[x] # NoEntry
  /\ Enough(partially_witnessed[x])
  /\ returned' = <<partially_witnessed[x]>>
  /\ partially_witnessed' = [partially_witnessed EXCEPT ![x] = NoEntry]
  /\ UNCHANGED <<queues, now>>

\* Not older than MaxAge
Fresh(entry) == entry.at + MaxAge >= now

\* Faulty variant: a place is dropped as a whole once its first entry is stale
PruneMapByFirst(map) ==
  [x \in Place |-> IF map[x] # <<>> /\ ~Fresh(Head(map[x])) THEN <<>> ELSE map[x]]

\* Vec::retain
Retained(entries) ==
  LET kept[n \in 0..Len(entries)] ==
        IF n = 0 THEN <<>>
        ELSE IF Fresh(entries[n]) THEN Append(kept[n - 1], entries[n]) ELSE kept[n - 1]
  IN  kept[Len(entries)]

prune_map(map) == [x \in Place |-> Retained(map[x])]

prune ==
  /\ out_of_order' = prune_map(out_of_order)
  /\ partially_signed' = prune_map(partially_signed)
  /\ partially_witnessed' = [x \in Place |->
       IF partially_witnessed[x] # NoEntry /\ Fresh(partially_witnessed[x])
       THEN partially_witnessed[x] ELSE NoEntry]
  /\ returned' = <<>>
  /\ UNCHANGED now

Tick ==
  /\ now < MaxTime
  /\ now' = now + 1
  /\ UNCHANGED <<out_of_order, partially_signed, partially_witnessed, returned>>

Next ==
  \/ \E x \in Place :
       \/ \E e \in Event : escrow_out_of_order(x, e) \/ escrow_partially_signed(x, e)
       \/ \E e \in Event, bt \in BackerThresholds : escrow_partially_witnessed(x, e, bt)
       \/ \E w \in Witness, e \in Event : add_witness_receipt(x, [w |-> w, of |-> e])
       \/ process_escrow(x)
       \/ check_and_promote_witnessed(x)
  \/ prune
  \/ Tick

Spec == Init /\ [][Next]_vars

----------------------------------------------------------------------------
(* Properties.                                                             *)

\* The maps stay well typed, and the two queues keep to the limits, in total and
\* at every place, whatever is repeated, processed and pruned in between.
QueuesBounded ==
  /\ TypeOK
  /\ Count(out_of_order) + Count(partially_signed) <= MaxEntries
  /\ \A x \in Place : Len(out_of_order[x]) <= MaxPerKey /\ Len(partially_signed[x]) <= MaxPerKey

\* Nothing young is lost: an event that was put in a queue stays there, or is
\* handed back, until it is older than the age pruned at.
FreshIsKept ==
  [][\A x \in Place :
       /\ \A j \in DOMAIN out_of_order[x] :
            Fresh(out_of_order[x][j]) =>
              out_of_order[x][j] \in ToSet(out_of_order'[x]) \cup ToSet(returned')
       /\ \A j \in DOMAIN partially_signed[x] :
            Fresh(partially_signed[x][j]) =>
              partially_signed[x][j] \in ToSet(partially_signed'[x])]_vars
=============================================================================
