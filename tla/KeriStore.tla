------------------------------ MODULE KeriStore ------------------------------
(***************************************************************************)
(* What a store of events promises its callers: the trait KeriStore of     *)
(* affinidi-keri-db/src/store.rs, with the latitude that the options of    *)
(* LmdbStore give a crash.                                                 *)
(*                                                                         *)
(* The contents are tables.  Every operation that writes is one            *)
(* transaction: it takes the contents from one version to the next, and    *)
(* "partial writes (e.g. event stored but KEL entry missing)" are never    *)
(* seen.  history holds the versions a crash may fall back to, the current *)
(* one last; intact is FALSE once a crash may have torn a transaction.     *)
(***************************************************************************)
EXTENDS Naturals, Sequences, SequencesExt

CONSTANTS Prefix, SeqNo, Said, Name,
          Blob,   \* serialized messages, signatures, records of Habs
          Absent,
          Calls,  \* the calls of store_event that occur
          Data,   \* the records of Habs
          Puts    \* the puts of one key that occur

Value == Said \cup Blob

VARIABLES history, intact

vars == <<history, intact>>

Now == Last(history)

\* Tables by SAID; kel, fel and the two escrows by place in a log; key states
\* by identifier; habs by name.
ByPlace == [Prefix -> [SeqNo -> Value \cup {Absent}]]

Contents ==
  [evts : [Said -> Value \cup {Absent}], dtss : [Said -> Value \cup {Absent}],
   sigs : [Said -> Value \cup {Absent}], wigs : [Said -> Value \cup {Absent}],
   rcts : [Said -> Value \cup {Absent}],
   kels : ByPlace, fels : ByPlace, ooes : ByPlace, pses : ByPlace,
   states : [Prefix -> Value \cup {Absent}],
   habs : [Name -> Value \cup {Absent}]]

PlaceTables == {"kels", "fels", "ooes", "pses"}

Nothing(keys) == [k \in keys |-> Absent]

Unplaced == [p \in Prefix |-> Nothing(SeqNo)]

Empty ==
  [evts |-> Nothing(Said), dtss |-> Nothing(Said), sigs |-> Nothing(Said),
   wigs |-> Nothing(Said), rcts |-> Nothing(Said),
   kels |-> Unplaced, fels |-> Unplaced, ooes |-> Unplaced, pses |-> Unplaced,
   states |-> Nothing(Prefix), habs |-> Nothing(Name)]

Init == intact = TRUE /\ history = <<Empty>>

----------------------------------------------------------------------------
(* The transactions.                                                       *)

\* After a commit the version before it may still be what a crash finds
Becomes(next) == history' \in {<<next>>, Append(history, next)}

\* put_event, put_datetime, put_signatures, put_witness_sigs, put_receipts,
\* put_state, put_escrow_ooo, put_escrow_ps, put_hab, append_kel,
\* put_first_seen
PutIn(table, key, value) ==
  Becomes(IF table \in PlaceTables
          THEN [Now EXCEPT ![table][key[1]][key[2]] = value]
          ELSE [Now EXCEPT ![table][key] = value])

\* del_escrow_ooo, del_escrow_ps, del_hab
DeleteIn(table, key) == PutIn(table, key, Absent)

\* store_event: "Store an event with its KEL entry, first-seen record, and
\* optional signatures in a single atomic operation"
WithEvent(contents, e) ==
  [contents EXCEPT !.evts[e.said] = e.event,
                   !.kels[e.prefix][e.sn] = e.said, !.fels[e.prefix][e.sn] = e.said,
                   !.sigs[e.said] = IF e.sigs = Absent THEN @ ELSE e.sigs]

StoreEvent(e) == Becomes(WithEvent(Now, e))

StoreEventWithHab(e, name, data) == Becomes([WithEvent(Now, e) EXCEPT !.habs[name] = data])

----------------------------------------------------------------------------
(* Durability.                                                             *)

\* LmdbStore::sync
Sync == history' = <<Now>>

\* The oldest version that a crash could find is written over
Settle == Len(history) > 1 /\ history' = Tail(history)

\* A crash and a reopening of the store: the last transactions may be gone,
\* always whole ones and always the last
Rollback == \E n \in DOMAIN history : history' = <<history[n]>>

Transaction ==
  \/ \E e \in Calls :
       StoreEvent(e) \/ \E name \in Name, data \in Data : StoreEventWithHab(e, name, data)
  \/ \E put \in Puts :
       \/ PutIn(put.table, put.key, put.value)
       \/ put.table \in {"ooes", "pses", "habs"} /\ DeleteIn(put.table, put.key)

Next ==
  \/ intact = TRUE /\ intact' = TRUE /\ (Sync \/ Settle \/ Rollback \/ Transaction)
  \/ intact' = FALSE  \* nothing is promised

Spec == Init /\ [][Next]_vars
=============================================================================
