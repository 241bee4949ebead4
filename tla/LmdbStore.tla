------------------------------ MODULE LmdbStore ------------------------------
(***************************************************************************)
(* The event store on LMDB (affinidi-keri-db/src/lmdb.rs, keys.rs), with a *)
(* client that keeps the logs of identifiers in it and a system that may   *)
(* crash.                                                                  *)
(*                                                                         *)
(* LMDB is external.  It is copy-on-write: a transaction makes a new       *)
(* version of all tables, readers see the newest version, and what is on   *)
(* disk is some version not newer.  versions holds them from the one on    *)
(* disk to the newest.  Without flags a commit is on disk when it returns; *)
(* NO_SYNC leaves that to the operating system, in order; with WRITE_MAP   *)
(* and MAP_ASYNC pages reach the disk in any order.                        *)
(*                                                                         *)
(* A version maps cells to values.  A cell is a table and the key's text;  *)
(* the text of a sequence number, 32 hexadecimal digits, is one symbol.    *)
(***************************************************************************)
EXTENDS Naturals, Sequences, SequencesExt, FiniteSets

CONSTANTS Char,      \* the symbols of identifiers
          Prefix,    \* identifiers: sequences of symbols
          MaxSn,     \* bound: the last sequence number of a log
          Said,      \* SAIDs of events
          PlaceOf,   \* PlaceOf[d]: the identifier and number of the event d
          Name, Absent,
          Sep,       \* the separator "."
          Calls,     \* the calls of store_event
          Puts,      \* the puts of one cell
          Configs,   \* the LmdbStoreConfigs the store is opened with
          MaxVersions  \* bound: versions not yet on disk, with the one that is

SeqNo == 0..MaxSn

\* What the store is given as bytes: an event, its signatures, the record of a
\* Hab after the event, another message that states the SAID of the event
EventOf(d)  == <<"event", d>>
SigsOf(d)   == <<"sigs", d>>
RecordOf(d) == <<"record", d>>
OtherOf(d)  == <<"other", d>>

Blob == {"event", "sigs", "record", "other"} \X Said

Value == Said \cup Blob

Data == {RecordOf(e.said) : e \in {e \in Calls : e.sn = 0}}

ASSUME BoundAssumption == MaxSn \in Nat

ASSUME PrefixAssumption == Prefix \subseteq Seq(Char)

\* No identifier holds the separator: all of them are qb64
ASSUME CharAssumption == Sep \notin Char /\ SeqNo \cap (Char \cup {Sep}) = {}

ASSUME PlaceAssumption == PlaceOf \in [Said -> Prefix \X SeqNo]

\* Absent stands for None of an Option of any type
ASSUME AbsentAssumption == Absent \notin Value \cup SeqNo

ASSUME ConfigsAssumption == Configs \subseteq [no_sync : BOOLEAN, write_map : BOOLEAN]

----------------------------------------------------------------------------
(* Keys.                                                                   *)

\* {prefix}.{sn}
SnKey(p, s) == p \o <<Sep, s>>

\* The second part of a key that SEP splits
SplitSn(key) ==
  LET at == CHOOSE n \in DOMAIN key : key[n] = Sep /\ \A m \in 1..(n - 1) : key[m] # Sep
  IN  key[at + 1]

Places == {SnKey(p, s) : p \in Prefix, s \in SeqNo}

BySaid == {"evts", "dtss", "sigs", "wigs", "rcts"}
ByPlace == {"kels", "fels", "ooes", "pses"}

Cell ==
  (BySaid \X Said) \cup (ByPlace \X Places) \cup ({"states"} \X Prefix) \cup ({"habs"} \X Name)

\* A Hab stores its signatures with an event, a verifier what came with it
ASSUME CallsAssumption ==
  \A e \in Calls :
    /\ e.said \in Said /\ PlaceOf[e.said] = <<e.prefix, e.sn>>
    /\ e.event = EventOf(e.said) /\ e.sigs \in {SigsOf(e.said), Absent}

\* put_event is called for other messages, under the SAID each states, which
\* nobody verifies.  The key of an escrow is a place.  Nobody calls append_kel,
\* put_first_seen, put_signatures, put_hab and del_hab.
ASSUME PutsAssumption ==
  \A put \in Puts :
    /\ put.value \in Value
    /\ \/ put.table = "evts" /\ put.key \in Said /\ put.value = OtherOf(put.key)
       \/ put.table \in {"dtss", "wigs", "rcts"} /\ put.key \in Said
       \/ put.table \in {"ooes", "pses"} /\ put.key \in Prefix \X SeqNo
       \/ put.table = "states" /\ put.key \in Prefix

CellOf(table, key) ==
  IF table \in ByPlace THEN <<table, SnKey(key[1], key[2])>> ELSE <<table, key>>

----------------------------------------------------------------------------

VARIABLES versions,  \* versions[1] is on disk, the last one is what readers see
          config,    \* what the store was opened with
          mapped,    \* a version not on disk was written with write_map
          torn,      \* a crash found such a version
          saved      \* saved[p]: the last event the client keeps the Hab state of

vars == <<versions, config, mapped, torn, saved>>

\* The tables kels and fels hold SAIDs, the others bytes or texts
Contents ==
  {contents \in [Cell -> Value \cup {Absent}] :
     \A table \in {"kels", "fels"}, key \in Places : contents[<<table, key>>] \in Said \cup {Absent}}

Now == Last(versions)

TypeOK ==
  /\ versions \in Seq(Contents) /\ versions # <<>>
  /\ config \in Configs
  /\ mapped \in BOOLEAN /\ torn \in BOOLEAN
  /\ saved \in [Prefix -> Said \cup {Absent}]

Init ==
  /\ versions = <<[c \in Cell |-> Absent]>>
  /\ config \in Configs
  /\ mapped = FALSE /\ torn = FALSE
  /\ saved = [p \in Prefix |-> Absent]

----------------------------------------------------------------------------
(* Reads.                                                                  *)

\* Faulty variant: the separator is not part of what is looked for
KelEntriesByPrefix(contents, p) ==
  {key \in Places : IsPrefix(p, key) /\ contents[<<"kels", key>>] # Absent}

\* The keys that start with "{prefix}."
KeysFrom == [p \in Prefix |-> {key \in Places : IsPrefix(p \o <<Sep>>, key)}]

\* Those in the table kels
KelEntries(contents, p) == {key \in KeysFrom[p] : contents[<<"kels", key>>] # Absent}

\* The keys found, ordered by the number in them
InOrder(keys) ==
  CHOOSE order \in [1..Cardinality(keys) -> keys] :
    \A m, n \in 1..Cardinality(keys) : m < n => SplitSn(order[m]) < SplitSn(order[n])

\* get_kel: the numbers and SAIDs found, ordered by number
GetKel(contents, p) ==
  LET order == InOrder(KelEntries(contents, p))
  IN  [n \in DOMAIN order |-> <<SplitSn(order[n]), contents[<<"kels", order[n]>>]>>]

\* latest_sn, or Absent
LatestSn(contents, p) ==
  LET kel == GetKel(contents, p) IN IF kel = <<>> THEN Absent ELSE Last(kel)[1]

GetKelSaid(contents, p, s) == contents[<<"kels", SnKey(p, s)>>]

----------------------------------------------------------------------------
(* Writes.  A transaction is given by the contents it leaves.              *)

Durable == ~config.no_sync /\ ~config.write_map

Commit(next) ==
  /\ Durable \/ Len(versions) < MaxVersions
  /\ versions' = IF Durable THEN <<next>> ELSE Append(versions, next)
  /\ mapped' = (~Durable /\ (mapped \/ config.write_map))
  /\ UNCHANGED <<config, torn, saved>>

\* The cells that store_event puts
WithEvent(contents, e) ==
  LET key == SnKey(e.prefix, e.sn)
  IN  [contents EXCEPT ![<<"evts", e.said>>] = e.event,
                       ![<<"kels", key>>] = e.said, ![<<"fels", key>>] = e.said,
                       ![<<"sigs", e.said>>] = IF e.sigs = Absent THEN @ ELSE e.sigs]

WithHab(contents, name, data) == [contents EXCEPT ![<<"habs", name>>] = data]

\* Faulty variant: two transactions, and a crash between them
StoreEventInSteps(e) ==
  \/ Commit(WithEvent(Now, e))
  \/ Commit([Now EXCEPT ![<<"kels", SnKey(e.prefix, e.sn)>>] = e.said])

StoreEvent(e) == Commit(WithEvent(Now, e))

\* Faulty variant: the record of the Hab in a transaction before
StoreEventAfterHab(e, name, data) ==
  Commit(WithHab(WithEvent(Now, e), name, data)) \/ Commit(WithHab(Now, name, data))

StoreEventWithHab(e, name, data) == Commit(WithHab(WithEvent(Now, e), name, data))

\* put_event and the other puts, one cell each
PutIn(cell, value) == Commit([Now EXCEPT ![cell] = value])

\* del_escrow_ooo, del_escrow_ps, del_hab
DeleteIn(cell) == PutIn(cell, Absent)

----------------------------------------------------------------------------
(* The client: Habs and direct mode verifiers, which store the events of   *)
(* an identifier in order, and an embedder that keeps Hab states elsewhere.*)

\* The place after the last event of a log
IsNext(e) ==
  IF e.sn = 0 THEN LatestSn(Now, e.prefix) = Absent ELSE LatestSn(Now, e.prefix) = e.sn - 1

\* Hab::incept, under a name that may be in use already
Incept(e, name) ==
  /\ e.sn = 0 /\ e.sigs # Absent /\ IsNext(e)
  /\ StoreEventWithHab(e, name, RecordOf(e.said))

\* The next event of a log, in a verifier's store an inception as well
Extend(e) == IsNext(e) /\ StoreEvent(e)

\* A put of one cell, by whoever shares the store; escrows are emptied as well
PutOther ==
  \E put \in Puts :
    LET cell == CellOf(put.table, put.key)
    IN  PutIn(cell, put.value) \/ (put.table \in {"ooes", "pses"} /\ DeleteIn(cell))

----------------------------------------------------------------------------
(* The environment.                                                        *)

\* Faulty variant: sync returns without waiting for the disk
NothingForced == versions

\* force_sync: what is left once the newest version is on disk
Forced == <<Now>>

Sync ==
  /\ versions' = Forced /\ mapped' = FALSE
  /\ UNCHANGED <<config, torn, saved>>

\* The embedder saves Hab::state after a sync
Save(p) ==
  /\ LatestSn(Now, p) # Absent
  /\ versions' = Forced /\ mapped' = FALSE
  /\ saved' = [saved EXCEPT ![p] = GetKelSaid(Now, p, LatestSn(Now, p))]
  /\ UNCHANGED <<config, torn>>

\* The operating system writes a version in its own time
Settle ==
  /\ Len(versions) > 1
  /\ versions' = Tail(versions)
  /\ UNCHANGED <<config, mapped, torn, saved>>

\* The process ends and the store is opened again: nothing was on its way
\* through the process
Reopen ==
  /\ config' \in Configs
  /\ UNCHANGED <<versions, mapped, torn, saved>>

\* The system stops; the store is opened on what the disk has.  The file
\* system keeps the order of writes.
Crash ==
  /\ ~mapped
  /\ \E n \in DOMAIN versions : versions' = <<versions[n]>>
  /\ config' \in Configs
  /\ UNCHANGED <<mapped, torn, saved>>

\* Under a writable map each cell may be of another version
CrashMapped ==
  /\ mapped
  /\ \E from \in [{"evts", "kels"} -> DOMAIN versions] :
       versions' =
         <<[c \in Cell |-> IF c[1] \in DOMAIN from THEN versions[from[c[1]]][c] ELSE Now[c]]>>
  /\ mapped' = FALSE /\ torn' = TRUE
  /\ config' \in Configs
  /\ UNCHANGED saved

Next ==
  \/ \E e \in Calls : Extend(e) \/ \E name \in Name : Incept(e, name)
  \/ PutOther
  \/ \E p \in Prefix : Save(p)
  \/ Sync \/ Settle \/ Reopen \/ Crash \/ CrashMapped

Spec == Init /\ [][Next]_vars

----------------------------------------------------------------------------
(* Properties.                                                             *)

\* What stands under the SAID of a logged event: its body, or another message
\* that states that SAID
Bodies(d) == {EventOf(d), OtherOf(d)}

\* The tables are well typed, and every log read back is whole: numbers
\* 0, 1, 2, ... without a gap, its own events only, first seen as logged, and
\* with a body under each SAID, after any crash that kept the order of writes.
\* The body is the event's unless another message that states the same SAID was
\* put over it.  "Partial writes leave the database in an inconsistent state
\* that can cause panics on reload" (store.rs).
LogsReadable ==
  /\ TypeOK
  /\ ~torn =>
       \A p \in Prefix :
         LET kel == GetKel(Now, p)
         IN  \A n \in DOMAIN kel :
               /\ kel[n][1] = n - 1
               /\ PlaceOf[kel[n][2]] = <<p, n - 1>>
               /\ Now[<<"evts", kel[n][2]>>] \in Bodies(kel[n][2])
               /\ Now[<<"fels", SnKey(p, n - 1)>>] = kel[n][2]

\* A record from which a Hab resumes names an event the log still has
\* ("Store event, KEL, first-seen, signatures, and hab metadata in one
\* transaction").
RecordIsLogged ==
  ~torn =>
    \A name \in Name :
      LET record == Now[<<"habs", name>>]
      IN  record # Absent =>
            GetKelSaid(Now, PlaceOf[record[2]][1], PlaceOf[record[2]][2]) = record[2]

\* An event whose Hab state was saved after a sync outlives every crash: a Hab
\* resumed from that state does not continue a log the store lacks.
SavedIsLogged ==
  ~torn =>
    \A p \in Prefix :
      saved[p] # Absent => GetKelSaid(Now, p, PlaceOf[saved[p]][2]) = saved[p]

----------------------------------------------------------------------------
(* The promise of the trait.                                               *)

ScannedKel(contents, p) ==
  LET entries == KelEntries(contents, p)
  IN  [s \in SeqNo |->
         LET hits == {key \in entries : SplitSn(key) = s}
         IN  IF hits = {} THEN Absent ELSE contents[<<"kels", CHOOSE key \in hits : TRUE>>]]

Placed(contents, table) ==
  [p \in Prefix |-> [s \in SeqNo |-> contents[<<table, SnKey(p, s)>>]]]

Keyed(contents, table) == [d \in Said |-> contents[<<table, d>>]]

Tables(contents) ==
  [evts |-> Keyed(contents, "evts"), dtss |-> Keyed(contents, "dtss"),
   sigs |-> Keyed(contents, "sigs"), wigs |-> Keyed(contents, "wigs"),
   rcts |-> Keyed(contents, "rcts"),
   kels |-> [p \in Prefix |-> ScannedKel(contents, p)], fels |-> Placed(contents, "fels"),
   ooes |-> Placed(contents, "ooes"), pses |-> Placed(contents, "pses"),
   states |-> [p \in Prefix |-> contents[<<"states", p>>]],
   habs |-> [name \in Name |-> contents[<<"habs", name>>]]]

Trait ==
  INSTANCE KeriStore
  WITH history <- [n \in DOMAIN versions |-> Tables(versions[n])], intact <- ~torn

\* As long as no crash tore a transaction, the store on LMDB keeps the promise
\* of the trait, reads of a log through the scan of get_kel included: whole
\* transactions, lost only from the end, and never one that was on disk.
KeepsPromise == Trait!Spec

=============================================================================
