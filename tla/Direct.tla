------------------------------- MODULE Direct -------------------------------
(***************************************************************************)
(* The direct mode verifier (affinidi-keri/src/direct.rs) with the tables  *)
(* of the event store it writes (affinidi-keri-db).                        *)
(*                                                                         *)
(* process_parsed takes one parsed message: it verifies a key event        *)
(* against the Kever of its identifier, checks the witness receipts        *)
(* attached to it, stores the event, and only then updates the Kever.      *)
(* Kevers live in memory and are lost by a restart; the store persists.    *)
(*                                                                         *)
(* The store's tables kels and fels are written by the same transaction    *)
(* with the same key and value, so one variable, fels, stands for both.    *)
(* The table of signatures is written and never read; it is left out.      *)
(***************************************************************************)
EXTENDS KeyEvent

CONSTANTS Note,     \* bodies of other messages: receipts (rct) and the rest
          Message,  \* what the parser yields
          NoSaid

Body == Event \cup Note

SeqNo == {e.s : e \in Body}

\* A receipt couple: who signed, and the SAID of the event that was signed
Couple == [w : Witness, of : Digest]

\* opaque: there is an attachment group the parser could not interpret
ASSUME DirectMessageAssumption ==
  \A m \in Message : m.ev \in Body /\ m.couples \subseteq Couple /\ m.opaque \in BOOLEAN

\* The SAID of such a message is the one it states: nobody verifies it, and it
\* may be the SAID of a key event
ASSUME NoteAssumption == Note \subseteq [t : {"rct", "exn"}, d : Digest, i : Prefix, s : Nat]

ASSUME NoSaidAssumption == NoSaid \notin Digest

VARIABLES kevers,  \* kevers[p]: the key state held in memory for p, or NoKever
          evts,    \* evts[d]: the body last stored under SAID d
          fels,    \* fels[p][s]: the SAID stored as p's event number s, or NoSaid
          rcts     \* rcts[d]: the receipt couples stored under SAID d

store == <<evts, fels, rcts>>

directVars == <<kevers, evts, fels, rcts>>

DirectTypeOK ==
  /\ kevers \in [Prefix -> KeyStateType \cup {NoKever}]
  /\ DOMAIN evts \subseteq Digest /\ \A d \in DOMAIN evts : evts[d] \in Body
  /\ fels \in [Prefix -> [SeqNo -> Digest \cup {NoSaid}]]
  /\ DOMAIN rcts \subseteq Digest /\ \A d \in DOMAIN rcts : rcts[d] \subseteq Couple

DirectInit ==
  /\ kevers = [p \in Prefix |-> NoKever]
  /\ evts = <<>>
  /\ fels = [p \in Prefix |-> [s \in SeqNo |-> NoSaid]]
  /\ rcts = <<>>

----------------------------------------------------------------------------
(* process_parsed, one action for each kind of message.  An error anywhere *)
(* leaves all state as it was; a write that fails in the store is one, as  *)
(* each arm makes one write and makes it before it touches the Kevers.     *)

\* The witnesses with a valid couple on this very event
ReceiptedBy(m) == {c.w : c \in {c \in m.couples : c.of = m.ev.d}}

Witnessed(m, st) ==
  VerifyWitnessReceipts(ReceiptedBy(m), st.backers, st.backer_threshold)

\* A put of the store replaces what the key held
Put(table, key, value) ==
  [x \in DOMAIN table \cup {key} |-> IF x = key THEN value ELSE table[x]]

\* KeriStore::store_event, one transaction of upserts
StoreEvent(e) ==
  /\ evts' = Put(evts, e.d, e)
  /\ fels' = [fels EXCEPT ![e.i][e.s] = e.d]
  /\ UNCHANGED rcts

\* Faulty variant: the Kever in memory is not looked for
ProcessInceptionAgain(m) ==
  /\ VerifyNew(m)
  /\ Witnessed(m, FromInception(m.ev))
  /\ StoreEvent(m.ev)
  /\ kevers' = [kevers EXCEPT ![m.ev.i] = FromInception(m.ev)]

\* A dip passes the test for the ilk here and fails in Kever::new_from_parts
ProcessInception(m) ==
  /\ kevers[m.ev.i] = NoKever
  /\ VerifyNew(m)
  /\ Witnessed(m, FromInception(m.ev))
  /\ StoreEvent(m.ev)
  /\ kevers' = [kevers EXCEPT ![m.ev.i] = FromInception(m.ev)]

\* Faulty variant: memory first, then the receipts and the store
ProcessUpdateMemoryFirst(m) ==
  LET st == kevers[m.ev.i]
  IN  /\ m.ev.t \in {"rot", "ixn", "drt"}
      /\ st # NoKever
      /\ VerifyUpdate(st, m)
      /\ kevers' = [kevers EXCEPT ![m.ev.i] = ApplyUpdate(st, m.ev)]
      /\ IF Witnessed(m, ApplyUpdate(st, m.ev)) THEN StoreEvent(m.ev) ELSE UNCHANGED store

\* The receipts are those the state after the event asks for
ProcessUpdate(m) ==
  LET st == kevers[m.ev.i]
  IN  /\ m.ev.t \in {"rot", "ixn", "drt"}
      /\ st # NoKever
      /\ VerifyUpdate(st, m)
      /\ Witnessed(m, ApplyUpdate(st, m.ev))
      /\ StoreEvent(m.ev)
      /\ kevers' = [kevers EXCEPT ![m.ev.i] = ApplyUpdate(st, m.ev)]

\* An event after the inception of an identifier without a Kever is passed over
Skip(m) ==
  /\ m.ev.t \in {"rot", "ixn", "drt"}
  /\ kevers[m.ev.i] = NoKever
  /\ UNCHANGED directVars

\* Couples are stored under the SAID of the receipt, unverified
PutReceipts(m) ==
  /\ m.ev.t = "rct"
  /\ rcts' = IF m.couples = {} THEN rcts ELSE Put(rcts, m.ev.d, m.couples)
  /\ UNCHANGED <<kevers, evts, fels>>

\* put_event under the SAID the message states, whatever it replaces
PutOther(m) ==
  /\ m.ev.t \notin Establishment \cup {"ixn", "rct"}
  /\ evts' = Put(evts, m.ev.d, m.ev)
  /\ UNCHANGED <<kevers, fels, rcts>>

ProcessParsed(m) ==
  /\ ~m.opaque
  /\ ProcessInception(m) \/ ProcessUpdate(m) \/ Skip(m) \/ PutReceipts(m) \/ PutOther(m)

\* A new process on the old store: nothing rebuilds the Kevers
LoseKevers ==
  /\ kevers' = [p \in Prefix |-> NoKever]
  /\ UNCHANGED store

DirectNext == \E m \in Message : ProcessParsed(m)

\* One run of the program
DirectSpec == DirectInit /\ [][DirectNext]_directVars

\* The program restarted at any time
RestartedDirectSpec == DirectInit /\ [][DirectNext \/ LoseKevers]_directVars

----------------------------------------------------------------------------
(* Properties.                                                             *)

\* The one event that a SAID is the digest of
EventOf(d) == CHOOSE e \in Event : e.d = d /\ VerifySaid(e)

\* What may stand under the SAID of e once e is stored: its body, or a message
\* that states the same SAID and came after it
StandsFor(e) == {e} \cup {n \in Note : n.t # "rct" /\ n.d = e.d}

\* The log of p names a hash chain of events from an inception on, and under
\* each SAID there is a body: the event's, which an unverified message may have
\* replaced, but no other key event's (the tables written by store_event).
StoredChain(p) ==
  \A s \in SeqNo :
    fels[p][s] # NoSaid =>
      LET e == EventOf(fels[p][s])
      IN  /\ e \in Event /\ e.d = fels[p][s] /\ VerifySaid(e)
          /\ e.i = p /\ e.s = s
          /\ s > 0 => s - 1 \in SeqNo /\ e.p = fels[p][s - 1]
          /\ e.d \in DOMAIN evts /\ evts[e.d] \in StandsFor(e)

\* Whatever messages came, repeated, forked or out of order, the stored log of
\* every identifier is one hash chain without gaps.  It is upserted by position
\* only, and the code leaves its integrity to the checks made in memory.
StoredKelIsChain == \A p \in Prefix : StoredChain(p)

\* Memory never runs ahead of the store: a Kever stands exactly at the last
\* stored event ("Persist to storage BEFORE updating in-memory state").
KeverAtStoredHead ==
  \A p \in Prefix :
    kevers[p] # NoKever =>
      \A s \in SeqNo :
        /\ s > kevers[p].sn => fels[p][s] = NoSaid
        /\ s = kevers[p].sn => fels[p][s] = kevers[p].last_event_digest

\* The witnesses of a state, each counted once, can meet its threshold.  Where
\* the state is made, the threshold is compared with the length of a list that
\* may repeat a witness; that the rest holds is due to receipts being counted
\* by witness, from the inception on.
BackersReachThreshold ==
  \A p \in Prefix :
    kevers[p] # NoKever =>
      kevers[p].backer_threshold <= Cardinality({w \in Witness : kevers[p].backers[w] > 0})

\* "A KEL can only have one inception per prefix": a stored inception is never
\* replaced by another.
OneInceptionPerPrefix ==
  [][\A p \in Prefix, s \in SeqNo :
       s = 0 /\ fels[p][s] # NoSaid => fels'[p][s] = fels[p][s]]_directVars
=============================================================================
