----------------------------- MODULE Controller -----------------------------
(***************************************************************************)
(* A controller and a direct mode verifier, end to end.  The controller    *)
(* holds one Hab (affinidi-keri/src/hab.rs), by itself or through a Habery *)
(* (affinidi-keri/src/habery.rs), stores what it signs and hands the       *)
(* messages out; witnesses, Habs themselves, receipt them; the network     *)
(* delivers them, with the receipts of any witnesses, in any order,        *)
(* repeatedly or not at all; the verifier is that of Direct.  The process  *)
(* of the controller may stop and be resumed.                              *)
(*                                                                         *)
(* The specifications differ in how the embedder treats the Hab:           *)
(* CarefulSpec saves Hab::state before every stop and resumes from it, and *)
(* its log is sent again as long as the verifier lacks an event;           *)
(* HaberySpec relies on the record the Habery keeps, and FailingSpec is    *)
(* careful on a store that may refuse a write.                             *)
(***************************************************************************)
EXTENDS Hab, Direct

CONSTANTS InceptionConfigs, RotationConfigs,
          Anchors,   \* the sets of seals an interaction may anchor
          HabSet,    \* the Habs that occur
          WitnessHabs,  \* the Habs that may receipt events
          ReceiptSn, \* bound: rct messages are about events with this number
          MaxSn,     \* bound: no event is made after this sequence number
          NoHab, NoEvent

ASSUME ConfigsAssumption ==
  /\ MaxSn \in Nat
  /\ \A c \in InceptionConfigs :
       c.count \in Nat /\ c.next_count \in Nat /\ InceptionOf(c).i \in Prefix
  /\ \A c \in RotationConfigs : c.next_count \in Nat

ASSUME NoneAssumption == NoHab \notin HabType /\ NoEvent \notin Event

ValidEvents == {e \in Event : VerifySaid(e)}

\* What a Hab makes are events with a SAID that verifies, and Habs
ASSUME HabsAssumption ==
  /\ HabSet \subseteq HabType
  /\ \A c \in InceptionConfigs :
       InceptionOf(c) \in ValidEvents /\ InceptedHab(c) \in HabSet
  /\ \A h \in HabSet :
       h.sn < MaxSn =>
         /\ \A seals \in Anchors :
              InteractionOf(h, seals) \in ValidEvents /\ InteractedHab(h, seals) \in HabSet
         /\ h.transferable =>
              \A c \in RotationConfigs :
                RotationOf(h, c) \in ValidEvents /\ RotatedHab(h, c) \in HabSet

\* Every witness is there to receipt
ASSUME WitnessHabsAssumption ==
  \A w \in Witness : \E h \in WitnessHabs : ~h.transferable /\ h.signers[1] = w

\* The SAID of a receipt tells what place it names
ASSUME ReceiptIsBinding ==
  \A e, f \in Event : ReceiptBody(e).d = ReceiptBody(f).d => e.i = f.i /\ e.s = f.s

VARIABLES hab,     \* the Hab in memory, or NoHab
          record,  \* the HabState the store keeps under the Hab's name, or NoHab
          saved,   \* the HabState the embedder saved last, or NoHab
          own,     \* own[p][s]: the event in the controller's store, or NoEvent
          sent,    \* the signed messages handed out
          kept     \* kept[w]: what the store of the witness w has under SAIDs

controllerVars == <<hab, record, saved, own, sent>>

vars == <<controllerVars, kept, directVars>>

TypeOK ==
  /\ kevers \in [Prefix -> KeyStateType \cup {NoKever}]
  /\ hab \in HabType \cup {NoHab}
  /\ record \in HabStateType \cup {NoHab}
  /\ saved \in HabStateType \cup {NoHab}
  /\ \A p \in Prefix, s \in 0..MaxSn :
       own[p][s] # NoEvent => own[p][s].i = p /\ own[p][s].s = s
  /\ \A d \in DOMAIN evts : evts[d] \in {m.ev : m \in sent}
  /\ DOMAIN kept = WitnessHabs
  /\ \A w \in WitnessHabs : DOMAIN kept[w] \subseteq {m.ev.d : m \in sent}

Init ==
  /\ DirectInit
  /\ hab = NoHab /\ record = NoHab /\ saved = NoHab
  /\ own = [p \in Prefix |-> [s \in 0..MaxSn |-> NoEvent]]
  /\ sent = {}
  /\ kept = [w \in WitnessHabs |-> <<>>]

----------------------------------------------------------------------------
(* The controller.                                                         *)

\* Store the event as number s of its log, replacing what is there, and hand
\* it out signed
Emit(e, signers) ==
  /\ own' = [own EXCEPT ![e.i][e.s] = e]
  /\ sent' = sent \cup {[ev |-> e, sigs |-> SignAll(signers)]}

\* Habery::incept looks for the name among the Habs in memory only
Incept(c) ==
  /\ hab = NoHab
  /\ hab' = InceptedHab(c)
  /\ record' = RecordOf(c)
  /\ Emit(InceptionOf(c), Signers(0, c.count))
  /\ UNCHANGED <<saved, kept, directVars>>

\* Faulty variant, which the documentation of Hab::rotate describes
RotateSignedByCurrent(c) ==
  /\ hab # NoHab /\ hab.sn < MaxSn /\ hab.transferable
  /\ hab' = RotatedHab(hab, c)
  /\ Emit(RotationOf(hab, c), hab.signers)
  /\ UNCHANGED <<record, saved, kept, directVars>>

\* Signed by the keys it installs
Rotate(c) ==
  /\ hab # NoHab /\ hab.sn < MaxSn /\ hab.transferable
  /\ hab' = RotatedHab(hab, c)
  /\ Emit(RotationOf(hab, c), hab.next_signers)
  /\ UNCHANGED <<record, saved, kept, directVars>>

\* The store refuses the rotation and the caller gets an error
RotateFails ==
  /\ hab # NoHab /\ hab.sn < MaxSn /\ hab.transferable
  /\ hab' = FailedRotation(hab)
  /\ UNCHANGED <<record, saved, own, sent, kept, directVars>>

\* Faulty variant: the sequence number is not advanced
InteractInPlace(seals) ==
  /\ hab # NoHab /\ hab.sn < MaxSn
  /\ hab' = [InteractedHab(hab, seals) EXCEPT !.sn = hab.sn]
  /\ Emit(InteractionOf(hab, seals), hab.signers)
  /\ UNCHANGED <<record, saved, kept, directVars>>

Interact(seals) ==
  /\ hab # NoHab /\ hab.sn < MaxSn
  /\ hab' = InteractedHab(hab, seals)
  /\ Emit(InteractionOf(hab, seals), hab.signers)
  /\ UNCHANGED <<record, saved, kept, directVars>>

\* The embedder persists Hab::state
Save ==
  /\ hab # NoHab
  /\ saved' = StateOf(hab)
  /\ UNCHANGED <<hab, record, own, sent, kept, directVars>>

Stop ==
  /\ hab # NoHab
  /\ hab' = NoHab
  /\ UNCHANGED <<record, saved, own, sent, kept, directVars>>

\* Hab::resume
ResumeSaved ==
  /\ hab = NoHab /\ saved # NoHab
  /\ hab' = Resumed(saved)
  /\ UNCHANGED <<record, saved, own, sent, kept, directVars>>

\* Habery::resume
ResumeRecord ==
  /\ hab = NoHab /\ record # NoHab
  /\ hab' = Resumed(record)
  /\ UNCHANGED <<record, saved, own, sent, kept, directVars>>

----------------------------------------------------------------------------
(* Witnesses.                                                              *)

\* Hab::receipt_message for any event it is shown; the receipt is stored under
\* the SAID of the event
WitnessReceipts(w, m) ==
  /\ kept' = [kept EXCEPT ![w] = Put(@, m.ev.d, ReceiptMessage(w, m.ev))]
  /\ UNCHANGED <<controllerVars, directVars>>

----------------------------------------------------------------------------
(* The network and the verifier.                                           *)

\* An event with Hab::compose_witness_receipt_attachment
WithReceipts(m, habs) ==
  [ev |-> m.ev, sigs |-> m.sigs, couples |-> CollectWitnessReceipts(m.ev, habs),
   opaque |-> FALSE]

Deliver(m, habs) ==
  /\ MayWitness(habs)
  /\ ProcessParsed(WithReceipts(m, habs))
  /\ UNCHANGED <<controllerVars, kept>>

\* An rct message
DeliverReceipt(w, d) ==
  /\ d \in DOMAIN kept[w]
  /\ ProcessParsed(kept[w][d])
  /\ UNCHANGED <<controllerVars, kept>>

----------------------------------------------------------------------------

Sign == (\E c \in RotationConfigs : Rotate(c)) \/ (\E seals \in Anchors : Interact(seals))

DeliverAny == \E m \in sent, habs \in SUBSET WitnessHabs : Deliver(m, habs)

Witnessing == {w \in WitnessHabs : ~w.transferable}

\* The receipts of transferable Habs, which hold no couples, are left out
Receipting ==
  \/ \E w \in Witnessing, m \in sent : m.ev.s = ReceiptSn /\ WitnessReceipts(w, m)
  \/ \E w \in Witnessing : \E d \in DOMAIN kept[w] : DeliverReceipt(w, d)

\* Is m what the verifier needs next?
Needed(m) == m.ev.s = IF kevers[m.ev.i] = NoKever THEN 0 ELSE kevers[m.ev.i].sn + 1

\* The embedder sends again, receipted by all witnesses, what the verifier
\* needs next
Resend == \E m \in sent : Needed(m) /\ Deliver(m, Witnessing)

Begin == sent = {} /\ \E c \in InceptionConfigs : Incept(c)

StopSaved == hab # NoHab /\ saved = StateOf(hab) /\ Stop

CarefulNext == Begin \/ Sign \/ Save \/ StopSaved \/ ResumeSaved \/ Receipting \/ DeliverAny

HaberyNext == Begin \/ Sign \/ Stop \/ ResumeRecord \/ DeliverAny

CarefulSpec == Init /\ [][CarefulNext]_vars /\ WF_vars(Resend)

HaberySpec == Init /\ [][HaberyNext]_vars

FailingSpec == Init /\ [][CarefulNext \/ RotateFails]_vars

----------------------------------------------------------------------------
(* Properties.                                                             *)

\* The number of the last establishment event in p's own log up to s
LastEstablishment(p, s) ==
  CHOOSE l \in 0..s :
    own[p][l].t \in Establishment /\ \A j \in (l + 1)..s : own[p][j].t \notin Establishment

\* The signers in memory are those the own log installed last, and the next
\* signers those it committed to last, however often the Hab was stopped and
\* rebuilt from generations and counts ("a resumed Hab signs exactly what an
\* unbroken one would").
SignersMatchOwnLog ==
  hab # NoHab =>
    LET est == own[hab.prefix][LastEstablishment(hab.prefix, hab.sn)]
    IN  /\ own[hab.prefix][hab.sn].d = hab.last_said
        /\ hab.signers = est.k
        /\ Digests(hab.next_signers) = est.n

\* "Every key, current and pre-rotated, is reproducible from" the state a Hab
\* exports (documentation of HabState).
StateReproducesKeys ==
  hab # NoHab =>
    LET est == own[hab.prefix][LastEstablishment(hab.prefix, hab.sn)]
        st  == StateOf(hab)
    IN  /\ Signers(st.signer_gen, st.signer_count) = est.k
        /\ Digests(Signers(st.next_gen, st.next_count)) = est.n

\* A controller never signs two events for the same place in its log: what
\* tests/resume.rs means by a resumed identifier that is "indistinguishable
\* from one that was never interrupted".
NoEquivocation ==
  \A m, n \in sent : m.ev.i = n.ev.i /\ m.ev.s = n.ev.s => m.ev = n.ev

\* All state is well typed; what the verifier knows of the identifier is a
\* prefix of the controller's own log, and when it has caught up it agrees with
\* the Hab on everything the next event is verified with.
VerifierFollows ==
  /\ TypeOK
  /\ \A p \in Prefix :
       LET st == kevers[p]
       IN  st # NoKever =>
             /\ \A s \in 0..st.sn : own[p][s] # NoEvent /\ fels[p][s] = own[p][s].d
             /\ hab # NoHab /\ hab.prefix = p /\ st.last_event_digest = hab.last_said =>
                  /\ st.sn = hab.sn
                  /\ st.keys = hab.signers
                  /\ st.next_keys = Digests(hab.next_signers)
                  /\ st.backer_threshold = hab.backer_threshold
                  /\ st.backers = hab.backers

\* The keys of the event can meet its threshold, and its backers theirs, each
\* counted once
WellConfigured(e, backers) ==
  e.t = "rot" =>
    /\ e.kt.k \in 1..Len(e.k)
    /\ e.bt <= Cardinality({w \in Witness : UpdateBackers(backers, e.br, e.ba)[w] > 0})

\* Controller and verifier agree on what a valid event is: the event that
\* continues the verifier's log is accepted once its witnesses have receipted
\* it, whatever rotations, resumptions and losses went before.
NextEventVerifies ==
  \A m \in sent :
    LET st == kevers[m.ev.i]
        full == WithReceipts(m, Witnessing)
    IN  (/\ m.ev.t # "icp" /\ st # NoKever
         /\ st.last_event_digest = m.ev.p
         /\ WellConfigured(m.ev, st.backers))
        => VerifyUpdate(st, full) /\ Witnessed(full, ApplyUpdate(st, m.ev))

\* The backers after each event of p's own log up to n
BackersAt(p, n) ==
  LET at[s \in 0..n] ==
        IF s = 0 THEN own[p][0].b
        ELSE IF own[p][s].t = "rot" THEN UpdateBackers(at[s - 1], own[p][s].br, own[p][s].ba)
        ELSE at[s - 1]
  IN  at

\* Can the log of p be verified up to the event n?  Hab::rotate does not ask.
Verifiable(p, n) ==
  LET backers == BackersAt(p, n)
  IN  \A s \in 0..n :
        own[p][s] # NoEvent /\ (s > 0 => WellConfigured(own[p][s], backers[s - 1]))

\* The verifier never stands at or past a rotation that leaves fewer witnesses
\* than their threshold asks for, or asks for more keys than it has: such an
\* event, which the Hab has signed and stored and goes on from, ends what
\* others can follow.
FollowsOnlyVerifiable ==
  \A p \in Prefix : kevers[p] # NoKever => Verifiable(p, kevers[p].sn)

\* All receipts the verifier stores as rct messages for one place in a log are
\* for the event that is there, though their body names only the place.
ReceiptsNameLoggedEvent ==
  \A p \in Prefix, s \in 0..MaxSn :
    own[p][s] # NoEvent /\ ReceiptBody(own[p][s]).d \in DOMAIN rcts =>
      \A c \in rcts[ReceiptBody(own[p][s]).d] : c.of = own[p][s].d

\* A verifier that is sent the log again, with the receipts of the witnesses,
\* catches up with every event that can be verified, whatever it was sent, in
\* whatever order, before.  (Only one identifier is incepted.)
CatchesUp ==
  \A n \in 0..MaxSn :
    (\E p \in Prefix : Verifiable(p, n))
      ~> (\E p \in Prefix : kevers[p] # NoKever /\ kevers[p].sn >= n)
=============================================================================
