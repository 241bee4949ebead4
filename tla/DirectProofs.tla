---------------------------- MODULE DirectProofs ----------------------------
(***************************************************************************)
(* Proofs about Direct: the type invariant of the verifier and its store,  *)
(* and the integrity of the stored logs in one run of the program.         *)
(*                                                                         *)
(* store_event upserts by position, so a stored log stays a chain only if  *)
(* the position written is empty.  The lemma EventStored takes that as an  *)
(* assumption; here the Kever in memory provides it, in the Judge the      *)
(* lookup in the first-seen log.                                           *)
(***************************************************************************)
EXTENDS Direct, TLAPS, FiniteSetTheorems, WellFoundedInduction

----------------------------------------------------------------------------
(* Key events and the states they lead to, as in KeverProofs: both modules *)
(* extend KeyEvent, neither the other.                                     *)

\* A set of natural numbers that is not empty has a least element.
LEMMA LeastNumber ==
  ASSUME NEW S \in SUBSET Nat, S # {}
  PROVE  \E least \in S : \A n \in S : least <= n
<1>1. PICK least \in S : \A n \in S : <<n, least>> \notin OpToRel(<, Nat)
  BY WFMin, NatLessThanWellFounded, Zenon
<1>2. \A n \in S : ~(n < least)
  BY <1>1 DEF OpToRel
<1> QED
  BY <1>2

Incepted(e) == IF e.t = "icp" THEN FromInception(e) ELSE FromDelegatedInception(e)

\* The fields of the event bodies of event.rs that the checks read
LEMMA EventFields ==
  ASSUME NEW e \in Event
  PROVE  /\ e \in KeyEvent
         /\ e.t \in {"icp", "dip", "rot", "drt", "ixn"}
         /\ e.d \in Digest /\ e.i \in Prefix /\ e.s \in Nat
         /\ e.t # "ixn" => /\ e.kt \in ThresholdType /\ e.k \in Seq(Key)
                           /\ e.n \in Seq(Digest) /\ e.bt \in Nat
         /\ e.t \in {"icp", "dip"} => e.b \in [Witness -> Nat]
         /\ e.t \in {"rot", "drt"} => e.br \in SUBSET Witness /\ e.ba \in SUBSET Witness
         /\ e.t \in {"dip", "drt"} => e.di \in Prefix
<1>1. e \in KeyEvent
  BY EventAssumption
<1>2. CASE e \in InceptionEvent
  BY <1>1, <1>2 DEF InceptionEvent
<1>3. CASE e \in DelegatedInceptionEvent
  BY <1>1, <1>3 DEF DelegatedInceptionEvent
<1>4. CASE e \in RotationEvent
  BY <1>1, <1>4 DEF RotationEvent
<1>5. CASE e \in DelegatedRotationEvent
  BY <1>1, <1>5 DEF DelegatedRotationEvent
<1>6. CASE e \in InteractionEvent
  BY <1>1, <1>6 DEF InteractionEvent
<1> QED
  BY <1>1, <1>2, <1>3, <1>4, <1>5, <1>6 DEF KeyEvent

\* Removing and adding backers leaves a list of backers
LEMMA BackersType ==
  ASSUME NEW backers \in [Witness -> Nat], NEW br, NEW ba
  PROVE  UpdateBackers(backers, br, ba) \in [Witness -> Nat]
BY DEF UpdateBackers

\* The state an inception leads to (KeyState::from_inception) is well typed
LEMMA InceptedType ==
  ASSUME NEW e \in Event, e.t \in {"icp", "dip"}
  PROVE  Incepted(e) \in KeyStateType
<1> USE EventFields
<1>1. CASE e.t = "icp"
  BY <1>1 DEF Incepted, FromInception, InceptedState, KeyStateType
<1>2. CASE e.t = "dip"
  BY <1>2 DEF Incepted, FromDelegatedInception, InceptedState, KeyStateType
<1> QED
  BY <1>1, <1>2

\* So is the state any later event leads to (KeyState::apply_rotation and the rest)
LEMMA ApplyType ==
  ASSUME NEW st \in KeyStateType, NEW e \in Event, e.t \in {"rot", "drt", "ixn"}
  PROVE  ApplyUpdate(st, e) \in KeyStateType
<1> USE EventFields
<1>1. CASE e.t = "ixn"
  BY <1>1 DEF ApplyUpdate, ApplyInteraction, KeyStateType
<1>2. CASE e.t # "ixn"
  <2>1. st.backers \in [Witness -> Nat]
    BY DEF KeyStateType
  <2>2. UpdateBackers(st.backers, e.br, e.ba) \in [Witness -> Nat]
    BY <2>1, BackersType
  <2> QED
    BY <1>2, <2>2 DEF ApplyUpdate, ApplyRotation, KeyStateType
<1> QED
  BY <1>1, <1>2

----------------------------------------------------------------------------
(* The verifier and its store.                                             *)

\* What a message is about
LEMMA MessageFields ==
  ASSUME NEW m \in Message
  PROVE  /\ m.ev \in Body /\ m.ev.d \in Digest /\ m.ev.i \in Prefix /\ m.ev.s \in SeqNo
         /\ m.ev.s \in Nat
         /\ m.ev.t \in Establishment \cup {"ixn"} <=> m.ev \in Event
         /\ m.ev \notin Event => m.ev \in Note
         /\ m.couples \subseteq Couple
<1>1. m.ev \in Body /\ m.couples \subseteq Couple
  BY DirectMessageAssumption
<1>2. m.ev.s \in SeqNo
  BY <1>1 DEF SeqNo
<1>3. CASE m.ev \in Event
  BY <1>1, <1>2, <1>3, EventFields DEF Establishment
<1>4. CASE m.ev \in Note
  <2>1. m.ev \in [t : {"rct", "exn"}, d : Digest, i : Prefix, s : Nat]
    BY <1>4, NoteAssumption
  <2>2. m.ev.t \in {"rct", "exn"} /\ m.ev.d \in Digest /\ m.ev.i \in Prefix /\ m.ev.s \in Nat
    BY <2>1
  <2>3. m.ev \notin Event
    BY <2>2, EventFields
  <2> QED
    BY <1>1, <1>2, <1>4, <2>2, <2>3 DEF Establishment
<1> QED
  BY <1>1, <1>3, <1>4 DEF Body

\* The state a stored event leads to, in memory
NewState(m) ==
  IF kevers[m.ev.i] = NoKever THEN FromInception(m.ev) ELSE ApplyUpdate(kevers[m.ev.i], m.ev)

\* What is known of an event that process_parsed stores: verified, an inception
\* of an identifier without a Kever or the event after the Kever's last
EventAccepted(m) ==
  LET e == m.ev
  IN  /\ e \in Event
      /\ VerifySaid(e)
      /\ IF kevers[e.i] = NoKever THEN e.t = "icp" /\ e.s = 0
         ELSE e.t \in {"rot", "ixn"} /\ Follows(kevers[e.i], e)
      /\ StoreEvent(e)
      /\ kevers' = [kevers EXCEPT ![e.i] = NewState(m)]

\* Each arm of process_parsed stores an accepted event, or leaves the logs and
\* the Kevers as they are
LEMMA ParsedCases ==
  ASSUME NEW m \in Message, ProcessParsed(m)
  PROVE  \/ EventAccepted(m)
         \/ /\ UNCHANGED <<kevers, fels>>
            /\ \/ UNCHANGED <<evts, rcts>>
               \/ m.ev \in Note /\ m.ev.t # "rct" /\ evts' = Put(evts, m.ev.d, m.ev) /\ UNCHANGED rcts
               \/ rcts' = Put(rcts, m.ev.d, m.couples) /\ UNCHANGED evts
<1> USE MessageFields
<1>1. CASE ProcessInception(m)
  <2>1. m.ev.t = "icp" /\ m.ev \in Event /\ m.ev.s = 0 /\ VerifySaid(m.ev)
    BY <1>1 DEF ProcessInception, VerifyNew, InceptionFieldsOK, Establishment
  <2> QED
    BY <1>1, <2>1 DEF ProcessInception, EventAccepted, NewState
<1>2. CASE ProcessUpdate(m)
  <2>1. m.ev.t \in {"rot", "ixn"} /\ VerifySaid(m.ev) /\ Follows(kevers[m.ev.i], m.ev)
    BY <1>2 DEF ProcessUpdate, VerifyUpdate, VerifyRotation, VerifyInteraction, MayRotatePlainly,
                RotationOK, InteractionOK
  <2>2. m.ev \in Event
    BY <2>1 DEF Establishment
  <2> QED
    BY <1>2, <2>1, <2>2 DEF ProcessUpdate, EventAccepted, NewState
<1>3. CASE Skip(m)
  BY <1>3 DEF Skip, directVars
<1>4. CASE PutReceipts(m)
  BY <1>4 DEF PutReceipts
<1>5. CASE PutOther(m)
  BY <1>5 DEF PutOther, Establishment
<1> QED
  BY <1>1, <1>2, <1>3, <1>4, <1>5 DEF ProcessParsed

----------------------------------------------------------------------------
(* Type correctness.                                                       *)

\* A new state is a key state, and stands where the event puts it
LEMMA NewStateType ==
  ASSUME DirectTypeOK, NEW m \in Message, EventAccepted(m)
  PROVE  /\ NewState(m) \in KeyStateType
         /\ NewState(m).sn = m.ev.s
         /\ NewState(m).last_event_digest = m.ev.d
         /\ NewState(m).prefix = m.ev.i
<1> DEFINE e == m.ev
<1>1. e.i \in Prefix /\ e \in Event
  BY MessageFields DEF EventAccepted
<1>2. CASE kevers[e.i] = NoKever
  <2>1. e.t = "icp" /\ e.s = 0 /\ NewState(m) = FromInception(e)
    BY <1>2 DEF EventAccepted, NewState
  <2>2. Incepted(e) = FromInception(e)
    BY <2>1 DEF Incepted
  <2>3. NewState(m) \in KeyStateType
    BY <1>1, <2>1, <2>2, InceptedType
  <2> QED
    BY <2>1, <2>3 DEF FromInception, InceptedState
<1>3. CASE kevers[e.i] # NoKever
  <2>1. kevers[e.i] \in KeyStateType
    BY <1>1, <1>3 DEF DirectTypeOK
  <2>2. /\ e.t \in {"rot", "drt", "ixn"} /\ Follows(kevers[e.i], e)
        /\ NewState(m) = ApplyUpdate(kevers[e.i], e)
    BY <1>3 DEF EventAccepted, NewState
  <2>3. NewState(m) \in KeyStateType
    BY <1>1, <2>1, <2>2, ApplyType
  <2>4. kevers[e.i].prefix = e.i
    BY <2>2 DEF Follows
  <2> QED
    BY <2>1, <2>2, <2>3, <2>4 DEF ApplyUpdate, ApplyInteraction, ApplyRotation, KeyStateType
<1> QED
  BY <1>2, <1>3

\* What the tables of the store hold has their types whichever message comes
LEMMA ParsedType ==
  ASSUME DirectTypeOK, NEW m \in Message, ProcessParsed(m)
  PROVE  DirectTypeOK'
<1>1. m.ev \in Body /\ m.ev.d \in Digest /\ m.ev.i \in Prefix /\ m.ev.s \in SeqNo
  BY MessageFields
<1>2. CASE EventAccepted(m)
  <2>1. NewState(m) \in KeyStateType
    BY <1>2, NewStateType
  <2>2. kevers' \in [Prefix -> KeyStateType \cup {NoKever}]
    BY <1>1, <1>2, <2>1 DEF EventAccepted, DirectTypeOK
  <2>3. fels' \in [Prefix -> [SeqNo -> Digest \cup {NoSaid}]]
    BY <1>1, <1>2 DEF EventAccepted, StoreEvent, DirectTypeOK
  <2>4. DOMAIN evts' \subseteq Digest /\ \A d \in DOMAIN evts' : evts'[d] \in Body
    BY <1>1, <1>2 DEF EventAccepted, StoreEvent, DirectTypeOK, Put
  <2> QED
    BY <1>2, <2>2, <2>3, <2>4 DEF EventAccepted, StoreEvent, DirectTypeOK
<1>3. CASE UNCHANGED <<kevers, fels, rcts>> /\ evts' = Put(evts, m.ev.d, m.ev)
  <2>1. DOMAIN evts' \subseteq Digest /\ \A d \in DOMAIN evts' : evts'[d] \in Body
    BY <1>1, <1>3 DEF DirectTypeOK, Put
  <2> QED
    BY <1>3, <2>1 DEF DirectTypeOK
<1>4. CASE UNCHANGED <<kevers, fels, evts>> /\ rcts' = Put(rcts, m.ev.d, m.couples)
  <2>1. m.couples \in SUBSET Couple
    BY MessageFields
  <2>2. DOMAIN rcts' \subseteq Digest /\ \A d \in DOMAIN rcts' : rcts'[d] \in SUBSET Couple
    BY <1>1, <1>4, <2>1 DEF DirectTypeOK, Put
  <2> QED
    BY <1>4, <2>2 DEF DirectTypeOK
<1>5. CASE UNCHANGED <<kevers, fels, evts, rcts>>
  BY <1>5 DEF DirectTypeOK
<1> QED
  BY <1>2, <1>3, <1>4, <1>5, ParsedCases

----------------------------------------------------------------------------
(* The stored logs.                                                        *)

\* A SAID that verifies names its event
LEMMA EventOfSaid ==
  ASSUME NEW e \in Event, VerifySaid(e)
  PROVE  EventOf(e.d) = e
<1> DEFINE f == EventOf(e.d)
<1>1. f \in Event /\ f.d = e.d /\ VerifySaid(f)
  BY DEF EventOf
<1> QED
  BY <1>1, SaidIsBinding

\* Position s of the stored log of p: empty, or an event that chained to the
\* position before, with a body under its SAID
StoredOK(p, s) ==
  fels[p][s] # NoSaid =>
    LET e == EventOf(fels[p][s])
    IN  /\ e \in Event /\ e.d = fels[p][s] /\ VerifySaid(e)
        /\ e.i = p /\ e.s = s
        /\ s > 0 => s - 1 \in SeqNo /\ fels[p][s - 1] # NoSaid /\ e.p = fels[p][s - 1]
        /\ e.d \in DOMAIN evts /\ evts[e.d] \in StandsFor(e)

\* A Kever stands at a stored event
KeverStored ==
  \A p \in Prefix :
    kevers[p] # NoKever =>
      /\ kevers[p].prefix = p
      /\ kevers[p].sn \in SeqNo
      /\ fels[p][kevers[p].sn] = kevers[p].last_event_digest

StoreOK == (\A p \in Prefix : \A s \in SeqNo : StoredOK(p, s)) /\ KeverStored

\* Sequence numbers are naturals
LEMMA SeqNoNat == SeqNo \subseteq Nat
<1>1. \A e \in Event : e.s \in Nat
  BY EventFields
<1>2. \A e \in Note : e.s \in Nat
  BY NoteAssumption
<1> QED
  BY <1>1, <1>2 DEF SeqNo, Body

\* Whatever is put, a body stays under the SAID of a stored event, and it is not
\* another key event
LEMMA BodyStays ==
  ASSUME NEW m \in Message, NEW e \in Event, VerifySaid(e),
         e.d \in DOMAIN evts, evts[e.d] \in StandsFor(e),
         evts' = Put(evts, m.ev.d, m.ev),
         (m.ev \in Event /\ VerifySaid(m.ev)) \/ (m.ev \in Note /\ m.ev.t # "rct")
  PROVE  e.d \in DOMAIN evts' /\ evts'[e.d] \in StandsFor(e)
<1>1. CASE m.ev.d # e.d
  BY <1>1 DEF Put
<1>2. CASE m.ev.d = e.d
  <2>1. e.d \in DOMAIN evts' /\ evts'[e.d] = m.ev
    BY <1>2 DEF Put
  <2>2. m.ev \in StandsFor(e)
    BY <1>2, SaidIsBinding DEF StandsFor
  <2> QED
    BY <2>1, <2>2
<1> QED
  BY <1>1, <1>2

\* An accepted event keeps the stored logs chains if its position is empty
LEMMA EventStored ==
  ASSUME DirectTypeOK, StoreOK, NEW m \in Message, EventAccepted(m),
         fels[m.ev.i][m.ev.s] = NoSaid
  PROVE  StoreOK'
<1> DEFINE e == m.ev
<1>1. e \in Event /\ VerifySaid(e) /\ e.d \in Digest /\ e.i \in Prefix /\ e.s \in SeqNo
  BY MessageFields DEF EventAccepted
<1>2. evts' = Put(evts, e.d, e) /\ fels' = [fels EXCEPT ![e.i][e.s] = e.d]
  BY DEF EventAccepted, StoreEvent
<1>3. fels'[e.i][e.s] = e.d
  BY <1>1, <1>2 DEF DirectTypeOK
<1>4. \A p \in Prefix, s \in SeqNo : p # e.i \/ s # e.s => fels'[p][s] = fels[p][s]
  BY <1>1, <1>2 DEF DirectTypeOK
<1>5. ASSUME NEW p \in Prefix, NEW s \in SeqNo
      PROVE  StoredOK(p, s)'
  <2>1. CASE p = e.i /\ s = e.s
    <3>1. e.d \in DOMAIN evts' /\ evts'[e.d] \in StandsFor(e)
      BY <1>2 DEF Put, StandsFor
    <3>0. EventOf(fels'[p][s]) = e /\ fels'[p][s] = e.d
      BY <1>1, <1>3, <2>1, EventOfSaid
    <3>2. CASE kevers[e.i] = NoKever
      <4>1. e.s = 0
        BY <3>2 DEF EventAccepted
      <4> QED
        BY <1>1, <2>1, <3>0, <3>1, <4>1 DEF StoredOK
    <3>3. CASE kevers[e.i] # NoKever
      <4> DEFINE n == kevers[e.i].sn
      <4>1. e.s = n + 1 /\ e.p = kevers[e.i].last_event_digest
        BY <3>3 DEF EventAccepted, Follows
      <4>2. kevers[e.i] \in KeyStateType
        BY <1>1, <3>3 DEF DirectTypeOK
      <4>3. n \in SeqNo /\ n \in Nat /\ fels[e.i][n] = e.p /\ e.p \in Digest
        BY <1>1, <3>3, <4>1, <4>2 DEF StoreOK, KeverStored, KeyStateType
      <4>4. fels'[e.i][n] = e.p /\ e.p # NoSaid
        BY <1>1, <1>4, <4>1, <4>3, NoSaidAssumption
      <4>5. e.s - 1 = n
        BY <4>1, <4>3
      <4> QED
        BY <1>1, <2>1, <3>0, <3>1, <4>3, <4>4, <4>5, <4>1 DEF StoredOK
    <3> QED
      BY <3>2, <3>3
  <2>2. CASE p # e.i \/ s # e.s
    <3>1. fels'[p][s] = fels[p][s]
      BY <1>4, <2>2
    <3>2. StoredOK(p, s)
      BY DEF StoreOK
    <3>3. SUFFICES ASSUME fels[p][s] # NoSaid
                   PROVE  StoredOK(p, s)'
      BY <3>1 DEF StoredOK
    <3> DEFINE f == EventOf(fels[p][s])
    <3>4. f.d \in DOMAIN evts' /\ evts'[f.d] \in StandsFor(f)
      BY <1>1, <1>2, <3>2, <3>3, BodyStays DEF StoredOK
    <3>5. s > 0 => s - 1 \in SeqNo /\ fels'[p][s - 1] = fels[p][s - 1]
      BY <1>4, <3>2, <3>3 DEF StoredOK
    <3> QED
      BY <3>1, <3>2, <3>3, <3>4, <3>5 DEF StoredOK
  <2> QED
    BY <2>1, <2>2
<1>6. KeverStored'
  <2> SUFFICES ASSUME NEW p \in Prefix, kevers'[p] # NoKever
               PROVE  /\ kevers'[p].prefix = p
                      /\ kevers'[p].sn \in SeqNo
                      /\ fels'[p][kevers'[p].sn] = kevers'[p].last_event_digest
    BY DEF KeverStored
  <2>1. CASE p = e.i
    <3>1. kevers'[p] = NewState(m)
      BY <1>1, <2>1 DEF EventAccepted, DirectTypeOK
    <3> QED
      BY <1>1, <1>3, <2>1, <3>1, NewStateType
  <2>2. CASE p # e.i
    <3>1. kevers'[p] = kevers[p]
      BY <1>1, <2>2 DEF EventAccepted, DirectTypeOK
    <3> QED
      BY <1>4, <2>2, <3>1 DEF StoreOK, KeverStored
  <2> QED
    BY <2>1, <2>2
<1> QED
  BY <1>5, <1>6 DEF StoreOK

\* Other messages do not touch the stored logs
LEMMA OtherStored ==
  ASSUME StoreOK, NEW m \in Message, UNCHANGED fels,
         kevers' = kevers \/ kevers' = [p \in Prefix |-> NoKever],
         UNCHANGED evts \/ (m.ev \in Note /\ m.ev.t # "rct" /\ evts' = Put(evts, m.ev.d, m.ev))
  PROVE  StoreOK'
<1>1. ASSUME NEW p \in Prefix, NEW s \in SeqNo, fels[p][s] # NoSaid
      PROVE  LET f == EventOf(fels[p][s])
             IN  f.d \in DOMAIN evts' /\ evts'[f.d] \in StandsFor(f)
  <2>1. StoredOK(p, s)
    BY DEF StoreOK
  <2> QED
    BY <1>1, <2>1, BodyStays DEF StoredOK
<1>2. \A p \in Prefix, s \in SeqNo : StoredOK(p, s)'
  BY <1>1 DEF StoreOK, StoredOK
<1>3. KeverStored'
  BY DEF StoreOK, KeverStored
<1> QED
  BY <1>2, <1>3 DEF StoreOK

\* Stored logs that are in order are hash chains
LEMMA StoreOKIsChain ==
  ASSUME StoreOK
  PROVE  StoredKelIsChain
BY DEF StoreOK, StoredOK, StoredKelIsChain, StoredChain

----------------------------------------------------------------------------
(* One run of the program.                                                 *)

\* Nothing is stored beyond a Kever, or without one
NothingBeyond ==
  \A p \in Prefix : \A s \in SeqNo :
    kevers[p] = NoKever \/ s > kevers[p].sn => fels[p][s] = NoSaid

DirectOK == DirectTypeOK /\ StoreOK /\ NothingBeyond

\* In one run the Kevers, which every event passes, say what is stored
LEMMA DirectInvariant == DirectSpec => []DirectOK
<1>1. DirectInit => DirectOK
  BY DEF DirectInit, DirectOK, DirectTypeOK, StoreOK, StoredOK, KeverStored, NothingBeyond
<1>2. DirectOK /\ [DirectNext]_directVars => DirectOK'
  <2> SUFFICES ASSUME DirectOK, [DirectNext]_directVars
               PROVE  DirectOK'
    OBVIOUS
  <2>1. ASSUME NEW m \in Message, ProcessParsed(m)
        PROVE  DirectOK'
    <3> DEFINE e == m.ev
    <3>0. DirectTypeOK'
      BY <2>1, ParsedType DEF DirectOK
    <3>1. CASE EventAccepted(m)
      <4>1. e.i \in Prefix /\ e.s \in SeqNo /\ e.s \in Nat /\ e.d \in Digest
        BY MessageFields
      <4>2. fels[e.i][e.s] = NoSaid
        <5>1. CASE kevers[e.i] = NoKever
          BY <4>1, <5>1 DEF DirectOK, NothingBeyond
        <5>2. CASE kevers[e.i] # NoKever
          <6>1. kevers[e.i].sn \in Nat
            BY <4>1, <5>2 DEF DirectOK, DirectTypeOK, KeyStateType
          <6>2. e.s > kevers[e.i].sn
            BY <3>1, <5>2, <6>1 DEF EventAccepted, Follows
          <6> QED
            BY <4>1, <6>2 DEF DirectOK, NothingBeyond
        <5> QED
          BY <5>1, <5>2
      <4>3. StoreOK'
        BY <2>1, <3>1, <4>2, EventStored DEF DirectOK
      <4>4. NothingBeyond'
        <5> SUFFICES ASSUME NEW p \in Prefix, NEW s \in SeqNo,
                            kevers'[p] = NoKever \/ s > kevers'[p].sn
                     PROVE  fels'[p][s] = NoSaid
          BY DEF NothingBeyond
        <5>1. CASE p = e.i
          <6>1. kevers'[p] = NewState(m) /\ NewState(m) \in KeyStateType /\ NewState(m).sn = e.s
            BY <3>1, <4>1, <5>1, NewStateType DEF EventAccepted, DirectOK, DirectTypeOK
          <6>2. s > e.s
            BY <6>1, NoKeverAssumption
          <6>3. fels'[p][s] = fels[p][s]
            BY <3>1, <4>1, <5>1, <6>2 DEF EventAccepted, StoreEvent, DirectOK, DirectTypeOK
          <6>4. kevers[p] = NoKever \/ s > kevers[p].sn
            <7> SUFFICES ASSUME kevers[p] # NoKever
                         PROVE  s > kevers[p].sn
              OBVIOUS
            <7>1. kevers[p].sn \in Nat
              BY DEF DirectOK, DirectTypeOK, KeyStateType
            <7>2. e.s = kevers[p].sn + 1
              BY <3>1, <5>1 DEF EventAccepted, Follows
            <7> QED
              BY <4>1, <6>2, <7>1, <7>2, SeqNoNat
          <6> QED
            BY <6>3, <6>4 DEF DirectOK, NothingBeyond
        <5>2. CASE p # e.i
          <6>1. kevers'[p] = kevers[p] /\ fels'[p] = fels[p]
            BY <3>1, <4>1, <5>2 DEF EventAccepted, StoreEvent, DirectOK, DirectTypeOK
          <6> QED
            BY <6>1 DEF DirectOK, NothingBeyond
        <5> QED
          BY <5>1, <5>2
      <4> QED
        BY <3>0, <4>3, <4>4 DEF DirectOK
    <3>2. CASE UNCHANGED <<kevers, fels>>
      <4>1. \/ EventAccepted(m)
            \/ UNCHANGED evts
            \/ m.ev \in Note /\ m.ev.t # "rct" /\ evts' = Put(evts, m.ev.d, m.ev)
        BY <2>1, ParsedCases
      <4>2. CASE EventAccepted(m)
        BY <3>1, <4>2
      <4>3. CASE ~EventAccepted(m)
        <5>1. StoreOK'
          BY <3>2, <4>1, <4>3, OtherStored DEF DirectOK
        <5> QED
          BY <3>0, <3>2, <5>1 DEF DirectOK, NothingBeyond
      <4> QED
        BY <4>2, <4>3
    <3> QED
      BY <2>1, <3>1, <3>2, ParsedCases
  <2>2. CASE UNCHANGED directVars
    BY <2>2 DEF directVars, DirectOK, DirectTypeOK, StoreOK, StoredOK, KeverStored, NothingBeyond
  <2> QED
    BY <2>1, <2>2 DEF DirectNext
<1> QED
  BY <1>1, <1>2, PTL DEF DirectSpec

\* Whatever messages come in one run of the program, the stored log of every
\* identifier is a hash chain without gaps (process_parsed, store_event).
THEOREM DirectStoredKelIsChain == DirectSpec => []StoredKelIsChain
<1>1. DirectOK => StoredKelIsChain
  BY StoreOKIsChain DEF DirectOK
<1> QED
  BY <1>1, DirectInvariant, PTL

\* Each Kever stands at the last stored event: process_parsed stores an event
\* before it moves the Kever, and moves it whenever it stored one.
THEOREM DirectKeverAtStoredHead == DirectSpec => []KeverAtStoredHead
<1>1. DirectOK => KeverAtStoredHead
  BY DEF DirectOK, KeverAtStoredHead, StoreOK, KeverStored, NothingBeyond
<1> QED
  BY <1>1, DirectInvariant, PTL

\* In one run of the program no stored inception is replaced (the check for
\* duplicate inceptions in process_parsed).
THEOREM DirectOneInception == DirectSpec => OneInceptionPerPrefix
<1>1. DirectOK /\ [DirectNext]_directVars =>
        [\A p \in Prefix, s \in SeqNo :
           s = 0 /\ fels[p][s] # NoSaid => fels'[p][s] = fels[p][s]]_directVars
  <2> SUFFICES ASSUME DirectOK, NEW m \in Message, ProcessParsed(m),
                      NEW p \in Prefix, NEW s \in SeqNo, s = 0, fels[p][s] # NoSaid
               PROVE  fels'[p][s] = fels[p][s]
    BY DEF DirectNext
  <2>1. CASE EventAccepted(m)
    <3>1. m.ev.i \in Prefix /\ m.ev.s \in SeqNo
      BY MessageFields
    <3>2. CASE p # m.ev.i \/ s # m.ev.s
      BY <2>1, <3>1, <3>2 DEF EventAccepted, StoreEvent, DirectOK, DirectTypeOK
    <3>3. CASE p = m.ev.i /\ s = m.ev.s
      <4>1. kevers[p] # NoKever
        BY DEF DirectOK, NothingBeyond
      <4>2. kevers[p].sn \in Nat
        BY <4>1 DEF DirectOK, DirectTypeOK, KeyStateType
      <4> QED
        BY <2>1, <3>3, <4>1, <4>2 DEF EventAccepted, Follows
    <3> QED
      BY <3>2, <3>3
  <2>2. CASE UNCHANGED fels
    BY <2>2
  <2> QED
    BY <2>1, <2>2, ParsedCases
<1> QED
  BY <1>1, DirectInvariant, PTL DEF DirectSpec, OneInceptionPerPrefix
----------------------------------------------------------------------------
(* Backers.                                                                *)

\* A Kever moves only to a state whose witnesses have receipted the event
LEMMA ParsedWitnessed ==
  ASSUME NEW m \in Message, ProcessParsed(m)
  PROVE  \/ UNCHANGED kevers
         \/ /\ Witnessed(m, NewState(m))
            /\ kevers' = [kevers EXCEPT ![m.ev.i] = NewState(m)]
BY DEF ProcessParsed, ProcessInception, ProcessUpdate, Skip, PutReceipts, PutOther,
       directVars, NewState

\* Receipts that are counted by witness cannot be more than the witnesses
LEMMA WitnessedReaches ==
  ASSUME NEW m, NEW st \in KeyStateType, Witnessed(m, st)
  PROVE  st.backer_threshold <= Cardinality({w \in Witness : st.backers[w] > 0})
<1> DEFINE Listed == {w \in Witness : st.backers[w] > 0}
           Heard == {w \in ReceiptedBy(m) : w \in Witness /\ st.backers[w] > 0}
<1>1. IsFiniteSet(Listed)
  BY WitnessAssumption, FS_Subset
<1>2. IsFiniteSet(Heard) /\ Cardinality(Heard) <= Cardinality(Listed)
  <2>1. Heard \in SUBSET Listed
    OBVIOUS
  <2> QED
    BY <1>1, <2>1, FS_Subset
<1>3. Cardinality(Heard) \in Nat /\ Cardinality(Listed) \in Nat
  BY <1>1, <1>2, FS_CardinalityType
<1>4. st.backer_threshold \in Nat /\ Cardinality(Heard) >= st.backer_threshold
  BY DEF KeyStateType, Witnessed, VerifyWitnessReceipts
<1> QED
  BY <1>2, <1>3, <1>4

\* Every identifier the verifier follows has witnesses enough to meet its own
\* threshold, restarts included: process_parsed counts the receipts of an event
\* by witness against the state after it, which makes up for KeyState comparing
\* the threshold with a list that may repeat a witness.
THEOREM DirectBackersReachThreshold == RestartedDirectSpec => []BackersReachThreshold
<1>1. DirectInit => DirectTypeOK /\ BackersReachThreshold
  BY DEF DirectInit, DirectTypeOK, BackersReachThreshold
<1>2. DirectTypeOK /\ BackersReachThreshold /\ [DirectNext \/ LoseKevers]_directVars
        => (DirectTypeOK /\ BackersReachThreshold)'
  <2> SUFFICES ASSUME DirectTypeOK, BackersReachThreshold,
                      [DirectNext \/ LoseKevers]_directVars
               PROVE  DirectTypeOK' /\ BackersReachThreshold'
    OBVIOUS
  <2>1. ASSUME NEW m \in Message, ProcessParsed(m)
        PROVE  DirectTypeOK' /\ BackersReachThreshold'
    <3>1. DirectTypeOK'
      BY <2>1, ParsedType
    <3>2. CASE UNCHANGED kevers
      BY <3>1, <3>2 DEF BackersReachThreshold
    <3>3. CASE /\ Witnessed(m, NewState(m))
               /\ kevers' = [kevers EXCEPT ![m.ev.i] = NewState(m)]
      <4>1. m.ev.i \in Prefix /\ kevers'[m.ev.i] = NewState(m)
        BY <3>3, MessageFields DEF DirectTypeOK
      <4>2. SUFFICES ASSUME NEW p \in Prefix, kevers'[p] # NoKever
                     PROVE  kevers'[p].backer_threshold
                              <= Cardinality({w \in Witness : kevers'[p].backers[w] > 0})
        BY <3>1 DEF BackersReachThreshold
      <4>3. CASE p = m.ev.i
        <5>1. kevers'[p] \in KeyStateType
          BY <3>1, <4>2 DEF DirectTypeOK
        <5>2. Witnessed(m, kevers'[p])
          BY <3>3, <4>1, <4>3
        <5> QED
          BY <2>1, <5>1, <5>2, WitnessedReaches
      <4>4. CASE p # m.ev.i
        <5>1. kevers'[p] = kevers[p]
          BY <3>3, <4>4 DEF DirectTypeOK
        <5> QED
          BY <4>2, <5>1 DEF BackersReachThreshold
      <4> QED
        BY <4>3, <4>4
    <3> QED
      BY <2>1, <3>1, <3>2, <3>3, ParsedWitnessed
  <2>2. CASE LoseKevers
    BY <2>2 DEF LoseKevers, store, DirectTypeOK, BackersReachThreshold
  <2>3. CASE UNCHANGED directVars
    BY <2>3 DEF directVars, DirectTypeOK, BackersReachThreshold
  <2> QED
    BY <2>1, <2>2, <2>3 DEF DirectNext
<1> QED
  BY <1>1, <1>2, PTL DEF RestartedDirectSpec
=============================================================================
