---------------------------- MODULE JudgeProofs ----------------------------
(***************************************************************************)
(* Proofs about Judge: with restarts at any time the stored logs stay hash *)
(* chains, the first-seen policy holds, and evidence shows a conflict.     *)
(*                                                                         *)
(* The Kevers that guard the logs in DirectProofs are lost in a restart    *)
(* here, so nothing can be said of positions beyond a Kever.  It is the    *)
(* lookup in the first-seen log (Unseen) that keeps a log from being       *)
(* overwritten.                                                            *)
(*                                                                         *)
(* Then what the Judge keeps of a conflict: that duplicitous and del agree *)
(* although each has its own update and there are caps between them, that  *)
(* a flagged identifier is dead, and that answers are true of the store.   *)
(*                                                                         *)
(* Last what a Kever has to do with the stored log: it is the last state   *)
(* of the log's replay, and the keys on the way are known with it.         *)
(***************************************************************************)
EXTENDS Judge, DirectProofs

\* No step of the Judge stores an event at a place that is taken
LEMMA JudgedCases ==
  ASSUME NEW m \in Message, Process(m)
  PROVE  \/ EventAccepted(m) /\ Unseen(m.ev) /\ m.ev.i \notin duplicitous
         \/ /\ UNCHANGED <<kevers, fels>>
            /\ \/ UNCHANGED evts
               \/ m.ev \in Note /\ m.ev.t # "rct" /\ evts' = Put(evts, m.ev.d, m.ev)
<1>1. CASE PassReceipt(m)
  <2>1. m.ev.t = "rct" /\ ProcessParsed(m)
    BY <1>1 DEF PassReceipt
  <2>2. m.ev \notin Event
    BY <2>1, MessageFields DEF Establishment
  <2>3. ~EventAccepted(m)
    BY <2>2 DEF EventAccepted
  <2> QED
    BY <2>1, <2>3, ParsedCases
<1>2. CASE Accept(m)
  <2>1. ProcessParsed(m) /\ Unseen(m.ev) /\ m.ev.i \notin duplicitous
    BY <1>2 DEF Accept, Judged
  <2> QED
    BY <2>1, ParsedCases
<1>3. CASE Replay(m)
  BY <1>3 DEF Replay
<1>4. CASE DetectDuplicity(m)
  BY <1>4 DEF DetectDuplicity
<1> QED
  BY <1>1, <1>2, <1>3, <1>4 DEF Process

\* What happens to del and duplicitous: nothing, or one conflict is recorded
LEMMA EvidenceCases ==
  ASSUME NEW m \in Message, Process(m)
  PROVE  \/ UNCHANGED <<duplicitous, del>>
         \/ DetectDuplicity(m)
BY DEF Process, PassReceipt, Accept, Replay

\* A conflict is about a key event
LEMMA ConflictIsEvent ==
  ASSUME NEW m \in Message, VerifyForDuplicity(m)
  PROVE  m.ev \in Event
<1>1. m.ev.t \in Establishment \cup {"ixn"}
  BY DEF VerifyForDuplicity, VerifyNew, Establishment
<1> QED
  BY <1>1, MessageFields

----------------------------------------------------------------------------
(* Type correctness.                                                       *)

\* The state of the Judge and of its store is well typed (judge.rs, Judge)
THEOREM JudgeTypeCorrect == Spec => []TypeOK
<1>1. Init => TypeOK
  BY DEF Init, DirectInit, TypeOK, DirectTypeOK
<1>2. TypeOK /\ [Next]_vars => TypeOK'
  <2> SUFFICES ASSUME TypeOK, [Next]_vars
               PROVE  TypeOK'
    OBVIOUS
  <2>1. ASSUME NEW m \in Message, Process(m)
        PROVE  TypeOK'
    <3>1. m.ev \in Body /\ m.ev.d \in Digest /\ m.ev.i \in Prefix /\ m.ev.s \in SeqNo
      BY MessageFields
    <3>2. DirectTypeOK'
      <4>1. CASE ProcessParsed(m)
        BY <4>1, ParsedType DEF TypeOK
      <4>2. CASE UNCHANGED <<kevers, evts, fels, rcts>>
        BY <4>2 DEF TypeOK, DirectTypeOK
      <4> QED
        BY <2>1, <4>1, <4>2 DEF Process, PassReceipt, Accept, Replay, DetectDuplicity
    <3>3. answered' \in Answer \X Body
      BY <2>1, <3>1
         DEF Process, PassReceipt, Accept, Replay, DetectDuplicity, Answer
    <3>4. duplicitous' \subseteq Prefix /\ del' \in Seq(Evidence)
      <4>1. CASE UNCHANGED <<duplicitous, del>>
        BY <4>1 DEF TypeOK
      <4>2. CASE DetectDuplicity(m)
        <5> DEFINE first == fels[m.ev.i][m.ev.s]
                   ev == [prefix |-> m.ev.i, sn |-> m.ev.s, first_seen_said |-> first,
                          duplicitous_said |-> m.ev.d, first_seen_event |-> evts[first],
                          duplicitous_event |-> m.ev]
        <5>1. m.ev \in Event
          BY <4>2, ConflictIsEvent DEF DetectDuplicity
        <5>2. first \in DOMAIN evts
          BY <4>2 DEF DetectDuplicity
        <5>3. first \in Digest /\ evts[first] \in Body
          BY <5>2 DEF TypeOK, DirectTypeOK
        <5>4. ev \in Evidence
          BY <3>1, <5>1, <5>3 DEF Evidence
        <5>5. duplicitous' = duplicitous \cup {ev.prefix} /\ del' \in {del, Append(del, ev)}
          BY <4>2 DEF DetectDuplicity, RecordDuplicity
        <5>6. ev.prefix \in Prefix
          BY <3>1
        <5> HIDE DEF ev
        <5>7. Append(del, ev) \in Seq(Evidence)
          BY <5>4 DEF TypeOK
        <5> QED
          BY <5>5, <5>6, <5>7 DEF TypeOK
      <4> QED
        BY <2>1, <4>1, <4>2, EvidenceCases
    <3> QED
      BY <3>2, <3>3, <3>4 DEF TypeOK
  <2>2. CASE Restart
    <3>1. DirectTypeOK'
      BY <2>2 DEF Restart, LoseKevers, store, TypeOK, DirectTypeOK
    <3> QED
      BY <2>2, <3>1 DEF Restart, TypeOK
  <2>3. CASE UNCHANGED vars
    BY <2>3 DEF vars, TypeOK, DirectTypeOK
  <2> QED
    BY <2>1, <2>2, <2>3 DEF Next
<1> QED
  BY <1>1, <1>2, PTL DEF Spec

----------------------------------------------------------------------------
(* The stored logs.                                                        *)

\* A step that stores an event finds its place empty
LEMMA JudgedStored ==
  ASSUME DirectTypeOK, StoreOK, NEW m \in Message, Process(m)
  PROVE  StoreOK'
<1>1. CASE EventAccepted(m) /\ Unseen(m.ev)
  BY <1>1, EventStored DEF Unseen
<1>2. CASE /\ UNCHANGED <<kevers, fels>>
           /\ \/ UNCHANGED evts
              \/ m.ev \in Note /\ m.ev.t # "rct" /\ evts' = Put(evts, m.ev.d, m.ev)
  BY <1>2, OtherStored
<1> QED
  BY <1>1, <1>2, JudgedCases

\* A restart loses the Kevers and nothing of the logs
LEMMA RestartStored ==
  ASSUME StoreOK, Restart
  PROVE  StoreOK'
<1>1. UNCHANGED <<evts, fels>> /\ \A p \in Prefix : kevers'[p] = NoKever
  BY DEF Restart, LoseKevers, store
<1> QED
  BY <1>1 DEF StoreOK, StoredOK, KeverStored

\* The stored logs are in order in all behaviours of the Judge
LEMMA JudgeStoreOK == Spec => []StoreOK
<1>1. Init => StoreOK
  BY DEF Init, DirectInit, StoreOK, StoredOK, KeverStored
<1>2. TypeOK /\ StoreOK /\ [Next]_vars => StoreOK'
  <2> SUFFICES ASSUME TypeOK, StoreOK, [Next]_vars
               PROVE  StoreOK'
    OBVIOUS
  <2>1. CASE \E m \in Message : Process(m)
    BY <2>1, JudgedStored DEF TypeOK
  <2>2. CASE Restart
    BY <2>2, RestartStored
  <2>3. CASE UNCHANGED vars
    BY <2>3 DEF vars, StoreOK, StoredOK, KeverStored
  <2> QED
    BY <2>1, <2>2, <2>3 DEF Next
<1> QED
  BY <1>1, <1>2, JudgeTypeCorrect, PTL DEF Spec

\* The stored logs are hash chains without gaps, whatever messages came and
\* whenever the Judge was restarted (Judge::process, store_event).
THEOREM JudgeStoredKelIsChain == Spec => []StoredKelIsChain
<1>1. StoreOK => StoredKelIsChain
  BY StoreOKIsChain
<1> QED
  BY <1>1, JudgeStoreOK, PTL

----------------------------------------------------------------------------
(* The first-seen policy.                                                  *)

\* An event that is stored is seen for the first time, after those before it
LEMMA AcceptedIsSeen ==
  ASSUME DirectTypeOK, StoreOK, NEW m \in Message, EventAccepted(m), Unseen(m.ev)
  PROVE  FS!See(m.ev.i, m.ev.s, m.ev.d)
<1> DEFINE e == m.ev
<1>1. e.i \in Prefix /\ e.s \in SeqNo /\ e.s \in Nat /\ e.d \in Digest
  BY MessageFields
<1>2. fels[e.i][e.s] = NoSaid /\ fels' = [fels EXCEPT ![e.i][e.s] = e.d]
  BY DEF EventAccepted, StoreEvent, Unseen
<1>3. fels'[e.i][e.s] # NoSaid
  BY <1>1, <1>2, NoSaidAssumption DEF DirectTypeOK
<1>4. StoreOK'
  BY <1>2, EventStored
<1>5. StoredOK(e.i, e.s)'
  BY <1>1, <1>4 DEF StoreOK
<1>6. ASSUME e.s > 0
      PROVE  e.s - 1 \in SeqNo /\ fels[e.i][e.s - 1] # NoSaid
  <2>1. e.s - 1 \in SeqNo /\ fels'[e.i][e.s - 1] # NoSaid
    BY <1>3, <1>5, <1>6 DEF StoredOK
  <2>2. e.s - 1 # e.s
    BY <1>1
  <2> QED
    BY <1>1, <1>2, <2>1, <2>2 DEF DirectTypeOK
<1> QED
  BY <1>2, <1>6 DEF FS!See

\* The Judge implements the first-seen policy: what its store holds at a place
\* is never replaced, and each log grows at its end, restarts included.
THEOREM JudgeFirstSeen == Spec => FirstSeenPolicy
<1>1. Init => FS!Init
  BY DEF Init, DirectInit, FS!Init
<1>2. TypeOK /\ StoreOK /\ [Next]_vars => [FS!Next]_fels
  <2> SUFFICES ASSUME TypeOK, StoreOK, [Next]_vars
               PROVE  FS!Next \/ UNCHANGED fels
    OBVIOUS
  <2>1. ASSUME NEW m \in Message, Process(m)
        PROVE  FS!Next \/ UNCHANGED fels
    <3>1. CASE EventAccepted(m) /\ Unseen(m.ev)
      BY <3>1, AcceptedIsSeen, MessageFields DEF TypeOK, FS!Next
    <3>2. CASE UNCHANGED fels
      BY <3>2
    <3> QED
      BY <2>1, <3>1, <3>2, JudgedCases
  <2>2. CASE Restart
    BY <2>2 DEF Restart, LoseKevers, store
  <2>3. CASE UNCHANGED vars
    BY <2>3 DEF vars
  <2> QED
    BY <2>1, <2>2, <2>3 DEF Next
<1> QED
  BY <1>1, <1>2, JudgeTypeCorrect, JudgeStoreOK, PTL DEF Spec, FirstSeenPolicy, FS!Spec

----------------------------------------------------------------------------
(* Evidence.                                                               *)

\* What is recorded at a place stays there
LEMMA RecordKept ==
  ASSUME TypeOK, NEW m \in Message, Process(m),
         NEW p \in Prefix, NEW s \in SeqNo, fels[p][s] # NoSaid
  PROVE  fels'[p][s] = fels[p][s]
<1> DEFINE e == m.ev
<1>1. CASE EventAccepted(m) /\ Unseen(e)
  <2>1. e.i \in Prefix /\ e.s \in SeqNo /\ (p # e.i \/ s # e.s)
    BY <1>1, MessageFields DEF Unseen
  <2> QED
    BY <1>1, <2>1 DEF EventAccepted, StoreEvent, TypeOK, DirectTypeOK
<1>2. CASE UNCHANGED fels
  BY <1>2
<1> QED
  BY <1>1, <1>2, JudgedCases

\* One piece of evidence, as EvidenceIsConflict asks for it
Shown(ev) ==
  LET first == EventOf(ev.first_seen_said)
  IN  /\ ev.prefix \in duplicitous
      /\ fels[ev.prefix][ev.sn] = ev.first_seen_said
      /\ first \in Event /\ first.d = ev.first_seen_said /\ VerifySaid(first)
      /\ ev.first_seen_event \in StandsFor(first)
      /\ ev.duplicitous_event.d = ev.duplicitous_said
      /\ ev.duplicitous_said # ev.first_seen_said
      /\ \A e \in {first, ev.duplicitous_event} : e.i = ev.prefix /\ e.s = ev.sn

\* Evidence keeps showing what it showed
LEMMA ShownKept ==
  ASSUME TypeOK, NEW m \in Message, Process(m), NEW ev \in Evidence, Shown(ev)
  PROVE  Shown(ev)'
<1>1. ev.prefix \in Prefix /\ ev.sn \in SeqNo /\ ev.first_seen_said \in Digest
  BY DEF Evidence
<1>2. fels[ev.prefix][ev.sn] # NoSaid
  BY <1>1, NoSaidAssumption DEF Shown
<1>3. fels'[ev.prefix][ev.sn] = ev.first_seen_said
  BY <1>1, <1>2, RecordKept DEF Shown
<1>4. duplicitous \subseteq duplicitous'
  BY EvidenceCases DEF DetectDuplicity, RecordDuplicity
<1> QED
  BY <1>3, <1>4 DEF Shown

\* Each piece of evidence is a conflict that can be seen in the log, for as long
\* as the Judge runs: the event on record at a place, with what the store held
\* under its SAID, and another event for that place (record_duplicity).
THEOREM JudgeEvidenceIsConflict == Spec => []EvidenceIsConflict
<1> DEFINE Inv == \A j \in DOMAIN del : Shown(del[j])
<1>1. Init => Inv
  BY DEF Init
<1>2. TypeOK /\ StoreOK /\ Inv /\ [Next]_vars => Inv'
  <2> SUFFICES ASSUME TypeOK, StoreOK, Inv, [Next]_vars
               PROVE  Inv'
    OBVIOUS
  <2>1. ASSUME NEW m \in Message, Process(m)
        PROVE  Inv'
    <3>1. ASSUME NEW ev, NEW j \in DOMAIN del, ev = del[j]
          PROVE  Shown(ev)'
      <4>1. ev \in Evidence /\ Shown(ev)
        BY <3>1 DEF TypeOK
      <4> QED
        BY <2>1, <4>1, ShownKept
    <3>2. CASE UNCHANGED <<duplicitous, del>>
      <4> SUFFICES ASSUME NEW j \in DOMAIN del'
                   PROVE  Shown(del[j])'
        OBVIOUS
      <4>1. \A ev : ev = del[j] => Shown(ev)'
        BY <3>1, <3>2
      <4> QED
        BY <3>2, <4>1 DEF Shown
    <3>3. CASE DetectDuplicity(m)
      <4> DEFINE first == fels[m.ev.i][m.ev.s]
                 new == [prefix |-> m.ev.i, sn |-> m.ev.s, first_seen_said |-> first,
                         duplicitous_said |-> m.ev.d, first_seen_event |-> evts[first],
                         duplicitous_event |-> m.ev]
      <4>1. /\ first \notin {NoSaid, m.ev.d}
            /\ UNCHANGED <<evts, fels>>
            /\ duplicitous' = duplicitous \cup {new.prefix}
            /\ del' \in {del, Append(del, new)}
        BY <3>3 DEF DetectDuplicity, InConflict, RecordDuplicity
      <4>2. /\ m.ev.i \in Prefix /\ m.ev.s \in SeqNo
            /\ StoredOK(m.ev.i, m.ev.s)
        BY MessageFields DEF StoreOK
      <4>3. LET f == EventOf(first)
            IN  /\ f \in Event /\ f.d = first /\ VerifySaid(f)
                /\ f.i = m.ev.i /\ f.s = m.ev.s
                /\ evts[first] \in StandsFor(f)
        BY <4>1, <4>2 DEF StoredOK
      <4>4. ASSUME NEW ev, ev = new
            PROVE  Shown(ev)'
        BY <4>1, <4>3, <4>4 DEF Shown
      <4> HIDE DEF new
      <4>5. del \in Seq(Evidence)
        BY DEF TypeOK
      <4> SUFFICES ASSUME NEW j \in DOMAIN del'
                   PROVE  Shown(del[j])'
        OBVIOUS
      <4>6. \/ j \in DOMAIN del /\ del'[j] = del[j]
            \/ del'[j] = new
        BY <4>1, <4>5
      <4>7. \A ev : ev = del'[j] => Shown(ev)'
        BY <3>1, <4>4, <4>6
      <4> QED
        BY <4>7 DEF Shown
    <3> QED
      BY <2>1, <3>2, <3>3, EvidenceCases
  <2>2. CASE Restart
    BY <2>2 DEF Restart
  <2>3. CASE UNCHANGED vars
    BY <2>3 DEF vars, Shown
  <2> QED
    BY <2>1, <2>2, <2>3 DEF Next
<1>3. Inv => EvidenceIsConflict
  BY DEF EvidenceIsConflict, Shown
<1> QED
  BY <1>1, <1>2, <1>3, JudgeTypeCorrect, JudgeStoreOK, PTL DEF Spec

----------------------------------------------------------------------------
(* duplicitous and del.                                                    *)

\* What EvidenceOncePerPrefix leaves out and its induction needs: the prefix of
\* a piece of evidence is flagged even when del is full
EvidenceFlagged == \A j \in DOMAIN del : del[j].prefix \in duplicitous

EvidenceOK == EvidenceFlagged /\ EvidenceOncePerPrefix

\* A conflict is recorded for a prefix without evidence, so only the total cap
\* can keep it out
LEMMA ConflictRecorded ==
  ASSUME TypeOK, EvidenceFlagged, NEW m \in Message, DetectDuplicity(m)
  PROVE  /\ m.ev.i \notin duplicitous
         /\ duplicitous' = duplicitous \cup {m.ev.i}
         /\ IF Len(del) < MaxDelTotal
            THEN \E ev : ev.prefix = m.ev.i /\ del' = Append(del, ev)
            ELSE del' = del
<1> DEFINE first == fels[m.ev.i][m.ev.s]
           new == [prefix |-> m.ev.i, sn |-> m.ev.s, first_seen_said |-> first,
                   duplicitous_said |-> m.ev.d, first_seen_event |-> evts[first],
                   duplicitous_event |-> m.ev]
<1>1. m.ev.i \notin duplicitous /\ RecordDuplicity(new)
  BY DEF DetectDuplicity, Judged
<1>2. new.prefix = m.ev.i
  OBVIOUS
<1> HIDE DEF new
<1>3. EvidenceOn(new.prefix) = {}
  BY <1>1, <1>2 DEF EvidenceOn, EvidenceFlagged
<1>4. Cardinality(EvidenceOn(new.prefix)) < MaxDelPerPrefix
  BY <1>3, FS_EmptySet, DelBoundAssumption
<1>5. duplicitous' = duplicitous \cup {m.ev.i}
  BY <1>1, <1>2 DEF RecordDuplicity
<1>6. del' = IF Len(del) < MaxDelTotal THEN Append(del, new) ELSE del
  BY <1>1, <1>4 DEF RecordDuplicity
<1> QED
  BY <1>1, <1>2, <1>5, <1>6

\* A conflict keeps the evidence in order
LEMMA ConflictEvidenceOK ==
  ASSUME TypeOK, EvidenceOK, NEW m \in Message, DetectDuplicity(m)
  PROVE  EvidenceOK'
<1>1. /\ m.ev.i \notin duplicitous
      /\ duplicitous' = duplicitous \cup {m.ev.i}
      /\ IF Len(del) < MaxDelTotal
         THEN \E ev : ev.prefix = m.ev.i /\ del' = Append(del, ev)
         ELSE del' = del
  BY ConflictRecorded DEF EvidenceOK
<1>2. del \in Seq(Evidence) /\ Len(del) \in Nat
  BY DEF TypeOK
<1>3. CASE Len(del) < MaxDelTotal
  <2>1. PICK ev : ev.prefix = m.ev.i /\ del' = Append(del, ev)
    BY <1>1, <1>3
  <2>2. /\ Len(del') = Len(del) + 1 /\ DOMAIN del = 1..Len(del) /\ DOMAIN del' = 1..Len(del')
        /\ del'[Len(del) + 1] = ev
        /\ \A j \in DOMAIN del : del'[j] = del[j]
    BY <1>2, <2>1
  <2>3. DOMAIN del' = DOMAIN del \cup {Len(del) + 1}
    BY <1>2, <2>2
  <2>4. \A j \in DOMAIN del : del[j].prefix # m.ev.i
    BY <1>1 DEF EvidenceOK, EvidenceFlagged
  <2>5. EvidenceFlagged'
    BY <1>1, <2>1, <2>2, <2>3 DEF EvidenceOK, EvidenceFlagged
  <2>6. \A i, j \in DOMAIN del' : del'[i].prefix = del'[j].prefix => i = j
    BY <2>1, <2>2, <2>3, <2>4 DEF EvidenceOK, EvidenceOncePerPrefix
  <2>7. duplicitous' = {del'[j].prefix : j \in DOMAIN del'}
    <3>1. duplicitous = {del[j].prefix : j \in DOMAIN del}
      BY <1>3 DEF EvidenceOK, EvidenceOncePerPrefix
    <3>2. {del'[j].prefix : j \in DOMAIN del'} = {del[j].prefix : j \in DOMAIN del} \cup {ev.prefix}
      BY <2>2, <2>3
    <3> QED
      BY <1>1, <2>1, <3>1, <3>2
  <2> QED
    BY <2>5, <2>6, <2>7 DEF EvidenceOK, EvidenceOncePerPrefix
<1>4. CASE ~(Len(del) < MaxDelTotal)
  <2>1. del' = del
    BY <1>1, <1>4
  <2> QED
    BY <1>1, <1>4, <2>1 DEF EvidenceOK, EvidenceFlagged, EvidenceOncePerPrefix
<1> QED
  BY <1>3, <1>4

\* duplicitous and del agree in all behaviours of the Judge
LEMMA JudgeEvidenceOK == Spec => []EvidenceOK
<1>1. Init => EvidenceOK
  BY DEF Init, EvidenceOK, EvidenceFlagged, EvidenceOncePerPrefix
<1>2. TypeOK /\ EvidenceOK /\ [Next]_vars => EvidenceOK'
  <2> SUFFICES ASSUME TypeOK, EvidenceOK, [Next]_vars
               PROVE  EvidenceOK'
    OBVIOUS
  <2>1. CASE UNCHANGED <<duplicitous, del>>
    BY <2>1 DEF EvidenceOK, EvidenceFlagged, EvidenceOncePerPrefix
  <2>2. ASSUME NEW m \in Message, Process(m)
        PROVE  EvidenceOK'
    BY <2>1, <2>2, EvidenceCases, ConflictEvidenceOK
  <2>3. CASE Restart
    BY <2>3 DEF Restart, EvidenceOK, EvidenceFlagged, EvidenceOncePerPrefix
  <2>4. CASE UNCHANGED vars
    BY <2>1, <2>4 DEF vars
  <2> QED
    BY <2>2, <2>3, <2>4 DEF Next
<1> QED
  BY <1>1, <1>2, JudgeTypeCorrect, PTL DEF Spec

\* One piece of evidence for each flagged prefix, until the total cap is met,
\* whatever the caps are: the cap per prefix never binds (record_duplicity).
THEOREM JudgeEvidenceOnce == Spec => []EvidenceOncePerPrefix
<1>1. EvidenceOK => EvidenceOncePerPrefix
  BY DEF EvidenceOK
<1> QED
  BY <1>1, JudgeEvidenceOK, PTL

----------------------------------------------------------------------------
(* A flagged identifier is dead.                                           *)

\* No message about a flagged prefix changes what is held of it, and no message
\* about another one does (the first test of Judge::process).
THEOREM JudgeDuplicitousIsDead == Spec => DuplicitousIsDead
<1> DEFINE Kept(p) == /\ kevers'[p] = kevers[p]
                      /\ fels'[p] = fels[p]
                      /\ EvidenceOn(p)' = EvidenceOn(p)
<1>1. TypeOK /\ EvidenceOK /\ [Next]_vars
        => [\A p \in duplicitous \cap duplicitous' : Kept(p)]_vars
  <2> SUFFICES ASSUME TypeOK, EvidenceOK, Next, NEW p \in duplicitous, p \in duplicitous'
               PROVE  Kept(p)
    OBVIOUS
  <2>1. p \in Prefix
    BY DEF TypeOK
  <2>2. ASSUME NEW m \in Message, Process(m)
        PROVE  Kept(p)
    <3>1. kevers'[p] = kevers[p] /\ fels'[p] = fels[p]
      <4>1. CASE EventAccepted(m) /\ m.ev.i \notin duplicitous
        <5>1. p # m.ev.i
          BY <4>1
        <5> QED
          BY <4>1, <5>1 DEF EventAccepted, StoreEvent, TypeOK, DirectTypeOK
      <4>2. CASE UNCHANGED <<kevers, fels>>
        BY <4>2
      <4> QED
        BY <2>2, <4>1, <4>2, JudgedCases
    <3>2. EvidenceOn(p)' = EvidenceOn(p)
      <4>1. CASE UNCHANGED <<duplicitous, del>>
        BY <4>1 DEF EvidenceOn
      <4>2. CASE DetectDuplicity(m)
        <5>1. /\ m.ev.i \notin duplicitous
              /\ IF Len(del) < MaxDelTotal
                 THEN \E ev : ev.prefix = m.ev.i /\ del' = Append(del, ev)
                 ELSE del' = del
          BY <4>2, ConflictRecorded DEF EvidenceOK
        <5>2. CASE del' = del
          BY <5>2 DEF EvidenceOn
        <5>3. ASSUME NEW ev, ev.prefix = m.ev.i, del' = Append(del, ev)
              PROVE  EvidenceOn(p)' = EvidenceOn(p)
          <6>1. del \in Seq(Evidence) /\ Len(del) \in Nat
            BY DEF TypeOK
          <6>2. /\ DOMAIN del' = DOMAIN del \cup {Len(del) + 1}
                /\ del'[Len(del) + 1] = ev
                /\ \A j \in DOMAIN del : del'[j] = del[j]
            BY <5>3, <6>1
          <6>3. ev.prefix # p
            BY <5>1, <5>3
          <6> QED
            BY <6>2, <6>3 DEF EvidenceOn
        <5> QED
          BY <5>1, <5>2, <5>3
      <4> QED
        BY <2>2, <4>1, <4>2, EvidenceCases
    <3> QED
      BY <3>1, <3>2
  <2>3. CASE Restart
    BY <2>3 DEF Restart
  <2> QED
    BY <2>2, <2>3 DEF Next
<1> QED
  BY <1>1, JudgeTypeCorrect, JudgeEvidenceOK, PTL DEF Spec, DuplicitousIsDead

----------------------------------------------------------------------------
(* Answers.                                                                *)

\* An answer of the Judge is true of its store when it is given, and no later
\* step makes it false without another answer (JudgeResult).
THEOREM JudgeAnswersMatchRecord == Spec => []AnswersMatchRecord
<1>1. Init => AnswersMatchRecord
  BY DEF Init, AnswersMatchRecord
<1>2. TypeOK /\ AnswersMatchRecord /\ [Next]_vars => AnswersMatchRecord'
  <2> SUFFICES ASSUME TypeOK, AnswersMatchRecord, [Next]_vars
               PROVE  AnswersMatchRecord'
    OBVIOUS
  <2>1. ASSUME NEW m \in Message, PassReceipt(m)
        PROVE  AnswersMatchRecord'
    BY <2>1 DEF PassReceipt, AnswersMatchRecord, Establishment
  <2>2. ASSUME NEW m \in Message, Accept(m)
        PROVE  AnswersMatchRecord'
    <3>1. /\ answered' = <<"Accepted", m.ev>> /\ ProcessParsed(m)
          /\ m.ev.i \in Prefix /\ m.ev.s \in SeqNo
      BY <2>2, MessageFields DEF Accept
    <3>2. m.ev.t \in Establishment \cup {"ixn"}
            => fels'[m.ev.i][m.ev.s] = m.ev.d \/ kevers'[m.ev.i] = NoKever
      BY <3>1 DEF ProcessParsed, ProcessInception, ProcessUpdate, Skip, PutReceipts, PutOther,
                  StoreEvent, directVars, Establishment, TypeOK, DirectTypeOK
    <3> QED
      BY <3>1, <3>2 DEF AnswersMatchRecord
  <2>3. ASSUME NEW m \in Message, Replay(m)
        PROVE  AnswersMatchRecord'
    BY <2>3 DEF Replay, AnswersMatchRecord
  <2>4. ASSUME NEW m \in Message, DetectDuplicity(m)
        PROVE  AnswersMatchRecord'
    <3>1. /\ answered' = <<"DuplicityDetected", m.ev>>
          /\ UNCHANGED fels /\ fels[m.ev.i][m.ev.s] \notin {NoSaid, m.ev.d}
          /\ m.ev.i \in duplicitous'
      BY <2>4 DEF DetectDuplicity, InConflict, RecordDuplicity
    <3> QED
      BY <3>1 DEF AnswersMatchRecord, Unseen
  <2>5. CASE Restart
    BY <2>5 DEF Restart, AnswersMatchRecord
  <2>6. CASE UNCHANGED vars
    BY <2>6 DEF vars, AnswersMatchRecord, Unseen
  <2> QED
    BY <2>1, <2>2, <2>3, <2>4, <2>5, <2>6 DEF Next, Process
<1> QED
  BY <1>1, <1>2, JudgeTypeCorrect, PTL DEF Spec

----------------------------------------------------------------------------
(* Replays.                                                                *)

\* The events that a stored log names, up to number n
EventsTo(p, n) == [s \in 0..n |-> EventOf(fels[p][s])]

\* st holds the key states that the events log[0] to log[n] lead through
IsReplay(log, n, st) ==
  st = [s \in 0..n |-> IF s = 0
                       THEN FromInception(log[0])
                       ELSE ApplyUpdate(st[s - 1], log[s])]

\* What a replay holds at each number
LEMMA ReplayAt ==
  ASSUME NEW n \in Nat, NEW log, NEW st, IsReplay(log, n, st)
  PROVE  /\ DOMAIN st = 0..n
         /\ st[0] = FromInception(log[0])
         /\ \A s \in 1..n : st[s] = ApplyUpdate(st[s - 1], log[s])
<1> DEFINE At(s) == IF s = 0 THEN FromInception(log[0]) ELSE ApplyUpdate(st[s - 1], log[s])
<1>1. st = [s \in 0..n |-> At(s)]
  BY DEF IsReplay
<1> HIDE DEF At
<1>2. DOMAIN st = 0..n /\ \A s \in 0..n : st[s] = At(s)
  BY <1>1
<1>3. st[0] = At(0) /\ At(0) = FromInception(log[0])
  BY <1>2 DEF At
<1>4. \A s \in 1..n : st[s] = At(s) /\ At(s) = ApplyUpdate(st[s - 1], log[s])
  BY <1>2 DEF At
<1> QED
  BY <1>2, <1>3, <1>4

\* The same, the other way round
LEMMA ReplayBy ==
  ASSUME NEW n \in Nat, NEW log, NEW st,
         st = [s \in 0..n |-> st[s]],
         st[0] = FromInception(log[0]),
         \A s \in 1..n : st[s] = ApplyUpdate(st[s - 1], log[s])
  PROVE  IsReplay(log, n, st)
<1> DEFINE At(s) == IF s = 0 THEN FromInception(log[0]) ELSE ApplyUpdate(st[s - 1], log[s])
<1>1. \A s \in 0..n : st[s] = At(s)
  <2> TAKE s \in 0..n
  <2>1. CASE s = 0
    BY <2>1
  <2>2. CASE s \in 1..n
    BY <2>2
  <2> QED
    BY <2>1, <2>2
<1> HIDE DEF At
<1>2. st = [s \in 0..n |-> At(s)]
  BY <1>1
<1> QED
  BY <1>2 DEF IsReplay, At

\* Events have one replay.
LEMMA OneReplay ==
  ASSUME NEW n \in Nat, NEW log, NEW st, NEW other,
         IsReplay(log, n, st), IsReplay(log, n, other)
  PROVE  st = other
<1>1. /\ DOMAIN st = 0..n /\ st[0] = FromInception(log[0])
      /\ \A s \in 1..n : st[s] = ApplyUpdate(st[s - 1], log[s])
  BY ReplayAt
<1>2. /\ DOMAIN other = 0..n /\ other[0] = FromInception(log[0])
      /\ \A s \in 1..n : other[s] = ApplyUpdate(other[s - 1], log[s])
  BY ReplayAt
<1> DEFINE Wrong == {s \in 0..n : st[s] # other[s]}
<1>3. Wrong = {}
  <2> SUFFICES ASSUME Wrong # {} PROVE FALSE
    OBVIOUS
  <2>1. Wrong \in SUBSET Nat
    OBVIOUS
  <2>2. PICK least \in Wrong : \A s \in Wrong : least <= s
    BY <2>1, LeastNumber
  <2>3. least \in 0..n /\ st[least] # other[least] /\ least # 0
    BY <1>1, <1>2, <2>2
  <2>4. least \in 1..n /\ least - 1 \in 0..n /\ ~(least <= least - 1)
    BY <2>3
  <2>5. st[least - 1] = other[least - 1]
    BY <2>2, <2>4
  <2> QED
    BY <1>1, <1>2, <2>3, <2>4, <2>5
<1>4. st = [s \in 0..n |-> st[s]] /\ other = [s \in 0..n |-> other[s]]
  BY <1>1, <1>2 DEF IsReplay
<1> QED
  BY <1>3, <1>4

\* A replay goes on with the next event, and ends at any event before.
LEMMA ReplayGrows ==
  ASSUME NEW n \in Nat, NEW log, NEW longer, NEW st, IsReplay(log, n, st),
         \A s \in 0..n : longer[s] = log[s]
  PROVE  LET more == [s \in 0..(n + 1) |->
                        IF s = n + 1 THEN ApplyUpdate(st[n], longer[n + 1]) ELSE st[s]]
         IN  IsReplay(longer, n + 1, more)
<1> DEFINE more == [s \in 0..(n + 1) |->
                      IF s = n + 1 THEN ApplyUpdate(st[n], longer[n + 1]) ELSE st[s]]
<1>1. /\ DOMAIN st = 0..n /\ st[0] = FromInception(log[0])
      /\ \A s \in 1..n : st[s] = ApplyUpdate(st[s - 1], log[s])
  BY ReplayAt
<1>2. /\ more[n + 1] = ApplyUpdate(st[n], longer[n + 1])
      /\ \A s \in 0..n : more[s] = st[s]
      /\ more = [s \in 0..(n + 1) |-> more[s]]
  OBVIOUS
<1> HIDE DEF more
<1>3. more[0] = FromInception(longer[0])
  <2>1. 0 \in 0..n
    OBVIOUS
  <2> QED
    BY <1>1, <1>2, <2>1
<1>4. ASSUME NEW s \in 1..(n + 1)
      PROVE  more[s] = ApplyUpdate(more[s - 1], longer[s])
  <2>1. CASE s = n + 1
    <3>1. s - 1 = n /\ n \in 0..n
      BY <2>1
    <3>2. more[s - 1] = st[n]
      BY <1>2, <3>1
    <3> QED
      BY <1>2, <2>1, <3>2
  <2>2. CASE s \in 1..n
    <3>1. s \in 0..n /\ s - 1 \in 0..n
      BY <2>2
    <3> QED
      BY <1>1, <1>2, <2>2, <3>1
  <2> QED
    BY <2>1, <2>2
<1>5. n + 1 \in Nat
  OBVIOUS
<1>6. IsReplay(longer, n + 1, more)
  BY <1>2, <1>3, <1>4, <1>5, ReplayBy
<1> QED
  BY <1>6 DEF more

LEMMA ReplayStops ==
  ASSUME NEW n \in Nat, NEW log, NEW st, IsReplay(log, n, st),
         NEW l \in 0..n, NEW shorter, \A s \in 0..l : shorter[s] = log[s]
  PROVE  IsReplay(shorter, l, [s \in 0..l |-> st[s]])
<1> DEFINE less == [s \in 0..l |-> st[s]]
<1>1. /\ DOMAIN st = 0..n /\ st[0] = FromInception(log[0])
      /\ \A s \in 1..n : st[s] = ApplyUpdate(st[s - 1], log[s])
  BY ReplayAt
<1>2. (\A s \in 0..l : less[s] = st[s]) /\ less = [s \in 0..l |-> less[s]] /\ l \in Nat
  OBVIOUS
<1> HIDE DEF less
<1>3. less[0] = FromInception(shorter[0])
  <2>1. 0 \in 0..l
    OBVIOUS
  <2> QED
    BY <1>1, <1>2, <2>1
<1>4. ASSUME NEW s \in 1..l
      PROVE  less[s] = ApplyUpdate(less[s - 1], shorter[s])
  <2>1. s \in 0..l /\ s - 1 \in 0..l /\ s \in 1..n
    OBVIOUS
  <2> QED
    BY <1>1, <1>2, <2>1
<1>5. IsReplay(shorter, l, less)
  BY <1>2, <1>3, <1>4, ReplayBy
<1> QED
  BY <1>5 DEF less

\* StateAt is what a replay holds last.
LEMMA StateAtIsReplay ==
  ASSUME NEW p \in Prefix, NEW n \in Nat, NEW st, IsReplay(EventsTo(p, n), n, st)
  PROVE  StateAt(p, n) = st[n]
<1> DEFINE At(f, s) == IF s = 0 THEN FromInception(EventOf(fels[p][0]))
                       ELSE ApplyUpdate(f[s - 1], EventOf(fels[p][s]))
           log == EventsTo(p, n)
           Found == CHOOSE f : f = [s \in 0..n |-> At(f, s)]
<1>1. ASSUME NEW f
      PROVE  f = [s \in 0..n |-> At(f, s)] <=> IsReplay(log, n, f)
  <2>1. \A s \in 0..n : log[s] = EventOf(fels[p][s])
    BY DEF EventsTo
  <2>2. 0 \in 0..n
    OBVIOUS
  <2> HIDE DEF log
  <2>3. [s \in 0..n |-> At(f, s)] =
        [s \in 0..n |-> IF s = 0 THEN FromInception(log[0]) ELSE ApplyUpdate(f[s - 1], log[s])]
    BY <2>1, <2>2
  <2> QED
    BY <2>3 DEF IsReplay
<1> HIDE DEF At, log
<1>2. st = [s \in 0..n |-> At(st, s)]
  BY <1>1 DEF log
<1>3. Found = [s \in 0..n |-> At(Found, s)]
  BY <1>2, Zenon
<1> HIDE DEF Found
<1>4. Found = st
  BY <1>1, <1>3, OneReplay DEF log
<1>5. StateAt(p, n) = Found[n]
  BY DEF StateAt, Found, At
<1> QED
  BY <1>4, <1>5

----------------------------------------------------------------------------
(* Trust.                                                                  *)

\* The log of p is the events 0 to n, with rotations and interactions after the
\* inception, and st holds the key states it leads through
Holds(p, n, st) ==
  /\ n \in Nat /\ 0..n \subseteq SeqNo
  /\ \A s \in SeqNo : fels[p][s] # NoSaid <=> s <= n
  /\ \A s \in 1..n : EventOf(fels[p][s]).t \in {"rot", "ixn"}
  /\ IsReplay(EventsTo(p, n), n, st)
  /\ \A s \in 0..n : st[s] \in KeyStateType

\* The Kever of p, if there is one, is the last state of that replay
Replayed(p) ==
  kevers[p] # NoKever => \E st : Holds(p, kevers[p].sn, st) /\ st[kevers[p].sn] = kevers[p]

\* TrustedStateIsReplayed, of flagged prefixes too and with every state on the
\* way: a step adds one event to a replay, not to its last state only.
TrustOK == \A p \in Prefix : Replayed(p)

\* A stored log without an inception is empty.
LEMMA LogStartsAtInception ==
  ASSUME StoreOK, NEW p \in Prefix, 0 \notin SeqNo \/ fels[p][0] = NoSaid
  PROVE  \A s \in SeqNo : fels[p][s] = NoSaid
<1> DEFINE Held == {s \in SeqNo : fels[p][s] # NoSaid}
<1> SUFFICES ASSUME Held # {} PROVE FALSE
  OBVIOUS
<1>1. Held \in SUBSET Nat
  BY SeqNoNat
<1>2. PICK least \in Held : \A s \in Held : least <= s
  BY <1>1, LeastNumber
<1>3. StoredOK(p, least) /\ fels[p][least] # NoSaid /\ least \in Nat /\ least # 0
  BY <1>1, <1>2 DEF StoreOK
<1>4. least - 1 \in Held
  BY <1>3 DEF StoredOK
<1> QED
  BY <1>2, <1>3, <1>4

\* A replay lasts as long as its places are not written.
LEMMA HoldsKept ==
  ASSUME NEW p \in Prefix, NEW n, NEW st, Holds(p, n, st),
         \A s \in SeqNo : fels'[p][s] = fels[p][s]
  PROVE  Holds(p, n, st)'
<1>1. n \in Nat /\ 0..n \subseteq SeqNo /\ \A s \in SeqNo : fels[p][s] # NoSaid <=> s <= n
  BY DEF Holds
<1>2. \A s \in 0..n : s \in SeqNo /\ fels'[p][s] = fels[p][s]
  BY <1>1
<1>3. EventsTo(p, n)' = EventsTo(p, n)
  BY <1>2 DEF EventsTo
<1>4. \A s \in 1..n : s \in 0..n
  BY <1>1
<1>5. \A s \in 1..n : EventOf(fels'[p][s]).t \in {"rot", "ixn"}
  BY <1>2, <1>4 DEF Holds
<1>6. IsReplay(EventsTo(p, n), n, st)'
  BY <1>3 DEF Holds, IsReplay
<1>7. \A s \in SeqNo : fels'[p][s] # NoSaid <=> s <= n
  BY <1>1
<1> QED
  BY <1>1, <1>5, <1>6, <1>7 DEF Holds

\* The step that stores an inception starts a replay, for the log was empty.
LEMMA InceptionIsReplayed ==
  ASSUME TypeOK, StoreOK, NEW m \in Message, EventAccepted(m), Unseen(m.ev),
         kevers[m.ev.i] = NoKever
  PROVE  Replayed(m.ev.i)'
<1> DEFINE e == m.ev
           st == [s \in 0..0 |-> FromInception(e)]
<1>1. /\ e \in Event /\ e.t = "icp" /\ e.s = 0 /\ NewState(m) = FromInception(e)
      /\ e.i \in Prefix /\ e.s \in SeqNo /\ e.d \in Digest
  BY MessageFields DEF EventAccepted, NewState
<1>2. /\ fels' = [fels EXCEPT ![e.i][e.s] = e.d]
      /\ kevers' = [kevers EXCEPT ![e.i] = NewState(m)]
  BY DEF EventAccepted, StoreEvent
<1>3. EventOf(e.d) = e
  BY <1>1, EventOfSaid DEF EventAccepted
<1>4. fels'[e.i][0] = e.d /\ \A s \in SeqNo : s # 0 => fels'[e.i][s] = fels[e.i][s]
  BY <1>1, <1>2 DEF TypeOK, DirectTypeOK
<1>5. \A s \in SeqNo : fels[e.i][s] = NoSaid
  BY <1>1, LogStartsAtInception DEF Unseen
<1>6. \A s \in SeqNo : fels'[e.i][s] # NoSaid <=> s <= 0
  BY <1>1, <1>4, <1>5, SeqNoNat, NoSaidAssumption
<1>7. kevers'[e.i] = FromInception(e) /\ FromInception(e).sn = 0 /\ FromInception(e) \in KeyStateType
  <2>1. FromInception(e) \in KeyStateType
    BY <1>1, NewStateType DEF TypeOK
  <2>2. kevers'[e.i] = FromInception(e)
    BY <1>1, <1>2 DEF TypeOK, DirectTypeOK
  <2> QED
    BY <2>1, <2>2 DEF FromInception, InceptedState
<1>8. 0..0 = {0} /\ 0 \in Nat /\ ~(\E s : s \in 1..0)
  OBVIOUS
<1>9. EventsTo(e.i, 0)'[0] = e
  BY <1>3, <1>4, <1>8 DEF EventsTo
<1>10. IsReplay(EventsTo(e.i, 0)', 0, st)
  <2>1. st = [s \in 0..0 |-> st[s]] /\ st[0] = FromInception(EventsTo(e.i, 0)'[0])
    BY <1>8, <1>9
  <2> HIDE DEF st
  <2> QED
    BY <1>8, <2>1, ReplayBy
<1>11. Holds(e.i, 0, st)'
  BY <1>1, <1>6, <1>7, <1>8, <1>10 DEF Holds, IsReplay
<1>12. kevers'[e.i].sn = 0 /\ st[0] = kevers'[e.i]
  BY <1>7, <1>8
<1> HIDE DEF st
<1> QED
  BY <1>11, <1>12 DEF Replayed

\* The step that stores a later event goes on with the replay.
LEMMA UpdateIsReplayed ==
  ASSUME TypeOK, NEW m \in Message, EventAccepted(m), Unseen(m.ev),
         kevers[m.ev.i] # NoKever, Replayed(m.ev.i)
  PROVE  Replayed(m.ev.i)'
<1> DEFINE e == m.ev
           p == e.i
<1>0. PICK n : n = kevers[p].sn
  OBVIOUS
<1>1. PICK st : Holds(p, n, st) /\ st[n] = kevers[p]
  BY <1>0 DEF Replayed
<1>2. /\ e \in Event /\ e.t \in {"rot", "ixn"} /\ e.s = n + 1
      /\ NewState(m) = ApplyUpdate(kevers[p], e)
      /\ p \in Prefix /\ e.s \in SeqNo /\ e.d \in Digest
  BY <1>0, MessageFields DEF EventAccepted, NewState, Follows
<1>3. /\ fels' = [fels EXCEPT ![p][e.s] = e.d]
      /\ kevers' = [kevers EXCEPT ![p] = NewState(m)]
  BY DEF EventAccepted, StoreEvent
<1>4. n \in Nat /\ 0..n \subseteq SeqNo /\ \A s \in SeqNo : fels[p][s] # NoSaid <=> s <= n
  BY <1>1 DEF Holds
<1>5. /\ kevers'[p] = ApplyUpdate(kevers[p], e) /\ kevers'[p].sn = n + 1
      /\ kevers'[p] \in KeyStateType
  <2>1. kevers'[p] = NewState(m)
    BY <1>2, <1>3 DEF TypeOK, DirectTypeOK
  <2> QED
    BY <1>2, <2>1, NewStateType DEF TypeOK
<1>6. /\ fels'[p][n + 1] = e.d
      /\ \A s \in SeqNo : s # n + 1 => fels'[p][s] = fels[p][s]
  BY <1>2, <1>3 DEF TypeOK, DirectTypeOK
<1>7. EventOf(e.d) = e
  BY <1>2, EventOfSaid DEF EventAccepted
<1>8. ASSUME NEW s \in 0..n
      PROVE  fels'[p][s] = fels[p][s]
  <2>1. s \in SeqNo /\ s # n + 1
    BY <1>4
  <2> QED
    BY <1>6, <2>1
<1> DEFINE log == EventsTo(p, n)
           longer == EventsTo(p, n + 1)'
           more == [s \in 0..(n + 1) |->
                      IF s = n + 1 THEN ApplyUpdate(st[n], longer[n + 1]) ELSE st[s]]
<1>9. longer[n + 1] = e /\ \A s \in 0..n : longer[s] = log[s]
  <2>1. n + 1 \in 0..(n + 1) /\ \A s \in 0..n : s \in 0..(n + 1)
    BY <1>4
  <2> QED
    BY <1>6, <1>7, <1>8, <2>1 DEF EventsTo
<1>10. IsReplay(log, n, st)
  BY <1>1 DEF Holds
<1> HIDE DEF log, longer
<1>11. IsReplay(longer, n + 1, more)
  BY <1>4, <1>9, <1>10, ReplayGrows
<1>12. more[n + 1] = kevers'[p]
  BY <1>1, <1>4, <1>5, <1>9
<1>13. \A s \in 0..(n + 1) : more[s] \in KeyStateType
  <2>1. \A s \in 0..n : st[s] \in KeyStateType /\ more[s] = st[s]
    BY <1>1, <1>4 DEF Holds
  <2>2. \A s \in 0..(n + 1) : s \in 0..n \/ s = n + 1
    BY <1>4
  <2> HIDE DEF more
  <2> QED
    BY <1>5, <1>12, <2>1, <2>2
<1> HIDE DEF more
<1>14. n + 1 \in Nat /\ 0..(n + 1) \subseteq SeqNo
  <2>1. \A s \in 0..(n + 1) : s \in 0..n \/ s = n + 1
    BY <1>4
  <2> QED
    BY <1>2, <1>4, <2>1
<1>15. \A s \in SeqNo : fels'[p][s] # NoSaid <=> s <= n + 1
  <2>1. \A s \in Nat : s # n + 1 => (s <= n <=> s <= n + 1)
    BY <1>4
  <2>2. fels'[p][n + 1] # NoSaid /\ n + 1 <= n + 1
    BY <1>2, <1>4, <1>6, NoSaidAssumption
  <2> QED
    BY <1>4, <1>6, <2>1, <2>2, SeqNoNat
<1>16. \A s \in 1..(n + 1) : EventOf(fels'[p][s]).t \in {"rot", "ixn"}
  <2>1. \A s \in 1..(n + 1) : (s \in 1..n /\ s \in 0..n) \/ s = n + 1
    BY <1>4
  <2>2. \A s \in 1..n : EventOf(fels[p][s]).t \in {"rot", "ixn"}
    BY <1>1 DEF Holds
  <2> QED
    BY <1>2, <1>6, <1>7, <1>8, <2>1, <2>2
<1>17. PICK last : last = more
  OBVIOUS
<1>18. IsReplay(EventsTo(p, n + 1)', n + 1, last)
  BY <1>11, <1>17 DEF longer
<1>19. Holds(p, n + 1, last)'
  BY <1>13, <1>14, <1>15, <1>16, <1>17, <1>18 DEF Holds, IsReplay
<1>20. kevers'[p].sn = n + 1 /\ last[n + 1] = kevers'[p]
  BY <1>5, <1>12, <1>17
<1> QED
  BY <1>19, <1>20 DEF Replayed

\* Every Kever is the replay of the stored log, in all behaviours of the Judge.
LEMMA JudgeTrustOK == Spec => []TrustOK
<1>1. Init => TrustOK
  BY DEF Init, DirectInit, TrustOK, Replayed
<1>2. TypeOK /\ StoreOK /\ TrustOK /\ [Next]_vars => TrustOK'
  <2> SUFFICES ASSUME TypeOK, StoreOK, TrustOK, [Next]_vars, NEW p \in Prefix
               PROVE  Replayed(p)'
    BY DEF TrustOK
  <2>1. ASSUME NEW m \in Message, Process(m)
        PROVE  Replayed(p)'
    <3>1. CASE EventAccepted(m) /\ Unseen(m.ev) /\ p = m.ev.i
      <4>1. Replayed(m.ev.i)
        BY <3>1 DEF TrustOK
      <4> QED
        BY <3>1, <4>1, InceptionIsReplayed, UpdateIsReplayed
    <3>2. CASE p # m.ev.i \/ UNCHANGED <<kevers, fels>>
      <4>1. kevers'[p] = kevers[p] /\ \A s \in SeqNo : fels'[p][s] = fels[p][s]
        <5>1. CASE UNCHANGED <<kevers, fels>>
          BY <5>1
        <5>2. CASE EventAccepted(m) /\ p # m.ev.i
          BY <5>2, MessageFields DEF EventAccepted, StoreEvent, TypeOK, DirectTypeOK
        <5> QED
          BY <2>1, <3>2, <5>1, <5>2, JudgedCases
      <4>2. SUFFICES ASSUME kevers'[p] # NoKever
                     PROVE  Replayed(p)'
        BY DEF Replayed
      <4>3. PICK n : n = kevers[p].sn
        OBVIOUS
      <4>4. PICK st : Holds(p, n, st) /\ st[n] = kevers[p]
        BY <4>1, <4>2, <4>3 DEF TrustOK, Replayed
      <4>5. Holds(p, n, st)'
        BY <4>1, <4>4, HoldsKept
      <4> QED
        BY <4>1, <4>3, <4>4, <4>5 DEF Replayed
    <3> QED
      BY <2>1, <3>1, <3>2, JudgedCases
  <2>2. CASE Restart
    BY <2>2 DEF Restart, LoseKevers, Replayed
  <2>3. CASE UNCHANGED vars
    <3>1. Replayed(p)
      BY DEF TrustOK
    <3> QED
      BY <2>3, <3>1 DEF vars, Replayed, Holds, IsReplay, EventsTo
  <2> QED
    BY <2>1, <2>2, <2>3 DEF Next
<1> QED
  BY <1>1, <1>2, JudgeTypeCorrect, JudgeStoreOK, PTL DEF Spec

\* The key state of a trusted prefix is what replaying its log's events gives,
\* and the log ends where the Kever stands (Judge::verdict, "has a consistent,
\* verified KEL").
THEOREM JudgeTrustedStateIsReplayed == Spec => []TrustedStateIsReplayed
<1>1. StoreOK /\ TrustOK => TrustedStateIsReplayed
  <2> SUFFICES ASSUME StoreOK, TrustOK, NEW p \in Prefix, Verdict(p) = "Trusted"
               PROVE  /\ StoredChain(p)
                      /\ \A s \in SeqNo : fels[p][s] # NoSaid <=> s <= kevers[p].sn
                      /\ kevers[p] = StateAt(p, kevers[p].sn)
    BY DEF TrustedStateIsReplayed
  <2>1. kevers[p] # NoKever
    BY DEF Verdict
  <2>2. PICK st : Holds(p, kevers[p].sn, st) /\ st[kevers[p].sn] = kevers[p]
    BY <2>1 DEF TrustOK, Replayed
  <2>3. StateAt(p, kevers[p].sn) = st[kevers[p].sn]
    BY <2>2, StateAtIsReplay DEF Holds
  <2> QED
    BY <2>2, <2>3, StoreOKIsChain DEF Holds, StoredKelIsChain
<1> QED
  BY <1>1, JudgeStoreOK, JudgeTrustOK, PTL

\* Without a rotation the keys stay what they were.
LEMMA KeysLast ==
  ASSUME NEW n \in Nat, NEW log, NEW st, IsReplay(log, n, st),
         \A s \in 0..n : st[s] \in KeyStateType,
         NEW from \in 0..n, \A s \in (from + 1)..n : log[s].t = "ixn"
  PROVE  st[n].keys = st[from].keys /\ st[n].threshold = st[from].threshold
<1>1. \A s \in 1..n : st[s] = ApplyUpdate(st[s - 1], log[s])
  BY ReplayAt
<1> DEFINE Same(s) == st[s].keys = st[from].keys /\ st[s].threshold = st[from].threshold
           Changed == {s \in from..n : ~Same(s)}
<1>2. Changed = {}
  <2> SUFFICES ASSUME Changed # {} PROVE FALSE
    OBVIOUS
  <2>1. Changed \in SUBSET Nat
    OBVIOUS
  <2>2. PICK least \in Changed : \A s \in Changed : least <= s
    BY <2>1, LeastNumber
  <2>3. least # from /\ least \in from..n
    OBVIOUS
  <2>4. /\ least \in (from + 1)..n /\ least \in 1..n
        /\ least - 1 \in from..n /\ least - 1 \in 0..n /\ ~(least <= least - 1)
    BY <2>3
  <2>5. Same(least - 1)
    BY <2>2, <2>4
  <2>6. st[least] = ApplyInteraction(st[least - 1], log[least])
    BY <1>1, <2>4 DEF ApplyUpdate
  <2>7. st[least].keys = st[least - 1].keys /\ st[least].threshold = st[least - 1].threshold
    BY <2>4, <2>6 DEF ApplyInteraction, KeyStateType
  <2>8. Same(least)
    BY <2>5, <2>7
  <2> QED
    BY <2>2, <2>8
<1>3. n \in from..n
  OBVIOUS
<1> QED
  BY <1>2, <1>3

\* A second valid interaction at a place is recognised whenever it comes in, as
\* long as no rotation has been accepted from that place on: the keys the check
\* is made with are those it was signed with (verify_for_duplicity).
THEOREM JudgeUnrotatedConflictIsFlagged == Spec => []UnrotatedConflictIsFlagged
<1>1. StoreOK /\ TrustOK => UnrotatedConflictIsFlagged
  <2> SUFFICES ASSUME StoreOK, TrustOK, NEW m \in Message, ValidConflict(m), m.ev.t = "ixn",
                      kevers[m.ev.i] # NoKever, ~Rotated(m.ev.i, m.ev.s)
               PROVE  VerifyForDuplicity(m)
    BY DEF UnrotatedConflictIsFlagged
  <2> DEFINE p == m.ev.i
             s == m.ev.s
             before == StateAt(p, s - 1)
  <2>1. p \in Prefix /\ s \in SeqNo /\ s \in Nat
    BY MessageFields
  <2>2. s > 0 /\ VerifySigs(m.sigs, before.keys, before.threshold)
    BY DEF ValidConflict, VerifyNew, VerifyUpdate, VerifyRotation, VerifyInteraction
  <2>3. fels[p][s] # NoSaid
    BY DEF ValidConflict, InConflict
  <2>4. PICK n : n = kevers[p].sn
    OBVIOUS
  <2>5. PICK st : Holds(p, n, st) /\ st[n] = kevers[p]
    BY <2>1, <2>4 DEF TrustOK, Replayed
  <2>6. n \in Nat /\ s <= n /\ s - 1 \in 0..n /\ s - 1 \in Nat /\ 0..n \subseteq SeqNo
    BY <2>1, <2>2, <2>3, <2>5 DEF Holds
  <2>7. IsReplay(EventsTo(p, n), n, st) /\ \A l \in 0..n : st[l] \in KeyStateType
    BY <2>5 DEF Holds
  <2>8. before = st[s - 1]
    <3> DEFINE less == [l \in 0..(s - 1) |-> st[l]]
               shorter == EventsTo(p, s - 1)
    <3>1. \A l \in 0..(s - 1) : shorter[l] = EventsTo(p, n)[l]
      BY <2>6 DEF EventsTo
    <3> HIDE DEF shorter
    <3>2. IsReplay(shorter, s - 1, less)
      BY <2>6, <2>7, <3>1, ReplayStops
    <3>3. less[s - 1] = st[s - 1]
      BY <2>6
    <3> HIDE DEF less
    <3>4. StateAt(p, s - 1) = less[s - 1]
      BY <2>1, <2>6, <3>2, StateAtIsReplay DEF shorter
    <3> QED
      BY <3>3, <3>4
  <2>9. \A l \in ((s - 1) + 1)..n : EventsTo(p, n)[l].t = "ixn"
    <3> TAKE l \in ((s - 1) + 1)..n
    <3>1. l \in 0..n /\ l \in 1..n /\ l \in SeqNo /\ l >= s /\ l <= n
      BY <2>2, <2>6, <2>1
    <3>2. fels[p][l] # NoSaid /\ EventOf(fels[p][l]).t \in {"rot", "ixn"}
      BY <2>5, <3>1 DEF Holds
    <3>3. EventOf(fels[p][l]).t # "rot"
      BY <3>1, <3>2 DEF Rotated
    <3> QED
      BY <3>1, <3>2, <3>3 DEF EventsTo
  <2>10. st[n].keys = st[s - 1].keys /\ st[n].threshold = st[s - 1].threshold
    BY <2>6, <2>7, <2>9, KeysLast
  <2>11. VerifySigs(m.sigs, kevers[p].keys, kevers[p].threshold)
    BY <2>2, <2>5, <2>8, <2>10
  <2> QED
    BY <2>11 DEF VerifyForDuplicity
<1> QED
  BY <1>1, JudgeStoreOK, JudgeTrustOK, PTL
=============================================================================
