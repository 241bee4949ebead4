------------------------------- MODULE Judge -------------------------------
(***************************************************************************)
(* The Judge (affinidi-keri/src/judge.rs): a direct mode verifier behind   *)
(* the first-seen policy, which keeps the evidence of duplicity it finds.  *)
(* duplicitous and del are in memory only, like the Kevers.                *)
(***************************************************************************)
EXTENDS Direct

CONSTANTS MaxDelTotal,      \* MAX_DEL_TOTAL, 10000 in the code
          MaxDelPerPrefix   \* MAX_DEL_PER_PREFIX, 100 in the code

ASSUME DelBoundAssumption == MaxDelTotal \in Nat /\ MaxDelPerPrefix \in Nat \ {0}

VARIABLES duplicitous,  \* the prefixes flagged
          del,          \* the evidence, in the order found
          answered      \* the last answer that was not an error, and to what

vars == <<kevers, evts, fels, rcts, duplicitous, del, answered>>

Answer == {"Accepted", "DuplicateAccepted", "DuplicityDetected"}

Evidence ==
  [prefix : Prefix, sn : SeqNo, first_seen_said : Digest, duplicitous_said : Digest,
   first_seen_event : Body, duplicitous_event : Event]

TypeOK ==
  /\ DirectTypeOK
  /\ duplicitous \subseteq Prefix
  /\ del \in Seq(Evidence)
  /\ answered \in {<<>>} \cup (Answer \X Body)

Init ==
  /\ DirectInit
  /\ duplicitous = {}
  /\ del = <<>>
  /\ answered = <<>>

----------------------------------------------------------------------------
(* Judge::process.                                                         *)

\* Faulty variant: a prefix found duplicitous is judged again
JudgedAgain(e) == e.t # "rct"

\* Neither a receipt nor about a prefix found duplicitous
Judged(e) == e.t # "rct" /\ e.i \notin duplicitous

\* Receipts reach the store whatever is known of the prefix
PassReceipt(m) ==
  /\ m.ev.t = "rct"
  /\ ProcessParsed(m)
  /\ answered' = <<"Accepted", m.ev>>
  /\ UNCHANGED <<duplicitous, del>>

\* Faulty variant: inceptions are left to the check for a Kever in memory
UnseenOrInception(e) == e.t = "icp" \/ fels[e.i][e.s] = NoSaid

\* The lookup in the first-seen log
Unseen(e) == fels[e.i][e.s] = NoSaid

Accept(m) ==
  /\ Judged(m.ev)
  /\ Unseen(m.ev)
  /\ ProcessParsed(m)
  /\ answered' = <<"Accepted", m.ev>>
  /\ UNCHANGED <<duplicitous, del>>

Replay(m) ==
  /\ Judged(m.ev)
  /\ fels[m.ev.i][m.ev.s] = m.ev.d
  /\ answered' = <<"DuplicateAccepted", m.ev>>
  /\ UNCHANGED <<kevers, evts, fels, rcts, duplicitous, del>>

\* Faulty variant: the event must fit the end of the log
VerifyForDuplicityAsNext(m) ==
  \/ VerifyNew(m)
  \/ kevers[m.ev.i] # NoKever /\ VerifyUpdate(kevers[m.ev.i], m)

\* The part of verify_for_duplicity that looks at the new event: the whole of
\* Kever::new for an inception, a signature by the current keys for the rest
VerifyForDuplicity(m) ==
  \/ VerifyNew(m)
  \/ /\ m.ev.t \in {"rot", "ixn", "drt"}
     /\ kevers[m.ev.i] # NoKever
     /\ VerifySigs(m.sigs, kevers[m.ev.i].keys, kevers[m.ev.i].threshold)

\* Where the evidence against p is
EvidenceOn(p) == {j \in DOMAIN del : del[j].prefix = p}

\* Faulty variant: the SAID of the event is flagged in the place of its prefix
RecordDuplicityBySaid(ev) ==
  /\ duplicitous' = duplicitous \cup {ev.duplicitous_said}
  /\ del' = IF Len(del) < MaxDelTotal /\ Cardinality(EvidenceOn(ev.prefix)) < MaxDelPerPrefix
            THEN Append(del, ev) ELSE del

\* record_duplicity: the prefix is flagged whether or not there is room
RecordDuplicity(ev) ==
  /\ duplicitous' = duplicitous \cup {ev.prefix}
  /\ del' = IF Len(del) < MaxDelTotal /\ Cardinality(EvidenceOn(ev.prefix)) < MaxDelPerPrefix
            THEN Append(del, ev) ELSE del

\* Faulty variant: a repeated event is a conflict
InConflictWithSeen(e) == fels[e.i][e.s] # NoSaid

\* Another event was seen first at the place of e
InConflict(e) == fels[e.i][e.s] \notin {NoSaid, e.d}

DetectDuplicity(m) ==
  LET first == fels[m.ev.i][m.ev.s]
  IN  /\ Judged(m.ev)
      /\ InConflict(m.ev)
      /\ VerifyForDuplicity(m)
      /\ first \in DOMAIN evts
      /\ RecordDuplicity(
           [prefix |-> m.ev.i, sn |-> m.ev.s, first_seen_said |-> first,
            duplicitous_said |-> m.ev.d, first_seen_event |-> evts[first],
            duplicitous_event |-> m.ev])
      /\ answered' = <<"DuplicityDetected", m.ev>>
      /\ UNCHANGED <<kevers, evts, fels, rcts>>

\* A new Judge on the old store
Restart ==
  /\ LoseKevers
  /\ duplicitous' = {}
  /\ del' = <<>>
  /\ answered' = <<>>

Process(m) == PassReceipt(m) \/ Accept(m) \/ Replay(m) \/ DetectDuplicity(m)

Next == (\E m \in Message : Process(m)) \/ Restart

Spec == Init /\ [][Next]_vars

----------------------------------------------------------------------------
(* Verdicts.                                                               *)

Verdict(p) ==
  IF p \in duplicitous THEN "Duplicitous"
  ELSE IF kevers[p] # NoKever THEN "Trusted" ELSE "Unknown"

----------------------------------------------------------------------------
(* Properties.                                                             *)

\* The key state that the events named by the log of p lead to, up to number n
StateAt(p, n) ==
  LET st[s \in 0..n] == IF s = 0
                        THEN FromInception(EventOf(fels[p][0]))
                        ELSE ApplyUpdate(st[s - 1], EventOf(fels[p][s]))
  IN  st[n]

FS == INSTANCE FirstSeen WITH seen <- fels

\* The first-seen policy, across restarts (module documentation of judge.rs):
\* what is recorded at a position never changes, although every write to the
\* store is an upsert and the Kevers that guard it are lost in a restart.
FirstSeenPolicy == FS!Spec

\* A trusted prefix "has a consistent, verified KEL": replaying the events that
\* its stored log names, from the inception on, gives exactly the key state the
\* Judge trusts.
TrustedStateIsReplayed ==
  \A p \in Prefix :
    Verdict(p) = "Trusted" =>
      /\ StoredChain(p)
      /\ \A s \in SeqNo : fels[p][s] # NoSaid <=> s <= kevers[p].sn
      /\ kevers[p] = StateAt(p, kevers[p].sn)

\* Each piece of evidence is a conflict that anybody can see in the log: the
\* event it names as first seen is the one on record at that place, and the
\* duplicitous one is another event for the same place.  The body shown with
\* the first is what the store held under its SAID.
EvidenceIsConflict ==
  \A j \in DOMAIN del :
    LET ev    == del[j]
        first == EventOf(ev.first_seen_said)
    IN  /\ ev.prefix \in duplicitous
        /\ fels[ev.prefix][ev.sn] = ev.first_seen_said
        /\ first \in Event /\ first.d = ev.first_seen_said /\ VerifySaid(first)
        /\ ev.first_seen_event \in StandsFor(first)
        /\ ev.duplicitous_event.d = ev.duplicitous_said
        /\ ev.duplicitous_said # ev.first_seen_said
        /\ \A e \in {first, ev.duplicitous_event} : e.i = ev.prefix /\ e.s = ev.sn

\* The identifier is dead once flagged: until the Judge restarts nothing it
\* says changes what the Judge holds of it.
DuplicitousIsDead ==
  [][\A p \in duplicitous \cap duplicitous' :
       /\ kevers'[p] = kevers[p]
       /\ fels'[p] = fels[p]
       /\ EvidenceOn(p)' = EvidenceOn(p)]_vars

\* A flagged prefix never collects a second piece of evidence, so that the cap
\* per prefix cannot bind, and below the total cap duplicitous and del agree,
\* as the documentation of Judge says they always do.
EvidenceOncePerPrefix ==
  /\ \A i, j \in DOMAIN del : del[i].prefix = del[j].prefix => i = j
  /\ Len(del) < MaxDelTotal => duplicitous = {del[j].prefix : j \in DOMAIN del}

\* A key event for a place that another one has, valid on the log before it
ValidConflict(m) ==
  /\ m.ev \in Event /\ InConflict(m.ev)
  /\ \/ VerifyNew(m)
     \/ m.ev.s > 0 /\ VerifyUpdate(StateAt(m.ev.i, m.ev.s - 1), m)

Rotated(p, s) ==
  \E l \in SeqNo : l >= s /\ fels[p][l] # NoSaid /\ EventOf(fels[p][l]).t = "rot"

\* A second valid interaction is recognised wherever it comes in, as long as no
\* rotation has been accepted from its place on (the comment in
\* verify_for_duplicity: "This works for ixn (keys unchanged)").
UnrotatedConflictIsFlagged ==
  \A m \in Message :
    ValidConflict(m) /\ m.ev.t = "ixn" /\ kevers[m.ev.i] # NoKever
      /\ ~Rotated(m.ev.i, m.ev.s)
    => VerifyForDuplicity(m)

\* "If a second, different-but-valid event arrives at the same (prefix, sn), the
\* Judge flags the prefix" (judge.rs:4-7).
ValidConflictIsFlagged ==
  \A m \in Message :
    ValidConflict(m) /\ kevers[m.ev.i] # NoKever => VerifyForDuplicity(m)

\* What the Judge answered is what its store says (JudgeResult): an event it
\* accepted is the one on record, unless the identifier has no Kever and nothing
\* was recorded; a duplicate was on record before; a conflict was on record with
\* another event, and its prefix is flagged.
AnswersMatchRecord ==
  answered # <<>> =>
    LET e == answered[2]
    IN CASE answered[1] = "Accepted" /\ e.t \in Establishment \cup {"ixn"} ->
              fels[e.i][e.s] = e.d \/ kevers[e.i] = NoKever
         [] answered[1] = "DuplicateAccepted" -> fels[e.i][e.s] = e.d
         [] answered[1] = "DuplicityDetected" ->
              ~Unseen(e) /\ fels[e.i][e.s] # e.d /\ e.i \in duplicitous
         [] OTHER -> TRUE
=============================================================================
