------------------------------- MODULE Kever -------------------------------
(***************************************************************************)
(* Key event verifiers (affinidi-keri-core/src/kever.rs, delegation.rs).   *)
(*                                                                         *)
(* Every verifier keeps one Kever per identifier, fed by messages: an      *)
(* event, the indexed signatures attached to it, and, for a delegated      *)
(* event, the seal source couple that says where the delegator anchored    *)
(* it.  Messages come in any order, any number of times, and may be        *)
(* invalid in every way the code tests for; a rejected message changes     *)
(* nothing.                                                                *)
(*                                                                         *)
(* kel is the log of the events each verifier accepted.  The code asks its *)
(* embedder for it through the trait DelegatorAnchors, whose contract is   *)
(* to answer from verified events only; every entry also remembers the key *)
(* state it led to, which only the properties read.                        *)
(***************************************************************************)
EXTENDS KeyEvent

CONSTANTS Verifier,
          Message   \* events with their attachments

\* proof is the seal source couple: a sequence number and a SAID
ASSUME MessageAssumption ==
  \A m \in Message : m.ev \in Event /\ m.proof.sn \in Nat

ASSUME NoDelegatorAssumption == NoDelegator \notin Prefix

VARIABLES kevers,  \* kevers[v][p]: the key state v holds for p, or NoKever
          kel      \* kel[v][p]: the events v accepted for p, in order

vars == <<kevers, kel>>

Entry == [ev : Event, st : KeyStateType]

TypeOK ==
  /\ kevers \in [Verifier -> [Prefix -> KeyStateType \cup {NoKever}]]
  /\ kel \in [Verifier -> [Prefix -> Seq(Entry)]]

Init ==
  /\ kevers = [v \in Verifier |-> [p \in Prefix |-> NoKever]]
  /\ kel = [v \in Verifier |-> [p \in Prefix |-> <<>>]]

----------------------------------------------------------------------------
(* Verification of one message.                                            *)

\* Does the delegator's event at the proof's place anchor this event?
Anchored(log, e, proof) ==
  /\ proof.sn + 1 \in DOMAIN log
  /\ log[proof.sn + 1].ev.d = proof.said
  /\ [i |-> e.i, s |-> e.s, d |-> e.d] \in log[proof.sn + 1].ev.a

\* Faulty variant: the seal is not looked for
DelegationByLocation(v, e, proof) ==
  /\ e.di # e.i
  /\ proof.sn + 1 \in DOMAIN kel[v][e.di]
  /\ kel[v][e.di][proof.sn + 1].ev.d = proof.said

\* delegation::verify_delegation, the delegator's log being the verifier's own
VerifyDelegation(v, e, proof) ==
  /\ e.di # e.i
  /\ Anchored(kel[v][e.di], e, proof)

VerifyNewDelegated(v, m) ==
  /\ m.ev.t = "dip"
  /\ VerifySaid(m.ev)
  /\ VerifySigs(m.sigs, m.ev.k, m.ev.kt)
  /\ m.ev.i = m.ev.d
  /\ InceptionFieldsOK(m.ev)
  /\ VerifyDelegation(v, m.ev, m.proof)

VerifyUpdateDelegated(v, st, m) ==
  /\ m.ev.t = "drt"
  /\ VerifySaid(m.ev)
  /\ VerifySigs(m.sigs, m.ev.k, m.ev.kt)
  /\ VerifyDelegation(v, m.ev, m.proof)
  /\ DelegatedRotationOK(st, m.ev)

----------------------------------------------------------------------------
(* Actions.                                                                *)

Commit(v, e, st) ==
  /\ kevers' = [kevers EXCEPT ![v][e.i] = st]
  /\ kel' = [kel EXCEPT ![v][e.i] = Append(@, [ev |-> e, st |-> st])]

New(v, m) ==
  /\ kevers[v][m.ev.i] = NoKever
  /\ VerifyNew(m)
  /\ Commit(v, m.ev, FromInception(m.ev))

NewDelegated(v, m) ==
  /\ kevers[v][m.ev.i] = NoKever
  /\ VerifyNewDelegated(v, m)
  /\ Commit(v, m.ev, FromDelegatedInception(m.ev))

Update(v, m) ==
  LET st == kevers[v][m.ev.i]
  IN  /\ st # NoKever
      /\ VerifyUpdate(st, m)
      /\ Commit(v, m.ev, ApplyUpdate(st, m.ev))

UpdateDelegated(v, m) ==
  LET st == kevers[v][m.ev.i]
  IN  /\ st # NoKever
      /\ VerifyUpdateDelegated(v, st, m)
      /\ Commit(v, m.ev, ApplyRotation(st, m.ev))

Next ==
  \E v \in Verifier, m \in Message :
    New(v, m) \/ NewDelegated(v, m) \/ Update(v, m) \/ UpdateDelegated(v, m)

Spec == Init /\ [][Next]_vars

----------------------------------------------------------------------------
(* Properties.                                                             *)

\* The state of a Kever is the one its log leads to, and the log is a hash
\* chain for the identifier, with sequence numbers 0, 1, 2, ...: no
\* interleaving of rejected, repeated and accepted messages leaves a gap or
\* joins two histories (the sequencing and prior-digest checks of
\* key_state.rs against last_event_digest).
LogIsChain ==
  \A v \in Verifier, p \in Prefix :
    LET log == kel[v][p]
    IN  /\ kevers[v][p] = IF log = <<>> THEN NoKever ELSE log[Len(log)].st
        /\ \A j \in DOMAIN log :
             /\ log[j].ev.i = p
             /\ log[j].ev.s = j - 1
             /\ log[j].st.last_event_digest = log[j].ev.d
             /\ j > 1 => log[j].ev.p = log[j-1].ev.d

\* The SAID of the latest event determines everything a Kever knows: two
\* verifiers that reach the same last_event_digest, in whatever order and
\* among whatever other messages they received the events, hold the same key
\* state.  This is what makes last_event_digest a sound summary
\* (KeyStateEntry in direct.rs publishes only prefix, sn and that SAID).
HeadDeterminesState ==
  \A v, w \in Verifier, p, q \in Prefix :
    /\ kevers[v][p] # NoKever
    /\ kevers[w][q] # NoKever
    /\ kevers[v][p].last_event_digest = kevers[w][q].last_event_digest
    => kevers[v][p] = kevers[w][q]

\* The keys an establishment event installs are those the previous
\* establishment event committed to by digest, however many interactions lie
\* between the two (verify_next_key_commitment against next_keys).
RotationRevealsCommitment ==
  \A v \in Verifier, p \in Prefix :
    LET log == kel[v][p]
        Est(j) == log[j].ev.t \in Establishment
    IN  \A i, j \in DOMAIN log :
          (i < j /\ Est(i) /\ Est(j) /\ \A l \in (i+1)..(j-1) : ~Est(l))
            => /\ Len(log[j].ev.k) = Len(log[i].ev.n)
               /\ \A x \in DOMAIN log[j].ev.k :
                    KeyDigest(log[j].ev.k[x]) = log[i].ev.n[x]

\* Each delegated event a verifier accepted is anchored, by a seal that names
\* exactly it, in the verified log of the delegator of the identifier's
\* inception; and an identifier that was incepted under a delegator has no
\* plain rotation in its log (verify_delegation, apply_delegated_rotation,
\* reject_plain_rotation_when_delegated).
DelegationAnchored ==
  \A v \in Verifier, p \in Prefix :
    \A j \in DOMAIN kel[v][p] :
      LET e    == kel[v][p][j].ev
          root == kel[v][p][1].ev
      IN  /\ e.t \in {"dip", "drt"} =>
               /\ root.t = "dip"
               /\ root.di # p
               /\ \E l \in DOMAIN kel[v][root.di] :
                    [i |-> p, s |-> j - 1, d |-> e.d] \in kel[v][root.di][l].ev.a
          /\ root.t = "dip" => e.t # "rot"

\* An identifier that has committed to no next keys has abandoned rotation:
\* its keys never change again (an empty next_keys admits only an empty key
\* list, and no threshold is met by no key).
AbandonedStaysAbandoned ==
  [][\A v \in Verifier, p \in Prefix :
       kevers[v][p] # NoKever /\ kevers[v][p].next_keys = <<>>
         => /\ kevers'[v][p].keys = kevers[v][p].keys
            /\ kevers'[v][p].next_keys = <<>>]_vars
=============================================================================
