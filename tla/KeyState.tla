------------------------------ MODULE KeyState ------------------------------
(***************************************************************************)
(* The key state of one identifier and how one verified event changes it   *)
(* (affinidi-keri-core/src/key_state.rs), with the checks of kever.rs that *)
(* need nothing but an event and a state.                                  *)
(*                                                                         *)
(* An event is a record with the field names of the KERI event body:       *)
(* t ilk, d SAID, i prefix, s sequence number, p prior SAID, kt threshold, *)
(* k keys, n next-key digests, bt backer threshold, b backers, br and ba   *)
(* backers removed and added, a anchored seals, di delegator.  Left out,   *)
(* because no decision of the code reads them: v, c and nt.                *)
(*                                                                         *)
(* Cryptography is abstracted to what the code relies on: Said is the      *)
(* recomputed digest of a body, KeyDigest the digest of a key, and an      *)
(* indexed signature names the key that made it, so that it verifies only  *)
(* under that key.                                                         *)
(***************************************************************************)
EXTENDS Threshold

CONSTANTS Key,           \* public keys, also the prefixes of basic identifiers
          Digest,        \* SAIDs, key digests and self-addressing prefixes
          Prefix,        \* the identifiers that occur: digests and keys
          Witness,       \* witness prefixes
          Said(_),       \* what compute_said yields for an event body
          KeyDigest(_),  \* the digest of a key's qb64 form
          NoDelegator

ASSUME PrefixAssumption == Prefix \subseteq Digest \cup Key

ASSUME WitnessAssumption == IsFiniteSet(Witness)

Seal == [i : Prefix, s : Nat, d : Digest]

KeyStateType ==
  [prefix : Prefix, sn : Nat, said : Digest, threshold : ThresholdType,
   keys : Seq(Key), next_keys : Seq(Digest),
   backer_threshold : Nat, backers : [Witness -> Nat],
   last_event_digest : Digest, delegated : BOOLEAN,
   delegator : Prefix \cup {NoDelegator}]

Establishment == {"icp", "dip", "rot", "drt"}

----------------------------------------------------------------------------
(* Checks on the event itself.                                             *)

VerifySaid(e) == e.d = Said(e)

\* The indices of the keys with a valid signature, each counted once
SatisfiedIndices(sigs, keys) ==
  {j \in DOMAIN keys : [index |-> j, key |-> keys[j]] \in sigs}

\* Faulty variant: all keys have to sign, and that is enough
VerifySigsOfAll(sigs, keys, threshold) == SatisfiedIndices(sigs, keys) = DOMAIN keys

VerifySigs(sigs, keys, threshold) ==
  IsSatisfied(threshold, SatisfiedIndices(sigs, keys), Len(keys))

ValidatePrefixDerivation(e) ==
  \/ e.i = e.d /\ e.i \in Digest
  \/ e.i \in Key /\ e.k # <<>> /\ e.i = e.k[1]

----------------------------------------------------------------------------
(* Backer lists.  Only how often a witness is listed matters to the code,  *)
(* so a list is the function from witnesses to that number.                *)

BackerCount(backers) == Cardinality(UNION {{w} \X (1..backers[w]) : w \in Witness})

\* Faulty variant: a removal is not checked against the list
UpdateBackersSubtracting(backers, br, ba) ==
  [w \in Witness |-> (backers[w] - (IF w \in br THEN 1 ELSE 0)) + (IF w \in ba THEN 1 ELSE 0)]

\* Remove br, then add what ba names and the list lacks
UpdateBackers(backers, br, ba) ==
  LET kept == [w \in Witness |-> IF w \in br THEN 0 ELSE backers[w]]
  IN  [w \in Witness |-> IF w \in ba /\ kept[w] = 0 THEN 1 ELSE kept[w]]

\* Faulty variant: a witness is counted as often as it is listed
VerifyWitnessReceiptsByEntry(rcts, backers, bt) ==
  BackerCount([w \in Witness |-> IF w \in rcts THEN backers[w] ELSE 0]) >= bt

\* Distinct listed witnesses with a valid receipt couple reach the threshold
VerifyWitnessReceipts(rcts, backers, bt) ==
  Cardinality({w \in rcts : w \in Witness /\ backers[w] > 0}) >= bt

----------------------------------------------------------------------------
(* Inception.                                                              *)

InceptionFieldsOK(e) == e.s = 0 /\ e.bt <= BackerCount(e.b)

InceptedState(e, delegated, delegator) ==
  [prefix |-> e.i, sn |-> 0, said |-> e.d, threshold |-> e.kt,
   keys |-> e.k, next_keys |-> e.n,
   backer_threshold |-> e.bt, backers |-> e.b,
   last_event_digest |-> e.d, delegated |-> delegated, delegator |-> delegator]

FromInception(e) == InceptedState(e, FALSE, NoDelegator)

FromDelegatedInception(e) == InceptedState(e, TRUE, e.di)

----------------------------------------------------------------------------
(* Rotation and interaction.                                               *)

\* Faulty variants, told apart by the properties of Kever
FollowsAnyPrior(st, e) == e.s = st.sn + 1 /\ e.i = st.prefix

VerifyNextKeyCommitmentByCount(keys, next_keys) == Len(keys) = Len(next_keys)

VerifyNextKeyCommitmentAsPrefix(keys, next_keys) ==
  \A j \in DOMAIN keys : j \in DOMAIN next_keys => KeyDigest(keys[j]) = next_keys[j]

\* Next in sequence, for this prefix, and chained to the last event
Follows(st, e) ==
  /\ e.s = st.sn + 1
  /\ e.i = st.prefix
  /\ e.p = st.last_event_digest

\* Each rotation key is the one committed to at its position
VerifyNextKeyCommitment(keys, next_keys) ==
  /\ Len(keys) = Len(next_keys)
  /\ \A j \in DOMAIN keys : KeyDigest(keys[j]) = next_keys[j]

RotationOK(st, e) ==
  /\ Follows(st, e)
  /\ VerifyNextKeyCommitment(e.k, st.next_keys)
  /\ e.bt <= BackerCount(UpdateBackers(st.backers, e.br, e.ba))

\* A rotation under the delegator of the inception; otherwise a rotation
DelegatedRotationOK(st, e) ==
  /\ st.delegated
  /\ st.delegator = e.di
  /\ RotationOK(st, e)

InteractionOK(st, e) == Follows(st, e)

ApplyRotation(st, e) ==
  [st EXCEPT !.sn = e.s, !.said = e.d, !.threshold = e.kt,
             !.keys = e.k, !.next_keys = e.n,
             !.backer_threshold = e.bt,
             !.backers = UpdateBackers(st.backers, e.br, e.ba),
             !.last_event_digest = e.d]

\* Only the position in the log moves
ApplyInteraction(st, e) == [st EXCEPT !.sn = e.s, !.last_event_digest = e.d]
=============================================================================
