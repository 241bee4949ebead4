------------------------------ MODULE KeyEvent ------------------------------
(***************************************************************************)
(* Key events (affinidi-keri-core/src/event.rs) and the verification of    *)
(* one signed event that Kever performs whoever keeps the Kever            *)
(* (affinidi-keri-core/src/kever.rs).  A message is an event with what is  *)
(* attached to it; here only its indexed signatures matter.                *)
(***************************************************************************)
EXTENDS KeyState

CONSTANTS Event,    \* the key events that can be presented
          NoKever

InceptionEvent ==
  [t : {"icp"}, d : Digest, i : Prefix, s : Nat, kt : ThresholdType,
   k : Seq(Key), n : Seq(Digest), bt : Nat, b : [Witness -> Nat], a : SUBSET Seal]

DelegatedInceptionEvent ==
  [t : {"dip"}, d : Digest, i : Prefix, s : Nat, kt : ThresholdType,
   k : Seq(Key), n : Seq(Digest), bt : Nat, b : [Witness -> Nat], a : SUBSET Seal,
   di : Prefix]

RotationEvent ==
  [t : {"rot"}, d : Digest, i : Prefix, s : Nat, p : Digest, kt : ThresholdType,
   k : Seq(Key), n : Seq(Digest), bt : Nat, br : SUBSET Witness,
   ba : SUBSET Witness, a : SUBSET Seal]

DelegatedRotationEvent ==
  [t : {"drt"}, d : Digest, i : Prefix, s : Nat, p : Digest, kt : ThresholdType,
   k : Seq(Key), n : Seq(Digest), bt : Nat, br : SUBSET Witness,
   ba : SUBSET Witness, a : SUBSET Seal, di : Prefix]

InteractionEvent ==
  [t : {"ixn"}, d : Digest, i : Prefix, s : Nat, p : Digest, a : SUBSET Seal]

KeyEvent ==
  InceptionEvent \cup DelegatedInceptionEvent \cup RotationEvent
    \cup DelegatedRotationEvent \cup InteractionEvent

ASSUME EventAssumption == Event \subseteq KeyEvent

\* Digests are collision-free: a SAID that verifies names one event.
ASSUME SaidIsBinding ==
  \A e, f \in Event : e.d = f.d /\ VerifySaid(e) /\ VerifySaid(f) => e = f

ASSUME NoKeverAssumption == NoKever \notin KeyStateType

----------------------------------------------------------------------------

\* Faulty variant: the ilk is not looked at
VerifyNewOfAnyIlk(m) ==
  /\ m.ev.t \in {"icp", "dip"}
  /\ VerifySaid(m.ev)
  /\ VerifySigs(m.sigs, m.ev.k, m.ev.kt)
  /\ ValidatePrefixDerivation(m.ev)
  /\ InceptionFieldsOK(m.ev)

\* A plain inception: Kever::new and Kever::new_from_parts
VerifyNew(m) ==
  /\ m.ev.t = "icp"
  /\ VerifySaid(m.ev)
  /\ VerifySigs(m.sigs, m.ev.k, m.ev.kt)
  /\ ValidatePrefixDerivation(m.ev)
  /\ InceptionFieldsOK(m.ev)

\* A delegated identifier rotates with drt only
MayRotatePlainly(st) == ~st.delegated

\* A rotation is signed by the keys it installs
VerifyRotation(st, m) ==
  /\ m.ev.t = "rot"
  /\ MayRotatePlainly(st)
  /\ VerifySigs(m.sigs, m.ev.k, m.ev.kt)
  /\ RotationOK(st, m.ev)

\* An interaction is signed by the current keys
VerifyInteraction(st, m) ==
  /\ m.ev.t = "ixn"
  /\ VerifySigs(m.sigs, st.keys, st.threshold)
  /\ InteractionOK(st, m.ev)

\* Kever::update, verify_update and verify_update_owned
VerifyUpdate(st, m) ==
  /\ VerifySaid(m.ev)
  /\ VerifyRotation(st, m) \/ VerifyInteraction(st, m)

ApplyUpdate(st, e) ==
  IF e.t = "ixn" THEN ApplyInteraction(st, e) ELSE ApplyRotation(st, e)
=============================================================================
