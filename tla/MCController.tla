---------------------------- MODULE MCController ----------------------------
(***************************************************************************)
(* Instances of Controller: one identifier in two configurations, with     *)
(* keys at the generations 0, 1, 3, 5 that the code uses, and k6 for every *)
(* other path.                                                             *)
(***************************************************************************)
EXTENDS Controller, MCEvents

DeriveKey(generation, index) ==
  CASE generation = 0 /\ index = 0 -> k1
    [] generation = 0 /\ index = 1 -> k2
    [] generation = 1 /\ index = 0 -> k3
    [] generation = 3 /\ index = 0 -> k4
    [] generation = 5 /\ index = 0 -> k5
    [] OTHER -> k6

Witnessed1 == [count |-> 2, threshold |-> 2, next_count |-> 1, transferable |-> TRUE,
               backer_threshold |-> 1, backers |-> Backers({w1})]

Fixed == [count |-> 1, threshold |-> 1, next_count |-> 1, transferable |-> FALSE,
          backer_threshold |-> 0, backers |-> NoBackers]

Inceptions == {Witnessed1, Fixed}

\* Exchange the witness; drop it, so that the threshold cannot be met; stop rotating
Rotations ==
  { [threshold |-> 1, next_count |-> 1, backers_remove |-> {w1}, backers_add |-> {w2}],
    [threshold |-> 1, next_count |-> 1, backers_remove |-> {w1}, backers_add |-> {}],
    [threshold |-> 1, next_count |-> 0, backers_remove |-> {}, backers_add |-> {}] }

SealSets == {{}, {SealOf(InceptionOf(Fixed))}}

----------------------------------------------------------------------------
(* The Habs, and the events they make, failed rotations included.          *)

Continued(h) ==
  {InteractedHab(h, seals) : seals \in SealSets}
    \cup (IF h.transferable THEN {RotatedHab(h, c) : c \in Rotations} ELSE {})

\* Those that never failed
SoundHabs[n \in 0..MaxSn] ==
  IF n = 0 THEN {InceptedHab(c) : c \in Inceptions}
  ELSE UNION {Continued(h) : h \in SoundHabs[n - 1]}

AllHabs == UNION {SoundHabs[n] : n \in 0..MaxSn}

WithFailed(S) == S \cup {FailedRotation(h) : h \in {h \in S : h.transferable}}

Habs[n \in 0..MaxSn] ==
  WithFailed(IF n = 0 THEN {InceptedHab(c) : c \in Inceptions}
             ELSE UNION {Continued(h) : h \in Habs[n - 1]})

EventsOf(h) ==
  {InteractionOf(h, seals) : seals \in SealSets}
    \cup (IF h.transferable THEN {RotationOf(h, c) : c \in Rotations} ELSE {})

AllEvents ==
  {InceptionOf(c) : c \in Inceptions}
    \cup UNION {EventsOf(h) : h \in UNION {Habs[n] : n \in 0..(MaxSn - 1)}}

\* The comprehension has TLC enumerate the unions once
ControllerEvents == {e : e \in AllEvents}

\* Two witnesses, and a transferable Hab that receipts all the same
WitnessHab(w, code) ==
  [prefix |-> <<6, code>>, signers |-> <<w>>, next_signers |-> <<>>, transferable |-> FALSE,
   last_said |-> <<6, code>>, sn |-> 0, key_gen |-> 2, signer_gen |-> 0, next_gen |-> 1,
   backer_threshold |-> 0, backers |-> NoBackers]

Fellow == [InceptedHab(Witnessed1) EXCEPT !.prefix = <<6, 3>>, !.signers = <<k6>>]

Observers == {WitnessHab(w1, 1), WitnessHab(w2, 2), Fellow}

ControllerPrefixes == {InceptionOf(c).i : c \in Inceptions}

ControllerNotes ==
  {Address([t |-> "rct", d |-> Placeholder, i |-> p, s |-> ReceiptSn]) :
     p \in ControllerPrefixes}

ControllerDigests ==
  {e.d : e \in ControllerEvents \cup ControllerNotes} \cup {DigestOfKey(k) : k \in Keys}
=============================================================================
