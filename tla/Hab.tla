-------------------------------- MODULE Hab --------------------------------
(***************************************************************************)
(* The holder's side of an identifier (affinidi-keri/src/hab.rs): the      *)
(* events a Hab makes, the state it keeps, and what it needs to resume.    *)
(*                                                                         *)
(* Every key comes from the salt by a path <generation>.<index>; Derive is *)
(* that derivation for the one salt of the identifier.  A Hab holds the    *)
(* signers themselves; the state it exports holds generations and counts.  *)
(***************************************************************************)
EXTENDS KeyEvent

CONSTANT Derive(_, _)  \* the key at a generation and an index

Signers(generation, count) == [j \in 1..count |-> Derive(generation, j - 1)]

\* Next keys are committed to by the digest of their qb64 form
Digests(signers) == [j \in DOMAIN signers |-> KeyDigest(signers[j])]

\* All signers sign, each at its index
SignAll(signers) == {[index |-> j, key |-> signers[j]] : j \in DOMAIN signers}

HabType ==
  [prefix : Prefix, signers : Seq(Key), next_signers : Seq(Key), transferable : BOOLEAN,
   last_said : Digest, sn : Nat, key_gen : Nat, signer_gen : Nat, next_gen : Nat,
   backer_threshold : Nat, backers : [Witness -> Nat]]

HabStateType ==
  [prefix : Prefix, transferable : BOOLEAN, signer_gen : Nat, signer_count : Nat,
   next_gen : Nat, next_count : Nat, key_gen : Nat, last_said : Digest, sn : Nat,
   backer_threshold : Nat, backers : [Witness -> Nat]]

\* What stands for the SAID while it is computed
Placeholder == <<>>

\* compute_said: fills d, and for an inception i as well
SelfAddress(body) == [body EXCEPT !.d = Said(body), !.i = Said(body)]

Address(body) == [body EXCEPT !.d = Said(body)]

----------------------------------------------------------------------------
(* Inception.                                                              *)

InceptionOf(c) ==
  SelfAddress([t |-> "icp", d |-> Placeholder, i |-> Placeholder, s |-> 0,
               kt |-> Simple(c.threshold), k |-> Signers(0, c.count),
               n |-> Digests(Signers(1, c.next_count)),
               bt |-> c.backer_threshold, b |-> c.backers, a |-> {}])

InceptedHab(c) ==
  LET e == InceptionOf(c)
  IN  [prefix |-> e.d, signers |-> Signers(0, c.count),
       next_signers |-> Signers(1, c.next_count), transferable |-> c.transferable,
       last_said |-> e.d, sn |-> 0, key_gen |-> 2, signer_gen |-> 0, next_gen |-> 1,
       backer_threshold |-> c.backer_threshold, backers |-> c.backers]

\* The record incept_inner writes beside the event
RecordOf(c) ==
  LET e == InceptionOf(c)
  IN  [prefix |-> e.d, transferable |-> c.transferable,
       signer_gen |-> 0, signer_count |-> c.count, next_gen |-> 1, next_count |-> c.next_count,
       key_gen |-> 2, last_said |-> e.d, sn |-> 0,
       backer_threshold |-> c.backer_threshold, backers |-> c.backers]

----------------------------------------------------------------------------
(* Rotation.                                                               *)

\* rotate_inner derives the new next keys at key_gen + 1
RotationOf(h, c) ==
  Address([t |-> "rot", d |-> Placeholder, i |-> h.prefix, s |-> h.sn + 1, p |-> h.last_said,
           kt |-> Simple(c.threshold), k |-> h.next_signers,
           n |-> Digests(Signers(h.key_gen + 1, c.next_count)),
           bt |-> h.backer_threshold, br |-> c.backers_remove, ba |-> c.backers_add, a |-> {}])

\* Faulty variant: the generation of the signers is computed from the counter
RotatedHabByCounter(h, c) ==
  [h EXCEPT !.signers = h.next_signers,
            !.next_signers = Signers(h.key_gen + 1, c.next_count),
            !.last_said = RotationOf(h, c).d, !.sn = h.sn + 1,
            !.key_gen = h.key_gen + 2, !.signer_gen = h.key_gen, !.next_gen = h.key_gen + 1,
            !.backers = UpdateBackers(h.backers, c.backers_remove, c.backers_add)]

\* Faulty variant: the witnesses are not kept up to date
RotatedHabKeepingBackers(h, c) ==
  [h EXCEPT !.signers = h.next_signers,
            !.next_signers = Signers(h.key_gen + 1, c.next_count),
            !.last_said = RotationOf(h, c).d, !.sn = h.sn + 1,
            !.key_gen = h.key_gen + 2, !.signer_gen = h.next_gen, !.next_gen = h.key_gen + 1]

RotatedHab(h, c) ==
  [h EXCEPT !.signers = h.next_signers,
            !.next_signers = Signers(h.key_gen + 1, c.next_count),
            !.last_said = RotationOf(h, c).d, !.sn = h.sn + 1,
            !.key_gen = h.key_gen + 2, !.signer_gen = h.next_gen, !.next_gen = h.key_gen + 1,
            !.backers = UpdateBackers(h.backers, c.backers_remove, c.backers_add)]

\* What is left when a rotation fails after mem::take(&mut self.next_signers)
FailedRotation(h) == [h EXCEPT !.next_signers = <<>>]

----------------------------------------------------------------------------
(* Interaction.                                                            *)

InteractionOf(h, seals) ==
  Address([t |-> "ixn", d |-> Placeholder, i |-> h.prefix, s |-> h.sn + 1, p |-> h.last_said,
           a |-> seals])

InteractedHab(h, seals) ==
  [h EXCEPT !.last_said = InteractionOf(h, seals).d, !.sn = h.sn + 1]

----------------------------------------------------------------------------
(* Receipts.                                                               *)

\* Faulty variant: the couple names the Hab, whose prefix is a digest
ReceiptCouplesByPrefix(h, e) ==
  IF h.transferable THEN {} ELSE {[w |-> h.prefix, of |-> e.d]}

\* Hab::receipt of a non-transferable Hab: a couple that names its key, which
\* is what a witness is listed by
ReceiptCouples(h, e) ==
  IF h.transferable THEN {} ELSE {[w |-> h.signers[1], of |-> e.d]}

\* Hab::receipt of a transferable Hab: indexed signatures, without its prefix
ReceiptSigs(h) == IF h.transferable THEN SignAll(h.signers) ELSE {}

\* The body of an rct message names the place of the event, not its SAID
ReceiptBody(e) == Address([t |-> "rct", d |-> Placeholder, i |-> e.i, s |-> e.s])

ReceiptMessage(h, e) ==
  [ev |-> ReceiptBody(e), sigs |-> ReceiptSigs(h), couples |-> ReceiptCouples(h, e),
   opaque |-> FALSE]

\* Only non-transferable Habs can be witnesses
MayWitness(habs) == \A h \in habs : ~h.transferable

CollectWitnessReceipts(e, habs) == UNION {ReceiptCouples(h, e) : h \in habs}

----------------------------------------------------------------------------
(* Hab::state and Hab::resume.                                             *)

StateOf(h) ==
  [prefix |-> h.prefix, transferable |-> h.transferable,
   signer_gen |-> h.signer_gen, signer_count |-> Len(h.signers),
   next_gen |-> h.next_gen, next_count |-> Len(h.next_signers),
   key_gen |-> h.key_gen, last_said |-> h.last_said, sn |-> h.sn,
   backer_threshold |-> h.backer_threshold, backers |-> h.backers]

Resumed(st) ==
  [prefix |-> st.prefix, transferable |-> st.transferable,
   signers |-> Signers(st.signer_gen, st.signer_count),
   next_signers |-> Signers(st.next_gen, st.next_count),
   last_said |-> st.last_said, sn |-> st.sn, key_gen |-> st.key_gen,
   signer_gen |-> st.signer_gen, next_gen |-> st.next_gen,
   backer_threshold |-> st.backer_threshold, backers |-> st.backers]
=============================================================================
