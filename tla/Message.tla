------------------------------ MODULE Message ------------------------------
(***************************************************************************)
(* The life of one message.  A maker serializes it, as Hab does            *)
(* (affinidi-keri/src/hab.rs) or as any user of Serder; signers and        *)
(* witnesses attach signatures and receipts one by one, others attach what *)
(* is none; a verifier cuts it out of a stream and counts what came with   *)
(* it (affinidi-keri-core/src/kever.rs).  Reading and counting change      *)
(* nothing: they are asked at every point.                                 *)
(***************************************************************************)
EXTENDS Serder, Signatures, ThresholdJson

CONSTANTS Cases,     \* what the message is, see case
          Bytes,     \* the bytes of the event, for what is signed
          AnySigs(_),     \* signatures that may be attached in a case
          AnyCouples(_),  \* receipts that may be attached in a case
          MaxSigs,   \* bound: signatures attached
          MaxCouples,  \* bound: receipts attached
          Followers, \* what may follow in the stream: sequences of Serders
          NotMade

\* Lists are lists, and signatures are at places
ASSUME CasesAssumption ==
  \A c \in Cases :
    /\ c.field \in JsonField /\ c.bt \in Nat
    /\ \A list \in {c.keys, c.backers, c.signers} : list \in Seq(ToSet(list))
    /\ \A sig \in AnySigs(c) : sig.index \in Nat \ {0}
    /\ IsSad(c.draft) /\ c.kind \in {"JSON", "CBOR", "MGPK"}

\* What hab.rs fills in holds a version string of size 0, and no event holds its
\* own digest before it is put there
ASSUME HabDraftsAssumption ==
  \A c \in Cases :
    c.maker = "hab" =>
      /\ c.draft.v = <<VersionText(DefaultV1("JSON", 0))>>
      /\ LET fixed == FixVersionString(c.draft)
         IN  fixed.i = fixed.d \/ fixed.i # ComputeSaid(fixed).d

ASSUME FollowersAssumption ==
  \A following \in Followers :
    /\ following \in Seq(ToSet(following))
    /\ \A n \in DOMAIN following : following[n].raw \in Nat

\* case.maker "hab" or "serder", case.draft the fields it starts from and
\* case.kind the encoding; case.field the JSON threshold; case.signers and the
\* keys they are listed by; case.backers and case.bt; case.tidy when the signers
\* just sign, each once, in the order of their indices.
VARIABLES case, event, sigs, couples

vars == <<case, event, sigs, couples>>

Init == case \in Cases /\ event = NotMade /\ sigs = <<>> /\ couples = <<>>

\* Hab::incept and its like, or Serder::new alone
Make ==
  /\ event = NotMade
  /\ event' = IF case.maker = "hab"
              THEN SerderNew(ComputeSaid(FixVersionString(case.draft)), "JSON")
              ELSE SerderNew(case.draft, case.kind)
  /\ UNCHANGED <<case, sigs, couples>>

\* sign_indexed by the signer of each key
OwnSig(j) == SignIndexed(case.signers[j], Bytes, j, TRUE)

Attach(sig) ==
  /\ sigs' = Append(sigs, sig)
  /\ UNCHANGED <<case, event, couples>>

AttachOwn ==
  /\ event # NotMade /\ case.tidy
  /\ \E j \in DOMAIN case.signers :
       (\A n \in DOMAIN sigs : sigs[n].index < j) /\ Attach(OwnSig(j))

AttachAny ==
  /\ event # NotMade /\ ~case.tidy /\ Len(sigs) < MaxSigs
  /\ \E sig \in AnySigs(case) : Attach(sig)

AttachCouple ==
  /\ event # NotMade /\ Len(couples) < MaxCouples
  /\ \E couple \in AnyCouples(case) : couples' = Append(couples, couple)
  /\ UNCHANGED <<case, event, sigs>>

Next == Make \/ AttachOwn \/ AttachAny \/ AttachCouple

Spec == Init /\ [][Next]_vars

----------------------------------------------------------------------------
(* What the verifier answers.                                              *)

Kt == FromJsonValue(case.field)

\* An event whose kt is not read is no event
Accepted ==
  event # NotMade /\ Kt # Invalid /\ VerifySigsStatic(Bytes, sigs, case.keys, Kt) = "Ok"

Receipted == VerifyWitnessReceiptsStatic(Bytes, couples, case.backers, case.bt)

----------------------------------------------------------------------------
(* Properties.                                                             *)

\* Is the size within what the version string can say, also with the text that
\* stood in its place before?
Fits ==
  /\ event.version.size < Capacity(SizeDigits)
  /\ case.maker # "hab" => Length(case.draft) < Capacity(SizeDigits)

\* A message that says its size early and in SizeDigits digits is cut out of a
\* stream as it was made, whatever follows it, and a Hab's still has the SAID
\* it was given before its size was filled in.  Whatever JSON is read, no byte
\* of the next message is taken with it ("a message could also steer how much
\* of the buffer a different message was read from").
ReadsAsMade ==
  event # NotMade =>
    \A following \in Followers :
      LET got == FromRaw(<<event>> \o following)
      IN  /\ (event.sad.v # <<>> /\ Fits /\ event.sad.lead + TagLen <= Window) =>
               /\ got.read /\ got.sad = event.sad
               /\ got.raw = event.raw /\ got.version = event.version
               /\ case.maker = "hab" => VerifySaid(got.sad)
          /\ got.read /\ event.kind = "JSON" => got.raw = event.raw

\* The keys with a valid signature
ValidIndices ==
  {j \in DOMAIN case.keys :
     \E n \in DOMAIN sigs :
       sigs[n].index = j /\ Verify(case.keys[j], Bytes, sigs[n].raw) = "valid"}

\* Is there a key or signature, of those that are looked at, that cannot be parsed?
SomeSigFails ==
  \/ \E j \in DOMAIN case.keys : ~IsVerfer(case.keys[j])
  \/ \E n \in DOMAIN sigs :
       sigs[n].index \in DOMAIN case.keys
       /\ Verify(case.keys[sigs[n].index], Bytes, sigs[n].raw) = "error"

\* Repeated, foreign, misplaced and invalid signatures neither count nor hurt,
\* in whatever order they come: the loop answers as if it were given the set of
\* the keys that signed, unless something cannot be parsed, which fails the
\* whole event wherever it stands in the list.
SigsCountedOnce ==
  event # NotMade =>
    (Accepted <=> ~SomeSigFails /\ IsSatisfied(Kt, ValidIndices, Len(case.keys)))

\* The backers with a valid receipt
ValidBackers ==
  {p \in ToSet(case.backers) :
     \E n \in DOMAIN couples :
       couples[n].prefix = p /\ IsVerfer(p) /\ Verify(p, Bytes, couples[n].raw) = "valid"}

\* Receipts of others and repetitions neither count nor hurt: an event is
\* receipted only when as many different backers as the threshold says have
\* signed it, and always when all receipts of backers can be parsed.
ReceiptsCountedOnce ==
  event # NotMade =>
    /\ Receipted = "Ok" => Cardinality(ValidBackers) >= case.bt
    /\ (/\ Cardinality(ValidBackers) >= case.bt
        /\ \A n \in DOMAIN couples :
             couples[n].prefix \in ToSet(case.backers) =>
               /\ IsVerfer(couples[n].prefix)
               /\ Verify(couples[n].prefix, Bytes, couples[n].raw) # "error")
       => Receipted = "Ok"

\* A threshold that was read and is written again, as serde does with the events
\* a verifier keeps, is read as the same threshold.
ThresholdReadBack ==
  Kt # Invalid => FromJsonValue(ToJsonValue(Kt)) = Kt
=============================================================================
