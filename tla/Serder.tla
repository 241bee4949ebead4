------------------------------- MODULE Serder -------------------------------
(***************************************************************************)
(* How a message is serialized so that it says its own size and its own    *)
(* digest, and how it is cut out of a stream again: version strings        *)
(* (affinidi-keri-core/src/version.rs), SAIDs (said.rs), Serder            *)
(* (serder.rs) and fix_version_string (affinidi-keri/src/hab.rs).          *)
(*                                                                         *)
(* The fields of a message are a record (the code: its SAD).  Of its bytes *)
(* only lengths are kept: lead bytes before the text of the field v, and   *)
(* rest bytes besides v, d and i.  A digest holds what it was computed     *)
(* from, which makes it injective.                                         *)
(***************************************************************************)
EXTENDS Naturals, Sequences

CONSTANTS VersionFixed,  \* the length of a version text without its size, 11
          SizeDigits,    \* the digits of the size, 6
          Radix,         \* 16
          Window,        \* VERSION_SEARCH_WINDOW, 32
          SaidLen        \* the length of an identifier, 44

ASSUME SizesAssumption ==
  /\ VersionFixed \in Nat /\ SizeDigits \in Nat \ {0} /\ Radix \in Nat \ {0, 1}
  /\ Window \in Nat /\ SaidLen \in Nat \ {0}

\* The length of the four letters of a protocol
TagLen == 4

----------------------------------------------------------------------------
(* Version strings.  A text that is no version string is junk of a length. *)

Version == [protocol : {"KERI", "ACDC"}, kind : {"JSON", "CBOR", "MGPK"}, size : Nat]

NoVersion == [protocol |-> "none", kind |-> "none", size |-> 0]

DefaultV1(kind, size) == [protocol |-> "KERI", kind |-> kind, size |-> size]

\* How many numbers n digits can say
Capacity(n) ==
  LET power[k \in 0..n] == IF k = 0 THEN 1 ELSE power[k - 1] * Radix
  IN  power[n]

\* {:06x}: padded to SizeDigits, longer when the size needs more
Digits(size) ==
  IF size < Capacity(SizeDigits) THEN SizeDigits
  ELSE CHOOSE n \in (SizeDigits + 1)..(SizeDigits + size) :
         Capacity(n - 1) <= size /\ size < Capacity(n)

VersionText(version) == [version |-> version, len |-> VersionFixed + Digits(version.size)]

Junk(len) == [version |-> NoVersion, len |-> len]

\* The first VersionFixed + SizeDigits characters have to be the whole text:
\* after a longer size the terminator is missed
ParseVersion(text) ==
  IF text.len = VersionFixed + SizeDigits THEN text.version ELSE NoVersion

----------------------------------------------------------------------------
(* Serialization and SAIDs.                                                *)

\* An empty field d or i, and the placeholder "####...", SaidLen long
Empty == <<>>

Hashes == <<"#">>

FieldLen(id) == IF id = Empty THEN 0 ELSE SaidLen

TextType == [version : Version \cup {NoVersion}, len : Nat]

\* v is a sequence of at most one text
IsSad(sad) ==
  /\ sad = [lead |-> sad.lead, v |-> sad.v, d |-> sad.d, i |-> sad.i, rest |-> sad.rest]
  /\ sad.lead \in Nat /\ sad.rest \in Nat
  /\ Len(sad.v) <= 1 /\ sad.v \in Seq(TextType)

Length(sad) ==
  sad.lead + (IF sad.v = <<>> THEN 0 ELSE sad.v[1].len) + FieldLen(sad.d) + FieldLen(sad.i)
    + sad.rest

\* d is replaced, and i when it was the same
WithPlaceholders(sad, id) == [sad EXCEPT !.d = id, !.i = IF sad.i = sad.d THEN id ELSE @]

Digest(sad) == <<"digest", sad>>

ComputeSaid(sad) == WithPlaceholders(sad, Digest(WithPlaceholders(sad, Hashes)))

VerifySaid(sad) == ComputeSaid(sad).d = sad.d

\* The size is that of the message with its SAID in place
FixVersionString(sad) ==
  LET size == Length(WithPlaceholders(sad, Hashes))
  IN  [sad EXCEPT !.v = <<VersionText(DefaultV1("JSON", size))>>]

----------------------------------------------------------------------------
(* Serder.  raw is the number of bytes of the message.                     *)

Embed(sad, version) == [sad EXCEPT !.v = <<VersionText(version)>>]

SerderNew(sad, kind) ==
  IF sad.v = <<>> THEN [version |-> NoVersion, kind |-> kind, sad |-> sad, raw |-> Length(sad)]
  ELSE LET old     == ParseVersion(sad.v[1])
           version == IF old = NoVersion THEN DefaultV1(kind, Length(sad))
                      ELSE [old EXCEPT !.size = Length(sad)]
           final   == [version EXCEPT !.size = Length(Embed(sad, version))]
       IN  [version |-> final, kind |-> kind, sad |-> Embed(sad, final),
            raw |-> Length(Embed(sad, final))]

\* Faulty variant: the whole stream is searched, for KERI first
ExtractVersionAnywhere(stream) ==
  LET hits  == {n \in DOMAIN stream : stream[n].sad.v # <<>>}
      keri  == {n \in hits : stream[n].version.protocol = "KERI"}
      First(S) == CHOOSE n \in S : \A m \in S : n <= m
  IN  IF hits = {} THEN NoVersion
      ELSE ParseVersion(stream[First(IF keri = {} THEN hits ELSE keri)].sad.v[1])

\* The sum of the first n of a list of numbers, for every n
Sums(numbers) ==
  LET sum[n \in 0..Len(numbers)] == IF n = 0 THEN 0 ELSE sum[n - 1] + numbers[n]
  IN  sum

\* How many bytes of a stream the first n messages are, for every n
BytesTo(stream) == Sums([n \in DOMAIN stream |-> stream[n].raw])

\* The version string of the message a stream starts with, if its tag is within
\* the window.  A shorter message lets the next one into the window.
ExtractVersion(stream) ==
  LET hits == {n \in DOMAIN stream :
                 stream[n].sad.v # <<>>
                 /\ BytesTo(stream)[n - 1] + stream[n].sad.lead + TagLen <= Window}
  IN  IF hits = {} THEN NoVersion
      ELSE ParseVersion(stream[CHOOSE n \in hits : \A m \in hits : n <= m].sad.v[1])

Unreadable == [read |-> FALSE]

\* deserialize_value: JSON has to end where the size says; the decoders of CBOR
\* and MessagePack stop at the end of the first value and leave the rest
DecodesFrom(message, len) ==
  IF message.kind = "JSON" THEN len = message.raw ELSE len >= message.raw

FromRaw(stream) ==
  LET total   == BytesTo(stream)[Len(stream)]
      found   == ExtractVersion(stream)
      msgLen  == IF found = NoVersion THEN total ELSE found.size
      first   == stream[1]
      inBody  == IF first.sad.v = <<>> THEN NoVersion ELSE ParseVersion(first.sad.v[1])
  IN  IF msgLen > total \/ ~DecodesFrom(first, msgLen) THEN Unreadable
      ELSE [read |-> TRUE, sad |-> first.sad, kind |-> first.kind, raw |-> msgLen,
            version |-> IF found = NoVersion THEN inBody ELSE found]
=============================================================================
