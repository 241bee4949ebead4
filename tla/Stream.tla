------------------------------- MODULE Stream -------------------------------
(***************************************************************************)
(* Composing and parsing a stream of messages with their attachments       *)
(* (affinidi-keri-core/src/composer.rs, parser.rs, Serder::from_raw).      *)
(*                                                                         *)
(* A stream is a sequence of units of one quadlet: a counter is one unit,  *)
(* a body or a primitive two, a head and a tail, so that a count or a cut  *)
(* can end inside of one.  Of a body only what decides how the stream is   *)
(* cut is kept: the major version (0 where no version string stands near   *)
(* its start), whether its text is ASCII, and whether it is JSON rather    *)
(* than CBOR or MessagePack.  Primitives inside of a group are of the kind *)
(* the group calls for; only how many there are may be wrong.              *)
(***************************************************************************)
EXTENDS CounterTable, Sequences, SequencesExt

CONSTANTS MaxAttachmentCount,  \* MAX_ATTACHMENT_COUNT, 4096 in the code
          Sendings,            \* the sequences of messages that may be sent
          MaxCut               \* bound: units missing at the end of a stream

ASSUME StreamBoundsAssumption == MaxAttachmentCount \in Nat /\ MaxCut \in Nat

Wrapper == "AttachedMaterialQuadlets"

IsList(l) == l \in Seq(ToSet(l))

\* A group has the count n that it declares.  A wrapper wraps the groups that
\* follow it, as many as g.wraps, which may be wrappers themselves.
IsGroup(g) ==
  /\ g.n \in Nat
  /\ CASE g.kind = Wrapper -> g.wraps \in Nat
       [] g.kind = "TransIdxSigGroups" ->
            /\ IsList(g.groups)
            /\ \A j \in DOMAIN g.groups :
                 /\ g.groups[j] = [anchor |-> g.groups[j].anchor, sigs |-> g.groups[j].sigs]
                 /\ IsList(g.groups[j].anchor) /\ Len(g.groups[j].anchor) = 3
                 /\ IsList(g.groups[j].sigs)
       [] OTHER -> IsList(g.items)

WrappersNest(gs) ==
  LET last(j) == j + gs[j].wraps
  IN  \A j \in DOMAIN gs :
        gs[j].kind = Wrapper =>
          /\ last(j) <= Len(gs)
          /\ \A k \in (j + 1)..last(j) : gs[k].kind = Wrapper => last(k) <= last(j)

\* A message has a body, groups, and a gap if white space follows.  CBOR and
\* MessagePack are no ASCII: the first byte of a map is above 0x7f.
ASSUME SendingsAssumption ==
  \A ms \in Sendings :
    /\ IsList(ms)
    /\ \A j \in DOMAIN ms :
         /\ IsList(ms[j].groups) /\ WrappersNest(ms[j].groups)
         /\ \A k \in DOMAIN ms[j].groups : IsGroup(ms[j].groups[k])
         /\ ms[j].body.major \in Nat
         /\ ms[j].body.ascii => ms[j].body.json

VARIABLES sent,      \* the messages, as they were meant
          stream,    \* what arrives of them
          strict,    \* parse_all rather than parse_all_lenient
          offset,    \* the next unit to read
          messages,  \* the messages parsed
          result     \* "running", "done" or "error"

vars == <<sent, stream, strict, offset, messages, result>>

----------------------------------------------------------------------------
(* Composing.                                                              *)

Units(kind, ids) ==
  FlattenSeq([j \in DOMAIN ids |-> <<[u |-> kind, x |-> ids[j]], [u |-> "tail"]>>])

Idx == {"ControllerIdxSigs", "WitnessIdxSigs"}
Couples == {"NonTransReceiptCouples", "FirstSeenReplayCouples", "SealSourceCouples"}

Counter(kind, n, table) == <<[u |-> "counter", code |-> CodeOf(kind, table), n |-> n]>>

ComposeSigned(signed, table) ==
  Units("matter", signed.anchor)
    \o Counter("ControllerIdxSigs", Len(signed.sigs), table) \o Units("indexed", signed.sigs)

\* Unmodelled has a code that neither table lists.
ComposeGroup(g, table) ==
  Counter(g.kind, g.n, table) \o
    CASE g.kind = Wrapper -> <<>>
      [] g.kind = "TransIdxSigGroups" ->
           FlattenSeq([j \in DOMAIN g.groups |-> ComposeSigned(g.groups[j], table)])
      [] g.kind \in Idx -> Units("indexed", g.items)
      [] OTHER -> Units("matter", g.items)

ComposeGroups(gs, table) == FlattenSeq([j \in DOMAIN gs |-> ComposeGroup(gs[j], table)])

Compose(m) ==
  Units("body", <<m.body>>) \o ComposeGroups(m.groups, TableFromMajor(m.body.major))
    \o (IF m.gap THEN <<[u |-> "space"]>> ELSE <<>>)

ComposeAll(ms) == FlattenSeq([j \in DOMAIN ms |-> Compose(ms[j])])

----------------------------------------------------------------------------
(* Parsing.  An error is Failed, a success what was read and where it ends.*)
(* parse_attachments and parse_trans_idx_sig_groups call each other further*)
(* on in the stream: they are the two halves of one function of the place, *)
(* which is passed to them as later.                                       *)

Failed == [ok |-> FALSE]

Ascii(unit) == unit.u = "body" => unit.x.ascii

\* Faulty variant: something has to follow the last primitive
StandBefore(s, at, to, kinds) ==
  /\ at + 2 * Len(kinds) - 1 < to
  /\ \A j \in DOMAIN kinds : s[at + 2 * (j - 1)].u = kinds[j]

\* The primitives of the given kinds stand at s[at] and end by to
Stand(s, at, to, kinds) ==
  /\ at + 2 * Len(kinds) - 1 <= to
  /\ \A j \in DOMAIN kinds : s[at + 2 * (j - 1)].u = kinds[j]

ItemsAt(s, at, n) == [j \in 1..n |-> s[at + 2 * (j - 1)].x]

\* parse_indexed_sigs, parse_qb64_pairs, parse_receipt_couples
ParseItems(s, at, to, kind, n) ==
  LET size == IF kind \in Idx THEN n ELSE 2 * n
      unit == IF kind \in Idx THEN "indexed" ELSE "matter"
  IN  IF n <= MaxAttachmentCount /\ Stand(s, at, to, [j \in 1..size |-> unit])
      THEN [ok |-> TRUE, next |-> at + 2 * size,
            atts |-> <<[kind |-> kind, items |-> ItemsAt(s, at, size)]>>]
      ELSE Failed

\* Faulty variant: what cannot be interpreted is passed over
UninterpretedSkipped(s, at, to) == [ok |-> TRUE, next |-> to + 1, atts |-> <<>>]

\* A code that cannot be interpreted ends a lenient parse of the attachments
Uninterpreted(s, at, to) ==
  [ok |-> TRUE, next |-> to + 1,
   atts |-> <<[kind |-> "Unknown", raw |-> SubSeq(s, at, to)]>>]

\* parse_attachments from at to to, and parse_trans_idx_sig_groups with so many
\* groups left
AttachmentsFrom(at, to) == [what |-> "attachments", at |-> at, to |-> to, left |-> 0]
GroupsFrom(at, to, n) == [what |-> "groups", at |-> at, to |-> to, left |-> n]

Calls(s) ==
  {call \in [what : {"attachments", "groups"}, at : 1..(Len(s) + 1), to : 0..Len(s), left : Nat] :
     call.at <= call.to + 1}

\* n anchors, each followed by attachments of which only controller signatures
\* are allowed
ParseTransGroups(later, s, at, to, n) ==
  IF n = 0 THEN [ok |-> TRUE, next |-> at, groups |-> <<>>]
  ELSE IF ~Stand(s, at, to, <<"matter", "matter", "matter">>) THEN Failed
  ELSE LET inner == later[AttachmentsFrom(at + 6, to)]
           sigs  == FlattenSeq([j \in DOMAIN inner.atts |-> inner.atts[j].items])
           rest  == later[GroupsFrom(inner.next, to, n - 1)]
       IN  IF /\ inner.ok
              /\ \A j \in DOMAIN inner.atts : inner.atts[j].kind = "ControllerIdxSigs"
              /\ sigs # <<>>
              /\ rest.ok
           THEN [ok |-> TRUE, next |-> rest.next,
                 groups |-> <<[anchor |-> ItemsAt(s, at, 3), sigs |-> sigs]>> \o rest.groups]
           ELSE Failed

\* Faulty variant: whatever of the span is left over is passed over
FitsSpan(inner, end) == inner.ok /\ inner.next <= end + 1

\* The contents must fill the span declared, to the unit
FillsSpan(inner, end) == inner.ok /\ inner.next = end + 1

ParseWrapped(later, at, to, n) ==
  LET end   == at + n - 1
      inner == later[AttachmentsFrom(at, end)]
  IN  IF end <= to /\ FillsSpan(inner, end)
      THEN [ok |-> TRUE, next |-> end + 1, atts |-> inner.atts]
      ELSE Failed

\* One turn of the loop of parse_attachments: the group of a counter
ParseGroup(later, s, at, to, table, strictly) ==
  LET kind  == Classify(s[at].code, table)
      n     == s[at].n
      trans == later[GroupsFrom(at + 1, to, n)]
  IN CASE kind \in {"None", "TransReceiptQuadruples"} ->
            IF strictly THEN Failed ELSE Uninterpreted(s, at + 1, to)
       [] kind = Wrapper -> ParseWrapped(later, at + 1, to, n)
       [] kind = "TransIdxSigGroups" ->
            IF n <= MaxAttachmentCount /\ trans.ok
            THEN [ok |-> TRUE, next |-> trans.next,
                  atts |-> <<[kind |-> kind, groups |-> trans.groups]>>]
            ELSE Failed
       [] OTHER -> ParseItems(s, at + 1, to, kind, n)

\* Groups as long as counters follow.  All that is left of the stream has to be
\* ASCII before a counter is read.
ParseAttachments(later, s, at, to, table, strictly) ==
  IF at > to \/ s[at].u # "counter" THEN [ok |-> TRUE, next |-> at, atts |-> <<>>]
  ELSE LET first == ParseGroup(later, s, at, to, table, strictly)
           rest  == later[AttachmentsFrom(first.next, to)]
       IN  IF (\A j \in at..to : Ascii(s[j])) /\ first.ok /\ rest.ok
           THEN [ok |-> TRUE, next |-> rest.next, atts |-> first.atts \o rest.atts]
           ELSE Failed

ParseCall(later, s, call, table, strictly) ==
  IF call.what = "attachments"
  THEN ParseAttachments(later, s, call.at, call.to, table, strictly)
  ELSE ParseTransGroups(later, s, call.at, call.to, call.left)

Parsed(s, table, strictly) ==
  LET parsed[call \in Calls(s)] == ParseCall(parsed, s, call, table, strictly)
  IN  parsed

\* The bodies and primitives of a piece of stream
Material(units) ==
  FlattenSeq([j \in DOMAIN units |->
    IF units[j].u \in {"body", "matter", "indexed"} THEN <<units[j].x>> ELSE <<>>])

\* Serder::from_raw: without a version string all that is left is the body, and
\* JSON has to end where the stream does
BodyStands(s, at) ==
  /\ s[at].u = "body"
  /\ at + 1 <= Len(s)
  /\ s[at].x.major = 0 /\ s[at].x.json => \A j \in (at + 2)..Len(s) : s[j].u = "space"

\* What goes into raw behind the body: CBOR and MessagePack are read to the end
\* of one value, and nobody looks at the rest
RestInRaw(s, at) == IF s[at].x.major = 0 THEN Material(SubSeq(s, at + 2, Len(s))) ELSE <<>>

\* parse_next
ParseNext(s, at, strictly) ==
  IF ~BodyStands(s, at) THEN Failed
  ELSE LET major == s[at].x.major
           from  == IF major = 0 THEN Len(s) + 1 ELSE at + 2
           r     == Parsed(s, TableFromMajor(major), strictly)[AttachmentsFrom(from, Len(s))]
       IN  IF r.ok
           THEN [ok |-> TRUE, next |-> r.next,
                 message |-> [body |-> s[at].x, unread |-> RestInRaw(s, at), attachments |-> r.atts]]
           ELSE Failed

----------------------------------------------------------------------------
(* parse_all: one message at a time, white space in between.               *)

Init ==
  /\ sent \in Sendings
  /\ \E cut \in 0..MaxCut : LET whole == ComposeAll(sent)
                            IN  stream = SubSeq(whole, 1, Len(whole) - cut)
  /\ strict \in BOOLEAN
  /\ offset = 1
  /\ messages = <<>>
  /\ result = "running"

\* The first unit from j on that is not white space
FirstFrom(j) ==
  CHOOSE k \in j..(Len(stream) + 1) :
    /\ k <= Len(stream) => stream[k].u # "space"
    /\ \A i \in j..(k - 1) : stream[i].u = "space"

ParseMessage ==
  /\ result = "running"
  /\ FirstFrom(offset) <= Len(stream)
  /\ LET r == ParseNext(stream, FirstFrom(offset), strict)
     IN  IF r.ok
         THEN /\ messages' = Append(messages, r.message)
              /\ offset' = r.next
              /\ UNCHANGED result
         ELSE /\ messages' = <<>>
              /\ result' = "error"
              /\ UNCHANGED offset
  /\ UNCHANGED <<sent, stream, strict>>

Finish ==
  /\ result = "running"
  /\ FirstFrom(offset) > Len(stream)
  /\ result' = "done"
  /\ UNCHANGED <<sent, stream, strict, offset, messages>>

Next == ParseMessage \/ Finish

Spec == Init /\ [][Next]_vars

----------------------------------------------------------------------------
(* Properties.                                                             *)

ContentOf(att) ==
  CASE att.kind = "TransIdxSigGroups" ->
         FlattenSeq([j \in DOMAIN att.groups |-> att.groups[j].anchor \o att.groups[j].sigs])
    [] att.kind = "Unknown" -> Material(att.raw)
    [] OTHER -> att.items

Contents(message) ==
  <<message.body>> \o message.unread
    \o FlattenSeq([k \in DOMAIN message.attachments |-> ContentOf(message.attachments[k])])

\* Whatever counts are declared, each body and primitive of a stream that is
\* accepted is in the result, once, under the body it follows (parser.rs, "so a
\* wrapper cannot swallow the groups it contains").  One body only can take what
\* follows it without anybody reading it: the last one, when it is not JSON and
\* has no version string at its start.
NothingLost ==
  result = "done" =>
    /\ Material(stream) = FlattenSeq([j \in DOMAIN messages |-> Contents(messages[j])])
    /\ \A j \in DOMAIN messages :
         messages[j].unread # <<>> =>
           j = Len(messages) /\ messages[j].body.major = 0 /\ ~messages[j].body.json

Uninterpretable(message) ==
  \E j \in DOMAIN message.attachments : message.attachments[j].kind = "Unknown"

\* A lenient parse that reports no uninterpreted attachments is what the strict
\* one gives, so that has_uninterpreted_attachments is all a verifier has to ask
\* of it (documentation of parse_next_lenient).
LenientIsStrictWhenInterpreted ==
  LET at == FirstFrom(offset)
      strictly == ParseNext(stream, at, TRUE)
      leniently == ParseNext(stream, at, FALSE)
  IN  at <= Len(stream) =>
        IF leniently.ok /\ ~Uninterpretable(leniently.message)
        THEN strictly = leniently ELSE ~strictly.ok

\* The attachments that groups are meant as, a wrapper being none
Attached(g) ==
  IF g.kind = "TransIdxSigGroups" THEN [kind |-> g.kind, groups |-> g.groups]
  ELSE [kind |-> g.kind, items |-> g.items]

Meant(gs) ==
  FlattenSeq([j \in DOMAIN gs |-> IF gs[j].kind = Wrapper THEN <<>> ELSE <<Attached(gs[j])>>])

\* The count is right and within the limit, and the parser knows the group
Counted(gs, j, table) ==
  LET g == gs[j]
  IN CASE g.kind = Wrapper ->
            g.n = Len(ComposeGroups(SubSeq(gs, j + 1, j + g.wraps), table))
       [] g.kind = "TransIdxSigGroups" ->
            /\ g.kind \in DOMAIN Codes[table]
            /\ g.n = Len(g.groups) /\ g.n <= MaxAttachmentCount
            /\ \A k \in DOMAIN g.groups : Len(g.groups[k].sigs) \in 1..MaxAttachmentCount
       [] g.kind \in Idx -> g.n = Len(g.items) /\ g.n <= MaxAttachmentCount
       [] g.kind \in Couples -> 2 * g.n = Len(g.items) /\ g.n <= MaxAttachmentCount
       [] OTHER -> FALSE

\* No counter follows the signatures of a transferable group directly: it is the
\* last group, or the last of a wrapper
TransGroupsLast(gs) ==
  \A j \in DOMAIN gs :
    gs[j].kind = "TransIdxSigGroups" =>
      j = Len(gs) \/ \E w \in 1..(j - 1) : gs[w].kind = Wrapper /\ w + gs[w].wraps = j

\* What the parser asks of a stream besides right counts: ASCII text after the
\* first attachment, a version string wherever something follows
Readable(ms) ==
  /\ \A j, l \in DOMAIN ms : j < l /\ ms[j].groups # <<>> => ms[l].body.ascii
  /\ \A j \in DOMAIN ms : ms[j].body.major = 0 => j = Len(ms) /\ ms[j].groups = <<>>

Faithful(ms) ==
  /\ Readable(ms)
  /\ \A j \in DOMAIN ms :
       /\ TransGroupsLast(ms[j].groups)
       /\ \A k \in DOMAIN ms[j].groups :
            Counted(ms[j].groups, k, TableFromMajor(ms[j].body.major))

\* Composing and parsing agree: a stream with right counts is accepted in both
\* modes, of either version or mixed, and each attachment is found as it was
\* meant, in its message (composer.rs, "Composing and parsing must agree").
ComposedIsParsed ==
  Faithful(sent) /\ stream = ComposeAll(sent) =>
    /\ result # "error"
    /\ result = "done" =>
         messages = [j \in DOMAIN sent |-> [body |-> sent[j].body, unread |-> <<>>,
                                            attachments |-> Meant(sent[j].groups)]]
=============================================================================
