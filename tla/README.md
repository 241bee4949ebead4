# Models of affinidi-keri-rs

TLA+ models of the key event logic of affinidi-keri-rs: what a verifier accepts,
what the Judge calls duplicity, how a controller signs and resumes, what the
store keeps through a crash, and how messages are made, signed, cut and read. TLC checks small instances, TLAPS proves the theorems
listed below for all values of the constants.

    tlc -workers 2 -config JudgeFirstSeen.cfg MCJudge.tla
    tlapm JudgeProofs.tla

`PROJECT.json` holds the list of runs, the lines of the source that every
definition stands for, the faulty variants each property is told apart by, and
the hazards of the code.

## The system

Four crates. `affinidi-keri-crypto` wraps signatures, digests and derivation and
keeps no state. `affinidi-keri-core` holds the protocol; `affinidi-keri-db` the
event store; `affinidi-keri` the two ends, controller and verifier.

| Component | State | Operations | What is hard | What makes it correct |
| --- | --- | --- | --- | --- |
| `threshold.rs` | none | `is_satisfied` | sums of fractions in u64 | never met below the threshold; exact where the sums fit |
| `event.rs`, `seal.rs`, `said.rs` | none | event bodies, SAIDs | digests bind an event to its place | a SAID names one body |
| `key_state.rs`, `kever.rs` | one `KeyState` per identifier | inception, rotation, interaction, witness receipts | forks, gaps, repeats, abandoned identifiers | logs are hash chains; rotations reveal what was committed to; the last SAID determines the state |
| `delegation.rs` | none; reads the delegator's log | `dip` and `drt` | the two logs advance in any order | a delegated event is anchored by its delegator |
| `direct.rs` | Kevers in memory | `process_parsed` | memory and store; restart | store and memory agree; a log is never rewritten |
| `store.rs`, `lmdb.rs` | tables on disk | upserts in transactions, scans, `sync` | every put replaces; crashes under relaxed options | whole transactions, lost from the end only; logs read back whole |
| `judge.rs` | Kevers, `duplicitous`, `del` | `process`, verdicts | answers out of two states of which one is lost at a restart | the first-seen policy; sound evidence |
| `hab.rs`, `habery.rs` | signers, generations, last SAID | incept, rotate, interact, state, resume, receipt | resumption, failing store | never two events at one number; signs as an unbroken Hab would |
| `escrow.rs` | three maps | add, process, promote, prune | limits and ages | bounded; keeps what is young; promotes what is witnessed |
| `parser.rs`, `counter_table.rs`, `composer.rs` | none | compose and parse streams of messages with attachments | counts, wrappers and codes decide where everything after them stands | nothing lost; read as it was composed |
| `serder.rs`, `version.rs` | none | serialisation, version strings | a message says its own size; another message may follow | cut out of a stream as it was made |
| crypto crate | none | sign, verify, derive | errors among invalid signatures | counted once, whatever else is attached |

Messages flow from a `Hab` through `Composer` and the network to `parser` and
then `process_parsed` or `Judge::process`, which call a `Kever` (with
`KeyState`, `Threshold`, `said`) and the store. `Kever::new_delegated` and
`verify_update_delegated` ask the embedder for the delegator's verified events
through the trait `DelegatorAnchors`. Nothing in the code is concurrent: each
call runs to its end. What interleaves are messages, restarts, several verifiers
and the embedder's calls.

## Modules

| Module | Models | Remarks |
| --- | --- | --- |
| `Threshold`, `ThresholdJson` | `threshold.rs` | pure; the machine words are the constants `U64Max` and `U32Max` |
| `Signatures` | the crypto crate and the loops of `kever.rs` over signatures and receipts | pure |
| `Serder` | `serder.rs`, `version.rs`, `said.rs`, `fix_version_string` | pure; lengths of fields instead of bytes |
| `Message` | one message: made, signed, receipted, read | state machine over the three above |
| `KeyState` | `key_state.rs` and the checks of `kever.rs` on one event | pure |
| `KeyEvent` | `event.rs`, verification of one message by a Kever | pure; assumes SAIDs are binding |
| `Kever` | several verifiers, delegation included | state machine |
| `Direct` | `direct.rs` with the tables it writes | state machine |
| `FirstSeen` | the first-seen policy | abstract specification |
| `Judge` | `judge.rs` on top of `Direct` | implements `FirstSeen` |
| `Hab` | events, states and receipts of `hab.rs` | pure |
| `Controller` | `Hab`, `Habery`, witnesses, an unreliable network, and `Direct` | state machine, three environments |
| `KeriStore` | the trait `KeriStore` | abstract specification |
| `LmdbStore` | `lmdb.rs`, `keys.rs`, crashes, a client | implements `KeriStore` |
| `Escrow` | `escrow.rs` | state machine |
| `CounterTable`, `Stream` | `counter_table.rs`; `composer.rs`, `parser.rs` | state machine over the messages of a stream; parsing is a recursive function of the place |
| `MC...` | instances: keys, events, messages | `MCEvents` builds the events the way the code does; `MCEscrow` adds a history |
| `KeverProofs`, `DirectProofs`, `JudgeProofs`, `ControllerProofs` | | theorems about `Kever`, `Direct`, `Judge`, `Controller`; the last two build on the lemmas of `DirectProofs` |
| `EscrowProofs`, `LmdbStoreProofs` | | theorems about `Escrow`; about `LmdbStore` and its refinement of `KeriStore` |
| `MessageProofs` | | theorems about `Message` with the reference of `MCMessage`: what the loops over signatures, receipts and weights compute, and that a message is read as it was made |
| `StreamProofs` | | theorems about `Stream`: what is composed is parsed, nothing is lost, lenient and strict parsing agree |

`Controller` and `Judge` contain `Direct`, `Direct` and `Kever` contain
`KeyEvent`, so that one reading of the event rules serves them all. `Signatures`
states the loops of `kever.rs` element by element, with errors; `KeyState` states
what `Message` shows they amount to, sets of keys that signed.

What stands under a SAID. `process_parsed` stores a message of any other ilk with
`put_event(&said, raw)` (direct.rs:203-206), an upsert, and `said` is the field `d` of
that message: neither SAID nor signature is verified. So what is read back from `evts`
under the SAID of a logged event need not be the event. The models have this:
`Direct` has messages that state the SAID of an event (`PutOther`, and `StatedAs` in
`MCDirect`), `LmdbStore` puts of other bytes under the SAID of a logged event (`Puts`).
What the code does promise is about SAIDs: the logs `kels` and `fels` name events,
and a SAID names one event. The properties are stated like that: `EventOf(d)` is the
event that the SAID d names, and of the body stored under it they say that it is that
event or another message with that `d` (`StandsFor`, in `LmdbStore` `Bodies`). Apart from
tests and examples only the Judge's evidence is read from the table; whoever else
reads it has to verify what it gets.

Correspondence of state and actions:

* `kevers` is the map of Kevers; a step of `Kever` is one call of `new`,
  `new_delegated`, `update` or `verify_update_delegated` with
  `apply_verified_update`. A call that returns an error changes nothing and is
  no step. `kel` is what `DelegatorAnchors` answers from.
* A step of `Direct` is one call of `process_parsed`, one action for each arm of
  its `match`; an error, a write of the store that fails among them, is no step, since
  each arm makes one write and the write comes before the Kevers change. `evts`, `fels` and `rcts` are the tables of those names; `kels`
  always equals `fels`, because both are written by the same transactions with
  the same values, and is not kept twice. `LoseKevers` is a new process.
* A step of `Judge` is one call of `process` that does not return an error:
  `PassReceipt`, `Accept`, `Replay`, `DetectDuplicity`; `answered` is its result.
* `hab`, `record` and `own` of `Controller` are the Hab in memory, the `habs`
  table and the controller's own event log; `saved` is what the embedder did with
  `Hab::state`, `sent` what it handed to the network. `Deliver` is a call of
  `process_message` with any set of witness receipts.
* A step of `Stream` is one turn of the loop of `parse_all`; all below it, from
  `parse_next` to the primitives, is operators. `sent` is what was meant, `stream`
  what arrives of it. `parse_attachments` and `parse_trans_idx_sig_groups` call each
  other on what is left of the stream; `Parsed` is the one recursive function of
  both, of the call (`AttachmentsFrom`, `GroupsFrom`), and each half is an operator
  that is given that function for the calls further on. A wrapper that is composed
  stands before the groups it wraps and says how many they are (`wraps`). `unread` of a
  message is what `raw` holds behind the body when CBOR or MessagePack are decoded
  without a size: the decoder stops after one value, and nobody looks at the rest.
* `kept` of `Controller` is what each witness stores as a receipt under the SAID of
  the event, `WitnessReceipts` a call of `Hab::receipt_message`, `DeliverReceipt` an
  `rct` message that reaches the verifier. `Deliver` carries the couples that
  `collect_witness_receipts` takes from any set of Habs, and is no step when one
  of them is transferable and would make the call fail.
* `versions` of `LmdbStore` holds the tables of every version from the one on
  disk to the newest; a transaction appends one. `Settle` is the operating system
  writing in its own time, `Crash` and `CrashMapped` a crash of the system,
  `Reopen` a crash or end of the process alone. Its client stores the events of a log
  one after the other (`IsNext`). That is an assumption about who uses the store:
  `process_parsed` checks it of a verifier's log, in memory, and in a Hab it is no
  check but how events are made, one at a time on top of the last.
  `PutOther` is everybody else who writes the tables, `put_event` of `process_parsed`
  for other ilks included. A trait's version is a record of tables,
  its `kels` what a scan of the text keys finds.
* `event` of `Message` is a `Serder`, `sigs` and `couples` the attachments in their
  order; reading and counting are operators asked at every state.
* The actions of `Escrow` carry the names of the functions; `Tick` is time.

Abstractions. Signatures name the key that made them, so they verify under it
alone; an event body's SAID is an injective function of the body (`SaidOf` of
`MCEvents` spells out the fields as numbers, and TLC evaluates the assumption
`SaidIsBinding` on each instance); key digests are injective; derivation is a
function from generation and index to a key. The fields `v`, `c`, `nt` are left
out: no decision reads them, `nt` included. A backer list is the function from
witnesses to how often they are listed. Raw signatures in the store are written
and never read, and are left out of `Direct`. In `Stream` a unit is a quadlet, the unit of
wrapper counts; a body or primitive is two of them, so that counts and cuts can
end inside of one. Inside of a group primitives are of the kind it calls for. In
`Serder` a digest holds what it was computed from, and the run gives a size 2 digits
of radix 4 where the code has 6 of radix 16.

## Runs

Deadlock is checked, except where an instance really ends: `MessageLife` when
all that may be attached is attached, `KeverLogs` when the events are used up,
`StreamRun` when the stream is read.

| Run | Question and bounds |
| --- | --- |
| `MessageLife` | One message. Sizes: bodies of every length up to 12 around the largest size of 15 that the digits hold, JSON and CBOR, made by a Hab or by `Serder` alone, version texts that are right, another protocol's, junk of three lengths, one longer than a version string, or missing, early or at the edge of the window, with nothing or another message behind. Signatures: two curves, a key listed twice, a key that is no point, a digest in place of a key; up to 3 signatures in any order, right, repeated, out of range, of other bytes, unparsable. Receipts likewise, 3 for up to 2 backers. Thresholds: counts 0 to 4, one clause of up to 3 weights or two clauses, 5 weights and the fields that are refused, up to 4 keys and every set of signers, with a word of 6 bits, so that overflow is common. |
| `KeverLogs` | Two interchangeable verifiers. Either forks at every position, wrong priors, two-key identifiers, an abandoned identifier, witnesses coming and going; or a delegator, an alternative delegator, delegated inceptions and rotations with right, wrong and missing anchors, delegation depth 1. Two verifiers are what `HeadDeterminesState` needs. Logs of both groups are not kept side by side (`OneWorld`): no event of one refers to the other. |
| `DirectRun` | One basic identifier with two possible inceptions, forks, a witness that is dropped, dropped again or listed twice, a second identifier, receipts, messages of another ilk under the SAIDs of two logged events, an uninterpretable attachment. |
| `JudgeFirstSeen` | Such messages, restarts at any time, `MAX_DEL_TOTAL` and `MAX_DEL_PER_PREFIX` of 2: with two identifiers each limit can be reached if anything goes wrong. |
| `ControllerCareful` | Up to sequence number 3, where the generation numbers of the keys have left the values of the inception behind twice: rotations that exchange the witness, drop it or end rotation, interactions, each order; stops and resumptions anywhere; two configurations (two keys and a witness; not transferable); two witnesses and a transferable Hab asked for receipts. Receipts as messages of their own for number 1 only (`ReceiptSn`). |
| `EscrowQueues` | Two places, two witnesses, 3 entries in all and 2 at a place, 2 receipts taken and 3 handed in, one tick. |
| `StreamRun` | A first message of either version or none with every pair out of 24 groups: right and wrong counts, a limit of 2, wrappers that are right, short, long or nested, a code nobody knows; a second message for the first to run into; the last unit missing or not; strict and lenient. Bodies in CBOR or MessagePack, with and without a version string at their start, first or second. Pairs are what a wrong count needs to reach its neighbour. |
| `StoreRun` | Two identifiers of which one begins with the other, two versions of one event, one Hab name both use, an escrow beside the logs, another message stored under the SAID of an event; three settings of the options (neither, `no_sync`, `write_map`), changed at every opening; up to 3 versions not on disk, of which a crash keeps any. States after a torn transaction are not followed (`NotTorn`). |

What they show, in short. A message is cut out of a stream as it was made, when it
says its size early; signatures and receipts count once each, in any order; a
threshold is never met below 1 and answers exactly in range. Logs accepted by a
Kever are hash chains, equal heads mean equal states, rotations reveal the
commitment of the establishment event before them, however many interactions
lie between; delegated events are anchored; an abandoned identifier stays so.
`Direct` keeps memory at the stored head and never holds a state whose witnesses
cannot reach its threshold. `Judge` implements the first-seen policy across
restarts: nothing recorded is overwritten, although every write is an upsert and
the Kevers are lost; a trusted key state is the replay of the events the stored log
names; evidence shows a conflict with the event first seen and comes once per prefix; a flagged
prefix stays dead until a restart. A Hab that is saved before every stop never
equivocates, and a verifier that follows it agrees on keys, commitments and
witnesses, whatever was lost or repeated, never goes past a rotation that cannot
be receipted, and catches up with what can be. The store keeps the promise of
its trait: whole transactions, lost from the end only. Each body and primitive
of a stream that is accepted is in the result, under its own body, and unread only
behind a last body that is not JSON and has no version string at its start; a lenient
parse hides nothing that the strict one refuses.

Fairness. Only `CatchesUp` is a liveness property, and only one action is fair:
`WF_vars(Resend)` says that an embedder which keeps sending what the verifier
needs next, with the receipts of its witnesses, is heard sooner or later. The
example `demo_witness` does exactly this. No fairness is asked of the network
(`DeliverAny` may lose everything), of the controller, or of resumption; nothing
in `src/` resends on its own, so without `Resend` no progress is promised. Weak
fairness is enough because nothing but the verifier's own progress disables it:
`NextEventVerifies` is the safety half of the argument.

Runs that end in a violation record where code and documentation differ; each
checks one sentence of the documentation.

| Run | Sentence | What happens |
| --- | --- | --- |
| `DirectRestart` | direct.rs:128, one inception per prefix | the check is in memory, the effect in the store |
| `JudgeMissesFork` | judge.rs:4-7, a different but valid event is flagged | not after a rotation: the current keys are asked |
| `ControllerStaleRecord` | tests/resume.rs:1, resumed as if never interrupted | the Habery's record is written at inception only |
| `ControllerFailedRotation` | hab.rs:96, every key is reproducible from the state | a failed rotation has emptied the next signers |

Other places where code and documentation differ, which the models contain and
no run is about:

* threshold.rs:177: a clause whose weights add up to 1 is not met when a product
  of denominators overflows; one more valid signature may so refuse a threshold
  that fewer have met.
* kever.rs:647: signatures are counted by index, so a key listed twice counts
  twice.
* key_state.rs:96: a witness listed twice counts twice against the backer
  threshold and once in receipts. A Kever that is given no receipts accepts the
  inception; `process_parsed` never does (`BackersReachThreshold`).
* serder.rs:40: a size of 16 MiB or more takes seven digits, the version string is
  read as none, and the rest of the stream is taken for the message.
* serder.rs:66: "The size might have changed due to version string length change,
  iterate"; it iterates once. When a `v` longer than a version string takes the first
  size, and only that one, to 16 MiB or more, the size said is one more than the message
  has. `Fits` leaves this out, next to messages that are too long.
* serder.rs:323: without a usable size, CBOR and MessagePack decoders accept the
  first value and `raw` holds the attachments and messages behind it as well, which
  nobody reads. `ReadsAsMade` asks it of JSON only, which refuses them; `NothingLost`
  says that this is the only way to lose something in a stream.
* judge.rs:39: "The raw serialized event body of the first-seen event": it is what the
  store holds under its SAID, and direct.rs:205 may have replaced that.
* habery.rs:33: a name is in use when a Hab in memory has it. After a restart an
  inception under a stored name replaces the record.
* examples/demo_witness.rs:6-7: "a witness will only sign one version of an
  event"; `Hab::receipt` signs what it is shown and leaves that to the embedder.
* store.rs:63: `process_parsed` files receipt couples under the SAID of the `rct`
  message, which names a place and no event; two events of a fork share the key
  (`ReceiptsNameLoggedEvent` holds of a controller that does not equivocate).
* judge.rs:49: a rotation or interaction of an identifier without a Kever is
  answered Accepted ("first-seen at this (prefix, sn)") and not stored;
  `AnswersMatchRecord` makes an exception of it.
* judge.rs:53: what is flagged as duplicity after the inception has valid
  signatures; that it fits the log, or has its own SAID, is not looked at.
* judge.rs:25: after a restart the verdict on a stored log is Unknown, and
  replaying the log does not change it.
* judge.rs:72: a prefix is flagged without an entry when `del` is full.
* parser.rs:446, "The signatures follow as their own counted group": the parser
  goes on as long as counters follow, so controller signatures after a
  transferable group are counted among that group's, and any other group after
  it fails the message. `ComposedIsParsed` excludes it (`TransGroupsLast`).
* parser.rs:288, "all valid data must be ASCII": asked of the whole rest of the
  stream, so that a later body with other text fails the message before it
  (`Readable`).
* escrow.rs:37: partially witnessed events are inserted without a limit.
* escrow.rs:193: receipts for one event of a fork promote the other, and an event
  that is escrowed again drops the receipts it had.
* escrow.rs:174: repetitions of one receipt fill the list, and the receipts that are
  still missing are refused.

## Environments of the controller

`CarefulSpec` is the use the documentation of `HabState` asks for: the embedder
persists `Hab::state` after it signs and before the process may stop, and
resumes from it. A crash between emitting an event and saving the state is not
in it: saving is the embedder's, and no order of the two steps in this code could
prevent an equivocation then. `HaberySpec` resumes with `Habery::resume`.
`FailingSpec` adds a store that refuses a rotation. One identifier is incepted in
each behaviour. `NextEventVerifies` asks only about events whose own thresholds can
be met (`WellConfigured`): a Hab does not check its configuration, and
rotations that drop a witness below the threshold are refused by every verifier;
a witness counts once there, as it does when receipts are counted.

## Proofs

The theorems hold for all values of the constants under the assumptions named in
the modules, all of which TLC evaluates on every instance:

| Modules | Assumptions |
| --- | --- |
| `KeyState`, `KeyEvent`, `Threshold` | `PrefixAssumption`, `WitnessAssumption` (finitely many witnesses), `EventAssumption`, `SaidIsBinding`, `NoKeverAssumption`, `U64MaxAssumption` |
| `Kever` | `MessageAssumption`, `NoDelegatorAssumption` |
| `Direct`, `Judge`, `Controller` | `DirectMessageAssumption`, `NoteAssumption` (types only), `NoSaidAssumption`; for `Judge` `DelBoundAssumption` |
| `Controller` | `ConfigsAssumption`, `NoneAssumption` (the values for no Hab and no event are none), `HabsAssumption` (whatever can be made of a Hab is an event with a place), `WitnessHabsAssumption`, `ReceiptIsBinding` (the SAID of an `rct` body names its place) |
| `Escrow` | `EscrowBoundsAssumption`, `EscrowSetsAssumption` (finitely many places) |
| `LmdbStore` | `BoundAssumption`, `PrefixAssumption`, `CharAssumption` (no identifier holds the separator), `PlaceAssumption`, `AbsentAssumption`, `ConfigsAssumption`, `CallsAssumption`, `PutsAssumption` (which tables others write, under which keys) |
| `Stream` | `StreamBoundsAssumption`, `SendingsAssumption` (messages are lists of groups that say what they hold; wrappers nest; counts may be anything) |
| `Message`, `Serder` | `CasesAssumption`, `U64MaxAssumption`, `U32MaxAssumption`, `SizesAssumption`, `HabDraftsAssumption` (what a Hab starts from, hab.rs:232, 411, 601, has a version string of size 0 and not yet its own digest), `FollowersAssumption` |

`KeverProofs`:

* `KeverTypeCorrect`: `Spec => []TypeOK`.
* `KeverLogIsChain`: `Spec => []LogIsChain`. Inductive with the type invariant,
  and the fact that every entry of a log belongs to the state it led to: an
  accepted event passed the checks of its kind (`VerifySaid`, `Follows`), each
  of which is used once.
* `KeverHeadDeterminesState`: `Spec => []HeadDeterminesState`. Not inductive by
  itself: two Kevers could have the same head and different pasts. The
  strengthening compares whole logs: two entries, of any two verifiers and
  identifiers, with the same SAID have the same event and the same state after
  it. It is preserved because an accepted event's SAID binds its body
  (`SaidIsBinding`), hence its prior digest, hence by induction the state before.
* `KeverRotationRevealsCommitment`. The property speaks of pairs of entries at any
  distance; the invariant `CommitmentsOK` instead says of every entry that its
  state carries the commitment of the last establishment event up to it, which
  one step extends.
* `KeverAbandonedStaysAbandoned`, an action property. A rotation of an abandoned
  identifier would reveal no keys, so be signed by nobody, and `NobodyMeets` says
  that no threshold is met by nobody, whatever its weights: the sum of a clause
  without signers stays at nothing.
* `KeverDelegationAnchored`. `DelegationsOK` adds that the state of a delegated
  identifier names the delegator of its inception. The two logs grow
  independently; `AnchorsKept` shows that a seal once found stays where it was.

The common part of `DirectProofs` and `JudgeProofs` is the invariant `StoreOK`: every
stored position holds the SAID of an event that verified, chained to the stored
position before; under it stands the event or a message that states it; and every
Kever stands at a stored event. `EventOfSaid` says that the SAID of a verified event
names it and no other (`SaidIsBinding`), so that a log is read from SAIDs alone;
`BodyStays` that a put, of whatever message, leaves under the SAID of an event
something that stands for it. `StoredKelIsChain` alone is not inductive: without the
Kevers' positions the next event need not follow the stored ones. The
lemma `EventStored` shows that storing keeps `StoreOK` when the position written is
empty; who sees to that differs.

* `DirectStoredKelIsChain`, `DirectKeverAtStoredHead`, `DirectOneInception`: in
  one run the Kevers do, by the invariant `NothingBeyond` (nothing is stored beyond
  a Kever or without one), which a restart breaks: the run `DirectRestart` shows
  what is lost with it. `DirectRun` leaves `StoredKelIsChain` to this theorem and to
  `JudgeFirstSeen`.
* `DirectBackersReachThreshold`, with restarts: whatever state a Kever moves to
  was witnessed, and the witnesses heard are among the distinct ones listed.
* `JudgeTypeCorrect`: `Spec => []TypeOK`. `JudgeFirstSeen` does not check it again.
* `JudgeStoredKelIsChain`, `JudgeFirstSeen`: with restarts at any time the lookup
  in the first-seen log keeps positions from being written twice. `JudgeFirstSeen`
  is the refinement `Spec => FirstSeenPolicy`: a step of the Judge that stores an
  event is a `See` of `FirstSeen`, because `StoreOK` after the step says that the
  predecessor is stored; every other step leaves `fels` alone.
* `JudgeEvidenceIsConflict`: a SAID that is recorded is never replaced
  (`RecordKept`), so evidence goes on showing what it showed (`ShownKept`), whatever
  is put under that SAID.
* `JudgeEvidenceOnce`, for any caps: `EvidenceOK` adds that all evidence is about
  flagged prefixes, and evidence is added for an unflagged one only.
  `JudgeDuplicitousIsDead`, an action property, is from the same invariant.
* `JudgeAnswersMatchRecord`: each answer is compared with the step that gave it.
* `JudgeTrustedStateIsReplayed`. A replay is a function with the state after every
  event (`IsReplay`); events have one replay (`OneReplay`), and one more event goes
  on with it (`ReplayGrows`). The invariant `TrustOK` says of every Kever, of flagged
  prefixes too, that it is the last state of the replay of the whole stored log:
  the last state by itself does not say that the log is one.
* `JudgeUnrotatedConflictIsFlagged`, from `TrustOK`: between two states of a replay
  without a rotation the keys and the threshold last (`KeysLast`), so that a
  conflicting interaction that verified then verifies now.

`EscrowProofs`:

* `EscrowPromotedWhenReceipted` compares numbers of witnesses and is
  not inductive; `ReceiptsKept` says that the receipts an entry holds are the first
  of those handed in, up to the limit.
* `EscrowQueuesBounded`: the total over all places of a map is the number of pairs
  of a place and a position (`EntriesCounted`), so that one entry more, or a list
  made shorter, is a fact about finite sets. `prune` is the loop of `Vec::retain`;
  the lemma `RetainedFields` says what it leaves of a list of any length.
* `EscrowFreshIsKept`, an action property, from the same lemma.

`LmdbStoreProofs`:

* `StoreLogsReadable`, `StoreRecordIsLogged`, `StoreSavedIsLogged`. What is read
  depends on every key in the table, so the invariant `StoreInv` speaks of each
  version a crash may fall back to (`Consistent`): of each identifier the events
  0 to some number are there, with a body and first-seen entries, and records
  and saved events name events that are logged. A client stores only the event
  after the last one it reads, and it reads that one because a scan finds all and
  only the identifier's places: `KeyOfPrefix` and `SplitSnOfKey` are the facts about
  text keys, also where one identifier begins with another, and `GetKelOfLog` the
  sorted scan of a log of any length.
* `StoreKeepsPromise`, the refinement `Spec => KeepsPromise`. The versions of the
  tables are the versions of the trait (`HistoryOf`); `store_event`, with and without
  a Hab's record, is one transaction of the trait (`StoreIsTraits`), every other put
  and delete too (`PutIsTraits`), and sync, the operating system's writing, reopening and
  crashes are its losses from the end.

`ControllerProofs`, about `CarefulSpec`: all six theorems are from one inductive
invariant, `ControllerOK`: nothing has happened yet, or there are an identifier, a
number and a history `hist` of Habs, one for each event of its log, such that
(`HistoryOK`)

* each event is what the Hab before it makes and what the Hab after it stands at,
  and each Hab's keys are those that the last establishment event installed;
* the Hab in memory, or the one that can be resumed from what was saved, is the last
  (`HabOK`); the lemma `Restored` is the heart: resuming from an exported state gives
  the same Hab back, although keys are written as generations and counts;
* what was sent is the log, each event signed with the Hab it led to (`SentOK`);
* the verifier stands at one of the Habs: its key state is what others may know of
  that Hab (`Matches`), and each event up to there could be verified
  (`FollowsTo`, `VerifierOK`);
* receipts, with the witnesses and with the verifier, are for events of the log
  (`ReceiptsOK`).

Then `ControllerNoEquivocation` and `ControllerSignersMatchOwnLog` read it off the
log, `ControllerVerifierFollows` off the verifier's place in the history.
`ControllerNextEventVerifies` needs that what `rotate` and `interact` make is what the
verifier checks for (`UpdateVerifies`). `ControllerFollowsOnlyVerifiable` needs that the
witnesses the log leads to are those of the Habs of the history (`BackersAtHistory`).
`ControllerReceiptsNameLoggedEvent` needs that there is one event for a place. Without
`StopSaved` the second item fails, and the run `ControllerStaleRecord` shows the
equivocation.

`MessageProofs`. The loops of the code are recursive functions of the turns taken.
`Loop` says that there is such a function, and `Turns`, from the least-number
principle, that what a turn keeps holds at the end; each loop has its invariant:

* `MessageSigsCountedOnce`: after n turns the loop has failed if one of n signatures
  does, and otherwise has counted whom they are of, each once (`SigsCounted`).
  `MessageReceiptsCountedOnce` likewise (`ReceiptsCounted`); here a receipt of a
  stranger is passed over before it can fail.
* `MessageThresholdReadBack`: what is read is in range (`FieldRead`), and what is in
  range is written so that it is read as itself (`ClausesReadBack`).
* `MessageNeverMetBelowOne`, `MessageExactInRange`: `MCMessage` states the exact sum of a
  clause over the product of its denominators, without a fraction. The loop keeps
  a fraction num/den with den a product of some denominators. The invariant
  (`ExactSum`) is the equation of the two, cross-multiplied, as long as no checked
  operation has refused: hence never met below 1, for any word. In range no
  operation refuses, for what is computed on the way is bounded by the product
  and the sum (`SumInRange`).
* `MessageReadsAsMade`: there are digits for every size, as a power exceeds its exponent
  (`CapacityExceeds`, `DigitsOf`). When the texts take a size of `SizeDigits` digits,
  the last one written is as long as the one before, so that the size it says is that
  of the message (`SerderSays`, `SizeSaid`). For the same reason the SAID that a Hab
  computed before `Serder::new` wrote `v` again is that of the message (`HabMakes`).
  From a stream the first tag in the window is the first message's, since what is
  behind starts later (`FirstBytes`, `ReadFirst`).

`StreamProofs`. The parser goes on at places further on in the stream, so each fact
is about a place, shown for all places from the end backwards (`Backwards`,
`ParsedUnfolds`): first that the recursive function exists and gives results of its
type, then

* `StreamNothingLost`. Whatever the counts, what is parsed from a place carries what
  stands from there to where the parse ends (`ReadFrom`); a wrapper is the case for
  which its end has to be met exactly. The inductive invariant `ReadSoFar` says it of the
  messages so far and the offset, and that a body that took what follows it has taken
  the stream to its end (`RestIs`, `UnreadIsLast`). That heads have their tails (`Streams`) is what
  keeps a count from starting to read in the middle of a primitive.
* `StreamLenientIsStrictWhenInterpreted`, of any two parses of one stream that differ in
  the mode (`AgreeFrom`): where the lenient one leaves something uninterpreted,
  the strict one has failed at that place or further on, through every wrapper and
  every transferable group above it.
* `StreamComposedIsParsed`. Groups that stand at a place, with right counts and with no
  counter behind them, are read as they were meant up to their end
  (`GroupsMeantAt`). Of a wrapper the groups in it and those behind it are each such
  a list (`PieceFaithful`): wrappers nest, and a transferable group that is last
  in a wrapper is last of its piece. The inductive invariant `MeantSoFar` is that the messages
  parsed are the first that were sent and that the others stand, whole, behind
  the offset and white space (`RestStands`).

The lemmas before them are about lists: flattening as an induction over a list's
members (`FlattenConcat`, `GatherLaws`), which nothing in the library states without
operators as parameters.

Only model-checked: `CatchesUp`, the one liveness property, as liveness needs ENABLED.
Every other property of the runs is a theorem as well.

## Not modelled

The bytes of JSON, CBOR and MessagePack, of primitives and of counters, qb2
included; the cryptographic algorithms and their key formats; `Prefixer`, which no
other code uses; LMDB itself, which `LmdbStore` takes at its documented word, and
what is left of a store after a torn transaction, of which nothing is promised;
errors' wording, printing, benchmarks and the examples other than the workflow of
`demo_witness`. A crash between emitting an event and saving the Hab's state is
outside of `CarefulSpec`, as said above.

## Plan

Done, in this order: `Threshold`, `KeyState`, `KeyEvent`, `Kever` with its first
theorems, `Direct` and `Judge` with `FirstSeen` and theirs, `Hab` and `Controller`,
`Escrow`, `Stream`; then the store and its promise, witnesses and receipts with
catching up, the life of a message, and theorems about histories, evidence,
escrow, the controller with its verifier, the store and its promise, the counting of
signatures and weights, the sizes of messages, and composing and parsing.

Left: delegation end to end, a delegating and a delegated controller who exchange
events and anchors, composed with `Kever`.
