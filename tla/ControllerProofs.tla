-------------------------- MODULE ControllerProofs --------------------------
(***************************************************************************)
(* Proofs about the controller and the verifier that follows it.  The      *)
(* inductive invariant speaks of a history: the Hab as it was after each   *)
(* event of its log.  A Hab that is saved before every stop is always the  *)
(* last Hab of the history, however it was rebuilt; what was signed is the *)
(* log, once; and the verifier's key state is always that of one of these  *)
(* Habs, reached by events that could be verified.                         *)
(***************************************************************************)
EXTENDS Controller, DirectProofs

----------------------------------------------------------------------------
(* Resumption.                                                             *)

\* Nothing of h is lost by Hab::state and Hab::resume
Restorable(h) ==
  /\ h \in HabType
  /\ h.signers = Signers(h.signer_gen, Len(h.signers))
  /\ h.next_signers = Signers(h.next_gen, Len(h.next_signers))

\* What is saved of a Hab is a HabState, and resuming from it gives the Hab back.
LEMMA Restored ==
  ASSUME NEW h, Restorable(h)
  PROVE  Resumed(StateOf(h)) = h /\ StateOf(h) \in HabStateType
<1>1. h \in HabType /\ Len(h.signers) \in Nat /\ Len(h.next_signers) \in Nat
  BY DEF Restorable, HabType
<1>2. Resumed(StateOf(h)) = h
  BY <1>1 DEF Restorable, Resumed, StateOf, HabType
<1>3. StateOf(h) \in HabStateType
  BY <1>1 DEF StateOf, HabType, HabStateType
<1> QED
  BY <1>2, <1>3

\* As many keys as are asked for
LEMMA SignersLength ==
  ASSUME NEW generation, NEW count \in Nat
  PROVE  Len(Signers(generation, count)) = count
BY DEF Signers

----------------------------------------------------------------------------
(* The events a Hab makes.                                                 *)

\* The Hab h stands at the event e
Stands(e, h) ==
  /\ e \in ValidEvents /\ h \in HabSet /\ Restorable(h)
  /\ e.i = h.prefix /\ e.s = h.sn /\ e.d = h.last_said

\* e begins the log of the new Hab h
Begins(e, h) ==
  /\ e.t = "icp" /\ h.sn = 0
  /\ e.kt.kind = "simple" /\ e.k = h.signers /\ e.n = Digests(h.next_signers)
  /\ e.bt = h.backer_threshold /\ e.b = h.backers

\* e makes the Hab h of the Hab g
Continues(e, g, h) ==
  /\ h.sn = g.sn + 1 /\ h.prefix = g.prefix /\ e.p = g.last_said
  /\ h.backer_threshold = g.backer_threshold
  /\ \/ /\ e.t = "rot"
        /\ e.kt.kind = "simple" /\ h.signers = g.next_signers
        /\ e.k = h.signers /\ e.n = Digests(h.next_signers)
        /\ e.bt = h.backer_threshold /\ h.backers = UpdateBackers(g.backers, e.br, e.ba)
     \/ /\ e.t = "ixn"
        /\ h.signers = g.signers /\ h.next_signers = g.next_signers /\ h.backers = g.backers

\* incept_inner
LEMMA InceptionMade ==
  ASSUME NEW c \in InceptionConfigs
  PROVE  /\ Stands(InceptionOf(c), InceptedHab(c))
         /\ Begins(InceptionOf(c), InceptedHab(c))
         /\ InceptedHab(c).signers = Signers(0, c.count)
         /\ RecordOf(c) = StateOf(InceptedHab(c))
<1> DEFINE e == InceptionOf(c)
           h == InceptedHab(c)
<1>1. /\ Len(Signers(0, c.count)) = c.count
      /\ Len(Signers(1, c.next_count)) = c.next_count
  BY ConfigsAssumption, SignersLength
<1>2. e \in ValidEvents /\ h \in HabSet /\ h \in HabType
  BY HabsAssumption
<1>3. /\ e.t = "icp" /\ e.i = e.d /\ e.s = 0 /\ e.kt = Simple(c.threshold)
      /\ e.k = Signers(0, c.count) /\ e.n = Digests(Signers(1, c.next_count))
      /\ e.bt = c.backer_threshold /\ e.b = c.backers
  BY DEF InceptionOf, SelfAddress
<1>4. /\ h.prefix = e.d /\ h.last_said = e.d /\ h.sn = 0
      /\ h.signers = Signers(0, c.count) /\ h.next_signers = Signers(1, c.next_count)
      /\ h.signer_gen = 0 /\ h.next_gen = 1
      /\ h.backer_threshold = c.backer_threshold /\ h.backers = c.backers
  BY DEF InceptedHab
<1>5. RecordOf(c) = StateOf(h)
  BY <1>1 DEF RecordOf, StateOf, InceptedHab
<1> HIDE DEF e, h
<1>6. Restorable(h)
  BY <1>1, <1>2, <1>4 DEF Restorable
<1>7. Stands(e, h) /\ Begins(e, h)
  BY <1>2, <1>3, <1>4, <1>6 DEF Stands, Begins, Simple
<1> QED
  BY <1>4, <1>5, <1>7 DEF e, h

\* rotate_inner: the signers it installs are of the generation that was next,
\* and the next ones are derived at key_gen + 1.
LEMMA RotationMade ==
  ASSUME NEW g \in HabSet, Restorable(g), g.sn < MaxSn, g.transferable,
         NEW c \in RotationConfigs
  PROVE  /\ Stands(RotationOf(g, c), RotatedHab(g, c))
         /\ Continues(RotationOf(g, c), g, RotatedHab(g, c))
         /\ RotatedHab(g, c).signers = g.next_signers
<1> DEFINE e == RotationOf(g, c)
           h == RotatedHab(g, c)
           next == Signers(g.key_gen + 1, c.next_count)
<1>1. Len(next) = c.next_count
  BY ConfigsAssumption, SignersLength
<1>2. e \in ValidEvents /\ h \in HabSet /\ h \in HabType
  BY HabsAssumption
<1>3. /\ e.t = "rot" /\ e.i = g.prefix /\ e.s = g.sn + 1 /\ e.p = g.last_said
      /\ e.kt = Simple(c.threshold) /\ e.k = g.next_signers /\ e.n = Digests(next)
      /\ e.bt = g.backer_threshold /\ e.br = c.backers_remove /\ e.ba = c.backers_add
  BY DEF RotationOf, Address
<1>4. /\ h.prefix = g.prefix /\ h.last_said = e.d /\ h.sn = g.sn + 1
      /\ h.signers = g.next_signers /\ h.next_signers = next
      /\ h.signer_gen = g.next_gen /\ h.next_gen = g.key_gen + 1
      /\ h.backer_threshold = g.backer_threshold
      /\ h.backers = UpdateBackers(g.backers, c.backers_remove, c.backers_add)
  BY <1>2 DEF RotatedHab, HabType
<1> HIDE DEF e, h, next
<1>5. h.next_signers = Signers(h.next_gen, Len(h.next_signers))
  BY <1>1, <1>4 DEF next
<1>6. Restorable(h)
  BY <1>2, <1>4, <1>5 DEF Restorable
<1>7. Stands(e, h) /\ Continues(e, g, h)
  BY <1>2, <1>3, <1>4, <1>6 DEF Stands, Continues, Simple
<1> QED
  BY <1>4, <1>7 DEF e, h

\* interact touches neither keys nor generations.
LEMMA InteractionMade ==
  ASSUME NEW g \in HabSet, Restorable(g), g.sn < MaxSn, NEW seals \in Anchors
  PROVE  /\ Stands(InteractionOf(g, seals), InteractedHab(g, seals))
         /\ Continues(InteractionOf(g, seals), g, InteractedHab(g, seals))
         /\ InteractedHab(g, seals).signers = g.signers
<1> DEFINE e == InteractionOf(g, seals)
           h == InteractedHab(g, seals)
<1>1. e \in ValidEvents /\ h \in HabSet /\ h \in HabType
  BY HabsAssumption
<1>2. e.t = "ixn" /\ e.i = g.prefix /\ e.s = g.sn + 1 /\ e.p = g.last_said
  BY DEF InteractionOf, Address
<1>3. /\ h.prefix = g.prefix /\ h.last_said = e.d /\ h.sn = g.sn + 1
      /\ h.signers = g.signers /\ h.next_signers = g.next_signers
      /\ h.signer_gen = g.signer_gen /\ h.next_gen = g.next_gen
      /\ h.backer_threshold = g.backer_threshold /\ h.backers = g.backers
  BY <1>1 DEF InteractedHab, HabType
<1> HIDE DEF e, h
<1>4. Restorable(h)
  BY <1>1, <1>3 DEF Restorable
<1>5. Stands(e, h) /\ Continues(e, g, h)
  BY <1>1, <1>2, <1>3, <1>4 DEF Stands, Continues
<1> QED
  BY <1>3, <1>5 DEF e, h

----------------------------------------------------------------------------
(* Keys and witnesses.                                                     *)

\* The numbers from 1 to n are n
LEMMA IndicesCounted ==
  ASSUME NEW n \in Nat
  PROVE  IsFiniteSet(1..n) /\ Cardinality(1..n) = n
<1>1. 1 \in Int /\ n \in Int
  OBVIOUS
<1>2. IsFiniteSet(1..n) /\ Cardinality(1..n) = IF 1 > n THEN 0 ELSE n - 1 + 1
  BY <1>1, FS_Interval
<1> QED
  BY <1>2

\* A count is reached by the signatures of all keys, unless it is 0 or too large.
LEMMA AllKeysReach ==
  ASSUME NEW keys \in Seq(Key), NEW kt, kt.kind = "simple", kt.k \in 1..Len(keys)
  PROVE  VerifySigs(SignAll(keys), keys, kt)
<1>1. SatisfiedIndices(SignAll(keys), keys) = 1..Len(keys)
  BY DEF SatisfiedIndices, SignAll
<1>2. Cardinality(1..Len(keys)) = Len(keys)
  BY IndicesCounted
<1> QED
  BY <1>1, <1>2 DEF VerifySigs, IsSatisfied

\* A count that any signatures have reached is not 0 and not too large.
LEMMA ReachedCount ==
  ASSUME NEW keys \in Seq(Key), NEW kt, kt.kind = "simple", kt.k \in Nat,
         NEW sigs, VerifySigs(sigs, keys, kt)
  PROVE  kt.k \in 1..Len(keys)
<1> DEFINE Signed == SatisfiedIndices(sigs, keys)
<1>1. Len(keys) \in Nat /\ Signed \in SUBSET (1..Len(keys))
  BY DEF SatisfiedIndices
<1>2. IsFiniteSet(1..Len(keys)) /\ Cardinality(1..Len(keys)) = Len(keys)
  BY <1>1, IndicesCounted
<1>3. IsFiniteSet(Signed) /\ Cardinality(Signed) <= Len(keys)
  BY <1>1, <1>2, FS_Subset
<1>4. Cardinality(Signed) \in Nat
  BY <1>3, FS_CardinalityType
<1>5. kt.k > 0 /\ Cardinality(Signed) >= kt.k
  BY DEF VerifySigs, IsSatisfied
<1> QED
  BY <1>1, <1>3, <1>4, <1>5

Listed(backers) == {w \in Witness : backers[w] > 0}

\* The witnesses listed are no more than the entries of the list.
LEMMA ListedCounted ==
  ASSUME NEW backers \in [Witness -> Nat]
  PROVE  /\ IsFiniteSet(Listed(backers)) /\ Cardinality(Listed(backers)) \in Nat
         /\ BackerCount(backers) \in Nat
         /\ Cardinality(Listed(backers)) <= BackerCount(backers)
<1> DEFINE EntriesOf(w) == {w} \X (1..backers[w])
           entries == UNION {EntriesOf(w) : w \in Witness}
           first == [w \in Listed(backers) |-> <<w, 1>>]
<1>1. IsFiniteSet(Listed(backers))
  BY WitnessAssumption, FS_Subset DEF Listed
<1>2. IsFiniteSet(entries)
  <2> DEFINE lists == {EntriesOf(w) : w \in Witness}
             listOf == [w \in Witness |-> EntriesOf(w)]
  <2>1. listOf \in Surjection(Witness, lists)
    BY DEF Surjection
  <2>2. IsFiniteSet(lists)
    BY <2>1, WitnessAssumption, FS_Surjection
  <2>3. \A w \in Witness : IsFiniteSet(EntriesOf(w))
    <3> TAKE w \in Witness
    <3>1. IsFiniteSet({w}) /\ IsFiniteSet(1..backers[w])
      BY FS_Singleton, IndicesCounted
    <3> QED
      BY <3>1, FS_Product
  <2>4. \A T \in lists : IsFiniteSet(T)
    BY <2>3
  <2> QED
    BY <2>2, <2>4, FS_UNION
<1>3. first \in Injection(Listed(backers), entries)
  <2>1. \A w \in Listed(backers) : <<w, 1>> \in EntriesOf(w) /\ w \in Witness
    BY DEF Listed
  <2>2. first \in [Listed(backers) -> entries]
    BY <2>1
  <2>3. \A v, w \in Listed(backers) : first[v] = first[w] => v = w
    OBVIOUS
  <2> QED
    BY <2>2, <2>3 DEF Injection, IsInjective
<1>4. Cardinality(Listed(backers)) <= Cardinality(entries)
  BY <1>2, <1>3, FS_Injection
<1> QED
  BY <1>1, <1>2, <1>4, FS_CardinalityType DEF BackerCount

----------------------------------------------------------------------------
(* The verifier's key state and the Hab.                                   *)

\* The key state st is what others may know of the Hab h
Matches(st, h) ==
  /\ st \in KeyStateType /\ st.delegated = FALSE
  /\ st.prefix = h.prefix /\ st.sn = h.sn /\ st.last_event_digest = h.last_said
  /\ st.keys = h.signers /\ st.next_keys = Digests(h.next_signers)
  /\ st.backer_threshold = h.backer_threshold /\ st.backers = h.backers
  /\ st.threshold.kind = "simple" /\ st.threshold.k \in 1..Len(st.keys)
  /\ st.backer_threshold <= Cardinality(Listed(st.backers))

\* A count is a threshold
LEMMA CountType ==
  ASSUME NEW kt \in ThresholdType, kt.kind = "simple"
  PROVE  kt.k \in Nat
BY DEF ThresholdType

\* An inception that is accepted leads to a state that matches the new Hab.
LEMMA InceptionFollowed ==
  ASSUME NEW m, NEW h, Stands(m.ev, h), Begins(m.ev, h),
         VerifyNew(m), Witnessed(m, FromInception(m.ev))
  PROVE  Matches(FromInception(m.ev), h)
<1> DEFINE e == m.ev
           st == FromInception(e)
<1>1. e \in Event /\ e.t = "icp"
  BY DEF Stands, Begins, ValidEvents
<1>2. /\ e.kt \in ThresholdType /\ e.k \in Seq(Key) /\ e.kt.kind = "simple"
      /\ VerifySigs(m.sigs, e.k, e.kt)
  BY <1>1, EventFields DEF Begins, VerifyNew
<1>3. st \in KeyStateType
  <2>1. st = Incepted(e)
    BY <1>1 DEF Incepted
  <2> QED
    BY <1>1, <2>1, InceptedType
<1>4. st.backer_threshold <= Cardinality(Listed(st.backers))
  BY <1>3, WitnessedReaches DEF Listed
<1>5. /\ st.prefix = e.i /\ st.sn = 0 /\ st.last_event_digest = e.d /\ st.keys = e.k
      /\ st.next_keys = e.n /\ st.backer_threshold = e.bt /\ st.backers = e.b
      /\ st.threshold = e.kt /\ st.delegated = FALSE
  BY DEF FromInception, InceptedState
<1>6. e.kt.k \in 1..Len(e.k)
  BY <1>2, CountType, ReachedCount
<1> HIDE DEF e, st
<1>7. Matches(st, h)
  BY <1>2, <1>3, <1>4, <1>5, <1>6 DEF Matches, Stands, Begins, e
<1> QED
  BY <1>7 DEF st, e

\* The fields of a key state after a rotation, and after an interaction.
LEMMA UpdatedFields ==
  ASSUME NEW st \in KeyStateType, NEW e
  PROVE  LET new == ApplyUpdate(st, e)
         IN  /\ new.prefix = st.prefix /\ new.sn = e.s /\ new.last_event_digest = e.d
             /\ new.delegated = st.delegated
             /\ e.t = "ixn" =>
                  /\ new.keys = st.keys /\ new.next_keys = st.next_keys
                  /\ new.threshold = st.threshold
                  /\ new.backer_threshold = st.backer_threshold /\ new.backers = st.backers
             /\ e.t # "ixn" =>
                  /\ new.keys = e.k /\ new.next_keys = e.n /\ new.threshold = e.kt
                  /\ new.backer_threshold = e.bt
                  /\ new.backers = UpdateBackers(st.backers, e.br, e.ba)
BY DEF ApplyUpdate, ApplyInteraction, ApplyRotation, KeyStateType

\* So does every later event, and a rotation that is accepted can meet its
\* thresholds.
LEMMA UpdateFollowed ==
  ASSUME NEW m, NEW st, NEW g, NEW h,
         Matches(st, g), Stands(m.ev, h), Continues(m.ev, g, h),
         VerifyUpdate(st, m), Witnessed(m, ApplyUpdate(st, m.ev))
  PROVE  Matches(ApplyUpdate(st, m.ev), h) /\ WellConfigured(m.ev, g.backers)
<1> DEFINE e == m.ev
           new == ApplyUpdate(st, e)
<1>1. e \in Event /\ e.t \in {"rot", "ixn"} /\ st \in KeyStateType
  BY DEF Stands, Continues, ValidEvents, Matches
<1>2. new \in KeyStateType
  BY <1>1, ApplyType
<1>3. new.backer_threshold <= Cardinality(Listed(new.backers))
  BY <1>2, WitnessedReaches DEF Listed
<1>4. /\ new.prefix = st.prefix /\ new.sn = e.s /\ new.last_event_digest = e.d
      /\ new.delegated = st.delegated
      /\ e.t = "ixn" =>
           /\ new.keys = st.keys /\ new.next_keys = st.next_keys
           /\ new.threshold = st.threshold
           /\ new.backer_threshold = st.backer_threshold /\ new.backers = st.backers
      /\ e.t # "ixn" =>
           /\ new.keys = e.k /\ new.next_keys = e.n /\ new.threshold = e.kt
           /\ new.backer_threshold = e.bt
           /\ new.backers = UpdateBackers(st.backers, e.br, e.ba)
  BY <1>1, UpdatedFields
<1>5. CASE e.t = "ixn"
  <2> HIDE DEF e, new
  <2>1. Matches(new, h)
    BY <1>2, <1>3, <1>4, <1>5 DEF Matches, Stands, Continues, e
  <2>2. WellConfigured(e, g.backers)
    BY <1>5 DEF WellConfigured
  <2> QED
    BY <2>1, <2>2 DEF new, e
<1>6. CASE e.t = "rot"
  <2>1. /\ e.kt \in ThresholdType /\ e.k \in Seq(Key) /\ e.kt.kind = "simple"
        /\ VerifySigs(m.sigs, e.k, e.kt)
    BY <1>1, <1>6, EventFields DEF Continues, VerifyUpdate, VerifyRotation, VerifyInteraction
  <2>2. e.kt.k \in 1..Len(e.k)
    BY <2>1, CountType, ReachedCount
  <2> HIDE DEF e, new
  <2>3. Matches(new, h)
    BY <1>2, <1>3, <1>4, <1>6, <2>1, <2>2 DEF Matches, Stands, Continues, e
  <2>4. WellConfigured(e, g.backers)
    BY <1>3, <1>4, <1>6, <2>2 DEF WellConfigured, Listed, Matches
  <2> QED
    BY <2>3, <2>4 DEF new, e
<1> QED
  BY <1>1, <1>5, <1>6

\* An event of the Hab that the state matches, signed by the keys of the Hab it
\* leads to, verifies if it can, and is receipted if all witnesses are heard.
LEMMA UpdateVerifies ==
  ASSUME NEW m, NEW st, NEW g, NEW h,
         Matches(st, g), Stands(m.ev, h), Continues(m.ev, g, h),
         WellConfigured(m.ev, st.backers), m.sigs = SignAll(h.signers),
         Witness \subseteq ReceiptedBy(m)
  PROVE  VerifyUpdate(st, m) /\ Witnessed(m, ApplyUpdate(st, m.ev))
<1> DEFINE e == m.ev
           new == ApplyUpdate(st, e)
<1>1. /\ e \in Event /\ e.t \in {"rot", "ixn"} /\ VerifySaid(e)
      /\ st \in KeyStateType /\ h \in HabType
  BY DEF Stands, Continues, ValidEvents, Matches, Restorable
<1>2. /\ new.prefix = st.prefix /\ new.sn = e.s /\ new.last_event_digest = e.d
      /\ e.t = "ixn" =>
           new.backer_threshold = st.backer_threshold /\ new.backers = st.backers
      /\ e.t # "ixn" =>
           /\ new.backer_threshold = e.bt
           /\ new.backers = UpdateBackers(st.backers, e.br, e.ba)
  BY <1>1, UpdatedFields
<1>3. new \in KeyStateType
  BY <1>1, ApplyType
<1>4. Follows(st, e)
  BY DEF Matches, Stands, Continues, Follows
<1>5. /\ VerifyUpdate(st, m)
      /\ new.backer_threshold <= Cardinality(Listed(new.backers))
  <2>1. CASE e.t = "ixn"
    <3>1. VerifySigs(m.sigs, st.keys, st.threshold)
      <4>1. m.sigs = SignAll(st.keys) /\ st.keys \in Seq(Key)
        BY <1>1, <2>1 DEF Matches, Continues, KeyStateType
      <4> QED
        BY <4>1, AllKeysReach DEF Matches
    <3> QED
      BY <1>1, <1>2, <1>4, <2>1, <3>1 DEF VerifyUpdate, VerifyInteraction, InteractionOK, Matches
  <2>2. CASE e.t = "rot"
    <3>1. /\ e.kt.kind = "simple" /\ e.kt.k \in 1..Len(e.k) /\ e.k \in Seq(Key)
          /\ e.k = h.signers /\ e.k = g.next_signers /\ e.bt \in Nat
          /\ e.bt <= Cardinality(Listed(new.backers))
      BY <1>1, <1>2, <2>2, EventFields DEF Continues, WellConfigured, Listed
    <3>2. VerifySigs(m.sigs, e.k, e.kt)
      BY <3>1, AllKeysReach
    <3>3. VerifyNextKeyCommitment(e.k, st.next_keys)
      <4>1. st.next_keys = [j \in DOMAIN e.k |-> KeyDigest(e.k[j])]
        BY <3>1 DEF Matches, Digests
      <4>2. Len(st.next_keys) = Len(e.k)
        BY <3>1, <4>1
      <4> QED
        BY <4>1, <4>2 DEF VerifyNextKeyCommitment
    <3>4. e.bt <= BackerCount(UpdateBackers(st.backers, e.br, e.ba))
      <4>1. new.backers \in [Witness -> Nat]
        BY <1>3 DEF KeyStateType
      <4>2. /\ Cardinality(Listed(new.backers)) <= BackerCount(new.backers)
            /\ Cardinality(Listed(new.backers)) \in Nat /\ BackerCount(new.backers) \in Nat
        BY <4>1, ListedCounted
      <4>3. new.backers = UpdateBackers(st.backers, e.br, e.ba)
        BY <1>2, <2>2
      <4> HIDE DEF e, new
      <4>4. e.bt <= BackerCount(new.backers)
        BY <3>1, <4>2
      <4> QED
        BY <4>3, <4>4
    <3>5. VerifyUpdate(st, m)
      BY <1>1, <1>4, <2>2, <3>2, <3>3, <3>4
      DEF VerifyUpdate, VerifyRotation, MayRotatePlainly, RotationOK, Matches
    <3> QED
      BY <1>2, <2>2, <3>1, <3>5
  <2> QED
    BY <1>1, <2>1, <2>2
<1>6. Witnessed(m, new)
  <2>1. {w \in ReceiptedBy(m) : w \in Witness /\ new.backers[w] > 0} = Listed(new.backers)
    BY DEF Listed
  <2>2. Cardinality(Listed(new.backers)) \in Nat /\ new.backer_threshold \in Nat
    BY <1>3, ListedCounted DEF KeyStateType
  <2> HIDE DEF new
  <2> QED
    BY <1>5, <2>1, <2>2 DEF Witnessed, VerifyWitnessReceipts
<1> QED
  BY <1>5, <1>6

----------------------------------------------------------------------------
(* The history.                                                            *)

\* own is a table of places
OwnShape == own = [p \in Prefix |-> [s \in 0..MaxSn |-> own[p][s]]]

\* The entry l of h's log is the last establishment event up to h, and installs
\* the keys h has
Installed(h, l) ==
  /\ own[h.prefix][l].t \in Establishment
  /\ own[h.prefix][l].k = h.signers
  /\ own[h.prefix][l].n = Digests(h.next_signers)
  /\ \A j \in (l + 1)..h.sn : own[h.prefix][j].t \notin Establishment

\* The log of p has the events 0 to n and no others; hist[s] is the Hab that
\* stood at the event s
LogOK(p, n, hist) ==
  /\ OwnShape
  /\ p \in Prefix /\ n \in 0..MaxSn
  /\ \A s \in 0..n : Stands(own[p][s], hist[s]) /\ hist[s].prefix = p /\ hist[s].sn = s
  /\ Begins(own[p][0], hist[0])
  /\ \A s \in 1..n : Continues(own[p][s], hist[s - 1], hist[s])
  /\ \A q \in Prefix, s \in 0..MaxSn : own[q][s] # NoEvent => q = p /\ s <= n
  /\ \E l \in 0..n : Installed(hist[n], l)

\* The Hab in memory, or the one that what was saved leads back to, is the last
HabOK(n, hist) ==
  /\ hab \in {NoHab, hist[n]}
  /\ hab = NoHab => saved = StateOf(hist[n])
  /\ record \in HabStateType \cup {NoHab} /\ saved \in HabStateType \cup {NoHab}

\* What was handed out is the log, each event signed by the Hab it led to
SentOK(p, n, hist) ==
  /\ sent # {}
  /\ \A m \in sent :
       \E s \in 0..n : m = [ev |-> own[p][s], sigs |-> SignAll(hist[s].signers)]

\* The verifier has the events of p up to k, all of which could be verified, and
\* its key state is that of the Hab then
FollowsTo(p, k, hist) ==
  /\ Matches(kevers[p], hist[k])
  /\ \A s \in 0..k : fels[p][s] = own[p][s].d
  /\ \A s \in 1..k : WellConfigured(own[p][s], hist[s - 1].backers)

VerifierOK(p, n, hist) ==
  /\ kevers \in [Prefix -> KeyStateType \cup {NoKever}]
  /\ fels \in [Prefix -> [SeqNo -> Digest \cup {NoSaid}]]
  /\ \A d \in DOMAIN evts : evts[d] \in {m.ev : m \in sent}
  /\ \A q \in Prefix : kevers[q] # NoKever => q = p
  /\ kevers[p] # NoKever => \E k \in 0..n : FollowsTo(p, k, hist)

\* Witnesses keep receipts of the log, and so does the verifier
ReceiptsOK(p, n) ==
  /\ kept = [w \in WitnessHabs |-> kept[w]]
  /\ \A w \in WitnessHabs : \A d \in DOMAIN kept[w] :
       /\ d \in {m.ev.d : m \in sent}
       /\ \E s \in 0..n : kept[w][d] = ReceiptMessage(w, own[p][s])
  /\ \A d \in DOMAIN rcts :
       \E s \in 0..n : d = ReceiptBody(own[p][s]).d /\ \A c \in rcts[d] : c.of = own[p][s].d

HistoryOK(p, n, hist) ==
  /\ LogOK(p, n, hist) /\ HabOK(n, hist) /\ SentOK(p, n, hist)
  /\ VerifierOK(p, n, hist) /\ ReceiptsOK(p, n)

\* Nothing has happened, or there is a history
ControllerOK == Init \/ \E p, n, hist : HistoryOK(p, n, hist)

\* Emit writes one place
LEMMA EmitPlace ==
  ASSUME OwnShape, NEW e, NEW signers, e.i \in Prefix, e.s \in 0..MaxSn, Emit(e, signers)
  PROVE  /\ OwnShape'
         /\ own'[e.i][e.s] = e
         /\ \A p \in Prefix, s \in 0..MaxSn : (p # e.i \/ s # e.s) => own'[p][s] = own[p][s]
         /\ sent' = sent \cup {[ev |-> e, sigs |-> SignAll(signers)]}
BY DEF Emit, OwnShape

\* What a Hab stands at is an event with a place in the log
LEMMA StandsFields ==
  ASSUME NEW e, NEW h, Stands(e, h)
  PROVE  /\ e \in Event /\ VerifySaid(e) /\ e # NoEvent
         /\ e.d \in Digest /\ e.i \in Prefix /\ e.s \in Nat /\ e.s \in SeqNo
         /\ h \in HabType /\ h # NoHab
<1>1. e \in Event /\ VerifySaid(e) /\ h \in HabType
  BY DEF Stands, ValidEvents, Restorable
<1>2. e.s \in SeqNo
  BY <1>1 DEF SeqNo, Body
<1> QED
  BY <1>1, <1>2, EventFields, NoneAssumption

\* The first event of the identifier
LEMMA BeginKeeps ==
  ASSUME Init, NEW c \in InceptionConfigs, Incept(c)
  PROVE  ControllerOK'
<1>1. PICK e, h : e = InceptionOf(c) /\ h = InceptedHab(c)
  OBVIOUS
<1>2. PICK hist : hist = [s \in 0..0 |-> h]
  OBVIOUS
<1>3. /\ Stands(e, h) /\ Begins(e, h) /\ h.signers = Signers(0, c.count)
      /\ RecordOf(c) = StateOf(h)
  BY <1>1, InceptionMade
<1>4. /\ e \in Event /\ e # NoEvent /\ e.i \in Prefix /\ h.prefix = e.i /\ h.sn = 0 /\ e.s = 0
      /\ h # NoHab
  BY <1>3, StandsFields DEF Stands, Begins
<1>5. hab' = h /\ record' = StateOf(h) /\ Emit(e, h.signers) /\ UNCHANGED <<saved, kept, directVars>>
  BY <1>1, <1>3 DEF Incept
<1>6. 0 \in 0..MaxSn /\ OwnShape
  BY ConfigsAssumption DEF Init, OwnShape
<1>7. /\ OwnShape' /\ own'[e.i][0] = e
      /\ \A p \in Prefix, s \in 0..MaxSn : (p # e.i \/ s # 0) => own'[p][s] = own[p][s]
      /\ sent' = {[ev |-> e, sigs |-> SignAll(h.signers)]}
  BY <1>4, <1>5, <1>6, EmitPlace DEF Init
<1>8. hist[0] = h /\ \A s \in 0..0 : s = 0
  BY <1>2
<1>9. LogOK(e.i, 0, hist)'
  <2>1. \A q \in Prefix, s \in 0..MaxSn : own'[q][s] # NoEvent => q = e.i /\ s <= 0
    BY <1>7 DEF Init
  <2>2. Installed(h, 0)'
    BY <1>3, <1>4, <1>7 DEF Installed, Begins, Establishment
  <2> QED
    BY <1>3, <1>4, <1>6, <1>7, <1>8, <2>1, <2>2 DEF LogOK
<1>10. HabOK(0, hist)'
  <2>1. StateOf(h) \in HabStateType
    BY <1>3, Restored DEF Stands
  <2> QED
    BY <1>4, <1>5, <1>8, <2>1 DEF HabOK, Init
<1>11. SentOK(e.i, 0, hist)'
  BY <1>7, <1>8 DEF SentOK
<1>12. VerifierOK(e.i, 0, hist)'
  BY <1>4, <1>5 DEF VerifierOK, Init, DirectInit, directVars
<1>13. ReceiptsOK(e.i, 0)'
  BY <1>5 DEF ReceiptsOK, Init, DirectInit, directVars
<1> QED
  BY <1>9, <1>10, <1>11, <1>12, <1>13 DEF ControllerOK, HistoryOK

\* The history goes on with the Hab h
Longer(hist, n, h) == [s \in 0..(n + 1) |-> IF s = n + 1 THEN h ELSE hist[s]]

\* What the Hab signs next goes to the end of its log
LEMMA SignKeeps ==
  ASSUME NEW p, NEW n, NEW hist, HistoryOK(p, n, hist), n < MaxSn,
         NEW e, NEW h, Stands(e, h), Continues(e, hist[n], h), Emit(e, h.signers), hab' = h,
         UNCHANGED <<record, saved, kept, directVars>>
  PROVE  HistoryOK(p, n + 1, Longer(hist, n, h))'
<1> DEFINE new == Longer(hist, n, h)
<1>1. /\ LogOK(p, n, hist) /\ HabOK(n, hist) /\ SentOK(p, n, hist)
      /\ VerifierOK(p, n, hist) /\ ReceiptsOK(p, n)
  BY DEF HistoryOK
<1>2. /\ p \in Prefix /\ n \in 0..MaxSn /\ n \in Nat /\ n + 1 \in 0..MaxSn /\ MaxSn \in Nat
      /\ hist[n].prefix = p /\ hist[n].sn = n
  BY <1>1, ConfigsAssumption DEF LogOK
<1>3. e.i = p /\ e.s = n + 1 /\ h.prefix = p /\ h.sn = n + 1 /\ h # NoHab /\ e # NoEvent
  BY <1>2, StandsFields DEF Continues, Stands
<1>4. /\ OwnShape' /\ own'[p][n + 1] = e
      /\ \A q \in Prefix, s \in 0..MaxSn : (q # p \/ s # n + 1) => own'[q][s] = own[q][s]
      /\ sent' = sent \cup {[ev |-> e, sigs |-> SignAll(h.signers)]}
  BY <1>1, <1>2, <1>3, EmitPlace DEF LogOK
<1>5. \A s \in 0..n : own'[p][s] = own[p][s] /\ s \in 0..(n + 1) /\ s # n + 1
  BY <1>2, <1>4
<1>6. /\ new[n + 1] = h /\ \A s \in 0..n : new[s] = hist[s]
      /\ n + 1 \in 0..(n + 1) /\ \A s \in 0..(n + 1) : s = n + 1 \/ s \in 0..n
  BY <1>2 DEF Longer
<1> HIDE DEF new
<1>7. LogOK(p, n + 1, new)'
  <2>1. \A s \in 0..(n + 1) : Stands(own'[p][s], new[s]) /\ new[s].prefix = p /\ new[s].sn = s
    BY <1>1, <1>3, <1>4, <1>5, <1>6 DEF LogOK
  <2>2. Begins(own'[p][0], new[0])
    <3>1. 0 \in 0..n
      BY <1>2
    <3> QED
      BY <1>1, <1>5, <1>6, <3>1 DEF LogOK
  <2>3. \A s \in 1..(n + 1) : Continues(own'[p][s], new[s - 1], new[s])
    <3> TAKE s \in 1..(n + 1)
    <3>1. CASE s = n + 1
      <4>1. s - 1 = n /\ n \in 0..n
        BY <1>2, <3>1
      <4> QED
        BY <1>4, <1>6, <3>1, <4>1
    <3>2. CASE s # n + 1
      <4>1. s \in 1..n /\ s \in 0..n /\ s - 1 \in 0..n
        BY <1>2, <3>2
      <4> QED
        BY <1>1, <1>5, <1>6, <4>1 DEF LogOK
    <3> QED
      BY <3>1, <3>2
  <2>4. \A q \in Prefix, s \in 0..MaxSn : own'[q][s] # NoEvent => q = p /\ s <= n + 1
    <3> TAKE q \in Prefix, s \in 0..MaxSn
    <3>1. CASE q # p \/ s # n + 1
      <4>1. own'[q][s] # NoEvent => q = p /\ s <= n
        BY <1>1, <1>4, <3>1 DEF LogOK
      <4> QED
        BY <1>2, <4>1
    <3> QED
      BY <1>2, <3>1
  <2>5. \E l \in 0..(n + 1) : Installed(h, l)'
    <3>1. CASE e.t = "rot"
      <4>1. Installed(h, n + 1)'
        <5>1. \A j \in (n + 1 + 1)..(n + 1) : FALSE
          BY <1>2
        <5> QED
          BY <1>3, <1>4, <3>1, <5>1 DEF Installed, Establishment, Continues
      <4> QED
        BY <1>6, <4>1
    <3>2. CASE e.t # "rot"
      <4>1. /\ e.t = "ixn" /\ h.signers = hist[n].signers
            /\ h.next_signers = hist[n].next_signers
        BY <3>2 DEF Continues
      <4>2. PICK l \in 0..n : Installed(hist[n], l)
        BY <1>1 DEF LogOK
      <4>3. \A j \in (l + 1)..(n + 1) : own'[p][j].t \notin Establishment
        <5> TAKE j \in (l + 1)..(n + 1)
        <5>1. CASE j = n + 1
          BY <1>4, <4>1, <5>1 DEF Establishment
        <5>2. CASE j # n + 1
          <6>1. j \in (l + 1)..n /\ j \in 0..n
            BY <1>2, <5>2
          <6> QED
            BY <1>2, <1>5, <4>2, <6>1 DEF Installed
        <5> QED
          BY <5>1, <5>2
      <4>4. Installed(h, l)'
        BY <1>2, <1>3, <1>5, <4>1, <4>2, <4>3 DEF Installed
      <4> QED
        BY <1>5, <4>4
    <3> QED
      BY <3>1, <3>2
  <2> QED
    BY <1>2, <1>4, <1>6, <2>1, <2>2, <2>3, <2>4, <2>5 DEF LogOK
<1>8. HabOK(n + 1, new)'
  BY <1>1, <1>3, <1>6 DEF HabOK
<1>9. SentOK(p, n + 1, new)'
  <2> SUFFICES ASSUME NEW m \in sent'
               PROVE  \E s \in 0..(n + 1) :
                        m = [ev |-> own'[p][s], sigs |-> SignAll(new[s].signers)]
    BY <1>4 DEF SentOK
  <2>1. CASE m \in sent
    <3>1. PICK s \in 0..n : m = [ev |-> own[p][s], sigs |-> SignAll(hist[s].signers)]
      BY <1>1, <2>1 DEF SentOK
    <3>2. s \in 0..(n + 1) /\ own'[p][s] = own[p][s] /\ new[s] = hist[s]
      BY <1>5, <1>6
    <3> QED
      BY <3>1, <3>2
  <2>2. CASE m = [ev |-> e, sigs |-> SignAll(h.signers)]
    BY <1>4, <1>6, <2>2
  <2> QED
    BY <1>4, <2>1, <2>2
<1>10. VerifierOK(p, n + 1, new)'
  <2>1. UNCHANGED <<kevers, fels, evts>> /\ sent \subseteq sent'
    BY <1>4 DEF directVars
  <2>2. ASSUME kevers[p] # NoKever
        PROVE  \E k \in 0..(n + 1) : FollowsTo(p, k, new)'
    <3>1. PICK k \in 0..n : FollowsTo(p, k, hist)
      BY <1>1, <2>2 DEF VerifierOK
    <3>2. \A s \in 0..k : s \in 0..n
      BY <1>2
    <3>3. \A s \in 1..k : s \in 0..n /\ s - 1 \in 0..n
      BY <1>2
    <3>4. FollowsTo(p, k, new)'
      BY <1>5, <1>6, <2>1, <3>1, <3>2, <3>3 DEF FollowsTo
    <3> QED
      BY <1>5, <3>4
  <2>3. \A d \in DOMAIN evts' : evts'[d] \in {m.ev : m \in sent'}
    BY <1>1, <2>1 DEF VerifierOK
  <2> QED
    BY <1>1, <2>1, <2>2, <2>3 DEF VerifierOK
<1>11. ReceiptsOK(p, n + 1)'
  <2>1. UNCHANGED <<kept, rcts>> /\ sent \subseteq sent'
    BY <1>4 DEF directVars
  <2>2. \A s \in 0..n : own'[p][s] = own[p][s] /\ s \in 0..(n + 1)
    BY <1>5
  <2> QED
    BY <1>1, <2>1, <2>2 DEF ReceiptsOK
<1>12. HistoryOK(p, n + 1, new)'
  BY <1>7, <1>8, <1>9, <1>10, <1>11 DEF HistoryOK
<1> QED
  BY <1>12 DEF new

\* What the network delivers changes nothing of the controller.  An event is
\* accepted only next to the Hab that the verifier's key state matches.
LEMMA DeliverKeeps ==
  ASSUME NEW p, NEW n, NEW hist, HistoryOK(p, n, hist),
         NEW m \in sent, NEW habs, Deliver(m, habs)
  PROVE  HistoryOK(p, n, hist)'
<1>1. /\ LogOK(p, n, hist) /\ HabOK(n, hist) /\ SentOK(p, n, hist)
      /\ VerifierOK(p, n, hist) /\ ReceiptsOK(p, n)
  BY DEF HistoryOK
<1>2. PICK s \in 0..n : m = [ev |-> own[p][s], sigs |-> SignAll(hist[s].signers)]
  BY <1>1 DEF SentOK
<1>3. PICK e, h, x : e = own[p][s] /\ h = hist[s] /\ x = WithReceipts(m, habs)
  OBVIOUS
<1>4. /\ Stands(e, h) /\ h.prefix = p /\ h.sn = s /\ e.i = p /\ e.s = s
      /\ p \in Prefix /\ s \in SeqNo /\ s \in Nat /\ n \in Nat /\ e.d \in Digest
  BY <1>1, <1>2, <1>3, StandsFields, ConfigsAssumption DEF LogOK, Stands
<1>5. x.ev = e /\ m.ev = e
  BY <1>2, <1>3 DEF WithReceipts
<1>6. ProcessParsed(x) /\ UNCHANGED <<controllerVars, kept>>
  BY <1>3 DEF Deliver
<1>7. e.t \in {"icp", "rot", "ixn"}
  <2>1. CASE s = 0
    BY <1>1, <1>3, <2>1 DEF LogOK, Begins
  <2>2. CASE s # 0
    <3>1. s \in 1..n
      BY <1>4, <2>2
    <3> QED
      BY <1>1, <1>3, <3>1 DEF LogOK, Continues
  <2> QED
    BY <2>1, <2>2
<1>8. UNCHANGED rcts /\ (UNCHANGED evts \/ evts' = Put(evts, e.d, e))
  BY <1>5, <1>6, <1>7 DEF ProcessParsed, ProcessInception, ProcessUpdate, Skip, PutReceipts, PutOther,
                          StoreEvent, Establishment, directVars
<1>9. LogOK(p, n, hist)' /\ HabOK(n, hist)' /\ SentOK(p, n, hist)'
  <2>1. UNCHANGED <<hab, record, saved, own, sent>>
    BY <1>6 DEF controllerVars
  <2> QED
    BY <1>1, <2>1 DEF LogOK, HabOK, SentOK, OwnShape, Installed
<1>10. ReceiptsOK(p, n)'
  BY <1>1, <1>6, <1>8 DEF ReceiptsOK, controllerVars
<1>11. \A d \in DOMAIN evts' : evts'[d] \in {y.ev : y \in sent'}
  BY <1>1, <1>5, <1>6, <1>8 DEF VerifierOK, Put, controllerVars
<1>12. UNCHANGED <<own, sent>>
  BY <1>6 DEF controllerVars
<1>13. ASSUME UNCHANGED <<kevers, fels>>
       PROVE  VerifierOK(p, n, hist)'
  BY <1>1, <1>11, <1>12, <1>13 DEF VerifierOK, FollowsTo
<1>14. ASSUME NEW st, st \in KeyStateType, Matches(st, h), StoreEvent(e),
              kevers' = [kevers EXCEPT ![p] = st],
              \A r \in 0..(s - 1) : fels[p][r] = own[p][r].d,
              \A r \in 1..s : WellConfigured(own[p][r], hist[r - 1].backers)
       PROVE  VerifierOK(p, n, hist)'
  <2>1. /\ kevers \in [Prefix -> KeyStateType \cup {NoKever}]
        /\ fels \in [Prefix -> [SeqNo -> Digest \cup {NoSaid}]]
        /\ \A q \in Prefix : kevers[q] # NoKever => q = p
    BY <1>1 DEF VerifierOK
  <2>2. fels' = [fels EXCEPT ![p][s] = e.d]
    BY <1>4, <1>14 DEF StoreEvent
  <2>3. /\ fels' \in [Prefix -> [SeqNo -> Digest \cup {NoSaid}]]
        /\ fels'[p][s] = e.d /\ \A r \in SeqNo : r # s => fels'[p][r] = fels[p][r]
    BY <1>4, <2>1, <2>2
  <2>4. /\ kevers' \in [Prefix -> KeyStateType \cup {NoKever}]
        /\ kevers'[p] = st /\ \A q \in Prefix : q # p => kevers'[q] = kevers[q]
    BY <1>4, <1>14, <2>1
  <2>5. \A r \in 0..s : fels'[p][r] = own'[p][r].d
    <3> TAKE r \in 0..s
    <3>1. CASE r = s
      BY <1>3, <1>12, <2>3, <3>1
    <3>2. CASE r # s
      <4>1. r \in 0..(s - 1) /\ r \in 0..n
        BY <1>4, <3>2
      <4>2. r \in SeqNo
        BY <1>1, <4>1, StandsFields DEF LogOK, Stands
      <4> QED
        BY <1>12, <1>14, <2>3, <3>2, <4>1, <4>2
    <3> QED
      BY <3>1, <3>2
  <2>6. FollowsTo(p, s, hist)'
    BY <1>3, <1>12, <1>14, <2>4, <2>5 DEF FollowsTo
  <2>7. \A q \in Prefix : kevers'[q] # NoKever => q = p
    BY <2>1, <2>4
  <2> QED
    BY <1>2, <1>11, <2>3, <2>4, <2>6, <2>7 DEF VerifierOK
<1>15. ASSUME ProcessInception(x)
       PROVE  VerifierOK(p, n, hist)'
  <2>1. /\ e.t = "icp" /\ e.s = 0 /\ VerifyNew(x) /\ Witnessed(x, FromInception(e))
        /\ StoreEvent(e) /\ kevers' = [kevers EXCEPT ![p] = FromInception(e)]
    BY <1>4, <1>5, <1>15 DEF ProcessInception, VerifyNew, InceptionFieldsOK
  <2>2. s = 0 /\ Begins(e, h)
    BY <1>1, <1>3, <1>4, <2>1 DEF LogOK
  <2>3. Matches(FromInception(e), h)
    BY <1>4, <1>5, <2>1, <2>2, InceptionFollowed
  <2>4. FromInception(e) \in KeyStateType
    BY <2>3 DEF Matches
  <2>5. /\ \A r \in 0..(s - 1) : fels[p][r] = own[p][r].d
        /\ \A r \in 1..s : WellConfigured(own[p][r], hist[r - 1].backers)
    BY <2>2
  <2> QED
    BY <1>14, <2>1, <2>3, <2>4, <2>5
<1>16. ASSUME ProcessUpdate(x)
       PROVE  VerifierOK(p, n, hist)'
  <2>1. PICK st : st = kevers[p]
    OBVIOUS
  <2>2. /\ st # NoKever /\ VerifyUpdate(st, x) /\ Witnessed(x, ApplyUpdate(st, e))
        /\ StoreEvent(e) /\ kevers' = [kevers EXCEPT ![p] = ApplyUpdate(st, e)]
    BY <1>4, <1>5, <1>16, <2>1 DEF ProcessUpdate
  <2>3. PICK k \in 0..n : FollowsTo(p, k, hist)
    BY <1>1, <2>1, <2>2 DEF VerifierOK
  <2>4. Matches(st, hist[k]) /\ st.sn = k
    BY <1>1, <2>1, <2>3 DEF FollowsTo, Matches, LogOK
  <2>5. s = k + 1
    BY <1>4, <1>5, <2>2, <2>4
    DEF VerifyUpdate, VerifyRotation, VerifyInteraction, RotationOK, InteractionOK, Follows
  <2>6. Continues(e, hist[k], h)
    <3>1. s \in 1..n /\ s - 1 = k
      BY <1>4, <2>5
    <3> QED
      BY <1>1, <1>3, <3>1 DEF LogOK
  <2>7. Matches(ApplyUpdate(st, e), h) /\ WellConfigured(e, hist[k].backers)
    BY <1>4, <1>5, <2>2, <2>4, <2>6, UpdateFollowed
  <2>8. ApplyUpdate(st, e) \in KeyStateType
    BY <2>7 DEF Matches
  <2>9. \A r \in 0..(s - 1) : fels[p][r] = own[p][r].d
    BY <2>3, <2>5 DEF FollowsTo
  <2>10. \A r \in 1..s : WellConfigured(own[p][r], hist[r - 1].backers)
    <3> TAKE r \in 1..s
    <3>1. CASE r = s
      <4>1. r - 1 = k
        BY <2>5, <3>1
      <4> QED
        BY <1>3, <2>7, <3>1, <4>1
    <3>2. CASE r # s
      <4>1. r \in 1..k
        BY <2>5, <3>2
      <4> QED
        BY <2>3, <4>1 DEF FollowsTo
    <3> QED
      BY <3>1, <3>2
  <2> QED
    BY <1>14, <2>2, <2>7, <2>8, <2>9, <2>10
<1>17. VerifierOK(p, n, hist)'
  <2>1. \/ ProcessInception(x) \/ ProcessUpdate(x) \/ UNCHANGED <<kevers, fels>>
    BY <1>6 DEF ProcessParsed, Skip, PutReceipts, PutOther, directVars
  <2> QED
    BY <1>13, <1>15, <1>16, <2>1
<1> QED
  BY <1>9, <1>10, <1>17 DEF HistoryOK

\* What the controller and the verifier keep is in order as long as none of it changes
LEMMA UntouchedKeeps ==
  ASSUME NEW p, NEW n, NEW hist,
         LogOK(p, n, hist), HabOK(n, hist), SentOK(p, n, hist), VerifierOK(p, n, hist),
         UNCHANGED <<hab, record, saved, own, sent, kevers, evts, fels>>
  PROVE  LogOK(p, n, hist)' /\ HabOK(n, hist)' /\ SentOK(p, n, hist)' /\ VerifierOK(p, n, hist)'
<1>1. /\ hab' = hab /\ record' = record /\ saved' = saved /\ own' = own
      /\ sent' = sent /\ kevers' = kevers /\ evts' = evts /\ fels' = fels
  OBVIOUS
<1>2. LogOK(p, n, hist)'
  BY <1>1 DEF LogOK, OwnShape, Installed
<1>3. HabOK(n, hist)'
  BY <1>1 DEF HabOK
<1>4. SentOK(p, n, hist)'
  BY <1>1 DEF SentOK
<1>5. VerifierOK(p, n, hist)'
  BY <1>1 DEF VerifierOK, FollowsTo
<1> QED
  BY <1>2, <1>3, <1>4, <1>5

\* A receipt is filed with a witness under the event it is of
LEMMA WitnessKeeps ==
  ASSUME NEW p, NEW n, NEW hist, HistoryOK(p, n, hist),
         NEW w \in WitnessHabs, NEW m \in sent, WitnessReceipts(w, m)
  PROVE  HistoryOK(p, n, hist)'
<1>1. /\ LogOK(p, n, hist) /\ HabOK(n, hist) /\ SentOK(p, n, hist)
      /\ VerifierOK(p, n, hist) /\ ReceiptsOK(p, n)
  BY DEF HistoryOK
<1>2. /\ UNCHANGED <<hab, record, saved, own, sent, kevers, evts, fels, rcts>>
      /\ kept' = [kept EXCEPT ![w] = Put(@, m.ev.d, ReceiptMessage(w, m.ev))]
  BY DEF WitnessReceipts, controllerVars, directVars
<1>3. PICK s \in 0..n : m.ev = own[p][s]
  BY <1>1 DEF SentOK
<1>4. LogOK(p, n, hist)' /\ HabOK(n, hist)' /\ SentOK(p, n, hist)' /\ VerifierOK(p, n, hist)'
  BY <1>1, <1>2, UntouchedKeeps
<1>5. ReceiptsOK(p, n)'
  <2>1. kept = [v \in WitnessHabs |-> kept[v]]
    BY <1>1 DEF ReceiptsOK
  <2>2. /\ kept' = [v \in WitnessHabs |-> kept'[v]]
        /\ kept'[w] = Put(kept[w], m.ev.d, ReceiptMessage(w, m.ev))
        /\ \A v \in WitnessHabs : v # w => kept'[v] = kept[v]
    BY <1>2, <2>1
  <2>3. ASSUME NEW v \in WitnessHabs, NEW d \in DOMAIN kept'[v]
        PROVE  /\ d \in {y.ev.d : y \in sent}
               /\ \E r \in 0..n : kept'[v][d] = ReceiptMessage(v, own[p][r])
    <3>1. CASE v = w /\ d = m.ev.d
      <4>1. kept'[v][d] = ReceiptMessage(v, own[p][s])
        BY <1>3, <2>2, <3>1 DEF Put
      <4> QED
        BY <3>1, <4>1
    <3>2. CASE v # w \/ d # m.ev.d
      <4>1. d \in DOMAIN kept[v] /\ kept'[v][d] = kept[v][d]
        BY <2>2, <2>3, <3>2 DEF Put
      <4> QED
        BY <1>1, <4>1 DEF ReceiptsOK
    <3> QED
      BY <3>1, <3>2
  <2>4. \A v \in WitnessHabs : \A d \in DOMAIN kept'[v] :
          /\ d \in {y.ev.d : y \in sent'}
          /\ \E r \in 0..n : kept'[v][d] = ReceiptMessage(v, own'[p][r])
    BY <1>2, <2>3
  <2>5. \A d \in DOMAIN rcts' :
          \E r \in 0..n : /\ d = ReceiptBody(own'[p][r]).d
                          /\ \A c \in rcts'[d] : c.of = own'[p][r].d
    BY <1>1, <1>2 DEF ReceiptsOK
  <2> QED
    BY <2>2, <2>4, <2>5 DEF ReceiptsOK
<1> QED
  BY <1>4, <1>5 DEF HistoryOK

\* The verifier files what an rct message brings under the SAID of its body
LEMMA DeliverReceiptKeeps ==
  ASSUME NEW p, NEW n, NEW hist, HistoryOK(p, n, hist),
         NEW w \in WitnessHabs, NEW d, DeliverReceipt(w, d)
  PROVE  HistoryOK(p, n, hist)'
<1>1. /\ LogOK(p, n, hist) /\ HabOK(n, hist) /\ SentOK(p, n, hist)
      /\ VerifierOK(p, n, hist) /\ ReceiptsOK(p, n)
  BY DEF HistoryOK
<1>2. PICK s \in 0..n : kept[w][d] = ReceiptMessage(w, own[p][s])
  BY <1>1 DEF ReceiptsOK, DeliverReceipt
<1>3. PICK e, x : e = own[p][s] /\ x = ReceiptMessage(w, e)
  OBVIOUS
<1>4. x.ev = ReceiptBody(e) /\ x.couples = ReceiptCouples(w, e) /\ x.ev.t = "rct"
  BY <1>3 DEF ReceiptMessage, ReceiptBody, Address
<1>5. ProcessParsed(x) /\ UNCHANGED <<hab, record, saved, own, sent, kept>>
  BY <1>2, <1>3 DEF DeliverReceipt, controllerVars
<1>6. /\ UNCHANGED <<kevers, evts, fels>>
      /\ UNCHANGED rcts \/ rcts' = Put(rcts, x.ev.d, x.couples)
  BY <1>4, <1>5 DEF ProcessParsed, ProcessInception, VerifyNew, ProcessUpdate, Skip, PutReceipts, PutOther,
                    directVars
<1>7. LogOK(p, n, hist)' /\ HabOK(n, hist)' /\ SentOK(p, n, hist)' /\ VerifierOK(p, n, hist)'
  BY <1>1, <1>5, <1>6, UntouchedKeeps
<1>8. ReceiptsOK(p, n)'
  <2>1. \A c \in x.couples : c.of = e.d
    BY <1>4 DEF ReceiptCouples
  <2>2. \A y \in DOMAIN rcts' :
          \E r \in 0..n : /\ y = ReceiptBody(own[p][r]).d
                          /\ \A c \in rcts'[y] : c.of = own[p][r].d
    <3>1. CASE UNCHANGED rcts
      BY <1>1, <3>1 DEF ReceiptsOK
    <3>2. CASE rcts' = Put(rcts, x.ev.d, x.couples)
      <4> TAKE y \in DOMAIN rcts'
      <4>1. CASE y = x.ev.d
        BY <1>3, <1>4, <2>1, <3>2, <4>1 DEF Put
      <4>2. CASE y # x.ev.d
        <5>1. y \in DOMAIN rcts /\ rcts'[y] = rcts[y]
          BY <3>2, <4>2 DEF Put
        <5> QED
          BY <1>1, <5>1 DEF ReceiptsOK
      <4> QED
        BY <4>1, <4>2
    <3> QED
      BY <1>6, <3>1, <3>2
  <2> QED
    BY <1>1, <1>5, <2>2 DEF ReceiptsOK
<1> QED
  BY <1>7, <1>8 DEF HistoryOK

\* Saving, stopping and resuming leave everything but the Hab alone
LEMMA OthersKeep ==
  ASSUME NEW p, NEW n, NEW hist, HistoryOK(p, n, hist), HabOK(n, hist)',
         UNCHANGED <<own, sent, kept, directVars>>
  PROVE  HistoryOK(p, n, hist)'
<1>1. UNCHANGED <<own, sent, kept, kevers, evts, fels, rcts>>
  BY DEF directVars
<1>2. LogOK(p, n, hist) /\ SentOK(p, n, hist) /\ VerifierOK(p, n, hist) /\ ReceiptsOK(p, n)
  BY DEF HistoryOK
<1>3. LogOK(p, n, hist)'
  BY <1>1, <1>2 DEF LogOK, OwnShape, Installed
<1>4. SentOK(p, n, hist)'
  BY <1>1, <1>2 DEF SentOK
<1>5. VerifierOK(p, n, hist)'
  BY <1>1, <1>2 DEF VerifierOK, FollowsTo
<1>6. ReceiptsOK(p, n)'
  <2>1. kept' = [w \in WitnessHabs |-> kept'[w]]
    BY <1>1, <1>2 DEF ReceiptsOK
  <2>2. \A w \in WitnessHabs : \A d \in DOMAIN kept'[w] :
          /\ d \in {m.ev.d : m \in sent'}
          /\ \E s \in 0..n : kept'[w][d] = ReceiptMessage(w, own'[p][s])
    BY <1>1, <1>2 DEF ReceiptsOK
  <2>3. \A d \in DOMAIN rcts' :
          \E s \in 0..n : /\ d = ReceiptBody(own'[p][s]).d
                          /\ \A c \in rcts'[d] : c.of = own'[p][s].d
    BY <1>1, <1>2 DEF ReceiptsOK
  <2> QED
    BY <2>1, <2>2, <2>3 DEF ReceiptsOK
<1> QED
  BY <1>3, <1>4, <1>5, <1>6 DEF HistoryOK

\* A careful embedder goes from one history to the next
LEMMA HistoryKeeps ==
  ASSUME NEW p, NEW n, NEW hist, HistoryOK(p, n, hist), [CarefulNext]_vars
  PROVE  ControllerOK'
<1>1. /\ LogOK(p, n, hist) /\ HabOK(n, hist) /\ SentOK(p, n, hist)
      /\ VerifierOK(p, n, hist) /\ ReceiptsOK(p, n)
  BY DEF HistoryOK
<1>2. PICK g : g = hist[n]
  OBVIOUS
<1>3. /\ g \in HabSet /\ Restorable(g) /\ g.sn = n /\ g # NoHab
      /\ Resumed(StateOf(g)) = g /\ StateOf(g) \in HabStateType
  <2>1. n \in 0..n
    BY <1>1, ConfigsAssumption DEF LogOK
  <2>2. Stands(own[p][n], g) /\ g.sn = n
    BY <1>1, <1>2, <2>1 DEF LogOK
  <2> QED
    BY <2>2, StandsFields, Restored DEF Stands
<1>4. ASSUME HistoryOK(p, n, hist)'
      PROVE  ControllerOK'
  BY <1>4 DEF ControllerOK
<1>5. ASSUME NEW c \in RotationConfigs, Rotate(c)
      PROVE  ControllerOK'
  <2>1. hab = g /\ n < MaxSn /\ g.transferable
    BY <1>1, <1>2, <1>3, <1>5 DEF Rotate, HabOK
  <2>2. PICK e, h : e = RotationOf(g, c) /\ h = RotatedHab(g, c)
    OBVIOUS
  <2>3. Stands(e, h) /\ Continues(e, g, h) /\ h.signers = g.next_signers
    BY <1>3, <2>1, <2>2, RotationMade
  <2>4. hab' = h /\ Emit(e, h.signers) /\ UNCHANGED <<record, saved, kept, directVars>>
    BY <1>5, <2>1, <2>2, <2>3 DEF Rotate
  <2>5. HistoryOK(p, n + 1, Longer(hist, n, h))'
    BY <1>2, <2>1, <2>3, <2>4, SignKeeps
  <2> QED
    BY <2>5 DEF ControllerOK
<1>6. ASSUME NEW seals \in Anchors, Interact(seals)
      PROVE  ControllerOK'
  <2>1. hab = g /\ n < MaxSn
    BY <1>1, <1>2, <1>3, <1>6 DEF Interact, HabOK
  <2>2. PICK e, h : e = InteractionOf(g, seals) /\ h = InteractedHab(g, seals)
    OBVIOUS
  <2>3. Stands(e, h) /\ Continues(e, g, h) /\ h.signers = g.signers
    BY <1>3, <2>1, <2>2, InteractionMade
  <2>4. hab' = h /\ Emit(e, h.signers) /\ UNCHANGED <<record, saved, kept, directVars>>
    BY <1>6, <2>1, <2>2, <2>3 DEF Interact
  <2>5. HistoryOK(p, n + 1, Longer(hist, n, h))'
    BY <1>2, <2>1, <2>3, <2>4, SignKeeps
  <2> QED
    BY <2>5 DEF ControllerOK
<1>7. ASSUME Save
      PROVE  ControllerOK'
  <2>1. hab = g
    BY <1>1, <1>2, <1>7 DEF Save, HabOK
  <2>2. HabOK(n, hist)'
    BY <1>1, <1>2, <1>3, <1>7, <2>1 DEF Save, HabOK
  <2> QED
    BY <1>4, <1>7, <2>2, OthersKeep DEF Save
<1>8. ASSUME StopSaved
      PROVE  ControllerOK'
  <2>1. hab = g
    BY <1>1, <1>2, <1>8 DEF StopSaved, HabOK
  <2>2. HabOK(n, hist)'
    BY <1>1, <1>2, <1>8, <2>1 DEF StopSaved, Stop, HabOK
  <2> QED
    BY <1>4, <1>8, <2>2, OthersKeep DEF StopSaved, Stop
<1>9. ASSUME ResumeSaved
      PROVE  ControllerOK'
  <2>1. saved = StateOf(g)
    BY <1>1, <1>2, <1>9 DEF ResumeSaved, HabOK
  <2>2. HabOK(n, hist)'
    BY <1>1, <1>2, <1>3, <1>9, <2>1 DEF ResumeSaved, HabOK
  <2> QED
    BY <1>4, <1>9, <2>2, OthersKeep DEF ResumeSaved
<1>10. ASSUME Receipting \/ DeliverAny
       PROVE  ControllerOK'
  BY <1>4, <1>10, WitnessKeeps, DeliverReceiptKeeps, DeliverKeeps
  DEF Receipting, DeliverAny, Witnessing
<1>11. ASSUME UNCHANGED vars
       PROVE  ControllerOK'
  <2>1. UNCHANGED <<hab, record, saved, own, sent, kept, directVars>>
    BY <1>11 DEF vars, controllerVars
  <2>2. HabOK(n, hist)'
    BY <1>1, <2>1 DEF HabOK
  <2> QED
    BY <1>4, <2>1, <2>2, OthersKeep
<1>12. ~Begin
  BY <1>1 DEF Begin, SentOK
<1> QED
  BY <1>5, <1>6, <1>7, <1>8, <1>9, <1>10, <1>11, <1>12 DEF CarefulNext, Sign

\* Before the inception nothing else can happen
LEMMA InitKeeps ==
  ASSUME Init, [CarefulNext]_vars
  PROVE  ControllerOK'
<1>1. CASE Begin
  BY <1>1, BeginKeeps DEF Begin
<1>2. ~Sign /\ ~Save /\ ~StopSaved /\ ~ResumeSaved /\ ~DeliverAny
  BY DEF Init, Sign, Rotate, Interact, Save, StopSaved, ResumeSaved, DeliverAny
<1>3. ~Receipting
  BY DEF Init, Receipting, Witnessing
<1>4. CASE UNCHANGED vars
  BY <1>4 DEF vars, controllerVars, directVars, Init, DirectInit, ControllerOK
<1> QED
  BY <1>1, <1>2, <1>3, <1>4 DEF CarefulNext

\* The Hab, its log and its followers in all behaviours of a careful embedder
LEMMA ControllerInvariant == CarefulSpec => []ControllerOK
<1>1. Init => ControllerOK
  BY DEF ControllerOK
<1>2. ControllerOK /\ [CarefulNext]_vars => ControllerOK'
  BY InitKeeps, HistoryKeeps DEF ControllerOK
<1> QED
  BY <1>1, <1>2, PTL DEF CarefulSpec

----------------------------------------------------------------------------
(* The controller.                                                         *)

\* A place in the history, seen from an event that was handed out
LEMMA SentPlace ==
  ASSUME NEW p, NEW n, NEW hist, HistoryOK(p, n, hist), NEW m \in sent
  PROVE  \E s \in 0..n :
           /\ m.ev = own[p][s] /\ m.sigs = SignAll(hist[s].signers)
           /\ Stands(m.ev, hist[s]) /\ m.ev.i = p /\ m.ev.s = s /\ s \in Nat
           /\ m.ev \in Event /\ VerifySaid(m.ev)
<1>1. LogOK(p, n, hist) /\ SentOK(p, n, hist)
  BY DEF HistoryOK
<1>2. PICK s \in 0..n : m = [ev |-> own[p][s], sigs |-> SignAll(hist[s].signers)]
  BY <1>1 DEF SentOK
<1>3. m.ev = own[p][s] /\ m.sigs = SignAll(hist[s].signers)
  BY <1>2
<1>4. Stands(m.ev, hist[s]) /\ hist[s].prefix = p /\ hist[s].sn = s
  BY <1>1, <1>3 DEF LogOK
<1>5. m.ev.i = p /\ m.ev.s = s /\ m.ev \in Event /\ VerifySaid(m.ev) /\ m.ev.s \in Nat
  BY <1>4, StandsFields DEF Stands
<1> QED
  BY <1>3, <1>4, <1>5

\* A Hab that is saved before every stop and resumed from what was saved never
\* signs two events for one place in its log (Hab::state, Hab::resume).
THEOREM ControllerNoEquivocation == CarefulSpec => []NoEquivocation
<1>1. ControllerOK => NoEquivocation
  <2>1. Init => NoEquivocation
    BY DEF Init, NoEquivocation
  <2>2. ASSUME NEW p, NEW n, NEW hist, HistoryOK(p, n, hist), NEW m \in sent, NEW o \in sent,
               m.ev.s = o.ev.s
        PROVE  m.ev = o.ev
    BY <2>2, SentPlace
  <2> QED
    BY <2>1, <2>2 DEF ControllerOK, NoEquivocation
<1> QED
  BY <1>1, ControllerInvariant, PTL

\* Its signers are those its own log installed last, and its next signers those
\* the log committed to, although only generations and counts are saved
\* (rotate_inner, Hab::resume).
THEOREM ControllerSignersMatchOwnLog == CarefulSpec => []SignersMatchOwnLog
<1>1. ControllerOK => SignersMatchOwnLog
  <2> SUFFICES ASSUME ControllerOK, hab # NoHab
               PROVE  SignersMatchOwnLog
    BY DEF SignersMatchOwnLog
  <2> DEFINE q == hab.prefix
             Is(l) == /\ own[q][l].t \in Establishment
                      /\ \A j \in (l + 1)..hab.sn : own[q][j].t \notin Establishment
  <2>1. PICK p, n, hist : HistoryOK(p, n, hist)
    BY DEF ControllerOK, Init
  <2>2. /\ hab = hist[n] /\ LogOK(p, n, hist) /\ n \in Nat /\ n \in 0..n
    BY <2>1, ConfigsAssumption DEF HistoryOK, HabOK, LogOK
  <2>3. hab.prefix = p /\ hab.sn = n /\ own[p][n].d = hab.last_said
    BY <2>2 DEF LogOK, Stands
  <2>4. PICK l \in 0..n : Installed(hab, l)
    BY <2>2 DEF LogOK
  <2>5. l \in 0..hab.sn /\ hab.sn \in Nat /\ Is(l)
    BY <2>2, <2>3, <2>4 DEF Installed
  <2>6. ASSUME NEW r \in 0..hab.sn, Is(r)
        PROVE  r = l
    <3>1. ~(r < l)
      BY <2>5, <2>6
    <3>2. ~(l < r)
      BY <2>5, <2>6
    <3> QED
      BY <2>5, <3>1, <3>2
  <2>7. LastEstablishment(q, hab.sn) = l
    <3>1. LastEstablishment(q, hab.sn) = CHOOSE r \in 0..hab.sn : Is(r)
      BY DEF LastEstablishment
    <3> HIDE DEF Is
    <3> QED
      BY <2>5, <2>6, <3>1
  <2> QED
    BY <2>3, <2>4, <2>7 DEF SignersMatchOwnLog, Installed
<1> QED
  BY <1>1, ControllerInvariant, PTL

----------------------------------------------------------------------------
(* The verifier.                                                           *)

\* Each Hab of the history stands at an event of its own
LEMMA OneHabAt ==
  ASSUME NEW p, NEW n, NEW hist, LogOK(p, n, hist), NEW j \in 0..n, NEW k \in 0..n,
         hist[j].last_said = hist[k].last_said
  PROVE  j = k
<1>1. /\ Stands(own[p][j], hist[j]) /\ hist[j].sn = j
      /\ Stands(own[p][k], hist[k]) /\ hist[k].sn = k
  BY DEF LogOK
<1>2. /\ own[p][j] \in Event /\ VerifySaid(own[p][j])
      /\ own[p][k] \in Event /\ VerifySaid(own[p][k])
  BY <1>1, StandsFields
<1>3. own[p][j] = own[p][k]
  BY <1>1, <1>2, SaidIsBinding DEF Stands
<1> QED
  BY <1>1, <1>3 DEF Stands

\* The state is well typed.
LEMMA HistoryTypeOK ==
  ASSUME NEW p, NEW n, NEW hist, HistoryOK(p, n, hist)
  PROVE  TypeOK
<1>1. /\ LogOK(p, n, hist) /\ HabOK(n, hist) /\ VerifierOK(p, n, hist) /\ ReceiptsOK(p, n)
  BY DEF HistoryOK
<1>2. hab \in HabType \cup {NoHab}
  <2>1. n \in 0..n
    BY <1>1, ConfigsAssumption DEF LogOK
  <2> QED
    BY <1>1, <2>1, StandsFields DEF LogOK, HabOK
<1>3. \A q \in Prefix, s \in 0..MaxSn : own[q][s] # NoEvent => own[q][s].i = q /\ own[q][s].s = s
  <2> SUFFICES ASSUME NEW q \in Prefix, NEW s \in 0..MaxSn, own[q][s] # NoEvent
               PROVE  own[q][s].i = q /\ own[q][s].s = s
    OBVIOUS
  <2>1. q = p /\ s \in 0..n
    BY <1>1, ConfigsAssumption DEF LogOK
  <2> QED
    BY <1>1, <2>1 DEF LogOK, Stands
<1>4. /\ DOMAIN kept = WitnessHabs
      /\ \A w \in WitnessHabs : DOMAIN kept[w] \subseteq {m.ev.d : m \in sent}
  BY <1>1 DEF ReceiptsOK
<1> QED
  BY <1>1, <1>2, <1>3, <1>4 DEF TypeOK, HabOK, VerifierOK

\* What a verifier knows of an identifier is a prefix of the controller's own
\* log, whatever was lost, repeated and reordered, and once it is at the event
\* the Hab is at it agrees with the Hab on keys, commitments and witnesses
\* (process_parsed and Kever::update against rotate_inner and Hab::resume).
THEOREM ControllerVerifierFollows == CarefulSpec => []VerifierFollows
<1>1. Init => VerifierFollows
  BY NoKeverAssumption DEF Init, DirectInit, VerifierFollows, TypeOK
<1>2. ASSUME NEW p, NEW n, NEW hist, HistoryOK(p, n, hist)
      PROVE  VerifierFollows
  <2>1. /\ LogOK(p, n, hist) /\ HabOK(n, hist) /\ VerifierOK(p, n, hist)
    BY <1>2 DEF HistoryOK
  <2>2. ASSUME NEW q \in Prefix, NEW st, st = kevers[q], st # NoKever
        PROVE  /\ \A s \in 0..st.sn : own[q][s] # NoEvent /\ fels[q][s] = own[q][s].d
               /\ hab # NoHab /\ hab.prefix = q /\ st.last_event_digest = hab.last_said =>
                    /\ st.sn = hab.sn
                    /\ st.keys = hab.signers
                    /\ st.next_keys = Digests(hab.next_signers)
                    /\ st.backer_threshold = hab.backer_threshold
                    /\ st.backers = hab.backers
    <3>1. q = p
      BY <2>1, <2>2 DEF VerifierOK
    <3>2. PICK k \in 0..n : FollowsTo(p, k, hist)
      BY <2>1, <2>2, <3>1 DEF VerifierOK
    <3>3. Matches(st, hist[k]) /\ n \in Nat /\ hist[k].sn = k
      BY <2>1, <2>2, <3>1, <3>2, ConfigsAssumption DEF FollowsTo, LogOK
    <3>4. st.sn = k
      BY <3>3 DEF Matches
    <3>5. \A s \in 0..st.sn : own[q][s] # NoEvent /\ fels[q][s] = own[q][s].d
      <4> TAKE s \in 0..st.sn
      <4>1. s \in 0..n /\ s \in 0..k
        BY <3>3, <3>4
      <4>2. Stands(own[p][s], hist[s])
        BY <2>1, <4>1 DEF LogOK
      <4> QED
        BY <3>1, <3>2, <4>1, <4>2, StandsFields DEF FollowsTo
    <3>6. ASSUME hab # NoHab, st.last_event_digest = hab.last_said
          PROVE  k = n /\ hab = hist[n]
      <4>1. hab = hist[n] /\ hist[k].last_said = hist[n].last_said /\ n \in 0..n
        BY <2>1, <3>3, <3>6 DEF HabOK, Matches
      <4> QED
        BY <2>1, <4>1, OneHabAt
    <3> QED
      BY <3>3, <3>5, <3>6 DEF Matches
  <2> QED
    BY <1>2, <2>2, HistoryTypeOK DEF VerifierFollows
<1>3. ControllerOK => VerifierFollows
  BY <1>1, <1>2 DEF ControllerOK
<1> QED
  BY <1>3, ControllerInvariant, PTL

\* The receipts of all witnesses are there.
LEMMA AllReceipted ==
  ASSUME NEW m
  PROVE  Witness \subseteq ReceiptedBy(WithReceipts(m, Witnessing))
<1> SUFFICES ASSUME NEW w \in Witness
             PROVE  w \in ReceiptedBy(WithReceipts(m, Witnessing))
  OBVIOUS
<1>1. PICK h \in Witnessing : ~h.transferable /\ h.signers[1] = w
  BY WitnessHabsAssumption DEF Witnessing
<1>2. [w |-> w, of |-> m.ev.d] \in ReceiptCouples(h, m.ev)
  BY <1>1 DEF ReceiptCouples
<1>3. [w |-> w, of |-> m.ev.d] \in CollectWitnessReceipts(m.ev, Witnessing)
  BY <1>2 DEF CollectWitnessReceipts
<1> QED
  BY <1>3 DEF ReceiptedBy, WithReceipts

\* Whatever rotations, interactions and resumptions went before, the verifier
\* accepts the next event of the Hab once its witnesses have receipted it: what
\* rotate_inner and interact make is what verify_update and the receipt check
\* ask for.
THEOREM ControllerNextEventVerifies == CarefulSpec => []NextEventVerifies
<1>1. Init => NextEventVerifies
  BY DEF Init, NextEventVerifies
<1>2. ASSUME NEW p, NEW n, NEW hist, HistoryOK(p, n, hist)
      PROVE  NextEventVerifies
  <2> SUFFICES ASSUME NEW m \in sent, NEW st, st = kevers[m.ev.i], m.ev.t # "icp",
                      st # NoKever, st.last_event_digest = m.ev.p,
                      WellConfigured(m.ev, st.backers),
                      NEW full, full = WithReceipts(m, Witnessing)
               PROVE  VerifyUpdate(st, full) /\ Witnessed(full, ApplyUpdate(st, m.ev))
    BY DEF NextEventVerifies
  <2>1. LogOK(p, n, hist) /\ VerifierOK(p, n, hist)
    BY <1>2 DEF HistoryOK
  <2>2. PICK s \in 0..n : /\ m.ev = own[p][s] /\ m.sigs = SignAll(hist[s].signers)
                          /\ Stands(m.ev, hist[s]) /\ m.ev.i = p /\ s \in Nat
    BY <1>2, SentPlace
  <2>3. PICK k \in 0..n : FollowsTo(p, k, hist)
    BY <2>1, <2>2 DEF VerifierOK
  <2>4. Matches(st, hist[k])
    BY <2>2, <2>3 DEF FollowsTo
  <2>5. s \in 1..n /\ s - 1 \in 0..n
    <3>1. s # 0
      BY <2>1, <2>2 DEF LogOK, Begins
    <3>2. n \in Nat
      BY <2>1, ConfigsAssumption DEF LogOK
    <3> QED
      BY <2>2, <3>1, <3>2
  <2>6. Continues(m.ev, hist[s - 1], hist[s])
    BY <2>1, <2>2, <2>5 DEF LogOK
  <2>7. k = s - 1
    <3>1. hist[k].last_said = hist[s - 1].last_said
      BY <2>4, <2>6 DEF Matches, Continues
    <3> QED
      BY <2>1, <2>5, <3>1, OneHabAt
  <2>8. /\ full.ev = m.ev /\ full.sigs = SignAll(hist[s].signers)
        /\ Witness \subseteq ReceiptedBy(full)
    BY <2>2, AllReceipted DEF WithReceipts
  <2> QED
    BY <2>2, <2>4, <2>6, <2>7, <2>8, UpdateVerifies
<1>3. ControllerOK => NextEventVerifies
  BY <1>1, <1>2 DEF ControllerOK
<1> QED
  BY <1>3, ControllerInvariant, PTL

----------------------------------------------------------------------------
(* What can be verified, and receipts.                                     *)

\* The backers that the log leads to are those of the Habs of the history
LEMMA BackersAtHistory ==
  ASSUME NEW p, NEW n, NEW hist, LogOK(p, n, hist), NEW k \in 0..n
  PROVE  \A s \in 0..k : BackersAt(p, k)[s] = hist[s].backers
<1> DEFINE At(f, s) ==
             IF s = 0 THEN own[p][0].b
             ELSE IF own[p][s].t = "rot" THEN UpdateBackers(f[s - 1], own[p][s].br, own[p][s].ba)
             ELSE f[s - 1]
           list == [s \in 0..k |-> hist[s].backers]
           Found == CHOOSE f : f = [s \in 0..k |-> At(f, s)]
<1>1. n \in Nat /\ k \in Nat /\ 0 \in 0..k /\ \A s \in 0..k : s \in 0..n
  BY ConfigsAssumption DEF LogOK
<1>2. \A s \in 1..k : s # 0 /\ s \in 1..n /\ s \in 0..k /\ s - 1 \in 0..k
  BY <1>1
<1>3. \A s \in 0..k : list[s] = At(list, s)
  <2> TAKE s \in 0..k
  <2>1. CASE s = 0
    BY <1>1, <2>1 DEF LogOK, Begins
  <2>2. CASE s # 0
    <3>1. s \in 1..k
      BY <1>1, <2>2
    <3>2. /\ Continues(own[p][s], hist[s - 1], hist[s])
          /\ list[s] = hist[s].backers /\ list[s - 1] = hist[s - 1].backers
      BY <1>2, <3>1 DEF LogOK
    <3> HIDE DEF list
    <3> QED
      BY <2>2, <3>2 DEF Continues
  <2> QED
    BY <2>1, <2>2
<1>4. list = [s \in 0..k |-> At(list, s)]
  BY <1>3
<1>5. Found = [s \in 0..k |-> At(Found, s)]
  <2> HIDE DEF At, list
  <2> QED
    BY <1>4, Zenon
<1>6. BackersAt(p, k) = Found
  BY DEF BackersAt
<1> HIDE DEF Found
<1>7. \A s \in 0..k : Found[s] = At(Found, s)
  <2> HIDE DEF At
  <2> QED
    BY <1>5
<1> DEFINE Wrong == {s \in 0..k : Found[s] # list[s]}
<1>8. Wrong = {}
  <2> SUFFICES ASSUME Wrong # {} PROVE FALSE
    OBVIOUS
  <2> HIDE DEF list, At
  <2>1. Wrong \in SUBSET Nat
    OBVIOUS
  <2>2. PICK least \in Wrong : \A s \in Wrong : least <= s
    BY <2>1, LeastNumber
  <2>3. least \in 0..k /\ Found[least] # list[least]
    OBVIOUS
  <2>4. least # 0
    BY <1>1, <1>3, <1>7, <2>3 DEF At
  <2>5. least - 1 \in 0..k /\ ~(least <= least - 1)
    BY <2>3, <2>4
  <2>6. Found[least - 1] = list[least - 1]
    BY <2>2, <2>5
  <2> QED
    BY <1>3, <1>7, <2>3, <2>4, <2>6 DEF At
<1> QED
  BY <1>6, <1>8

\* The verifier never stands at or past an event that the log's own thresholds
\* rule out, though the Hab signs such an event, stores it and goes on from it
\* (Hab::rotate, which checks neither count).
THEOREM ControllerFollowsOnlyVerifiable == CarefulSpec => []FollowsOnlyVerifiable
<1>1. Init => FollowsOnlyVerifiable
  BY DEF Init, DirectInit, FollowsOnlyVerifiable
<1>2. ASSUME NEW p, NEW n, NEW hist, HistoryOK(p, n, hist)
      PROVE  FollowsOnlyVerifiable
  <2> SUFFICES ASSUME NEW q \in Prefix, kevers[q] # NoKever
               PROVE  Verifiable(q, kevers[q].sn)
    BY DEF FollowsOnlyVerifiable
  <2>1. LogOK(p, n, hist) /\ VerifierOK(p, n, hist)
    BY <1>2 DEF HistoryOK
  <2>2. q = p
    BY <2>1 DEF VerifierOK
  <2>3. PICK k \in 0..n : FollowsTo(p, k, hist)
    BY <2>1, <2>2 DEF VerifierOK
  <2>4. kevers[q].sn = k /\ n \in Nat
    BY <2>1, <2>2, <2>3, ConfigsAssumption DEF FollowsTo, Matches, LogOK
  <2>5. ASSUME NEW s \in 0..k
        PROVE  /\ own[p][s] # NoEvent
               /\ s > 0 => WellConfigured(own[p][s], BackersAt(p, k)[s - 1])
    <3>1. s \in 0..n
      BY <2>4
    <3>2. own[p][s] # NoEvent
      BY <2>1, <3>1, StandsFields DEF LogOK
    <3>3. ASSUME s > 0
          PROVE  WellConfigured(own[p][s], BackersAt(p, k)[s - 1])
      <4>1. s \in 1..k /\ s - 1 \in 0..k
        BY <2>4, <3>3
      <4>2. BackersAt(p, k)[s - 1] = hist[s - 1].backers
        BY <2>1, <4>1, BackersAtHistory
      <4> QED
        BY <2>3, <4>1, <4>2 DEF FollowsTo
    <3> QED
      BY <3>2, <3>3
  <2> QED
    BY <2>2, <2>4, <2>5 DEF Verifiable
<1>3. ControllerOK => FollowsOnlyVerifiable
  BY <1>1, <1>2 DEF ControllerOK
<1> QED
  BY <1>3, ControllerInvariant, PTL

\* The receipts the verifier has stored for a place are for the event that is
\* there, although the body of an rct message names the place only: a careful
\* controller has one event for it (Hab::receipt_message, store_receipt).
THEOREM ControllerReceiptsNameLoggedEvent == CarefulSpec => []ReceiptsNameLoggedEvent
<1>1. Init => ReceiptsNameLoggedEvent
  BY DEF Init, DirectInit, ReceiptsNameLoggedEvent
<1>2. ASSUME NEW p, NEW n, NEW hist, HistoryOK(p, n, hist)
      PROVE  ReceiptsNameLoggedEvent
  <2> SUFFICES ASSUME NEW q \in Prefix, NEW s \in 0..MaxSn, own[q][s] # NoEvent,
                      NEW d, d = ReceiptBody(own[q][s]).d, d \in DOMAIN rcts, NEW c \in rcts[d]
               PROVE  c.of = own[q][s].d
    BY DEF ReceiptsNameLoggedEvent
  <2>1. LogOK(p, n, hist) /\ ReceiptsOK(p, n)
    BY <1>2 DEF HistoryOK
  <2>2. q = p /\ s \in 0..n
    BY <2>1, ConfigsAssumption DEF LogOK
  <2>3. PICK r \in 0..n : d = ReceiptBody(own[p][r]).d /\ c.of = own[p][r].d
    BY <2>1 DEF ReceiptsOK
  <2>4. /\ own[p][s] \in Event /\ own[p][s].s = s
        /\ own[p][r] \in Event /\ own[p][r].s = r
    BY <2>1, <2>2, <2>3, StandsFields DEF LogOK, Stands
  <2>5. r = s
    BY <2>2, <2>3, <2>4, ReceiptIsBinding
  <2> QED
    BY <2>2, <2>3, <2>5
<1>3. ControllerOK => ReceiptsNameLoggedEvent
  BY <1>1, <1>2 DEF ControllerOK
<1> QED
  BY <1>3, ControllerInvariant, PTL
=============================================================================
