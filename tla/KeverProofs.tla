---------------------------- MODULE KeverProofs ----------------------------
(***************************************************************************)
(* Proofs about Kever, for any set of verifiers, identifiers, events and   *)
(* messages and any digest function without collisions.                    *)
(*                                                                         *)
(* Every action commits one entry to one log.  Accepted says what is known *)
(* of that entry; the lemma NextAccepts reduces the actions to it, and the *)
(* invariants are proved against Accepted alone.                           *)
(*                                                                         *)
(* The second half is about histories that reach over several entries of a *)
(* log or over two logs: the commitment to the next keys, which lasts from *)
(* one establishment event to the next, and the anchors of delegated       *)
(* events in the log of the delegator.                                     *)
(***************************************************************************)
EXTENDS Kever, TLAPS, FiniteSetTheorems, WellFoundedInduction

----------------------------------------------------------------------------
(* Key events and the states they lead to.                                 *)

\* A set of natural numbers that is not empty has a least element.
LEMMA LeastNumber ==
  ASSUME NEW S \in SUBSET Nat, S # {}
  PROVE  \E least \in S : \A n \in S : least <= n
<1>1. PICK least \in S : \A n \in S : <<n, least>> \notin OpToRel(<, Nat)
  BY WFMin, NatLessThanWellFounded, Zenon
<1>2. \A n \in S : ~(n < least)
  BY <1>1 DEF OpToRel
<1> QED
  BY <1>2

Incepted(e) == IF e.t = "icp" THEN FromInception(e) ELSE FromDelegatedInception(e)

\* The fields of the event bodies of event.rs that the checks read
LEMMA EventFields ==
  ASSUME NEW e \in Event
  PROVE  /\ e \in KeyEvent
         /\ e.t \in {"icp", "dip", "rot", "drt", "ixn"}
         /\ e.d \in Digest /\ e.i \in Prefix /\ e.s \in Nat
         /\ e.t # "ixn" => /\ e.kt \in ThresholdType /\ e.k \in Seq(Key)
                           /\ e.n \in Seq(Digest) /\ e.bt \in Nat
         /\ e.t \in {"icp", "dip"} => e.b \in [Witness -> Nat]
         /\ e.t \in {"rot", "drt"} => e.br \in SUBSET Witness /\ e.ba \in SUBSET Witness
         /\ e.t \in {"dip", "drt"} => e.di \in Prefix
<1>1. e \in KeyEvent
  BY EventAssumption
<1>2. CASE e \in InceptionEvent
  BY <1>1, <1>2 DEF InceptionEvent
<1>3. CASE e \in DelegatedInceptionEvent
  BY <1>1, <1>3 DEF DelegatedInceptionEvent
<1>4. CASE e \in RotationEvent
  BY <1>1, <1>4 DEF RotationEvent
<1>5. CASE e \in DelegatedRotationEvent
  BY <1>1, <1>5 DEF DelegatedRotationEvent
<1>6. CASE e \in InteractionEvent
  BY <1>1, <1>6 DEF InteractionEvent
<1> QED
  BY <1>1, <1>2, <1>3, <1>4, <1>5, <1>6 DEF KeyEvent

\* Removing and adding backers leaves a list of backers
LEMMA BackersType ==
  ASSUME NEW backers \in [Witness -> Nat], NEW br, NEW ba
  PROVE  UpdateBackers(backers, br, ba) \in [Witness -> Nat]
BY DEF UpdateBackers

\* The state an inception leads to (KeyState::from_inception) is well typed
LEMMA InceptedType ==
  ASSUME NEW e \in Event, e.t \in {"icp", "dip"}
  PROVE  Incepted(e) \in KeyStateType
<1> USE EventFields
<1>1. CASE e.t = "icp"
  BY <1>1 DEF Incepted, FromInception, InceptedState, KeyStateType
<1>2. CASE e.t = "dip"
  BY <1>2 DEF Incepted, FromDelegatedInception, InceptedState, KeyStateType
<1> QED
  BY <1>1, <1>2

\* So is the state any later event leads to (KeyState::apply_rotation and the rest)
LEMMA ApplyType ==
  ASSUME NEW st \in KeyStateType, NEW e \in Event, e.t \in {"rot", "drt", "ixn"}
  PROVE  ApplyUpdate(st, e) \in KeyStateType
<1> USE EventFields
<1>1. CASE e.t = "ixn"
  BY <1>1 DEF ApplyUpdate, ApplyInteraction, KeyStateType
<1>2. CASE e.t # "ixn"
  <2>1. st.backers \in [Witness -> Nat]
    BY DEF KeyStateType
  <2>2. UpdateBackers(st.backers, e.br, e.ba) \in [Witness -> Nat]
    BY <2>1, BackersType
  <2> QED
    BY <1>2, <2>2 DEF ApplyUpdate, ApplyRotation, KeyStateType
<1> QED
  BY <1>1, <1>2

\* No signature at all meets no threshold: a count is positive, and a sum of no
\* weights is 0 (Threshold::is_satisfied).
LEMMA NobodyMeets ==
  ASSUME NEW kt \in ThresholdType, NEW totalKeys
  PROVE  ~IsSatisfied(kt, {}, totalKeys)
<1>1. CASE kt.kind = "simple"
  <2>1. kt.k \in Nat /\ Cardinality({}) = 0
    BY <1>1, FS_EmptySet DEF ThresholdType
  <2> QED
    BY <1>1, <2>1 DEF IsSatisfied
<1>2. CASE kt.kind = "weighted"
  <2> SUFFICES ASSUME kt.clauses # <<>>
               PROVE  \E c \in DOMAIN kt.clauses :
                        ~(ClauseTotal(kt.clauses, c, {}, totalKeys).num
                            >= ClauseTotal(kt.clauses, c, {}, totalKeys).den)
    BY <1>2 DEF IsSatisfied
  <2>1. kt.clauses \in Seq(Seq(Weight))
    BY <1>2 DEF ThresholdType
  <2>2. 1 \in DOMAIN kt.clauses /\ Len(kt.clauses[1]) \in Nat
    BY <2>1
  <2> DEFINE N == Len(kt.clauses[1])
             none == [num |-> 0, den |-> 1, overflow |-> FALSE]
             At(f, j) == IF j = 0 THEN none
                         ELSE IF Counts(kt.clauses, 1, j, {}, totalKeys)
                              THEN AddWeight(f[j - 1], kt.clauses[1][j])
                         ELSE f[j - 1]
             still == [j \in 0..N |-> none]
             Found == CHOOSE f : f = [j \in 0..N |-> At(f, j)]
  <2>3. \A j : ~Counts(kt.clauses, 1, j, {}, totalKeys)
    BY DEF Counts
  <2>4. still = [j \in 0..N |-> At(still, j)]
    BY <2>2, <2>3
  <2>5. Found = [j \in 0..N |-> At(Found, j)]
    <3> HIDE DEF At, still
    <3> QED
      BY <2>4, Zenon
  <2>6. ClauseTotal(kt.clauses, 1, {}, totalKeys) = Found[N]
    BY DEF ClauseTotal
  <2> HIDE DEF Found
  <2>7. \A j \in 0..N : Found[j] = At(Found, j)
    BY <2>5
  <2> DEFINE Wrong == {j \in 0..N : Found[j] # none}
  <2>8. Wrong = {}
    <3> SUFFICES ASSUME Wrong # {} PROVE FALSE
      OBVIOUS
    <3>1. Wrong \in SUBSET Nat
      OBVIOUS
    <3>2. PICK least \in Wrong : \A j \in Wrong : least <= j
      BY <3>1, LeastNumber
    <3>3. least \in 0..N /\ least # 0 /\ Found[least] # none
      BY <2>2, <2>7
    <3>4. least - 1 \in 0..N /\ ~(least <= least - 1)
      BY <2>2, <3>3
    <3>5. Found[least - 1] = none
      BY <3>2, <3>4
    <3> QED
      BY <2>3, <2>7, <3>3, <3>5
  <2>9. Found[N] = none
    BY <2>2, <2>8
  <2> QED
    BY <2>2, <2>6, <2>9
<1> QED
  BY <1>1, <1>2 DEF ThresholdType

\* Without keys no event is signed.
LEMMA NoKeysNoSigs ==
  ASSUME NEW kt \in ThresholdType, NEW sigs
  PROVE  ~VerifySigs(sigs, <<>>, kt)
<1>1. SatisfiedIndices(sigs, <<>>) = {}
  BY DEF SatisfiedIndices
<1> QED
  BY <1>1, NobodyMeets DEF VerifySigs

----------------------------------------------------------------------------
(* The entry an action commits.                                            *)

\* What the verification of e leaves established, whichever action it was in
Accepted(v, e, st) ==
  /\ e \in Event
  /\ VerifySaid(e)
  /\ \/ /\ kevers[v][e.i] = NoKever
        /\ e.t \in {"icp", "dip"}
        /\ e.s = 0
        /\ st = Incepted(e)
     \/ /\ kevers[v][e.i] # NoKever
        /\ e.t \in {"rot", "drt", "ixn"}
        /\ Follows(kevers[v][e.i], e)
        /\ st = ApplyUpdate(kevers[v][e.i], e)
        /\ e.t # "ixn" => VerifyNextKeyCommitment(e.k, kevers[v][e.i].next_keys)
        /\ e.t = "rot" => ~kevers[v][e.i].delegated
        /\ e.t = "drt" => kevers[v][e.i].delegated /\ kevers[v][e.i].delegator = e.di
  /\ e.t # "ixn" => \E sigs : VerifySigs(sigs, e.k, e.kt)
  /\ e.t \in {"dip", "drt"} =>
       /\ e.di # e.i
       /\ \E l \in DOMAIN kel[v][e.di] :
            [i |-> e.i, s |-> e.s, d |-> e.d] \in kel[v][e.di][l].ev.a

\* Every action is the commit of an accepted entry
LEMMA NextAccepts ==
  ASSUME Next
  PROVE  \E v \in Verifier, e \in Event : \E st : Accepted(v, e, st) /\ Commit(v, e, st)
<1>1. PICK v \in Verifier, m \in Message :
        New(v, m) \/ NewDelegated(v, m) \/ Update(v, m) \/ UpdateDelegated(v, m)
  BY DEF Next
<1> DEFINE e == m.ev
           st == kevers[v][e.i]
<1>2. e \in Event
  BY MessageAssumption
<1>3. CASE New(v, m)
  <2>1. Accepted(v, e, FromInception(e))
    BY <1>2, <1>3 DEF New, VerifyNew, Accepted, InceptionFieldsOK, Incepted
  <2> QED
    BY <1>2, <1>3, <2>1 DEF New
<1>4. CASE NewDelegated(v, m)
  <2>1. Accepted(v, e, FromDelegatedInception(e))
    BY <1>2, <1>4, MessageAssumption
       DEF NewDelegated, VerifyNewDelegated, Accepted, InceptionFieldsOK, Incepted,
           VerifyDelegation, Anchored
  <2> QED
    BY <1>2, <1>4, <2>1 DEF NewDelegated
<1>5. CASE Update(v, m)
  <2>1. CASE VerifyRotation(st, m)
    BY <1>2, <1>5, <2>1
       DEF Update, VerifyUpdate, VerifyRotation, MayRotatePlainly, RotationOK, Accepted
  <2>2. CASE VerifyInteraction(st, m)
    BY <1>2, <1>5, <2>2
       DEF Update, VerifyUpdate, VerifyInteraction, InteractionOK, Accepted
  <2> QED
    BY <1>5, <2>1, <2>2 DEF Update, VerifyUpdate
<1>6. CASE UpdateDelegated(v, m)
  <2>1. Accepted(v, e, ApplyRotation(st, e))
    BY <1>2, <1>6, MessageAssumption
       DEF UpdateDelegated, VerifyUpdateDelegated, DelegatedRotationOK, RotationOK, Accepted, ApplyUpdate,
           VerifyDelegation, Anchored
  <2> QED
    BY <1>2, <1>6, <2>1 DEF UpdateDelegated
<1> QED
  BY <1>1, <1>3, <1>4, <1>5, <1>6

----------------------------------------------------------------------------
(* Type correctness.                                                       *)

\* An accepted entry is well-typed
LEMMA AcceptedType ==
  ASSUME TypeOK, NEW v \in Verifier, NEW e \in Event, NEW st, Accepted(v, e, st)
  PROVE  st \in KeyStateType /\ [ev |-> e, st |-> st] \in Entry
<1>1. e.i \in Prefix
  BY EventFields
<1>2. CASE kevers[v][e.i] = NoKever
  BY <1>2, InceptedType DEF Accepted, Entry
<1>3. CASE kevers[v][e.i] # NoKever
  <2>1. kevers[v][e.i] \in KeyStateType
    BY <1>1, <1>3 DEF TypeOK
  <2> QED
    BY <1>3, <2>1, ApplyType DEF Accepted, Entry
<1> QED
  BY <1>2, <1>3

\* Every state of every Kever is a well-formed key state, and every log a
\* sequence of events with the states they led to.
THEOREM KeverTypeCorrect == Spec => []TypeOK
<1>1. Init => TypeOK
  BY DEF Init, TypeOK
<1>2. TypeOK /\ [Next]_vars => TypeOK'
  <2> SUFFICES ASSUME TypeOK, [Next]_vars
               PROVE  TypeOK'
    OBVIOUS
  <2>1. CASE Next
    <3>0. PICK v \in Verifier, e \in Event : \E st : Accepted(v, e, st) /\ Commit(v, e, st)
      BY <2>1, NextAccepts
    <3>1. PICK st : Accepted(v, e, st) /\ Commit(v, e, st)
      BY <3>0
    <3>2. e.i \in Prefix
      BY EventFields
    <3>3. st \in KeyStateType /\ [ev |-> e, st |-> st] \in Entry
      BY <3>1, AcceptedType
    <3>4. kevers' \in [Verifier -> [Prefix -> KeyStateType \cup {NoKever}]]
      BY <3>1, <3>2, <3>3 DEF Commit, TypeOK
    <3>5. Append(kel[v][e.i], [ev |-> e, st |-> st]) \in Seq(Entry)
      BY <3>2, <3>3 DEF TypeOK
    <3>6. kel' \in [Verifier -> [Prefix -> Seq(Entry)]]
      BY <3>1, <3>2, <3>5 DEF Commit, TypeOK
    <3> QED
      BY <3>4, <3>6 DEF TypeOK
  <2>2. CASE UNCHANGED vars
    BY <2>2 DEF vars, TypeOK
  <2> QED
    BY <2>1, <2>2
<1> QED
  BY <1>1, <1>2, PTL DEF Spec

----------------------------------------------------------------------------
(* The shape of the logs.                                                  *)

\* Entry j of the log of p: verified, in place, chained, and leading from the
\* state of the entry before to its own
EntryOK(log, p, j) ==
  LET e == log[j].ev
  IN  /\ VerifySaid(e)
      /\ e.i = p
      /\ e.s = j - 1
      /\ log[j].st.prefix = p
      /\ log[j].st.sn = j - 1
      /\ log[j].st.last_event_digest = e.d
      /\ j = 1 => e.t \in {"icp", "dip"} /\ log[j].st = Incepted(e)
      /\ j > 1 => /\ e.t \in {"rot", "drt", "ixn"}
                  /\ e.p = log[j-1].ev.d
                  /\ log[j].st = ApplyUpdate(log[j-1].st, e)

\* What an entry in order says of its event and its state
LEMMA EntryPlace ==
  ASSUME NEW log, NEW p, NEW j, EntryOK(log, p, j)
  PROVE  /\ log[j].ev.i = p /\ log[j].ev.s = j - 1
         /\ log[j].st.prefix = p /\ log[j].st.sn = j - 1
         /\ log[j].st.last_event_digest = log[j].ev.d
BY DEF EntryOK

\* The first entry leads to the state of an inception
LEMMA EntryFirst ==
  ASSUME NEW log, NEW p, EntryOK(log, p, 1)
  PROVE  log[1].st = Incepted(log[1].ev)
BY DEF EntryOK

\* A later entry leads from the state of the entry before
LEMMA EntryLater ==
  ASSUME NEW log, NEW p, NEW j, EntryOK(log, p, j), j > 1
  PROVE  /\ log[j].ev.p = log[j-1].ev.d
         /\ log[j].st = ApplyUpdate(log[j-1].st, log[j].ev)
BY DEF EntryOK

LogsOK ==
  \A v \in Verifier, p \in Prefix :
    /\ kevers[v][p] = IF kel[v][p] = <<>> THEN NoKever ELSE kel[v][p][Len(kel[v][p])].st
    /\ \A j \in DOMAIN kel[v][p] : EntryOK(kel[v][p], p, j)

\* A commit touches one log, and only appends to it
LEMMA CommitOther ==
  ASSUME TypeOK, NEW v \in Verifier, NEW e \in Event, NEW st, Commit(v, e, st),
         NEW w \in Verifier, NEW q \in Prefix, w # v \/ q # e.i
  PROVE  kel'[w][q] = kel[w][q] /\ kevers'[w][q] = kevers[w][q]
<1>1. e.i \in Prefix
  BY EventFields
<1> QED
  BY <1>1 DEF Commit, TypeOK

\* What Append does
LEMMA Appending ==
  ASSUME NEW S, NEW log \in Seq(S), NEW x \in S
  PROVE  /\ Append(log, x) \in Seq(S)
         /\ Len(Append(log, x)) = Len(log) + 1
         /\ DOMAIN Append(log, x) = 1..(Len(log) + 1)
         /\ \A j \in DOMAIN log : Append(log, x)[j] = log[j]
         /\ Append(log, x)[Len(log) + 1] = x
<1>1. Append(log, x) \in Seq(S) /\ Len(Append(log, x)) = Len(log) + 1
  OBVIOUS
<1>2. DOMAIN Append(log, x) = 1..(Len(log) + 1)
  OBVIOUS
<1>3. \A j \in DOMAIN log : Append(log, x)[j] = log[j]
  OBVIOUS
<1>4. Append(log, x)[Len(log) + 1] = x
  OBVIOUS
<1> QED
  BY <1>1, <1>2, <1>3, <1>4

\* It puts the event and its state at the end of the log
LEMMA CommitLog ==
  ASSUME TypeOK, NEW v \in Verifier, NEW e \in Event, NEW st,
         Accepted(v, e, st), Commit(v, e, st)
  PROVE  LET log == kel[v][e.i]
             new == kel'[v][e.i]
             n   == Len(log) + 1
         IN  /\ log \in Seq(Entry)
             /\ new \in Seq(Entry)
             /\ kevers'[v][e.i] = st
             /\ Len(new) = n
             /\ DOMAIN new = 1..n
             /\ \A j \in DOMAIN log : new[j] = log[j]
             /\ new[n] = [ev |-> e, st |-> st]
<1>1. e.i \in Prefix
  BY EventFields
<1>2. [ev |-> e, st |-> st] \in Entry
  BY AcceptedType
<1>3. kel[v][e.i] \in Seq(Entry)
  BY <1>1 DEF TypeOK
<1>4. /\ kevers'[v][e.i] = st
      /\ kel'[v][e.i] = Append(kel[v][e.i], [ev |-> e, st |-> st])
  BY <1>1 DEF Commit, TypeOK
<1> DEFINE log == kel[v][e.i]
           x   == [ev |-> e, st |-> st]
<1>5. /\ Append(log, x) \in Seq(Entry)
      /\ Len(Append(log, x)) = Len(log) + 1
      /\ DOMAIN Append(log, x) = 1..(Len(log) + 1)
      /\ \A j \in DOMAIN log : Append(log, x)[j] = log[j]
      /\ Append(log, x)[Len(log) + 1] = x
  <2> HIDE DEF log, x
  <2>1. log \in Seq(Entry) /\ x \in Entry
    BY <1>2, <1>3 DEF log, x
  <2> QED
    BY <2>1, Appending
<1> QED
  BY <1>3, <1>4, <1>5, Zenon

\* An accepted entry continues a log that is in order
LEMMA NewEntryOK ==
  ASSUME TypeOK, LogsOK, NEW v \in Verifier, NEW e \in Event, NEW st,
         Accepted(v, e, st), Commit(v, e, st)
  PROVE  LET n == Len(kel[v][e.i]) + 1
         IN  EntryOK(kel'[v][e.i], e.i, n)
<1> DEFINE p == e.i
           log == kel[v][p]
           n == Len(log) + 1
<1>1. p \in Prefix
  BY EventFields
<1>2. /\ log \in Seq(Entry)
      /\ kel'[v][p][n] = [ev |-> e, st |-> st]
      /\ \A j \in DOMAIN log : kel'[v][p][j] = log[j]
  BY <1>1, CommitLog, SMTT(30)
<1>3. kevers[v][p] = IF log = <<>> THEN NoKever ELSE log[Len(log)].st
  BY <1>1 DEF LogsOK
<1>4. CASE kevers[v][p] = NoKever
  <2>1. log = <<>>
    <3> SUFFICES ASSUME log # <<>> PROVE FALSE
      OBVIOUS
    <3>1. Len(log) \in DOMAIN log
      BY <1>2
    <3>2. log[Len(log)] \in Entry
      BY <1>2, <3>1
    <3>3. log[Len(log)].st \in KeyStateType
      BY <3>2 DEF Entry
    <3> QED
      BY <1>3, <1>4, <3>3, NoKeverAssumption
  <2>2. n = 1
    BY <2>1
  <2>3. VerifySaid(e) /\ e.t \in {"icp", "dip"} /\ e.s = 0 /\ st = Incepted(e)
    BY <1>4 DEF Accepted
  <2>4. st.prefix = e.i /\ st.sn = 0 /\ st.last_event_digest = e.d
    BY <2>3 DEF Incepted, FromInception, FromDelegatedInception, InceptedState
  <2>5. kel'[v][p][n].ev = e /\ kel'[v][p][n].st = st
    BY ONLY <1>2
  <2>6. EntryOK(kel'[v][p], p, n)
    <3> HIDE DEF n, log, p
    <3>1. e.i = p
      BY DEF p
    <3> QED
      BY ONLY <2>2, <2>3, <2>4, <2>5, <3>1 DEF EntryOK
  <2> QED
    BY <2>6
<1>5. CASE kevers[v][p] # NoKever
  <2> DEFINE old == kevers[v][p]
  <2>1. log # <<>> /\ old = log[Len(log)].st
    BY <1>3, <1>5
  <2>2. Len(log) \in DOMAIN log /\ Len(log) \in Nat /\ n > 1 /\ n - 1 = Len(log)
    BY <1>2, <2>1
  <2>3. EntryOK(log, p, Len(log))
    BY <1>1, <2>2 DEF LogsOK
  <2>4. old.prefix = p /\ old.sn = n - 2 /\ old.last_event_digest = log[n-1].ev.d
    <3>1. /\ log[Len(log)].st.prefix = p /\ log[Len(log)].st.sn = Len(log) - 1
          /\ log[Len(log)].st.last_event_digest = log[Len(log)].ev.d
      BY ONLY <2>3, EntryPlace
    <3>2. Len(log) - 1 = n - 2
      BY ONLY <2>2
    <3> QED
      BY ONLY <2>1, <2>2, <3>1, <3>2
  <2>5. /\ VerifySaid(e)
        /\ e.t \in {"rot", "drt", "ixn"}
        /\ e.s = old.sn + 1 /\ e.p = old.last_event_digest
        /\ st = ApplyUpdate(old, e)
    BY <1>5 DEF Accepted, Follows
  <2>6. old \in KeyStateType
    BY <1>1, <1>5 DEF TypeOK
  <2>7. st.prefix = old.prefix /\ st.sn = e.s /\ st.last_event_digest = e.d
    BY <2>5, <2>6 DEF ApplyUpdate, ApplyRotation, ApplyInteraction, KeyStateType
  <2>8. e.s = n - 1
    BY <2>2, <2>4, <2>5
  <2>9. kel'[v][p][n-1] = log[n-1]
    BY <1>2, <2>2
  <2>10. EntryOK(kel'[v][p], p, n)
    <3> HIDE DEF log, n, old, p
    <3>1. kel'[v][p][n].ev = e /\ kel'[v][p][n].st = st /\ n # 1
      BY <1>2, <2>2
    <3>2. e.i = p
      BY DEF p
    <3> QED
      BY <2>1, <2>2, <2>4, <2>5, <2>7, <2>8, <2>9, <3>1, <3>2 DEF EntryOK
  <2> QED
    BY <2>10
<1> QED
  BY <1>4, <1>5

\* Logs stay in order, and each Kever holds the state its log ends in
LEMMA LogsInvariant == Spec => []LogsOK
<1>1. Init => LogsOK
  BY DEF Init, LogsOK
<1>2. TypeOK /\ LogsOK /\ [Next]_vars => LogsOK'
  <2> SUFFICES ASSUME TypeOK, LogsOK, [Next]_vars
               PROVE  LogsOK'
    OBVIOUS
  <2>1. CASE Next
    <3>0. PICK v \in Verifier, e \in Event : \E st : Accepted(v, e, st) /\ Commit(v, e, st)
      BY <2>1, NextAccepts
    <3>1. PICK st : Accepted(v, e, st) /\ Commit(v, e, st)
      BY <3>0
    <3>2. ASSUME NEW w \in Verifier, NEW q \in Prefix
          PROVE  /\ kevers'[w][q] = IF kel'[w][q] = <<>> THEN NoKever
                                    ELSE kel'[w][q][Len(kel'[w][q])].st
                 /\ \A j \in DOMAIN kel'[w][q] : EntryOK(kel'[w][q], q, j)
      <4>1. CASE w # v \/ q # e.i
        <5>1. kel'[w][q] = kel[w][q] /\ kevers'[w][q] = kevers[w][q]
          BY <3>1, <4>1, CommitOther
        <5> QED
          BY <3>2, <5>1 DEF LogsOK
      <4>2. CASE w = v /\ q = e.i
        <5> DEFINE log == kel[w][q]
                   n == Len(log) + 1
        <5>1. /\ log \in Seq(Entry)
              /\ kevers'[w][q] = st
              /\ Len(kel'[w][q]) = n
              /\ DOMAIN kel'[w][q] = 1..n
              /\ \A j \in DOMAIN log : kel'[w][q][j] = log[j]
              /\ kel'[w][q][n] = [ev |-> e, st |-> st]
          BY <3>1, <4>2, CommitLog
        <5>2. EntryOK(kel'[w][q], q, n)
          BY <3>1, <4>2, NewEntryOK
        <5>3. ASSUME NEW j \in DOMAIN log
              PROVE  EntryOK(kel'[w][q], q, j)
          <6>1. EntryOK(log, q, j)
            BY <3>2, <5>3 DEF LogsOK
          <6>2. j > 1 => j - 1 \in DOMAIN log
            BY <5>1, <5>3
          <6> HIDE DEF log
          <6> QED
            BY <5>1, <5>3, <6>1, <6>2 DEF EntryOK
        <5>4. \A j \in 1..n : j = n \/ j \in DOMAIN log
          BY <5>1
        <5>5. kel'[w][q] # <<>> /\ kel'[w][q][Len(kel'[w][q])].st = st
          BY <5>1
        <5> QED
          BY <5>1, <5>2, <5>3, <5>4, <5>5
      <4> QED
        BY <4>1, <4>2
    <3> QED
      BY <3>2 DEF LogsOK
  <2>2. CASE UNCHANGED vars
    BY <2>2 DEF vars, LogsOK
  <2> QED
    BY <2>1, <2>2
<1> QED
  BY <1>1, <1>2, KeverTypeCorrect, PTL DEF Spec

\* What a Kever holds is what its log leads to, and the log is an unbroken
\* hash chain (the checks of apply_rotation and apply_interaction against sn
\* and last_event_digest).
THEOREM KeverLogIsChain == Spec => []LogIsChain
<1>1. TypeOK /\ LogsOK => LogIsChain
  BY DEF LogsOK, LogIsChain, EntryOK
<1> QED
  BY <1>1, KeverTypeCorrect, LogsInvariant, PTL

----------------------------------------------------------------------------
(* The SAID of an event determines the state it leads to.                  *)

\* Entries for one SAID are the same in all logs.  HeadDeterminesState is the
\* case of the last entries; by itself it is not inductive, for the states
\* before the heads must agree too.
EntriesAgree ==
  \A v, w \in Verifier, p, q \in Prefix :
    \A i \in DOMAIN kel[v][p], j \in DOMAIN kel[w][q] :
      kel[v][p][i].ev.d = kel[w][q][j].ev.d => kel[v][p][i] = kel[w][q][j]

\* A verified event comes after the same entry in all logs, so it leads to the
\* same state in all of them: the new entry agrees with every old one.
LEMMA NewEntryAgrees ==
  ASSUME TypeOK, LogsOK, EntriesAgree,
         NEW v \in Verifier, NEW e \in Event, NEW st, Accepted(v, e, st), Commit(v, e, st),
         NEW w \in Verifier, NEW q \in Prefix, NEW j \in DOMAIN kel[w][q],
         kel[w][q][j].ev.d = e.d
  PROVE  kel[w][q][j] = [ev |-> e, st |-> st]
<1> DEFINE other == kel[w][q]
           log == kel[v][e.i]
           n == Len(log) + 1
<1>1. e.i \in Prefix /\ e.s \in Nat
  BY EventFields
<1>2. other \in Seq(Entry) /\ log \in Seq(Entry) /\ other[j] \in Entry /\ j \in Nat /\ j >= 1
  BY <1>1 DEF TypeOK
<1>3. EntryOK(other, q, j)
  BY DEF LogsOK
<1>4. other[j].ev = e
  BY <1>2, <1>3, SaidIsBinding DEF EntryOK, Accepted, Entry
<1>5. q = e.i /\ j = e.s + 1
  BY <1>1, <1>2, <1>3, <1>4 DEF EntryOK
<1>6. EntryOK(kel'[v][e.i], e.i, n)
  BY NewEntryOK
<1>7. kel'[v][e.i][n] = [ev |-> e, st |-> st] /\ \A l \in DOMAIN log : kel'[v][e.i][l] = log[l]
  <2>1. TypeOK /\ Accepted(v, e, st) /\ Commit(v, e, st)
    OBVIOUS
  <2> QED
    BY ONLY <2>1, v \in Verifier, e \in Event, CommitLog, SMTT(30)
<1>8. n \in Nat /\ n >= 1
  BY <1>2
<1>9. e.s = n - 1 /\ j = n
  <2>1. kel'[v][e.i][n].ev.s = n - 1
    <3> HIDE DEF n
    <3> QED
      BY ONLY <1>6, EntryPlace
  <2>2. kel'[v][e.i][n].ev = e
    BY ONLY <1>7
  <2> QED
    BY ONLY <1>1, <1>5, <1>8, <2>1, <2>2
<1>10. other[j].st = st
  <2>1. CASE n = 1
    <3>1. other[1].st = Incepted(other[1].ev)
      BY ONLY <1>3, <1>9, <2>1, EntryFirst
    <3>2. kel'[v][e.i][1].st = Incepted(kel'[v][e.i][1].ev)
      BY ONLY <1>6, <2>1, EntryFirst
    <3>3. kel'[v][e.i][1].st = st /\ kel'[v][e.i][1].ev = e
      BY ONLY <1>7, <2>1
    <3>4. other[1].ev = e /\ j = 1
      BY ONLY <1>4, <1>9, <2>1
    <3> QED
      BY ONLY <3>1, <3>2, <3>3, <3>4
  <2>2. CASE n > 1
    <3>1. n - 1 \in DOMAIN log /\ n - 1 \in DOMAIN other
      <4>1. j \in DOMAIN other /\ j = n /\ Len(log) \in Nat
        BY ONLY <1>2, <1>9, j \in DOMAIN kel[w][q]
      <4>2. DOMAIN other = 1..Len(other) /\ DOMAIN log = 1..Len(log) /\ Len(other) \in Nat
        BY ONLY <1>2
      <4> QED
        BY ONLY <2>2, <4>1, <4>2, SMTT(30)
    <3>2. kel'[v][e.i][n-1] = log[n-1]
      BY ONLY <1>7, <3>1
    <3>3. e.p = log[n-1].ev.d /\ st = ApplyUpdate(log[n-1].st, e)
      <4>1. kel'[v][e.i][n].ev = e /\ kel'[v][e.i][n].st = st
        BY ONLY <1>7
      <4>2. /\ kel'[v][e.i][n].ev.p = kel'[v][e.i][n-1].ev.d
            /\ kel'[v][e.i][n].st = ApplyUpdate(kel'[v][e.i][n-1].st, kel'[v][e.i][n].ev)
        <5> DEFINE grown == kel'[v][e.i]
        <5>1. EntryOK(grown, e.i, n)
          BY ONLY <1>6
        <5> HIDE DEF n, grown
        <5>2. grown[n].ev.p = grown[n-1].ev.d /\ grown[n].st = ApplyUpdate(grown[n-1].st, grown[n].ev)
          BY ONLY <5>1, <2>2, EntryLater
        <5> QED
          BY ONLY <5>2 DEF grown
      <4> QED
        BY ONLY <3>2, <4>1, <4>2
    <3>4. e.p = other[n-1].ev.d /\ other[j].st = ApplyUpdate(other[n-1].st, e)
      <4>1. j > 1 /\ j - 1 = n - 1
        BY ONLY <1>8, <1>9, <2>2
      <4>2. /\ other[j].ev.p = other[j-1].ev.d
            /\ other[j].st = ApplyUpdate(other[j-1].st, other[j].ev)
        BY ONLY <1>3, <4>1, EntryLater
      <4> QED
        BY ONLY <1>4, <4>1, <4>2
    <3>5. log[n-1] = other[n-1]
      BY <1>1, <3>1, <3>3, <3>4, ZenonT(60) DEF EntriesAgree
    <3> QED
      BY <3>3, <3>4, <3>5
  <2> QED
    BY <1>8, <2>1, <2>2
<1> QED
  BY <1>2, <1>4, <1>10 DEF Entry

\* Entries with one SAID agree, whoever holds them
LEMMA EntriesAgreeInvariant == Spec => []EntriesAgree
<1>1. Init => EntriesAgree
  BY DEF Init, EntriesAgree
<1>2. TypeOK /\ LogsOK /\ EntriesAgree /\ [Next]_vars => EntriesAgree'
  <2> SUFFICES ASSUME TypeOK, LogsOK, EntriesAgree, [Next]_vars
               PROVE  EntriesAgree'
    OBVIOUS
  <2>1. CASE Next
    <3>0. PICK v \in Verifier, e \in Event : \E st : Accepted(v, e, st) /\ Commit(v, e, st)
      BY <2>1, NextAccepts
    <3>1. PICK st : Accepted(v, e, st) /\ Commit(v, e, st)
      BY <3>0
    <3> DEFINE new == [ev |-> e, st |-> st]
    \* An entry of a log after the step is an old one or the new one
    <3>2. ASSUME NEW w \in Verifier, NEW q \in Prefix, NEW j \in DOMAIN kel'[w][q]
          PROVE  \/ j \in DOMAIN kel[w][q] /\ kel'[w][q][j] = kel[w][q][j]
                 \/ kel'[w][q][j] = new
      <4>1. CASE w # v \/ q # e.i
        BY <3>1, <4>1, CommitOther
      <4>2. CASE w = v /\ q = e.i
        <5>1. /\ kel[w][q] \in Seq(Entry)
              /\ DOMAIN kel'[w][q] = 1..(Len(kel[w][q]) + 1)
              /\ \A l \in DOMAIN kel[w][q] : kel'[w][q][l] = kel[w][q][l]
              /\ kel'[w][q][Len(kel[w][q]) + 1] = new
          BY <3>1, <4>2, CommitLog
        <5>2. j \in DOMAIN kel[w][q] \/ j = Len(kel[w][q]) + 1
          BY <5>1
        <5> QED
          BY <5>1, <5>2
      <4> QED
        BY <4>1, <4>2
    <3>3. ASSUME NEW w \in Verifier, NEW q \in Prefix, NEW j \in DOMAIN kel[w][q],
                 kel[w][q][j].ev.d = e.d
          PROVE  kel[w][q][j] = new
      BY <3>1, <3>3, NewEntryAgrees
    <3>4. ASSUME NEW v1 \in Verifier, NEW v2 \in Verifier,
                 NEW p1 \in Prefix, NEW p2 \in Prefix,
                 NEW i \in DOMAIN kel'[v1][p1], NEW j \in DOMAIN kel'[v2][p2],
                 kel'[v1][p1][i].ev.d = kel'[v2][p2][j].ev.d
          PROVE  kel'[v1][p1][i] = kel'[v2][p2][j]
      <4> DEFINE x == kel'[v1][p1][i]
                 y == kel'[v2][p2][j]
      <4>1. (i \in DOMAIN kel[v1][p1] /\ x = kel[v1][p1][i]) \/ x = new
        BY <3>2
      <4>2. (j \in DOMAIN kel[v2][p2] /\ y = kel[v2][p2][j]) \/ y = new
        BY <3>2
      <4>3. CASE x = new
        BY <3>3, <3>4, <4>2, <4>3
      <4>4. CASE y = new
        BY <3>3, <3>4, <4>1, <4>4
      <4>5. CASE x # new /\ y # new
        BY <3>4, <4>1, <4>2, <4>5, SMTT(30) DEF EntriesAgree
      <4> QED
        BY <4>3, <4>4, <4>5
    <3> QED
      BY <3>4 DEF EntriesAgree
  <2>2. CASE UNCHANGED vars
    BY <2>2 DEF vars, EntriesAgree
  <2> QED
    BY <2>1, <2>2
<1> QED
  BY <1>1, <1>2, KeverTypeCorrect, LogsInvariant, PTL DEF Spec

\* Two Kevers with the same last_event_digest hold the same key state, for
\* any number of verifiers and any history.
THEOREM KeverHeadDeterminesState == Spec => []HeadDeterminesState
<1>1. TypeOK /\ LogsOK /\ EntriesAgree => HeadDeterminesState
  <2> SUFFICES ASSUME TypeOK, LogsOK, EntriesAgree,
                      NEW v \in Verifier, NEW w \in Verifier,
                      NEW p \in Prefix, NEW q \in Prefix,
                      kevers[v][p] # NoKever, kevers[w][q] # NoKever,
                      kevers[v][p].last_event_digest = kevers[w][q].last_event_digest
               PROVE  kevers[v][p] = kevers[w][q]
    BY DEF HeadDeterminesState
  <2>1. ASSUME NEW u \in Verifier, NEW r \in Prefix, kevers[u][r] # NoKever
        PROVE  /\ Len(kel[u][r]) \in DOMAIN kel[u][r]
               /\ kevers[u][r] = kel[u][r][Len(kel[u][r])].st
               /\ kevers[u][r].last_event_digest = kel[u][r][Len(kel[u][r])].ev.d
    <3>1. kel[u][r] \in Seq(Entry)
      BY DEF TypeOK
    <3>2. kel[u][r] # <<>> /\ kevers[u][r] = kel[u][r][Len(kel[u][r])].st
      BY <2>1 DEF LogsOK
    <3>3. Len(kel[u][r]) \in DOMAIN kel[u][r]
      BY <3>1, <3>2
    <3>4. EntryOK(kel[u][r], r, Len(kel[u][r]))
      BY <3>3 DEF LogsOK
    <3> QED
      BY <3>2, <3>3, <3>4 DEF EntryOK
  <2> QED
    BY <2>1, SMTT(30) DEF EntriesAgree
<1> QED
  BY <1>1, KeverTypeCorrect, LogsInvariant, EntriesAgreeInvariant, PTL

Est(log, j) == log[j].ev.t \in Establishment

----------------------------------------------------------------------------
(* Commitments.                                                            *)

\* The state an entry led to commits to the next keys of the last
\* establishment event up to it, and each rotation reveals what the entry
\* before it committed to.  RotationRevealsCommitment speaks of events alone;
\* by itself it is not inductive, for it forgets what the states carry through
\* interactions.
CommitmentOK(log) ==
  /\ \A i, j \in DOMAIN log :
       (i <= j /\ Est(log, i) /\ \A l \in (i+1)..j : ~Est(log, l))
         => log[j].st.next_keys = log[i].ev.n
  /\ \A j \in DOMAIN log :
       j > 1 /\ Est(log, j) => VerifyNextKeyCommitment(log[j].ev.k, log[j-1].st.next_keys)

CommitmentsOK == \A v \in Verifier, p \in Prefix : CommitmentOK(kel[v][p])

\* The last entry of a log leads to the state of its Kever
LEMMA HeadState ==
  ASSUME TypeOK, LogsOK, NEW v \in Verifier, NEW p \in Prefix
  PROVE  /\ kel[v][p] \in Seq(Entry)
         /\ kel[v][p] = <<>> => kevers[v][p] = NoKever
         /\ kel[v][p] # <<>> =>
              /\ Len(kel[v][p]) \in DOMAIN kel[v][p]
              /\ kevers[v][p] = kel[v][p][Len(kel[v][p])].st
              /\ kevers[v][p] # NoKever
<1> DEFINE log == kel[v][p]
<1>1. log \in Seq(Entry)
  BY DEF TypeOK
<1>2. kevers[v][p] = IF log = <<>> THEN NoKever ELSE log[Len(log)].st
  BY DEF LogsOK
<1>3. ASSUME log # <<>>
      PROVE  Len(log) \in DOMAIN log /\ log[Len(log)].st \in KeyStateType
  <2>1. Len(log) \in DOMAIN log
    BY <1>1, <1>3
  <2>2. log[Len(log)] \in Entry
    BY <1>1, <2>1
  <2> QED
    BY <2>1, <2>2 DEF Entry
<1> QED
  BY <1>1, <1>2, <1>3, NoKeverAssumption

\* The entry a commit appends: of an interaction the commitment is that of the
\* entry before, of any other event its own
LEMMA NewCommitment ==
  ASSUME TypeOK, LogsOK, NEW v \in Verifier, NEW e \in Event, NEW st,
         Accepted(v, e, st)
  PROVE  LET log == kel[v][e.i]
             n   == Len(log) + 1
         IN  /\ e.t \in Establishment => st.next_keys = e.n
             /\ e.t \notin Establishment => n > 1 /\ st.next_keys = log[n-1].st.next_keys
             /\ n > 1 /\ e.t \in Establishment =>
                  VerifyNextKeyCommitment(e.k, log[n-1].st.next_keys)
<1> DEFINE p   == e.i
           log == kel[v][p]
           n   == Len(log) + 1
<1>1. p \in Prefix /\ e.t \in {"icp", "dip", "rot", "drt", "ixn"}
  BY EventFields
<1>2. /\ log \in Seq(Entry)
      /\ log = <<>> => kevers[v][p] = NoKever
      /\ log # <<>> => kevers[v][p] = log[Len(log)].st /\ kevers[v][p] # NoKever
  BY <1>1, HeadState
<1>3. CASE log = <<>>
  <2>1. n = 1
    BY <1>3
  <2>2. e.t \in {"icp", "dip"} /\ st = Incepted(e)
    BY <1>2, <1>3 DEF Accepted
  <2>3. st.next_keys = e.n
    BY <2>2 DEF Incepted, FromInception, FromDelegatedInception, InceptedState
  <2> QED
    BY <2>1, <2>2, <2>3 DEF Establishment
<1>4. CASE log # <<>>
  <2>1. n > 1 /\ n - 1 = Len(log)
    BY <1>2, <1>4
  <2> DEFINE old == kevers[v][p]
  <2>2. old = log[n-1].st
    BY <1>2, <1>4, <2>1
  <2>3. /\ e.t \in {"rot", "drt", "ixn"}
        /\ st = ApplyUpdate(old, e)
        /\ e.t # "ixn" => VerifyNextKeyCommitment(e.k, old.next_keys)
    BY <1>2, <1>4 DEF Accepted
  <2>4. old \in KeyStateType
    BY <1>1, <1>2, <1>4 DEF TypeOK
  <2>5. st.next_keys = IF e.t = "ixn" THEN old.next_keys ELSE e.n
    BY <2>3, <2>4 DEF ApplyUpdate, ApplyRotation, ApplyInteraction, KeyStateType
  <2> HIDE DEF old
  <2> QED
    BY <2>1, <2>2, <2>3, <2>5 DEF Establishment
<1> QED
  BY <1>3, <1>4

\* A log whose commitments are in order keeps them so when such an entry is appended
LEMMA CommitmentKept ==
  ASSUME NEW log \in Seq(Entry), NEW new \in Seq(Entry), NEW n,
         n = Len(log) + 1, DOMAIN new = 1..n,
         \A j \in DOMAIN log : new[j] = log[j],
         CommitmentOK(log),
         Est(new, n) => new[n].st.next_keys = new[n].ev.n,
         ~Est(new, n) => n > 1 /\ new[n].st.next_keys = log[n-1].st.next_keys,
         n > 1 /\ Est(new, n) => VerifyNextKeyCommitment(new[n].ev.k, log[n-1].st.next_keys)
  PROVE  CommitmentOK(new)
<1>1. DOMAIN log = 1..(n-1) /\ n \in Nat \ {0}
  OBVIOUS
<1>2. \A j \in 1..(n-1) : new[j] = log[j] /\ (Est(new, j) <=> Est(log, j))
  BY <1>1 DEF Est
<1>3. ASSUME NEW i \in 1..n, NEW j \in 1..n, i <= j, Est(new, i),
             \A l \in (i+1)..j : ~Est(new, l)
      PROVE  new[j].st.next_keys = new[i].ev.n
  <2>1. CASE j < n
    <3>1. i \in DOMAIN log /\ j \in DOMAIN log
      BY <1>1, <1>3, <2>1
    <3>2. Est(log, i) /\ \A l \in (i+1)..j : ~Est(log, l)
      BY <1>1, <1>2, <1>3, <3>1
    <3> QED
      BY <1>2, <1>3, <3>1, <3>2, <1>1, SMTT(30) DEF CommitmentOK
  <2>2. CASE j = n /\ i = n
    BY <1>3, <2>2
  <2>3. CASE j = n /\ i < n
    <3>1. ~Est(new, n)
      BY <1>1, <1>3, <2>3
    <3>2. n > 1 /\ i \in DOMAIN log /\ n - 1 \in DOMAIN log /\ i <= n - 1
      BY <1>1, <1>3, <2>3
    <3>3. Est(log, i) /\ \A l \in (i+1)..(n-1) : ~Est(log, l)
      BY <1>1, <1>2, <1>3, <2>3, <3>2
    <3>4. log[n-1].st.next_keys = log[i].ev.n
      BY <3>2, <3>3 DEF CommitmentOK
    <3> QED
      BY <1>1, <1>2, <2>3, <3>1, <3>2, <3>4
  <2> QED
    BY <1>1, <1>3, <2>1, <2>2, <2>3
<1>4. ASSUME NEW j \in 1..n, j > 1, Est(new, j)
      PROVE  VerifyNextKeyCommitment(new[j].ev.k, new[j-1].st.next_keys)
  <2>1. j - 1 \in 1..(n-1)
    BY <1>1, <1>4
  <2>2. new[j-1] = log[j-1]
    BY <1>2, <2>1
  <2>3. CASE j = n
    BY <1>4, <2>2, <2>3
  <2>4. CASE j < n
    <3>1. j \in DOMAIN log /\ new[j] = log[j] /\ Est(log, j)
      BY <1>1, <1>2, <1>4, <2>4
    <3> QED
      BY <1>4, <2>2, <3>1 DEF CommitmentOK
  <2> QED
    BY <1>1, <1>4, <2>3, <2>4
<1> QED
  BY <1>3, <1>4 DEF CommitmentOK

\* Commitments stay in order, through any number of interactions
LEMMA CommitmentsInvariant == Spec => []CommitmentsOK
<1>1. Init => CommitmentsOK
  BY DEF Init, CommitmentsOK, CommitmentOK
<1>2. TypeOK /\ LogsOK /\ CommitmentsOK /\ [Next]_vars => CommitmentsOK'
  <2> SUFFICES ASSUME TypeOK, LogsOK, CommitmentsOK, [Next]_vars
               PROVE  CommitmentsOK'
    OBVIOUS
  <2>1. CASE Next
    <3>0. PICK v \in Verifier, e \in Event : \E st : Accepted(v, e, st) /\ Commit(v, e, st)
      BY <2>1, NextAccepts
    <3>1. PICK st : Accepted(v, e, st) /\ Commit(v, e, st)
      BY <3>0
    <3>2. ASSUME NEW w \in Verifier, NEW q \in Prefix
          PROVE  CommitmentOK(kel'[w][q])
      <4>1. CASE w # v \/ q # e.i
        <5>1. kel'[w][q] = kel[w][q]
          BY <3>1, <4>1, CommitOther
        <5> QED
          BY <5>1 DEF CommitmentsOK
      <4>2. CASE w = v /\ q = e.i
        <5> DEFINE log == kel[w][q]
                   new == kel'[w][q]
                   n   == Len(log) + 1
        <5>1. /\ log \in Seq(Entry) /\ new \in Seq(Entry)
              /\ DOMAIN new = 1..n
              /\ \A j \in DOMAIN log : new[j] = log[j]
              /\ new[n] = [ev |-> e, st |-> st]
          BY <3>1, <4>2, CommitLog
        <5>2. /\ e.t \in Establishment => st.next_keys = e.n
              /\ e.t \notin Establishment => n > 1 /\ st.next_keys = log[n-1].st.next_keys
              /\ n > 1 /\ e.t \in Establishment =>
                   VerifyNextKeyCommitment(e.k, log[n-1].st.next_keys)
          BY <3>1, <4>2, NewCommitment
        <5>3. CommitmentOK(log)
          BY DEF CommitmentsOK
        <5>4. new[n].ev = e /\ new[n].st = st
          BY <5>1
        <5>5. n = Len(log) + 1
          OBVIOUS
        <5> HIDE DEF log, new, n
        <5>6. Est(new, n) <=> e.t \in Establishment
          BY <5>4 DEF Est
        <5>7. CommitmentOK(new)
          BY <5>1, <5>2, <5>3, <5>4, <5>5, <5>6, CommitmentKept
        <5> QED
          BY <5>7 DEF new
      <4> QED
        BY <4>1, <4>2
    <3> QED
      BY <3>2 DEF CommitmentsOK
  <2>2. CASE UNCHANGED vars
    BY <2>2 DEF vars, CommitmentsOK
  <2> QED
    BY <2>1, <2>2
<1> QED
  BY <1>1, <1>2, KeverTypeCorrect, LogsInvariant, PTL DEF Spec

\* The keys an establishment event installs are those the establishment event
\* before it committed to, whatever lies between (verify_next_key_commitment
\* against the next_keys of the state).
THEOREM KeverRotationRevealsCommitment == Spec => []RotationRevealsCommitment
<1>1. TypeOK /\ CommitmentsOK => RotationRevealsCommitment
  <2> SUFFICES ASSUME TypeOK, CommitmentsOK, NEW v \in Verifier, NEW p \in Prefix,
                      NEW i \in DOMAIN kel[v][p], NEW j \in DOMAIN kel[v][p],
                      i < j, Est(kel[v][p], i), Est(kel[v][p], j),
                      \A l \in (i+1)..(j-1) : ~Est(kel[v][p], l)
               PROVE  /\ Len(kel[v][p][j].ev.k) = Len(kel[v][p][i].ev.n)
                      /\ \A x \in DOMAIN kel[v][p][j].ev.k :
                           KeyDigest(kel[v][p][j].ev.k[x]) = kel[v][p][i].ev.n[x]
    BY DEF RotationRevealsCommitment, Est
  <2> DEFINE log == kel[v][p]
  <2>1. log \in Seq(Entry) /\ CommitmentOK(log)
    BY DEF TypeOK, CommitmentsOK
  <2>2. j - 1 \in DOMAIN log /\ i <= j - 1 /\ j > 1
    BY <2>1
  <2> HIDE DEF log
  <2>3. log[j-1].st.next_keys = log[i].ev.n
    BY <2>1, <2>2 DEF CommitmentOK, log
  <2>4. VerifyNextKeyCommitment(log[j].ev.k, log[j-1].st.next_keys)
    BY <2>1, <2>2 DEF CommitmentOK, log
  <2> QED
    BY <2>3, <2>4 DEF VerifyNextKeyCommitment, log
<1> QED
  BY <1>1, KeverTypeCorrect, CommitmentsInvariant, PTL

----------------------------------------------------------------------------
(* Abandoned identifiers.                                                  *)

\* What is accepted for an identifier without next keys is an interaction: a
\* rotation would reveal no keys, and no keys sign nothing.
LEMMA AbandonedOnlyInteracts ==
  ASSUME TypeOK, NEW v \in Verifier, NEW e \in Event, NEW st, Accepted(v, e, st),
         kevers[v][e.i] # NoKever, kevers[v][e.i].next_keys = <<>>
  PROVE  e.t = "ixn"
<1> SUFFICES ASSUME e.t # "ixn" PROVE FALSE
  OBVIOUS
<1>1. e.k \in Seq(Key) /\ e.kt \in ThresholdType
  BY EventFields
<1>2. VerifyNextKeyCommitment(e.k, <<>>)
  BY DEF Accepted
<1>3. e.k = <<>>
  BY <1>1, <1>2 DEF VerifyNextKeyCommitment
<1>4. PICK sigs : VerifySigs(sigs, e.k, e.kt)
  BY DEF Accepted
<1> QED
  BY <1>1, <1>3, <1>4, NoKeysNoSigs

\* The keys of an abandoned identifier never change again: next_keys is empty
\* only when no key can be revealed (verify_next_key_commitment, verify_sigs).
THEOREM KeverAbandonedStaysAbandoned == Spec => AbandonedStaysAbandoned
<1> DEFINE Abandoned(v, p) == kevers[v][p] # NoKever /\ kevers[v][p].next_keys = <<>>
           Stays(v, p) == /\ kevers'[v][p].keys = kevers[v][p].keys
                          /\ kevers'[v][p].next_keys = <<>>
<1>1. TypeOK /\ [Next]_vars =>
        [\A v \in Verifier, p \in Prefix : Abandoned(v, p) => Stays(v, p)]_vars
  <2> SUFFICES ASSUME TypeOK, Next, NEW w \in Verifier, NEW q \in Prefix, Abandoned(w, q)
               PROVE  Stays(w, q)
    OBVIOUS
  <2>1. PICK v \in Verifier, e \in Event : \E st : Accepted(v, e, st) /\ Commit(v, e, st)
    BY NextAccepts
  <2>2. PICK st : Accepted(v, e, st) /\ Commit(v, e, st)
    BY <2>1
  <2>3. CASE w # v \/ q # e.i
    BY <2>2, <2>3, CommitOther
  <2>4. CASE w = v /\ q = e.i
    <3>1. e.t = "ixn"
      BY <2>2, <2>4, AbandonedOnlyInteracts
    <3>2. st = ApplyInteraction(kevers[w][q], e)
      BY <2>2, <2>4, <3>1 DEF Accepted, ApplyUpdate
    <3>3. kevers'[w][q] = st
      BY <2>2, <2>4 DEF Commit, TypeOK
    <3>4. kevers[w][q] \in KeyStateType
      BY DEF TypeOK
    <3> QED
      BY <3>2, <3>3, <3>4 DEF ApplyInteraction, KeyStateType
  <2> QED
    BY <2>3, <2>4
<1> QED
  BY <1>1, KeverTypeCorrect, PTL DEF Spec, AbandonedStaysAbandoned

----------------------------------------------------------------------------
(* Delegation.                                                             *)

\* An anchor of the event e with number s of p in a log
AnchoredIn(log, p, s, d) ==
  \E l \in DOMAIN log : [i |-> p, s |-> s, d |-> d] \in log[l].ev.a

\* Every state remembers whether and under whom its identifier was incepted,
\* and every delegated event is anchored with that delegator.
DelegatedOK(v, p, j) ==
  LET log  == kel[v][p]
      e    == log[j].ev
      root == log[1].ev
  IN  /\ log[j].st.delegated <=> root.t = "dip"
      /\ root.t = "dip" => log[j].st.delegator = root.di /\ e.t # "rot"
      /\ e.t \in {"dip", "drt"} =>
           /\ root.t = "dip" /\ root.di # p /\ root.di \in Prefix
           /\ AnchoredIn(kel[v][root.di], p, j - 1, e.d)

DelegationsOK ==
  \A v \in Verifier, p \in Prefix : \A j \in DOMAIN kel[v][p] : DelegatedOK(v, p, j)

\* A log keeps its anchors when a verifier commits an entry, to it or to another
LEMMA AnchorsKept ==
  ASSUME TypeOK, NEW v \in Verifier, NEW e \in Event, NEW st,
         Accepted(v, e, st), Commit(v, e, st),
         NEW w \in Verifier, NEW q \in Prefix, NEW p, NEW s, NEW d,
         AnchoredIn(kel[w][q], p, s, d)
  PROVE  AnchoredIn(kel'[w][q], p, s, d)
<1>1. CASE w # v \/ q # e.i
  <2>1. kel'[w][q] = kel[w][q]
    BY <1>1, CommitOther
  <2> QED
    BY <2>1
<1>2. CASE w = v /\ q = e.i
  <2> DEFINE log == kel[w][q]
             new == kel'[w][q]
  <2>1. /\ log \in Seq(Entry)
        /\ DOMAIN new = 1..(Len(log) + 1)
        /\ \A j \in DOMAIN log : new[j] = log[j]
    <3>1. /\ kel[v][e.i] \in Seq(Entry)
          /\ DOMAIN kel'[v][e.i] = 1..(Len(kel[v][e.i]) + 1)
          /\ \A j \in DOMAIN kel[v][e.i] : kel'[v][e.i][j] = kel[v][e.i][j]
      BY CommitLog, ZenonT(60)
    <3> QED
      BY <1>2, <3>1
  <2>2. DOMAIN log \subseteq DOMAIN new
    BY <2>1
  <2>3. AnchoredIn(log, p, s, d)
    OBVIOUS
  <2> HIDE DEF log, new
  <2>4. AnchoredIn(new, p, s, d)
    BY <2>1, <2>2, <2>3 DEF AnchoredIn
  <2> QED
    BY <2>4 DEF new
<1> QED
  BY <1>1, <1>2

\* The entry a commit appends is delegated as the first entry of its log says
LEMMA NewDelegation ==
  ASSUME TypeOK, LogsOK, DelegationsOK, NEW v \in Verifier, NEW e \in Event, NEW st,
         Accepted(v, e, st)
  PROVE  LET log  == kel[v][e.i]
             root == IF log = <<>> THEN e ELSE log[1].ev
         IN  /\ e.s = Len(log)
             /\ st.delegated <=> root.t = "dip"
             /\ root.t = "dip" => st.delegator = root.di /\ e.t # "rot"
             /\ e.t \in {"dip", "drt"} =>
                  /\ root.t = "dip" /\ root.di # e.i /\ root.di \in Prefix
                  /\ AnchoredIn(kel[v][root.di], e.i, e.s, e.d)
<1> DEFINE p   == e.i
           log == kel[v][p]
<1>1. /\ p \in Prefix /\ e.t \in {"icp", "dip", "rot", "drt", "ixn"}
      /\ e.t \in {"dip", "drt"} => e.di \in Prefix
  BY EventFields
<1>2. /\ log \in Seq(Entry)
      /\ log = <<>> => kevers[v][p] = NoKever
      /\ log # <<>> => /\ Len(log) \in DOMAIN log
                       /\ kevers[v][p] = log[Len(log)].st /\ kevers[v][p] # NoKever
  BY <1>1, HeadState
<1>3. e.t \in {"dip", "drt"} => e.di # e.i /\ AnchoredIn(kel[v][e.di], e.i, e.s, e.d)
  BY DEF Accepted, AnchoredIn
<1>4. CASE log = <<>>
  <2>1. e.t \in {"icp", "dip"} /\ e.s = 0 /\ st = Incepted(e)
    BY <1>2, <1>4 DEF Accepted
  <2>2. (st.delegated <=> e.t = "dip") /\ (e.t = "dip" => st.delegator = e.di)
    BY <2>1 DEF Incepted, FromInception, FromDelegatedInception, InceptedState
  <2> QED
    BY <1>1, <1>3, <1>4, <2>1, <2>2
<1>5. CASE log # <<>>
  <2> DEFINE old  == kevers[v][p]
             root == log[1].ev
  <2>1. /\ e.t \in {"rot", "drt", "ixn"}
        /\ e.s = old.sn + 1
        /\ st = ApplyUpdate(old, e)
        /\ e.t = "rot" => ~old.delegated
        /\ e.t = "drt" => old.delegated /\ old.delegator = e.di
    BY <1>2, <1>5 DEF Accepted, Follows
  <2>2. old \in KeyStateType
    BY <1>1, <1>2, <1>5 DEF TypeOK
  <2>3. st.delegated = old.delegated /\ st.delegator = old.delegator
    BY <2>1, <2>2 DEF ApplyUpdate, ApplyRotation, ApplyInteraction, KeyStateType
  <2>4. /\ old.delegated <=> root.t = "dip"
        /\ root.t = "dip" => old.delegator = root.di
    BY <1>1, <1>2, <1>5 DEF DelegationsOK, DelegatedOK
  <2>5. e.s = Len(log)
    <3>1. EntryOK(log, p, Len(log))
      BY <1>1, <1>2, <1>5 DEF LogsOK
    <3>2. old.sn = Len(log) - 1
      BY <1>2, <1>5, <3>1, EntryPlace
    <3>3. Len(log) \in Nat
      BY <1>2
    <3> QED
      BY <2>1, <3>2, <3>3
  <2> HIDE DEF old
  <2> QED
    BY <1>1, <1>3, <1>5, <2>1, <2>3, <2>4, <2>5
<1> QED
  BY <1>4, <1>5

\* Delegations stay in order, whichever log is extended
LEMMA DelegationsInvariant == Spec => []DelegationsOK
<1>1. Init => DelegationsOK
  BY DEF Init, DelegationsOK
<1>2. TypeOK /\ LogsOK /\ DelegationsOK /\ [Next]_vars => DelegationsOK'
  <2> SUFFICES ASSUME TypeOK, LogsOK, DelegationsOK, [Next]_vars
               PROVE  DelegationsOK'
    OBVIOUS
  <2>1. CASE Next
    <3>0. PICK v \in Verifier, e \in Event : \E st : Accepted(v, e, st) /\ Commit(v, e, st)
      BY <2>1, NextAccepts
    <3>1. PICK st : Accepted(v, e, st) /\ Commit(v, e, st)
      BY <3>0
    <3>2. ASSUME NEW w \in Verifier, NEW q \in Prefix, NEW j \in DOMAIN kel'[w][q]
          PROVE  DelegatedOK(w, q, j)'
      <4>1. ASSUME j \in DOMAIN kel[w][q], kel'[w][q][j] = kel[w][q][j],
                   kel'[w][q][1] = kel[w][q][1]
            PROVE  DelegatedOK(w, q, j)'
        <5> DEFINE log  == kel[w][q]
                   root == log[1].ev
        <5>1. DelegatedOK(w, q, j)
          BY <4>1 DEF DelegationsOK
        <5>2. log[j].ev.t \in {"dip", "drt"} =>
                AnchoredIn(kel'[w][root.di], q, j - 1, log[j].ev.d)
          BY <3>1, <5>1, AnchorsKept DEF DelegatedOK
        <5> QED
          BY <4>1, <5>1, <5>2 DEF DelegatedOK
      <4>2. CASE w # v \/ q # e.i
        <5>1. kel'[w][q] = kel[w][q]
          BY <3>1, <4>2, CommitOther
        <5> QED
          BY <3>2, <4>1, <5>1
      <4>3. CASE w = v /\ q = e.i
        <5> DEFINE log  == kel[w][q]
                   new  == kel'[w][q]
                   n    == Len(log) + 1
                   root == IF log = <<>> THEN e ELSE log[1].ev
        <5>1. /\ log \in Seq(Entry)
              /\ DOMAIN new = 1..n
              /\ \A l \in DOMAIN log : new[l] = log[l]
              /\ new[n] = [ev |-> e, st |-> st]
          BY <3>1, <4>3, CommitLog
        <5>2. CASE j \in DOMAIN log
          <6>1. 1 \in DOMAIN log
            BY <5>1, <5>2
          <6> QED
            BY <4>1, <5>1, <5>2, <6>1
        <5>3. CASE j \notin DOMAIN log
          <6>1. j = n /\ n - 1 = Len(log)
            BY <3>2, <5>1, <5>3
          <6>2. new[n].ev = e /\ new[n].st = st
            BY <5>1
          <6>3. new[1].ev = root
            BY <5>1, <6>2
          <6>4. /\ e.s = Len(log)
                /\ st.delegated <=> root.t = "dip"
                /\ root.t = "dip" => st.delegator = root.di /\ e.t # "rot"
                /\ e.t \in {"dip", "drt"} =>
                     /\ root.t = "dip" /\ root.di # q /\ root.di \in Prefix
                     /\ AnchoredIn(kel[w][root.di], q, e.s, e.d)
            BY <3>1, <4>3, NewDelegation
          <6>5. e.t \in {"dip", "drt"} => AnchoredIn(kel'[w][root.di], q, j - 1, e.d)
            <7> HIDE DEF root, log, n
            <7> QED
              BY <3>1, <6>1, <6>4, AnchorsKept
          <6> HIDE DEF root, n
          <6> QED
            BY <6>1, <6>2, <6>3, <6>4, <6>5 DEF DelegatedOK
        <5> QED
          BY <5>2, <5>3
      <4> QED
        BY <4>2, <4>3
    <3> QED
      BY <3>2 DEF DelegationsOK
  <2>2. CASE UNCHANGED vars
    BY <2>2 DEF vars, DelegationsOK, DelegatedOK
  <2> QED
    BY <2>1, <2>2
<1> QED
  BY <1>1, <1>2, KeverTypeCorrect, LogsInvariant, PTL DEF Spec

\* A delegated event is accepted only with an anchor in the verified log of the
\* delegator of the inception, and the anchor stays there; a delegated
\* identifier never rotates plainly (verify_delegation,
\* apply_delegated_rotation, reject_plain_rotation_when_delegated).
THEOREM KeverDelegationAnchored == Spec => []DelegationAnchored
<1>1. DelegationsOK => DelegationAnchored
  <2> SUFFICES ASSUME DelegationsOK, NEW v \in Verifier, NEW p \in Prefix,
                      NEW j \in DOMAIN kel[v][p]
               PROVE  LET e    == kel[v][p][j].ev
                          root == kel[v][p][1].ev
                      IN  /\ e.t \in {"dip", "drt"} =>
                               /\ root.t = "dip"
                               /\ root.di # p
                               /\ \E l \in DOMAIN kel[v][root.di] :
                                    [i |-> p, s |-> j - 1, d |-> e.d] \in kel[v][root.di][l].ev.a
                          /\ root.t = "dip" => e.t # "rot"
    BY DEF DelegationAnchored
  <2>1. DelegatedOK(v, p, j)
    BY DEF DelegationsOK
  <2> QED
    BY <2>1 DEF DelegatedOK, AnchoredIn
<1> QED
  BY <1>1, DelegationsInvariant, PTL
=============================================================================
