------------------------------ MODULE MCDirect ------------------------------
(***************************************************************************)
(* Instances of Direct, also used for Judge.  One identifier is basic, so  *)
(* that it can have two inceptions, is witnessed and rotates; its log      *)
(* forks at every position.  A second, self-addressing one needs no        *)
(* witness.  Receipts and other messages refer to the first.              *)
(***************************************************************************)
EXTENDS Direct, MCEvents

Alice  == BasicIcp(k1, One, <<k1>>, <<k2>>, 1, Backers({w1}))
Alice2 == BasicIcp(k1, One, <<k1>>, <<>>, 0, NoBackers)

\* Two interactions, the rotation committed to, which drops the witness, and
\* one that was not committed to
AliceAfter(e) ==
  { Ixn(e, {}), Ixn(e, {SealOf(Alice)}),
    Rot(e, One, <<k2>>, <<k3>>, 0, {w1}, {}, {}),
    Rot(e, One, <<k1>>, <<k3>>, 0, {w1}, {}, {}) }

\* An interaction that chains to nothing, and one with a SAID not its own
AliceBad ==
  { [Ixn(Alice, {}) EXCEPT !.p = Alice2.d, !.d = Alice2.d \o Alice2.d],
    Addressed([t |-> "ixn", i |-> Alice.i, s |-> 1, p |-> Alice2.d, a |-> {SealOf(Alice)}]) }

AliceIxns == {Ixn(Alice, {}), Ixn(Alice, {SealOf(Alice)})}

Rotated1 == Rot(Alice, One, <<k2>>, <<k3>>, 0, {w1}, {}, {})

\* After the rotation: an interaction, and a rotation that removes the
\* witness again
AliceRotated == {Ixn(Rotated1, {}), Rot(Rotated1, One, <<k3>>, <<>>, 0, {w1}, {}, {})}

AliceEvents ==
  {Alice, Alice2} \cup AliceAfter(Alice) \cup AliceBad
    \cup AliceAfter(Ixn(Alice, {})) \cup AliceRotated

Bob == Icp(One, <<k3>>, <<>>, 0, NoBackers, {})

BobEvents == {Bob, Ixn(Bob, {}), Ixn(Bob, {SealOf(Bob)})}

\* The body of a receipt names the identifier and the sequence number only
Receipt(i, s) == [t |-> "rct", d |-> <<0, s>>, i |-> i, s |-> s]

\* Another message that states the SAID of an event, at the place of a later one
StatedAs(e, s) == [t |-> "exn", d |-> e.d, i |-> e.i, s |-> s]

Notes == {Receipt(Alice.i, 1), StatedAs(Alice, 1), StatedAs(Ixn(Alice, {}), 2)}

\* The keys that may have signed
Sigs(e) ==
  IF e \in BobEvents \cup {Rot(Rotated1, One, <<k3>>, <<>>, 0, {w1}, {}, {})}
  THEN {SignedBy(<<k3>>)} ELSE {SignedBy(<<k1>>), SignedBy(<<k2>>)}

Couples(e) == {{}, {[w |-> w1, of |-> e.d]}}

EventMessages(events) ==
  UNION {{[ev |-> e, sigs |-> s, couples |-> c, opaque |-> FALSE]
            : s \in Sigs(e), c \in Couples(e)} : e \in events}

Opaque(e) == [ev |-> e, sigs |-> SignedBy(<<k1>>), couples |-> {}, opaque |-> TRUE]

NoteMessages ==
  {[ev |-> n, sigs |-> {}, couples |-> c, opaque |-> FALSE]
     : n \in Notes, c \in UNION {Couples(e) : e \in AliceIxns}}

JudgeEvents   == AliceEvents \cup BobEvents
JudgeMessages == EventMessages(JudgeEvents) \cup NoteMessages \cup {Opaque(Alice2), Opaque(Ixn(Alice, {}))}
\* An inception that lists a witness twice
Carol == Icp(One, <<k4>>, <<>>, 2, [w \in Witnesses |-> IF w = w1 THEN 2 ELSE 0], {})

CarolMessages ==
  {[ev |-> Carol, sigs |-> SignedBy(<<k4>>), couples |-> [w : S, of : {Carol.d}], opaque |-> FALSE]
     : S \in {{}, {w1}, {w1, w2}}}

DirectEvents   == JudgeEvents \cup {Carol}
DirectMessages == JudgeMessages \cup CarolMessages

JudgePrefixes == {e.i : e \in JudgeEvents}
JudgeDigests  ==
  {e.d : e \in JudgeEvents} \cup {e.p : e \in AliceBad} \cup {n.d : n \in Notes}
    \cup {DigestOfKey(k) : k \in Keys}

DirectPrefixes == JudgePrefixes \cup {Carol.i}
DirectDigests  == JudgeDigests \cup {Carol.d}
=============================================================================
