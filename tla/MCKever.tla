------------------------------ MODULE MCKever ------------------------------
(***************************************************************************)
(* An instance of Kever with two verifiers and two worlds.  One is every   *)
(* small history of a rotatable identifier, forks included, and a basic    *)
(* identifier; the other a delegator, a second would-be delegator and a    *)
(* delegated identifier.  Messages of both are presented in any order; the *)
(* runs go on with those in which the worlds do not mix.                   *)
(***************************************************************************)
EXTENDS Kever, MCEvents

Symmetry == Permutations(Verifier)

----------------------------------------------------------------------------
(* Histories of a rotatable and of a basic identifier.                     *)

Root == Icp(BothHalves, <<k1, k2>>, <<k3>>, 1, Backers({w1}), {})

\* Two interactions; committed rotations with and without a new commitment,
\* one of which changes the backers; rotations to keys not committed to, to no
\* keys, and with a backer threshold above the number of backers.
After(e) ==
  { Ixn(e, {}), Ixn(e, {SealOf(Root)}),
    Rot(e, One, <<k3>>, <<k4>>, 1, {w2}, {w1}, {}),
    Rot(e, One, <<k3>>, <<>>, 2, {}, {w1, w2}, {}),
    Rot(e, One, <<k4>>, <<>>, 0, {w1}, {}, {}),
    Rot(e, One, <<>>, <<k4>>, 0, {}, {}, {}),
    Rot(e, One, <<k3>>, <<k4>>, 2, {w1}, {w2}, {}) }

AfterAll(S) == UNION {After(e) : e \in S}

\* The histories of up to three events, and rotations and one interaction on
\* top of those whose third event is an interaction
Layer1 == After(Root)
Layer2 == AfterAll(Layer1)
Layer3 == AfterAll({e \in Layer2 : e.t = "ixn" /\ e.a = {}})

Basic == BasicIcp(k1, One, <<k1>>, <<>>, 0, NoBackers)

Malformed ==
  { [Root EXCEPT !.n = Dig(<<k4>>)],              \* altered after its SAID was taken
    BasicIcp(k2, One, <<k1>>, <<>>, 0, NoBackers),  \* not the prefix of its key
    Icp(One, <<k1>>, <<k3>>, 2, Backers({w1}), {}), \* needs more backers than listed
    [Ixn(Root, {}) EXCEPT !.p = Basic.d] }

ChainEvents == {Root, Basic, Ixn(Basic, {})} \cup Layer1 \cup Layer2 \cup Layer3 \cup Malformed

\* Signed by the keys of the event, by the keys of the root, by one of them only
\* or by the key that a rotation may have installed
SigSets(e) ==
  IF e.t = "ixn"
  THEN {SignedBy(<<k1, k2>>), SignedBy(<<k1>>), SignedBy(<<k3>>)}
  ELSE {SignedBy(e.k), SignedBy(<<k1>>)}

NoProof == [sn |-> 0, said |-> Root.d]

Signed(events) ==
  UNION {{[ev |-> e, sigs |-> s, proof |-> NoProof] : s \in SigSets(e)} : e \in events}

ChainMessages == Signed(ChainEvents)


----------------------------------------------------------------------------
(* Delegation.                                                             *)

Delegator == Icp(One, <<k1>>, <<k2>>, 0, NoBackers, {})
Delegatee == Dip(Delegator.i, One, <<k3>>, <<k4>>)
Chat      == Ixn(Delegatee, {})

GoodDrt(e) == Drt(e, Delegator.i, One, <<k4>>, <<>>)

\* Another identifier, which anchors a rotation that names it as delegator
Foreign(e) ==
  LET body == IcpBody(One, <<k2>>, <<>>, 0, NoBackers, {})
      root == SelfAddressed(body)
      drt  == Drt(e, root.i, One, <<k4>>, <<>>)
  IN  [root |-> root, drt |-> drt, anchor |-> Ixn(root, {SealOf(drt)})]

SelfDelegated == Dip(k3, One, <<k3>>, <<k4>>)

AnchorDip == Ixn(Delegator, {SealOf(Delegatee)})
NoAnchor  == Ixn(Delegator, {})
LateDip   == Ixn(NoAnchor, {SealOf(Delegatee)})

AnchorDrt(e, drt) == Rot(e, One, <<k2>>, <<>>, 0, {}, {}, {SealOf(drt)})

DelegatorEvents ==
  {Delegator, AnchorDip, NoAnchor, LateDip,
   AnchorDrt(AnchorDip, GoodDrt(Delegatee)), AnchorDrt(AnchorDip, GoodDrt(Chat)),
   AnchorDrt(LateDip, GoodDrt(Delegatee)),
   Ixn(AnchorDip, {SealOf([Delegatee EXCEPT !.s = 1])})}

ForeignEvents == {Foreign(Delegatee).root, Foreign(Delegatee).anchor}

DelegateeEvents ==
  {Delegatee, Chat, GoodDrt(Delegatee), GoodDrt(Chat), Foreign(Delegatee).drt,
   Rot(Delegatee, One, <<k4>>, <<>>, 0, {}, {}, {}), Ixn(GoodDrt(Chat), {}),
   Drt(Delegatee, Delegatee.i, One, <<k4>>, <<>>), Drt(Delegator, Delegator.i, One, <<k2>>, <<>>)}

DelegationEvents == DelegatorEvents \cup ForeignEvents \cup DelegateeEvents

Proofs == {[sn |-> e.s, said |-> e.d] : e \in DelegatorEvents \cup ForeignEvents}

\* A proof matters to delegated events only.  These are offered with every
\* proof when their own key signed them; a wrong key comes with one.
Delegated == {e \in DelegateeEvents : e.t \in {"dip", "drt"}}

DelegationMessages ==
  {[ev |-> e, sigs |-> SignedBy(e.k), proof |-> pr] : e \in Delegated, pr \in Proofs}
  \cup
  {[ev |-> e, sigs |-> SignedBy(<<k>>), proof |-> [sn |-> 1, said |-> AnchorDip.d]]
     : e \in DelegateeEvents, k \in {k3, k4}}
  \cup
  {[ev |-> e, sigs |-> SignedBy(<<k>>), proof |-> [sn |-> 0, said |-> Delegator.d]]
     : e \in DelegatorEvents \cup ForeignEvents, k \in {k1, k2}}

----------------------------------------------------------------------------
(* Both.                                                                   *)

Events == ChainEvents \cup DelegationEvents
Messages == ChainMessages \cup DelegationMessages
Incepted == {Root, Basic, Delegator, Delegatee, Foreign(Delegatee).root} \cup Malformed
Identifiers == {e.i : e \in Incepted}
Digests == {e.d : e \in Events} \cup {DigestOfKey(k) : k \in Keys}

Accepting(events) == \E v \in Verifier : \E e \in events : kevers[v][e.i] # NoKever

\* Bound: logs of identifiers of both worlds are not kept side by side
OneWorld == ~(Accepting(ChainEvents) /\ Accepting(DelegationEvents))
=============================================================================
