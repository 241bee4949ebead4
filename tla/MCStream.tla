------------------------------ MODULE MCStream ------------------------------
(* Instances of Stream: every pair of groups after a first body, and a     *)
(* second message that the first may run into.                             *)
EXTENDS Stream

Body(major, ascii) == [major |-> major, ascii |-> ascii, json |-> TRUE]

\* A body in CBOR or MessagePack
Binary(major) == [major |-> major, ascii |-> FALSE, json |-> FALSE]

Sigs(kind, n, ids) == [kind |-> kind, n |-> n, items |-> ids]

\* Groups that go together: a wrapper goes before what it wraps
Wrap(n, gs) == <<[kind |-> Wrapper, n |-> n, wraps |-> Len(gs)]>> \o gs

Trans(groups) == [kind |-> "TransIdxSigGroups", n |-> Len(groups), groups |-> groups]

Controller(n, ids) == Sigs("ControllerIdxSigs", n, ids)
OneSig == Controller(1, <<"c1">>)
Receipt == Sigs("NonTransReceiptCouples", 1, <<"w1", "r1">>)
Quadruple == Sigs("TransReceiptQuadruples", 1, <<"p", "n", "d", "s">>)
Signed(ids) == [anchor |-> <<"p", "n", "d">>, sigs |-> ids]

Plain ==
  {<<g>> : g \in {
   OneSig, Controller(0, <<>>), Controller(2, <<"c1", "c2">>),
   Controller(3, <<"c1", "c2", "c3">>), Controller(2, <<"c1">>), Controller(1, <<"c1", "c2">>),
   Sigs("WitnessIdxSigs", 1, <<"v1">>), Receipt,
   Sigs("NonTransReceiptCouples", 2, <<"w1", "r1">>),
   Sigs("FirstSeenReplayCouples", 1, <<"f1", "t1">>),
   Sigs("SealSourceCouples", 1, <<"a1", "a2">>),
   Quadruple, Sigs("Unmodelled", 1, <<"x1">>)}}

\* Wrappers: of 3 units, 8 units, and one in another
Wrappers ==
  {Wrap(n, <<OneSig>>) : n \in 2..5} \cup {Wrap(8, <<OneSig, Receipt>>)}
    \cup {Wrap(4, Wrap(3, <<OneSig>>)), Wrap(9, <<Quadruple>>)}

TransGroups ==
  {<<Trans(<<Signed(<<"s1">>)>>)>>, <<Trans(<<Signed(<<>>)>>)>>,
   <<Trans(<<Signed(<<"s1">>), Signed(<<"s2", "s3">>)>>)>>,
   Wrap(10, <<Trans(<<Signed(<<"s1">>)>>)>>)}

GroupsOf(major) ==
  Plain \cup Wrappers \cup IF TableFromMajor(major) = "V1" THEN TransGroups ELSE {}

UpToTwo(S) == {<<>>} \cup S \cup {a \o b : a, b \in S}

First ==
  UNION {[body : {Body(major, TRUE)}, groups : UpToTwo(GroupsOf(major)), gap : {FALSE}]
           : major \in {0, 1, 2}}
    \cup UNION {[body : {Binary(major)}, groups : {<<>>} \cup GroupsOf(major), gap : {FALSE}]
                  : major \in {0, 1}}

Second ==
  {<<>>}
    \cup {<<[body |-> Body(1, ascii), groups |-> <<OneSig>>, gap |-> TRUE]>> : ascii \in BOOLEAN}
    \cup {<<[body |-> Body(2, TRUE), groups |-> <<Receipt>>, gap |-> FALSE]>>,
          <<[body |-> Body(0, TRUE), groups |-> <<>>, gap |-> TRUE]>>,
          <<[body |-> Binary(0), groups |-> <<OneSig>>, gap |-> TRUE]>>}

\* White space between the messages goes with their number
Conversations ==
  {<<[a EXCEPT !.gap = b # <<>> /\ b[1].body.major = 1]>> \o b : a \in First, b \in Second}
=============================================================================
