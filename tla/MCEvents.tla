------------------------------ MODULE MCEvents ------------------------------
(***************************************************************************)
(* Small event universes for the models.  Bodies are built the way the     *)
(* code builds them: everything but the SAID first, then the digest of it, *)
(* which stands in for d and, in a self-addressing inception, for i.       *)
(*                                                                         *)
(* A digest is a sequence of numbers that spells out what was digested:    *)
(* the prior digest, one number for the fields of the body, the anchored   *)
(* seal.  Kever's assumption SaidIsBinding, which TLC evaluates, says that *)
(* this loses nothing on the events of an instance.                        *)
(***************************************************************************)
EXTENDS Naturals, Sequences, SequencesExt, TLC

CONSTANTS k1, k2, k3, k4, k5, k6, w1, w2

Keys == {k1, k2, k3, k4, k5, k6}
Witnesses == {w1, w2}

KeyCode == (k1 :> 1) @@ (k2 :> 2) @@ (k3 :> 3) @@ (k4 :> 4) @@ (k5 :> 5) @@ (k6 :> 6)

DigestOfKey(k) == <<KeyCode[k]>>

Dig(ks) == [j \in DOMAIN ks |-> DigestOfKey(ks[j])]

Number(digits) == FoldLeft(LAMBDA n, x : 7 * n + x, 0, digits)

KeysCode(ks) == Number([j \in DOMAIN ks |-> KeyCode[ks[j]]])
DigestsCode(ds) == Number([j \in DOMAIN ds |-> ds[j][1]])
WitnessesCode(S) == (IF w1 \in S THEN 1 ELSE 0) + (IF w2 \in S THEN 2 ELSE 0)
ThresholdCode(kt) == IF kt.kind = "simple" THEN kt.k ELSE 0

IlkCode == ("icp" :> 0) @@ ("dip" :> 1) @@ ("rot" :> 2) @@ ("drt" :> 3) @@ ("ixn" :> 4)

BackersCode(e) ==
  IF e.t \in {"icp", "dip"}
  THEN e.b[w1] + 4 * e.b[w2]
  ELSE WitnessesCode(e.br) + 4 * WitnessesCode(e.ba)

\* One number for the fields of a body, in mixed radix
FieldsCode(e) ==
  IF e.t = "ixn" THEN 4
  ELSE IlkCode[e.t] + 5 * (ThresholdCode(e.kt) + 3 * (KeysCode(e.k)
         + 49 * (DigestsCode(e.n) + 49 * (e.bt + 3 * BackersCode(e)))))

IsDigest(x) == x \notin Keys

PrefixCode(i) == IF IsDigest(i) THEN i ELSE DigestOfKey(i)

SealsCode(S) ==
  LET seals == SetToSeq(S)
  IN  FlattenSeq([j \in DOMAIN seals |-> <<seals[j].s>> \o seals[j].d])

\* An rct body has only a place
SaidOf(e) ==
  IF e.t = "rct" THEN <<5, e.s>> \o PrefixCode(e.i) ELSE
  (IF e.t \in {"icp", "dip"} THEN (IF e.i = e.d THEN <<>> ELSE PrefixCode(e.i)) ELSE e.p)
    \o (IF e.t \in {"dip", "drt"} THEN PrefixCode(e.di) ELSE <<>>)
    \o <<FieldsCode(e), e.s>> \o SealsCode(e.a)

\* A body that lacks d, or d and i, completed
Addressed(body) == body @@ [d |-> SaidOf(body @@ [d |-> <<>>])]
SelfAddressed(body) ==
  LET said == SaidOf(body @@ [d |-> <<>>, i |-> <<>>])
  IN  body @@ [d |-> said, i |-> said]

NoBackers == [w \in Witnesses |-> 0]
Backers(S) == [w \in Witnesses |-> IF w \in S THEN 1 ELSE 0]

One == [kind |-> "simple", k |-> 1]
Two == [kind |-> "simple", k |-> 2]
Half == [num |-> 1, den |-> 2]
BothHalves == [kind |-> "weighted", clauses |-> << <<Half, Half>> >>]

IcpBody(kt, k, n, bt, b, a) ==
  [t |-> "icp", s |-> 0, kt |-> kt, k |-> k, n |-> Dig(n), bt |-> bt, b |-> b, a |-> a]

Icp(kt, k, n, bt, b, a) == SelfAddressed(IcpBody(kt, k, n, bt, b, a))

\* An inception for a prefix that is a key
BasicIcp(i, kt, k, n, bt, b) == Addressed(IcpBody(kt, k, n, bt, b, {}) @@ [i |-> i])

Dip(di, kt, k, n) == SelfAddressed(
  [t |-> "dip", s |-> 0, kt |-> kt, k |-> k, n |-> Dig(n), bt |-> 0, b |-> NoBackers,
   a |-> {}, di |-> di])

\* The events after e
RotBody(t, e, kt, k, n, bt, br, ba, a) ==
  [t |-> t, i |-> e.i, s |-> e.s + 1, p |-> e.d, kt |-> kt, k |-> k, n |-> Dig(n),
   bt |-> bt, br |-> br, ba |-> ba, a |-> a]

Rot(e, kt, k, n, bt, br, ba, a) == Addressed(RotBody("rot", e, kt, k, n, bt, br, ba, a))

Drt(e, di, kt, k, n) == Addressed(RotBody("drt", e, kt, k, n, 0, {}, {}, {}) @@ [di |-> di])

Ixn(e, a) == Addressed([t |-> "ixn", i |-> e.i, s |-> e.s + 1, p |-> e.d, a |-> a])

SealOf(e) == [i |-> e.i, s |-> e.s, d |-> e.d]

\* The signatures of all the keys of ks, each at its own index
SignedBy(ks) == {[index |-> j, key |-> ks[j]] : j \in DOMAIN ks}
=============================================================================
