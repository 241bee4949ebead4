----------------------------- MODULE MCMessage -----------------------------
(***************************************************************************)
(* Instances of Message, one group of cases per question: thresholds of    *)
(* all shapes with signatures as they should be, and a reference for the   *)
(* answer; a few key lists with signatures of all kinds; backers with      *)
(* receipts of all kinds; and messages of all sizes around the largest     *)
(* that the version string can say.                                        *)
(***************************************************************************)
EXTENDS Message

CONSTANTS Weights,    \* the weights used, pairs <<numerator, denominator>>
          MaxClause,  \* the longest clause
          MaxKeys,    \* the largest key set
          MaxRest,    \* the largest body besides v, d and i
          Other,      \* an identifier that is not the message's own
          Salt, Salt2,
          OtherBytes

SmallWeights == {<<1, 1>>, <<1, 2>>, <<2, 3>>, <<1, 10>>, <<0, 1>>}

----------------------------------------------------------------------------
(* Signers.                                                                *)

Ed(j) == SignerFrom(Salt, j, "A", TRUE)
K1(j) == SignerFrom(Salt, j, "1AAA", TRUE)

Wit(j) == SignerFrom(Salt2, j, IF j = 1 THEN "A" ELSE "1AAI", FALSE)

VerfersOf(signers) == [j \in DOMAIN signers |-> VerferOf(signers[j])]

Inception ==
  [lead |-> 1, v |-> <<VersionText(DefaultV1("JSON", 0))>>, d |-> Empty, i |-> Empty, rest |-> 1]

Plain ==
  [maker |-> "hab", kind |-> "JSON", draft |-> Inception, field |-> JsonString(Whole(1)),
   signers |-> <<Ed(1)>>, keys |-> VerfersOf(<<Ed(1)>>), backers |-> <<>>, bt |-> 0,
   tidy |-> TRUE]

----------------------------------------------------------------------------
(* Thresholds.                                                             *)

Text(pair) == IF pair[2] = 1 THEN Whole(pair[1]) ELSE Fraction(pair[1], pair[2])

ClauseFields ==
  {JsonArray([n \in DOMAIN c |-> JsonString(Text(c[n]))]) :
     c \in UNION {[1..n -> Weights] : n \in 1..MaxClause}}

ShortClauseFields == {c \in ClauseFields : Len(c.items) = 1}

\* One clause, or two of which the second has one weight; counts; and fields
\* that are refused
Fields ==
  {JsonString(Whole(k)) : k \in 0..MaxKeys} \cup {JsonNumber(k) : k \in 0..1}
    \cup {JsonArray(<<c>>) : c \in ClauseFields}
    \cup {JsonArray(<<c, d>>) : c \in ClauseFields, d \in ShortClauseFields}
    \cup {JsonArray(<<>>), JsonArray(<<JsonArray(<<>>)>>), JsonNull, JsonString(OtherText),
          JsonArray(<<JsonArray(<<JsonString(Fraction(1, 0))>>)>>),
          JsonArray(<<JsonArray(<<JsonNumber(1)>>)>>)}

ThresholdCases ==
  {[Plain EXCEPT !.field = f, !.signers = [j \in 1..n |-> Ed(j)],
                 !.keys = VerfersOf([j \in 1..n |-> Ed(j)])] :
     f \in Fields, n \in 1..MaxKeys}

----------------------------------------------------------------------------
(* Signatures of all kinds.                                                *)

\* Two curves; a signer listed twice; a key that is no point; a digest for a key
KeyLists ==
  {VerfersOf(<<Ed(1), K1(2)>>), VerfersOf(<<Ed(1), K1(2), Ed(1)>>),
   <<VerferOf(Ed(1)), [code |-> "1AAB", key |-> NoPoint]>>,
   <<VerferOf(Ed(1)), [code |-> "E", key |-> Other]>>}

SignatureCases ==
  {[Plain EXCEPT !.field = f, !.keys = keys, !.tidy = FALSE] :
     keys \in KeyLists,
     f \in {JsonString(Whole(1)), JsonNumber(2),
            JsonArray(<<JsonArray(<<JsonString(Fraction(1, 2)), JsonString(Fraction(1, 2))>>)>>)}}

\* Sixty-four bytes no ECDSA signature starts with, and bytes of another length
Zeros == [by |-> NoPoint, message |-> NoPoint, parses |-> {"Ed25519"}]
Short == [by |-> NoPoint, message |-> NoPoint, parses |-> {}]

Raws(signers) ==
  {SignRaw(signers[j], Bytes) : j \in DOMAIN signers}
    \cup {SignRaw(signers[1], OtherBytes), Zeros, Short}

SigsOf(c) ==
  IF c.backers # <<>> THEN {}
  ELSE {[code |-> "B", index |-> j, ondex |-> {j}, raw |-> raw] :
          j \in 1..(Len(c.keys) + 1), raw \in Raws(<<Ed(1), K1(2)>>)}

----------------------------------------------------------------------------
(* Receipts of all kinds.                                                  *)

Digested == [code |-> "E", key |-> Other]

ReceiptCases ==
  {[Plain EXCEPT !.backers = b, !.bt = n, !.tidy = FALSE] :
     b \in {VerfersOf(<<Wit(1), Wit(2)>>), <<VerferOf(Wit(1)), Digested, VerferOf(Wit(1))>>},
     n \in 0..2}

CouplesOf(c) ==
  IF c.backers = <<>> THEN {}
  ELSE {[prefix |-> p, raw |-> raw] :
          p \in {VerferOf(Wit(1)), VerferOf(Wit(2)), VerferOf(Ed(1)), Digested},
          raw \in Raws(<<Wit(1), Wit(2)>>)}

----------------------------------------------------------------------------
(* Sizes.                                                                  *)

Texts == {VersionText(DefaultV1("JSON", 0)), VersionText([protocol |-> "ACDC", kind |-> "JSON", size |-> 0]),
          Junk(1), Junk(VersionFixed + SizeDigits), Junk(VersionFixed + Radix * SizeDigits)}

Drafts ==
  [lead : {1, Window}, v : {<<>>} \cup {<<text>> : text \in Texts},
   d : {Empty}, i : {Empty, Other}, rest : 0..MaxRest]

SizeCases ==
  {[Plain EXCEPT !.maker = maker, !.draft = draft, !.kind = kind] :
     maker \in {"hab", "serder"}, draft \in Drafts, kind \in {"JSON", "CBOR"}}

\* A Hab writes JSON, its version string first
MessageCases ==
  ThresholdCases \cup SignatureCases \cup ReceiptCases
    \cup {c \in SizeCases :
            c.maker = "hab" =>
              c.kind = "JSON" /\ c.draft.lead = 1 /\ c.draft.v = Inception.v}

\* Nothing, a key event, or a body without a version string
Following ==
  {<<>>, <<SerderNew(ComputeSaid(FixVersionString(Inception)), "JSON")>>,
   <<SerderNew([Inception EXCEPT !.v = <<>>], "JSON")>>}

----------------------------------------------------------------------------
(* A reference for thresholds: cross-multiply by the product of all        *)
(* denominators.                                                           *)

\* The product of the first n denominators, for every n
Products(clause) ==
  LET product[n \in 0..Len(clause)] == IF n = 0 THEN 1 ELSE product[n - 1] * clause[n].den
  IN  product

Product(clause) == Products(clause)[Len(clause)]

\* The keys of clause c are the places before it plus 1, plus 2, ...
Offset(c) == Cardinality(UNION {{b} \X DOMAIN Kt.clauses[b] : b \in 1..(c - 1)})

\* What weight j adds to the sum, in units of 1 / Product
Share(c, j) ==
  IF Offset(c) + j \in ValidIndices
  THEN Kt.clauses[c][j].num * (Product(Kt.clauses[c]) \div Kt.clauses[c][j].den)
  ELSE 0

Total(c) ==
  Sums([j \in DOMAIN Kt.clauses[c] |-> Share(c, j)])[Len(Kt.clauses[c])]

Reached ==
  \/ Kt.kind = "simple" /\ Kt.k > 0 /\ Cardinality(ValidIndices) >= Kt.k
  \/ /\ Kt.kind = "weighted" /\ Kt.clauses # <<>>
     /\ \A c \in DOMAIN Kt.clauses : Total(c) >= Product(Kt.clauses[c])

\* The sum of the first n numerators, for every n
Numerators(clause) == Sums([j \in DOMAIN clause |-> clause[j].num])

\* No intermediate value of is_satisfied can leave the range of the type
InRange ==
  Kt.kind = "weighted" =>
    \A c \in DOMAIN Kt.clauses :
      Product(Kt.clauses[c]) * (1 + Numerators(Kt.clauses[c])[Len(Kt.clauses[c])]) <= U64Max

\* An event is never accepted when the exact sum of a clause of its threshold
\* falls short of 1 or the count short of the threshold, whatever overflows and
\* whatever signatures came with it.
NeverMetBelowOne == Accepted => Reached

\* Where the sums stay in range and everything can be parsed, the answer is
\* exactly the documented one.
ExactInRange ==
  event # NotMade /\ InRange /\ ~SomeSigFails => (Accepted <=> Reached)
=============================================================================
