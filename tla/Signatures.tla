----------------------------- MODULE Signatures -----------------------------
(***************************************************************************)
(* Keys, signatures and how a verifier counts them: the primitives of      *)
(* affinidi-keri-crypto (signer.rs, verfer.rs, siger.rs, cigar.rs,         *)
(* salter.rs, diger.rs) and the loops of affinidi-keri-core/src/kever.rs   *)
(* over signatures and receipts, one element at a time and with their      *)
(* errors.  KeyState states the same checks over sets.                     *)
(*                                                                         *)
(* The curves are abstracted: the bytes of a signature tell who made it    *)
(* over what, and which algorithms can parse them.                         *)
(***************************************************************************)
EXTENDS Threshold

CONSTANT NoPoint  \* bytes of a key that are no point of its curve

Algorithm == {"Ed25519", "Secp256k1", "Secp256r1"}

----------------------------------------------------------------------------
(* Signers.                                                                *)

SignerAlgorithm ==
  [code \in {"A", "1AAA", "1AAB", "1AAI", "1AAJ"} |->
     CASE code = "A" -> "Ed25519"
       [] code \in {"1AAA", "1AAB"} -> "Secp256k1"
       [] OTHER -> "Secp256r1"]

VerferCode(alg, transferable) ==
  CASE alg = "Ed25519"   -> IF transferable THEN "D" ELSE "B"
    [] alg = "Secp256k1" -> IF transferable THEN "1AAB" ELSE "1AAA"
    [] OTHER             -> IF transferable THEN "1AAJ" ELSE "1AAI"

CigarCode(alg) ==
  CASE alg = "Ed25519" -> "0B" [] alg = "Secp256k1" -> "0C" [] OTHER -> "0I"

\* only: the signature counts for the current keys only
SigerCode(alg, only) ==
  CASE alg = "Ed25519"   -> IF only THEN "A" ELSE "B"
    [] alg = "Secp256k1" -> IF only THEN "C" ELSE "D"
    [] OTHER             -> IF only THEN "E" ELSE "F"

\* Salter::signer: the seed is stretched from the salt and the path
SignerFrom(salt, path, code, transferable) ==
  [code |-> code, seed |-> <<salt, path>>, transferable |-> transferable]

VerferOf(signer) ==
  LET alg == SignerAlgorithm[signer.code]
  IN  [code |-> VerferCode(alg, signer.transferable), key |-> <<alg, signer.seed>>]

SignRaw(signer, message) ==
  [by |-> <<SignerAlgorithm[signer.code], signer.seed>>, message |-> message,
   parses |-> Algorithm]

\* Indices are numbered from 1
SignIndexed(signer, message, index, only) ==
  [code |-> SigerCode(SignerAlgorithm[signer.code], only), index |-> index,
   ondex |-> IF only THEN {} ELSE {index}, raw |-> SignRaw(signer, message)]

Sign(signer, message) ==
  [code |-> CigarCode(SignerAlgorithm[signer.code]), raw |-> SignRaw(signer, message)]

----------------------------------------------------------------------------
(* Verfers.                                                                *)

VerferAlgorithm ==
  [code \in {"B", "D", "1AAA", "1AAB", "1AAI", "1AAJ"} |->
     CASE code \in {"B", "D"} -> "Ed25519"
       [] code \in {"1AAA", "1AAB"} -> "Secp256k1"
       [] OTHER -> "Secp256r1"]

DigestCode == {"E", "F", "G", "H", "I", "0D", "0E", "0F", "0G"}

\* Verfer::from_qb64 and Diger::from_qb64: no code is both
IsVerfer(qb64) == qb64.code \in DOMAIN VerferAlgorithm

IsDiger(qb64) == qb64.code \in DigestCode

\* "valid", "invalid", or "error" when the bytes of key or signature cannot be
\* parsed.  The code of the signature itself is not looked at.
Verify(verfer, message, raw) ==
  IF verfer.key = NoPoint \/ VerferAlgorithm[verfer.code] \notin raw.parses THEN "error"
  ELSE IF raw.by = verfer.key /\ raw.message = message THEN "valid"
  ELSE "invalid"

\* The prefix of an inception: its own SAID, or its first key
ValidatePrefixDerivation(icp) ==
  \/ IsDiger(icp.prefix) /\ icp.prefix = icp.said
  \/ ~IsDiger(icp.prefix) /\ IsVerfer(icp.prefix) /\ icp.keys # <<>> /\ icp.prefix = icp.keys[1]

----------------------------------------------------------------------------
(* Counting.  An error ends a loop.                                        *)

\* is_satisfied is given a list and takes its length for a count
IsSatisfiedBy(threshold, indices, totalKeys) ==
  IF threshold.kind = "simple" THEN threshold.k > 0 /\ Len(indices) >= threshold.k
  ELSE IsSatisfied(threshold, ToSet(indices), totalKeys)

\* Faulty variant: every valid signature counts
CountSigTwice(message, verfers, acc, sig) ==
  IF acc.failed \/ sig.index > Len(verfers) THEN acc
  ELSE LET result == Verify(verfers[sig.index], message, sig.raw)
       IN  [failed |-> result = "error",
            counted |-> IF result = "valid" THEN Append(acc.counted, sig.index) ELSE acc.counted]

CountSig(message, verfers, acc, sig) ==
  IF acc.failed \/ sig.index > Len(verfers) THEN acc
  ELSE LET result == Verify(verfers[sig.index], message, sig.raw)
       IN  [failed |-> result = "error",
            counted |-> IF result = "valid" /\ ~Contains(acc.counted, sig.index)
                        THEN Append(acc.counted, sig.index) ELSE acc.counted]

\* verify_sigs_static after verfers_from_keys
VerifySigsStatic(message, sigs, keys, threshold) ==
  LET acc[n \in 0..Len(sigs)] ==
        IF n = 0 THEN [failed |-> FALSE, counted |-> <<>>]
        ELSE CountSig(message, keys, acc[n - 1], sigs[n])
      end == acc[Len(sigs)]
  IN  IF (\E n \in DOMAIN keys : ~IsVerfer(keys[n])) \/ end.failed THEN "Crypto"
      ELSE IF IsSatisfiedBy(threshold, end.counted, Len(keys)) THEN "Ok"
      ELSE "ThresholdNotMet"

\* Faulty variant: a receipt is counted before it is known to be the first
CountReceiptTwice(message, backers, acc, couple) ==
  IF acc.failed \/ ~Contains(backers, couple.prefix) THEN acc
  ELSE IF ~IsVerfer(couple.prefix) THEN [acc EXCEPT !.failed = TRUE]
  ELSE LET result == Verify(couple.prefix, message, couple.raw)
       IN  [failed |-> result = "error",
            counted |-> IF result = "valid" THEN Append(acc.counted, couple.prefix)
                        ELSE acc.counted]

CountReceipt(message, backers, acc, couple) ==
  IF acc.failed \/ ~Contains(backers, couple.prefix) \/ Contains(acc.counted, couple.prefix)
  THEN acc
  ELSE IF ~IsVerfer(couple.prefix) THEN [acc EXCEPT !.failed = TRUE]
  ELSE LET result == Verify(couple.prefix, message, couple.raw)
       IN  [failed |-> result = "error",
            counted |-> IF result = "valid" THEN Append(acc.counted, couple.prefix)
                        ELSE acc.counted]

VerifyWitnessReceiptsStatic(message, couples, backers, threshold) ==
  LET acc[n \in 0..Len(couples)] ==
        IF n = 0 THEN [failed |-> FALSE, counted |-> <<>>]
        ELSE CountReceipt(message, backers, acc[n - 1], couples[n])
      end == acc[Len(couples)]
  IN  IF threshold = 0 THEN "Ok"
      ELSE IF end.failed THEN "Crypto"
      ELSE IF Len(end.counted) >= threshold THEN "Ok"
      ELSE "Validation"
=============================================================================
