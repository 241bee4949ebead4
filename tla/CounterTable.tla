---------------------------- MODULE CounterTable ----------------------------
(***************************************************************************)
(* What a CESR counter code means in each protocol version                 *)
(* (affinidi-keri-core/src/counter_table.rs).  A code stands without its   *)
(* dash, and the -0X form of a code for large counts is not distinguished, *)
(* as in GroupKind::classify.                                              *)
(***************************************************************************)
EXTENDS Naturals

\* CounterTable::from_major; 0 is a message without a version string
TableFromMajor(major) == IF major >= 2 THEN "V2" ELSE "V1"

Meanings ==
  [V1 |-> [A |-> "ControllerIdxSigs",      B |-> "WitnessIdxSigs",
           C |-> "NonTransReceiptCouples", D |-> "TransReceiptQuadruples",
           E |-> "FirstSeenReplayCouples", F |-> "TransIdxSigGroups",
           G |-> "SealSourceCouples",      V |-> "AttachedMaterialQuadlets"],
   V2 |-> [A |-> "AttachedMaterialQuadlets", B |-> "ControllerIdxSigs",
           C |-> "WitnessIdxSigs",           D |-> "NonTransReceiptCouples",
           E |-> "TransReceiptQuadruples",   F |-> "FirstSeenReplayCouples",
           G |-> "SealSourceCouples"]]

Classify(code, table) ==
  IF code \in DOMAIN Meanings[table] THEN Meanings[table][code] ELSE "None"

Codes ==
  [V1 |-> [ControllerIdxSigs |-> "A", WitnessIdxSigs |-> "B",
           NonTransReceiptCouples |-> "C", TransReceiptQuadruples |-> "D",
           FirstSeenReplayCouples |-> "E", TransIdxSigGroups |-> "F",
           SealSourceCouples |-> "G", AttachedMaterialQuadlets |-> "V"],
   V2 |-> [AttachedMaterialQuadlets |-> "A", ControllerIdxSigs |-> "B",
           WitnessIdxSigs |-> "C", NonTransReceiptCouples |-> "D",
           TransReceiptQuadruples |-> "E", FirstSeenReplayCouples |-> "F",
           SealSourceCouples |-> "G"]]

\* GroupKind::code
CodeOf(kind, table) ==
  IF kind \in DOMAIN Codes[table] THEN Codes[table][kind] ELSE "None"
=============================================================================
