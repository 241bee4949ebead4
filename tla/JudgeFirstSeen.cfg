SPECIFICATION Spec
CONSTANTS
  k1 = k1  k2 = k2  k3 = k3  k4 = k4  k5 = k5  k6 = k6  w1 = w1  w2 = w2
  NoKever = NoKever
  NoDelegator = NoDelegator
  NoSaid = NoSaid
  U64Max = 1000
  MaxDelTotal = 2
  MaxDelPerPrefix = 2
  Key <- Keys
  Witness <- Witnesses
  Said <- SaidOf
  KeyDigest <- DigestOfKey
  Prefix <- JudgePrefixes
  Digest <- JudgeDigests
  Event <- JudgeEvents
  Note <- Notes
  Message <- JudgeMessages
INVARIANTS
  StoredKelIsChain
  TrustedStateIsReplayed
  EvidenceIsConflict
  EvidenceOncePerPrefix
  UnrotatedConflictIsFlagged
  AnswersMatchRecord
PROPERTIES
  FirstSeenPolicy
  DuplicitousIsDead
