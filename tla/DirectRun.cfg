SPECIFICATION DirectSpec
CONSTANTS
  k1 = k1  k2 = k2  k3 = k3  k4 = k4  k5 = k5  k6 = k6  w1 = w1  w2 = w2
  NoKever = NoKever
  NoDelegator = NoDelegator
  NoSaid = NoSaid
  U64Max = 1000
  Key <- Keys
  Witness <- Witnesses
  Said <- SaidOf
  KeyDigest <- DigestOfKey
  Prefix <- DirectPrefixes
  Digest <- DirectDigests
  Event <- DirectEvents
  Note <- Notes
  Message <- DirectMessages
INVARIANTS
  KeverAtStoredHead
  BackersReachThreshold
PROPERTY
  OneInceptionPerPrefix
