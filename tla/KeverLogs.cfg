SPECIFICATION Spec
CONSTANTS
  k1 = k1  k2 = k2  k3 = k3  k4 = k4  k5 = k5  k6 = k6  w1 = w1  w2 = w2
  Verifier = {v1, v2}
  NoKever = NoKever
  NoDelegator = NoDelegator
  U64Max = 1000
  Key <- Keys
  Witness <- Witnesses
  Said <- SaidOf
  KeyDigest <- DigestOfKey
  Prefix <- Identifiers
  Digest <- Digests
  Event <- Events
  Message <- Messages
SYMMETRY Symmetry
CONSTRAINT OneWorld
INVARIANTS
  TypeOK
  LogIsChain
  HeadDeterminesState
  RotationRevealsCommitment
  DelegationAnchored
PROPERTY
  AbandonedStaysAbandoned
CHECK_DEADLOCK FALSE
