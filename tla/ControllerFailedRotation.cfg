SPECIFICATION FailingSpec
CONSTANTS
  k1 = k1  k2 = k2  k3 = k3  k4 = k4  k5 = k5  k6 = k6  w1 = w1  w2 = w2
  NoKever = NoKever
  NoDelegator = NoDelegator
  NoEvent = NoEvent
  NoSaid = NoSaid
  NoHab = NoHab
  U64Max = 1000
  MaxSn = 2
  Key <- Keys
  Witness <- Witnesses
  Said <- SaidOf
  KeyDigest <- DigestOfKey
  Derive <- DeriveKey
  InceptionConfigs <- Inceptions
  RotationConfigs <- Rotations
  Anchors <- SealSets
  Prefix <- ControllerPrefixes
  Digest <- ControllerDigests
  Event <- ControllerEvents
  Note <- ControllerNotes
  HabSet <- AllHabs
  WitnessHabs <- Observers
  ReceiptSn = 1
  Message = {}
INVARIANT
  StateReproducesKeys
