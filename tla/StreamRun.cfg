SPECIFICATION Spec
CONSTANTS
  MaxAttachmentCount = 2
  MaxCut = 1
  Sendings <- Conversations
INVARIANTS
  NothingLost
  ComposedIsParsed
  LenientIsStrictWhenInterpreted
CHECK_DEADLOCK FALSE
