SPECIFICATION Spec
CONSTANTS
  U64Max = 63
  U32Max = 63
  VersionFixed = 1
  SizeDigits = 2
  Radix = 4
  Window = 8
  SaidLen = 3
  NoPoint = NoPoint
  NotMade = NotMade
  Other = Other
  Salt = Salt
  Salt2 = Salt2
  Bytes = Bytes
  OtherBytes = OtherBytes
  Cases <- MessageCases
  AnySigs <- SigsOf
  AnyCouples <- CouplesOf
  Followers <- Following
  MaxSigs = 3
  MaxCouples = 3
  Weights <- SmallWeights
  MaxClause = 3
  MaxKeys = 4
  MaxRest = 12
INVARIANTS
  ReadsAsMade
  SigsCountedOnce
  ReceiptsCountedOnce
  ThresholdReadBack
  NeverMetBelowOne
  ExactInRange
CHECK_DEADLOCK FALSE
