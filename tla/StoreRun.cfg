SPECIFICATION Spec
CONSTANTS
  A = A  B = B  a0 = a0  a1 = a1  a2 = a2  b0 = b0
  Char = {A, B}
  Prefix <- Identifiers
  MaxSn = 1
  Said = {a0, a1, a2, b0}
  PlaceOf <- Places2
  Name = {nm}
  Absent = Absent
  Sep = Sep
  Calls <- StoreCalls
  Puts <- OtherPuts
  Configs <- StoreConfigs
  MaxVersions = 3
CONSTRAINT NotTorn
INVARIANTS
  LogsReadable
  RecordIsLogged
  SavedIsLogged
PROPERTY
  KeepsPromise
