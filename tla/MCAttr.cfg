CONSTANTS
  Creds <- BothCreds
  Creators <- BothCreds
  CreateModes <- SpecialModes
  Requests <- SomeRequests
  Keys = {"user.a", "trusted.a", "size"}
  Namespace <- Prefix
  MaxLen = 2
  MaxTime = 1
SPECIFICATION Spec
INVARIANTS TypeOK SetuidIsRoots CtimeCoversChanges
PROPERTIES SetgidKeepsGroup
