SPECIFICATION Spec
CONSTANTS
  v1 = v1 v2 = v2 v3 = v3
  Absent = Absent Unreadable = Unreadable NotANumber = NotANumber
  Users = {"u1", "u2"}
  Volume <- MCVolume
  Incoming <- MCIncoming
  PageSize = 2
  MaxLimit = 1
  MaxOffset = 2
  MaxPages = 4
INVARIANTS GatewayIsPolicy ShowsOnlyVisible WalkComplete ListingInv
