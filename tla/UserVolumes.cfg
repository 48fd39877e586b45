SPECIFICATION Spec
CONSTANTS
  v1 = v1 v2 = v2 v3 = v3
  Absent = Absent Unreadable = Unreadable NotANumber = NotANumber
  Users = {"u1", "u2"}
  Volume <- MCVolume
  Incoming <- MCIncoming
  PageSize = 1
  MaxLimit = 2
  MaxOffset = 2
  MaxPages = 1
INVARIANT UserVolumesListed
