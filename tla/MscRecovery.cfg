SPECIFICATION Spec
CONSTANTS
  NumBlocks = 4
  Stream = 2
  QDepth = 2
  LenMod = 16
  NumTags = 2
  Data = {"a", "b"}
  Junk = "junk"
  Commands <- RecoveryCommands
  ReadMayFail = TRUE
  WriteFailures = "last"
  ResetPolicy = "bus"
INVARIANT InEndpointFree
INVARIANT NothingLeftOver
INVARIANT ResidueHonest
INVARIANT TransferShape
INVARIANT OnlyOddTailsHang
PROPERTY Progress
PROPERTY ImplementsBlockDevice
