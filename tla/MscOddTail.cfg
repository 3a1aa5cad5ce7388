SPECIFICATION FairSpec
CONSTANTS
  NumBlocks = 4
  Stream = 2
  QDepth = 2
  LenMod = 16
  NumTags = 2
  Data = {"a", "b"}
  Junk = "junk"
  Commands <- OddTailCommands
  ReadMayFail = FALSE
  WriteFailures = "never"
  ResetPolicy = "none"
PROPERTY Answered
CHECK_DEADLOCK FALSE
