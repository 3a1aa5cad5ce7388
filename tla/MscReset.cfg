SPECIFICATION Spec
CONSTANTS
  NumBlocks = 4
  Stream = 2
  QDepth = 2
  LenMod = 16
  NumTags = 2
  Data = {"a", "b"}
  Junk = "junk"
  Commands <- TwoChunkCommands
  ReadMayFail = FALSE
  WriteFailures = "never"
  ResetPolicy = "any"
PROPERTY AbandonedStaysAbandoned
