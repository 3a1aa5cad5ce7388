SPECIFICATION FairSpec
CONSTANTS
  NumBlocks = 6
  Stream = 2
  QDepth = 2
  LenMod = 16
  NumTags = 2
  Data = {"a", "b"}
  Junk = "junk"
  Commands <- NominalCommands
  ReadMayFail = FALSE
  WriteFailures = "never"
  ResetPolicy = "none"
INVARIANT TypeOK
INVARIANT SingleToken
INVARIANT BufferOwnership
INVARIANT ArmedForWhatComes
PROPERTY Answered
