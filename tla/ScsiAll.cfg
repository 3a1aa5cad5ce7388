SPECIFICATION Spec
CONSTANTS
  Depth = 4
  Wrap = 1024
  BlkSize = 128
  Packet = 64
  Capacity = 4
  SpillEntries = 2
  Commands <- AllCommands
INVARIANT TypeOK
INVARIANT ReadyForCbw
INVARIANT SenseRingIsQueue
INVARIANT AcceptedInRange
INVARIANT ResidueAccounts
INVARIANT AnswerBelongs
INVARIANT OnlyRefusalsHang
