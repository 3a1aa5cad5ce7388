\* EP2 alone: short, full and short-ended transfers, halts in phase.
SPECIFICATION FairSpec
CONSTANTS
  MaxPacket = 2
  InLens <- NoLengths
  OutLens <- OutLengths
  HaltPolicy = "inPhase"
  Abandons = FALSE
  OtherTraffic = FALSE
INVARIANT TypeOK
INVARIANT OutMoves
PROPERTY OutImplementsPipe
PROPERTY OutTransferEnds
