\* EP3 alone: no packet's worth of data up to five packets, halts in phase.
SPECIFICATION FairSpec
CONSTANTS
  MaxPacket = 2
  InLens <- InLengths
  OutLens <- NoLengths
  HaltPolicy = "inPhase"
  Abandons = FALSE
  OtherTraffic = FALSE
INVARIANT PidAgrees
INVARIANT InMoves
PROPERTY NoAnomaly
PROPERTY InImplementsPipe
PROPERTY InTransferEnds
