SPECIFICATION FairSpec
CONSTANTS
  MaxPacket = 2
  InLens <- OnePacketLength
  OutLens <- NoLengths
  HaltPolicy = "none"
  Abandons = FALSE
  OtherTraffic = TRUE
PROPERTY NoAnomaly
