SPECIFICATION Spec
CONSTANTS
  MaxPacket = 2
  InLens <- RefilledLength
  OutLens <- FilledLength
  HaltPolicy = "any"
  Abandons = TRUE
  OtherTraffic = TRUE
INVARIANT RuleTwo
INVARIANT BlocksApart
