SPECIFICATION Spec
CONSTANTS
  NumBlocks = 3
  Data <- TwoValues
  BlkSize = 4
  Wrap = 16
  Requests <- SomeRequests
  MaxFaults = 4
INVARIANT TypeOK
INVARIANT SessionMatchesCard
PROPERTY OneFaultIsRetried
PROPERTY ImplementsBlockDevice
