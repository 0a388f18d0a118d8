CONSTANTS
  NumSeg = 3
  WriteType = 0
  MaxSent = 5
  MaxRestarts = 0
SPECIFICATION FairSpec
INVARIANT TypeOK
PROPERTY ImplementsChannel
PROPERTY AllDelivered
