CONSTANTS
  NumSeg = 3
  WriteType = 1
  MaxSent = 6
  MaxRestarts = 1
SPECIFICATION Spec
INVARIANT FifoUnlessAccident
INVARIANT NoSlotRace
INVARIANT EqualMeansEmpty
INVARIANT OverrunKeepsNewest
PROPERTY NoPhantomLength
