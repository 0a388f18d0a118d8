CONSTANTS
  Pages <- MCPages
  Start <- MCStart
  MaxCount = 5
  Half = 16
  Signature = 83
  Residue <- MCResidue
  Values <- MCValues
  Counts = {3}
  MaxCommand = 3
  MaxFault = 1
  DsaMax = 3
  PowerUp = {2}
  Gains <- MCGains
SPECIFICATION Spec
INVARIANT LoadedWasSaved
INVARIANT GainIsFloor
PROPERTY OneLevelAtEnd
\* the commands end
CHECK_DEADLOCK FALSE
