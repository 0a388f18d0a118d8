CONSTANTS
  Ring = 7
  Low = 1
  Word = 16
  MaxFrames = 5
SPECIFICATION Spec
INVARIANT FreedWasSent
INVARIANT NoLeak
PROPERTY AllFreed
\* the frames end
CHECK_DEADLOCK FALSE
