CONSTANTS
  Ring = 2
  QueueSize = 3
  PoolSize = 6
  MaxFrames = 6
SPECIFICATION Spec
INVARIANT OwnedOnce
INVARIANT CountTrails
PROPERTY OnlyUncountedWait
PROPERTY DryForGood
\* the frames end
CHECK_DEADLOCK FALSE
