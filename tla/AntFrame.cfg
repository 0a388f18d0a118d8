CONSTANTS
  Plain = Plain
  Foreign = Foreign
  MaxBody = 5
SPECIFICATION FrameSpec
INVARIANT Framed
INVARIANT RestoredUnlessLate
CHECK_DEADLOCK FALSE
