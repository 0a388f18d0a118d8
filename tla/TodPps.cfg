CONSTANTS
  CaliSecond = 1
  MaxSecond = 5
  GarbledAs = {0, 3, 5}
  MaxGarbled = 1
SPECIFICATION Spec
CHECK_DEADLOCK FALSE
INVARIANT RecoversInTwo
PROPERTY NoStaleWrite
PROPERTY NeverAhead
