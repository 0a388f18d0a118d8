CONSTANTS
  V1 = V1
  V2 = V2
  Bad = Bad
  BadBoot = BadBoot
  Images = {V1, V2, Bad, BadBoot}
  Factory = V1
  Checked = {V2, Bad, BadBoot}
  Junk = Junk
  NoFile = NoFile
  Erased = Erased
  Off = Off
  Absent = Absent
  Empty = Empty
  Damaged <- MCDamaged
  BootVersion <- MCBootVersion
  Single = {}
  MaxUploads = 1
  MaxFaults = 1
  MaxCuts = 1
SPECIFICATION BootSpec
CHECK_DEADLOCK FALSE
INVARIANT TornNeverRuns
INVARIANT DeadIsRepairable
PROPERTY OneImageStarts
PROPERTY SoundImageInstalled
PROPERTY SoundImageBoots
