CONSTANTS
  V1 = V1
  V2 = V2
  Bad = Bad
  BadBoot = BadBoot
  Images = {V1, V2, Bad, BadBoot}
  Factory = V1
  Checked = {V2, Bad, BadBoot}
  Junk = Junk
  NoFile = NoFile
  Erased = Erased
  Damaged <- MCDamaged
  BootVersion <- MCBootVersion
  Single = {"BOOT", "CR51"}
  MaxUploads = 2
  MaxFaults = 1
  MaxCuts = 1
SPECIFICATION Spec
CHECK_DEADLOCK FALSE
INVARIANT NothingDamagedStored
INVARIANT MixtureIsRepairable
INVARIANT BootLostOnlyInGap
INVARIANT FlashFollows
