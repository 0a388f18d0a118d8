CONSTANTS
  Client = {c1}
  NoClient = NoClient
  NoFrame = NoFrame
  Forms = {"plain", "moved", "unsound"}
  MaxAsk = 2
  MaxFault = 2
SPECIFICATION FairSpec
INVARIANT NoUnaskedCombo
PROPERTY ComboIsRecent
PROPERTY AskingHeals
CHECK_DEADLOCK FALSE
