SPECIFICATION FairSpec
CONSTANTS
  Tier = 1
  MaxPublishers = 2
  MaxSubscribers = 1
  Freqs = {0, 50}
  StateSizes = {16, 300}
  CmdSizes = {8, 300}
  MaxState = 256
  MaxCmd = 256
  PayloadSizes = {8, 16, 1025}
  MaxAccepted = 1
INVARIANTS RunningIsTruthful NoZeroDivision NoCallbackIntoReset InitializedIsComplete
PROPERTIES ThreadObjectIsFree DestroyFreesAll CallReturns KeepsPublishing
