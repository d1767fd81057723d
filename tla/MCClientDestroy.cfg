SPECIFICATION Spec
CONSTANTS
  Tier = 2
  MaxPublishers = 2
  MaxSubscribers = 1
  Freqs = {50}
  StateSizes = {16}
  CmdSizes = {8}
  MaxState = 256
  MaxCmd = 256
  PayloadSizes = {0, 8, 16, 128, 1025}
  MaxAccepted = 1
INVARIANTS DestroyDeinitializes
