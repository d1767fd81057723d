SPECIFICATION FairSpec
CONSTANTS
  Words = {lo, hi}
  EffortMod = 2
  MaxResets = 1
INVARIANTS LastCommandIsAnswered
PROPERTIES LoopRecovers
