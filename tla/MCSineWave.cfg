SPECIFICATION FairSpec
CONSTANTS
  Default = 5
  Offset = 0
  NaN = NaN
  None = None
  MaxResets = 1
INVARIANTS PhaseFollowsActivation CommandIsLastComputed DefaultUntilCommand
PROPERTIES BoardFollows
