SPECIFICATION FairSpec
CONSTANTS
  Positions = {1, 2}
  NaN = NaN
  Velocities <- MCVelocities
  MinVel = 2
  MaxVel = 3
  TimeoutCycles = 1
  MaxCommands = 2
INVARIANTS StaleCommandStops LastCommandWins
PROPERTIES EventuallyStops StateFollowsRig
CHECK_DEADLOCK FALSE
