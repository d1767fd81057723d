SPECIFICATION Spec
CONSTANTS
  Callers = {control, app}
  Words = {lo, hi}
  MaxCalls = 4
  MaxClock = 2
INVARIANTS AloneIsExact OrderedBetweenOverlaps
SYMMETRY Symmetry
CHECK_DEADLOCK FALSE
