SPECIFICATION Spec
CONSTANTS
  Docs <- MCDocs
  Numbers <- MCNumbers
  Float64s <- MCDoubles
  Float32s <- MCFloats
  Limits <- MCLimits
  Missing = Missing
  NoMap = NoMap
  Infinity = Infinity
  Junk = Junk
INVARIANTS
  
  CommandsArrive
  StatesArrive
CHECK_DEADLOCK FALSE
