SPECIFICATION CdrSpec
CONSTANTS
  Null = Null
  Mixed = Mixed
  Frames <- FramesUsed
  NameLists <- NamesUsed
  Interfaces <- InterfacesUsed
  SlotSize = 122
  MaxMessages = 3
INVARIANTS
  JointStateConforms
  ReadFindsValues
  JointCommandConforms
  OverrunIsRefused
CHECK_DEADLOCK FALSE
