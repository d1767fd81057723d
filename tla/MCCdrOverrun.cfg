SPECIFICATION CdrSpec
CONSTANTS
  Null = Null
  Mixed = Mixed
  Frames <- FramesUsed
  NameLists <- NamesUsed
  Interfaces <- InterfacesUsed
  SlotSize = 122
  MaxMessages = 3
INVARIANT TemplateStaysInSlot
CHECK_DEADLOCK FALSE
