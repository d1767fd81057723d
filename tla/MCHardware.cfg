SPECIFICATION Spec
CONSTANTS
  StateFields = {s1, s2}
  CommandFields = {c1}
  NaN = NaN
  Commands = {7}
  MaxMessages = 3
  MaxSessions = 3
INVARIANTS
  StatesAreOneMessage
  CommandsAreNumbers
  PublisherIsAlive
PROPERTIES
  StatesGoForward
  StoredIsShown
CHECK_DEADLOCK FALSE
