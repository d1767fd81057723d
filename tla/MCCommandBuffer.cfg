SPECIFICATION FairSpec
CONSTANTS
  Readers = {app}
  Bytes = {b1, b2}
  VersionMod = 3
  Counting = TRUE
  MaxWrites = 7
  MaxLap = 2
INVARIANTS TypeOK NoTornRead FreshRead CountedIsReadable
PROPERTIES RetryHasCause ReadReturns ImplementsRegister
