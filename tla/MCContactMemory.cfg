SPECIFICATION Spec
CONSTANTS
  Conv = {1, 2, 3}
  Contact = {1, 2}
  ContactOf <- TwoAndOne
  Payload <- Payloads
  Thread = {t1, t2}
  Unknown = Unknown
  None = None
  MaxFaults = 1
  MaxRestarts = 1
SYMMETRY ThreadSymmetry
INVARIANTS TypeOK NoSharedMemory
PROPERTY MemoryIsKept
