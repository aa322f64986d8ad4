\* A burst of three under one key, and a key whose flush may never settle.
SPECIFICATION FairSpec
CONSTANTS
  k1 = k1
  k2 = k2
  m1 = m1
  m2 = m2
  m3 = m3
  m4 = m4
  Key = {k1, k2}
  Message = {m1, m2, m3, m4}
  KeyOf <- TwoKeys
  State = {s1, s2, s3, s4}
  None = None
  Settling = {k1}
INVARIANTS TypeOK OneFlushPerKey MessageFate PendingIsScheduled
PROPERTIES ImplementsBatchQueue EventuallySettled
