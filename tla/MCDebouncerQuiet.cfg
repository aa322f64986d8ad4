\* How long a burst waits: a timer the finally block forgot flushes it early.
SPECIFICATION Spec
CONSTANTS
  k1 = k1
  k2 = k2
  m1 = m1
  m2 = m2
  m3 = m3
  m4 = m4
  Key = {k1}
  Message = {m1, m2, m3, m4}
  KeyOf <- OneKey
  State = {s1, s2, s3}
  None = None
  Settling = {k1}
SYMMETRY ObjectSymmetry
PROPERTY QuietWindow
