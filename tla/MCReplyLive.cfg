SPECIFICATION FairSpec
CONSTANTS
  c1 = c1
  c2 = c2
  d1 = d1
  d2 = d2
  r1 = r1
  Conv = {c1, c2}
  Delivery = {d1, d2, r1}
  ConvOf <- OwnConv
  IdOf <- Ids120
  Redelivery = {}
  Settling = {c1}
  Turn = {t1, t2, t3}
  HandoffCall = {}
  None = None
  MaxTrackedTurns = 1
  Status = {"pending", "open"}
  MaxFaults = 1
  MaxRestarts = 0
PROPERTY EventuallySettled
