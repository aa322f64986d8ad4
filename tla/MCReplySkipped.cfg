SPECIFICATION Spec
CONSTANTS
  c1 = c1
  c2 = c2
  d1 = d1
  d2 = d2
  r1 = r1
  Conv = {c1}
  Delivery = {d1, d2, r1}
  ConvOf <- OneConv
  IdOf <- Ids12
  Redelivery = {r1}
  Settling = {c1}
  Turn = {t1, t2, t3}
  HandoffCall = {}
  None = None
  MaxTrackedTurns = 1
  Status = {"pending", "open"}
  MaxFaults = 0
  MaxRestarts = 1
SYMMETRY TurnSymmetry
PROPERTY SkippedWasAnswered
