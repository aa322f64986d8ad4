SPECIFICATION FairSpec
CONSTANTS
  Conv = {c1, c2, c3}
  Turn = {t1, t2, t3}
  HandoffCall = {h1}
  None = None
  MaxTrackedTurns = 2
  Status = {"pending", "open"}
  Settling = {c1, c2}
INVARIANTS TypeOK RegistryBounded MarkedByOwnHandoff
PROPERTIES MarkFinalOnceSettled EntryFollowsItsTurn SlotsAreReleased
