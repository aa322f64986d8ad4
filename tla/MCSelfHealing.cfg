SPECIFICATION Spec
CONSTANTS
  None = None
  Rule = {"smtp"}
  Message <- Lines
  Deployments <- Environments
  Retries = 2
  PollInterval = 2
  Cooldown = 3
  Limit = 2
  MaxLate = 1
  MaxTime = 4
  MaxLogged = 3
INVARIANTS TypeOK OneInsightPerCooldown CleanIterationFilesAll DegradedOnlyIfAllowed
PROPERTY SleepIsCovered
