SPECIFICATION FairSpec
CONSTANTS
  Events = {1, 2, 3}
  Slack = 1
  FirstWindow = 1
  Page = 4
  Window = 3
  Operators = {}
  Environment = {"loss", "late"}
INVARIANTS CaughtUpIsComplete
PROPERTIES EveryEventIsStored
