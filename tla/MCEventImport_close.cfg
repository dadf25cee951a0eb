SPECIFICATION Spec
CONSTANTS
  Events = {1}
  Slack = 0
  FirstWindow = 1
  Page = 1
  Window = 1
  Operators = {o1}
  Environment = {"confirm", "close"}
INVARIANTS ClosedIsSilent
