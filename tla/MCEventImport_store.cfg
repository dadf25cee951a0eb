SPECIFICATION Spec
CONSTANTS
  Events = {1}
  Slack = 1
  FirstWindow = 2
  Page = 1
  Window = 1
  Operators = {o1, o2}
  Environment = {"loss", "late", "crash", "db_error", "snapshot", "confirm",
                 "close", "close_all", "reconcile"}
SYMMETRY Symmetric
INVARIANTS TypeOK
PROPERTIES ImplementsStore
