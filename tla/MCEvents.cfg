SPECIFICATION EventsSpec
CONSTANTS
  Focus = {"numbers", "requests", "recordings", "pages"}
  Callers = {o1, o2}
  Events = {1}
  Speakers = {p1, p2}
  RuleSpeakers = {p1, p2}
  Logs = {1, 2}
  NoLog = Null
  Writers = {o1, o2}
  EventIds = {1, 2, 3}
  Overwritten = {2}
  Recovered <- HiddenEvent
  Days = {1, 2}
  NoEvent = 0
  MaxNumber = 2
  Exporters = {o1, o2}
  MaxEvidence = 2
  MaxFiles = 2
  o1 = o1
  o2 = o2
  p1 = p1
  p2 = p2
  Null = Null
CHECK_DEADLOCK FALSE
SYMMETRY Symmetric
INVARIANTS
  EventsTypeOK SnapshotsSurvive PlaysOnce TriggerRowsAreSettled
   PagesAreComplete
PROPERTIES NumberNeverReused
