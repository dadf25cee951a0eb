SPECIFICATION Spec
CONSTANTS
  Speakers = {1, 2}
  Schedules = {k1}
  OnceSchedules = {}
  ScheduleSpeakers <- OnSecondSpeaker
  Logs = {l1, l2}
  Requests = {r1}
  Scheduler = Scheduler
  None = None
  Environment = {"deactivate"}
SYMMETRY Symmetric
INVARIANTS NoOverlap
