SPECIFICATION Spec
CONSTANTS
  Speakers = {1}
  Schedules = {k1}
  OnceSchedules = {}
  ScheduleSpeakers <- OnFirstSpeaker
  Logs = {l1, l2}
  Requests = {r1}
  Scheduler = Scheduler
  None = None
  Environment = {"live", "manual", "operator", "db_error"}
SYMMETRY Symmetric
PROPERTIES NoResurrection OnlyOutrankedIsSkipped
