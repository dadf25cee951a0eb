SPECIFICATION Spec
CONSTANTS
  Speakers = {1, 2}
  Schedules = {}
  OnceSchedules = {}
  ScheduleSpeakers <- OnFirstSpeaker
  Logs = {l1, l2}
  Requests = {}
  Scheduler = Scheduler
  None = None
  Environment = {}
SYMMETRY Symmetric
PROPERTIES RecoveryClearsOnlyStale
