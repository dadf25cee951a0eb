SPECIFICATION Spec
CONSTANTS
  Speakers = {1, 2}
  Schedules = {}
  OnceSchedules = {}
  ScheduleSpeakers <- OnFirstSpeaker
  Logs = {l1, l2}
  Requests = {r1}
  Scheduler = Scheduler
  None = None
  Environment = {"device", "crash", "stop_fails", "db_error", "slow"}
SYMMETRY Symmetric
INVARIANTS TypeOK OneActivePerSpeaker SuccessWasHeard NoOverlap
