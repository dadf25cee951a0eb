SPECIFICATION FairSpec
CONSTANTS
  Speakers = {1}
  Schedules = {k1}
  OnceSchedules = {k1}
  ScheduleSpeakers <- OnFirstSpeaker
  Logs = {l1, l2}
  Requests = {r1}
  Scheduler = Scheduler
  None = None
  Environment = {"deactivate"}
PROPERTIES EveryBroadcastEnds InterruptedIsRescheduled
