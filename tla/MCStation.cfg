SPECIFICATION StationSpec
CONSTANTS
  Focus = {"microphone", "occ", "occ_outage", "occ_days", "faults", "settings", "cameras", "scheduler", "hosts", "zones"}
  LiveSpeakers = {p1, p2}
  MaxSessions = 2
  WebThreads = {o1, o2}
  NoThread = Null
  OccEvents = {2}
  Identity <- OneIdentity
  NoIdentity = Null
  BatchSize = 1
  Syncers = {"service", "manual"}
  Service = "service"
  ManualKinds = {"heartbeat", "events"}
  MaxSequence = 2
  MaxDay = 1
  OccWorld = {"crash"}
  FaultKeys = {"service", "camera"}
  Watched = {"service"}
  LegacyFaults = {"camera"}
  StationCodes = {"here", "there"}
  HomeStation = "here"
  Pages = {"page"}
  FeedLimit = 2
  MaxVersion = 1
  MaxHappenings = 3
  Operators = {o1, o2}
  Nobody = Null
  MaxEdits = 1
  Viewers = {o1, o2}
  Urls = {"old", "new"}
  MaxStreams = 2
  Web = "web"
  Commands = {o1, o2}
  NoProc = Null
  Hosts = {"host"}
  Answers = {"ok", "bad", "no_events", "down", "garbled"}
  Busy = TRUE
  Zones = {"zone"}
  MaxCount = 1
  ZoneSyncers = {"thread", "command"}
  o1 = o1
  o2 = o2
  p1 = p1
  p2 = p2
  Null = Null
CHECK_DEADLOCK FALSE
SYMMETRY Symmetric
INVARIANTS
  StationTypeOK LiveIsConsistent SuccessWasConnected TimeoutWasItsOwn
  RecordingsAreSound SyncedWasReceived FaultsAreSound MirrorIsCurrent
  RestoreIsSafe PoolIsConsistent OneScheduler
PROPERTIES SequencesAreSound
