SPECIFICATION FairSpec
CONSTANTS
  Focus = {"occ", "faults", "cameras", "hosts", "zones", "scheduler"}
  Null = Null
CHECK_DEADLOCK FALSE
PROPERTIES
  OccCatchesUp FaultsFollowServices CapturesAreReleased HostsAreShown
  ZonesFollowHost SchedulerLossIsReported
