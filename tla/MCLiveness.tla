---------------------------- MODULE MCLiveness ----------------------------
(***************************************************************************)
(* Small instances, for liveness, of components with work that must end.   *)
(* No action of one reads or writes a variable of another, so a behaviour  *)
(* runs the component it has in focus; the others stay where they start.   *)
(***************************************************************************)
EXTENDS Naturals

CONSTANTS
  Focus,   \* the components this run looks at
  Null

VARIABLES
  focus,  \* the component that runs in this behaviour
  \* OccSync
  syncStatus, rowCopy, hbSequence, occFailures, occFault, lastDaily,
  today, hourPassed, syncer, received, hbAccepted, summaries,
  \* StationApi
  faulty, happenings, stationCode, faultRows, changes, watchdog, results,
  backfill, raced, sinceId, mirror, modelVersion, localVersion, page,
  \* StreamPool
  opened, registered, url, thread, subscribers, idle, viewer,
  \* HostPolling
  answer, hostActive, hostStatus, connection, hostFaults, locked, poller,
  pending, tester, stoppedFault, deathCause,
  \* ZoneCounts
  reachable, followed, zonesLocked, counts, zoneRows, zoneSync,
  \* SchedulerProcess
  lockHolder, proc, webUp, statusFile, diskFull, schedFault

occVars ==
  <<syncStatus, rowCopy, hbSequence, occFailures, occFault, lastDaily,
    today, hourPassed, syncer, received, hbAccepted, summaries>>
faultsVars ==
  <<faulty, happenings, stationCode, faultRows, changes, watchdog,
    results, backfill, raced, sinceId, mirror, modelVersion,
    localVersion, page>>
camerasVars ==
  <<opened, registered, url, thread, subscribers, idle, viewer>>
hostsVars ==
  <<answer, hostActive, hostStatus, connection, hostFaults, locked,
    poller, pending, tester, stoppedFault, deathCause>>
zonesVars ==
  <<reachable, followed, zonesLocked, counts, zoneRows, zoneSync>>
schedulerVars ==
  <<lockHolder, proc, webUp, statusFile, diskFull, schedFault>>

Occ == INSTANCE OccSync WITH
  OccEvents <- {1, 2},
  Identity <- [e \in {1, 2} |-> IF e = 1 THEN Null ELSE "x"],
  NoIdentity <- Null, BatchSize <- 1, Syncers <- {"service"},
  Service <- "service", ManualKinds <- {}, MaxSequence <- 1, MaxDay <- 1,
  OccWorld <- {"outage", "db_error"}

Sta == INSTANCE StationApi WITH
  FaultKeys <- {"service"}, Watched <- {"service"},
  LegacyFaults <- {"service"}, StationCodes <- {"here", "there"},
  HomeStation <- "here", Pages <- {"page"}, FeedLimit <- 2,
  MaxVersion <- 1, MaxHappenings <- 3

Cam == INSTANCE StreamPool WITH
  Viewers <- {"first", "second"}, Urls <- {"old", "new"}, MaxStreams <- 2

Hst == INSTANCE HostPolling WITH
  Hosts <- {"host"}, Answers <- {"ok", "bad", "down", "garbled"},
  Busy <- TRUE

Zon == INSTANCE ZoneCounts WITH
  Zones <- {"zone"}, MaxCount <- 1, ZoneSyncers <- {"thread", "command"}

Sch == INSTANCE SchedulerProcess WITH
  Web <- "web", Commands <- {"command"}, NoProc <- Null

Init ==
  /\ focus \in Focus
  /\ Occ!OccInit
  /\ Sta!FaultsInit
  /\ Cam!PoolInit
  /\ Hst!PollingInit
  /\ Zon!ZonesInit
  /\ Sch!SchedulerInit
  (* One start is enough where a component is not in focus.                *)
  /\ focus # "hosts" => answer["host"] = "ok"
  /\ focus # "zones" => reachable

Next ==
  /\ UNCHANGED focus
  /\ IF focus = "occ" THEN Occ!OccNext ELSE UNCHANGED occVars
  /\ IF focus = "faults" THEN Sta!FaultsNext ELSE UNCHANGED faultsVars
  /\ IF focus = "cameras" THEN Cam!PoolNext ELSE UNCHANGED camerasVars
  /\ IF focus = "hosts" THEN Hst!PollingNext ELSE UNCHANGED hostsVars
  /\ IF focus = "zones" THEN Zon!ZonesNext ELSE UNCHANGED zonesVars
  /\ IF focus = "scheduler" THEN Sch!SchedulerNext ELSE UNCHANGED schedulerVars

vars ==
  <<focus, occVars, faultsVars, camerasVars, hostsVars, zonesVars, schedulerVars>>

Spec == Init /\ [][Next]_vars

(* The fairness of each component's own FairSpec, for the one in focus.    *)
FairOcc ==
  /\ WF_occVars(focus = "occ" /\ Occ!Step("service"))
  /\ \A k \in {"heartbeat", "events", "devices", "daily"} :
       SF_occVars(focus = "occ" /\ Occ!PostSucceeds("service") /\ syncer["service"].kind = k)
  /\ SF_occVars(focus = "occ" /\ Occ!RecoverFault("service"))

FairFaults ==
  /\ WF_faultsVars(focus = "faults" /\ Sta!WatchdogLooks("service"))
  /\ WF_faultsVars(focus = "faults" /\ Sta!WatchdogSyncs("service"))
  /\ WF_faultsVars(focus = "faults" /\ Sta!OccReads)
  /\ WF_faultsVars(focus = "faults" /\ Sta!BackfillChecks)
  /\ WF_faultsVars(focus = "faults" /\ Sta!BackfillAppends)

FairCameras ==
  /\ \A v \in {"first", "second"} :
       /\ WF_camerasVars(focus = "cameras" /\ Cam!Acquire(v))
       /\ WF_camerasVars(focus = "cameras" /\ Cam!Subscribe(v))
       /\ WF_camerasVars(focus = "cameras" /\ Cam!StreamEnded(v))
  /\ \A s \in 1..2 :
       /\ WF_camerasVars(focus = "cameras" /\ Cam!GraceEnds(s))
       /\ WF_camerasVars(focus = "cameras" /\ Cam!StopForIdle(s))
       /\ WF_camerasVars(focus = "cameras" /\ Cam!MarkStopped(s))
       /\ WF_camerasVars(focus = "cameras" /\ Cam!Remove(s))

FairHosts ==
  /\ WF_hostsVars(focus = "hosts" /\ Hst!PollerStep)
  /\ WF_hostsVars(focus = "hosts" /\ Hst!WatchPolling)
  /\ WF_hostsVars(focus = "hosts" /\ Hst!TestSave)

FairZones ==
  /\ \A s \in {"thread", "command"} : WF_zonesVars(focus = "zones" /\ Zon!SyncStep(s))
  /\ WF_zonesVars(focus = "zones" /\ Zon!RowsAge)

FairScheduler ==
  /\ \A p \in {"web", "command"} : WF_schedulerVars(focus = "scheduler" /\ Sch!ProcStep(p))
  /\ WF_schedulerVars(focus = "scheduler" /\ Sch!Start("web"))
  /\ WF_schedulerVars(focus = "scheduler" /\ Sch!StatusAges)
  /\ WF_schedulerVars(focus = "scheduler" /\ Sch!WatchScheduler)

FairSpec ==
  /\ Spec
  /\ FairOcc /\ FairFaults /\ FairCameras
  /\ FairHosts /\ FairZones /\ FairScheduler

-----------------------------------------------------------------------------
(* The properties, each stated and explained in its component's module.    *)
OccCatchesUp == focus = "occ" => Occ!OccCatchesUp
FaultsFollowServices == focus = "faults" => Sta!FaultsFollowServices
CapturesAreReleased == focus = "cameras" => Cam!CapturesAreReleased
HostsAreShown == focus = "hosts" => Hst!HostsAreShown
ZonesFollowHost == focus = "zones" => Zon!ZonesFollowHost
SchedulerLossIsReported == focus = "scheduler" => Sch!SchedulerLossIsReported

=============================================================================
