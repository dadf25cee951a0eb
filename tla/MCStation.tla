---------------------------- MODULE MCStation ----------------------------
(***************************************************************************)
(* Small instances, for safety, of the station's other components.         *)
(* No action of one reads or writes a variable of another, so a behaviour  *)
(* runs the component it has in focus; the others stay where they start.   *)
(* OccSync runs with two other choices of its bounds besides.              *)
(***************************************************************************)
EXTENDS Microphone, OccSync, StationApi, ConfigRestore, StreamPool,
        SchedulerProcess, HostPolling, ZoneCounts, TLC

CONSTANTS
  Focus,   \* the components this run looks at
  o1, o2,  \* operators, their requests, or processes
  p1, p2,  \* speakers
  Null

VARIABLE focus  \* the component that runs in this behaviour

(* Where the control centre knows the only event by a name.                *)
OneIdentity == [e \in OccEvents |-> "x"]

(* A manual run of heartbeats only, with outages.                          *)
OccOutage == INSTANCE OccSync WITH
  ManualKinds <- {"heartbeat"}, MaxSequence <- 1,
  OccWorld <- {"outage", "crash"}

(* The service alone, over midnight and with other writers of event rows.  *)
OccDays == INSTANCE OccSync WITH
  ManualKinds <- {}, MaxSequence <- 1, MaxDay <- 2,
  OccWorld <- {"outage", "crash", "db_error", "row_saves"}

StationInit ==
  /\ focus \in Focus
  /\ Init
  /\ OccInit
  /\ FaultsInit
  /\ ConfigInit
  /\ PoolInit
  /\ SchedulerInit
  /\ PollingInit
  /\ ZonesInit
  (* One start is enough where a component is not in focus.                *)
  /\ focus # "hosts" => \A h \in Hosts : answer[h] = "ok"
  /\ focus # "zones" => reachable

StationNext ==
  /\ UNCHANGED focus
  /\ IF focus = "microphone" THEN Next ELSE UNCHANGED micVars
  /\ IF focus = "occ" THEN OccNext
     ELSE IF focus = "occ_outage" THEN OccOutage!OccNext
     ELSE IF focus = "occ_days" THEN OccDays!OccNext ELSE UNCHANGED occSyncVars
  /\ IF focus = "faults" THEN FaultsNext ELSE UNCHANGED stationVars
  /\ IF focus = "settings" THEN BoundedConfigNext ELSE UNCHANGED cfgVars
  /\ IF focus = "cameras" THEN PoolNext ELSE UNCHANGED streamVars
  /\ IF focus = "scheduler" THEN SchedulerNext ELSE UNCHANGED schedVars
  /\ IF focus = "hosts" THEN PollingNext ELSE UNCHANGED hostVars
  /\ IF focus = "zones" THEN ZonesNext ELSE UNCHANGED zoneVars

vars ==
  <<focus, micVars, occSyncVars, stationVars, cfgVars, streamVars, schedVars,
    hostVars, zoneVars>>

StationSpec == StationInit /\ [][StationNext]_vars

(* The two operators and the two speakers are interchangeable.             *)
Symmetric == Permutations({o1, o2}) \union Permutations({p1, p2})

-----------------------------------------------------------------------------
(* The component in focus keeps the type of its variables.                 *)
StationTypeOK ==
  /\ focus = "microphone" => TypeOK
  /\ focus = "occ" => OccTypeOK
  /\ focus = "occ_outage" => OccOutage!OccTypeOK
  /\ focus = "occ_days" => OccDays!OccTypeOK
  /\ focus = "faults" => FaultsTypeOK
  /\ focus = "settings" => ConfigTypeOK
  /\ focus = "cameras" => PoolTypeOK
  /\ focus = "scheduler" => SchedulerTypeOK
  /\ focus = "hosts" => PollingTypeOK
  /\ focus = "zones" => ZonesTypeOK

=============================================================================
