---------------------------- MODULE StationApi -----------------------------
(***************************************************************************)
(* What the station tells the control centre (OCC) about its devices, and  *)
(* the configuration it takes from it: the fault log with its append-only  *)
(* change feed, the watchdog and the camera checks that report into it, the*)
(* command that back-fills the feed, and the two ways in which the         *)
(* configuration version moves.                                            *)
(*                                                                         *)
(* A fault row is its position in faultRows (the id); report and recover   *)
(* are each one transaction, hence one step.  A report that the database   *)
(* refuses is swallowed by its caller and changes nothing.                 *)
(***************************************************************************)
EXTENDS Naturals, Sequences, FiniteSets

CONSTANTS
  FaultKeys,      \* a device with one of its fault codes
  Watched,        \* the keys the service watchdog checks; pages check the others
  LegacyFaults,   \* keys whose active row is older than the change feed
  StationCodes, HomeStation,
  Pages,          \* request threads
  FeedLimit,      \* the limit of a feed request
  MaxVersion,     \* configuration versions OCC ever sends (a bound)
  MaxHappenings   \* breakdowns, checks, forms, refreshes, commands (a bound)

(* Pages hold changes, and the bounds are numbers.                         *)
ASSUME FaultsAssumption ==
  /\ Watched \subseteq FaultKeys
  /\ LegacyFaults \subseteq FaultKeys /\ IsFiniteSet(LegacyFaults)
  /\ HomeStation \in StationCodes
  /\ FeedLimit \in Nat \ {0}
  /\ MaxVersion \in Nat /\ MaxHappenings \in Nat

VARIABLES
  faulty,        \* keys that are out of order, in truth
  happenings,
  stationCode,   \* StationLocalSettings.station_code
  faultRows,     \* DeviceFaultLog
  changes,       \* DeviceFaultChange
  watchdog,      \* what the watchdog saw of each service and has not stored yet
  results,       \* results of camera checks not stored yet
  backfill,      \* the back-fill command
  raced,         \* history: rows that changed under the back-fill
  sinceId,       \* OCC: since_id of its next request
  mirror,        \* OCC: the rows it takes for active faults
  modelVersion,  \* InferenceHostConfiguration.config_version
  localVersion,  \* StationLocalSettings.config_version
  page           \* where each request thread is

faultVars   == <<faultRows, changes>>
watchVars   == <<watchdog, results>>
feedVars    == <<backfill, raced>>
mirrorVars     == <<sinceId, mirror>>
configVars  == <<modelVersion, localVersion, page>>
stationVars == <<faulty, happenings, stationCode, faultVars, watchVars, feedVars, mirrorVars, configVars>>

NoCommand == [pc |-> "off", at |-> 0, copies |-> <<>>]
NoPage    == [pc |-> "idle", version |-> 0]

RowType == [key : FaultKeys, station : StationCodes, status : {"active", "recovered"}]

(* The ways to go through a set of rows one by one.                        *)
Orders(S) == {f \in [1..Cardinality(S) -> S] : \A i, j \in DOMAIN f : f[i] = f[j] => i = j}

FaultsTypeOK ==
  /\ faulty \subseteq FaultKeys
  /\ happenings \in 0..MaxHappenings
  /\ stationCode \in StationCodes
  /\ faultRows \in Seq(RowType)
  /\ changes \in Seq([row : Nat, status : {"active", "recovered"}])
  /\ watchdog \in [Watched -> {"none", "ok", "bad"}]
  /\ results \subseteq FaultKeys \X {"ok", "bad"}
  /\ backfill \in [pc : {"off", "check", "append"}, at : Nat, copies : Seq(RowType)]
  /\ raced \subseteq Nat
  /\ sinceId \in 0..Len(changes)
  /\ mirror \subseteq Nat
  /\ modelVersion \in 0..MaxVersion
  /\ localVersion \in Nat
  /\ page \in [Pages -> [pc : {"idle", "apply", "form"}, version : Nat]]

FaultsInit ==
  /\ faulty = LegacyFaults
  /\ happenings = 0
  /\ stationCode = HomeStation
  /\ \E legacy \in Orders(LegacyFaults) :
       faultRows = [i \in DOMAIN legacy |->
         [key |-> legacy[i], station |-> HomeStation, status |-> "active"]]
  /\ changes = <<>>
  /\ watchdog = [k \in Watched |-> "none"]
  /\ results = {}
  /\ backfill = NoCommand
  /\ raced = {}
  /\ sinceId = 0
  /\ mirror = {}
  /\ modelVersion = 0
  /\ localVersion = 0
  /\ page = [t \in Pages |-> NoPage]

Happens ==
  /\ happenings < MaxHappenings
  /\ happenings' = happenings + 1

---------------------------------------------------------------------------
(* The fault log.                                                          *)

ActiveIds(k) ==
  {i \in DOMAIN faultRows : /\ faultRows[i].key = k
                            /\ faultRows[i].station = stationCode
                            /\ faultRows[i].status = "active"}

RowsOf(k) == {i \in DOMAIN faultRows : faultRows[i].key = k}

Snapshot(i, state) == [row |-> i, status |-> state]

InFeed(i) == \E n \in DOMAIN changes : changes[n].row = i

(* report_device_fault: the newest active row is refreshed, or a new row is*)
(* created; either way the feed gets a snapshot.  Past the bound a refresh *)
(* that would repeat the last snapshot of its row is not followed.         *)
Refreshed(k) ==
  \E i \in ActiveIds(k) :
    /\ \A j \in ActiveIds(k) : j <= i
    /\ IF happenings = MaxHappenings /\ InFeed(i)
       THEN UNCHANGED <<changes, happenings>>
       ELSE /\ happenings' = IF happenings = MaxHappenings THEN happenings ELSE happenings + 1
            /\ changes' = Append(changes, Snapshot(i, "active"))
    /\ UNCHANGED faultRows

CreatedAlways(k) ==
  /\ faultRows' = Append(faultRows, [key |-> k, station |-> stationCode, status |-> "active"])
  /\ changes' = Append(changes, Snapshot(Len(faultRows'), "active"))
  /\ UNCHANGED happenings

Created(k) ==
  /\ ActiveIds(k) = {}
  /\ CreatedAlways(k)

Report(k) == Refreshed(k) \/ Created(k)

(* Mutant of Recover: the feed is not told.                                *)
RecoverQuietly(k) ==
  /\ faultRows' = [i \in DOMAIN faultRows |->
       IF i \in ActiveIds(k) THEN [faultRows[i] EXCEPT !.status = "recovered"]
       ELSE faultRows[i]]
  /\ UNCHANGED <<changes, happenings>>

(* recover_device_fault: every active row of the key under the station's   *)
(* present code; nothing at all when there is none.                        *)
Recover(k) ==
  /\ faultRows' = [i \in DOMAIN faultRows |->
       IF i \in ActiveIds(k) THEN [faultRows[i] EXCEPT !.status = "recovered"]
       ELSE faultRows[i]]
  /\ \E rows \in Orders(ActiveIds(k)) :
       changes' = changes \o [n \in DOMAIN rows |-> Snapshot(rows[n], "recovered")]
  /\ UNCHANGED happenings

Store(k, seen) == IF seen = "ok" THEN Recover(k) ELSE Report(k)

---------------------------------------------------------------------------
(* Who reports.                                                            *)

Breaks(k) ==
  /\ k \notin faulty
  /\ Happens
  /\ faulty' = faulty \union {k}
  /\ UNCHANGED <<stationCode, faultVars, watchVars, feedVars, mirrorVars, configVars>>

Mends(k) ==
  /\ k \in faulty
  /\ faulty' = faulty \ {k}
  /\ UNCHANGED <<happenings, stationCode, faultVars, watchVars, feedVars, mirrorVars, configVars>>

Observed(k) == IF k \in faulty THEN "bad" ELSE "ok"

(* evaluate_services, service by service: its health, then the fault log.  *)
WatchdogLooks(k) ==
  /\ watchdog[k] = "none"
  /\ watchdog' = [watchdog EXCEPT ![k] = Observed(k)]
  /\ UNCHANGED <<faulty, happenings, stationCode, faultVars, results, feedVars, mirrorVars, configVars>>

(* Mutant of WatchdogSyncs: a known service is not reported.               *)
WatchdogReportsOnce(k) ==
  /\ watchdog[k] # "none"
  /\ IF watchdog[k] = "bad" /\ RowsOf(k) # {} THEN UNCHANGED <<faultVars, happenings>>
     ELSE Store(k, watchdog[k])
  /\ watchdog' = [watchdog EXCEPT ![k] = "none"]
  /\ UNCHANGED <<faulty, stationCode, results, feedVars, mirrorVars, configVars>>

WatchdogSyncs(k) ==
  /\ watchdog[k] # "none"
  /\ Store(k, watchdog[k])
  /\ watchdog' = [watchdog EXCEPT ![k] = "none"]
  /\ UNCHANGED <<faulty, stationCode, results, feedVars, mirrorVars, configVars>>

(* camera_stream_check: a probe of some seconds, then the fault log; the   *)
(* results of two requests may be stored in either order.                  *)
CheckCamera(k) ==
  /\ k \notin Watched
  /\ Happens
  /\ results' = results \union {<<k, Observed(k)>>}
  /\ UNCHANGED <<faulty, stationCode, faultVars, watchdog, feedVars, mirrorVars, configVars>>

CheckStored(k, seen) ==
  /\ <<k, seen>> \in results
  /\ Store(k, seen)
  /\ results' = results \ {<<k, seen>>}
  /\ UNCHANGED <<faulty, stationCode, watchdog, feedVars, mirrorVars, configVars>>

---------------------------------------------------------------------------
(* The back-fill command: one snapshot of every row that has no change yet,*)
(* from the copies its query returned, each with a commit of its own.      *)

BackfillStarts ==
  /\ backfill.pc = "off"
  /\ Happens
  /\ backfill' = [pc |-> "check", at |-> 1, copies |-> faultRows]
  /\ UNCHANGED <<faulty, stationCode, faultVars, watchVars, raced, mirrorVars, configVars>>

BackfillChecks ==
  /\ backfill.pc = "check"
  /\ backfill' = IF backfill.at > Len(backfill.copies) THEN NoCommand
                 ELSE IF InFeed(backfill.at) THEN [backfill EXCEPT !.at = @ + 1]
                 ELSE [backfill EXCEPT !.pc = "append"]
  /\ UNCHANGED <<faulty, happenings, stationCode, faultVars, watchVars, raced, mirrorVars, configVars>>

BackfillAppends ==
  /\ backfill.pc = "append"
  /\ LET i == backfill.at IN
     /\ changes' = Append(changes, Snapshot(i, backfill.copies[i].status))
     /\ raced' = IF faultRows[i] = backfill.copies[i] THEN raced ELSE raced \union {i}
     /\ backfill' = [backfill EXCEPT !.pc = "check", !.at = i + 1]
  /\ UNCHANGED <<faulty, happenings, stationCode, faultRows, watchVars, mirrorVars, configVars>>

---------------------------------------------------------------------------
(* device_fault_changes, and OCC, which keeps a cursor per station.        *)

FeedPage(since) ==
  SubSeq(changes, since + 1,
         IF since + FeedLimit < Len(changes) THEN since + FeedLimit ELSE Len(changes))

(* The last change of a row says whether it is open.                       *)
IsLast(feed, n) == \A m \in (n + 1)..Len(feed) : feed[m].row # feed[n].row

Mirrored(open, feed) ==
  {i \in open : \A n \in DOMAIN feed : feed[n].row # i}
  \union {feed[n].row : n \in {m \in DOMAIN feed : feed[m].status = "active" /\ IsLast(feed, m)}}

OccReads ==
  /\ FeedPage(sinceId) # <<>>
  /\ sinceId' = sinceId + Len(FeedPage(sinceId))
  /\ mirror' = Mirrored(mirror, FeedPage(sinceId))
  /\ UNCHANGED <<faulty, happenings, stationCode, faultVars, watchVars, feedVars, configVars>>

---------------------------------------------------------------------------
(* Configuration.                                                          *)

(* configuration_apply: the version is compared before the transaction.    *)
ApplyChecks(t, v) ==
  /\ page[t].pc = "idle"
  /\ v > modelVersion
  /\ page' = [page EXCEPT ![t] = [pc |-> "apply", version |-> v]]
  /\ UNCHANGED <<faulty, happenings, stationCode, faultVars, watchVars, feedVars, mirrorVars,
                 modelVersion, localVersion>>

ApplyCommits(t) ==
  /\ page[t].pc = "apply"
  /\ Happens
  /\ modelVersion' = page[t].version
  /\ localVersion' = localVersion + 1
  /\ page' = [page EXCEPT ![t] = NoPage]
  /\ UNCHANGED <<faulty, stationCode, faultVars, watchVars, feedVars, mirrorVars>>

(* station_settings: the form is bound to the row as it was loaded, and the*)
(* whole row is saved.                                                     *)
FormLoads(t) ==
  /\ page[t].pc = "idle"
  /\ page' = [page EXCEPT ![t] = [pc |-> "form", version |-> localVersion]]
  /\ UNCHANGED <<faulty, happenings, stationCode, faultVars, watchVars, feedVars, mirrorVars,
                 modelVersion, localVersion>>

FormSaves(t, code) ==
  /\ page[t].pc = "form"
  /\ Happens
  /\ stationCode' = code
  /\ localVersion' = page[t].version + 1
  /\ page' = [page EXCEPT ![t] = NoPage]
  /\ UNCHANGED <<faulty, faultVars, watchVars, feedVars, mirrorVars, modelVersion>>

FaultsNext ==
  \/ \E k \in FaultKeys : Breaks(k) \/ Mends(k) \/ CheckCamera(k)
  \/ \E k \in Watched : WatchdogLooks(k) \/ WatchdogSyncs(k)
  \/ \E k \in FaultKeys, seen \in {"ok", "bad"} : CheckStored(k, seen)
  \/ BackfillStarts \/ BackfillChecks \/ BackfillAppends
  \/ OccReads
  \/ \E t \in Pages : \/ \E v \in 1..MaxVersion : ApplyChecks(t, v)
                      \/ ApplyCommits(t)
                      \/ FormLoads(t)
                      \/ \E code \in StationCodes : FormSaves(t, code)

FaultsSpec == FaultsInit /\ [][FaultsNext]_stationVars

(* The watchdog's loop never ends; OCC polls the feed.                     *)
Watching ==
  /\ \A k \in Watched : /\ WF_stationVars(WatchdogLooks(k))
                        /\ WF_stationVars(WatchdogSyncs(k))
  /\ WF_stationVars(OccReads)
  /\ WF_stationVars(BackfillChecks)
  /\ WF_stationVars(BackfillAppends)

FairFaultsSpec == FaultsSpec /\ Watching

---------------------------------------------------------------------------
(* A device has at most one open fault of a kind under one station code,   *)
(* whatever checks overlap (report_device_fault).                          *)
OneOpenFault ==
  \A i, j \in DOMAIN faultRows :
    faultRows[i] = faultRows[j] /\ faultRows[i].status = "active" => i = j

(* Once OCC has read the feed to its end, it knows the state of every row  *)
(* that is in the feed, unless a row changed while the back-fill command   *)
(* held its copy (the change feed of device_faults.py and views.py).       *)
MirrorIsCurrent ==
  sinceId = Len(changes) => \A i \in DOMAIN faultRows :
    i \notin raced /\ InFeed(i) => (i \in mirror <=> faultRows[i].status = "active")

(* In the feed a fault that has recovered is not active again later: a new *)
(* breakdown is a new row, also when an old check result arrives late.     *)
RecoveryIsFinal ==
  \A n, m \in DOMAIN changes :
    /\ n < m
    /\ changes[n].row = changes[m].row
    /\ changes[n].row \notin raced
    => (changes[n].status = "recovered" => changes[m].status = "recovered")

(* The life of a fault row: opened once, closed once.                      *)
FaultsAreSound == OneOpenFault /\ RecoveryIsFinal

(* A service that is out of order for good is in the end an open fault for *)
(* OCC, however the station is renamed meanwhile (the watchdog's loop).    *)
OutageReachesOcc ==
  \A k \in Watched :
    <>[](k \in faulty) => <>[](\E i \in mirror : i \in DOMAIN faultRows /\ faultRows[i].key = k)

(* A service that works for good has in the end no open fault under the    *)
(* station's present code.                                                 *)
RecoveryIsRecorded ==
  \A k \in Watched : <>[](k \notin faulty) => <>[](ActiveIds(k) = {})

(* The faults follow the services.                                         *)
FaultsFollowServices == OutageReachesOcc /\ RecoveryIsRecorded

(* OCC's configuration versions only move forward.                         *)
VersionOnlyRises == [][modelVersion' >= modelVersion]_stationVars

===========================================================================
