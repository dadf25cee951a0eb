------------------------------ MODULE ZoneCounts ------------------------------
(***************************************************************************)
(* How many people are in each zone of one inference host: the station     *)
(* mirrors /zone_counts, a latest-state endpoint, into ZoneCountState.  The*)
(* background thread does it every 15 seconds, the command poll_zone_counts*)
(* whenever somebody runs it, and each row is written by a statement of its*)
(* own.  An item the station cannot read is as good as absent.             *)
(***************************************************************************)
EXTENDS Naturals, FiniteSets, Functions

CONSTANTS
  Zones,         \* (camera, roi) pairs
  MaxCount,      \* people in a zone (a bound)
  ZoneSyncers    \* the background thread and poll_zone_counts

VARIABLES
  reachable,     \* the host answers
  followed,      \* is_active of the host
  zonesLocked,   \* another writer keeps the database locked
  counts,        \* the zones the host counts, and their people
  zoneRows,      \* ZoneCountState
  zoneSync       \* what each syncer does

outsideVars == <<reachable, followed, zonesLocked>>
zoneVars == <<reachable, followed, zonesLocked, counts, zoneRows, zoneSync>>

SetsOfZones == SUBSET Zones
CountsOf(zones) == [zones -> 0..MaxCount]
NoCounts == [z \in {} |-> 0]
IdleSync == [at |-> "idle", fetched |-> NoCounts, keys |-> {}]

AnyCounts == UNION {CountsOf(zones) : zones \in SetsOfZones}
RowsOfZones == UNION {[zones -> [count : 0..MaxCount, fresh : BOOLEAN]] : zones \in SetsOfZones}

ZonesTypeOK ==
  /\ reachable \in BOOLEAN /\ followed \in BOOLEAN /\ zonesLocked \in BOOLEAN
  /\ counts \in AnyCounts
  /\ zoneRows \in RowsOfZones
  /\ zoneSync \in [ZoneSyncers ->
                    [at : {"idle", "write", "delete", "dead"}, fetched : AnyCounts, keys : SetsOfZones]]

ZonesInit ==
  /\ reachable \in BOOLEAN
  /\ followed = TRUE
  /\ zonesLocked = FALSE
  /\ counts = NoCounts
  /\ zoneRows = [z \in {} |-> [count |-> 0, fresh |-> TRUE]]
  /\ zoneSync = [s \in ZoneSyncers |-> IdleSync]

---------------------------------------------------------------------------
(* sync_zone_counts_for_host: fetch, write row after row, remove the rest. *)

FetchZones(s) ==
  /\ zoneSync[s].at = "idle"
  /\ followed
  /\ reachable
  /\ zoneSync' = [zoneSync EXCEPT ![s] = [at |-> "write", fetched |-> counts, keys |-> DOMAIN counts]]
  /\ UNCHANGED <<counts, zoneRows>>

Upserted(z, count) ==
  [k \in DOMAIN zoneRows \union {z} |-> IF k = z THEN [count |-> count, fresh |-> TRUE] ELSE zoneRows[k]]

WriteZone(s) ==
  /\ zoneSync[s].at = "write"
  /\ ~zonesLocked
  /\ \E z \in zoneSync[s].keys :
       /\ zoneRows' = Upserted(z, zoneSync[s].fetched[z])
       /\ zoneSync' = [zoneSync EXCEPT ![s].keys = @ \ {z}]
  /\ UNCHANGED counts

(* Mutant of Unseen: rows are never removed.                               *)
NothingUnseen(s) == {}

(* The rows the answer does not name.                                      *)
Unseen(s) == DOMAIN zoneRows \ DOMAIN zoneSync[s].fetched

ListUnseen(s) ==
  /\ zoneSync[s].at = "write"
  /\ zoneSync[s].keys = {}
  /\ zoneSync' = [zoneSync EXCEPT ![s].at = "delete", ![s].keys = Unseen(s)]
  /\ UNCHANGED <<counts, zoneRows>>

(* A row that was deleted and created again in between counts as the same. *)
DeleteUnseen(s) ==
  /\ zoneSync[s].at = "delete"
  /\ ~zonesLocked
  /\ zoneRows' = Restrict(zoneRows, DOMAIN zoneRows \ zoneSync[s].keys)
  /\ zoneSync' = [zoneSync EXCEPT ![s] = IdleSync]
  /\ UNCHANGED counts

(* A locked database ends this synchronisation; the next one comes.        *)
SyncFails(s) ==
  /\ zoneSync[s].at # "idle"
  /\ zonesLocked
  /\ zoneSync' = [zoneSync EXCEPT ![s] = IdleSync]
  /\ UNCHANGED <<counts, zoneRows>>

(* Asking for the hosts is outside the try: the same lock ends the loop,   *)
(* and its thread, for good.                                               *)
ZoneLoopDies(s) ==
  /\ zoneSync[s].at = "idle"
  /\ zonesLocked
  /\ zoneSync' = [zoneSync EXCEPT ![s] = [IdleSync EXCEPT !.at = "dead"]]
  /\ UNCHANGED <<counts, zoneRows>>

SyncStep(s) ==
  /\ \/ FetchZones(s) \/ WriteZone(s) \/ ListUnseen(s) \/ DeleteUnseen(s)
     \/ SyncFails(s) \/ ZoneLoopDies(s)
  /\ UNCHANGED outsideVars

(* Somebody starts the server, or runs the command, again.                 *)
ZoneLoopStarts(s) ==
  /\ zoneSync[s].at = "dead"
  /\ zoneSync' = [zoneSync EXCEPT ![s] = IdleSync]
  /\ UNCHANGED <<outsideVars, counts, zoneRows>>

(* ZONE_COUNT_STALE_SECONDS pass over the rows that are not refreshed.     *)
RowsAge ==
  /\ zoneRows' = [z \in DOMAIN zoneRows |-> [zoneRows[z] EXCEPT !.fresh = FALSE]]
  /\ UNCHANGED <<outsideVars, counts, zoneSync>>

(* get_area_crowd_flow_items: the dashboard shows the fresh rows.          *)
Shown == {z \in DOMAIN zoneRows : zoneRows[z].fresh}

---------------------------------------------------------------------------
(* The host, the operator, the database, the people.                       *)

Outside ==
  /\ \/ reachable' = ~reachable /\ UNCHANGED <<followed, zonesLocked>>
     \/ followed' = ~followed /\ UNCHANGED <<reachable, zonesLocked>>
     \/ zonesLocked' = ~zonesLocked /\ UNCHANGED <<reachable, followed>>
  /\ UNCHANGED <<counts, zoneRows, zoneSync>>

PeopleMove ==
  /\ counts' \in AnyCounts
  /\ UNCHANGED <<outsideVars, zoneRows, zoneSync>>

ZonesNext ==
  \/ \E s \in ZoneSyncers : SyncStep(s) \/ ZoneLoopStarts(s)
  \/ RowsAge
  \/ Outside
  \/ PeopleMove

ZonesSpec == ZonesInit /\ [][ZonesNext]_zoneVars

(* Syncers run and end, and time passes.                                   *)
FairSyncs ==
  /\ \A s \in ZoneSyncers : WF_zoneVars(SyncStep(s))
  /\ WF_zoneVars(RowsAge)

FairZonesSpec == ZonesSpec /\ FairSyncs

---------------------------------------------------------------------------
(* The mirror ends up showing the zones the host counts and no other,      *)
(* though two synchronisations overlap and the older one writes last, as   *)
(* long as a locked database has not ended them both.                      *)
ZonesConverge ==
  (/\ <>[](reachable /\ followed /\ ~zonesLocked) /\ <>[][FALSE]_counts
   /\ <>[](\E s \in ZoneSyncers : zoneSync[s].at # "dead"))
    => <>[](/\ DOMAIN zoneRows = DOMAIN counts
            /\ \A z \in DOMAIN zoneRows : zoneRows[z].count = counts[z])

(* Counts of a host that stays away disappear from the dashboard.          *)
OldCountsDisappear == <>[](~reachable) => <>[](Shown = {})

(* What the dashboard shows of the zones follows the host.                 *)
ZonesFollowHost == ZonesConverge /\ OldCountsDisappear

===============================================================================
