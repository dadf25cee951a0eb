------------------------------ MODULE OccSync ------------------------------
(***************************************************************************)
(* What the station pushes to the OCC: heartbeats under a persistent       *)
(* sequence number, the events that have not been delivered yet, and one   *)
(* summary a day; and the OCC_SYNC_UNAVAILABLE fault that follows repeated *)
(* failures.  The OCC service and a manual sync_occ_once share one state   *)
(* row, so every read of it and every write is a step of its own.  The OCC *)
(* and the network are external: a request is delivered or not, and its    *)
(* answer may be lost; the retries of one _post are folded into it.        *)
(***************************************************************************)
EXTENDS Naturals, FiniteSets, FiniteSetsExt

CONSTANTS
  OccEvents,    \* Event ids: numbers, in id order
  Identity,     \* (source_host_code, source_event_id) of each, or NoIdentity
  NoIdentity,   \* what _event_for_occ cannot prove
  BatchSize,    \* KRTC_OCC_EVENT_BATCH_SIZE
  Syncers,      \* the processes: Service and manual runs
  Service,      \* run_occ_sync_service
  ManualKinds,  \* what a manual run is asked for (a bound)
  MaxSequence,  \* where the heartbeat sequence stops growing (a bound)
  MaxDay,       \* days looked at (a bound)
  OccWorld      \* which outside events are explored (a bound)

(* Events are handled in id order, and the bounds are numbers.             *)
ASSUME OccAssumption ==
  /\ OccEvents \subseteq Nat
  /\ MaxSequence \in Nat
  /\ MaxDay \in Nat \ {0}

VARIABLES
  syncStatus,   \* Event.occ_sync_status; "absent" before the event exists
  rowCopy,      \* an event row somebody read and will save as a whole
  hbSequence,   \* OccSyncState.heartbeat_sequence
  occFailures,  \* OccSyncState.consecutive_failures
  occFault,     \* an OCC_SYNC_UNAVAILABLE fault is active
  lastDaily,    \* the day of OccSyncState.last_daily_sync_at, 0 for null
  today,        \* the calendar day
  hourPassed,   \* is it later than KRTC_OCC_DAILY_SYNC_HOUR
  syncer,       \* where each process is
  received,     \* the identities the OCC has
  hbAccepted,   \* the heartbeat sequences the OCC has accepted
  summaries     \* the days the OCC has a summary of

occVars == <<received, hbAccepted, summaries>>
stateVars == <<hbSequence, occFailures, occFault, lastDaily>>
clockVars == <<today, hourPassed>>
occSyncVars == <<syncStatus, rowCopy, stateVars, clockVars, syncer, occVars>>

Statuses  == {"absent", "pending", "failed", "synced", "rejected"}
Threshold == 3
Turns     == {"heartbeat", "events", "devices", "daily"}
NoCopy    == [event |-> 0, status |-> "absent"]

AtRest(turn) ==
  [pc |-> "idle", turn |-> turn, kind |-> "none", number |-> 0, batch |-> {}, read |-> 0]

OccTypeOK ==
  /\ syncStatus \in [OccEvents -> Statuses]
  /\ rowCopy \in [event : OccEvents \union {0}, status : Statuses]
  /\ hbSequence \in 0..MaxSequence
  /\ occFailures \in 0..Threshold
  /\ occFault \in BOOLEAN
  /\ lastDaily \in 0..MaxDay
  /\ today \in 1..MaxDay
  /\ hourPassed \in BOOLEAN
  /\ syncer \in [Syncers ->
       [pc : {"idle", "posting", "succeeded", "recovering", "delivered",
              "failed", "counting", "reporting", "undelivered"},
        turn : Turns, kind : Turns \union {"none"}, number : Nat,
        batch : SUBSET OccEvents, read : Nat]]
  /\ received \subseteq {Identity[e] : e \in OccEvents}
  /\ hbAccepted \subseteq 0..MaxSequence
  /\ summaries \subseteq 0..MaxDay

OccInit ==
  /\ syncStatus = [e \in OccEvents |-> "absent"]
  /\ rowCopy = NoCopy
  /\ hbSequence = 0
  /\ occFailures = 0
  /\ occFault = FALSE
  /\ lastDaily = 0
  /\ today = 1
  /\ hourPassed = FALSE
  /\ syncer = [p \in Syncers |-> AtRest("heartbeat")]
  /\ received = {}
  /\ hbAccepted = {}
  /\ summaries = {}

Capped(n, top) == IF n < top THEN n ELSE top

(* The service works through its list; a manual run does what it is told.  *)
MayDo(p, kind) ==
  /\ syncer[p].pc = "idle"
  /\ IF p = Service THEN syncer[p].turn = kind ELSE kind \in ManualKinds

After(turn) ==
  CASE turn = "heartbeat" -> "events"
    [] turn = "events"    -> "devices"
    [] turn = "devices"   -> "daily"
    [] turn = "daily"     -> "heartbeat"

Posting(p, kind, number, batch) ==
  syncer' = [syncer EXCEPT ![p].pc = "posting", ![p].kind = kind,
                           ![p].number = number, ![p].batch = batch]

(* send_heartbeat reads the sequence it will send.                         *)
Heartbeat(p) ==
  /\ MayDo(p, "heartbeat")
  /\ Posting(p, "heartbeat", hbSequence, {})
  /\ UNCHANGED <<syncStatus, rowCopy, stateVars, clockVars, occVars>>

(* Mutant of Waiting: failed events are not tried again.                   *)
NeverFailed == {e \in OccEvents : syncStatus[e] = "pending"}

(* send_pending_events: what cannot be identified is rejected for good; of *)
(* the rest, in id order, the first of each identity, up to a batch.       *)
Waiting == {e \in OccEvents : syncStatus[e] \in {"pending", "failed"}}

Sendable(e) == Identity[e] # NoIdentity

FirstOfItsKind(e, among) ==
  \A o \in among : Identity[o] = Identity[e] => e <= o

Candidates ==
  LET known == {e \in Waiting : Sendable(e)} IN {e \in known : FirstOfItsKind(e, known)}

Batch == {e \in Candidates : Cardinality({o \in Candidates : o < e}) < BatchSize}

(* The loop over the rows stops at the event that fills the batch.         *)
Scanned(e) == Cardinality(Batch) < BatchSize \/ e <= Max(Batch)

CollectEvents(p) ==
  /\ MayDo(p, "events")
  /\ syncStatus' = [e \in OccEvents |->
       IF e \in Waiting /\ ~Sendable(e) /\ Scanned(e) THEN "rejected" ELSE syncStatus[e]]
  /\ IF Batch = {}
     THEN syncer' = [syncer EXCEPT ![p].turn = IF p = Service THEN After(@) ELSE @]
     ELSE Posting(p, "events", 0, Batch)
  /\ UNCHANGED <<rowCopy, stateVars, clockVars, occVars>>

(* daily_sync_due, asked once before the two daily requests.               *)
DailyDue == hourPassed /\ lastDaily < today

DeviceStatus(p) ==
  /\ MayDo(p, "devices")
  /\ IF DailyDue \/ p # Service
     THEN Posting(p, "devices", 0, {})
     ELSE syncer' = [syncer EXCEPT ![p].turn = "heartbeat"]
  /\ UNCHANGED <<syncStatus, rowCopy, stateVars, clockVars, occVars>>

(* send_daily_sync summarises the day before the one it starts on.         *)
DailySync(p) ==
  /\ MayDo(p, "daily")
  /\ Posting(p, "daily", today - 1, {})
  /\ UNCHANGED <<syncStatus, rowCopy, stateVars, clockVars, occVars>>

(* The OCC takes what a request holds.                                     *)
Delivered(p) ==
  LET req == syncer[p] IN
  /\ received' = received \union
       {Identity[e] : e \in IF req.kind = "events" THEN req.batch ELSE {}}
  /\ hbAccepted' = hbAccepted \union
       (IF req.kind = "heartbeat" THEN {req.number} ELSE {})
  /\ summaries' = summaries \union
       (IF req.kind = "daily" THEN {req.number} ELSE {})

PostSucceeds(p) ==
  /\ syncer[p].pc = "posting"
  /\ Delivered(p)
  /\ syncer' = [syncer EXCEPT ![p].pc = "succeeded"]
  /\ UNCHANGED <<syncStatus, rowCopy, stateVars, clockVars>>

(* No attempt succeeded; one of them may have reached the OCC all the same.*)
PostFails(p) ==
  /\ "outage" \in OccWorld
  /\ syncer[p].pc = "posting"
  /\ Delivered(p) \/ UNCHANGED occVars
  /\ syncer' = [syncer EXCEPT ![p].pc = "failed"]
  /\ UNCHANGED <<syncStatus, rowCopy, stateVars, clockVars>>

(* _mark_success: the counter is cleared, then the fault recovered; an     *)
(* error in the recovery is swallowed.                                     *)
MarkSuccess(p) ==
  /\ syncer[p].pc = "succeeded"
  /\ occFailures' = 0
  /\ syncer' = [syncer EXCEPT ![p].pc = "recovering"]
  /\ UNCHANGED <<syncStatus, rowCopy, hbSequence, occFault, lastDaily, clockVars, occVars>>

RecoverFault(p) ==
  /\ syncer[p].pc = "recovering"
  /\ occFault' = FALSE
  /\ syncer' = [syncer EXCEPT ![p].pc = "delivered"]
  /\ UNCHANGED <<syncStatus, rowCopy, hbSequence, occFailures, lastDaily, clockVars, occVars>>

(* _mark_failure: the counter is read, incremented and saved; the third    *)
(* failure in a row and every later one report the fault.                  *)
ReadFailures(p) ==
  /\ syncer[p].pc = "failed"
  /\ syncer' = [syncer EXCEPT ![p].pc = "counting", ![p].read = occFailures]
  /\ UNCHANGED <<syncStatus, rowCopy, stateVars, clockVars, occVars>>

MarkFailure(p) ==
  /\ syncer[p].pc = "counting"
  /\ occFailures' = Capped(syncer[p].read + 1, Threshold)
  /\ syncer' = [syncer EXCEPT ![p].pc =
       IF occFailures' >= Threshold THEN "reporting" ELSE "undelivered"]
  /\ UNCHANGED <<syncStatus, rowCopy, hbSequence, occFault, lastDaily, clockVars, occVars>>

ReportFault(p) ==
  /\ syncer[p].pc = "reporting"
  /\ occFault' = TRUE
  /\ syncer' = [syncer EXCEPT ![p].pc = "undelivered"]
  /\ UNCHANGED <<syncStatus, rowCopy, hbSequence, occFailures, lastDaily, clockVars, occVars>>

(* Both fault steps swallow their errors.                                  *)
FaultStepLost(p) ==
  /\ "db_error" \in OccWorld
  /\ syncer[p].pc \in {"recovering", "reporting"}
  /\ syncer' = [syncer EXCEPT ![p].pc =
       IF @ = "recovering" THEN "delivered" ELSE "undelivered"]
  /\ UNCHANGED <<syncStatus, rowCopy, stateVars, clockVars, occVars>>

SyncEnds(p) ==
  syncer' = [syncer EXCEPT ![p] =
    AtRest(IF p = Service THEN After(syncer[p].kind) ELSE "heartbeat")]

(* Mutant of Advanced: written without the comparison.                     *)
Overwritten(n) == Capped(n + 1, MaxSequence)

(* The row is locked and read again: a sender that was slower than another *)
(* one keeps the higher number.                                            *)
Advanced(n) == Max({hbSequence, Capped(n + 1, MaxSequence)})

(* What each sender records once its request succeeded.                    *)
RecordHeartbeat(p) ==
  /\ syncer[p].pc = "delivered"
  /\ syncer[p].kind = "heartbeat"
  /\ hbSequence' = Advanced(syncer[p].number)
  /\ SyncEnds(p)
  /\ UNCHANGED <<syncStatus, rowCopy, occFailures, occFault, lastDaily, clockVars, occVars>>

Outcome(batch, status) ==
  [e \in OccEvents |-> IF e \in batch THEN status ELSE syncStatus[e]]

RecordEvents(p) ==
  /\ syncer[p].pc = "delivered"
  /\ syncer[p].kind = "events"
  /\ syncStatus' = Outcome(syncer[p].batch, "synced")
  /\ SyncEnds(p)
  /\ UNCHANGED <<rowCopy, stateVars, clockVars, occVars>>

RecordDaily(p) ==
  /\ syncer[p].pc = "delivered"
  /\ syncer[p].kind \in {"devices", "daily"}
  /\ lastDaily' = IF syncer[p].kind = "daily" THEN today ELSE lastDaily
  /\ SyncEnds(p)
  /\ UNCHANGED <<syncStatus, rowCopy, hbSequence, occFailures, occFault, clockVars, occVars>>

(* Mutant of RecordFailure: a failed event is marked as sent.              *)
FailureAsSynced(p) ==
  /\ syncer[p].pc = "undelivered"
  /\ syncStatus' = Outcome(syncer[p].batch, "synced")
  /\ SyncEnds(p)
  /\ UNCHANGED <<rowCopy, stateVars, clockVars, occVars>>

(* After a failure only the events of the batch are touched.               *)
RecordFailure(p) ==
  /\ syncer[p].pc = "undelivered"
  /\ syncStatus' = Outcome(syncer[p].batch, "failed")
  /\ SyncEnds(p)
  /\ UNCHANGED <<rowCopy, stateVars, clockVars, occVars>>

---------------------------------------------------------------------------
(* Around the senders.                                                     *)

NewEvent(e) ==
  /\ syncStatus[e] = "absent"
  /\ \A o \in OccEvents : o < e => syncStatus[o] # "absent"
  /\ syncStatus' = [syncStatus EXCEPT ![e] = "pending"]
  /\ UNCHANGED <<rowCopy, stateVars, clockVars, syncer, occVars>>

(* Other parts of the station read an event and later save the whole row,  *)
(* its occ_sync_status included.                                           *)
ReadRow(e) ==
  /\ "row_saves" \in OccWorld
  /\ rowCopy = NoCopy
  /\ syncStatus[e] # "absent"
  /\ rowCopy' = [event |-> e, status |-> syncStatus[e]]
  /\ UNCHANGED <<syncStatus, stateVars, clockVars, syncer, occVars>>

SaveRow ==
  /\ rowCopy # NoCopy
  /\ syncStatus' = [syncStatus EXCEPT ![rowCopy.event] = rowCopy.status]
  /\ rowCopy' = NoCopy
  /\ UNCHANGED <<stateVars, clockVars, syncer, occVars>>

SyncerDies(p) ==
  /\ "crash" \in OccWorld
  /\ syncer[p].pc # "idle"
  /\ syncer' = [syncer EXCEPT ![p] = AtRest("heartbeat")]
  /\ UNCHANGED <<syncStatus, rowCopy, stateVars, clockVars, occVars>>

HourStrikes ==
  /\ ~hourPassed
  /\ hourPassed' = TRUE
  /\ UNCHANGED <<syncStatus, rowCopy, stateVars, today, syncer, occVars>>

Midnight ==
  /\ hourPassed
  /\ today < MaxDay
  /\ today' = today + 1
  /\ hourPassed' = FALSE
  /\ UNCHANGED <<syncStatus, rowCopy, stateVars, syncer, occVars>>

Step(p) ==
  \/ Heartbeat(p) \/ CollectEvents(p) \/ DeviceStatus(p) \/ DailySync(p)
  \/ PostSucceeds(p) \/ MarkSuccess(p) \/ RecoverFault(p)
  \/ RecordHeartbeat(p) \/ RecordEvents(p) \/ RecordDaily(p)
  \/ ReadFailures(p) \/ MarkFailure(p) \/ ReportFault(p) \/ RecordFailure(p)

OccNext ==
  \/ \E p \in Syncers : Step(p) \/ PostFails(p) \/ FaultStepLost(p) \/ SyncerDies(p)
  \/ \E e \in OccEvents : NewEvent(e) \/ ReadRow(e)
  \/ SaveRow
  \/ HourStrikes
  \/ Midnight

OccSpec == OccInit /\ [][OccNext]_occSyncVars

(* The service keeps running, and a kind of request that is tried again    *)
(* and again gets through some time; so does the recovery of the fault.    *)
FairSyncing ==
  /\ WF_occSyncVars(Step(Service))
  /\ \A k \in Turns : SF_occSyncVars(PostSucceeds(Service) /\ syncer[Service].kind = k)
  /\ SF_occSyncVars(RecoverFault(Service))

FairOccSpec == OccSpec /\ FairSyncing

---------------------------------------------------------------------------
(* An event counts as synced only if the OCC has it: no crash, lost answer,*)
(* overlapping manual run or stale row save loses one for good.            *)
SyncedWasReceived ==
  \A e \in OccEvents : syncStatus[e] = "synced" => Identity[e] \in received

(* The heartbeat sequence grows past a number only after the OCC accepted  *)
(* a heartbeat with it (CHANGELOG_PAO_OCC_HEARTBEAT_V1.md:5).              *)
SequenceWasAccepted == \A n \in 0..MaxSequence : n < hbSequence => n \in hbAccepted

(* A slow sender never takes back the sequence another one has advanced.   *)
SequenceNeverFalls == [][hbSequence' >= hbSequence]_occSyncVars

(* Heartbeat numbers go up, and only with the OCC's consent.               *)
SequencesAreSound == []SequenceWasAccepted /\ SequenceNeverFalls

(* Whatever fails on the way, an event that can be identified reaches the  *)
(* OCC once the OCC can be reached.                                        *)
EventIsDelivered ==
  \A e \in OccEvents :
    (syncStatus[e] = "pending" /\ Sendable(e)) ~> (Identity[e] \in received)

(* The synchronisation fault does not outlast the outage.                  *)
SyncFaultClears == occFault ~> ~occFault

(* The synchronisation catches up after an outage.                         *)
OccCatchesUp == EventIsDelivered /\ SyncFaultClears

(* A day on which the daily summary was sent had the day before summarised.*)
DailyCoversYesterday == lastDaily > 0 => lastDaily - 1 \in summaries

===========================================================================
