----------------------------- MODULE Broadcast -----------------------------
(***************************************************************************)
(* The arbitration of the station's IP speakers: BroadcastLog rows, the    *)
(* threads that play them through pjsua processes, and the requests that   *)
(* interrupt, clean up and create them.                                    *)
(*                                                                         *)
(* Every thread works on copies of rows it read earlier.  A transaction is *)
(* one step; whatever the code does between two transactions (stop a       *)
(* process, play a file, save a stale copy) is a step of its own, so that  *)
(* other threads come in between.                                          *)
(*                                                                         *)
(* Wall-clock time is abstract: which rows are older than a stale-lock     *)
(* timeout, and when a schedule falls due, is chosen freely.  Only the     *)
(* order that the recovery cutoff compares (a row created before another   *)
(* one started) is kept, in seen.                                          *)
(***************************************************************************)
EXTENDS Naturals, FiniteSets, Functions

CONSTANTS
  Speakers,         \* speaker codes: numbers, ordered as the codes are
  Schedules,        \* BroadcastSchedule rows
  OnceSchedules,    \* the ones of TYPE_ONCE; the others are TYPE_DAILY
  ScheduleSpeakers, \* the speakers of each schedule
  Logs,             \* identities of BroadcastLog rows (bound on rows alive)
  Requests,         \* web threads serving operator requests
  Scheduler,        \* the scheduler loop (one, by its process lock)
  None,             \* the null of a nullable column
  Environment       \* which outside events are explored (a bound)

AllEnvironment ==
  {"device", "deactivate", "crash", "stop_fails", "db_error", "operator", "slow",
   "live", "manual"}

ASSUME ConstantsAssumption ==
  /\ Speakers \subseteq Nat
  /\ IsFiniteSet(Speakers)
  /\ OnceSchedules \subseteq Schedules
  /\ ScheduleSpeakers \in [Schedules -> SUBSET Speakers]
  /\ None \notin Speakers \union Schedules
  /\ Scheduler \notin Requests \union Logs
  /\ Requests \intersect Logs = {}
  /\ Environment \subseteq AllEnvironment

Automatic == "formal_inference_host"
Console   == "station_broadcast_console"
Manual    == "dashboard_manual_event_broadcast"
Scheduled == "broadcast_schedule"
Live      == "live_microphone"
Sources   == {Automatic, Console, Manual, Scheduled, Live}

(* The rows that belong to an event.                                       *)
EventOwned == {Automatic, Manual}

PriorityLive     == 300
PriorityWarning  == 200
PrioritySchedule == 100

Priority(src) ==
  IF src = Live THEN PriorityLive
  ELSE IF src = Scheduled THEN PrioritySchedule ELSE PriorityWarning

ActiveStatuses == {"pending", "playing"}
FinalStatuses  == {"success", "failed", "skipped"}
Statuses       == ActiveStatuses \union FinalStatuses

VARIABLES
  row,      \* the BroadcastLog table
  worker,   \* how far the thread inside process_single_broadcast_log is, or the
            \* live microphone's call of this row
  seen,     \* the rows that existed when an automatic log started
  heard,    \* history: the logs whose playback ran to its verified end
  pjsua,    \* the logs whose pjsua process is running
  slot,     \* the port slot of each worker between its count and its process's end
  device,   \* SpeakerDevice.is_active / status
  copies,   \* the rows a cleanup or interruption still has to act on
  request,  \* where each operator request is
  pass,     \* the scheduler's current pass over the due schedules
  sched,    \* BroadcastSchedule: is_active and next_run_at
  owed      \* history: schedules cut short and not yet put back

schedVars == <<sched, owed>>
rowVars   == <<row, schedVars>>
playVars  == <<worker, seen, heard, pjsua, slot>>
actorVars == <<copies, request, pass>>
vars      == <<rowVars, playVars, actorVars, device>>

Actors == Requests \union Logs \union {Scheduler}

WorkerStages ==
  {"none", "prepared", "checked", "counted", "tested", "playing", "done_ok", "done_bad",
   "read_ok", "read_bad", "marked", "recovering", "dialing", "on_air"}

Row ==
  [status : Statuses \union {"none"}, speaker : Speakers \union {None},
   source : Sources \union {None}, schedule : Schedules \union {None}]

NoRow == [status |-> "none", speaker |-> None, source |-> None, schedule |-> None]

Copy == [log : Logs, step : {"pending", "playing", "stopped", "saved"}]

Request ==
  [pc : {"idle", "clear", "stale", "interrupt", "create", "reset"},
   source : Sources, speakers : SUBSET Speakers]

NoRequest == [pc |-> "idle", source |-> Console, speakers |-> {}]

Pass ==
  [pc : {"idle", "stale", "running"}, due : SUBSET Schedules, waiting : SUBSET Logs]

NoPass == [pc |-> "idle", due |-> {}, waiting |-> {}]

Schedule ==
  [active : BOOLEAN, next : {"none", "later", "due", "deleted"}, past : BOOLEAN]

TypeOK ==
  /\ row \in [Logs -> Row]
  /\ worker \in [Logs -> WorkerStages]
  /\ seen \in [Logs -> SUBSET Logs]
  /\ heard \subseteq Logs
  /\ pjsua \subseteq Logs
  /\ slot \in [Logs -> Nat]
  /\ device \in [Speakers -> {"online", "offline", "inactive"}]
  /\ copies \in [Actors -> SUBSET Copy]
  /\ request \in [Requests -> Request]
  /\ pass \in Pass
  /\ sched \in [Schedules -> Schedule]
  /\ owed \subseteq Schedules

Init ==
  /\ row = [l \in Logs |-> NoRow]
  /\ worker = [l \in Logs |-> "none"]
  /\ seen = [l \in Logs |-> {}]
  /\ heard = {}
  /\ pjsua = {}
  /\ slot = [l \in Logs |-> 0]
  /\ device = [s \in Speakers |-> "online"]
  /\ copies = [a \in Actors |-> {}]
  /\ request = [r \in Requests |-> NoRequest]
  /\ pass = NoPass
  /\ sched = [k \in Schedules |-> [active |-> TRUE, next |-> "later", past |-> FALSE]]
  /\ owed = {}

-----------------------------------------------------------------------------
(* The BroadcastLog table.                                                 *)

Active(l) == row[l].status \in ActiveStatuses
Final(l)  == row[l].status \in FinalStatuses
Exists(l) == row[l].status # "none"

(* Mutant of Busy: the constraint forgets the pending rows.                *)
BusyPlaying(s) == \E l \in Logs : row[l].status = "playing" /\ row[l].speaker = s

(* Would uniq_active_broadcast_per_speaker refuse another active row?      *)
Busy(s) == \E l \in Logs : Active(l) /\ row[l].speaker = s

WithStatus(table, ids, st) ==
  [l \in Logs |-> IF l \in ids THEN [table[l] EXCEPT !.status = st] ELSE table[l]]

(* BroadcastLog.objects.create for every speaker in ids' domain.           *)
WithInserted(table, ids, st, src, k) ==
  [l \in Logs |->
     IF \E s \in DOMAIN ids : ids[s] = l
     THEN [status |-> st, speaker |-> CHOOSE s \in DOMAIN ids : ids[s] = l,
           source |-> src, schedule |-> k]
     ELSE table[l]]

(* One unused identity for each of the speakers.                           *)
FreshIds(S) == {ids \in [S -> {l \in Logs : ~Exists(l)}] : IsInjective(ids)}

(* list(queryset): the copies a loop is going to work through.             *)
CopiesOf(ids) == {[log |-> l, step |-> row[l].status] : l \in ids}

ActiveLogsOf(S) == {l \in Logs : Active(l) /\ row[l].speaker \in S}

(* Any set of the source's active rows may have passed its lock timeout:   *)
(* rows without a thread (queued behind a full pool, or left by a crash),  *)
(* and, in a "slow" environment, rows whose playback takes that long.      *)
MaybeStale(src) ==
  SUBSET {l \in Logs : /\ Active(l) /\ row[l].source = src
                       /\ worker[l] = "none" \/ "slow" \in Environment}

-----------------------------------------------------------------------------
(* Cleanup and interruption: read a list of rows, then for each copy stop  *)
(* its process, save its final status, and put its schedule back.          *)

(* A schedule that will run again, or that no longer exists.              *)
Settled(table, k) ==
  \/ table[k].active /\ table[k].next \in {"later", "due"}
  \/ table[k].next = "deleted"

(* The status a sweep writes: an interruption skips, every cleanup fails.  *)
SweepStatus(a) ==
  IF a \in Requests /\ request[a].pc = "interrupt" THEN "skipped" ELSE "failed"

Advanced(a, c, step) ==
  [copies EXCEPT ![a] = (@ \ {c}) \union {[c EXCEPT !.step = step]}]

(* stop_pjsua_process_for_broadcast_log: finds the process by the log's    *)
(* own marker path and kills it; when the process list cannot be read it   *)
(* gives up and the caller goes on.                                        *)
StopProcesses(ids) ==
  IF "stop_fails" \in Environment
  THEN \E killed \in SUBSET ids : pjsua' = pjsua \ killed
  ELSE pjsua' = pjsua \ ids

SweepStop(a, c) ==
  /\ c \in copies[a] /\ c.step = "playing"
  /\ StopProcesses({c.log})
  /\ copies' = Advanced(a, c, "stopped")
  /\ UNCHANGED <<rowVars, worker, seen, heard, slot, device, request, pass>>

(* log.save(update_fields=["status", ...]) of the stale copy: whatever the *)
(* row holds by now is overwritten.                                        *)
SweepSave(a, c) ==
  /\ c \in copies[a] /\ c.step \in {"pending", "stopped"}
  /\ row' = WithStatus(row, {c.log}, SweepStatus(a))
  /\ copies' = IF row[c.log].source = Scheduled
               THEN Advanced(a, c, "saved")
               ELSE [copies EXCEPT ![a] = @ \ {c}]
  /\ owed' = owed \union {k \in Schedules : row[c.log].schedule = k /\ ~Settled(sched, k)}
  /\ UNCHANGED <<sched, playVars, device, request, pass>>

(* Mutant of Rescheduled: a schedule that had ended stays inactive.        *)
RescheduledInactive(k) ==
  IF sched[k].next = "deleted" THEN sched ELSE [sched EXCEPT ![k].next = "later"]

(* reschedule_interrupted_schedule_log: the schedule runs again in 30 s,   *)
(* whatever it was.                                                        *)
Rescheduled(k) ==
  IF sched[k].next = "deleted" THEN sched
  ELSE [sched EXCEPT ![k].active = TRUE, ![k].next = "later"]

SweepReschedule(a, c) ==
  /\ c \in copies[a] /\ c.step = "saved"
  /\ sched' = Rescheduled(row[c.log].schedule)
  /\ owed' = {k \in owed : ~Settled(sched', k)}
  /\ copies' = [copies EXCEPT ![a] = @ \ {c}]
  /\ UNCHANGED <<row, playVars, device, request, pass>>

SweepStep(a) ==
  \E c \in copies[a] : SweepStop(a, c) \/ SweepSave(a, c) \/ SweepReschedule(a, c)

-----------------------------------------------------------------------------
(* One thread inside process_single_broadcast_log(l).                      *)

(* Mutant of Queued: an ended broadcast may be played once more.           *)
QueuedOrEnded(l) == row[l].status \in {"pending", "failed", "skipped"}

Queued(l) == row[l].status = "pending"

(* prepare_broadcast_log_for_playback: one transaction that takes a row    *)
(* only while it is pending, and fails it when its speaker cannot play.    *)
Prepare(l) ==
  /\ worker[l] = "none" /\ Queued(l)
  /\ IF device[row[l].speaker] = "online"
     THEN /\ row' = WithStatus(row, {l}, "playing")
          /\ worker' = [worker EXCEPT ![l] = "prepared"]
          /\ seen' = [seen EXCEPT ![l] =
                        IF row[l].source = Automatic
                        THEN {m \in Logs : Exists(m)} ELSE {}]
     ELSE /\ row' = WithStatus(row, {l}, "failed")
          /\ UNCHANGED <<worker, seen>>
  /\ UNCHANGED <<schedVars, heard, pjsua, slot, actorVars, device>>

(* Mutants of PortSlot: counted from one below; the online speakers only.  *)
PortSlotBelow(s)  == Cardinality({t \in Speakers : t < s /\ device[t] # "inactive"}) - 1
PortSlotOnline(s) == Cardinality({t \in Speakers : t < s /\ device[t] = "online"})

(* The speaker's port slot: how many active speakers have a smaller code.  *)
PortSlot(s) == Cardinality({t \in Speakers : t < s /\ device[t] # "inactive"})

(* Can the ports of a slot be bound?                                       *)
PortFree(p) == \A m \in pjsua : slot[m] # p

(* play_audio_to_speaker reads the speaker again.                          *)
CheckSpeaker(l) ==
  /\ worker[l] = "prepared" /\ device[row[l].speaker] = "online"
  /\ worker' = [worker EXCEPT ![l] = "checked"]
  /\ UNCHANGED <<rowVars, seen, heard, pjsua, slot, actorVars, device>>

(* play_audio_via_pjsip counts the slot its ports are computed from.       *)
CountSlot(l) ==
  /\ worker[l] = "checked"
  /\ slot' = [slot EXCEPT ![l] = PortSlot(row[l].speaker)]
  /\ worker' = [worker EXCEPT ![l] = "counted"]
  /\ UNCHANGED <<rowVars, seen, heard, pjsua, actorVars, device>>

(* _assert_udp_port_available: bind and close, so that the ports are free  *)
(* for anyone again before this worker's process starts.                   *)
TestPorts(l) ==
  /\ worker[l] = "counted" /\ PortFree(slot[l])
  /\ worker' = [worker EXCEPT ![l] = "tested"]
  /\ UNCHANGED <<rowVars, seen, heard, pjsua, slot, actorVars, device>>

(* Popen: the process runs on if it can bind the port it was given, and    *)
(* otherwise exits at once (RefusePlayback).  The row is not read again.   *)
StartProcess(l) ==
  /\ worker[l] = "tested" /\ PortFree(slot[l])
  /\ pjsua' = pjsua \union {l}
  /\ worker' = [worker EXCEPT ![l] = "playing"]
  /\ UNCHANGED <<rowVars, seen, heard, slot, actorVars, device>>

(* The playback is refused: speaker gone, PjsipPreflightError (port in     *)
(* use; a file or executable missing), or a process that exits at once.    *)
RefusePlayback(l) ==
  /\ worker[l] \in {"prepared", "checked", "counted", "tested"}
  /\ worker' = [worker EXCEPT ![l] = "done_bad"]
  /\ UNCHANGED <<rowVars, seen, heard, pjsua, slot, actorVars, device>>

(* execute_pjsip_playback_plan returns: the call was confirmed with media  *)
(* and ended (success), or failed or timed out; the process is gone.       *)
EndPlayback(l) ==
  /\ worker[l] = "playing" /\ l \in pjsua
  /\ pjsua' = pjsua \ {l}
  /\ slot' = [slot EXCEPT ![l] = 0]
  /\ \/ /\ worker' = [worker EXCEPT ![l] = "done_ok"]
        /\ heard' = heard \union {l}
     \/ /\ worker' = [worker EXCEPT ![l] = "done_bad"]
        /\ UNCHANGED heard
  /\ UNCHANGED <<rowVars, seen, actorVars, device>>

(* The process was killed by a sweep: pjsua's exit code is not 0.          *)
PlaybackKilled(l) ==
  /\ worker[l] = "playing" /\ l \notin pjsua
  /\ worker' = [worker EXCEPT ![l] = "done_bad"]
  /\ slot' = [slot EXCEPT ![l] = 0]
  /\ UNCHANGED <<rowVars, seen, heard, pjsua, actorVars, device>>

(* log.refresh_from_db(); a row that is no longer playing is left alone.   *)
Refresh(l) ==
  /\ worker[l] \in {"done_ok", "done_bad"}
  /\ worker' = [worker EXCEPT ![l] =
                  IF row[l].status # "playing" THEN "none"
                  ELSE IF @ = "done_ok" THEN "read_ok" ELSE "read_bad"]
  /\ seen' = IF row[l].status # "playing" THEN [seen EXCEPT ![l] = {}] ELSE seen
  /\ UNCHANGED <<rowVars, heard, pjsua, slot, actorVars, device>>

(* Mutants of Outcome: every playback is a success; no failure is saved.   *)
OutcomeSuccess(l) == "success"
OutcomeUnsaved(l) == IF worker[l] = "read_ok" THEN "success" ELSE "playing"

Outcome(l) == IF worker[l] = "read_ok" THEN "success" ELSE "failed"

(* mark_broadcast_success / mark_broadcast_failed: unconditional.          *)
Mark(l) ==
  /\ worker[l] \in {"read_ok", "read_bad"}
  /\ row' = WithStatus(row, {l}, Outcome(l))
  /\ worker' = [worker EXCEPT ![l] =
                  IF row[l].source = Automatic THEN "marked" ELSE "none"]
  /\ UNCHANGED <<schedVars, seen, heard, pjsua, slot, actorVars, device>>

(* recover_auto_broadcast_workflows_after_playback: every other automatic  *)
(* broadcast created before this one started, on any speaker.              *)
Recoverable(l) == {m \in seen[l] \ {l} : Active(m) /\ row[m].source = Automatic}

Recover(l) ==
  /\ worker[l] = "marked"
  /\ worker' = [worker EXCEPT ![l] = "recovering"]
  /\ copies' = [copies EXCEPT ![l] = CopiesOf(Recoverable(l))]
  /\ UNCHANGED <<rowVars, seen, heard, pjsua, slot, request, pass, device>>

Recovered(l) ==
  /\ worker[l] = "recovering" /\ copies[l] = {}
  /\ worker' = [worker EXCEPT ![l] = "none"]
  /\ seen' = [seen EXCEPT ![l] = {}]
  /\ UNCHANGED <<rowVars, heard, pjsua, slot, actorVars, device>>

(* A database error outlives the retries, or hits a save that has none.    *)
(* Outside a pool the exception ends the thread and the row stays as it    *)
(* is; a pool's handler fails the row: the scheduler's only while it is    *)
(* active, the others always (even one that was just marked a success),    *)
(* and the automatic one through mark_broadcast_failed.                    *)
WorkerError(l) ==
  /\ "db_error" \in Environment
  /\ worker[l] \in {"prepared", "checked", "read_ok", "read_bad", "recovering"}
  /\ \/ /\ row[l].source # Scheduled
        /\ worker' = [worker EXCEPT ![l] = "none"]
        /\ seen' = [seen EXCEPT ![l] = {}]
        /\ UNCHANGED row
     \/ /\ row' = IF row[l].source # Scheduled \/ Active(l)
                  THEN WithStatus(row, {l}, "failed") ELSE row
        /\ worker' = [worker EXCEPT ![l] =
                        IF row[l].source = Automatic THEN "marked" ELSE "none"]
        /\ UNCHANGED seen
  /\ copies' = [copies EXCEPT ![l] = {}]
  /\ UNCHANGED <<schedVars, heard, pjsua, slot, request, pass, device>>

WorkerStep(l) ==
  \/ Prepare(l) \/ CheckSpeaker(l) \/ CountSlot(l) \/ TestPorts(l)
  \/ StartProcess(l) \/ RefusePlayback(l)
  \/ EndPlayback(l) \/ PlaybackKilled(l)
  \/ Refresh(l) \/ Mark(l) \/ Recover(l) \/ Recovered(l)

-----------------------------------------------------------------------------
(* A requested broadcast (the console's, an event's manual one, the live    *)
(* microphone): clear stale schedule locks, interrupt what has a lower     *)
(* priority, look for busy speakers, create one row per speaker.           *)

Goto(r, pc, src, S) ==
  request' = [request EXCEPT ![r] = [pc |-> pc, source |-> src, speakers |-> S]]

GoIdle(r) == request' = [request EXCEPT ![r] = NoRequest]

Proceed(r, pc) == Goto(r, pc, request[r].source, request[r].speakers)

(* clear_stale_schedule_broadcast_locks reads its list.                    *)
ListStaleSchedules(r) ==
  \E stale \in MaybeStale(Scheduled) : copies' = [copies EXCEPT ![r] = CopiesOf(stale)]

(* manual_station_broadcast_api: any active speakers.                      *)
ConsoleStart(r) ==
  /\ request[r].pc = "idle"
  /\ \E S \in SUBSET {s \in Speakers : device[s] # "inactive"} :
       S # {} /\ Goto(r, "stale", Console, S)
  /\ ListStaleSchedules(r)
  /\ UNCHANGED <<rowVars, playVars, pass, device>>

(* manual_event_broadcast_api: one online speaker, for an event.           *)
ManualStart(r) ==
  /\ "manual" \in Environment
  /\ request[r].pc = "idle"
  /\ \E s \in Speakers : device[s] = "online" /\ Goto(r, "stale", Manual, {s})
  /\ ListStaleSchedules(r)
  /\ UNCHANGED <<rowVars, playVars, pass, device>>

(* The manager's lock: no other live start is under way, nor a session.    *)
MicrophoneFree ==
  /\ \A r \in Requests : request[r].source = Live => request[r].pc = "idle"
  /\ \A l \in Logs : worker[l] \notin {"dialing", "on_air"}

(* LiveBroadcastManager.start: _clear_stale_live_logs fails the rows of a  *)
(* session that is gone, without looking for a process.                    *)
LiveStart(r) ==
  /\ "live" \in Environment
  /\ request[r].pc = "idle" /\ MicrophoneFree
  /\ \E S \in SUBSET {s \in Speakers : device[s] # "inactive"} :
       S # {} /\ Goto(r, "clear", Live, S)
  /\ copies' = [copies EXCEPT ![r] =
                  {[log |-> l, step |-> "stopped"] :
                     l \in {m \in Logs : Active(m) /\ row[m].source = Live}}]
  /\ UNCHANGED <<rowVars, playVars, pass, device>>

LiveCleared(r) ==
  /\ request[r].pc = "clear" /\ copies[r] = {}
  /\ Proceed(r, "stale")
  /\ ListStaleSchedules(r)
  /\ UNCHANGED <<rowVars, playVars, pass, device>>

(* Mutant of Outranked: equal priorities interrupt each other.             *)
NotOutranking(l, src) == Priority(row[l].source) <= Priority(src)

Outranked(l, src) == Priority(row[l].source) < Priority(src)

(* interrupt_lower_priority_broadcasts reads its list.                     *)
RequestInterrupt(r) ==
  /\ request[r].pc = "stale" /\ copies[r] = {}
  /\ Proceed(r, "interrupt")
  /\ copies' = [copies EXCEPT ![r] =
                  CopiesOf({l \in ActiveLogsOf(request[r].speakers) :
                              Outranked(l, request[r].source)})]
  /\ UNCHANGED <<rowVars, playVars, pass, device>>

(* busy_logs: an active row of at least this priority answers 409.         *)
RequestCheck(r) ==
  /\ request[r].pc = "interrupt" /\ copies[r] = {}
  /\ IF \E l \in ActiveLogsOf(request[r].speakers) : ~Outranked(l, request[r].source)
     THEN GoIdle(r)
     ELSE Proceed(r, "create")
  /\ UNCHANGED <<rowVars, playVars, copies, pass, device>>

(* An IntegrityError rolls the rows back; a microphone start also gives up *)
(* without a local address or on speakers with different codecs.           *)
CreateFails(r) ==
  /\ request[r].pc = "create"
  /\ request[r].source = Live \/ \E s \in request[r].speakers : Busy(s)
  /\ GoIdle(r)
  /\ UNCHANGED <<rowVars, playVars, copies, pass, device>>

(* One transaction for the rows of all speakers.  The microphone's rows    *)
(* are playing from the start; when its pjsua cannot even be planned they  *)
(* stay so, and nobody plays them.                                         *)
CreateRows(r) ==
  /\ request[r].pc = "create"
  /\ \A s \in request[r].speakers : ~Busy(s)
  /\ GoIdle(r)
  /\ \E ids \in FreshIds(request[r].speakers) :
       IF request[r].source = Live
       THEN /\ row' = WithInserted(row, ids, "playing", Live, None)
            /\ \E stage \in {"dialing", "none"} :
                 worker' = [l \in Logs |-> IF l \in Range(ids) THEN stage ELSE worker[l]]
       ELSE /\ row' = WithInserted(row, ids, "pending", request[r].source, None)
            /\ UNCHANGED worker
  /\ UNCHANGED <<schedVars, seen, heard, pjsua, slot, copies, pass, device>>

(* A call of the session is connected; the row only gets a message.        *)
LiveAnswered(l) ==
  /\ worker[l] = "dialing"
  /\ worker' = [worker EXCEPT ![l] = "on_air"]
  /\ heard' = heard \union {l}
  /\ UNCHANGED <<rowVars, seen, pjsua, slot, actorVars, device>>

(* A call fails, or the start as a whole does.                             *)
LiveRefused(l) ==
  /\ worker[l] \in {"dialing", "on_air"}
  /\ \E m \in Logs : worker[m] = "dialing"
  /\ row' = WithStatus(row, {l}, "failed")
  /\ worker' = [worker EXCEPT ![l] = "none"]
  /\ UNCHANGED <<schedVars, seen, heard, pjsua, slot, actorVars, device>>

(* The session stops (success) or its process has died (failed):           *)
(* _finish_logs saves every row of it, whatever the row holds by now.      *)
LiveEnds(l) ==
  /\ worker[l] = "on_air"
  /\ \A m \in Logs : worker[m] # "dialing"
  /\ \E st \in {"success", "failed"} : row' = WithStatus(row, {l}, st)
  /\ worker' = [worker EXCEPT ![l] = "none"]
  /\ UNCHANGED <<schedVars, seen, heard, pjsua, slot, actorVars, device>>

LiveStep(l) == LiveAnswered(l) \/ LiveRefused(l) \/ LiveEnds(l)

(* reset_all_speaker_workflows: every active row, whatever its priority.   *)
ResetStart(r) ==
  /\ "operator" \in Environment
  /\ request[r].pc = "idle"
  /\ Goto(r, "reset", Console, {})
  /\ copies' = [copies EXCEPT ![r] = CopiesOf({l \in Logs : Active(l)})]
  /\ UNCHANGED <<rowVars, playVars, pass, device>>

ResetDone(r) ==
  /\ request[r].pc = "reset" /\ copies[r] = {}
  /\ GoIdle(r)
  /\ UNCHANGED <<rowVars, playVars, copies, pass, device>>

(* A database error answers 500 in the middle of a request.                *)
RequestError(r) ==
  /\ "db_error" \in Environment
  /\ request[r].pc # "idle"
  /\ GoIdle(r)
  /\ copies' = [copies EXCEPT ![r] = {}]
  /\ UNCHANGED <<rowVars, playVars, pass, device>>

RequestStep(r) ==
  \/ SweepStep(r) \/ LiveCleared(r) \/ RequestInterrupt(r) \/ RequestCheck(r)
  \/ CreateFails(r) \/ CreateRows(r) \/ ResetDone(r)

-----------------------------------------------------------------------------
(* An imported event, in one transaction: for each target speaker clear    *)
(* its stale automatic rows, then queue a row unless the speaker is busy.  *)
(* Which speakers the rules and the cooldown leave is chosen freely.       *)
AutomaticCreate(S) ==
  \E stale \in MaybeStale(Automatic) :
    LET cleared == {l \in stale : row[l].speaker \in S}
        table   == WithStatus(row, cleared, "failed")
        free    == {s \in S : \A l \in Logs : table[l].status \in ActiveStatuses
                                                => table[l].speaker # s}
    IN /\ \E ids \in FreshIds(free) :
            row' = WithInserted(table, ids, "pending", Automatic, None)
       /\ StopProcesses({l \in cleared : row[l].status = "playing"})
       /\ UNCHANGED <<schedVars, worker, seen, heard, slot, actorVars, device>>

EventImported ==
  \E S \in SUBSET {s \in Speakers : device[s] # "inactive"} :
    S # {} /\ AutomaticCreate(S)

(* close_active_alarm_events_api: the pending rows of the closed events,   *)
(* automatic or manual.                                                    *)
CloseAlarms ==
  /\ "operator" \in Environment
  /\ \E closed \in SUBSET {l \in Logs : row[l].status = "pending"
                                        /\ row[l].source \in EventOwned} :
       closed # {} /\ row' = WithStatus(row, closed, "skipped")
  /\ UNCHANGED <<schedVars, playVars, actorVars, device>>

-----------------------------------------------------------------------------
(* The scheduler: process_due_broadcast_schedules.                         *)

PassTo(pc, due, waiting) == pass' = [pc |-> pc, due |-> due, waiting |-> waiting]

SchedulerWake ==
  /\ pass.pc = "idle"
  /\ PassTo("stale", {}, {})
  /\ \E stale \in MaybeStale(Scheduled) :
       copies' = [copies EXCEPT ![Scheduler] = CopiesOf(stale)]
  /\ UNCHANGED <<rowVars, playVars, request, device>>

SchedulerList ==
  /\ pass.pc = "stale" /\ copies[Scheduler] = {}
  /\ PassTo("running", {k \in Schedules : sched[k].active /\ sched[k].next = "due"}, {})
  /\ UNCHANGED <<rowVars, playVars, copies, request, device>>

(* _advance_schedule: a one-time schedule is over, a daily one waits.      *)
AdvanceSchedule(k) ==
  IF k \in OnceSchedules
  THEN [sched EXCEPT ![k].active = FALSE, ![k].next = "none"]
  ELSE [sched EXCEPT ![k].next = "later"]

(* The pool of the previous schedule has finished with all its rows.       *)
PoolDone == \A l \in pass.waiting : worker[l] = "none" /\ row[l].status # "pending"

(* One due schedule, re-read in its transaction.  Busy speakers are left   *)
(* out; when none is free the schedule is retried 30 s later.              *)
RunSchedule(k) ==
  /\ pass.pc = "running" /\ PoolDone /\ k \in pass.due
  /\ sched[k].active /\ sched[k].next = "due"
  /\ LET targets == {s \in ScheduleSpeakers[k] : device[s] # "inactive"}
         free    == {s \in targets : ~Busy(s)}
     IN \E ids \in FreshIds(free) :
          /\ row' = WithInserted(row, ids, "pending", Scheduled, k)
          /\ sched' = IF targets = {} \/ free # {} THEN AdvanceSchedule(k)
                      ELSE [sched EXCEPT ![k].next = "later"]
          /\ PassTo("running", pass.due \ {k}, {ids[s] : s \in free})
  /\ UNCHANGED owed
  /\ UNCHANGED <<playVars, copies, request, device>>

(* The re-read finds it inactive or no longer due (skip), or deleted (the  *)
(* DoesNotExist ends the pass).                                            *)
SkipSchedule(k) ==
  /\ pass.pc = "running" /\ PoolDone /\ k \in pass.due
  /\ ~(sched[k].active /\ sched[k].next = "due")
  /\ IF sched[k].next = "deleted" THEN pass' = NoPass
     ELSE PassTo("running", pass.due \ {k}, {})
  /\ UNCHANGED <<rowVars, playVars, copies, request, device>>

PassEnds ==
  /\ pass.pc = "running" /\ PoolDone /\ pass.due = {}
  /\ pass' = NoPass
  /\ UNCHANGED <<rowVars, playVars, copies, request, device>>

(* A database error ends the pass; the loop logs it and goes on.           *)
PassError ==
  /\ "db_error" \in Environment
  /\ pass.pc = "stale" \/ (pass.pc = "running" /\ PoolDone)
  /\ pass' = NoPass
  /\ copies' = [copies EXCEPT ![Scheduler] = {}]
  /\ UNCHANGED <<rowVars, playVars, request, device>>

SchedulerStep ==
  \/ SweepStep(Scheduler) \/ SchedulerList \/ PassEnds
  \/ \E k \in Schedules : RunSchedule(k) \/ SkipSchedule(k)

-----------------------------------------------------------------------------
(* What happens around the threads.                                        *)

(* Time passes next_run_at, or the run_at of a one-time schedule.          *)
FallsDue(k) ==
  /\ sched[k].next # "deleted"
  /\ sched[k].next = "later" \/ (k \in OnceSchedules /\ ~sched[k].past)
  /\ sched' = [sched EXCEPT
                 ![k].next = IF @ = "later" THEN "due" ELSE @,
                 ![k].past = k \in OnceSchedules]
  /\ UNCHANGED owed
  /\ UNCHANGED <<row, playVars, actorVars, device>>

(* toggle_broadcast_schedule_api: switching on computes the next run; a    *)
(* one-time schedule whose run_at has passed has none.                     *)
ToggleSchedule(k) ==
  /\ "operator" \in Environment /\ sched[k].next # "deleted"
  /\ sched' = [sched EXCEPT
                 ![k].active = ~@,
                 ![k].next = IF sched[k].active \/ sched[k].past
                             THEN "none" ELSE "later"]
  /\ owed' = {o \in owed : o # k}
  /\ UNCHANGED <<row, playVars, actorVars, device>>

(* delete_broadcast_schedule_api.                                          *)
DeleteSchedule(k) ==
  /\ "operator" \in Environment /\ sched[k].next # "deleted"
  /\ sched' = [sched EXCEPT ![k].active = FALSE, ![k].next = "deleted"]
  /\ owed' = {o \in owed : o # k}
  /\ UNCHANGED <<row, playVars, actorVars, device>>

(* An operator probes or edits a SpeakerDevice: it is found on- or offline. *)
DeviceProbed(s) ==
  /\ "device" \in Environment
  /\ \E d \in {"online", "offline"} :
       device[s] \notin {d, "inactive"} /\ device' = [device EXCEPT ![s] = d]
  /\ UNCHANGED <<rowVars, playVars, actorVars>>

(* An operator takes a SpeakerDevice out of service, or back into it.      *)
DeviceSwitched(s) ==
  /\ "deactivate" \in Environment
  /\ IF device[s] = "inactive"
     THEN \E d \in {"online", "offline"} : device' = [device EXCEPT ![s] = d]
     ELSE device' = [device EXCEPT ![s] = "inactive"]
  /\ UNCHANGED <<rowVars, playVars, actorVars>>

(* The process dies with its threads and restarts.  Rows stay; so do the   *)
(* pjsua processes, unless the whole machine went down.                    *)
Crash ==
  /\ "crash" \in Environment
  /\ pjsua' \in {pjsua, {}}
  /\ worker' = [l \in Logs |-> "none"]
  /\ seen' = [l \in Logs |-> {}]
  /\ copies' = [a \in Actors |-> {}]
  /\ request' = [r \in Requests |-> NoRequest]
  /\ pass' = NoPass
  /\ slot' = [l \in Logs |-> IF l \in pjsua' THEN slot[l] ELSE 0]
  /\ UNCHANGED <<rowVars, heard, device>>

(* A pjsua process without its thread notices that its input is closed.    *)
OrphanExits(l) ==
  /\ l \in pjsua /\ worker[l] = "none"
  /\ pjsua' = pjsua \ {l}
  /\ slot' = [slot EXCEPT ![l] = 0]
  /\ UNCHANGED <<rowVars, worker, seen, heard, actorVars, device>>

(* A bound, not code: a finished row that nobody refers to any more leaves *)
(* the model, so that its identity can stand for a new row.                *)
Forget(l) ==
  /\ Final(l) /\ worker[l] = "none" /\ l \notin pjsua \union pass.waiting
  /\ \A a \in Actors : \A c \in copies[a] : c.log # l
  /\ row' = [row EXCEPT ![l] = NoRow]
  /\ seen' = [m \in Logs |-> seen[m] \ {l}]
  /\ heard' = heard \ {l}
  /\ slot' = [slot EXCEPT ![l] = 0]
  /\ UNCHANGED <<schedVars, worker, pjsua, actorVars, device>>

Next ==
  \/ \E l \in Logs :
       WorkerStep(l) \/ WorkerError(l) \/ LiveStep(l) \/ SweepStep(l) \/ OrphanExits(l) \/ Forget(l)
  \/ \E r \in Requests :
       \/ RequestStep(r) \/ RequestError(r)
       \/ ConsoleStart(r) \/ ManualStart(r) \/ LiveStart(r) \/ ResetStart(r)
  \/ EventImported \/ CloseAlarms
  \/ SchedulerWake \/ SchedulerStep \/ PassError
  \/ \E k \in Schedules : FallsDue(k) \/ ToggleSchedule(k) \/ DeleteSchedule(k)
  \/ \E s \in Speakers : DeviceProbed(s) \/ DeviceSwitched(s)
  \/ Crash

(* Threads run; playbacks time out; the scheduler loop wakes and schedules *)
(* come due.  Nothing is assumed of operators, events or devices.          *)
Fairness ==
  /\ \A l \in Logs : WF_vars(WorkerStep(l)) /\ WF_vars(SweepStep(l))
  /\ \A r \in Requests : WF_vars(RequestStep(r))
  /\ WF_vars(SchedulerStep)

Spec == Init /\ [][Next]_vars

FairSpec == Spec /\ Fairness

-----------------------------------------------------------------------------
(* Properties.                                                             *)

(* At most one broadcast is queued or playing per speaker, whoever queued  *)
(* it and whatever the threads do with stale copies.                       *)
OneActivePerSpeaker ==
  \A l, m \in Logs :
    Active(l) /\ Active(m) /\ row[l].speaker = row[m].speaker => l = m

(* A recorded success is a playback that really ran to its verified end.   *)
SuccessWasHeard ==
  \A l \in Logs : row[l].status = "success" => l \in heard

(* While no speaker is taken out of service or put back, two pjsua         *)
(* processes never play on one speaker, although a worker counts its slot, *)
(* tests the ports and starts its process without looking at its row, which *)
(* may have been interrupted and the speaker given to another broadcast.   *)
NoOverlap ==
  \A l, m \in pjsua : row[l].speaker = row[m].speaker => l = m

(* A finished broadcast is never queued or played again.                   *)
NoResurrection == [][\A l \in Logs : Final(l) => ~Active(l)']_vars

(* A broadcast is skipped only by a request for its own speaker that       *)
(* outranks it, or, while still pending, because its event was closed.     *)
OnlyOutrankedIsSkipped ==
  [][\A l \in Logs :
       Active(l) /\ row'[l].status = "skipped" =>
         \/ \E r \in Requests :
              /\ request[r].pc = "interrupt"
              /\ row[l].speaker \in request[r].speakers
              /\ Priority(row[l].source) < Priority(request[r].source)
         \/ row[l].status = "pending" /\ row[l].source \in EventOwned]_vars

(* Recovery clears what is stale: it never stops a playback whose thread   *)
(* is still there, waiting for it.                                         *)
RecoveryClearsOnlyStale ==
  [][\A l \in Logs : \A c \in copies[l] :
       SweepStop(l, c) => ~(worker[c.log] = "playing" /\ c.log \in pjsua)]_vars

(* Every queued broadcast comes to an end and frees its speaker.           *)
EveryBroadcastEnds == \A l \in Logs : Active(l) ~> ~Active(l)

(* A schedule one of whose broadcasts was cut short runs again, unless an  *)
(* operator switches or deletes it.                                        *)
InterruptedIsRescheduled == \A k \in Schedules : k \in owed ~> k \notin owed

=============================================================================
