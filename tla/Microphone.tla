---------------------------- MODULE Microphone -----------------------------
(***************************************************************************)
(* The two users of the station's one Windows microphone: the live         *)
(* broadcast manager (a pjsua process that calls the chosen speakers) and  *)
(* the audio recorder (a pjsua process that writes a WAV file), each a     *)
(* singleton behind a re-entrant lock, with the requests, timers and       *)
(* monitor threads that drive them.                                        *)
(*                                                                         *)
(* A manager's method runs under its lock and is one step, except          *)
(* LiveBroadcastManager.start, which other threads can watch through the   *)
(* database while it dials: liveLock then names its thread.  A BroadcastLog*)
(* row is its status with the end_reason that comes with it.               *)
(***************************************************************************)
EXTENDS Naturals, FiniteSets

CONSTANTS
  LiveSpeakers,   \* speakers a live broadcast can be asked for
  MaxSessions,    \* live sessions and recordings ever started (a bound)
  WebThreads,     \* request threads
  NoThread        \* the lock is free

(* The bound is a number, and the free lock is nobody's.                   *)
ASSUME MicAssumption == MaxSessions \in Nat /\ NoThread \notin WebThreads

VARIABLES
  liveCount,    \* live sessions started so far: the next uuid
  liveSession,  \* _session of the live manager, 0 for None
  liveLock,     \* the thread inside LiveBroadcastManager.start
  liveRows,     \* BroadcastLog rows of each session
  calls,        \* the outcome of each call (runtime.results)
  liveProcess,  \* sessions whose pjsua process runs
  liveTimers,   \* sessions whose threading.Timer is armed
  monitors,     \* sessions whose monitor thread runs
  liveEnd,      \* why each session ended (end_reason of its rows)
  expired,      \* history: sessions whose timer fired
  recCount,     \* recordings started so far
  recording,    \* _session of the recorder, 0 for None
  recProcess,   \* recordings whose pjsua process runs
  recTimers,    \* recordings whose Timer is armed
  tempFiles,    \* recordings whose temporary WAV exists
  completed,    \* _completed: stopped, neither saved nor discarded
  stored,       \* how many AudioFile rows hold each recording
  cutOff,       \* history: recordings the server forgot when it restarted
  web           \* where each request thread is

liveVars == <<liveCount, liveSession, liveLock, liveRows, calls, liveProcess, liveTimers,
              monitors, liveEnd, expired>>
recVars  == <<recCount, recording, recProcess, recTimers, tempFiles, completed, stored, cutOff>>
micVars  == <<liveVars, recVars, web>>

Sessions   == 1..MaxSessions
Recordings == 1..MaxSessions

RowStates  == {"none", "playing", "success", "refused", "process_error",
               "server_restart", "reset"}
EndReasons == {"none", "manual_stop", "timeout", "process_error", "failed"}

Idle == [pc |-> "idle", speakers |-> {}, copies |-> {}]

TypeOK ==
  /\ liveCount \in 0..MaxSessions
  /\ liveSession \in 0..MaxSessions
  /\ liveLock \in WebThreads \union {NoThread}
  /\ liveRows \in [Sessions -> [LiveSpeakers -> RowStates]]
  /\ calls \in [Sessions -> [LiveSpeakers -> {"none", "active", "failed"}]]
  /\ liveProcess \subseteq Sessions
  /\ liveTimers \subseteq Sessions
  /\ monitors \subseteq Sessions
  /\ liveEnd \in [Sessions -> EndReasons]
  /\ expired \subseteq Sessions
  /\ recCount \in 0..MaxSessions
  /\ recording \in 0..MaxSessions
  /\ recProcess \subseteq Recordings
  /\ recTimers \subseteq Recordings
  /\ tempFiles \subseteq Recordings
  /\ completed \subseteq Recordings
  /\ stored \in [Recordings -> Nat]
  /\ cutOff \subseteq Recordings
  /\ web \in [WebThreads ->
       [pc : {"idle", "live_checked", "dialing", "record_checked", "reset"},
        speakers : SUBSET LiveSpeakers, copies : SUBSET (Sessions \X LiveSpeakers)]]

Init ==
  /\ liveCount = 0
  /\ recCount = 0
  /\ liveSession = 0
  /\ liveLock = NoThread
  /\ liveRows = [s \in Sessions |-> [p \in LiveSpeakers |-> "none"]]
  /\ calls = [s \in Sessions |-> [p \in LiveSpeakers |-> "none"]]
  /\ liveProcess = {}
  /\ liveTimers = {}
  /\ monitors = {}
  /\ liveEnd = [s \in Sessions |-> "none"]
  /\ expired = {}
  /\ recording = 0
  /\ recProcess = {}
  /\ recTimers = {}
  /\ tempFiles = {}
  /\ completed = {}
  /\ stored = [n \in Recordings |-> 0]
  /\ cutOff = {}
  /\ web = [t \in WebThreads |-> Idle]

---------------------------------------------------------------------------
(* Live broadcast.                                                         *)

ProcessExited == liveSession # 0 /\ liveSession \notin liveProcess
LiveActive    == liveSession # 0 /\ ~ProcessExited

(* Mutant of InSession: every row of the session counts as connected.      *)
EveryRow(s, p)  == liveRows[s][p] # "none"

(* The rows of a session that its log_ids name: those whose call is up.    *)
InSession(s, p) == calls[s][p] = "active"

Finished(rows, s, state) ==
  [rows EXCEPT ![s] = [p \in LiveSpeakers |->
     IF InSession(s, p) THEN state ELSE rows[s][p]]]

(* _recover_if_process_exited, which every entry point runs first.         *)
RecoveredRows ==
  IF ProcessExited THEN Finished(liveRows, liveSession, "process_error") ELSE liveRows

RecoveredEnd ==
  IF ProcessExited
  THEN [liveEnd EXCEPT ![liveSession] = "process_error"] ELSE liveEnd

RecoveredSession == IF ProcessExited THEN 0 ELSE liveSession

(* _clear_stale_live_logs: whatever still plays has no session any more.   *)
Cleared(rows) ==
  [s \in Sessions |-> [p \in LiveSpeakers |->
     IF rows[s][p] = "playing" THEN "server_restart" ELSE rows[s][p]]]

(* Recorder: _recover_if_exited forgets a recording whose process is gone. *)
RecorderExited == recording # 0 /\ recording \notin recProcess

(* Mutant of RecoverRecorder: the temporary file is left behind.           *)
ForgetRecorder ==
  /\ recording' = IF RecorderExited THEN 0 ELSE recording
  /\ UNCHANGED tempFiles

RecoverRecorder ==
  IF RecorderExited
  THEN /\ recording' = 0
       /\ tempFiles' = tempFiles \ {recording}
  ELSE UNCHANGED <<recording, tempFiles>>

(* A status request for the live broadcast, from a page.                   *)
LiveStatus ==
  /\ liveLock = NoThread
  /\ ProcessExited
  /\ liveRows' = RecoveredRows
  /\ liveEnd' = RecoveredEnd
  /\ liveSession' = 0
  /\ UNCHANGED <<liveCount, liveLock, calls, liveProcess, liveTimers, monitors, expired, recVars, web>>

(* start_live_microphone_broadcast_api asks the recorder's status first;   *)
(* the live manager is asked to start later.                               *)
AskLive(t, chosen) ==
  /\ web[t].pc = "idle"
  /\ chosen # {}
  /\ RecoverRecorder
  /\ recording' = 0
  /\ web' = [web EXCEPT ![t].pc = "live_checked", ![t].speakers = chosen]
  /\ UNCHANGED <<liveVars, recCount, recProcess, recTimers, completed, stored, cutOff>>

(* start, refused: a session exists, or an argument is wrong.              *)
LiveRefused(t) ==
  /\ web[t].pc = "live_checked"
  /\ liveLock = NoThread
  /\ liveRows' = RecoveredRows
  /\ liveEnd' = RecoveredEnd
  /\ liveSession' = RecoveredSession
  /\ web' = [web EXCEPT ![t] = Idle]
  /\ UNCHANGED <<liveCount, liveLock, calls, liveProcess, liveTimers, monitors, expired, recVars>>

(* Mutant of MayStart: a second session may start beside one.              *)
AnyTime  == TRUE

(* One session at a time.                                                  *)
MayStart == ~LiveActive

(* _assert_udp_port_available and _assert_tcp_port_available: the sessions *)
(* all use the same ports.                                                 *)
PortsFree == liveProcess = {}

(* start, given up after rows of dead sessions were cleared: the broadcasts*)
(* of lower priority were interrupted in vain, or others took a speaker    *)
(* before the rows were inserted (Broadcast has the rows of those).        *)
LiveGivesUp(t) ==
  /\ web[t].pc = "live_checked"
  /\ liveLock = NoThread
  /\ MayStart
  /\ liveRows' = Cleared(RecoveredRows)
  /\ liveEnd' = RecoveredEnd
  /\ liveSession' = RecoveredSession
  /\ web' = [web EXCEPT ![t] = Idle]
  /\ UNCHANGED <<liveCount, liveLock, calls, liveProcess, liveTimers, monitors, expired, recVars>>

(* start, up to the plan: rows of dead sessions are cleared, the new rows  *)
(* are created, and the plan is built outside the try: when a port is held *)
(* by a process that still runs, the rows stay playing with no session.    *)
LiveStart(t) ==
  /\ web[t].pc = "live_checked"
  /\ liveLock = NoThread
  /\ MayStart
  /\ liveCount + recCount < MaxSessions
  /\ liveCount' = liveCount + 1
  /\ liveRows' = [Cleared(RecoveredRows) EXCEPT ![liveCount'] =
       [p \in LiveSpeakers |-> IF p \in web[t].speakers THEN "playing" ELSE "none"]]
  /\ liveEnd' = RecoveredEnd
  /\ liveSession' = RecoveredSession
  /\ IF PortsFree
     THEN /\ liveLock' = t
          /\ liveProcess' = liveProcess \union {liveCount'}
          /\ web' = [web EXCEPT ![t].pc = "dialing"]
     ELSE /\ web' = [web EXCEPT ![t] = Idle]
          /\ UNCHANGED <<liveLock, liveProcess>>
  /\ UNCHANGED <<calls, liveTimers, monitors, expired, recVars>>

(* start, the rest: every speaker is called, the rows of the ones that did *)
(* not answer are failed, and the others make the session; the status that *)
(* start returns drops it again if the process has exited by then.         *)
LiveDialled(t, answered) ==
  /\ web[t].pc = "dialing"
  /\ answered \subseteq web[t].speakers
  /\ LET s    == liveCount
         lost == s \notin liveProcess IN
     /\ calls' = [calls EXCEPT ![s] = [p \in LiveSpeakers |->
          IF p \in answered THEN "active"
          ELSE IF p \in web[t].speakers THEN "failed" ELSE "none"]]
     /\ liveRows' = [liveRows EXCEPT ![s] = [p \in LiveSpeakers |->
          IF p \in web[t].speakers \ answered THEN "refused"
          ELSE IF p \in answered /\ lost THEN "process_error" ELSE @[p]]]
     /\ liveProcess' = IF answered = {} THEN liveProcess \ {s} ELSE liveProcess
     /\ liveEnd' = IF answered = {} THEN [liveEnd EXCEPT ![s] = "failed"]
                   ELSE IF lost THEN [liveEnd EXCEPT ![s] = "process_error"] ELSE liveEnd
     /\ liveSession' = IF answered = {} \/ lost THEN 0 ELSE s
     /\ liveTimers' = IF answered = {} THEN liveTimers ELSE liveTimers \union {s}
     /\ monitors' = IF answered = {} THEN monitors ELSE monitors \union {s}
  /\ liveLock' = NoThread
  /\ web' = [web EXCEPT ![t] = Idle]
  /\ UNCHANGED <<liveCount, expired, recVars>>

(* stop(session_id, reason): the calls are hung up and whatever the rows of*)
(* the session say by now, they become a success.                          *)
Stop(s, why) ==
  /\ liveSession' = 0
  /\ liveProcess' = liveProcess \ {s}
  /\ liveRows' = Finished(liveRows, s, "success")
  /\ liveEnd' = [liveEnd EXCEPT ![s] = why]

(* The session a stop names: its id is optional in a request, and one that *)
(* does not match raises an error.                                         *)
Names(id) == liveSession # 0 /\ id \in {0, liveSession}

(* stop_live_microphone_broadcast_api and reset_speaker_workflows_api: the *)
(* session ends if the request names it; the workflows are reset after it  *)
(* in either case.                                                         *)
StopLive(t, id) ==
  /\ web[t].pc = "idle"
  /\ liveLock = NoThread
  /\ IF Names(id)
     THEN /\ Stop(liveSession, "manual_stop")
          /\ liveTimers' = liveTimers \ {liveSession}
     ELSE UNCHANGED <<liveSession, liveProcess, liveRows, liveEnd, liveTimers>>
  /\ web' = [web EXCEPT ![t].pc = "reset"]
  /\ UNCHANGED <<liveCount, liveLock, calls, monitors, expired, recVars>>

(* reset_all_speaker_workflows lists the active rows, then saves each.     *)
ResetList(t) ==
  /\ web[t].pc = "reset"
  /\ web[t].copies = {}
  /\ LET found == {c \in Sessions \X LiveSpeakers : liveRows[c[1]][c[2]] = "playing"} IN
     web' = [web EXCEPT ![t].copies = found,
                        ![t].pc = IF found = {} THEN "idle" ELSE "reset"]
  /\ UNCHANGED <<liveVars, recVars>>

ResetSave(t) ==
  /\ web[t].pc = "reset"
  /\ \E c \in web[t].copies :
     /\ liveRows' = [liveRows EXCEPT ![c[1]][c[2]] = "reset"]
     /\ web' = [web EXCEPT ![t].copies = @ \ {c},
                           ![t].pc = IF @ = "reset" /\ web[t].copies = {c}
                                     THEN "idle" ELSE @]
  /\ UNCHANGED <<liveCount, liveSession, liveLock, calls, liveProcess, liveTimers, monitors,
                 liveEnd, expired, recVars>>

(* Mutant of TimeoutStop: it stops whatever session there is.              *)
TimeoutStopsAny(s) ==
  /\ s \in liveTimers
  /\ liveLock = NoThread
  /\ liveTimers' = liveTimers \ {s}
  /\ expired' = expired \union {s}
  /\ liveSession # 0
  /\ Stop(liveSession, "timeout")
  /\ UNCHANGED <<liveCount, liveLock, calls, monitors, recVars, web>>

(* The Timer armed by start: it stops its own session only.                *)
TimeoutStop(s) ==
  /\ s \in liveTimers
  /\ liveLock = NoThread
  /\ liveTimers' = liveTimers \ {s}
  /\ expired' = expired \union {s}
  /\ IF liveSession = s
     THEN Stop(s, "timeout")
     ELSE UNCHANGED <<liveSession, liveProcess, liveRows, liveEnd>>
  /\ UNCHANGED <<liveCount, liveLock, calls, monitors, recVars, web>>

(* The monitor thread, once a second.                                      *)
Monitor(s) ==
  /\ s \in monitors
  /\ liveLock = NoThread
  /\ IF liveSession # s
     THEN UNCHANGED <<liveSession, liveProcess, liveRows, liveEnd, liveTimers>>
     ELSE /\ s \notin liveProcess
          /\ Stop(s, "process_error")
          /\ liveTimers' = liveTimers \ {s}
  /\ monitors' = monitors \ {s}
  /\ UNCHANGED <<liveCount, liveLock, calls, expired, recVars, web>>

---------------------------------------------------------------------------
(* Recorder.                                                               *)

(* start_audio_recording_api asks the live manager's status first; the     *)
(* request waits for the lock while a start is dialling.                   *)
AskRecording(t) ==
  /\ web[t].pc = "idle"
  /\ liveLock = NoThread
  /\ ~LiveActive
  /\ liveRows' = RecoveredRows
  /\ liveEnd' = RecoveredEnd
  /\ liveSession' = 0
  /\ web' = [web EXCEPT ![t].pc = "record_checked"]
  /\ UNCHANGED <<liveCount, liveLock, calls, liveProcess, liveTimers, monitors, expired, recVars>>

(* start: one recording at a time; a process that does not come up leaves  *)
(* nothing behind.                                                         *)
RecordingStart(t) ==
  /\ web[t].pc = "record_checked"
  /\ recording = 0 \/ RecorderExited
  /\ liveCount + recCount < MaxSessions
  /\ recCount' = recCount + 1
  /\ recording' = recCount'
  /\ recProcess' = recProcess \union {recCount'}
  /\ recTimers' = recTimers \union {recCount'}
  /\ tempFiles' = (tempFiles \ {recording}) \union {recCount'}
  /\ web' = [web EXCEPT ![t] = Idle]
  /\ UNCHANGED <<liveVars, completed, stored, cutOff>>

RecordingRefused(t) ==
  /\ web[t].pc = "record_checked"
  /\ RecoverRecorder
  /\ web' = [web EXCEPT ![t] = Idle]
  /\ UNCHANGED <<liveVars, recCount, recProcess, recTimers, completed, stored, cutOff>>

RecordingStatus ==
  /\ RecorderExited
  /\ RecoverRecorder
  /\ UNCHANGED <<liveVars, recCount, recProcess, recTimers, completed, stored, cutOff, web>>

(* stop: the process is shut down and the WAV is checked; a valid one can  *)
(* be saved, an invalid one is deleted.                                    *)
FinishRecording(n, valid) ==
  /\ recording' = 0
  /\ recProcess' = recProcess \ {n}
  /\ completed' = IF valid THEN completed \union {n} ELSE completed
  /\ tempFiles' = IF valid THEN tempFiles ELSE tempFiles \ {n}

StopRecording(valid) ==
  /\ recording # 0
  /\ FinishRecording(recording, valid)
  /\ recTimers' = recTimers \ {recording}
  /\ UNCHANGED <<liveVars, recCount, stored, cutOff, web>>

(* The Timer armed by start; a mismatch is swallowed.                      *)
RecordingTimeout(n, valid) ==
  /\ n \in recTimers
  /\ recTimers' = recTimers \ {n}
  /\ IF recording = n
     THEN FinishRecording(n, valid)
     ELSE UNCHANGED <<recording, recProcess, completed, tempFiles>>
  /\ UNCHANGED <<liveVars, recCount, stored, cutOff, web>>

(* save: the AudioFile row is committed before the temporary file is       *)
(* deleted and the recording forgotten.                                    *)
SaveRecording(n) ==
  /\ n \in completed
  /\ n \in tempFiles
  /\ stored' = [stored EXCEPT ![n] = @ + 1]
  /\ tempFiles' = tempFiles \ {n}
  /\ completed' = completed \ {n}
  /\ UNCHANGED <<liveVars, recCount, recording, recProcess, recTimers, cutOff, web>>

DiscardRecording(n) ==
  /\ n \in completed
  /\ completed' = completed \ {n}
  /\ tempFiles' = tempFiles \ {n}
  /\ UNCHANGED <<liveVars, recCount, recording, recProcess, recTimers, stored, cutOff, web>>

---------------------------------------------------------------------------
(* The environment.                                                        *)

LiveProcessExits(s) ==
  /\ s \in liveProcess
  /\ liveProcess' = liveProcess \ {s}
  /\ UNCHANGED <<liveCount, liveSession, liveLock, liveRows, calls, liveTimers, monitors,
                 liveEnd, expired, recVars, web>>

RecorderProcessExits(n) ==
  /\ n \in recProcess
  /\ recProcess' = recProcess \ {n}
  /\ UNCHANGED <<liveVars, recCount, recording, recTimers, tempFiles, completed, stored,
                 cutOff, web>>

(* The server dies and comes back: sessions, timers and threads are gone,  *)
(* the rows and files remain, the pjsua processes may.                     *)
Restart(survivors) ==
  /\ liveSession' = 0
  /\ liveLock' = NoThread
  /\ liveTimers' = {}
  /\ monitors' = {}
  /\ liveProcess' = IF survivors THEN liveProcess ELSE {}
  /\ recording' = 0
  /\ recTimers' = {}
  /\ recProcess' = IF survivors THEN recProcess ELSE {}
  /\ completed' = {}
  /\ cutOff' = cutOff \union completed \union ({recording} \ {0})
  /\ web' = [t \in WebThreads |-> Idle]
  /\ UNCHANGED <<liveCount, liveRows, calls, liveEnd, expired, recCount, tempFiles, stored>>

Next ==
  \/ LiveStatus
  \/ RecordingStatus
  \/ \E t \in WebThreads :
       \/ \E chosen \in SUBSET LiveSpeakers : AskLive(t, chosen)
       \/ LiveRefused(t)
       \/ LiveGivesUp(t)
       \/ LiveStart(t)
       \/ \E answered \in SUBSET LiveSpeakers : LiveDialled(t, answered)
       \/ \E id \in 0..MaxSessions : StopLive(t, id)
       \/ ResetList(t)
       \/ ResetSave(t)
       \/ AskRecording(t)
       \/ RecordingStart(t)
       \/ RecordingRefused(t)
  \/ \E s \in Sessions : TimeoutStop(s) \/ Monitor(s) \/ LiveProcessExits(s)
  \/ \E n \in Recordings :
       \/ \E valid \in BOOLEAN : RecordingTimeout(n, valid)
       \/ SaveRecording(n)
       \/ DiscardRecording(n)
       \/ RecorderProcessExits(n)
  \/ \E valid \in BOOLEAN : StopRecording(valid)
  \/ \E survivors \in BOOLEAN : Restart(survivors)

Spec == Init /\ [][Next]_micVars

---------------------------------------------------------------------------
(* While a session is live, the row of every speaker it is heard on says   *)
(* playing, so that no other broadcast takes the speaker; only a reset that*)
(* listed the row may have changed it (live_broadcast.py).                 *)
LiveHoldsItsSpeakers ==
  liveSession # 0 => \A p \in LiveSpeakers :
    InSession(liveSession, p) => liveRows[liveSession][p] \in {"playing", "reset"}

(* A speaker is kept busy by one live session at most: rows left playing by*)
(* a dead server or a failed plan are gone when the next session is on air *)
(* (_clear_stale_live_logs).                                               *)
StaleRowsAreGone ==
  liveSession # 0 => \A s \in Sessions \ {liveSession}, p \in LiveSpeakers :
    liveRows[s][p] # "playing"

(* A row says success only if the call to its speaker was up, although the *)
(* end of a session overwrites rows that others changed meanwhile.         *)
SuccessWasConnected ==
  \A s \in Sessions, p \in LiveSpeakers :
    liveRows[s][p] = "success" => calls[s][p] = "active"

(* A session that ended by timeout had its own timer expire: timers of     *)
(* sessions that ended otherwise stay armed and must not cut a later one.  *)
TimeoutWasItsOwn == \A s \in Sessions : liveEnd[s] = "timeout" => s \in expired

(* Two live pjsua processes never run, not even after a restart that a     *)
(* process survived: the plan finds its ports taken.                       *)
OneLiveProcess == Cardinality(liveProcess) <= 1

(* The speakers of a live session: held while it runs, free afterwards.    *)
LiveIsConsistent == LiveHoldsItsSpeakers /\ StaleRowsAreGone /\ OneLiveProcess

(* A finished recording that nobody stored is still on disk until it is    *)
(* saved or discarded, and no file is left behind, unless the server       *)
(* restarted in between.                                                   *)
RecordingIsReachable ==
  /\ completed \subseteq tempFiles
  /\ tempFiles \subseteq completed \union {recording} \union cutOff

(* A recording becomes at most one audio file.                             *)
StoredOnce == \A n \in Recordings : stored[n] <= 1

(* Recordings are neither lost nor doubled.                                *)
RecordingsAreSound == RecordingIsReachable /\ StoredOnce

(* The broadcast page and the recorder never hold the microphone together. *)
OneMicrophoneUser == liveProcess = {} \/ recProcess = {}

===========================================================================
