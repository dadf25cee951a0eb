------------------------------ MODULE EventApi ------------------------------
(***************************************************************************)
(* The two requests that create a broadcast and play it in their own       *)
(* thread: ai_event_trigger_api stores an event and announces it on every  *)
(* speaker of its rules, one after the other; manual_event_broadcast_api   *)
(* announces a stored event again on a speaker an operator chose.          *)
(*                                                                         *)
(* Playing a row is process_single_broadcast_log, modelled in detail in    *)
(* Broadcast; here it is the reads and writes of the row and an outcome.   *)
(***************************************************************************)
EXTENDS Naturals, FiniteSets

CONSTANTS
  Callers,       \* web threads serving these requests
  Events,        \* Event rows
  Speakers,      \* active SpeakerDevice rows
  RuleSpeakers,  \* the speakers the matching rules name
  Logs,          \* identities of BroadcastLog rows (a bound)
  NoLog          \* the null of a reference

(* Null is no row, and the rules name speakers there are.                  *)
ASSUME ApiAssumption == NoLog \notin Logs /\ RuleSpeakers \subseteq Speakers

VARIABLES
  eventState,  \* "unknown", "open" or "closed"
  apiRow,      \* the BroadcastLog table
  api,         \* how far the request of each thread is
  others,      \* rows that some other thread plays
  started,     \* history: rows whose playback has begun
  again,       \* history: rows whose playback has begun twice
  dropped      \* history: rows given up by an error that no handler settled

playedVars == <<started, again, dropped>>
apiVars    == <<eventState, apiRow, api, others, playedVars>>

Trigger   == "ai_event_trigger_api"
Manual    == "dashboard_manual_event_broadcast"
Scheduled == "broadcast_schedule"

NoRow == [status |-> "none", event |-> NoLog, speaker |-> NoLog, source |-> NoLog]

Idle ==
  [pc |-> "idle", kind |-> NoLog, event |-> NoLog, speaker |-> NoLog, log |-> NoLog, todo |-> {}]

TypeOK ==
  /\ eventState \in [Events -> {"unknown", "open", "closed"}]
  /\ apiRow \in [Logs ->
       [status : {"none", "pending", "playing", "success", "failed", "skipped"},
        event : Events \union {NoLog}, speaker : Speakers \union {NoLog},
        source : {Trigger, Manual, Scheduled, NoLog}]]
  /\ api \in [Callers ->
       [pc : {"idle", "next", "look", "list", "interrupt", "check", "create",
              "process", "playing", "ended", "marking", "handler", "failing"},
        kind : {Trigger, Manual, NoLog}, event : Events \union {NoLog},
        speaker : Speakers \union {NoLog}, log : Logs \union {NoLog},
        todo : SUBSET Speakers]]
  /\ others \subseteq Logs /\ started \subseteq Logs /\ again \subseteq Logs
  /\ dropped \subseteq Logs

Init ==
  /\ eventState = [e \in Events |-> "unknown"]
  /\ apiRow = [l \in Logs |-> NoRow]
  /\ api = [t \in Callers |-> Idle]
  /\ others = {} /\ started = {} /\ again = {} /\ dropped = {}

-----------------------------------------------------------------------------
Active(l) == apiRow[l].status \in {"pending", "playing"}
ActiveOn(s) == {l \in Logs : Active(l) /\ apiRow[l].speaker = s}
Busy(s) == ActiveOn(s) # {}
Lower(l) == apiRow[l].source = Scheduled

Goes(t, pc) == api' = [api EXCEPT ![t].pc = pc]

(* The row is dealt with: the trigger goes on to its next speaker, the     *)
(* manual request is answered.                                             *)
Left(t) == IF api[t].kind = Trigger THEN [api[t] EXCEPT !.pc = "next", !.log = NoLog] ELSE Idle

Leaves(t) == api' = [api EXCEPT ![t] = Left(t)]

Saves(l, st) == apiRow' = [apiRow EXCEPT ![l].status = st]

Begins(l) ==
  /\ Saves(l, "playing")
  /\ started' = started \union {l}
  /\ again' = again \union ({l} \intersect started)

(* create: the constraint refuses a second active row of the speaker, and  *)
(* each handler answers the IntegrityError (or the 500) by leaving.        *)
Creates(t, source) ==
  /\ api[t].pc = "create" /\ api[t].kind = source
  /\ IF Busy(api[t].speaker)
     THEN Leaves(t) /\ UNCHANGED apiRow
     ELSE \E l \in {k \in Logs : apiRow[k] = NoRow} :
            /\ apiRow' = [apiRow EXCEPT ![l] =
                            [status |-> "pending", event |-> api[t].event,
                             speaker |-> api[t].speaker, source |-> source]]
            /\ api' = [api EXCEPT ![t].pc = "process", ![t].log = l]
  /\ UNCHANGED <<eventState, others, playedVars>>

-----------------------------------------------------------------------------
(* ai_event_trigger_api.                                                   *)
TriggerStores(t, e) ==
  /\ api[t].pc = "idle" /\ eventState[e] = "unknown"
  /\ eventState' = [eventState EXCEPT ![e] = "open"]
  /\ api' = [api EXCEPT ![t] =
               [Idle EXCEPT !.pc = "next", !.kind = Trigger, !.event = e, !.todo = RuleSpeakers]]
  /\ UNCHANGED <<apiRow, others, playedVars>>

(* The next speaker; one with an active row is reported busy.              *)
TriggerPicks(t, s) ==
  /\ api[t].pc = "next" /\ s \in api[t].todo
  /\ api' = [api EXCEPT ![t].pc = IF Busy(s) THEN "next" ELSE "create",
                        ![t].speaker = s, ![t].todo = @ \ {s}]
  /\ UNCHANGED <<eventState, apiRow, others, playedVars>>

TriggerAnswers(t) ==
  /\ api[t].pc = "next" /\ api[t].todo = {}
  /\ api' = [api EXCEPT ![t] = Idle]
  /\ UNCHANGED <<eventState, apiRow, others, playedVars>>

-----------------------------------------------------------------------------
(* manual_event_broadcast_api.                                             *)
ManualStarts(t, e, s) ==
  /\ api[t].pc = "idle" /\ eventState[e] = "open"
  /\ api' = [api EXCEPT ![t] =
               [Idle EXCEPT !.pc = "look", !.kind = Manual, !.event = e, !.speaker = s]]
  /\ UNCHANGED <<eventState, apiRow, others, playedVars>>

(* A row of this event that already plays ends the request; one that is    *)
(* still pending is played by it, whoever created it.                      *)
ManualLooks(t) ==
  LET same == {l \in ActiveOn(api[t].speaker) : apiRow[l].event = api[t].event} IN
  /\ api[t].pc = "look"
  /\ \/ same = {} /\ Goes(t, "list")
     \/ \E l \in same :
          api' = [api EXCEPT ![t] =
                    IF apiRow[l].status = "playing" THEN Idle
                    ELSE [@ EXCEPT !.pc = "process", !.log = l]]
  /\ UNCHANGED <<eventState, apiRow, others, playedVars>>

(* interrupt_lower_priority_broadcasts: lists the rows, then saves them.   *)
ManualLists(t) ==
  LET lower == {l \in ActiveOn(api[t].speaker) : Lower(l)} IN
  /\ api[t].pc = "list"
  /\ \/ lower = {} /\ Goes(t, "check")
     \/ \E l \in lower : api' = [api EXCEPT ![t].pc = "interrupt", ![t].log = l]
  /\ UNCHANGED <<eventState, apiRow, others, playedVars>>

ManualInterrupts(t) ==
  /\ api[t].pc = "interrupt"
  /\ Saves(api[t].log, "skipped")
  /\ api' = [api EXCEPT ![t].pc = "check", ![t].log = NoLog]
  /\ UNCHANGED <<eventState, others, playedVars>>

ManualChecks(t) ==
  /\ api[t].pc = "check"
  /\ IF \E l \in ActiveOn(api[t].speaker) : ~Lower(l) THEN Leaves(t) ELSE Goes(t, "create")
  /\ UNCHANGED <<eventState, apiRow, others, playedVars>>

-----------------------------------------------------------------------------
(* process_single_broadcast_log in the request's own thread.               *)

(* Mutant of MayPlay: a row that is already playing is played.             *)
MayPlayActive(l) == Active(l)

MayPlay(l) == apiRow[l].status = "pending"

(* Its first transaction takes a pending row, or fails it when the speaker *)
(* or the file cannot play; another row is left alone.                     *)
Prepares(t) ==
  LET l == api[t].log IN
  /\ api[t].pc = "process"
  /\ IF ~MayPlay(l) THEN Leaves(t) /\ UNCHANGED <<apiRow, started, again>>
     ELSE \/ Begins(l) /\ Goes(t, "playing")
          \/ Saves(l, "failed") /\ Leaves(t) /\ UNCHANGED <<started, again>>
  /\ UNCHANGED <<eventState, others, dropped>>

PlaybackEnds(t) ==
  /\ api[t].pc = "playing" /\ Goes(t, "ended")
  /\ UNCHANGED <<eventState, apiRow, others, playedVars>>

Refreshes(t) ==
  /\ api[t].pc = "ended"
  /\ IF apiRow[api[t].log].status = "playing" THEN Goes(t, "marking") ELSE Leaves(t)
  /\ UNCHANGED <<eventState, apiRow, others, playedVars>>

Marks(t) ==
  /\ api[t].pc = "marking"
  /\ \E st \in {"success", "failed"} : Saves(api[t].log, st)
  /\ Leaves(t)
  /\ UNCHANGED <<eventState, others, playedVars>>

(* Mutant of HandlerCovers: only a row that was playing is failed.         *)
HandlerCoversPlaying(l) == apiRow[l].status = "playing"

HandlerCovers(l) == Active(l)

(* It raises (the database stays locked).  The trigger's handler takes     *)
(* over; the manual request has none and answers 500.                      *)
ProcessRaises(t) ==
  /\ api[t].pc \in {"process", "playing", "ended", "marking"}
  /\ IF api[t].kind = Trigger THEN Goes(t, "handler") ELSE Leaves(t)
  /\ dropped' = IF api[t].kind = Manual THEN dropped \union {api[t].log} ELSE dropped
  /\ UNCHANGED <<eventState, apiRow, others, started, again>>

(* The handler reads the row again, and fails it while it is active.       *)
HandlerReads(t) ==
  /\ api[t].pc = "handler"
  /\ IF HandlerCovers(api[t].log) THEN Goes(t, "failing") ELSE Leaves(t)
  /\ UNCHANGED <<eventState, apiRow, others, playedVars>>

HandlerFails(t) ==
  /\ api[t].pc = "failing"
  /\ Saves(api[t].log, "failed") /\ Leaves(t)
  /\ UNCHANGED <<eventState, others, playedVars>>

(* Outside the try, in the handler too, the lock raises out of the request:*)
(* it answers 500, and its other speakers are not announced.               *)
RequestRaises(t) ==
  /\ api[t].pc \in {"next", "look", "list", "interrupt", "check", "create", "handler", "failing"}
  /\ api' = [api EXCEPT ![t] = Idle]
  /\ dropped' = IF api[t].pc \in {"handler", "failing"} THEN dropped \union {api[t].log} ELSE dropped
  /\ UNCHANGED <<eventState, apiRow, others, started, again>>

-----------------------------------------------------------------------------
(* What happens beside the requests.                                       *)

(* process_pending_broadcast_logs_api or a pool takes a pending row, and   *)
(* ends it.                                                                *)
OtherTakes(l) ==
  /\ apiRow[l].status = "pending"
  /\ Begins(l) /\ others' = others \union {l}
  /\ UNCHANGED <<eventState, api, dropped>>

OtherEnds(l) ==
  /\ l \in others
  /\ others' = others \ {l}
  /\ IF apiRow[l].status = "playing"
     THEN \E st \in {"success", "failed"} : Saves(l, st) ELSE UNCHANGED apiRow
  /\ UNCHANGED <<eventState, api, playedVars>>

ScheduleRuns(s) ==
  /\ ~Busy(s)
  /\ \E l \in {k \in Logs : apiRow[k] = NoRow} :
       apiRow' = [apiRow EXCEPT ![l] =
                    [status |-> "pending", event |-> NoLog, speaker |-> s, source |-> Scheduled]]
  /\ UNCHANGED <<eventState, api, others, playedVars>>

(* close_event_api sets the status alone; close_active_alarm_events_api    *)
(* also skips the rows that are still pending.                             *)
Closes(e) ==
  /\ eventState[e] = "open"
  /\ eventState' = [eventState EXCEPT ![e] = "closed"]
  /\ apiRow' \in {apiRow,
       [l \in Logs |-> IF apiRow[l].event = e /\ apiRow[l].status = "pending"
                       THEN [apiRow[l] EXCEPT !.status = "skipped"] ELSE apiRow[l]]}
  /\ UNCHANGED <<api, others, playedVars>>

(* A bound, not code: an ended row nobody refers to leaves the model.      *)
Forget(l) ==
  /\ apiRow[l].status \in {"success", "failed", "skipped"}
  /\ l \notin others /\ \A t \in Callers : api[t].log # l
  /\ apiRow' = [apiRow EXCEPT ![l] = NoRow]
  /\ started' = started \ {l} /\ again' = again \ {l} /\ dropped' = dropped \ {l}
  /\ UNCHANGED <<eventState, api, others>>

Next ==
  \/ \E t \in Callers :
       \/ \E e \in Events : TriggerStores(t, e)
       \/ \E s \in Speakers : TriggerPicks(t, s)
       \/ TriggerAnswers(t)
       \/ \E e \in Events, s \in Speakers : ManualStarts(t, e, s)
       \/ ManualLooks(t) \/ ManualLists(t) \/ ManualInterrupts(t) \/ ManualChecks(t)
       \/ \E source \in {Trigger, Manual} : Creates(t, source)
       \/ Prepares(t) \/ PlaybackEnds(t) \/ Refreshes(t) \/ Marks(t)
       \/ ProcessRaises(t) \/ HandlerReads(t) \/ HandlerFails(t) \/ RequestRaises(t)
  \/ \E l \in Logs : OtherTakes(l) \/ OtherEnds(l) \/ Forget(l)
  \/ \E s \in Speakers : ScheduleRuns(s)
  \/ \E e \in Events : Closes(e)

Spec == Init /\ [][Next]_apiVars

-----------------------------------------------------------------------------
(* One row is played once, although a manual request may take up a row     *)
(* that another request or a pool is about to play (prepare_broadcast_log_ *)
(* for_playback).                                                          *)
PlaysOnce == again = {}

(* A row the event API created does not stay active with nobody playing    *)
(* it, whatever its processing raises and whoever else takes it ("Keep the *)
(* event API usable and retain an audit log", events/views.py:173).  Two   *)
(* exceptions: the handler's own read or write raises as well, or a manual *)
(* request took the row up and raised, which has no handler.               *)
TriggerRowsAreSettled ==
  \A l \in Logs :
    Active(l) /\ apiRow[l].source = Trigger =>
      l \in others \union dropped \/ \E t \in Callers : api[t].log = l

(* Violated.  "Dismissed or closed events cannot be broadcast.": no row is *)
(* created for an event that is closed (views.py:112).                     *)
ClosedIsNotBroadcast ==
  [][\A l \in Logs :
       apiRow[l] = NoRow /\ apiRow'[l].source = Manual
         => eventState[apiRow'[l].event] = "open"]_apiVars

=============================================================================
