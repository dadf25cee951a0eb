---------------------------- MODULE EventImport ----------------------------
(***************************************************************************)
(* The events of one inference host on their way into the Event table.     *)
(*                                                                         *)
(* Two threads import them: the receiver (push messages on a WebSocket,    *)
(* and after every connect a catch-up over the host's event list from a    *)
(* persisted cursor on) and the poller (the newest events, every few       *)
(* seconds).  Operators confirm and close events, a worker downloads their *)
(* snapshots, and a command reconciles stored events with the rules.       *)
(*                                                                         *)
(* An event is identified by its timestamp.  An import is one transaction. *)
(***************************************************************************)
EXTENDS Integers, FiniteSets, Sequences

CONSTANTS
  Events,       \* timestamps of the events the host will emit
  Slack,        \* how far a catch-up reaches behind the cursor (5 s)
  FirstWindow,  \* and behind the present, while there is no cursor (5 min)
  Page,         \* events per catch-up request (500)
  Window,       \* events per poll (100)
  Operators,    \* web threads serving operators
  Environment   \* which outside events are explored (a bound)

AllEnvironment ==
  {"loss", "late", "crash", "db_error", "snapshot", "confirm", "close",
   "close_all", "reconcile"}

ASSUME ConstantsAssumption ==
  /\ Events \subseteq Nat \ {0}
  /\ IsFiniteSet(Events)
  /\ Slack \in Nat
  /\ FirstWindow \in Nat
  /\ Page \in Nat \ {0}
  /\ Window \in Nat \ {0}
  /\ Environment \subseteq AllEnvironment

VARIABLES
  emitted,   \* the events in the host's list
  status,    \* Event.status, "none" without a row
  job,       \* the event's automatic BroadcastLog row
  closed,    \* history: the events an operator has closed
  link,      \* the receiver: down, connected, in its catch-up, live
  inbox,     \* pushed messages it has not taken yet
  range,     \* the catch-up: since, until, offset, and whether more follow
  batch,     \* events of the current page it has still to import
  taken,     \* the event it has imported and not yet recorded, or 0
  cursor,    \* last_successful_event_at, 0 for null
  asked,     \* history: since when the receiver asked while it had no cursor
  polled,    \* events the poller has still to import
  held,      \* what each operator request has read and will save
  snapshot,  \* each event's download: idle, queued, or the copy of its row
  local,     \* events with a local snapshot
  rec        \* the reconcile command

storeVars    == <<status, job, closed>>
cursorVars   == <<cursor, asked>>
receiverVars == <<link, inbox, range, batch, taken, cursorVars>>
otherVars    == <<polled, held, rec>>
snapVars     == <<snapshot, local>>
vars         == <<emitted, storeVars, receiverVars, otherVars, snapVars>>

OpenStatuses == {"new", "confirmed"}
RowStatuses  == OpenStatuses \union {"closed"}

CatchUpRange == [since : Nat, until : Nat, offset : Nat, more : BOOLEAN]
NoRange == [since |-> 0, until |-> 0, offset |-> 0, more |-> FALSE]

Held == [act : {"none", "confirm", "close", "close_all"}, events : SUBSET Events]
NothingHeld == [act |-> "none", events |-> {}]

Reconciler == [pc : {"idle", "check", "create"}, event : Events \union {0}, open : BOOLEAN]
NotReconciling == [pc |-> "idle", event |-> 0, open |-> FALSE]

TypeOK ==
  /\ emitted \subseteq Events
  /\ status \in [Events -> RowStatuses \union {"none"}]
  /\ job \in [Events -> {"none", "pending", "playing", "over"}]
  /\ closed \subseteq Events
  /\ link \in {"down", "connected", "catchup", "live"}
  /\ inbox \in Seq(Events)
  /\ range \in CatchUpRange
  /\ batch \subseteq Events
  /\ taken \in Events \union {0}
  /\ cursor \in Events \union {0}
  /\ asked \in Nat
  /\ polled \subseteq Events
  /\ held \in [Operators -> Held]
  /\ snapshot \in [Events -> RowStatuses \union {"idle", "queued"}]
  /\ local \subseteq Events
  /\ rec \in Reconciler

Init ==
  /\ emitted = {}
  /\ status = [e \in Events |-> "none"]
  /\ job = [e \in Events |-> "none"]
  /\ closed = {}
  /\ link = "down"
  /\ inbox = <<>>
  /\ range = NoRange
  /\ batch = {}
  /\ taken = 0
  /\ cursor = 0
  /\ asked = 0
  /\ polled = {}
  /\ held = [o \in Operators |-> NothingHeld]
  /\ snapshot = [e \in Events |-> "idle"]
  /\ local = {}
  /\ rec = NotReconciling

-----------------------------------------------------------------------------
(* The inference host.                                                     *)

(* Mutant of Minus: the difference may be negative.                        *)
MinusBelow(a, b) == a - b

Minus(a, b) == IF a > b THEN a - b ELSE 0

(* The newest events of a list come first; rank counts from 0.             *)
Rank(e, S) == Cardinality({x \in S : x > e})

Newest(n, S) == {e \in S : Rank(e, S) < n}

Latest(S) == IF S = {} THEN 0 ELSE CHOOSE e \in S : \A x \in S : x <= e

(* The host emits an event and pushes it to a connected receiver.  Events  *)
(* come in the order of their timestamps, or later by at most Slack.       *)
Emit(e) ==
  /\ e \notin emitted
  /\ \A x \in emitted : e > x \/ ("late" \in Environment /\ x - e <= Slack)
  /\ emitted' = emitted \union {e}
  /\ inbox' = IF link = "down" THEN inbox ELSE Append(inbox, e)
  /\ UNCHANGED <<storeVars, link, range, batch, taken, cursorVars, otherVars, snapVars>>

-----------------------------------------------------------------------------
(* EventImporter.import_payload, one transaction: a new event gets its     *)
(* row, an old one is repaired; while the event is open and has no         *)
(* broadcast row one is queued (unless rules, cooldown or a busy speaker   *)
(* forbid it); a snapshot download is scheduled.                           *)

Stored(e) == status[e] # "none"
Open(e)   == status[e] \in OpenStatuses

(* Mutant of MayQueue: a row is made every time.                           *)
MayQueueAgain(e) == (Open(e) \/ ~Stored(e)) /\ job[e] \in {"none", "over"}

MayQueue(e) == (Open(e) \/ ~Stored(e)) /\ job[e] = "none"

Import(e) ==
  /\ status' = IF Stored(e) THEN status ELSE [status EXCEPT ![e] = "new"]
  /\ \/ UNCHANGED job
     \/ MayQueue(e) /\ job' = [job EXCEPT ![e] = "pending"]
  /\ snapshot' = IF "snapshot" \in Environment /\ e \notin local /\ snapshot[e] = "idle"
                 THEN [snapshot EXCEPT ![e] = "queued"] ELSE snapshot
  /\ UNCHANGED <<closed, local>>

-----------------------------------------------------------------------------
(* InferenceWebSocketReceiver.                                             *)

Connect ==
  /\ link = "down"
  /\ link' = "connected"
  /\ UNCHANGED <<emitted, storeVars, inbox, range, batch, taken, cursorVars, otherVars, snapVars>>

(* Mutant of Since: the catch-up starts at the cursor.                     *)
SinceCursor(until) == IF cursor = 0 THEN Minus(until, FirstWindow) ELSE cursor

Since(until) == IF cursor = 0 THEN Minus(until, FirstWindow) ELSE Minus(cursor, Slack)

(* catch_up reads the cursor and the clock.                                *)
CatchUp ==
  /\ link = "connected"
  /\ link' = "catchup"
  /\ range' = [since |-> Since(Latest(emitted)), until |-> Latest(emitted),
               offset |-> 0, more |-> TRUE]
  /\ asked' = IF cursor = 0 THEN Since(Latest(emitted)) ELSE asked
  /\ UNCHANGED <<emitted, storeVars, inbox, batch, taken, cursor, otherVars, snapVars>>

(* Mutant of NextOffset: each page leaves one event out.                   *)
NextOffsetSkips == range.offset + Page + 1

NextOffset == range.offset + Page

(* One get_events request; a short page is the last one.                   *)
FetchPage ==
  /\ link = "catchup" /\ range.more /\ batch = {} /\ taken = 0
  /\ LET listed == {e \in emitted : range.since <= e /\ e <= range.until}
     IN /\ batch' = {e \in listed : /\ range.offset <= Rank(e, listed)
                                    /\ Rank(e, listed) < range.offset + Page}
        /\ range' = [range EXCEPT !.offset = NextOffset,
                                  !.more = Cardinality(batch') = Page]
  /\ UNCHANGED <<emitted, storeVars, link, inbox, taken, cursorVars, otherVars, snapVars>>

(* The events of a page are imported in the order of their timestamps.     *)
ImportFromPage(e) ==
  /\ e \in batch /\ taken = 0
  /\ \A x \in batch : e <= x
  /\ Import(e)
  /\ batch' = batch \ {e}
  /\ taken' = IF Stored(e) THEN 0 ELSE e
  /\ UNCHANGED <<emitted, link, inbox, range, cursorVars, otherVars>>

CaughtUp ==
  /\ link = "catchup" /\ ~range.more /\ batch = {} /\ taken = 0
  /\ link' = "live"
  /\ UNCHANGED <<emitted, storeVars, inbox, range, batch, taken, cursorVars, otherVars, snapVars>>

(* handle_message.                                                         *)
Receive ==
  /\ link = "live" /\ inbox # <<>> /\ taken = 0
  /\ Import(Head(inbox))
  /\ inbox' = Tail(inbox)
  /\ taken' = IF Stored(Head(inbox)) THEN 0 ELSE Head(inbox)
  /\ UNCHANGED <<emitted, link, range, batch, cursorVars, otherVars>>

(* _record_result: a result "imported" moves the cursor to its event.      *)
Record ==
  /\ taken # 0
  /\ cursor' = taken
  /\ taken' = 0
  /\ UNCHANGED <<emitted, storeVars, link, inbox, range, batch, asked, otherVars, snapVars>>

(* The connection drops, a request fails, or an exception that is not a    *)
(* ValueError leaves the loop: what was not imported yet is forgotten.     *)
LinkDown ==
  /\ link' = "down" /\ inbox' = <<>> /\ batch' = {} /\ taken' = 0 /\ range' = NoRange
  /\ UNCHANGED cursorVars

Disconnect ==
  /\ "loss" \in Environment /\ link # "down"
  /\ LinkDown
  /\ UNCHANGED <<emitted, storeVars, otherVars, snapVars>>

ReceiverStep ==
  \/ Connect \/ CatchUp \/ FetchPage \/ CaughtUp \/ Receive \/ Record
  \/ \E e \in Events : ImportFromPage(e)

-----------------------------------------------------------------------------
(* The poller: poll_inference_hosts.                                       *)

(* Mutant of Poll: without the newest event.                               *)
PollOlder == {e \in emitted : 1 <= Rank(e, emitted) /\ Rank(e, emitted) <= Window}

Poll == Newest(Window, emitted)

PollFetch ==
  /\ polled = {}
  /\ polled' = Poll
  /\ UNCHANGED <<emitted, storeVars, receiverVars, held, rec, snapVars>>

PollImport(e) ==
  /\ e \in polled
  /\ Import(e)
  /\ polled' = polled \ {e}
  /\ UNCHANGED <<emitted, receiverVars, held, rec>>

(* An import fails (database locked): the item waits for the next poll.    *)
PollSkip(e) ==
  /\ "db_error" \in Environment /\ e \in polled
  /\ polled' = polled \ {e}
  /\ UNCHANGED <<emitted, storeVars, receiverVars, held, rec, snapVars>>

PollerStep == PollFetch \/ \E e \in Events : PollImport(e)

-----------------------------------------------------------------------------
(* Operators: confirm_event_api, close_event_api and                       *)
(* close_active_alarm_events_api read first and save later.                *)

Hold(o, act, E) ==
  /\ held[o] = NothingHeld
  /\ held' = [held EXCEPT ![o] = [act |-> act, events |-> E]]
  /\ UNCHANGED <<emitted, storeVars, receiverVars, polled, rec, snapVars>>

ConfirmRead(o) ==
  /\ "confirm" \in Environment
  /\ \E e \in Events : status[e] = "new" /\ Hold(o, "confirm", {e})

CloseRead(o) ==
  /\ "close" \in Environment
  /\ \E e \in Events : status[e] = "confirmed" /\ Hold(o, "close", {e})

CloseAllRead(o) ==
  /\ "close_all" \in Environment
  /\ {e \in Events : Open(e)} # {}
  /\ Hold(o, "close_all", {e \in Events : Open(e)})

SavedStatus(act) == IF act = "confirm" THEN "confirmed" ELSE "closed"

(* Only closing all alarms cancels their pending rows.                     *)
Cancels(act) == act = "close_all"

OperatorSave(o) ==
  LET act == held[o].act
      E   == held[o].events
  IN /\ act # "none"
     /\ status' = [e \in Events |-> IF e \in E THEN SavedStatus(act) ELSE status[e]]
     /\ job' = [e \in Events |-> IF Cancels(act) /\ e \in E /\ job[e] = "pending"
                                 THEN "over" ELSE job[e]]
     /\ closed' = IF act = "confirm" THEN closed ELSE closed \union E
     /\ held' = [held EXCEPT ![o] = NothingHeld]
     /\ UNCHANGED <<emitted, receiverVars, polled, rec, snapVars>>

OperatorStep(o) == ConfirmRead(o) \/ CloseRead(o) \/ CloseAllRead(o) \/ OperatorSave(o)

-----------------------------------------------------------------------------
(* The snapshot worker: reads the row, downloads, saves the whole row.     *)

SnapshotRead(e) ==
  /\ snapshot[e] = "queued"
  /\ snapshot' = [snapshot EXCEPT ![e] = IF e \in local THEN "idle" ELSE status[e]]
  /\ UNCHANGED <<emitted, storeVars, receiverVars, otherVars, local>>

SnapshotSave(e) ==
  /\ snapshot[e] \in RowStatuses
  /\ status' = [status EXCEPT ![e] = snapshot[e]]
  /\ local' = local \union {e}
  /\ snapshot' = [snapshot EXCEPT ![e] = "idle"]
  /\ UNCHANGED <<emitted, job, closed, receiverVars, otherVars>>

SnapshotFails(e) ==
  /\ snapshot[e] \in RowStatuses
  /\ snapshot' = [snapshot EXCEPT ![e] = "idle"]
  /\ UNCHANGED <<emitted, storeVars, receiverVars, otherVars, local>>

SnapshotStep(e) == SnapshotRead(e) \/ SnapshotSave(e) \/ SnapshotFails(e)

-----------------------------------------------------------------------------
(* reconcile_auto_broadcast: it works on rows read before, and looks for   *)
(* an existing log, then for a busy speaker, then creates, each on its own.*)

ReconcileRead ==
  /\ "reconcile" \in Environment /\ rec = NotReconciling
  /\ \E e \in Events :
       Stored(e) /\ rec' = [pc |-> "check", event |-> e, open |-> Open(e)]
  /\ UNCHANGED <<emitted, storeVars, receiverVars, polled, held, snapVars>>

ReconcileCheck ==
  /\ rec.pc = "check"
  /\ rec' = IF rec.open /\ job[rec.event] = "none"
            THEN [rec EXCEPT !.pc = "create"] ELSE NotReconciling
  /\ UNCHANGED <<emitted, storeVars, receiverVars, polled, held, snapVars>>

ReconcileCreate ==
  /\ rec.pc = "create"
  /\ \/ /\ job[rec.event] \notin {"pending", "playing"}
        /\ job' = [job EXCEPT ![rec.event] = "pending"]
     \/ UNCHANGED job
  /\ rec' = NotReconciling
  /\ UNCHANGED <<emitted, status, closed, receiverVars, polled, held, snapVars>>

ReconcileStep == ReconcileRead \/ ReconcileCheck \/ ReconcileCreate

-----------------------------------------------------------------------------
(* The rest of the process.                                                *)

(* The broadcast row is taken up, or ends (see Broadcast).                 *)
JobStep(e) ==
  /\ \/ job[e] = "pending" /\ job' = [job EXCEPT ![e] = "playing"]
     \/ job[e] \in {"pending", "playing"} /\ job' = [job EXCEPT ![e] = "over"]
  /\ UNCHANGED <<emitted, status, closed, receiverVars, otherVars, snapVars>>

Crash ==
  /\ "crash" \in Environment
  /\ LinkDown
  /\ polled' = {}
  /\ held' = [o \in Operators |-> NothingHeld]
  /\ snapshot' = [e \in Events |-> "idle"]
  /\ UNCHANGED <<emitted, storeVars, rec, local>>

Next ==
  \/ ReceiverStep \/ Disconnect
  \/ PollerStep
  \/ ReconcileStep
  \/ Crash
  \/ \E e \in Events : Emit(e) \/ PollSkip(e) \/ SnapshotStep(e) \/ JobStep(e)
  \/ \E o \in Operators : OperatorStep(o)

Spec == Init /\ [][Next]_vars

(* Both importing threads run on.                                          *)
FairSpec == Spec /\ WF_vars(ReceiverStep) /\ WF_vars(PollerStep)

-----------------------------------------------------------------------------
(* Properties.                                                             *)

(* Once a receiver has caught up and taken every message, each event the   *)
(* host has emitted since the start of its last catch-up without a cursor  *)
(* is stored, however often the connection broke or an import failed.      *)
CaughtUpIsComplete ==
  link = "live" /\ inbox = <<>> =>
    \A e \in emitted : e >= asked => Stored(e)

(* No announcement of an event that was closed waits to be played; closing *)
(* one event breaks this, closing them all does not (events/views.py).     *)
ClosedIsSilent == \A e \in Events : status[e] = "closed" => job[e] # "pending"

(* A closed event is never open again.                                     *)
ClosedStaysClosed ==
  [][\A e \in Events : status[e] = "closed" => status'[e] = "closed"]_vars

(* An event an operator has closed is never queued for playback again.     *)
ClosedIsNeverQueued ==
  [][\A e \in closed : job[e] # "pending" => job'[e] # "pending"]_vars

(* Every event the host emits is stored in the end.                        *)
EveryEventIsStored == \A e \in Events : e \in emitted ~> Stored(e)

(* The intake implements its abstract specification, with every outside    *)
(* event: whoever is first, an event is stored once and announced once, and*)
(* no one queues an announcement that waits or plays.                      *)
AbstractState ==
  [e \in Events |-> IF ~Stored(e) THEN "unknown" ELSE IF Open(e) THEN "open" ELSE "closed"]

Missed == IF rec.pc = "create" THEN {rec.event} ELSE {}

Store == INSTANCE EventStore WITH state <- AbstractState, missed <- Missed

ImplementsStore == Store!Spec

=============================================================================
