--------------------------- MODULE SchedulerProcess ---------------------------
(***************************************************************************)
(* Who runs the broadcast schedules: the thread the web server starts, or  *)
(* the command run_broadcast_scheduler, of which several may be started.   *)
(* A file lock admits one of them; its status file tells the watchdog of   *)
(* the web server that schedules are being run.  A pass over the schedules *)
(* is the Scheduler of Broadcast.                                          *)
(***************************************************************************)
EXTENDS Naturals, FiniteSets

CONSTANTS
  Web,        \* the scheduler thread of the web server
  Commands,   \* run_broadcast_scheduler processes
  NoProc

Procs == {Web} \union Commands

(* The free lock is nobody's.                                              *)
ASSUME SchedulerAssumption == NoProc \notin Procs

VARIABLES
  lockHolder,   \* who has locked broadcast_scheduler.lock
  proc,         \* where each scheduler is
  webUp,        \* the web server, with its watchdog, runs
  statusFile,   \* broadcast_scheduler_status.json
  diskFull,     \* status files cannot be written
  schedFault    \* PAO_BROADCAST_SCHEDULER_UNHEALTHY is active

schedVars == <<lockHolder, proc, webUp, statusFile, diskFull, schedFault>>

(* first: the lock is taken; loop: before a pass; wait: after the status   *)
(* of one; end: the loop has ended; stopping: the lock is to be given back; *)
(* late: it is given back already.                                         *)
ProcStates == {"off", "first", "check", "loop", "pass", "wait", "end", "stopping", "late", "dead"}
FileStates == {"missing", "running", "degraded", "stopped"}

SchedulerTypeOK ==
  /\ lockHolder \in Procs \union {NoProc}
  /\ proc \in [Procs -> ProcStates]
  /\ webUp \in BOOLEAN
  /\ statusFile \in [state : FileStates, fresh : BOOLEAN, by : Procs \union {NoProc}]
  /\ diskFull \in BOOLEAN
  /\ schedFault \in BOOLEAN

SchedulerInit ==
  /\ lockHolder = NoProc
  /\ proc = [p \in Procs |-> "off"]
  /\ webUp = TRUE
  /\ statusFile = [state |-> "missing", fresh |-> FALSE, by |-> NoProc]
  /\ diskFull = FALSE
  /\ schedFault = FALSE

Goes(p, to) == proc' = [proc EXCEPT ![p] = to]

(* write_scheduler_status replaces the file as a whole, or raises.         *)
Writes(p, state) == ~diskFull /\ statusFile' = [state |-> state, fresh |-> TRUE, by |-> p]
CannotWrite == diskFull /\ UNCHANGED statusFile

Unlock(p) == lockHolder' = IF lockHolder = p THEN NoProc ELSE lockHolder

---------------------------------------------------------------------------
(* A scheduler starts: the web server's thread once, a command at any time.*)

AnyLock == TRUE

LockIsFree == lockHolder = NoProc

(* SchedulerProcessLock.acquire; who does not get the lock gives up, and   *)
(* leaves the status file alone.                                           *)
Start(p) ==
  /\ proc[p] = "off"
  /\ p = Web => webUp
  /\ IF LockIsFree
     THEN lockHolder' = p /\ Goes(p, "first")
     ELSE Goes(p, IF p = Web THEN "dead" ELSE "off") /\ UNCHANGED lockHolder
  /\ UNCHANGED <<webUp, statusFile, diskFull, schedFault>>

FirstStatus(p) ==
  /\ proc[p] = "first"
  /\ \/ Writes(p, "running") /\ Goes(p, "loop")
     \/ p \in Commands /\ Writes(p, "running") /\ Goes(p, "check")
     \/ CannotWrite /\ Goes(p, "stopping")
  /\ UNCHANGED <<lockHolder, webUp, diskFull, schedFault>>

(* --check-only: the status is written as running, then as stopped.        *)
CheckOnly(p) ==
  /\ proc[p] = "check"
  /\ Writes(p, "stopped") \/ CannotWrite
  /\ Goes(p, "stopping")
  /\ UNCHANGED <<lockHolder, webUp, diskFull, schedFault>>

(* The with block of SchedulerProcessLock is left.                         *)
LeaveLock(p) ==
  /\ proc[p] = "stopping"
  /\ Unlock(p)
  /\ Goes(p, IF p = Web THEN "dead" ELSE "off")
  /\ UNCHANGED <<webUp, statusFile, diskFull, schedFault>>

PassStarts(p) ==
  /\ proc[p] = "loop"
  /\ Goes(p, "pass")
  /\ UNCHANGED <<lockHolder, webUp, statusFile, diskFull, schedFault>>

(* The status after a pass, good or bad; when it cannot be written the     *)
(* handler's own status cannot either, and the loop ends.                  *)
PassEnds(p) ==
  /\ proc[p] = "pass"
  /\ \/ \E state \in {"running", "degraded"} : Writes(p, state) /\ Goes(p, "wait")
     \/ CannotWrite /\ Goes(p, "end")
  /\ UNCHANGED <<lockHolder, webUp, diskFull, schedFault>>

(* The interval passes; a command may be told to stop, or run --once.      *)
WaitEnds(p) ==
  /\ proc[p] = "wait"
  /\ \/ Goes(p, "loop")
     \/ p \in Commands /\ Goes(p, "end")
  /\ UNCHANGED <<lockHolder, webUp, statusFile, diskFull, schedFault>>

(* The command says it stopped and releases the lock afterwards; the thread*)
(* leaves the lock first, and then says so.                                *)
CommandStops(p) ==
  /\ proc[p] = "end"
  /\ p \in Commands
  /\ Writes(p, "stopped") \/ CannotWrite
  /\ Goes(p, "stopping")
  /\ UNCHANGED <<lockHolder, webUp, diskFull, schedFault>>

ThreadUnlocks ==
  /\ proc[Web] = "end"
  /\ Unlock(Web)
  /\ Goes(Web, "late")
  /\ UNCHANGED <<webUp, statusFile, diskFull, schedFault>>

ThreadStops ==
  /\ proc[Web] = "late"
  /\ Writes(Web, "stopped") \/ CannotWrite
  /\ Goes(Web, "dead")
  /\ UNCHANGED <<lockHolder, webUp, diskFull, schedFault>>

ProcStep(p) ==
  \/ FirstStatus(p) \/ CheckOnly(p) \/ PassStarts(p) \/ PassEnds(p) \/ WaitEnds(p)
  \/ CommandStops(p) \/ LeaveLock(p)
  \/ p = Web /\ (ThreadUnlocks \/ ThreadStops)

---------------------------------------------------------------------------
(* Killed processes: the system frees the lock, the status file stays.     *)
Killed(p) ==
  /\ proc[p] # "off"
  /\ Goes(p, "off")
  /\ Unlock(p)
  /\ webUp' = IF p = Web THEN FALSE ELSE webUp
  /\ UNCHANGED <<statusFile, diskFull, schedFault>>

WebRestarts ==
  /\ ~webUp
  /\ webUp' = TRUE
  /\ UNCHANGED <<lockHolder, proc, statusFile, diskFull, schedFault>>

DiskFills ==
  /\ diskFull' = ~diskFull
  /\ UNCHANGED <<lockHolder, proc, webUp, statusFile, schedFault>>

(* The status is not renewed for longer than the watchdog accepts.         *)
StatusAges ==
  /\ statusFile' = [statusFile EXCEPT !.fresh = FALSE]
  /\ UNCHANGED <<lockHolder, proc, webUp, diskFull, schedFault>>

ThreadAlive == webUp /\ proc[Web] \notin {"off", "dead"}

(* Mutant of SchedulerHealthy: the age of the status is not looked at.     *)
StatusSaysRunning == ThreadAlive \/ statusFile.state = "running"

(* _broadcast_scheduler_health.                                            *)
SchedulerHealthy == ThreadAlive \/ (statusFile.state = "running" /\ statusFile.fresh)

WatchScheduler ==
  /\ webUp
  /\ schedFault' = ~SchedulerHealthy
  /\ UNCHANGED <<lockHolder, proc, webUp, statusFile, diskFull>>

SchedulerNext ==
  \/ \E p \in Procs : Start(p) \/ ProcStep(p) \/ Killed(p)
  \/ WebRestarts
  \/ DiskFills
  \/ StatusAges
  \/ WatchScheduler

SchedulerSpec == SchedulerInit /\ [][SchedulerNext]_schedVars

(* Started schedulers go on, the web server starts its thread, its watchdog*)
(* looks, and time passes.                                                 *)
FairScheduling ==
  /\ \A p \in Procs : WF_schedVars(ProcStep(p))
  /\ WF_schedVars(Start(Web))
  /\ WF_schedVars(StatusAges)
  /\ WF_schedVars(WatchScheduler)

FairSchedulerSpec == SchedulerSpec /\ FairScheduling

---------------------------------------------------------------------------
(* Two schedulers never run passes at the same time, whoever is killed,    *)
(* restarted or refused (SchedulerProcessLock).                            *)
OneScheduler == \A p, q \in Procs : proc[p] \in {"loop", "pass", "wait"} /\ proc[q] = "pass" => p = q

(* A stopped scheduler nobody replaces is reported, however it ended: by   *)
(* itself, killed with "running" in its file, or refused.                  *)
SchedulerLossIsReported ==
  <>[](webUp /\ proc[Web] = "dead" /\ \A p \in Commands : proc[p] = "off") => <>[]schedFault

(* The health file belongs to the running process: nobody else overwrites  *)
(* it ("Do not overwrite the health file owned by the running process.").  *)
StatusIsTheOwners ==
  [][statusFile'.state # statusFile.state /\ lockHolder # NoProc => statusFile'.by = lockHolder]_schedVars

===========================================================================
