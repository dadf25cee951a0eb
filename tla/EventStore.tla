----------------------------- MODULE EventStore -----------------------------
(***************************************************************************)
(* What the intake of events promises, without saying how an event gets    *)
(* here: an event is stored once and stays; its announcement is queued at  *)
(* most once, and only while the event is open; clearing all alarms takes  *)
(* the waiting announcements out of the queue.  It promises no more than   *)
(* that to operators: a closed event may be open again, and closing one    *)
(* event leaves its announcement where it is.  A reconciliation may queue  *)
(* an announcement it had missed, whatever became of it meanwhile, unless  *)
(* it is waiting or playing.                                               *)
(***************************************************************************)
CONSTANT Events

VARIABLES
  state,   \* "unknown", "open" or "closed"
  job,     \* its announcement: "none", "pending", "playing" or "over"
  missed   \* events whose announcement a reconciliation missed

vars == <<state, job, missed>>

Init ==
  /\ state = [e \in Events |-> "unknown"]
  /\ job = [e \in Events |-> "none"]
  /\ missed = {}

(* The event arrives and is stored; its announcement may be queued.        *)
Store(e) ==
  /\ state[e] = "unknown" /\ job[e] = "none"
  /\ state' = [state EXCEPT ![e] = "open"]
  /\ job' \in {job, [job EXCEPT ![e] = "pending"]}
  /\ UNCHANGED missed

(* It arrives again, and an announcement that was not queued then is now.  *)
Queue(e) ==
  /\ state[e] = "open" /\ job[e] = "none"
  /\ job' = [job EXCEPT ![e] = "pending"]
  /\ UNCHANGED <<state, missed>>

(* The speakers take the announcement up, and are done with it.            *)
Play(e) ==
  /\ \/ job[e] = "pending" /\ job' = [job EXCEPT ![e] = "playing"]
     \/ job[e] \in {"pending", "playing"} /\ job' = [job EXCEPT ![e] = "over"]
  /\ UNCHANGED <<state, missed>>

(* An event is closed, or clearing all alarms closes a set of them.        *)
Close(e) ==
  /\ state[e] = "open"
  /\ state' = [state EXCEPT ![e] = "closed"]
  /\ UNCHANGED <<job, missed>>

Clear(E) ==
  /\ \A e \in E : state[e] # "unknown"
  /\ state' = [e \in Events |-> IF e \in E THEN "closed" ELSE state[e]]
  /\ job' = [e \in Events |-> IF e \in E /\ job[e] = "pending" THEN "over" ELSE job[e]]
  /\ UNCHANGED missed

(* An old copy of the event is written back.                               *)
Reopen(e) ==
  /\ state[e] = "closed"
  /\ state' = [state EXCEPT ![e] = "open"]
  /\ UNCHANGED <<job, missed>>

(* A reconciliation finds a stored event without an announcement, and      *)
(* queues it later, or leaves it.                                          *)
Miss(e) ==
  /\ state[e] # "unknown" /\ job[e] = "none"
  /\ missed' = missed \union {e}
  /\ UNCHANGED <<state, job>>

MakeUp(e) ==
  /\ e \in missed
  /\ missed' = missed \ {e}
  /\ \/ job[e] \in {"none", "over"} /\ job' = [job EXCEPT ![e] = "pending"]
     \/ UNCHANGED job
  /\ UNCHANGED state

Next ==
  \/ \E e \in Events :
       \/ Store(e) \/ Queue(e) \/ Play(e)
       \/ Close(e) \/ Reopen(e) \/ Miss(e) \/ MakeUp(e)
  \/ \E E \in SUBSET Events : Clear(E)

Spec == Init /\ [][Next]_vars

=============================================================================
