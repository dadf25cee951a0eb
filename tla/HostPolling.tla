------------------------------ MODULE HostPolling ------------------------------
(***************************************************************************)
(* The inference hosts as the station sees them: the background thread that*)
(* polls them one after the other, the connection test of the settings page*)
(* and the watchdog that looks after the thread.  What the polls import is *)
(* the subject of EventImport.                                             *)
(***************************************************************************)
EXTENDS Naturals, FiniteSets

CONSTANTS
  Hosts,         \* InferenceHost rows
  Answers,       \* how hosts can answer, some of these (a bound):
                 \* ok: healthy with events; bad: a health status other than
                 \* ok; no_events: healthy, but the events cannot be had;
                 \* down: no answer, or an error; garbled: a body that breaks
                 \* off or is not UTF-8
  Busy           \* can the database be locked (a bound)

(* The station knows a host.                                               *)
ASSUME PollingAssumption == Hosts # {}

VARIABLES
  answer,        \* how each host answers now
  hostActive,    \* is_active
  hostStatus,    \* status
  connection,    \* InferenceConnectionState.health_status
  hostFaults,    \* active INFERENCE_HEALTH_* faults of each host
  locked,        \* another writer keeps the database locked
  poller,        \* where the polling thread is, and with which host
  pending,       \* the hosts it has still to poll in this cycle
  tester,        \* a connection test: the host and what the probe found
  stoppedFault,  \* PAO_INFERENCE_POLLING_STOPPED is active
  deathCause      \* history: what ended the polling thread

hostVars == <<answer, hostActive, hostStatus, connection, hostFaults, locked, poller, pending,
              tester, stoppedFault, deathCause>>
pollVars == <<hostStatus, connection, hostFaults, poller, pending, deathCause>>
worldVars == <<answer, hostActive, locked>>

(* The polling has no host in hand before its first cycle.                 *)
AnyHost == CHOOSE h \in Hosts : TRUE

PollingTypeOK ==
  /\ answer \in [Hosts -> Answers]
  /\ hostActive \in [Hosts -> BOOLEAN]
  /\ hostStatus \in [Hosts -> {"unknown", "online", "offline", "error"}]
  /\ connection \in [Hosts -> {"unknown", "ok", "offline"}]
  /\ hostFaults \in [Hosts -> SUBSET {"bad_status", "unavailable"}]
  /\ locked \in BOOLEAN
  /\ poller \in [at : {"sleep", "next", "health", "events", "offline", "report", "online", "recover", "dead"},
                 host : Hosts, fault : {"bad_status", "unavailable"}]
  /\ pending \in SUBSET Hosts
  /\ tester \in [at : {"idle", "probed"}, host : Hosts, ok : BOOLEAN]
  /\ stoppedFault \in BOOLEAN
  /\ deathCause \in {"none", "database", "host"}

PollingInit ==
  /\ answer \in [Hosts -> Answers]
  /\ hostActive = [h \in Hosts |-> TRUE]
  /\ hostStatus = [h \in Hosts |-> "unknown"]
  /\ connection = [h \in Hosts |-> "unknown"]
  /\ hostFaults = [h \in Hosts |-> {}]
  /\ locked = FALSE
  /\ poller = [at |-> "sleep", host |-> AnyHost, fault |-> "unavailable"]
  /\ pending = {}
  /\ tester = [at |-> "idle", host |-> AnyHost, ok |-> FALSE]
  /\ stoppedFault = FALSE
  /\ deathCause = "none"

---------------------------------------------------------------------------
(* poll_inference_hosts, in the background thread.                         *)

PollerGoes(to) == poller' = [poller EXCEPT !.at = to]

(* An exception nobody catches ends the thread; it is never started again. *)
PollerDies(cause) ==
  /\ PollerGoes("dead")
  /\ deathCause' = cause

CycleStarts ==
  /\ poller.at = "sleep"
  /\ pending' = {h \in Hosts : hostActive[h]}
  /\ PollerGoes("next")
  /\ UNCHANGED <<hostStatus, connection, hostFaults, deathCause>>

CycleEnds ==
  /\ poller.at = "next"
  /\ pending = {}
  /\ PollerGoes("sleep")
  /\ UNCHANGED <<hostStatus, connection, hostFaults, pending, deathCause>>

NextHost ==
  /\ poller.at = "next"
  /\ \E h \in pending :
       /\ pending' = pending \ {h}
       /\ poller' = [poller EXCEPT !.at = "health", !.host = h]
  /\ UNCHANGED <<hostStatus, connection, hostFaults, deathCause>>

(* A request that ends in an InferenceClientError (_get_json) is caught;   *)
(* what else it raises is not.                                             *)
FailsWith(fault) == poller' = [poller EXCEPT !.at = "offline", !.fault = fault]
Garbled == answer[poller.host] = "garbled"

PollHealth ==
  /\ poller.at = "health"
  /\ LET seen == answer[poller.host] IN
     \/ /\ seen = "down" /\ FailsWith("unavailable")
        /\ UNCHANGED <<connection, deathCause>>
     \/ /\ seen = "garbled" /\ PollerDies("host")
        /\ UNCHANGED connection
     \/ /\ seen = "bad" /\ ~locked /\ FailsWith("bad_status")
        /\ UNCHANGED <<connection, deathCause>>
     \/ /\ seen \in {"ok", "no_events"} /\ ~locked
        /\ connection' = [connection EXCEPT ![poller.host] = "ok"]
        /\ PollerGoes("events")
        /\ UNCHANGED deathCause
     \/ /\ seen \in {"ok", "no_events", "bad"} /\ locked /\ PollerDies("database")
        /\ UNCHANGED connection
  /\ UNCHANGED <<hostStatus, hostFaults, pending>>

PollEvents ==
  /\ poller.at = "events"
  /\ \/ answer[poller.host] \in {"ok", "bad"} /\ PollerGoes("online") /\ UNCHANGED deathCause
     \/ answer[poller.host] \in {"down", "no_events"} /\ FailsWith("unavailable") /\ UNCHANGED deathCause
     \/ Garbled /\ PollerDies("host")
  /\ UNCHANGED <<hostStatus, connection, hostFaults, pending>>

(* The outcome is saved: the connection state and the host row.            *)
PollOffline ==
  /\ poller.at = "offline"
  /\ IF locked
     THEN PollerDies("database") /\ UNCHANGED <<connection, hostStatus>>
     ELSE /\ connection' = [connection EXCEPT ![poller.host] = "offline"]
          /\ hostStatus' = [hostStatus EXCEPT ![poller.host] = "offline"]
          /\ PollerGoes("report")
          /\ UNCHANGED deathCause
  /\ UNCHANGED <<hostFaults, pending>>

PollOnline ==
  /\ poller.at = "online"
  /\ IF locked
     THEN PollerDies("database") /\ UNCHANGED hostStatus
     ELSE /\ hostStatus' = [hostStatus EXCEPT ![poller.host] = "online"]
          /\ PollerGoes("recover")
          /\ UNCHANGED deathCause
  /\ UNCHANGED <<connection, hostFaults, pending>>

(* The fault is reported, or both recovered; an error here is passed over. *)
Reported(h) == hostFaults[h] \union {poller.fault}

(* Mutant of BothRecovered: only the fault seen last recovers.             *)
OneRecovered(h) == hostFaults[h] \ {"unavailable"}

BothRecovered(h) == hostFaults[h] \ {"unavailable", "bad_status"}

PollFaults ==
  /\ poller.at \in {"report", "recover"}
  /\ LET h == poller.host IN
     hostFaults' = IF locked THEN hostFaults
                   ELSE [hostFaults EXCEPT ![h] = IF poller.at = "report" THEN Reported(h) ELSE BothRecovered(h)]
  /\ PollerGoes("next")
  /\ UNCHANGED <<hostStatus, connection, pending, deathCause>>

PollerStep ==
  /\ \/ CycleStarts \/ CycleEnds \/ NextHost
     \/ PollHealth \/ PollEvents \/ PollOffline \/ PollOnline \/ PollFaults
  /\ UNCHANGED <<worldVars, tester, stoppedFault>>

(* _inference_polling_health: the thread lives.                            *)
PollingHealthy == poller.at # "dead"

(* The service watchdog, which reports and recovers (evaluate_services).   *)
WatchPolling ==
  /\ stoppedFault' = IF locked THEN stoppedFault ELSE ~PollingHealthy
  /\ UNCHANGED <<worldVars, pollVars, tester>>

---------------------------------------------------------------------------
(* test_inference_host: the probe first, then the host row.                *)

TestProbe(h) ==
  /\ tester.at = "idle"
  /\ tester' = [at |-> "probed", host |-> h, ok |-> answer[h] \in {"ok", "no_events", "bad", "garbled"}]
  /\ UNCHANGED <<worldVars, pollVars, stoppedFault>>

TestSave ==
  /\ tester.at = "probed"
  /\ tester' = [tester EXCEPT !.at = "idle"]
  /\ hostStatus' = IF locked THEN hostStatus
                   ELSE [hostStatus EXCEPT ![tester.host] = IF tester.ok THEN "online" ELSE "error"]
  /\ UNCHANGED <<worldVars, connection, hostFaults, poller, pending, deathCause, stoppedFault>>

---------------------------------------------------------------------------
(* The hosts, the operator, the database.                                  *)

HostAnswers(h, a) ==
  /\ answer' = [answer EXCEPT ![h] = a]
  /\ UNCHANGED <<hostActive, locked, pollVars, tester, stoppedFault>>

Toggle(h) ==
  /\ hostActive' = [hostActive EXCEPT ![h] = ~@]
  /\ UNCHANGED <<answer, locked, pollVars, tester, stoppedFault>>

Lock ==
  /\ Busy
  /\ locked' = ~locked
  /\ UNCHANGED <<answer, hostActive, pollVars, tester, stoppedFault>>

PollingNext ==
  \/ PollerStep
  \/ WatchPolling
  \/ \E h \in Hosts : TestProbe(h) \/ Toggle(h) \/ \E a \in Answers : HostAnswers(h, a)
  \/ TestSave
  \/ Lock

PollingSpec == PollingInit /\ [][PollingNext]_hostVars

(* The background threads run, requests end and time passes.               *)
FairPolling ==
  /\ WF_hostVars(PollerStep)
  /\ WF_hostVars(WatchPolling)
  /\ WF_hostVars(TestSave)

FairPollingSpec == PollingSpec /\ FairPolling

---------------------------------------------------------------------------
Alive == poller.at # "dead"

(* An active host that keeps working is shown online, with no fault, after *)
(* whatever failures, connection tests and locked databases went before.   *)
HealthIsShown ==
  \A h \in Hosts :
    <>[](answer[h] = "ok" /\ hostActive[h] /\ ~locked /\ Alive)
      => <>[](hostStatus[h] = "online" /\ connection[h] = "ok" /\ hostFaults[h] = {})

(* An active host that stays away is shown so and reported, whatever fault *)
(* it had before.                                                          *)
OutageIsShown ==
  \A h \in Hosts :
    <>[](answer[h] = "down" /\ hostActive[h] /\ ~locked /\ Alive)
      => <>[](hostStatus[h] \in {"offline", "error"} /\ "unavailable" \in hostFaults[h])

(* A polling thread that died is never started again, but it is reported.  *)
DeadPollingIsReported == <>[](~Alive /\ ~locked) => <>[]stoppedFault

(* What the station shows of its hosts follows them, or it says that it    *)
(* does not.                                                               *)
HostsAreShown == HealthIsShown /\ OutageIsShown /\ DeadPollingIsReported

(* A host that answers badly does not end the polling of the others, as    *)
(* the help of poll_inference_hosts says.                                  *)
HostsDoNotEndPolling == deathCause # "host"

===========================================================================
