-------------------------- MODULE Broadcast_proofs --------------------------
(***************************************************************************)
(* Theorems about Broadcast, for every value of its constants.             *)
(***************************************************************************)
EXTENDS Broadcast, FiniteSetTheorems, TLAPS

-----------------------------------------------------------------------------
(* What the table operators return.                                        *)

(* Writing a status leaves every other column of the table as it was.      *)
LEMMA WithStatusFacts ==
  ASSUME NEW table \in [Logs -> Row], NEW ids, NEW st \in Statuses \union {"none"}
  PROVE  /\ WithStatus(table, ids, st) \in [Logs -> Row]
         /\ \A l \in Logs :
              /\ l \in ids => WithStatus(table, ids, st)[l].status = st
              /\ l \notin ids => WithStatus(table, ids, st)[l] = table[l]
              /\ WithStatus(table, ids, st)[l].speaker = table[l].speaker
              /\ WithStatus(table, ids, st)[l].source = table[l].source
              /\ WithStatus(table, ids, st)[l].schedule = table[l].schedule
  BY DEF WithStatus, Row

(* Inserting gives each speaker in ids' domain one new row and touches no  *)
(* other row.                                                              *)
LEMMA WithInsertedFacts ==
  ASSUME NEW table \in [Logs -> Row],
         NEW ids, DOMAIN ids \subseteq Speakers, ids \in [DOMAIN ids -> Logs],
         IsInjective(ids),
         NEW st \in Statuses, NEW src \in Sources,
         NEW k, k \in Schedules \/ k = None
  PROVE  /\ WithInserted(table, ids, st, src, k) \in [Logs -> Row]
         /\ \A s \in DOMAIN ids :
              /\ WithInserted(table, ids, st, src, k)[ids[s]].status = st
              /\ WithInserted(table, ids, st, src, k)[ids[s]].speaker = s
         /\ \A l \in Logs : (\A s \in DOMAIN ids : ids[s] # l)
              => WithInserted(table, ids, st, src, k)[l] = table[l]
  <1> DEFINE new == WithInserted(table, ids, st, src, k)
  <1>1. ASSUME NEW s \in DOMAIN ids
        PROVE  (CHOOSE t \in DOMAIN ids : ids[t] = ids[s]) = s
    BY DEF IsInjective
  <1>2. ASSUME NEW l \in Logs, NEW s \in DOMAIN ids, ids[s] = l
        PROVE  new[l] = [status |-> st, speaker |-> s, source |-> src, schedule |-> k]
    <2>1. \E t \in DOMAIN ids : ids[t] = l
      BY <1>2
    <2>2. (CHOOSE t \in DOMAIN ids : ids[t] = l) = s
      BY <1>1, <1>2
    <2>3. new[l] = [status |-> st, speaker |-> CHOOSE t \in DOMAIN ids : ids[t] = l,
                    source |-> src, schedule |-> k]
      BY <2>1 DEF WithInserted
    <2> QED BY <2>2, <2>3
  <1>3. ASSUME NEW l \in Logs, \A s \in DOMAIN ids : ids[s] # l
        PROVE  new[l] = table[l]
    BY <1>3 DEF WithInserted
  <1>4. new \in [Logs -> Row]
    <2>1. new = [l \in Logs |-> new[l]]
      BY DEF WithInserted
    <2>2. ASSUME NEW l \in Logs
          PROVE  new[l] \in Row
      <3>1. CASE \E s \in DOMAIN ids : ids[s] = l
        <4>1. PICK s \in DOMAIN ids : ids[s] = l
          BY <3>1
        <4>2. new[l] = [status |-> st, speaker |-> s, source |-> src, schedule |-> k]
          BY <4>1, <1>2
        <4> HIDE DEF new
        <4> QED BY <4>2, s \in Speakers DEF Row
      <3>2. CASE \A s \in DOMAIN ids : ids[s] # l
        BY <3>2, <1>3
      <3> QED BY <3>1, <3>2
    <2> QED BY <2>1, <2>2
  <1>5. ASSUME NEW s \in DOMAIN ids
        PROVE  new[ids[s]].status = st /\ new[ids[s]].speaker = s
    <2>1. ids[s] \in Logs
      OBVIOUS
    <2>2. new[ids[s]] = [status |-> st, speaker |-> s, source |-> src, schedule |-> k]
      BY <1>2, <2>1
    <2> HIDE DEF new
    <2> QED BY <2>2
  <1> QED BY <1>3, <1>4, <1>5

LEMMA CopiesOfType ==
  ASSUME row \in [Logs -> Row], NEW ids \in SUBSET Logs,
         \A l \in ids : Active(l)
  PROVE  CopiesOf(ids) \in SUBSET Copy
  BY DEF CopiesOf, Copy, Active, ActiveStatuses

(* Port slots are numbers: there are finitely many speakers.               *)
LEMMA PortSlotType == \A s : PortSlot(s) \in Nat
  <1> SUFFICES ASSUME NEW s PROVE PortSlot(s) \in Nat
    OBVIOUS
  <1> DEFINE Below == {t \in Speakers : t < s /\ device[t] # "inactive"}
  <1>1. IsFiniteSet(Below)
    BY FS_Subset, ConstantsAssumption
  <1>2. Cardinality(Below) \in Nat
    BY <1>1, FS_CardinalityType
  <1> QED BY <1>2 DEF PortSlot

-----------------------------------------------------------------------------
(* Type correctness.                                                       *)

LEMMA CopyType ==
  ASSUME TypeOK, NEW a \in Actors, NEW c \in copies[a]
  PROVE  c \in Copy /\ c.log \in Logs
  BY DEF TypeOK, Copy

LEMMA AdvancedType ==
  ASSUME TypeOK, NEW a \in Actors, NEW c \in copies[a],
         NEW step \in {"stopped", "saved"}
  PROVE  Advanced(a, c, step) \in [Actors -> SUBSET Copy]
  BY DEF Advanced, TypeOK, Copy

(* The actors of each kind are actors.                                     *)
LEMMA ActorKinds ==
  /\ Scheduler \in Actors
  /\ \A l \in Logs : l \in Actors
  /\ \A r \in Requests : r \in Actors
  BY DEF Actors

LEMMA SweepType ==
  ASSUME TypeOK, NEW a \in Actors, SweepStep(a)
  PROVE  TypeOK'
  <1>0. PICK c \in copies[a] :
          SweepStop(a, c) \/ SweepSave(a, c) \/ SweepReschedule(a, c)
    BY DEF SweepStep
  <1>1. c \in Copy /\ c.log \in Logs
    BY CopyType
  <1>2. CASE SweepStop(a, c)
    <2>1. copies' \in [Actors -> SUBSET Copy]
      BY <1>2, AdvancedType DEF SweepStop
    <2> QED BY <1>2, <2>1 DEF SweepStop, StopProcesses, TypeOK, rowVars, schedVars
  <1>3. CASE SweepSave(a, c)
    <2>1. copies' \in [Actors -> SUBSET Copy]
      <3>1. Advanced(a, c, "saved") \in [Actors -> SUBSET Copy]
        BY AdvancedType
      <3> QED BY <1>3, <3>1 DEF SweepSave, TypeOK
    <2>2. row' \in [Logs -> Row]
      <3>1. SweepStatus(a) \in Statuses
        BY DEF SweepStatus, Statuses, FinalStatuses
      <3> QED BY <1>3, <3>1, WithStatusFacts DEF SweepSave, TypeOK
    <2> QED BY <1>3, <2>1, <2>2 DEF SweepSave, TypeOK, playVars
  <1>4. CASE SweepReschedule(a, c)
    <2>1. copies' \in [Actors -> SUBSET Copy]
      BY <1>4 DEF SweepReschedule, TypeOK
    <2>2. sched' \in [Schedules -> Schedule] /\ owed' \subseteq Schedules
      BY <1>4 DEF SweepReschedule, Rescheduled, TypeOK, Schedule
    <2> QED BY <1>4, <2>1, <2>2 DEF SweepReschedule, TypeOK, playVars
  <1> QED BY <1>0, <1>2, <1>3, <1>4

LEMMA WorkerType ==
  ASSUME TypeOK, NEW l \in Logs, WorkerStep(l) \/ WorkerError(l)
  PROVE  TypeOK'
  <1> USE DEF TypeOK, rowVars, schedVars, actorVars, WorkerStages
  <1>0. /\ "playing" \in Statuses /\ "failed" \in Statuses
        /\ "success" \in Statuses
    BY DEF Statuses, ActiveStatuses, FinalStatuses
  <1>1. CASE Prepare(l)
    <2>1. row' \in [Logs -> Row]
      BY <1>0, <1>1, WithStatusFacts DEF Prepare
    <2> QED BY <1>1, <2>1 DEF Prepare
  <1>2. CASE CheckSpeaker(l) \/ CountSlot(l) \/ TestPorts(l) \/ StartProcess(l)
    BY <1>2, PortSlotType DEF CheckSpeaker, CountSlot, TestPorts, StartProcess
  <1>3. CASE RefusePlayback(l)
    BY <1>3 DEF RefusePlayback
  <1>4. CASE EndPlayback(l)
    BY <1>4 DEF EndPlayback
  <1>5. CASE PlaybackKilled(l)
    BY <1>5 DEF PlaybackKilled
  <1>6. CASE Refresh(l)
    BY <1>6 DEF Refresh
  <1>7. CASE Mark(l)
    <2>1. row' \in [Logs -> Row]
      BY <1>0, <1>7, WithStatusFacts DEF Mark, Outcome
    <2> QED BY <1>7, <2>1 DEF Mark
  <1>8. CASE Recover(l)
    <2>1. CopiesOf(Recoverable(l)) \in SUBSET Copy
      BY CopiesOfType DEF Recoverable
    <2>2. copies' \in [Actors -> SUBSET Copy]
      BY <1>8, <2>1 DEF Recover
    <2> QED BY <1>8, <2>2 DEF Recover
  <1>9. CASE Recovered(l)
    BY <1>9 DEF Recovered
  <1>10. CASE WorkerError(l)
    <2>1. row' \in [Logs -> Row]
      BY <1>0, <1>10, WithStatusFacts DEF WorkerError
    <2> QED BY <1>10, <2>1 DEF WorkerError
  <1> QED
    BY <1>1, <1>2, <1>3, <1>4, <1>5, <1>6, <1>7, <1>8, <1>9, <1>10 DEF WorkerStep

LEMMA CopiesUpdateType ==
  ASSUME TypeOK, NEW a \in Actors, NEW ids \in SUBSET Logs, \A l \in ids : Active(l)
  PROVE  [copies EXCEPT ![a] = CopiesOf(ids)] \in [Actors -> SUBSET Copy]
  <1>1. CopiesOf(ids) \in SUBSET Copy
    BY CopiesOfType DEF TypeOK
  <1> QED BY <1>1 DEF TypeOK

(* Rows inserted under fresh identities keep the table's type.             *)
LEMMA InsertType ==
  ASSUME TypeOK, NEW table \in [Logs -> Row], NEW S \in SUBSET Speakers,
         NEW ids \in FreshIds(S), NEW st \in {"pending", "playing"}, NEW src \in Sources,
         NEW k, k \in Schedules \/ k = None
  PROVE  WithInserted(table, ids, st, src, k) \in [Logs -> Row]
  <1>1. DOMAIN ids = S /\ ids \in [S -> Logs] /\ IsInjective(ids)
    BY DEF FreshIds
  <1>2. st \in Statuses
    BY DEF Statuses, ActiveStatuses
  <1> QED BY <1>1, <1>2, WithInsertedFacts

(* Where a request may go from where it is.                                *)
LEMMA RequestPlaces ==
  ASSUME TypeOK, NEW r \in Requests
  PROVE  /\ request[r].source \in Sources /\ request[r].speakers \in SUBSET Speakers
         /\ GoIdle(r) => request' \in [Requests -> Request]
         /\ \A pc \in {"stale", "interrupt", "create"} :
              Proceed(r, pc) => request' \in [Requests -> Request]
         /\ \A pc \in {"clear", "stale", "reset"}, src \in Sources, S \in SUBSET Speakers :
              Goto(r, pc, src, S) => request' \in [Requests -> Request]
  <1>1. request[r] \in Request
    BY DEF TypeOK
  <1>2. NoRequest \in Request
    BY DEF NoRequest, Request, Sources
  <1>3. ASSUME NEW pc \in {"clear", "stale", "interrupt", "create", "reset"},
               NEW src \in Sources, NEW S \in SUBSET Speakers, Goto(r, pc, src, S)
        PROVE  request' \in [Requests -> Request]
    BY <1>3 DEF Goto, Request, TypeOK
  <1>4. request[r].source \in Sources /\ request[r].speakers \in SUBSET Speakers
    BY <1>1 DEF Request
  <1> QED BY <1>2, <1>3, <1>4 DEF GoIdle, Proceed, TypeOK

LEMMA StaleListType ==
  ASSUME TypeOK, NEW r \in Requests, ListStaleSchedules(r)
  PROVE  copies' \in [Actors -> SUBSET Copy]
  <1>1. PICK stale \in MaybeStale(Scheduled) :
          copies' = [copies EXCEPT ![r] = CopiesOf(stale)]
    BY DEF ListStaleSchedules
  <1>2. stale \in SUBSET Logs /\ \A l \in stale : Active(l)
    BY DEF MaybeStale
  <1> QED BY <1>1, <1>2, ActorKinds, CopiesUpdateType

LEMMA StartType ==
  ASSUME TypeOK, NEW r \in Requests,
         ConsoleStart(r) \/ ManualStart(r) \/ LiveStart(r) \/ ResetStart(r)
  PROVE  TypeOK'
  <1> USE DEF TypeOK, rowVars, schedVars, playVars
  <1>0. r \in Actors /\ Console \in Sources /\ Manual \in Sources /\ Live \in Sources
    BY ActorKinds DEF Sources
  <1>1. CASE ConsoleStart(r)
    <2>1. request' \in [Requests -> Request]
      BY <1>0, <1>1, RequestPlaces DEF ConsoleStart
    <2>2. copies' \in [Actors -> SUBSET Copy]
      BY <1>1, StaleListType DEF ConsoleStart
    <2> QED BY <1>1, <2>1, <2>2 DEF ConsoleStart
  <1>2. CASE ManualStart(r)
    <2>1. PICK s \in Speakers : Goto(r, "stale", Manual, {s})
      BY <1>2 DEF ManualStart
    <2>2. request' \in [Requests -> Request]
      BY <1>0, <2>1, {s} \in SUBSET Speakers, RequestPlaces
    <2>3. copies' \in [Actors -> SUBSET Copy]
      BY <1>2, StaleListType DEF ManualStart
    <2> QED BY <1>2, <2>2, <2>3 DEF ManualStart
  <1>3. CASE LiveStart(r)
    <2>1. request' \in [Requests -> Request]
      BY <1>0, <1>3, RequestPlaces DEF LiveStart
    <2>2. copies' \in [Actors -> SUBSET Copy]
      <3>1. {[log |-> l, step |-> "stopped"] :
               l \in {m \in Logs : Active(m) /\ row[m].source = Live}} \in SUBSET Copy
        BY DEF Copy
      <3> QED BY <1>0, <1>3, <3>1 DEF LiveStart
    <2> QED BY <1>3, <2>1, <2>2 DEF LiveStart
  <1>4. CASE ResetStart(r)
    <2>1. request' \in [Requests -> Request]
      BY <1>0, <1>4, {} \in SUBSET Speakers, RequestPlaces DEF ResetStart
    <2>2. copies' \in [Actors -> SUBSET Copy]
      BY <1>0, <1>4, CopiesUpdateType DEF ResetStart
    <2> QED BY <1>4, <2>1, <2>2 DEF ResetStart
  <1> QED BY <1>1, <1>2, <1>3, <1>4

LEMMA CreateType ==
  ASSUME TypeOK, NEW r \in Requests, CreateRows(r)
  PROVE  TypeOK'
  <1> USE DEF TypeOK, schedVars
  <1>1. request' \in [Requests -> Request]
    BY RequestPlaces DEF CreateRows
  <1>2. request[r].speakers \in SUBSET Speakers /\ request[r].source \in Sources
        /\ Live \in Sources
    BY RequestPlaces DEF Sources
  <1>3. PICK ids \in FreshIds(request[r].speakers) :
          IF request[r].source = Live
          THEN /\ row' = WithInserted(row, ids, "playing", Live, None)
               /\ \E stage \in {"dialing", "none"} :
                    worker' = [l \in Logs |-> IF l \in Range(ids) THEN stage ELSE worker[l]]
          ELSE /\ row' = WithInserted(row, ids, "pending", request[r].source, None)
               /\ UNCHANGED worker
    BY DEF CreateRows
  <1>4. row' \in [Logs -> Row]
    BY <1>2, <1>3, InsertType
  <1>5. worker' \in [Logs -> WorkerStages]
    BY <1>3 DEF WorkerStages
  <1> QED BY <1>1, <1>4, <1>5 DEF CreateRows

LEMMA RequestType ==
  ASSUME TypeOK, NEW r \in Requests, RequestStep(r) \/ RequestError(r)
  PROVE  TypeOK'
  <1> USE DEF TypeOK, rowVars, schedVars, playVars
  <1>0. r \in Actors
    BY ActorKinds
  <1>1. CASE SweepStep(r)
    BY <1>0, <1>1, SweepType
  <1>2. CASE RequestInterrupt(r)
    <2> DEFINE ids == {l \in ActiveLogsOf(request[r].speakers) :
                         Outranked(l, request[r].source)}
    <2>1. copies' = [copies EXCEPT ![r] = CopiesOf(ids)]
      BY <1>2 DEF RequestInterrupt
    <2>2. ids \in SUBSET Logs /\ \A l \in ids : Active(l)
      BY DEF ActiveLogsOf
    <2>3. copies' \in [Actors -> SUBSET Copy]
      BY <1>0, <2>1, <2>2, CopiesUpdateType
    <2>4. request' \in [Requests -> Request]
      BY <1>2, RequestPlaces DEF RequestInterrupt
    <2> QED BY <1>2, <2>3, <2>4 DEF RequestInterrupt
  <1>3. CASE RequestCheck(r) \/ CreateFails(r) \/ ResetDone(r)
    <2>1. request' \in [Requests -> Request]
      BY <1>3, RequestPlaces DEF RequestCheck, CreateFails, ResetDone
    <2> QED BY <1>3, <2>1 DEF RequestCheck, CreateFails, ResetDone
  <1>4. CASE CreateRows(r)
    BY <1>4, CreateType
  <1>5. CASE LiveCleared(r)
    <2>1. request' \in [Requests -> Request]
      BY <1>5, RequestPlaces DEF LiveCleared
    <2>2. copies' \in [Actors -> SUBSET Copy]
      BY <1>5, StaleListType DEF LiveCleared
    <2> QED BY <1>5, <2>1, <2>2 DEF LiveCleared
  <1>6. CASE RequestError(r)
    <2>1. request' \in [Requests -> Request]
      BY <1>6, RequestPlaces DEF RequestError
    <2> QED BY <1>6, <2>1 DEF RequestError
  <1> QED BY <1>1, <1>2, <1>3, <1>4, <1>5, <1>6 DEF RequestStep

LEMMA LiveType ==
  ASSUME TypeOK, NEW l \in Logs, LiveStep(l)
  PROVE  TypeOK'
  <1> USE DEF TypeOK, rowVars, schedVars, actorVars, WorkerStages
  <1>0. "failed" \in Statuses /\ "success" \in Statuses
    BY DEF Statuses, FinalStatuses
  <1>1. CASE LiveAnswered(l)
    BY <1>1 DEF LiveAnswered
  <1>2. CASE LiveRefused(l) \/ LiveEnds(l)
    <2>1. row' \in [Logs -> Row]
      BY <1>0, <1>2, WithStatusFacts DEF LiveRefused, LiveEnds
    <2> QED BY <1>2, <2>1 DEF LiveRefused, LiveEnds
  <1> QED BY <1>1, <1>2 DEF LiveStep

LEMMA EventType ==
  ASSUME TypeOK, EventImported \/ CloseAlarms
  PROVE  TypeOK'
  <1> USE DEF TypeOK, schedVars, playVars, actorVars
  <1>0. /\ "failed" \in Statuses /\ "skipped" \in Statuses /\ Automatic \in Sources
    BY DEF Statuses, FinalStatuses, Sources
  <1>1. CASE EventImported
    <2>1. PICK S \in SUBSET Speakers : AutomaticCreate(S)
      BY <1>1 DEF EventImported
    <2>2. PICK stale \in MaybeStale(Automatic) :
            LET cleared == {l \in stale : row[l].speaker \in S}
                table   == WithStatus(row, cleared, "failed")
                free    == {s \in S : \A l \in Logs :
                              table[l].status \in ActiveStatuses
                                => table[l].speaker # s}
            IN /\ \E ids \in FreshIds(free) :
                    row' = WithInserted(table, ids, "pending", Automatic, None)
               /\ StopProcesses({l \in cleared : row[l].status = "playing"})
               /\ UNCHANGED <<schedVars, worker, seen, heard, slot, actorVars, device>>
      BY <2>1 DEF AutomaticCreate
    <2> DEFINE cleared == {l \in stale : row[l].speaker \in S}
               table   == WithStatus(row, cleared, "failed")
               free    == {s \in S : \A l \in Logs : table[l].status \in ActiveStatuses
                                                       => table[l].speaker # s}
    <2>3. table \in [Logs -> Row]
      BY <1>0, WithStatusFacts
    <2>4. PICK ids \in FreshIds(free) :
            row' = WithInserted(table, ids, "pending", Automatic, None)
      BY <2>2
    <2>5. free \in SUBSET Speakers
      OBVIOUS
    <2> HIDE DEF table, free, cleared
    <2>6. row' \in [Logs -> Row]
      BY <1>0, <2>3, <2>4, <2>5, InsertType
    <2> QED BY <2>2, <2>6 DEF StopProcesses
  <1>2. CASE CloseAlarms
    <2>1. row' \in [Logs -> Row]
      BY <1>0, <1>2, WithStatusFacts DEF CloseAlarms
    <2> QED BY <1>2, <2>1 DEF CloseAlarms
  <1> QED BY <1>1, <1>2

LEMMA SchedulerType ==
  ASSUME TypeOK, SchedulerWake \/ SchedulerStep \/ PassError
  PROVE  TypeOK'
  <1> USE DEF TypeOK, rowVars, schedVars, playVars
  <1>0. Scheduler \in Actors
    BY ActorKinds
  <1>a. ASSUME NEW pc \in {"idle", "stale", "running"},
               NEW due \in SUBSET Schedules, NEW waiting \in SUBSET Logs,
               PassTo(pc, due, waiting)
        PROVE  pass' \in Pass
    BY <1>a DEF PassTo, Pass
  <1>b. pass.due \in SUBSET Schedules /\ NoPass \in Pass
    BY DEF Pass, NoPass
  <1>1. CASE SchedulerWake
    <2>1. pass' \in Pass
      BY <1>1, <1>a DEF SchedulerWake
    <2>2. copies' \in [Actors -> SUBSET Copy]
      <3>1. PICK stale \in MaybeStale(Scheduled) :
              copies' = [copies EXCEPT ![Scheduler] = CopiesOf(stale)]
        BY <1>1 DEF SchedulerWake
      <3>2. stale \in SUBSET Logs /\ \A l \in stale : Active(l)
        BY DEF MaybeStale
      <3> QED BY <1>0, <3>1, <3>2, CopiesUpdateType
    <2> QED BY <1>1, <2>1, <2>2 DEF SchedulerWake
  <1>2. CASE SweepStep(Scheduler)
    BY <1>0, <1>2, SweepType
  <1>3. CASE SchedulerList
    <2>1. pass' \in Pass
      BY <1>3, <1>a DEF SchedulerList
    <2> QED BY <1>3, <2>1 DEF SchedulerList
  <1>4. CASE PassEnds
    BY <1>4, <1>b DEF PassEnds
  <1>5. ASSUME NEW k \in Schedules, RunSchedule(k)
        PROVE  TypeOK'
    <2> DEFINE targets == {s \in ScheduleSpeakers[k] : device[s] # "inactive"}
               free    == {s \in targets : ~Busy(s)}
    <2>1. free \in SUBSET Speakers
      BY ConstantsAssumption
    <2>2. PICK ids \in FreshIds(free) :
            /\ row' = WithInserted(row, ids, "pending", Scheduled, k)
            /\ sched' = IF targets = {} \/ free # {} THEN AdvanceSchedule(k)
                        ELSE [sched EXCEPT ![k].next = "later"]
            /\ PassTo("running", pass.due \ {k}, {ids[s] : s \in free})
      BY <1>5 DEF RunSchedule
    <2>3. row' \in [Logs -> Row]
      <3>1. Scheduled \in Sources /\ k \in Schedules
        BY DEF Sources
      <3> HIDE DEF free
      <3> QED BY <2>1, <2>2, <3>1, InsertType
    <2>4. pass' \in Pass
      <3>1. ids \in [free -> Logs]
        BY <2>2 DEF FreshIds
      <3>2. {ids[s] : s \in free} \in SUBSET Logs
        BY <3>1
      <3>3. pass.due \ {k} \in SUBSET Schedules
        BY <1>b
      <3> HIDE DEF free
      <3> QED BY <2>2, <3>2, <3>3, <1>a
    <2>5. sched' \in [Schedules -> Schedule]
      <3>1. AdvanceSchedule(k) \in [Schedules -> Schedule]
        BY DEF AdvanceSchedule, Schedule
      <3>2. [sched EXCEPT ![k].next = "later"] \in [Schedules -> Schedule]
        BY DEF Schedule
      <3> QED BY <2>2, <3>1, <3>2
    <2> QED BY <1>5, <2>3, <2>4, <2>5 DEF RunSchedule
  <1>6. ASSUME NEW k \in Schedules, SkipSchedule(k)
        PROVE  TypeOK'
    <2>1. pass' \in Pass
      <3>1. pass.due \ {k} \in SUBSET Schedules
        BY <1>b
      <3> QED BY <1>6, <3>1, <1>a, <1>b DEF SkipSchedule
    <2> QED BY <1>6, <2>1 DEF SkipSchedule
  <1>7. CASE PassError
    BY <1>7, <1>b DEF PassError
  <1> QED BY <1>1, <1>2, <1>3, <1>4, <1>5, <1>6, <1>7 DEF SchedulerStep

LEMMA SurroundingsType ==
  ASSUME TypeOK,
         \/ \E k \in Schedules : FallsDue(k) \/ ToggleSchedule(k) \/ DeleteSchedule(k)
         \/ \E s \in Speakers : DeviceProbed(s) \/ DeviceSwitched(s)
         \/ \E l \in Logs : OrphanExits(l) \/ Forget(l)
         \/ Crash
  PROVE  TypeOK'
  <1> USE DEF TypeOK, rowVars, schedVars, playVars, actorVars
  <1>1. ASSUME NEW k \in Schedules, FallsDue(k) \/ ToggleSchedule(k) \/ DeleteSchedule(k)
        PROVE  TypeOK'
    <2>1. sched' \in [Schedules -> Schedule]
      <3>1. CASE FallsDue(k)
        <4>1. (k \in OnceSchedules) \in BOOLEAN
          OBVIOUS
        <4>2. PICK p \in BOOLEAN : p = (k \in OnceSchedules)
          BY <4>1, Zenon
        <4>3. sched' = [sched EXCEPT ![k].next = IF sched[k].next = "later" THEN "due"
                                                 ELSE sched[k].next,
                                     ![k].past = p]
          BY <3>1, <4>2 DEF FallsDue
        <4> QED BY <4>3 DEF Schedule
      <3>2. CASE ToggleSchedule(k)
        <4>1. PICK b \in BOOLEAN : b = ~ sched[k].active
          OBVIOUS
        <4>2. sched' = [sched EXCEPT ![k].active = b,
                                     ![k].next = IF sched[k].active \/ sched[k].past
                                                 THEN "none" ELSE "later"]
          BY <3>2, <4>1 DEF ToggleSchedule
        <4> QED BY <4>2 DEF Schedule
      <3>3. CASE DeleteSchedule(k)
        BY <3>3 DEF DeleteSchedule, Schedule
      <3> QED BY <1>1, <3>1, <3>2, <3>3
    <2>2. owed' \subseteq Schedules
      <3>1. CASE FallsDue(k)
        BY <3>1 DEF FallsDue
      <3>2. CASE ToggleSchedule(k)
        BY <3>2 DEF ToggleSchedule
      <3>3. CASE DeleteSchedule(k)
        BY <3>3 DEF DeleteSchedule
      <3> QED BY <1>1, <3>1, <3>2, <3>3
    <2>3. UNCHANGED <<row, playVars, actorVars, device>>
      BY <1>1 DEF FallsDue, ToggleSchedule, DeleteSchedule
    <2> QED BY <2>1, <2>2, <2>3
  <1>2. ASSUME NEW s \in Speakers, DeviceProbed(s) \/ DeviceSwitched(s)
        PROVE  TypeOK'
    BY <1>2 DEF DeviceProbed, DeviceSwitched
  <1>3. ASSUME NEW l \in Logs, OrphanExits(l)
        PROVE  TypeOK'
    BY <1>3 DEF OrphanExits
  <1>4. ASSUME NEW l \in Logs, Forget(l)
        PROVE  TypeOK'
    <2>1. NoRow \in Row
      BY DEF NoRow, Row
    <2> QED BY <1>4, <2>1 DEF Forget
  <1>5. CASE Crash
    <2>1. NoRequest \in Request /\ NoPass \in Pass
      BY DEF NoRequest, Request, Sources, NoPass, Pass
    <2>2. pjsua' \subseteq Logs /\ slot' \in [Logs -> Nat]
      BY <1>5 DEF Crash
    <2> QED BY <1>5, <2>1, <2>2 DEF Crash, WorkerStages
  <1> QED BY <1>1, <1>2, <1>3, <1>4, <1>5

LEMMA InitType == Init => TypeOK
  <1>1. /\ NoRow \in Row /\ NoRequest \in Request /\ NoPass \in Pass
        /\ [active |-> TRUE, next |-> "later", past |-> FALSE] \in Schedule
    BY DEF NoRow, Row, NoRequest, Request, Sources, NoPass, Pass, Schedule
  <1> QED BY <1>1 DEF Init, TypeOK, WorkerStages

LEMMA NextType == TypeOK /\ [Next]_vars => TypeOK'
  <1> SUFFICES ASSUME TypeOK, [Next]_vars
               PROVE  TypeOK'
    OBVIOUS
  <1>1. ASSUME NEW l \in Logs,
               WorkerStep(l) \/ WorkerError(l) \/ LiveStep(l) \/ SweepStep(l)
                 \/ OrphanExits(l) \/ Forget(l)
        PROVE  TypeOK'
    <2>1. CASE SweepStep(l)
      BY <2>1, ActorKinds, SweepType
    <2>2. CASE WorkerStep(l) \/ WorkerError(l)
      BY <2>2, WorkerType
    <2>3. CASE OrphanExits(l) \/ Forget(l)
      BY <2>3, SurroundingsType
    <2> QED BY <1>1, <2>1, <2>2, <2>3, LiveType
  <1>2. ASSUME NEW r \in Requests,
               \/ RequestStep(r) \/ RequestError(r)
               \/ ConsoleStart(r) \/ ManualStart(r) \/ LiveStart(r) \/ ResetStart(r)
        PROVE  TypeOK'
    BY <1>2, RequestType, StartType
  <1>3. CASE EventImported \/ CloseAlarms
    BY <1>3, EventType
  <1>4. CASE SchedulerWake \/ SchedulerStep \/ PassError
    BY <1>4, SchedulerType
  <1>5. CASE \E k \in Schedules : FallsDue(k) \/ ToggleSchedule(k) \/ DeleteSchedule(k)
    BY <1>5, SurroundingsType
  <1>6. CASE \E s \in Speakers : DeviceProbed(s) \/ DeviceSwitched(s)
    BY <1>6, SurroundingsType
  <1>7. CASE Crash
    BY <1>7, SurroundingsType
  <1>8. CASE UNCHANGED vars
    BY <1>8 DEF vars, rowVars, schedVars, playVars, actorVars, TypeOK
  <1> QED BY <1>1, <1>2, <1>3, <1>4, <1>5, <1>6, <1>7, <1>8 DEF Next

(* Every variable keeps its type.                                          *)
THEOREM TypeCorrect == Spec => []TypeOK
  BY InitType, NextType, PTL DEF Spec
-----------------------------------------------------------------------------
(* What a step can do to the table: nothing; finish rows; record a success *)
(* that a worker has read or a microphone session has had; take a pending  *)
(* row for playback; insert rows for free speakers after failing some;     *)
(* forget a finished row.                                                  *)

(* Who may skip a row: a request that is interrupting it, or the closing   *)
(* of its event.                                                           *)
SkipIsDue(l) ==
  \/ \E r \in Requests : /\ request[r].pc = "interrupt"
                         /\ \E c \in copies[r] : c.log = l
  \/ row[l].status = "pending" /\ row[l].source \in EventOwned

Finishes(ids, st) ==
  /\ ids \subseteq Logs
  /\ st \in {"failed", "skipped"}
  /\ st = "skipped" => \A l \in ids : SkipIsDue(l)
  /\ row' = WithStatus(row, ids, st)

Succeeds(l) ==
  worker[l] \in {"read_ok", "on_air"} /\ row' = WithStatus(row, {l}, "success")

Takes(l) ==
  row[l].status = "pending" /\ row' = WithStatus(row, {l}, "playing")

Inserts(cleared, ids, st, src, k) ==
  LET table == WithStatus(row, cleared, "failed") IN
    /\ cleared \subseteq {l \in Logs : Active(l)}
    /\ DOMAIN ids \subseteq Speakers
    /\ \A s \in DOMAIN ids : \A l \in Logs :
         table[l].status \in ActiveStatuses => table[l].speaker # s
    /\ ids \in FreshIds(DOMAIN ids)
    /\ st \in ActiveStatuses
    /\ src \in Sources
    /\ k \in Schedules \/ k = None
    /\ row' = WithInserted(table, ids, st, src, k)

InsertsRows == \E cleared, ids, st, src, k : Inserts(cleared, ids, st, src, k)

Forgets(l) ==
  /\ Final(l) /\ worker[l] = "none" /\ l \notin pjsua
  /\ \A a \in Actors : \A c \in copies[a] : c.log # l
  /\ row' = [row EXCEPT ![l] = NoRow]
  /\ UNCHANGED <<worker, pjsua, copies>>

RowChange ==
  \/ UNCHANGED row
  \/ \E ids, st : Finishes(ids, st)
  \/ \E l \in Logs : Succeeds(l) \/ Takes(l) \/ Forgets(l)
  \/ InsertsRows

(* Clearing nothing leaves the table as it is.                             *)
LEMMA ClearNothing ==
  ASSUME TypeOK
  PROVE  WithStatus(row, {}, "failed") = row
  <1>1. WithStatus(row, {}, "failed") = [l \in Logs |-> row[l]]
    BY DEF WithStatus
  <1> QED BY <1>1 DEF TypeOK

LEMMA PlainInsert ==
  ASSUME TypeOK, NEW S \in SUBSET Speakers, \A s \in S : ~Busy(s),
         NEW ids \in FreshIds(S), NEW st \in ActiveStatuses, NEW src \in Sources,
         NEW k, k \in Schedules \/ k = None,
         row' = WithInserted(row, ids, st, src, k)
  PROVE  InsertsRows
  <1>1. \A s \in S : \A l \in Logs : row[l].status \in ActiveStatuses => row[l].speaker # s
    BY DEF Busy, Active
  <1>2. DOMAIN ids = S
    BY DEF FreshIds
  <1>3. Inserts({}, ids, st, src, k)
    BY <1>1, <1>2, ClearNothing DEF Inserts
  <1> QED BY <1>3 DEF InsertsRows

LEMMA SweepRow ==
  ASSUME TypeOK, NEW a \in Actors, SweepStep(a)
  PROVE  RowChange
  <1>1. PICK c \in copies[a] :
          SweepStop(a, c) \/ SweepSave(a, c) \/ SweepReschedule(a, c)
    BY DEF SweepStep
  <1>2. c.log \in Logs
    BY CopyType
  <1>3. CASE SweepSave(a, c)
    <2>1. Finishes({c.log}, SweepStatus(a))
      BY <1>2, <1>3 DEF SweepSave, SweepStatus, Finishes, SkipIsDue
    <2> QED BY <2>1 DEF RowChange
  <1>4. CASE SweepStop(a, c) \/ SweepReschedule(a, c)
    BY <1>4 DEF SweepStop, SweepReschedule, RowChange, rowVars
  <1> QED BY <1>1, <1>3, <1>4

LEMMA WorkerRow ==
  ASSUME TypeOK, NEW l \in Logs, WorkerStep(l) \/ WorkerError(l)
  PROVE  RowChange
  <1> USE DEF RowChange
  <1>1. CASE Prepare(l)
    <2>1. Takes(l) \/ Finishes({l}, "failed")
      BY <1>1 DEF Prepare, Queued, Takes, Finishes
    <2> QED BY <2>1
  <1>2. CASE Mark(l)
    <2>1. Succeeds(l) \/ Finishes({l}, "failed")
      BY <1>2 DEF Mark, Outcome, Succeeds, Finishes
    <2> QED BY <2>1
  <1>3. CASE WorkerError(l)
    <2>1. UNCHANGED row \/ Finishes({l}, "failed")
      BY <1>3 DEF WorkerError, Finishes
    <2> QED BY <2>1
  <1>4. CASE CheckSpeaker(l) \/ CountSlot(l) \/ TestPorts(l) \/ StartProcess(l)
             \/ RefusePlayback(l) \/ EndPlayback(l) \/ PlaybackKilled(l)
             \/ Refresh(l) \/ Recover(l) \/ Recovered(l)
    BY <1>4 DEF CheckSpeaker, CountSlot, TestPorts, StartProcess, RefusePlayback,
                EndPlayback, PlaybackKilled, Refresh, Recover, Recovered, rowVars
  <1> QED BY <1>1, <1>2, <1>3, <1>4 DEF WorkerStep

LEMMA RequestRow ==
  ASSUME TypeOK, NEW r \in Requests,
         \/ RequestStep(r) \/ RequestError(r)
         \/ ConsoleStart(r) \/ ManualStart(r) \/ LiveStart(r) \/ ResetStart(r)
  PROVE  RowChange
  <1>1. CASE SweepStep(r)
    BY <1>1, SweepRow, ActorKinds
  <1>2. CASE CreateRows(r)
    <2>1. PICK ids \in FreshIds(request[r].speakers), st \in {"pending", "playing"} :
            row' = WithInserted(row, ids, st, request[r].source, None)
      BY <1>2 DEF CreateRows
    <2>2. request[r].speakers \in SUBSET Speakers /\ request[r].source \in Sources
      BY RequestPlaces
    <2>3. \A s \in request[r].speakers : ~Busy(s)
      BY <1>2 DEF CreateRows
    <2>4. InsertsRows
      BY <2>1, <2>2, <2>3, PlainInsert DEF ActiveStatuses
    <2> QED BY <2>4 DEF RowChange
  <1>3. CASE \/ RequestInterrupt(r) \/ RequestCheck(r) \/ CreateFails(r) \/ ResetDone(r)
             \/ LiveCleared(r) \/ RequestError(r)
             \/ ConsoleStart(r) \/ ManualStart(r) \/ LiveStart(r) \/ ResetStart(r)
    BY <1>3 DEF RequestInterrupt, RequestCheck, CreateFails, ResetDone, LiveCleared,
                RequestError, ConsoleStart, ManualStart, LiveStart, ResetStart,
                RowChange, rowVars
  <1> QED BY <1>1, <1>2, <1>3 DEF RequestStep

LEMMA LiveRow ==
  ASSUME TypeOK, NEW l \in Logs, LiveStep(l)
  PROVE  RowChange
  <1>1. CASE LiveAnswered(l)
    BY <1>1 DEF LiveAnswered, RowChange, rowVars
  <1>2. CASE LiveRefused(l) \/ LiveEnds(l)
    <2>1. Succeeds(l) \/ Finishes({l}, "failed")
      BY <1>2 DEF LiveRefused, LiveEnds, Succeeds, Finishes
    <2> QED BY <2>1 DEF RowChange
  <1> QED BY <1>1, <1>2 DEF LiveStep

LEMMA EventRow ==
  ASSUME TypeOK, EventImported \/ CloseAlarms
  PROVE  RowChange
  <1>1. CASE CloseAlarms
    <2>1. PICK closed \in SUBSET {l \in Logs : row[l].status = "pending"
                                              /\ row[l].source \in EventOwned} :
            row' = WithStatus(row, closed, "skipped")
      BY <1>1 DEF CloseAlarms
    <2>2. Finishes(closed, "skipped")
      BY <2>1 DEF Finishes, SkipIsDue
    <2> QED BY <2>2 DEF RowChange
  <1>2. CASE EventImported
    <2>1. PICK S \in SUBSET Speakers : AutomaticCreate(S)
      BY <1>2 DEF EventImported
    <2>2. PICK stale \in MaybeStale(Automatic) :
            LET cleared == {l \in stale : row[l].speaker \in S}
                table   == WithStatus(row, cleared, "failed")
                free    == {s \in S : \A l \in Logs :
                              table[l].status \in ActiveStatuses
                                => table[l].speaker # s}
            IN \E ids \in FreshIds(free) :
                 row' = WithInserted(table, ids, "pending", Automatic, None)
      BY <2>1 DEF AutomaticCreate
    <2> DEFINE cleared == {l \in stale : row[l].speaker \in S}
               table   == WithStatus(row, cleared, "failed")
               free    == {s \in S : \A l \in Logs : table[l].status \in ActiveStatuses
                                                       => table[l].speaker # s}
    <2>3. PICK ids \in FreshIds(free) :
            row' = WithInserted(table, ids, "pending", Automatic, None)
      BY <2>2
    <2>4. cleared \in SUBSET Logs /\ \A l \in cleared : Active(l)
      BY DEF MaybeStale
    <2>5. free \in SUBSET Speakers
      OBVIOUS
    <2>6. \A s \in free : \A l \in Logs :
            table[l].status \in ActiveStatuses => table[l].speaker # s
      OBVIOUS
    <2>7. Automatic \in Sources
      BY DEF Sources
    <2> HIDE DEF free, cleared
    <2>8. DOMAIN ids = free
      BY DEF FreshIds
    <2>9. Inserts(cleared, ids, "pending", Automatic, None)
      BY <2>3, <2>4, <2>5, <2>6, <2>7, <2>8 DEF Inserts, ActiveStatuses
    <2>10. InsertsRows
      BY <2>9 DEF InsertsRows
    <2> QED BY <2>10 DEF RowChange
  <1> QED BY <1>1, <1>2

LEMMA SchedulerRow ==
  ASSUME TypeOK, SchedulerWake \/ SchedulerStep \/ PassError
  PROVE  RowChange
  <1>1. CASE SweepStep(Scheduler)
    BY <1>1, SweepRow, ActorKinds
  <1>2. ASSUME NEW k \in Schedules, RunSchedule(k)
        PROVE  RowChange
    <2> DEFINE targets == {s \in ScheduleSpeakers[k] : device[s] # "inactive"}
               free    == {s \in targets : ~Busy(s)}
    <2>1. free \in SUBSET Speakers /\ \A s \in free : ~Busy(s)
      BY ConstantsAssumption
    <2>2. PICK ids \in FreshIds(free) :
            row' = WithInserted(row, ids, "pending", Scheduled, k)
      BY <1>2 DEF RunSchedule
    <2>3. Scheduled \in Sources /\ k \in Schedules
      BY DEF Sources
    <2> HIDE DEF free
    <2>4. InsertsRows
      BY <2>1, <2>2, <2>3, PlainInsert DEF ActiveStatuses
    <2> QED BY <2>4 DEF RowChange
  <1>3. CASE SchedulerWake \/ SchedulerList \/ PassEnds \/ PassError
             \/ \E k \in Schedules : SkipSchedule(k)
    BY <1>3 DEF SchedulerWake, SchedulerList, PassEnds, PassError, SkipSchedule,
                RowChange, rowVars
  <1> QED BY <1>1, <1>2, <1>3 DEF SchedulerStep

LEMMA RowChanges ==
  ASSUME TypeOK, [Next]_vars
  PROVE  RowChange
  <1>1. ASSUME NEW l \in Logs,
               WorkerStep(l) \/ WorkerError(l) \/ LiveStep(l) \/ SweepStep(l)
                 \/ OrphanExits(l) \/ Forget(l)
        PROVE  RowChange
    <2>1. CASE SweepStep(l)
      BY <2>1, ActorKinds, SweepRow
    <2>2. CASE WorkerStep(l) \/ WorkerError(l)
      BY <2>2, WorkerRow
    <2>3. CASE OrphanExits(l)
      BY <2>3 DEF OrphanExits, RowChange, rowVars
    <2>4. CASE Forget(l)
      <3>1. Forgets(l)
        BY <2>4 DEF Forget, Forgets, actorVars
      <3> QED BY <3>1 DEF RowChange
    <2> QED BY <1>1, <2>1, <2>2, <2>3, <2>4, LiveRow
  <1>2. ASSUME NEW r \in Requests,
               \/ RequestStep(r) \/ RequestError(r)
               \/ ConsoleStart(r) \/ ManualStart(r) \/ LiveStart(r) \/ ResetStart(r)
        PROVE  RowChange
    BY <1>2, RequestRow
  <1>3. CASE EventImported \/ CloseAlarms
    BY <1>3, EventRow
  <1>4. CASE SchedulerWake \/ SchedulerStep \/ PassError
    BY <1>4, SchedulerRow
  <1>5. CASE \E k \in Schedules : FallsDue(k) \/ ToggleSchedule(k) \/ DeleteSchedule(k)
    BY <1>5 DEF FallsDue, ToggleSchedule, DeleteSchedule, RowChange
  <1>6. CASE \/ \E s \in Speakers : DeviceProbed(s) \/ DeviceSwitched(s)
             \/ Crash \/ UNCHANGED vars
    BY <1>6 DEF DeviceProbed, DeviceSwitched, Crash, RowChange, vars, rowVars
  <1> QED BY <1>1, <1>2, <1>3, <1>4, <1>5, <1>6 DEF Next

-----------------------------------------------------------------------------
(* At most one active broadcast per speaker, and no resurrection.          *)

(* What inserting does to one row: it fails it, leaves it, or turns an     *)
(* unused identity into the only active row of its speaker.                *)
LEMMA InsertedRow ==
  ASSUME TypeOK, NEW cleared, NEW ids, NEW st, NEW src, NEW k,
         Inserts(cleared, ids, st, src, k)
  PROVE  /\ \A s \in DOMAIN ids : /\ ids[s] \in Logs /\ ~Exists(ids[s])
                                  /\ row'[ids[s]].status \in ActiveStatuses
                                  /\ row'[ids[s]].speaker = s
         /\ \A l \in Logs : (\A s \in DOMAIN ids : ids[s] # l) =>
              /\ row'[l].speaker = row[l].speaker
              /\ row'[l].source = row[l].source
              /\ row'[l].status = row[l].status \/ row'[l].status = "failed"
              /\ row'[l].status \in ActiveStatuses =>
                   Active(l) /\ row[l].speaker \notin DOMAIN ids
  <1> DEFINE table == WithStatus(row, cleared, "failed")
             new   == WithInserted(table, ids, st, src, k)
  <1>1. "failed" \in Statuses /\ st \in Statuses /\ "failed" \notin ActiveStatuses
    BY DEF Inserts, Statuses, ActiveStatuses, FinalStatuses
  <1>2. table \in [Logs -> Row]
    BY <1>1, WithStatusFacts DEF TypeOK
  <1>3. \A l \in Logs : /\ l \in cleared => table[l].status = "failed"
                        /\ l \notin cleared => table[l] = row[l]
                        /\ table[l].speaker = row[l].speaker
                        /\ table[l].source = row[l].source
    BY <1>1, WithStatusFacts DEF TypeOK
  <1>4. /\ DOMAIN ids \subseteq Speakers
        /\ \A s \in DOMAIN ids : \A l \in Logs :
             table[l].status \in ActiveStatuses => table[l].speaker # s
        /\ ids \in FreshIds(DOMAIN ids)
        /\ st \in ActiveStatuses /\ src \in Sources
        /\ k \in Schedules \/ k = None
        /\ row' = new
    BY DEF Inserts
  <1> HIDE DEF table
  <1>5. ids \in [DOMAIN ids -> Logs] /\ IsInjective(ids)
    BY <1>4 DEF FreshIds
  <1>6. \A s \in DOMAIN ids : ids[s] \in Logs /\ ~Exists(ids[s])
    BY <1>4 DEF FreshIds
  <1>7. /\ \A s \in DOMAIN ids : new[ids[s]].status = st /\ new[ids[s]].speaker = s
        /\ \A l \in Logs : (\A s \in DOMAIN ids : ids[s] # l) => new[l] = table[l]
    BY <1>1, <1>2, <1>4, <1>5, WithInsertedFacts
  <1> HIDE DEF new
  <1>8. ASSUME NEW l \in Logs, \A s \in DOMAIN ids : ids[s] # l
        PROVE  /\ row'[l].speaker = row[l].speaker
               /\ row'[l].source = row[l].source
               /\ row'[l].status = row[l].status \/ row'[l].status = "failed"
               /\ row'[l].status \in ActiveStatuses =>
                    Active(l) /\ row[l].speaker \notin DOMAIN ids
    <2>1. row'[l] = table[l]
      BY <1>4, <1>7, <1>8
    <2>2. CASE l \in cleared
      BY <1>1, <1>3, <2>1, <2>2
    <2>3. CASE l \notin cleared
      BY <1>3, <1>4, <2>1, <2>3 DEF Active
    <2> QED BY <2>2, <2>3
  <1> QED BY <1>4, <1>6, <1>7, <1>8

(* A step that activates no row and moves none keeps the invariant.        *)
LEMMA ShrinkKeepsOneActive ==
  ASSUME OneActivePerSpeaker,
         \A l \in Logs : Active(l)' => Active(l) /\ row'[l].speaker = row[l].speaker
  PROVE  OneActivePerSpeaker'
  BY DEF OneActivePerSpeaker, Active

LEMMA RowChangeKeepsOneActive ==
  ASSUME TypeOK, OneActivePerSpeaker, RowChange
  PROVE  OneActivePerSpeaker'
  <1>0. row \in [Logs -> Row]
    BY DEF TypeOK
  <1>1. CASE UNCHANGED row
    BY <1>1 DEF OneActivePerSpeaker, Active
  <1>2. ASSUME NEW ids, NEW st, Finishes(ids, st)
        PROVE  OneActivePerSpeaker'
    <2>1. /\ st \in Statuses /\ st \notin ActiveStatuses
          /\ row' = WithStatus(row, ids, st)
      BY <1>2 DEF Finishes, Statuses, FinalStatuses, ActiveStatuses
    <2>2. \A l \in Logs : Active(l)' => Active(l) /\ row'[l].speaker = row[l].speaker
      BY <1>0, <2>1, WithStatusFacts DEF Active
    <2> QED BY <2>2, ShrinkKeepsOneActive
  <1>3. ASSUME NEW l \in Logs, Succeeds(l) \/ Takes(l)
        PROVE  OneActivePerSpeaker'
    <2>1. CASE Succeeds(l)
      <3>1. /\ "success" \in Statuses /\ "success" \notin ActiveStatuses
            /\ row' = WithStatus(row, {l}, "success")
        BY <2>1 DEF Succeeds, Statuses, FinalStatuses, ActiveStatuses
      <3>2. \A m \in Logs : Active(m)' => Active(m) /\ row'[m].speaker = row[m].speaker
        BY <1>0, <3>1, WithStatusFacts DEF Active
      <3> QED BY <3>2, ShrinkKeepsOneActive
    <2>2. CASE Takes(l)
      <3>1. /\ "playing" \in Statuses /\ Active(l)
            /\ row' = WithStatus(row, {l}, "playing")
        BY <2>2 DEF Takes, Active, Statuses, ActiveStatuses
      <3>2. \A m \in Logs : Active(m)' => Active(m) /\ row'[m].speaker = row[m].speaker
        BY <1>0, <3>1, WithStatusFacts DEF Active
      <3> QED BY <3>2, ShrinkKeepsOneActive
    <2> QED BY <1>3, <2>1, <2>2
  <1>4. ASSUME NEW l \in Logs, Forgets(l)
        PROVE  OneActivePerSpeaker'
    <2>1. \A m \in Logs : m # l => row'[m] = row[m]
      BY <1>0, <1>4 DEF Forgets
    <2>2. ~Active(l)'
      BY <1>0, <1>4 DEF Forgets, Active, NoRow, ActiveStatuses
    <2>3. \A m \in Logs : Active(m)' => Active(m) /\ row'[m].speaker = row[m].speaker
      BY <2>1, <2>2 DEF Active
    <2> QED BY <2>3, ShrinkKeepsOneActive
  <1>5. CASE InsertsRows
    <2>1. PICK cleared, ids, st, src, k : Inserts(cleared, ids, st, src, k)
      BY <1>5 DEF InsertsRows
    <2>2. /\ \A s \in DOMAIN ids : row'[ids[s]].speaker = s
          /\ \A l \in Logs : (\A s \in DOMAIN ids : ids[s] # l) =>
               /\ row'[l].speaker = row[l].speaker
               /\ row'[l].status \in ActiveStatuses =>
                    Active(l) /\ row[l].speaker \notin DOMAIN ids
      BY <2>1, InsertedRow
    <2>3. ASSUME NEW l \in Logs, NEW m \in Logs, Active(l)', Active(m)',
                 row'[l].speaker = row'[m].speaker
          PROVE  l = m
      <3>0. row'[l].status \in ActiveStatuses /\ row'[m].status \in ActiveStatuses
        BY <2>3 DEF Active
      <3>1. ASSUME NEW s \in DOMAIN ids, ids[s] = l
            PROVE  l = m
        <4>1. row'[m].speaker = s
          BY <2>2, <2>3, <3>1
        <4>2. \E t \in DOMAIN ids : ids[t] = m
          BY <2>2, <3>0, <4>1
        <4> QED BY <2>2, <3>1, <4>1, <4>2
      <3>2. ASSUME NEW s \in DOMAIN ids, ids[s] = m
            PROVE  l = m
        <4>1. row'[l].speaker = s
          BY <2>2, <2>3, <3>2
        <4>2. \E t \in DOMAIN ids : ids[t] = l
          BY <2>2, <3>0, <4>1
        <4> QED BY <2>2, <3>2, <4>1, <4>2
      <3>3. CASE \A s \in DOMAIN ids : ids[s] # l /\ ids[s] # m
        BY <2>2, <2>3, <3>0, <3>3 DEF OneActivePerSpeaker
      <3> QED BY <3>1, <3>2, <3>3
    <2> QED BY <2>3 DEF OneActivePerSpeaker
  <1> QED BY <1>1, <1>2, <1>3, <1>4, <1>5 DEF RowChange

(* At most one broadcast is queued or playing per speaker, for every       *)
(* number of speakers, requests and rows.                                  *)
THEOREM OneActiveAlways == Spec => []OneActivePerSpeaker
  <1>1. Init => OneActivePerSpeaker
    BY DEF Init, OneActivePerSpeaker, Active, NoRow, ActiveStatuses
  <1>2. TypeOK /\ OneActivePerSpeaker /\ [Next]_vars => OneActivePerSpeaker'
    BY RowChanges, RowChangeKeepsOneActive
  <1> QED BY <1>1, <1>2, TypeCorrect, PTL DEF Spec

LEMMA FinalStaysFinal ==
  ASSUME TypeOK, RowChange, NEW l \in Logs, Final(l)
  PROVE  ~Active(l)'
  <1>0. row \in [Logs -> Row]
    BY DEF TypeOK
  <1>a. ~Active(l) /\ Exists(l) /\ row[l].status # "pending"
    BY DEF Final, Active, Exists, FinalStatuses, ActiveStatuses
  <1>1. CASE UNCHANGED row
    BY <1>1, <1>a DEF Active
  <1>2. ASSUME NEW ids, NEW st, Finishes(ids, st)
        PROVE  ~Active(l)'
    <2>1. /\ st \in Statuses /\ st \notin ActiveStatuses
          /\ row' = WithStatus(row, ids, st)
      BY <1>2 DEF Finishes, Statuses, FinalStatuses, ActiveStatuses
    <2> QED BY <1>0, <1>a, <2>1, WithStatusFacts DEF Active
  <1>3. ASSUME NEW m \in Logs, Succeeds(m)
        PROVE  ~Active(l)'
    <2>1. /\ "success" \in Statuses /\ "success" \notin ActiveStatuses
          /\ row' = WithStatus(row, {m}, "success")
      BY <1>3 DEF Succeeds, Statuses, FinalStatuses, ActiveStatuses
    <2> QED BY <1>0, <1>a, <2>1, WithStatusFacts DEF Active
  <1>4. ASSUME NEW m \in Logs, Takes(m)
        PROVE  ~Active(l)'
    <2>1. "playing" \in Statuses /\ row' = WithStatus(row, {m}, "playing") /\ l # m
      BY <1>4, <1>a DEF Takes, Statuses, ActiveStatuses
    <2> QED BY <1>0, <1>a, <2>1, WithStatusFacts DEF Active
  <1>5. ASSUME NEW m \in Logs, Forgets(m)
        PROVE  ~Active(l)'
    BY <1>0, <1>5, <1>a DEF Forgets, Active, NoRow, ActiveStatuses
  <1>6. CASE InsertsRows
    <2>1. PICK cleared, ids, st, src, k : Inserts(cleared, ids, st, src, k)
      BY <1>6 DEF InsertsRows
    <2>2. /\ \A s \in DOMAIN ids : ~Exists(ids[s])
          /\ (\A s \in DOMAIN ids : ids[s] # l) =>
               (row'[l].status \in ActiveStatuses => Active(l))
      BY <2>1, InsertedRow
    <2> QED BY <1>a, <2>2 DEF Active
  <1> QED BY <1>1, <1>2, <1>3, <1>4, <1>5, <1>6 DEF RowChange

(* A finished broadcast is never queued or played again: no thread's stale *)
(* copy can bring it back.                                                 *)
THEOREM NeverResurrected == Spec => NoResurrection
  <1>1. TypeOK /\ [Next]_vars => [\A l \in Logs : Final(l) => ~Active(l)']_vars
    BY RowChanges, FinalStaysFinal
  <1> QED BY <1>1, TypeCorrect, PTL DEF Spec, NoResurrection

-----------------------------------------------------------------------------
(* What a step can do to the playbacks.                                    *)

Starts(l) ==
  /\ worker[l] = "tested" /\ PortFree(slot[l])
  /\ pjsua' = pjsua \union {l} /\ UNCHANGED slot

(* The broadcasts whose slot matters: counted for, or in use.              *)
Holds(l) == l \in pjsua \/ worker[l] \in {"counted", "tested"}

(* A process starts on ports that are free, or none does; a slot is its    *)
(* speaker's when it is counted and stays as it is; a thread has a row; it *)
(* learns of a success only from the playback or the connected call; only  *)
(* forgetting a row forgets what was heard.                                *)
PlayStep ==
  /\ (\E l \in Logs : Starts(l)) \/ pjsua' \subseteq pjsua
  /\ \A l \in Logs : Holds(l)' =>
       \/ worker[l] # "none" /\ slot'[l] = PortSlot(row[l].speaker)
       \/ Holds(l) /\ slot'[l] = slot[l]
  /\ \A l \in Logs : worker'[l] # "none" => worker[l] # "none" \/ row'[l].status # "none"
  /\ \A l \in Logs : worker'[l] \in {"done_ok", "read_ok", "on_air"} =>
       worker[l] \in {"done_ok", "read_ok", "on_air"} \/ l \in heard'
  /\ \A l \in heard : l \in heard' \/ Forgets(l)
  /\ \/ "deactivate" \in Environment
     \/ \A s \in Speakers : device'[s] = "inactive" <=> device[s] = "inactive"

LEMMA QuietStep ==
  ASSUME TypeOK, UNCHANGED <<worker, heard, slot, device>>, pjsua' \subseteq pjsua
  PROVE  PlayStep
  BY DEF PlayStep, Holds, TypeOK

LEMMA WorkerPlay ==
  ASSUME TypeOK, NEW l \in Logs, WorkerStep(l) \/ WorkerError(l)
  PROVE  PlayStep
  <1> USE DEF TypeOK, PlayStep, Holds, actorVars
  <1>1. CASE Prepare(l)
    <2>1. worker'[l] # "none" => row'[l].status = "playing"
      BY <1>1 DEF Prepare, WithStatus, Row
    <2> QED BY <1>1, <2>1 DEF Prepare
  <1>2. CASE StartProcess(l)
    <2>1. Starts(l)
      BY <1>2 DEF StartProcess, Starts
    <2> QED BY <1>2, <2>1 DEF StartProcess
  <1>11. CASE CheckSpeaker(l) \/ TestPorts(l)
    BY <1>11 DEF CheckSpeaker, TestPorts
  <1>12. CASE CountSlot(l)
    BY <1>12 DEF CountSlot
  <1>3. CASE RefusePlayback(l)
    BY <1>3 DEF RefusePlayback
  <1>4. CASE EndPlayback(l)
    BY <1>4 DEF EndPlayback
  <1>5. CASE PlaybackKilled(l)
    BY <1>5 DEF PlaybackKilled
  <1>6. CASE Refresh(l)
    BY <1>6 DEF Refresh
  <1>7. CASE Mark(l)
    BY <1>7 DEF Mark
  <1>8. CASE Recover(l)
    BY <1>8 DEF Recover
  <1>9. CASE Recovered(l)
    BY <1>9 DEF Recovered
  <1>10. CASE WorkerError(l)
    BY <1>10 DEF WorkerError
  <1> QED
    BY <1>1, <1>2, <1>3, <1>4, <1>5, <1>6, <1>7, <1>8, <1>9, <1>10, <1>11, <1>12
    DEF WorkerStep

LEMMA LivePlay ==
  ASSUME TypeOK, NEW l \in Logs, LiveStep(l)
  PROVE  PlayStep
  BY DEF LiveStep, LiveAnswered, LiveRefused, LiveEnds, PlayStep, Holds, TypeOK

LEMMA CreatePlay ==
  ASSUME TypeOK, NEW r \in Requests, CreateRows(r)
  PROVE  PlayStep
  <1>1. PICK ids \in FreshIds(request[r].speakers) :
          IF request[r].source = Live
          THEN /\ row' = WithInserted(row, ids, "playing", Live, None)
               /\ \E stage \in {"dialing", "none"} :
                    worker' = [l \in Logs |-> IF l \in Range(ids) THEN stage ELSE worker[l]]
          ELSE /\ row' = WithInserted(row, ids, "pending", request[r].source, None)
               /\ UNCHANGED worker
    BY DEF CreateRows
  <1>2. UNCHANGED <<heard, pjsua, slot, device>>
    BY DEF CreateRows
  <1>3. CASE request[r].source # Live
    BY <1>1, <1>2, <1>3, QuietStep
  <1>4. CASE request[r].source = Live
    <2>1. PICK stage \in {"dialing", "none"} :
            worker' = [l \in Logs |-> IF l \in Range(ids) THEN stage ELSE worker[l]]
      BY <1>1, <1>4
    <2>2. /\ request[r].speakers \in SUBSET Speakers
          /\ DOMAIN ids = request[r].speakers /\ ids \in [DOMAIN ids -> Logs]
          /\ IsInjective(ids)
      BY RequestPlaces DEF FreshIds
    <2>3. ASSUME NEW s \in DOMAIN ids
          PROVE  row'[ids[s]].status = "playing"
      <3>1. "playing" \in Statuses /\ Live \in Sources
        BY DEF Statuses, ActiveStatuses, Sources
      <3> QED BY <1>1, <1>4, <2>2, <3>1, WithInsertedFacts DEF TypeOK
    <2>4. ASSUME NEW l \in Logs, l \in Range(ids)
          PROVE  row'[l].status # "none"
      BY <2>3, <2>4 DEF Range
    <2>5. \A l \in Logs : worker'[l] # worker[l]
                           => l \in Range(ids) /\ worker'[l] \in {"dialing", "none"}
      BY <2>1
    <2> QED BY <1>2, <2>4, <2>5 DEF PlayStep, Holds
  <1> QED BY <1>3, <1>4

LEMMA SweepPlay ==
  ASSUME TypeOK, NEW a \in Actors, SweepStep(a)
  PROVE  PlayStep
  <1>1. UNCHANGED <<worker, heard, slot, device>> /\ pjsua' \subseteq pjsua
    BY DEF SweepStep, SweepStop, StopProcesses, SweepSave, SweepReschedule, playVars
  <1> QED BY <1>1, QuietStep

LEMMA PlaySteps ==
  ASSUME TypeOK, [Next]_vars
  PROVE  PlayStep
  <1> USE DEF playVars
  <1>1. ASSUME NEW l \in Logs,
               WorkerStep(l) \/ WorkerError(l) \/ LiveStep(l) \/ SweepStep(l)
                 \/ OrphanExits(l) \/ Forget(l)
        PROVE  PlayStep
    <2>1. CASE SweepStep(l)
      BY <2>1, ActorKinds, SweepPlay
    <2>2. CASE WorkerStep(l) \/ WorkerError(l)
      BY <2>2, WorkerPlay
    <2>3. CASE OrphanExits(l)
      BY <2>3 DEF OrphanExits, PlayStep, Holds, TypeOK
    <2>4. CASE Forget(l)
      <3>1. Forgets(l)
        BY <2>4 DEF Forget, Forgets, actorVars
      <3> QED BY <2>4, <3>1 DEF Forget, PlayStep, Holds, TypeOK
    <2> QED BY <1>1, <2>1, <2>2, <2>3, <2>4, LivePlay
  <1>2. ASSUME NEW r \in Requests,
               \/ RequestStep(r) \/ RequestError(r)
               \/ ConsoleStart(r) \/ ManualStart(r) \/ LiveStart(r) \/ ResetStart(r)
        PROVE  PlayStep
    <2>1. CASE SweepStep(r)
      BY <2>1, ActorKinds, SweepPlay
    <2>2. CASE \/ RequestInterrupt(r) \/ RequestCheck(r) \/ CreateFails(r) \/ ResetDone(r)
               \/ LiveCleared(r) \/ RequestError(r)
               \/ ConsoleStart(r) \/ ManualStart(r) \/ LiveStart(r) \/ ResetStart(r)
      <3>1. UNCHANGED <<worker, heard, slot, device, pjsua>>
        BY <2>2 DEF RequestInterrupt, RequestCheck, CreateFails, ResetDone, LiveCleared,
                    RequestError, ConsoleStart, ManualStart, LiveStart, ResetStart
      <3> QED BY <3>1, QuietStep
    <2> QED BY <1>2, <2>1, <2>2, CreatePlay DEF RequestStep
  <1>3. CASE EventImported \/ CloseAlarms
    <2>1. UNCHANGED <<worker, heard, slot, device>> /\ pjsua' \subseteq pjsua
      BY <1>3 DEF EventImported, AutomaticCreate, StopProcesses, CloseAlarms
    <2> QED BY <2>1, QuietStep
  <1>4. CASE SchedulerWake \/ SchedulerStep \/ PassError
    <2>1. CASE SweepStep(Scheduler)
      BY <2>1, ActorKinds, SweepPlay
    <2>2. ASSUME SchedulerWake \/ SchedulerList \/ PassEnds \/ PassError
                 \/ \E k \in Schedules : RunSchedule(k) \/ SkipSchedule(k)
          PROVE  PlayStep
      <3>1. UNCHANGED <<worker, heard, slot, device, pjsua>>
        BY <2>2 DEF SchedulerWake, SchedulerList, PassEnds, PassError, RunSchedule,
                    SkipSchedule
      <3> QED BY <3>1, QuietStep
    <2> QED BY <1>4, <2>1, <2>2 DEF SchedulerStep
  <1>5. CASE \E k \in Schedules : FallsDue(k) \/ ToggleSchedule(k) \/ DeleteSchedule(k)
    <2>1. UNCHANGED <<worker, heard, slot, device, pjsua>>
      BY <1>5 DEF FallsDue, ToggleSchedule, DeleteSchedule
    <2> QED BY <2>1, QuietStep
  <1>6. CASE \E s \in Speakers : DeviceProbed(s) \/ DeviceSwitched(s)
    BY <1>6 DEF DeviceProbed, DeviceSwitched, PlayStep, Holds, TypeOK
  <1>7. CASE Crash
    BY <1>7 DEF Crash, PlayStep, Holds, TypeOK
  <1>8. CASE UNCHANGED vars
    BY <1>8, QuietStep DEF vars
  <1> QED BY <1>1, <1>2, <1>3, <1>4, <1>5, <1>6, <1>7, <1>8 DEF Next

-----------------------------------------------------------------------------
(* A recorded success was heard.                                           *)

(* What makes the invariant inductive: a thread that is about to record a  *)
(* success has seen the playback end.                                      *)
HeardInv ==
  /\ SuccessWasHeard
  /\ \A l \in Logs : worker[l] \in {"done_ok", "read_ok", "on_air"} => l \in heard

LEMMA NewSuccess ==
  ASSUME TypeOK, RowChange, NEW l \in Logs, row'[l].status = "success"
  PROVE  row[l].status = "success" \/ worker[l] \in {"read_ok", "on_air"}
  <1>0. row \in [Logs -> Row]
    BY DEF TypeOK
  <1>1. CASE UNCHANGED row
    BY <1>1
  <1>2. ASSUME NEW ids, NEW st, Finishes(ids, st)
        PROVE  row[l].status = "success"
    <2>1. st \in Statuses /\ st # "success" /\ row' = WithStatus(row, ids, st)
      BY <1>2 DEF Finishes, Statuses, FinalStatuses
    <2> QED BY <1>0, <2>1, WithStatusFacts
  <1>3. ASSUME NEW m \in Logs, Succeeds(m)
        PROVE  row[l].status = "success" \/ worker[l] \in {"read_ok", "on_air"}
    <2>1. /\ "success" \in Statuses /\ worker[m] \in {"read_ok", "on_air"}
          /\ row' = WithStatus(row, {m}, "success")
      BY <1>3 DEF Succeeds, Statuses, FinalStatuses
    <2> QED BY <1>0, <2>1, WithStatusFacts
  <1>4. ASSUME NEW m \in Logs, Takes(m)
        PROVE  row[l].status = "success"
    <2>1. "playing" \in Statuses /\ row' = WithStatus(row, {m}, "playing")
      BY <1>4 DEF Takes, Statuses, ActiveStatuses
    <2> QED BY <1>0, <2>1, WithStatusFacts
  <1>5. ASSUME NEW m \in Logs, Forgets(m)
        PROVE  row[l].status = "success"
    BY <1>0, <1>5 DEF Forgets, NoRow
  <1>6. CASE InsertsRows
    <2>1. PICK cleared, ids, st, src, k : Inserts(cleared, ids, st, src, k)
      BY <1>6 DEF InsertsRows
    <2>2. /\ \A s \in DOMAIN ids : row'[ids[s]].status # "success"
          /\ (\A s \in DOMAIN ids : ids[s] # l) =>
               (row'[l].status = row[l].status \/ row'[l].status = "failed")
      BY <2>1, InsertedRow DEF ActiveStatuses
    <2> QED BY <2>2
  <1> QED BY <1>1, <1>2, <1>3, <1>4, <1>5, <1>6 DEF RowChange

LEMMA HeardKept ==
  ASSUME TypeOK, HeardInv, RowChange, PlayStep
  PROVE  HeardInv'
  <1>1. ASSUME NEW l \in Logs, row'[l].status = "success"
        PROVE  l \in heard'
    <2>1. l \in heard
      BY <1>1, NewSuccess DEF HeardInv, SuccessWasHeard
    <2>2. ~Forgets(l)
      <3>1. SUFFICES ASSUME Forgets(l) PROVE FALSE
        OBVIOUS
      <3>2. row'[l] = NoRow
        BY <3>1 DEF Forgets, TypeOK
      <3> QED BY <1>1, <3>2 DEF NoRow
    <2> QED BY <2>1, <2>2 DEF PlayStep
  <1>2. ASSUME NEW l \in Logs, worker'[l] \in {"done_ok", "read_ok", "on_air"}
        PROVE  l \in heard'
    <2>1. CASE l \in heard
      <3>1. Forgets(l) => worker'[l] = "none"
        BY DEF Forgets
      <3> QED BY <1>2, <2>1, <3>1 DEF PlayStep
    <2>2. CASE l \notin heard
      BY <1>2, <2>2 DEF PlayStep, HeardInv
    <2> QED BY <2>1, <2>2
  <1> QED BY <1>1, <1>2 DEF HeardInv, SuccessWasHeard

(* A success is recorded only for a playback that ran to its verified end, *)
(* with crashes, killed processes and failing databases in between.        *)
THEOREM SuccessIsHeard == Spec => []SuccessWasHeard
  <1>1. Init => HeardInv
    BY DEF Init, HeardInv, SuccessWasHeard, NoRow
  <1>2. TypeOK /\ HeardInv /\ [Next]_vars => HeardInv'
    BY RowChanges, PlaySteps, HeardKept
  <1>3. HeardInv => SuccessWasHeard
    BY DEF HeardInv
  <1> QED BY <1>1, <1>2, <1>3, TypeCorrect, PTL DEF Spec

-----------------------------------------------------------------------------
(* While no speaker is taken out of service or put back, no speaker is     *)
(* served by two processes.                                                *)

(* What makes NoOverlap inductive: a slot, once counted, is the one of its *)
(* row's speaker for as long as it matters, and the operating system gives *)
(* a port to one process only.  Neither the row's status nor the test that *)
(* binds and closes the ports has a part in it.                            *)
OverlapInv ==
  /\ \A l, m \in pjsua : slot[l] = slot[m] => l = m
  /\ \A l \in Logs : worker[l] # "none" \/ l \in pjsua => Exists(l)
  /\ \A l \in Logs : Holds(l) => slot[l] = PortSlot(row[l].speaker)

(* A row keeps its speaker and its source until it is forgotten.           *)
Keeps(l) ==
  row'[l].status # "none" /\ row'[l].speaker = row[l].speaker /\ row'[l].source = row[l].source

LEMMA RowKept ==
  ASSUME TypeOK, RowChange, NEW l \in Logs, Exists(l)
  PROVE  Forgets(l) \/ Keeps(l)
  <1> USE DEF Keeps
  <1>0. row \in [Logs -> Row]
    BY DEF TypeOK
  <1>1. CASE UNCHANGED row
    BY <1>1 DEF Exists
  <1>2. ASSUME NEW ids, NEW st, NEW table, st \in Statuses,
               table = WithStatus(row, ids, st), row' = table
        PROVE  Keeps(l)
    <2>1. st # "none"
      BY <1>2 DEF Statuses, ActiveStatuses, FinalStatuses
    <2> QED BY <1>0, <1>2, <2>1, WithStatusFacts DEF Exists
  <1>3. ASSUME NEW ids, NEW st, Finishes(ids, st)
        PROVE  Keeps(l)
    BY <1>2, <1>3 DEF Finishes, Statuses, FinalStatuses
  <1>4. ASSUME NEW m \in Logs, Succeeds(m) \/ Takes(m)
        PROVE  Keeps(l)
    BY <1>2, <1>4 DEF Succeeds, Takes, Statuses, FinalStatuses, ActiveStatuses
  <1>5. ASSUME NEW m \in Logs, Forgets(m), m # l
        PROVE  Keeps(l)
    BY <1>0, <1>5 DEF Forgets, Exists
  <1>6. CASE InsertsRows
    <2>1. PICK cleared, ids, st, src, k : Inserts(cleared, ids, st, src, k)
      BY <1>6 DEF InsertsRows
    <2>2. /\ \A s \in DOMAIN ids : ~Exists(ids[s])
          /\ (\A s \in DOMAIN ids : ids[s] # l) =>
               /\ row'[l].speaker = row[l].speaker
               /\ row'[l].source = row[l].source
               /\ row'[l].status = row[l].status \/ row'[l].status = "failed"
      BY <2>1, InsertedRow
    <2> QED BY <2>2 DEF Exists
  <1> QED BY <1>1, <1>3, <1>4, <1>5, <1>6 DEF RowChange

(* The processes that run after a step hold different ports.               *)
LEMMA PortsKept ==
  ASSUME TypeOK, OverlapInv, PlayStep
  PROVE  \A l, m \in pjsua' : slot'[l] = slot'[m] => l = m
  <1>1. ASSUME NEW l \in Logs, Starts(l)
        PROVE  \A m, n \in pjsua' : slot'[m] = slot'[n] => m = n
    BY <1>1 DEF Starts, PortFree, OverlapInv
  <1>2. CASE pjsua' \subseteq pjsua
    <2>1. ASSUME NEW l \in pjsua'
          PROVE  l \in pjsua /\ slot'[l] = slot[l]
      <3>1. l \in Logs /\ Holds(l) /\ Holds(l)'
        BY <1>2, <2>1 DEF TypeOK, Holds
      <3>2. slot[l] = PortSlot(row[l].speaker)
        BY <3>1 DEF OverlapInv
      <3> QED BY <1>2, <3>1, <3>2 DEF PlayStep
    <2> QED BY <2>1 DEF OverlapInv
  <1> QED BY <1>1, <1>2 DEF PlayStep

LEMMA OverlapKept ==
  ASSUME "deactivate" \notin Environment,
         TypeOK, OverlapInv, RowChange, PlayStep
  PROVE  OverlapInv'
  <1>1. \A s \in Speakers : device'[s] = "inactive" <=> device[s] = "inactive"
    BY DEF PlayStep
  <1>2. \A s : PortSlot(s)' = PortSlot(s)
    <2>1. ASSUME NEW s
          PROVE  {t \in Speakers : t < s /\ device[t] # "inactive"}' =
                 {t \in Speakers : t < s /\ device[t] # "inactive"}
      BY <1>1
    <2> QED BY <2>1 DEF PortSlot
  <1>3. ASSUME NEW l \in Logs, worker[l] # "none" \/ l \in pjsua,
               worker'[l] # "none" \/ l \in pjsua'
        PROVE  row'[l].status # "none" /\ row'[l].speaker = row[l].speaker
    <2>1. Exists(l)
      BY <1>3 DEF OverlapInv
    <2>2. Forgets(l) => worker'[l] = "none" /\ l \notin pjsua'
      BY DEF Forgets
    <2> QED BY <1>3, <2>1, <2>2, RowKept DEF Keeps
  <1>4. ASSUME NEW l \in Logs, worker'[l] # "none" \/ l \in pjsua'
        PROVE  row'[l].status # "none"
    <2>1. \/ worker[l] # "none" \/ l \in pjsua
          \/ row'[l].status # "none"
      BY <1>4 DEF PlayStep, Starts
    <2> QED BY <1>3, <1>4, <2>1
  <1>5. ASSUME NEW l \in Logs, Holds(l)'
        PROVE  (slot[l] = PortSlot(row[l].speaker))'
    <2>1. worker[l] # "none" \/ l \in pjsua
      BY <1>5 DEF PlayStep, Holds
    <2>2. slot'[l] = PortSlot(row[l].speaker)
      BY <1>5 DEF PlayStep, OverlapInv
    <2>3. row'[l].speaker = row[l].speaker
      BY <1>3, <1>5, <2>1 DEF Holds
    <2>4. PortSlot(row[l].speaker)' = PortSlot(row'[l].speaker)
      BY <1>2, <2>3 DEF PortSlot
    <2> QED BY <1>2, <2>2, <2>3, <2>4
  <1>6. (\A l \in Logs : worker[l] # "none" \/ l \in pjsua => Exists(l))'
    BY <1>4 DEF Exists
  <1>7. (\A l \in Logs : Holds(l) => slot[l] = PortSlot(row[l].speaker))'
    BY <1>5
  <1>8. (\A l, m \in pjsua : slot[l] = slot[m] => l = m)'
    BY PortsKept
  <1> QED BY <1>6, <1>7, <1>8 DEF OverlapInv

(* While no speaker is activated or deactivated, no speaker is ever served *)
(* by two pjsua processes, although a worker counts its slot, tests the    *)
(* ports and starts its process in separate steps, and long after its row  *)
(* was interrupted and the speaker given to another broadcast.             *)
THEOREM NoOverlapWithoutDeviceChanges ==
  ASSUME "deactivate" \notin Environment
  PROVE  Spec => []NoOverlap
  <1>1. Init => OverlapInv
    BY DEF Init, OverlapInv, Holds
  <1>2. TypeOK /\ OverlapInv /\ [Next]_vars => OverlapInv'
    BY RowChanges, PlaySteps, OverlapKept
  <1>3. TypeOK /\ OverlapInv => NoOverlap
    BY DEF OverlapInv, NoOverlap, Holds, TypeOK
  <1> QED BY <1>1, <1>2, <1>3, TypeCorrect, PTL DEF Spec

-----------------------------------------------------------------------------
(* Only what a request outranks is skipped.                                *)

(* Each copy an interruption works on is still a row that its request      *)
(* outranks, for one of its speakers.                                      *)
Outranks(r, l) ==
  Exists(l) /\ Outranked(l, request[r].source) /\ row[l].speaker \in request[r].speakers

InterruptsOutranked ==
  \A r \in Requests : request[r].pc = "interrupt" =>
    \A c \in copies[r] : Outranks(r, c.log)

InterruptRead(r) ==
  /\ copies'[r] = CopiesOf({l \in ActiveLogsOf(request[r].speakers) :
                              Outranked(l, request[r].source)})
  /\ request'[r].speakers = request[r].speakers /\ request'[r].source = request[r].source
  /\ UNCHANGED row

(* A list only shrinks, once it is read.                                   *)
ListKept(l) == \A c \in copies'[l] : \E d \in copies[l] : d.log = c.log

(* A request's list is read when the interruption begins, and then shrinks.*)
InterruptList(r) ==
  \/ request'[r].pc # "interrupt"
  \/ ListKept(r) /\ request'[r] = request[r]
  \/ InterruptRead(r)

LEMMA SweepLists ==
  ASSUME TypeOK, NEW a \in Actors, SweepStep(a), NEW l \in Actors
  PROVE  ListKept(l)
  <1>1. PICK c \in copies[a] :
          SweepStop(a, c) \/ SweepSave(a, c) \/ SweepReschedule(a, c)
    BY DEF SweepStep
  <1>2. c \in Copy
    BY CopyType
  <1>3. \/ \E step \in {"stopped", "saved"} : copies' = Advanced(a, c, step)
        \/ copies' = [copies EXCEPT ![a] = @ \ {c}]
    BY <1>1 DEF SweepStop, SweepSave, SweepReschedule
  <1>5. CASE copies' = [copies EXCEPT ![a] = @ \ {c}]
    BY <1>5 DEF ListKept, TypeOK
  <1>6. ASSUME NEW step \in {"stopped", "saved"}, copies' = Advanced(a, c, step)
        PROVE  ListKept(l)
    <2>1. [c EXCEPT !.step = step].log = c.log
      BY <1>2 DEF Copy
    <2>2. copies' = [copies EXCEPT ![a] = (@ \ {c}) \union {[c EXCEPT !.step = step]}]
      BY <1>6 DEF Advanced
    <2>3. CASE l # a
      BY <2>2, <2>3 DEF ListKept, TypeOK
    <2>4. CASE l = a
      <3>1. copies'[l] = (copies[l] \ {c}) \union {[c EXCEPT !.step = step]}
        BY <2>2, <2>4 DEF TypeOK
      <3>2. ASSUME NEW d \in copies'[l]
            PROVE  \E e \in copies[l] : e.log = d.log
        <4>1. CASE d \in copies[l]
          BY <4>1
        <4>2. CASE d = [c EXCEPT !.step = step]
          BY <2>1, <2>4, <4>2
        <4> QED BY <3>1, <4>1, <4>2
      <3> QED BY <3>2 DEF ListKept
    <2> QED BY <2>3, <2>4
  <1> QED BY <1>3, <1>5, <1>6

LEMMA SweepRequest ==
  ASSUME TypeOK, NEW a \in Actors, SweepStep(a), NEW r \in Requests
  PROVE  InterruptList(r)
  <1>1. UNCHANGED request
    BY DEF SweepStep, SweepStop, SweepSave, SweepReschedule
  <1> QED BY <1>1, ActorKinds, SweepLists DEF InterruptList

LEMMA RequestList ==
  ASSUME TypeOK, NEW m \in Requests, NEW r \in Requests,
         \/ RequestStep(m) \/ RequestError(m)
         \/ ConsoleStart(m) \/ ManualStart(m) \/ LiveStart(m) \/ ResetStart(m)
  PROVE  InterruptList(r)
  <1>0. /\ request \in [Requests -> Request] /\ copies \in [Actors -> SUBSET Copy]
        /\ r \in Actors /\ m \in Actors
    BY ActorKinds DEF TypeOK
  <1>1. CASE SweepStep(m)
    BY <1>0, <1>1, SweepRequest
  <1>2. CASE RequestInterrupt(m)
    <2>1. CASE r = m
      BY <1>0, <1>2, <2>1
      DEF RequestInterrupt, Proceed, Goto, InterruptList, InterruptRead, rowVars
    <2>2. CASE r # m
      BY <1>0, <1>2, <2>2 DEF RequestInterrupt, Proceed, Goto, InterruptList, ListKept
    <2> QED BY <2>1, <2>2
  <1>3. CASE \/ RequestCheck(m) \/ CreateFails(m) \/ CreateRows(m) \/ ResetDone(m)
             \/ LiveCleared(m) \/ RequestError(m)
             \/ ConsoleStart(m) \/ ManualStart(m) \/ LiveStart(m) \/ ResetStart(m)
    <2>1. \E new : new.pc # "interrupt" /\ request' = [request EXCEPT ![m] = new]
      <3>1. ASSUME NEW pc \in {"create", "stale", "clear", "reset"}, NEW src, NEW S,
                   Goto(m, pc, src, S)
            PROVE  \E new : new.pc # "interrupt" /\ request' = [request EXCEPT ![m] = new]
        <4>1. [pc |-> pc, source |-> src, speakers |-> S].pc # "interrupt"
          OBVIOUS
        <4> QED BY <3>1, <4>1 DEF Goto
      <3>2. CASE GoIdle(m)
        <4>1. NoRequest.pc # "interrupt"
          BY DEF NoRequest
        <4> QED BY <3>2, <4>1 DEF GoIdle
      <3>3. CASE RequestCheck(m) \/ LiveCleared(m)
        BY <3>1, <3>2, <3>3 DEF RequestCheck, LiveCleared, Proceed
      <3>4. CASE CreateFails(m) \/ CreateRows(m) \/ ResetDone(m) \/ RequestError(m)
        BY <3>2, <3>4 DEF CreateFails, CreateRows, ResetDone, RequestError
      <3>5. CASE ConsoleStart(m) \/ ManualStart(m) \/ LiveStart(m) \/ ResetStart(m)
        BY <3>1, <3>5 DEF ConsoleStart, ManualStart, LiveStart, ResetStart
      <3> QED BY <1>3, <3>3, <3>4, <3>5
    <2>2. UNCHANGED copies \/ \E new : copies' = [copies EXCEPT ![m] = new]
      BY <1>3 DEF RequestCheck, CreateFails, CreateRows, ResetDone, LiveCleared, RequestError,
                  ConsoleStart, ManualStart, LiveStart, ResetStart, ListStaleSchedules
    <2>3. CASE r = m
      BY <1>0, <2>1, <2>3 DEF InterruptList
    <2>4. CASE r # m
      BY <1>0, <2>1, <2>2, <2>4 DEF InterruptList, ListKept
    <2> QED BY <2>3, <2>4
  <1> QED BY <1>1, <1>2, <1>3 DEF RequestStep

LEMMA RequestLists ==
  ASSUME TypeOK, [Next]_vars, NEW r \in Requests
  PROVE  InterruptList(r)
  <1>0. copies \in [Actors -> SUBSET Copy] /\ r \in Actors
    BY ActorKinds DEF TypeOK
  <1>u. UNCHANGED <<copies, request>> => InterruptList(r)
    BY DEF InterruptList, ListKept
  <1>1. ASSUME NEW m \in Logs,
               WorkerStep(m) \/ WorkerError(m) \/ LiveStep(m) \/ SweepStep(m)
                 \/ OrphanExits(m) \/ Forget(m)
        PROVE  InterruptList(r)
    <2>1. CASE SweepStep(m)
      BY <2>1, ActorKinds, SweepRequest
    <2>2. CASE Recover(m) \/ WorkerError(m)
      <3>1. m \in Actors /\ m # r
        BY ActorKinds, ConstantsAssumption
      <3>2. UNCHANGED request /\ \E new : copies' = [copies EXCEPT ![m] = new]
        BY <2>2 DEF Recover, WorkerError
      <3> QED BY <1>0, <3>1, <3>2 DEF InterruptList, ListKept
    <2>3. CASE \/ Prepare(m) \/ CheckSpeaker(m) \/ CountSlot(m) \/ TestPorts(m)
               \/ StartProcess(m) \/ RefusePlayback(m) \/ EndPlayback(m)
               \/ PlaybackKilled(m) \/ Refresh(m) \/ Mark(m) \/ Recovered(m)
               \/ LiveStep(m) \/ OrphanExits(m) \/ Forget(m)
      BY <1>u, <2>3 DEF Prepare, CheckSpeaker, CountSlot, TestPorts, StartProcess,
                  RefusePlayback, EndPlayback, PlaybackKilled, Refresh, Mark, Recovered,
                  LiveStep, LiveAnswered, LiveRefused, LiveEnds, OrphanExits, Forget,
                  actorVars
    <2> QED BY <1>1, <2>1, <2>2, <2>3 DEF WorkerStep
  <1>2. ASSUME NEW m \in Requests,
               \/ RequestStep(m) \/ RequestError(m)
               \/ ConsoleStart(m) \/ ManualStart(m) \/ LiveStart(m) \/ ResetStart(m)
        PROVE  InterruptList(r)
    BY <1>2, RequestList
  <1>3. CASE EventImported \/ CloseAlarms
    BY <1>u, <1>3 DEF EventImported, AutomaticCreate, CloseAlarms, actorVars
  <1>4. CASE SchedulerWake \/ SchedulerStep \/ PassError
    <2>1. CASE SweepStep(Scheduler)
      BY <2>1, ActorKinds, SweepRequest
    <2>2. CASE SchedulerWake \/ PassError
      <3>1. UNCHANGED request /\ \E new : copies' = [copies EXCEPT ![Scheduler] = new]
        BY <2>2 DEF SchedulerWake, PassError
      <3>2. Scheduler \in Actors /\ Scheduler # r
        BY ActorKinds, ConstantsAssumption
      <3> QED BY <1>0, <3>1, <3>2 DEF InterruptList, ListKept
    <2>3. CASE SchedulerList \/ PassEnds
               \/ \E k \in Schedules : RunSchedule(k) \/ SkipSchedule(k)
      BY <1>u, <2>3 DEF SchedulerList, PassEnds, RunSchedule, SkipSchedule
    <2> QED BY <1>4, <2>1, <2>2, <2>3 DEF SchedulerStep
  <1>5. CASE \E k \in Schedules : FallsDue(k) \/ ToggleSchedule(k) \/ DeleteSchedule(k)
    BY <1>u, <1>5 DEF FallsDue, ToggleSchedule, DeleteSchedule, actorVars
  <1>6. CASE \/ \E s \in Speakers : DeviceProbed(s) \/ DeviceSwitched(s)
             \/ UNCHANGED vars
    BY <1>u, <1>6 DEF DeviceProbed, DeviceSwitched, vars, actorVars
  <1>7. CASE Crash
    BY <1>7 DEF Crash, InterruptList, NoRequest
  <1> QED BY <1>1, <1>2, <1>3, <1>4, <1>5, <1>6, <1>7 DEF Next

LEMMA OutrankedKept ==
  ASSUME TypeOK, InterruptsOutranked, RowChange,
         \A r \in Requests : InterruptList(r)
  PROVE  InterruptsOutranked'
  <1> SUFFICES ASSUME NEW r \in Requests, request'[r].pc = "interrupt", NEW c \in copies'[r]
               PROVE  Outranks(r, c.log)'
    BY DEF InterruptsOutranked
  <1>1. CASE InterruptRead(r)
    <2>1. c.log \in {l \in ActiveLogsOf(request[r].speakers) :
                        Outranked(l, request[r].source)}
      BY <1>1 DEF InterruptRead, CopiesOf
    <2> QED BY <1>1, <2>1 DEF InterruptRead, ActiveLogsOf, Active, ActiveStatuses, Outranks,
            Outranked, Exists
  <1>2. CASE ListKept(r) /\ request'[r] = request[r]
    <2>1. PICK d \in copies[r] : d.log = c.log
      BY <1>2 DEF ListKept
    <2>2. d.log \in Logs /\ r \in Actors
      BY ActorKinds, CopyType
    <2>3. Outranks(r, d.log)
      BY <1>2 DEF InterruptsOutranked
    <2>4. ~Forgets(d.log)
      BY <2>2 DEF Forgets
    <2>5. Keeps(d.log)
      BY <2>2, <2>3, <2>4, RowKept DEF Outranks
    <2> QED BY <1>2, <2>1, <2>3, <2>5 DEF Keeps, Outranks, Outranked, Exists
  <1> QED BY <1>1, <1>2 DEF InterruptList

LEMMA SkipWasDue ==
  ASSUME TypeOK, RowChange, NEW l \in Logs, Active(l), row'[l].status = "skipped"
  PROVE  SkipIsDue(l)
  <1>0. row \in [Logs -> Row] /\ row[l].status # "skipped"
    BY DEF TypeOK, Active, ActiveStatuses
  <1>1. CASE UNCHANGED row
    BY <1>0, <1>1
  <1>2. ASSUME NEW ids, NEW st, Finishes(ids, st)
        PROVE  SkipIsDue(l)
    <2>1. st \in Statuses
      BY <1>2 DEF Finishes, Statuses, FinalStatuses
    <2>2. l \in ids /\ st = "skipped"
      BY <1>0, <1>2, <2>1, WithStatusFacts DEF Finishes
    <2> QED BY <1>2, <2>2 DEF Finishes
  <1>3. ASSUME NEW m \in Logs, Succeeds(m) \/ Takes(m)
        PROVE  FALSE
    <2>1. PICK st \in {"success", "playing"} : row' = WithStatus(row, {m}, st)
      BY <1>3 DEF Succeeds, Takes
    <2>2. st \in Statuses /\ st # "skipped"
      BY DEF Statuses, FinalStatuses, ActiveStatuses
    <2> QED BY <1>0, <2>1, <2>2, WithStatusFacts
  <1>4. ASSUME NEW m \in Logs, Forgets(m)
        PROVE  FALSE
    BY <1>0, <1>4 DEF Forgets, NoRow
  <1>5. CASE InsertsRows
    <2>1. PICK cleared, ids, st, src, k : Inserts(cleared, ids, st, src, k)
      BY <1>5 DEF InsertsRows
    <2> QED BY <1>0, <2>1, InsertedRow DEF ActiveStatuses
  <1> QED BY <1>1, <1>2, <1>3, <1>4, <1>5 DEF RowChange

(* A broadcast is skipped only by a request for its own speaker that       *)
(* outranks it, or, while still pending, because its event was closed;     *)
(* also when the request's list of rows is old                             *)
(* (interrupt_lower_priority_broadcasts).                                  *)
THEOREM OnlyOutrankedIsEverSkipped == Spec => OnlyOutrankedIsSkipped
  <1>1. Init => InterruptsOutranked
    BY DEF Init, InterruptsOutranked, NoRequest
  <1>2. TypeOK /\ InterruptsOutranked /\ [Next]_vars => InterruptsOutranked'
    BY RowChanges, RequestLists, OutrankedKept
  <1>3. TypeOK /\ InterruptsOutranked /\ [Next]_vars =>
          [\A l \in Logs :
             Active(l) /\ row'[l].status = "skipped" =>
               \/ \E r \in Requests :
                    /\ request[r].pc = "interrupt"
                    /\ row[l].speaker \in request[r].speakers
                    /\ Priority(row[l].source) < Priority(request[r].source)
               \/ row[l].status = "pending" /\ row[l].source \in EventOwned]_vars
    <2> SUFFICES ASSUME TypeOK, InterruptsOutranked, [Next]_vars, NEW l \in Logs,
                        Active(l), row'[l].status = "skipped"
                 PROVE  \/ \E r \in Requests :
                             /\ request[r].pc = "interrupt"
                             /\ row[l].speaker \in request[r].speakers
                             /\ Priority(row[l].source) < Priority(request[r].source)
                        \/ row[l].status = "pending" /\ row[l].source \in EventOwned
      OBVIOUS
    <2>1. SkipIsDue(l)
      BY RowChanges, SkipWasDue
    <2> QED BY <2>1 DEF SkipIsDue, InterruptsOutranked, Outranks, Outranked
  <1> QED BY <1>1, <1>2, <1>3, TypeCorrect, PTL DEF Spec, OnlyOutrankedIsSkipped

=============================================================================
