-------------------------- MODULE EventApi_proofs ---------------------------
(***************************************************************************)
(* Theorems about EventApi, for any requests, events, speakers and rows.   *)
(***************************************************************************)
EXTENDS EventApi, TLAPS

(* A null reference is no row, and rules name speakers that exist.         *)
Parameters == NoLog \notin Logs /\ RuleSpeakers \subseteq Speakers

LEMMA ParametersHold == Parameters
  BY ApiAssumption DEF Parameters

(* TypeOK with its record sets named.                                      *)
States == {"none", "pending", "playing", "success", "failed", "skipped"}
Rows ==
  [status : States, event : Events \union {NoLog}, speaker : Speakers \union {NoLog},
   source : {Trigger, Manual, Scheduled, NoLog}]

Empty   == {"idle", "next", "look", "list", "check", "create"}
Plays   == {"playing", "ended", "marking"}
Handles == {"handler", "failing"}
Holding == {"interrupt", "process"} \union Plays \union Handles
Requests ==
  [pc : Empty \union Holding, kind : {Trigger, Manual, NoLog}, event : Events \union {NoLog},
   speaker : Speakers \union {NoLog}, log : Logs \union {NoLog}, todo : SUBSET Speakers]

Types ==
  /\ eventState \in [Events -> {"unknown", "open", "closed"}]
  /\ apiRow \in [Logs -> Rows]
  /\ api \in [Callers -> Requests]
  /\ others \subseteq Logs /\ started \subseteq Logs /\ again \subseteq Logs
  /\ dropped \subseteq Logs

(* Where a request has a row, and of which kind it is.                     *)
Shapes ==
  \A t \in Callers :
    /\ api[t].pc \in Empty => api[t].log = NoLog
    /\ api[t].pc \in Holding => api[t].log \in Logs
    /\ api[t].pc # "idle" => api[t].kind \in {Trigger, Manual}

(* A row whose playback began never is pending again, so it begins once.   *)
Begun ==
  /\ again = {}
  /\ \A l \in started : apiRow[l].status \notin {"none", "pending"}
  /\ others \subseteq started
  /\ \A t \in Callers : api[t].pc \in Plays => api[t].log \in started

(* Somebody has every row that plays, and every row of the trigger that is *)
(* still to be played; TriggerRowsAreSettled alone does not say that who   *)
(* has a playing row is past taking it up.                                 *)
Somebody(l) == l \in others \union dropped \/ \E t \in Callers : api[t].log = l
Player(l) ==
  \/ l \in others \union dropped
  \/ \E t \in Callers : api[t].log = l /\ api[t].pc \in Plays \union Handles

Attended ==
  \A l \in Logs :
    /\ apiRow[l].status = "playing" => Player(l)
    /\ apiRow[l].status = "pending" /\ apiRow[l].source = Trigger => Somebody(l)

(* The row a manual request interrupts is a scheduled one.                 *)
Interrupting ==
  \A t \in Callers :
    api[t].pc = "interrupt" =>
      apiRow[api[t].log].source = Scheduled /\ apiRow[api[t].log].status # "none"

ApiInv == Types /\ Shapes /\ Begun /\ Attended /\ Interrupting

LEMMA TypesImply == Types => TypeOK
  <1>1. Types =>
          /\ eventState \in [Events -> {"unknown", "open", "closed"}]
          /\ others \subseteq Logs /\ started \subseteq Logs /\ again \subseteq Logs
          /\ dropped \subseteq Logs
    BY DEF Types
  <1>2. Types => apiRow \in [Logs ->
       [status : {"none", "pending", "playing", "success", "failed", "skipped"},
        event : Events \union {NoLog}, speaker : Speakers \union {NoLog},
        source : {Trigger, Manual, Scheduled, NoLog}]]
    BY DEF Types, Rows, States
  <1>3. Empty \union Holding =
          {"idle", "next", "look", "list", "interrupt", "check", "create",
              "process", "playing", "ended", "marking", "handler", "failing"}
    BY DEF Empty, Holding, Plays, Handles
  <1>4. Types => api \in [Callers ->
       [pc : {"idle", "next", "look", "list", "interrupt", "check", "create",
              "process", "playing", "ended", "marking", "handler", "failing"},
        kind : {Trigger, Manual, NoLog}, event : Events \union {NoLog},
        speaker : Speakers \union {NoLog}, log : Logs \union {NoLog},
        todo : SUBSET Speakers]]
    BY <1>3 DEF Types, Requests
  <1> QED BY <1>1, <1>2, <1>4 DEF TypeOK

-----------------------------------------------------------------------------
(* What the helpers do to a row, and to the request of a thread.           *)
LEMMA Saving ==
  ASSUME Types, NEW l, NEW st \in States, Saves(l, st)
  PROVE  /\ apiRow' \in [Logs -> Rows]
         /\ \A k \in Logs : apiRow'[k].source = apiRow[k].source
         /\ \A k \in Logs : apiRow'[k].status = IF k = l THEN st ELSE apiRow[k].status
  <1>1. \A k \in Logs : apiRow'[k] = IF k = l THEN [apiRow[k] EXCEPT !.status = st] ELSE apiRow[k]
    BY DEF Saves, Types
  <1>2. \A k \in Logs : [apiRow[k] EXCEPT !.status = st] \in Rows
    BY DEF Types, Rows
  <1>3. apiRow' \in [Logs -> Rows]
    BY <1>2 DEF Saves, Types
  <1> QED BY <1>1, <1>3 DEF Types, Rows

LEMMA Going ==
  ASSUME Types, NEW t \in Callers, NEW pc \in Empty \union Holding, Goes(t, pc)
  PROVE  /\ api' \in [Callers -> Requests]
         /\ api'[t].pc = pc /\ api'[t].log = api[t].log /\ api'[t].kind = api[t].kind
         /\ \A u \in Callers \ {t} : api'[u] = api[u]
  <1>1. api'[t] = [api[t] EXCEPT !.pc = pc]
    BY DEF Goes, Types
  <1>2. [api[t] EXCEPT !.pc = pc] \in Requests
    BY DEF Types, Requests
  <1>3. \A u \in Callers \ {t} : api'[u] = api[u]
    BY DEF Goes, Types
  <1>4. api' \in [Callers -> Requests]
    BY <1>2 DEF Goes, Types
  <1> QED BY <1>1, <1>3, <1>4 DEF Types, Requests

LEMMA IdleType == Idle \in Requests
  BY DEF Idle, Requests, Empty

LEMMA Leaving ==
  ASSUME Types, NEW t \in Callers, Leaves(t)
  PROVE  /\ api' \in [Callers -> Requests]
         /\ api'[t].pc \in {"next", "idle"} /\ api'[t].log = NoLog
         /\ api'[t].pc = "next" => api'[t].kind = Trigger
         /\ \A u \in Callers \ {t} : api'[u] = api[u]
  <1>1. api'[t] = Left(t) /\ \A u \in Callers \ {t} : api'[u] = api[u]
    BY DEF Leaves, Types
  <1>2. CASE api[t].kind = Trigger
    <2>1. Left(t) = [api[t] EXCEPT !.pc = "next", !.log = NoLog]
      BY <1>2 DEF Left
    <2>2. Left(t) \in Requests
      <3>1. api[t] \in Requests /\ "next" \in Empty
        BY DEF Types, Empty
      <3> QED BY <2>1, <3>1 DEF Requests
    <2>3. Left(t).pc = "next" /\ Left(t).log = NoLog /\ Left(t).kind = Trigger
      BY <1>2, <2>1 DEF Types, Requests
    <2> QED BY <1>1, <2>2, <2>3 DEF Leaves, Types
  <1>3. CASE api[t].kind # Trigger
    <2>1. Left(t) = Idle
      BY <1>3 DEF Left
    <2> QED BY <1>1, <2>1, IdleType DEF Leaves, Types, Idle
  <1> QED BY <1>2, <1>3

LEMMA ApiInit == ASSUME Init PROVE ApiInv
  <1>1. apiRow \in [Logs -> Rows]
    BY DEF Init, NoRow, Rows, States
  <1>2. api \in [Callers -> Requests]
    BY IdleType DEF Init
  <1>3. \A t \in Callers : api[t].pc = "idle" /\ api[t].log = NoLog
    BY DEF Init, Idle
  <1>4. \A l \in Logs : apiRow[l].status = "none"
    BY DEF Init, NoRow
  <1>5. Types
    BY <1>1, <1>2 DEF Init, Types
  <1>6. Shapes
    BY <1>3 DEF Shapes, Holding, Plays, Handles
  <1>7. Begun
    BY <1>3 DEF Init, Begun, Plays
  <1>8. Attended
    BY <1>4 DEF Attended
  <1>9. Interrupting
    BY <1>3 DEF Interrupting
  <1> QED BY <1>5, <1>6, <1>7, <1>8, <1>9 DEF ApiInv

(* A step that touches no row, and whose thread keeps its row or has none. *)
LEMMA LookingKeeps ==
  ASSUME Parameters, ApiInv, NEW t \in Callers, Types',
         UNCHANGED <<apiRow, others, started, again, dropped>>,
         \A u \in Callers \ {t} : api'[u] = api[u],
         api'[t].pc # "idle" => api'[t].kind \in {Trigger, Manual},
         \/ /\ api[t].pc \in Empty
            /\ \/ api'[t].pc \in Empty /\ api'[t].log = NoLog
               \/ api'[t].pc \in {"interrupt", "process"} /\ api'[t].log \in Logs
         \/ /\ api[t].pc \in Plays \union Handles \/ api[t].pc = "process"
            /\ api'[t].pc \in Plays \union Handles /\ api'[t].log = api[t].log
            /\ api'[t].pc \in Plays => api[t].pc \in Plays,
         api'[t].pc = "interrupt" =>
           apiRow[api'[t].log].source = Scheduled /\ apiRow[api'[t].log].status # "none"
  PROVE  ApiInv'
  <1> USE DEF ApiInv
  <1>1. Shapes'
    BY DEF Shapes, Empty, Holding, Plays, Handles
  <1>2. Begun'
    BY DEF Begun, Plays, Empty, Handles
  <1>3. \A l \in Logs : Player(l) => Player(l)'
    BY DEF Player, Shapes, Plays, Empty, Handles
  <1>4. \A l \in Logs : Somebody(l) => Somebody(l)'
    <2>1. api[t].log \in Logs => api[t].pc \notin Empty
      BY DEF Parameters, Shapes
    <2> QED BY <2>1 DEF Somebody, Shapes
  <1>5. Attended'
    BY <1>3, <1>4 DEF Attended
  <1>6. Interrupting'
    BY DEF Interrupting, Plays, Handles
  <1> QED BY <1>1, <1>2, <1>5, <1>6

(* The thread is done with its row, which is not active any more, or which *)
(* somebody else plays or has dropped.                                     *)
LEMMA LeavingKeeps ==
  ASSUME Parameters, ApiInv, NEW t \in Callers, Types',
         api'[t].pc \in Empty, api'[t].log = NoLog,
         api'[t].pc # "idle" => api'[t].kind \in {Trigger, Manual},
         \A u \in Callers \ {t} : api'[u] = api[u],
         UNCHANGED <<others, started, again>>, dropped \subseteq dropped',
         \A l \in Logs :
           /\ apiRow'[l].source = apiRow[l].source
           /\ \/ apiRow'[l].status = apiRow[l].status
              \/ apiRow'[l].status \in {"success", "failed", "skipped"},
         api[t].log \in Logs =>
           \/ apiRow'[api[t].log].status \notin {"pending", "playing"}
           \/ apiRow'[api[t].log].status = "playing" /\ api[t].pc = "process"
           \/ api[t].pc = "interrupt"
           \/ api[t].log \in dropped'
  PROVE  ApiInv'
  <1> USE DEF ApiInv
  <1>2. Shapes'
    BY DEF Shapes, Empty, Holding, Plays, Handles
  <1>3. Begun'
    <2>1. \A l \in started : apiRow'[l].status \notin {"none", "pending"}
      BY DEF Begun, Types
    <2> QED BY <2>1 DEF Begun, Plays, Empty
  <1>4. ASSUME NEW l \in Logs, apiRow'[l].status = "playing" PROVE Player(l)'
    <2>1. apiRow[l].status = "playing" /\ Player(l)
      BY <1>4 DEF Attended
    <2>2. CASE api[t].log = l /\ l \notin dropped'
      <3>1. api[t].pc \in {"process", "interrupt"}
        BY <1>4, <2>2
      <3> QED BY <2>1, <2>2, <3>1 DEF Player, Plays, Handles
    <2>3. CASE api[t].log # l
      BY <2>1, <2>3 DEF Player
    <2>4. CASE l \in dropped'
      BY <2>4 DEF Player
    <2> QED BY <2>2, <2>3, <2>4
  <1>5. ASSUME NEW l \in Logs, apiRow'[l].status = "pending", apiRow'[l].source = Trigger
        PROVE  Somebody(l)'
    <2>1. Somebody(l)
      BY <1>5 DEF Attended
    <2>2. api[t].log # l \/ l \in dropped'
      BY <1>5 DEF Interrupting, Trigger, Scheduled
    <2> QED BY <2>1, <2>2 DEF Somebody
  <1>6. Attended'
    BY <1>4, <1>5 DEF Attended
  <1>7. Interrupting'
    <2> SUFFICES ASSUME NEW u \in Callers, api'[u].pc = "interrupt"
                 PROVE  apiRow'[api'[u].log].source = Scheduled /\ apiRow'[api'[u].log].status # "none"
      BY DEF Interrupting
    <2>1. api'[u] = api[u] /\ api[u].log \in Logs
      BY DEF Empty, Shapes, Holding
    <2> QED BY <2>1 DEF Interrupting
  <1> QED BY <1>2, <1>3, <1>6, <1>7

(* The rows the code writes, with the threads and the ghosts in place.     *)
LEMMA RowsKeep ==
  ASSUME ApiInv, Types', UNCHANGED <<api, others, playedVars>>,
         \A l \in Logs :
           \/ apiRow'[l].source = apiRow[l].source /\ apiRow'[l].status = apiRow[l].status
           \/ apiRow'[l].source = apiRow[l].source /\ apiRow'[l].status = "skipped"
           \/ apiRow[l].status = "none" /\ apiRow'[l].status = "pending" /\ apiRow'[l].source # Trigger
  PROVE  ApiInv'
  <1> USE DEF ApiInv, playedVars
  <1>1. Shapes'
    BY DEF Shapes
  <1>2. Begun'
    BY DEF Begun, Types
  <1>3. \A l \in Logs : Player(l)' = Player(l) /\ Somebody(l)' = Somebody(l)
    BY DEF Player, Somebody
  <1>4. Attended'
    BY <1>3 DEF Attended
  <1>5. Interrupting'
    <2> SUFFICES ASSUME NEW u \in Callers, api[u].pc = "interrupt"
                 PROVE  apiRow'[api[u].log].source = Scheduled /\ apiRow'[api[u].log].status # "none"
      BY DEF Interrupting
    <2>1. api[u].log \in Logs
      BY DEF Shapes, Holding
    <2> QED BY <2>1 DEF Interrupting
  <1> QED BY <1>1, <1>2, <1>4, <1>5

(* A pending row begins, in a request's thread or in another one.          *)
LEMMA BeginKeeps ==
  ASSUME ApiInv, Types', NEW l \in Logs, apiRow[l].status = "pending", Begins(l), UNCHANGED dropped,
         \/ /\ others' = others \union {l} /\ UNCHANGED api
         \/ /\ UNCHANGED others
            /\ \E t \in Callers :
                 /\ api[t].pc = "process" /\ api[t].log = l
                 /\ api'[t].pc = "playing" /\ api'[t].log = l /\ api'[t].kind = api[t].kind
                 /\ \A u \in Callers \ {t} : api'[u] = api[u]
  PROVE  ApiInv'
  <1> USE DEF ApiInv
  <1>1. \A k \in Logs : /\ apiRow'[k].source = apiRow[k].source
                        /\ apiRow'[k].status = IF k = l THEN "playing" ELSE apiRow[k].status
    BY Saving DEF Begins, States
  <1>2. started' = started \union {l} /\ again' = {}
    BY DEF Begins, Begun
  <1>3. Shapes'
    BY DEF Shapes, Empty, Holding, Plays, Handles
  <1>4. Begun'
    <2>1. \A k \in started' : apiRow'[k].status \notin {"none", "pending"}
      BY <1>1, <1>2 DEF Begun, Types
    <2> QED BY <1>2, <2>1 DEF Begun, Plays
  <1>5. \A k \in Logs : Player(k) => Player(k)'
    BY DEF Player, Plays, Handles
  <1>6. \A k \in Logs : Somebody(k) => Somebody(k)'
    BY DEF Somebody
  <1>7. Player(l)'
    BY DEF Player, Plays, Handles
  <1>8. Attended'
    BY <1>1, <1>5, <1>6, <1>7 DEF Attended
  <1>9. Interrupting'
    <2> SUFFICES ASSUME NEW u \in Callers, api'[u].pc = "interrupt"
                 PROVE  apiRow'[api'[u].log].source = Scheduled /\ apiRow'[api'[u].log].status # "none"
      BY DEF Interrupting
    <2>1. api'[u] = api[u] /\ api[u].log \in Logs
      BY DEF Shapes, Holding
    <2> QED BY <2>1, <1>1 DEF Interrupting
  <1> QED BY <1>3, <1>4, <1>8, <1>9

(* create: the new row is the thread's.                                    *)
LEMMA CreateKeeps ==
  ASSUME ApiInv, Types', NEW t \in Callers, NEW source \in {Trigger, Manual}, NEW l \in Logs,
         api[t].pc = "create", api[t].kind = source, apiRow[l] = NoRow,
         apiRow' = [apiRow EXCEPT ![l] =
                      [status |-> "pending", event |-> api[t].event,
                       speaker |-> api[t].speaker, source |-> source]],
         api' = [api EXCEPT ![t].pc = "process", ![t].log = l],
         UNCHANGED <<others, playedVars>>
  PROVE  ApiInv'
  <1> USE DEF ApiInv, playedVars
  <1>1. apiRow'[l].status = "pending" /\ \A k \in Logs \ {l} : apiRow'[k] = apiRow[k]
    BY DEF Types
  <1>2. api'[t].pc = "process" /\ api'[t].log = l /\ api'[t].kind = source
    <2>1. api'[t] = [api[t] EXCEPT !.pc = "process", !.log = l]
      BY DEF Types
    <2> QED BY <2>1 DEF Types, Requests
  <1>3. \A u \in Callers \ {t} : api'[u] = api[u]
    BY DEF Types
  <1>4. apiRow[l].status = "none"
    BY DEF NoRow
  <1>5. Shapes'
    BY <1>2, <1>3 DEF Shapes, Empty, Holding, Handles
  <1>6. Begun'
    BY <1>1, <1>2, <1>3, <1>4 DEF Begun, Plays, Types
  <1>7. \A k \in Logs \ {l} : Player(k) => Player(k)'
    BY <1>2, <1>3 DEF Player, Plays, Handles
  <1>8. \A k \in Logs \ {l} : Somebody(k) => Somebody(k)'
    <2>1. api[t].log = NoLog
      BY DEF Shapes, Empty
    <2> QED BY <1>3, <2>1 DEF Somebody, Shapes, Types, Requests
  <1>9. Somebody(l)'
    BY <1>2 DEF Somebody
  <1>10. Attended'
    BY <1>1, <1>7, <1>8, <1>9 DEF Attended
  <1>11. Interrupting'
    <2> SUFFICES ASSUME NEW u \in Callers, api'[u].pc = "interrupt"
                 PROVE  apiRow'[api'[u].log].source = Scheduled /\ apiRow'[api'[u].log].status # "none"
      BY DEF Interrupting
    <2>1. api'[u] = api[u] /\ api[u].log \in Logs
      BY <1>2, <1>3 DEF Shapes, Holding
    <2> QED BY <2>1, <1>1, <1>4 DEF Interrupting
  <1> QED BY <1>5, <1>6, <1>10, <1>11

(* Another thread ends a row, and an ended row leaves the model.           *)
LEMMA OtherKeeps ==
  ASSUME ApiInv, Types', NEW l \in Logs, OtherEnds(l) \/ Forget(l)
  PROVE  ApiInv'
  <1> USE DEF ApiInv, playedVars
  <1>1. Shapes'
    BY DEF OtherEnds, Forget, Shapes
  <1>2. CASE OtherEnds(l)
    <2>1. \A k \in Logs :
            /\ apiRow'[k].source = apiRow[k].source
            /\ apiRow'[k].status = apiRow[k].status \/ apiRow'[k].status \in {"success", "failed"}
      BY <1>2, Saving DEF OtherEnds, States
    <2>2. apiRow'[l].status \notin {"pending", "playing"}
      <3>1. apiRow[l].status # "pending"
        BY <1>2 DEF OtherEnds, Begun
      <3>2. CASE apiRow[l].status = "playing"
        BY <1>2, <3>2, Saving DEF OtherEnds, States
      <3>3. CASE apiRow[l].status # "playing"
        BY <1>2, <3>1, <3>3 DEF OtherEnds
      <3> QED BY <3>2, <3>3
    <2>3. Begun'
      BY <1>2, <2>1 DEF OtherEnds, Begun, Types
    <2>4. \A k \in Logs \ {l} : Player(k)' = Player(k) /\ Somebody(k)' = Somebody(k)
      BY <1>2 DEF OtherEnds, Player, Somebody
    <2>5. Attended'
      BY <2>1, <2>2, <2>4 DEF Attended
    <2>6. Interrupting'
      <3> SUFFICES ASSUME NEW u \in Callers, api[u].pc = "interrupt"
                   PROVE  apiRow'[api[u].log].source = Scheduled /\ apiRow'[api[u].log].status # "none"
        BY <1>2 DEF Interrupting, OtherEnds
      <3>1. api[u].log \in Logs
        BY DEF Shapes, Holding
      <3> QED BY <3>1, <2>1 DEF Interrupting
    <2> QED BY <1>1, <2>3, <2>5, <2>6
  <1>3. CASE Forget(l)
    <2>1. apiRow'[l] = NoRow /\ \A k \in Logs \ {l} : apiRow'[k] = apiRow[k]
      BY <1>3 DEF Forget, Types
    <2>2. Begun'
      BY <1>3, <2>1 DEF Forget, Begun, Types
    <2>3. \A k \in Logs \ {l} : Player(k)' = Player(k) /\ Somebody(k)' = Somebody(k)
      BY <1>3 DEF Forget, Player, Somebody
    <2>4. Attended'
      BY <2>1, <2>3 DEF Attended, NoRow
    <2>5. Interrupting'
      BY <1>3, <2>1 DEF Interrupting, Forget, Shapes, Holding
    <2> QED BY <1>1, <2>2, <2>4, <2>5
  <1> QED BY <1>2, <1>3

-----------------------------------------------------------------------------
(* A thread's record after it is replaced by another one.                  *)
LEMMA Replacing ==
  ASSUME Types, NEW t \in Callers, NEW r \in Requests, api' = [api EXCEPT ![t] = r]
  PROVE  /\ api' \in [Callers -> Requests] /\ api'[t] = r
         /\ \A u \in Callers \ {t} : api'[u] = api[u]
  BY DEF Types

(* The steps that look at rows and write none.                             *)
LEMMA TriggerStep ==
  ASSUME Parameters, ApiInv, NEW t \in Callers,
         \/ \E e \in Events : TriggerStores(t, e)
         \/ \E s \in Speakers : TriggerPicks(t, s)
         \/ TriggerAnswers(t)
         \/ \E e \in Events, s \in Speakers : ManualStarts(t, e, s)
  PROVE  ApiInv'
  <1> USE DEF ApiInv
  <1>1. api[t].pc \in Empty /\ UNCHANGED <<apiRow, others, started, again, dropped>>
    BY DEF TriggerStores, TriggerPicks, TriggerAnswers, ManualStarts, Empty, playedVars
  <1>2. eventState' \in [Events -> {"unknown", "open", "closed"}]
    BY DEF TriggerStores, TriggerPicks, TriggerAnswers, ManualStarts, Types
  <1>3. PICK r \in Requests :
          /\ api' = [api EXCEPT ![t] = r] /\ r.pc \in Empty /\ r.log = NoLog
          /\ r.pc # "idle" => r.kind \in {Trigger, Manual}
    <2> DEFINE Fits(r) == /\ r \in Requests /\ api' = [api EXCEPT ![t] = r]
                          /\ r.pc \in Empty /\ r.log = NoLog
                          /\ r.pc # "idle" => r.kind \in {Trigger, Manual}
    <2>1. ASSUME NEW e \in Events, TriggerStores(t, e) PROVE \E r : Fits(r)
      <3> DEFINE r == [Idle EXCEPT !.pc = "next", !.kind = Trigger, !.event = e, !.todo = RuleSpeakers]
      <3>1. Idle.log = NoLog
        BY DEF Idle
      <3>2. r \in Requests /\ r.pc = "next" /\ r.log = NoLog /\ r.kind = Trigger
        BY <3>1, IdleType DEF Requests, Empty, Parameters
      <3>3. Fits(r)
        BY <2>1, <3>2 DEF TriggerStores, Empty
      <3> QED BY <3>3
    <2>2. ASSUME NEW s \in Speakers, TriggerPicks(t, s) PROVE \E r : Fits(r)
      <3>1. PICK pc \in {"next", "create"} :
              api' = [api EXCEPT ![t].pc = pc, ![t].speaker = s, ![t].todo = @ \ {s}]
        BY <2>2 DEF TriggerPicks
      <3> DEFINE r == [api[t] EXCEPT !.pc = pc, !.speaker = s, !.todo = @ \ {s}]
      <3>2. api[t] \in Requests /\ api[t].pc = "next" /\ api[t].log = NoLog
              /\ api[t].kind \in {Trigger, Manual} /\ pc \in Empty
        BY <2>2 DEF TriggerPicks, Types, Shapes, Empty
      <3>3. r \in Requests /\ r.pc = pc /\ r.log = NoLog /\ r.kind = api[t].kind
        BY <3>2 DEF Requests
      <3>4. api' = [api EXCEPT ![t] = r]
        BY <3>1 DEF Types
      <3>5. Fits(r)
        BY <3>2, <3>3, <3>4
      <3> QED BY <3>5
    <2>3. ASSUME TriggerAnswers(t) PROVE \E r : Fits(r)
      <3>1. Fits(Idle)
        BY <2>3, IdleType DEF TriggerAnswers, Idle, Empty
      <3> QED BY <3>1
    <2>4. ASSUME NEW e \in Events, NEW s \in Speakers, ManualStarts(t, e, s) PROVE \E r : Fits(r)
      <3> DEFINE r == [Idle EXCEPT !.pc = "look", !.kind = Manual, !.event = e, !.speaker = s]
      <3>1. Idle.log = NoLog
        BY DEF Idle
      <3>2. r \in Requests /\ r.pc = "look" /\ r.log = NoLog /\ r.kind = Manual
        BY <3>1, IdleType DEF Requests, Empty
      <3>3. Fits(r)
        BY <2>4, <3>2 DEF ManualStarts, Empty
      <3> QED BY <3>3
    <2> QED BY <2>1, <2>2, <2>3, <2>4
  <1>4. /\ api' \in [Callers -> Requests] /\ api'[t] = r
        /\ \A u \in Callers \ {t} : api'[u] = api[u]
    BY <1>3, Replacing
  <1>5. Types'
    BY <1>1, <1>2, <1>4 DEF Types
  <1>6. r.pc # "interrupt"
    BY <1>3 DEF Empty
  <1> QED BY <1>1, <1>3, <1>4, <1>5, <1>6, LookingKeeps

(* A request takes up a row.                                               *)
LEMMA Taking ==
  ASSUME Types, NEW t \in Callers, NEW pc \in Holding, NEW l \in Logs,
         api' = [api EXCEPT ![t].pc = pc, ![t].log = l]
  PROVE  /\ api' \in [Callers -> Requests]
         /\ api'[t].pc = pc /\ api'[t].log = l /\ api'[t].kind = api[t].kind
         /\ \A u \in Callers \ {t} : api'[u] = api[u]
  <1> DEFINE r == [api[t] EXCEPT !.pc = pc, !.log = l]
  <1>1. api[t] \in Requests
    BY DEF Types
  <1>2. r \in Requests /\ r.pc = pc /\ r.log = l /\ r.kind = api[t].kind
    BY <1>1 DEF Requests
  <1>3. api' = [api EXCEPT ![t] = r]
    BY DEF Types
  <1> QED BY <1>2, <1>3, Replacing

LEMMA ManualStep ==
  ASSUME Parameters, ApiInv, NEW t \in Callers,
         ManualLooks(t) \/ ManualLists(t) \/ ManualInterrupts(t) \/ ManualChecks(t)
  PROVE  ApiInv'
  <1> USE DEF ApiInv
  <1>1. CASE ManualLooks(t)
    <2>1. api[t].pc = "look" /\ api[t].log = NoLog /\ api[t].kind \in {Trigger, Manual}
      BY <1>1 DEF ManualLooks, Shapes, Empty
    <2>2. UNCHANGED <<eventState, apiRow, others, started, again, dropped>>
      BY <1>1 DEF ManualLooks, playedVars
    <2>3. CASE Goes(t, "list")
      BY <2>1, <2>2, <2>3, Going, LookingKeeps DEF Empty, Types
    <2>4. CASE api' = [api EXCEPT ![t] = Idle]
      <3>1. api'[t] = Idle /\ api' \in [Callers -> Requests] /\ \A u \in Callers \ {t} : api'[u] = api[u]
        BY <2>4, IdleType, Replacing
      <3>2. Idle.pc = "idle" /\ Idle.log = NoLog
        BY DEF Idle
      <3> QED BY <2>1, <2>2, <3>1, <3>2, LookingKeeps DEF Empty, Types
    <2>5. ASSUME NEW l \in Logs, api' = [api EXCEPT ![t].pc = "process", ![t].log = l] PROVE ApiInv'
      <3>1. "process" \in Holding
        BY DEF Holding, Handles
      <3>2. /\ api' \in [Callers -> Requests]
            /\ api'[t].pc = "process" /\ api'[t].log = l /\ api'[t].kind = api[t].kind
            /\ \A u \in Callers \ {t} : api'[u] = api[u]
        BY <2>5, <3>1, Taking
      <3>3. Types'
        BY <2>2, <3>2 DEF Types
      <3> QED BY <2>1, <2>2, <3>2, <3>3, LookingKeeps DEF Empty
    <2>6. \/ Goes(t, "list") \/ api' = [api EXCEPT ![t] = Idle]
          \/ \E l \in Logs : api' = [api EXCEPT ![t].pc = "process", ![t].log = l]
      BY <1>1 DEF ManualLooks, ActiveOn, Types
    <2> QED BY <2>3, <2>4, <2>5, <2>6
  <1>2. CASE ManualLists(t)
    <2>1. api[t].pc = "list" /\ api[t].log = NoLog /\ api[t].kind \in {Trigger, Manual}
      BY <1>2 DEF ManualLists, Shapes, Empty
    <2>2. UNCHANGED <<eventState, apiRow, others, started, again, dropped>>
      BY <1>2 DEF ManualLists, playedVars
    <2>3. CASE Goes(t, "check")
      BY <2>1, <2>2, <2>3, Going, LookingKeeps DEF Empty, Types
    <2>4. ASSUME NEW l \in Logs, api' = [api EXCEPT ![t].pc = "interrupt", ![t].log = l],
                 Active(l), Lower(l)
          PROVE  ApiInv'
      <3>1. "interrupt" \in Holding
        BY DEF Holding, Handles
      <3>2. /\ api' \in [Callers -> Requests]
            /\ api'[t].pc = "interrupt" /\ api'[t].log = l /\ api'[t].kind = api[t].kind
            /\ \A u \in Callers \ {t} : api'[u] = api[u]
        BY <2>4, <3>1, Taking
      <3>3. Types'
        BY <2>2, <3>2 DEF Types
      <3>4. apiRow[l].source = Scheduled /\ apiRow[l].status # "none"
        BY <2>4 DEF Active, Lower
      <3> QED BY <2>1, <2>2, <3>2, <3>3, <3>4, LookingKeeps DEF Empty
    <2> QED BY <1>2, <2>3, <2>4 DEF ManualLists, ActiveOn
  <1>3. CASE ManualInterrupts(t)
    <2>1. api[t].pc = "interrupt" /\ api[t].log \in Logs /\ api[t].kind \in {Trigger, Manual}
      BY <1>3 DEF ManualInterrupts, Shapes, Holding, Handles
    <2>2. UNCHANGED <<eventState, others, started, again, dropped>>
      BY <1>3 DEF ManualInterrupts, playedVars
    <2>3. /\ apiRow' \in [Logs -> Rows]
          /\ \A k \in Logs : apiRow'[k].source = apiRow[k].source
          /\ \A k \in Logs : apiRow'[k].status = IF k = api[t].log THEN "skipped" ELSE apiRow[k].status
      BY <1>3, Saving DEF ManualInterrupts, States
    <2>4. /\ api' \in [Callers -> Requests]
          /\ api'[t].pc = "check" /\ api'[t].log = NoLog /\ api'[t].kind = api[t].kind
          /\ \A u \in Callers \ {t} : api'[u] = api[u]
      <3> DEFINE r == [api[t] EXCEPT !.pc = "check", !.log = NoLog]
      <3>1. api[t] \in Requests /\ "check" \in Empty
        BY DEF Types, Empty
      <3>2. r \in Requests /\ r.pc = "check" /\ r.log = NoLog /\ r.kind = api[t].kind
        BY <3>1 DEF Requests
      <3>3. api' = [api EXCEPT ![t] = r]
        BY <1>3 DEF ManualInterrupts, Types
      <3> QED BY <3>2, <3>3, Replacing
    <2> QED BY <2>1, <2>2, <2>3, <2>4, LeavingKeeps DEF Types, Empty
  <1>4. CASE ManualChecks(t)
    <2>1. api[t].pc = "check" /\ api[t].log = NoLog /\ api[t].kind \in {Trigger, Manual}
      BY <1>4 DEF ManualChecks, Shapes, Empty
    <2>2. UNCHANGED <<eventState, apiRow, others, started, again, dropped>>
      BY <1>4 DEF ManualChecks, playedVars
    <2>3. CASE Leaves(t)
      BY <2>1, <2>2, <2>3, Leaving, LookingKeeps DEF Empty, Types
    <2>4. CASE Goes(t, "create")
      BY <2>1, <2>2, <2>4, Going, LookingKeeps DEF Empty, Types
    <2> QED BY <1>4, <2>3, <2>4 DEF ManualChecks
  <1> QED BY <1>1, <1>2, <1>3, <1>4

LEMMA CreateStep ==
  ASSUME Parameters, ApiInv, NEW t \in Callers, NEW source \in {Trigger, Manual}, Creates(t, source)
  PROVE  ApiInv'
  <1> USE DEF ApiInv
  <1>1. api[t].pc = "create" /\ api[t].kind = source /\ api[t].log = NoLog
    BY DEF Creates, Shapes, Empty
  <1>2. UNCHANGED <<eventState, others, started, again, dropped>>
    BY DEF Creates, playedVars
  <1>3. CASE Leaves(t) /\ UNCHANGED apiRow
    BY <1>1, <1>2, <1>3, Leaving, LookingKeeps DEF Empty, Types
  <1>4. ASSUME NEW l \in Logs, apiRow[l] = NoRow,
               apiRow' = [apiRow EXCEPT ![l] =
                            [status |-> "pending", event |-> api[t].event,
                             speaker |-> api[t].speaker, source |-> source]],
               api' = [api EXCEPT ![t].pc = "process", ![t].log = l]
        PROVE  ApiInv'
    <2>1. "process" \in Holding
      BY DEF Holding, Handles
    <2>2. api' \in [Callers -> Requests]
      BY <1>4, <2>1, Taking
    <2>3. apiRow' \in [Logs -> Rows]
      <3>1. api[t].event \in Events \union {NoLog} /\ api[t].speaker \in Speakers \union {NoLog}
        BY DEF Types, Requests
      <3> QED BY <1>4, <3>1 DEF Types, Rows, States
    <2>4. Types'
      BY <1>2, <2>2, <2>3 DEF Types
    <2> QED BY <1>1, <1>2, <1>4, <2>4, CreateKeeps DEF playedVars
  <1> QED BY <1>3, <1>4 DEF Creates

(* process_single_broadcast_log in the request's own thread.               *)
LEMMA PlayStep ==
  ASSUME Parameters, ApiInv, NEW t \in Callers,
         Prepares(t) \/ PlaybackEnds(t) \/ Refreshes(t) \/ Marks(t) \/ ProcessRaises(t)
         \/ HandlerReads(t) \/ HandlerFails(t)
  PROVE  ApiInv'
  <1> USE DEF ApiInv
  <1> DEFINE l == api[t].log
  <1>1. api[t].pc \in Holding /\ l \in Logs /\ api[t].kind \in {Trigger, Manual}
    <2>1. api[t].pc \in Holding
      BY DEF Prepares, PlaybackEnds, Refreshes, Marks, ProcessRaises, HandlerReads, HandlerFails, Holding, Plays, Handles
    <2> QED BY <2>1 DEF Shapes, Holding, Plays, Handles
  <1>2. UNCHANGED <<eventState, others>>
    BY DEF Prepares, PlaybackEnds, Refreshes, Marks, ProcessRaises, HandlerReads, HandlerFails
  (* Leaving, with what it did to the row.                                 *)
  <1>3. ASSUME Leaves(t), UNCHANGED <<started, again>>,
               dropped \subseteq dropped', dropped' \subseteq Logs,
               \/ UNCHANGED apiRow
               \/ \E st \in {"success", "failed"} : Saves(l, st),
               \/ apiRow'[l].status \notin {"pending", "playing"}
               \/ apiRow'[l].status = "playing" /\ api[t].pc = "process"
               \/ l \in dropped'
        PROVE  ApiInv'
    <2>1. /\ apiRow' \in [Logs -> Rows]
          /\ \A k \in Logs : apiRow'[k].source = apiRow[k].source
          /\ \A k \in Logs : apiRow'[k].status = apiRow[k].status \/ apiRow'[k].status \in {"success", "failed"}
      BY <1>3, Saving DEF States, Types
    <2>2. /\ api' \in [Callers -> Requests]
          /\ api'[t].pc \in Empty /\ api'[t].log = NoLog
          /\ api'[t].pc # "idle" => api'[t].kind \in {Trigger, Manual}
          /\ \A u \in Callers \ {t} : api'[u] = api[u]
      BY <1>3, Leaving DEF Empty
    <2>3. Types'
      BY <1>2, <1>3, <2>1, <2>2 DEF Types
    <2> QED BY <1>2, <1>3, <2>1, <2>2, <2>3, LeavingKeeps
  <1>4. CASE Prepares(t)
    <2>1. CASE ~MayPlay(l)
      <3>1. Leaves(t) /\ UNCHANGED <<apiRow, started, again, dropped>> /\ api[t].pc = "process"
        BY <1>4, <2>1 DEF Prepares
      <3> QED BY <1>3, <2>1, <3>1 DEF MayPlay, Types
    <2>2. CASE Begins(l) /\ Goes(t, "playing") /\ MayPlay(l)
      <3>1. "playing" \in Holding
        BY DEF Holding, Plays, Handles
      <3>2. /\ api' \in [Callers -> Requests]
            /\ api'[t].pc = "playing" /\ api'[t].log = l /\ api'[t].kind = api[t].kind
            /\ \A u \in Callers \ {t} : api'[u] = api[u]
        BY <2>2, <3>1, Going
      <3>3. apiRow' \in [Logs -> Rows]
        BY <2>2, Saving DEF Begins, States
      <3>4. api[t].pc = "process" /\ UNCHANGED dropped
        BY <1>4 DEF Prepares
      <3>5. Types'
        BY <1>1, <1>2, <2>2, <3>2, <3>3, <3>4 DEF Types, Begins
      <3> QED BY <1>1, <1>2, <2>2, <3>2, <3>4, <3>5, BeginKeeps DEF MayPlay
    <2>3. CASE Saves(l, "failed") /\ Leaves(t) /\ UNCHANGED <<started, again>>
      <3>1. apiRow'[l].status = "failed"
        BY <1>1, <2>3, Saving DEF States
      <3> QED BY <1>3, <1>4, <2>3, <3>1 DEF Prepares, Types
    <2> QED BY <1>4, <2>1, <2>2, <2>3 DEF Prepares
  (* Staying with the row.                                                 *)
  <1>5. ASSUME NEW pc \in Plays \union Handles, Goes(t, pc), UNCHANGED <<apiRow, started, again>>,
               api[t].pc \in Plays \union Handles \/ api[t].pc = "process",
               pc \in Plays => api[t].pc \in Plays, UNCHANGED dropped
        PROVE  ApiInv'
    <2>1. pc \in Holding
      BY DEF Holding, Handles
    <2>2. /\ api' \in [Callers -> Requests]
          /\ api'[t].pc = pc /\ api'[t].log = api[t].log /\ api'[t].kind = api[t].kind
          /\ \A u \in Callers \ {t} : api'[u] = api[u]
      BY <1>5, <2>1, Going
    <2>3. Types'
      BY <1>2, <1>5, <2>2 DEF Types
    <2>4. api'[t].pc # "interrupt"
      BY <2>2 DEF Plays, Handles
    <2> QED BY <1>1, <1>2, <1>5, <2>2, <2>3, <2>4, LookingKeeps
  <1>6. CASE PlaybackEnds(t)
    BY <1>5, <1>6 DEF PlaybackEnds, playedVars, Plays
  <1>7. CASE Refreshes(t)
    <2>1. UNCHANGED <<apiRow, started, again, dropped>> /\ api[t].pc = "ended"
      BY <1>7 DEF Refreshes, playedVars
    <2>2. CASE apiRow[l].status = "playing"
      BY <1>5, <1>7, <2>1, <2>2 DEF Refreshes, Plays
    <2>3. CASE apiRow[l].status # "playing"
      <3>1. apiRow[l].status # "pending"
        BY <2>1 DEF Begun, Plays
      <3> QED BY <1>3, <1>7, <2>1, <2>3, <3>1 DEF Refreshes, Types
    <2> QED BY <2>2, <2>3
  <1>8. CASE Marks(t) \/ HandlerFails(t)
    <2>1. PICK st \in {"success", "failed"} : Saves(l, st)
      BY <1>8 DEF Marks, HandlerFails
    <2>2. Leaves(t) /\ UNCHANGED <<started, again, dropped>>
      BY <1>8 DEF Marks, HandlerFails, playedVars
    <2>3. apiRow'[l].status = st
      BY <1>1, <2>1, Saving DEF States
    <2> QED BY <1>3, <2>1, <2>2, <2>3 DEF Types
  <1>9. CASE ProcessRaises(t)
    <2>1. UNCHANGED <<apiRow, started, again>> /\ (api[t].pc \in Plays \/ api[t].pc = "process")
      BY <1>9 DEF ProcessRaises, Plays
    <2>2. CASE api[t].kind = Trigger
      <3>1. UNCHANGED dropped /\ Goes(t, "handler")
        BY <1>9, <2>2 DEF ProcessRaises, Trigger, Manual
      <3> QED BY <1>5, <2>1, <3>1 DEF Plays, Handles
    <2>4. CASE api[t].kind = Manual
      <3>1. dropped' = dropped \union {l} /\ Leaves(t)
        BY <1>9, <2>4 DEF ProcessRaises, Trigger, Manual
      <3> QED BY <1>1, <1>3, <2>1, <3>1 DEF Types
    <2> QED BY <1>1, <2>2, <2>4
  <1>10. CASE HandlerReads(t)
    <2>1. UNCHANGED <<apiRow, started, again, dropped>> /\ api[t].pc = "handler"
      BY <1>10 DEF HandlerReads, playedVars
    <2>2. CASE HandlerCovers(l)
      BY <1>5, <1>10, <2>1, <2>2 DEF HandlerReads, Plays, Handles
    <2>3. CASE ~HandlerCovers(l)
      <3>1. Leaves(t)
        BY <1>10, <2>3 DEF HandlerReads
      <3> QED BY <1>3, <2>1, <2>3, <3>1 DEF HandlerCovers, Active, Types
    <2> QED BY <2>2, <2>3
  <1> QED BY <1>4, <1>6, <1>7, <1>8, <1>9, <1>10

(* The request raises, with or without a row.                              *)
LEMMA RaiseStep ==
  ASSUME Parameters, ApiInv, NEW t \in Callers, RequestRaises(t)
  PROVE  ApiInv'
  <1> USE DEF ApiInv
  <1>1. /\ api[t].pc \in Empty \union Handles \/ api[t].pc = "interrupt"
        /\ api' = [api EXCEPT ![t] = Idle]
        /\ dropped' = IF api[t].pc \in Handles THEN dropped \union {api[t].log} ELSE dropped
        /\ UNCHANGED <<eventState, apiRow, others, started, again>>
    BY DEF RequestRaises, Empty, Handles
  <1>2. /\ api'[t] = Idle /\ api' \in [Callers -> Requests]
        /\ \A u \in Callers \ {t} : api'[u] = api[u]
    BY <1>1, IdleType, Replacing
  <1>3. Idle.pc = "idle" /\ Idle.log = NoLog
    BY DEF Idle
  <1>4. CASE api[t].pc \in Empty
    <2>1. UNCHANGED dropped
      BY <1>1, <1>4 DEF Empty, Handles
    <2>2. Types'
      BY <1>1, <1>2, <2>1 DEF Types
    <2> QED BY <1>1, <1>2, <1>3, <1>4, <2>1, <2>2, LookingKeeps DEF Empty
  <1>5. CASE api[t].pc \in Handles \/ api[t].pc = "interrupt"
    <2>1. api[t].log \in Logs
      BY <1>5 DEF Shapes, Holding
    <2>2. Types' /\ dropped \subseteq dropped'
      BY <1>1, <1>2, <2>1 DEF Types
    <2>3. api[t].pc = "interrupt" \/ api[t].log \in dropped'
      BY <1>1, <1>5
    <2> QED BY <1>1, <1>2, <1>3, <2>2, <2>3, LeavingKeeps DEF Empty
  <1> QED BY <1>1, <1>4, <1>5

(* What happens beside the requests.                                       *)
LEMMA BesideStep ==
  ASSUME ApiInv,
         \/ \E l \in Logs : OtherTakes(l) \/ OtherEnds(l) \/ Forget(l)
         \/ \E s \in Speakers : ScheduleRuns(s)
         \/ \E e \in Events : Closes(e)
  PROVE  ApiInv'
  <1> USE DEF ApiInv
  <1>1. ASSUME NEW l \in Logs, OtherTakes(l) PROVE ApiInv'
    <2>1. apiRow' \in [Logs -> Rows]
      BY <1>1, Saving DEF OtherTakes, Begins, States
    <2>2. Types'
      BY <1>1, <2>1 DEF OtherTakes, Begins, Types
    <2> QED BY <1>1, <2>2, BeginKeeps DEF OtherTakes
  <1>2. ASSUME NEW l \in Logs, OtherEnds(l) \/ Forget(l) PROVE ApiInv'
    <2>1. apiRow' \in [Logs -> Rows]
      <3>1. NoRow \in Rows
        BY DEF NoRow, Rows, States
      <3>2. CASE OtherEnds(l)
        BY <3>2, Saving DEF OtherEnds, States, Types
      <3>3. CASE Forget(l)
        BY <3>1, <3>3 DEF Forget, Types
      <3> QED BY <1>2, <3>2, <3>3
    <2>2. Types'
      BY <1>2, <2>1 DEF OtherEnds, Forget, playedVars, Types
    <2> QED BY <1>2, <2>2, OtherKeeps
  <1>3. ASSUME NEW s \in Speakers, ScheduleRuns(s) PROVE ApiInv'
    <2>1. PICK l \in Logs : /\ apiRow[l] = NoRow
                            /\ apiRow' = [apiRow EXCEPT ![l] =
                                 [status |-> "pending", event |-> NoLog, speaker |-> s, source |-> Scheduled]]
      BY <1>3 DEF ScheduleRuns
    <2>2. apiRow' \in [Logs -> Rows]
      BY <2>1 DEF Types, Rows, States
    <2>3. Types'
      BY <1>3, <2>2 DEF ScheduleRuns, playedVars, Types
    <2>4. /\ apiRow[l].status = "none"
          /\ apiRow'[l].status = "pending" /\ apiRow'[l].source = Scheduled /\ Scheduled # Trigger
      BY <2>1 DEF NoRow, Types, Scheduled, Trigger
    <2>5. \A k \in Logs \ {l} : apiRow'[k] = apiRow[k]
      BY <2>1 DEF Types
    <2> QED BY <1>3, <2>3, <2>4, <2>5, RowsKeep DEF ScheduleRuns
  <1>4. ASSUME NEW e \in Events, Closes(e) PROVE ApiInv'
    <2>1. \A k \in Logs : apiRow'[k] = apiRow[k] \/ apiRow'[k] = [apiRow[k] EXCEPT !.status = "skipped"]
      BY <1>4 DEF Closes
    <2>2. \A k \in Logs : [apiRow[k] EXCEPT !.status = "skipped"] \in Rows
                          /\ [apiRow[k] EXCEPT !.status = "skipped"].status = "skipped"
                          /\ [apiRow[k] EXCEPT !.status = "skipped"].source = apiRow[k].source
      BY DEF Types, Rows, States
    <2>3. apiRow' \in [Logs -> Rows]
      BY <1>4, <2>2 DEF Closes, Types
    <2>4. eventState' \in [Events -> {"unknown", "open", "closed"}]
      BY <1>4 DEF Closes, Types
    <2>5. Types'
      BY <1>4, <2>3, <2>4 DEF Closes, playedVars, Types
    <2> QED BY <1>4, <2>1, <2>2, <2>5, RowsKeep DEF Closes
  <1> QED BY <1>1, <1>2, <1>3, <1>4

LEMMA ApiStep == ASSUME Parameters, ApiInv, [Next]_apiVars PROVE ApiInv'
  <1>1. CASE Next
    BY <1>1, TriggerStep, ManualStep, CreateStep, PlayStep, RaiseStep, BesideStep DEF Next
  <1>2. CASE UNCHANGED apiVars
    <2>1. Types'
      BY <1>2 DEF apiVars, playedVars, ApiInv, Types
    <2> QED BY <1>2, <2>1, RowsKeep DEF apiVars
  <1> QED BY <1>1, <1>2

LEMMA ApiAlways == Spec => []ApiInv
  <1> USE ParametersHold
  <1>1. Init => ApiInv
    BY ApiInit
  <1>2. ApiInv /\ [Next]_apiVars => ApiInv'
    BY ApiStep
  <1> QED BY <1>1, <1>2, PTL DEF Spec

(* Every variable of the event API keeps its type.                         *)
THEOREM TypeCorrect == Spec => []TypeOK
  <1>1. ApiInv => TypeOK
    BY TypesImply DEF ApiInv
  <1> QED BY <1>1, ApiAlways, PTL

(* A row is played once, whoever takes it up: triggers, manual requests,   *)
(* pools (prepare_broadcast_log_for_playback), in any number.              *)
THEOREM PlaysOnceAlways == Spec => []PlaysOnce
  <1>1. ApiInv => PlaysOnce
    BY DEF ApiInv, Begun, PlaysOnce
  <1> QED BY <1>1, ApiAlways, PTL

(* No row of the trigger stays active without somebody who has it, whatever*)
(* its processing raises, unless its handler, or a manual request, raised  *)
(* on it as well.                                                          *)
THEOREM TriggerRowsAlways == Spec => []TriggerRowsAreSettled
  <1>1. ApiInv => TriggerRowsAreSettled
    <2> SUFFICES ASSUME ApiInv, NEW l \in Logs, Active(l), apiRow[l].source = Trigger
                 PROVE  l \in others \union dropped \/ \E t \in Callers : api[t].log = l
      BY DEF TriggerRowsAreSettled
    <2>1. Player(l) \/ Somebody(l)
      BY DEF Active, ApiInv, Attended
    <2> QED BY <2>1 DEF Player, Somebody
  <1> QED BY <1>1, ApiAlways, PTL

=============================================================================
