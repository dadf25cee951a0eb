----------------------- MODULE StationServices_proofs -----------------------
(***************************************************************************)
(* Theorems about services of the station: ConfigRestore, SchedulerProcess,*)
(* StreamPool, HostPolling and ZoneCounts, and about MCStation, which runs *)
(* them with Microphone, OccSync and StationApi.                           *)
(***************************************************************************)
EXTENDS MCStation, Microphone_proofs, ControlCentre_proofs, FiniteSetTheorems, TLAPS

(***************************************************************************)
(* ConfigRestore: for any number of operators and edits.                   *)
(***************************************************************************)

ConfigParameters == MaxEdits \in Nat /\ Nobody \notin Operators

LEMMA ConfigParametersHold == ConfigParameters
  BY ConfigAssumption DEF ConfigParameters

-----------------------------------------------------------------------------
(* What the updates of the tables return.                                  *)

LEMMA EditedTables ==
  ASSUME NEW t \in Tables, NEW p \in Parts, NEW n \in Edit, NEW b \in BOOLEAN
  PROVE  /\ [t EXCEPT !.value[p] = n, !.runs = b] \in Tables
         /\ [t EXCEPT !.value[p] = n, !.runs = b].epoch = t.epoch
  BY DEF Tables

LEMMA StoppedTables ==
  ASSUME NEW t \in Tables
  PROVE  /\ [t EXCEPT !.runs = FALSE] \in Tables
         /\ [t EXCEPT !.runs = FALSE].epoch = t.epoch
  BY DEF Tables

(* Restoring a part counts one more restore for it and for no other.       *)
LEMMA RestoredTables ==
  ASSUME ConfigTypeOK, NEW t \in Tables, NEW p \in Parts
  PROVE  /\ Restored(t, p) \in Tables
         /\ \A q \in Parts :
              Restored(t, p).epoch[q] = IF q = p THEN t.epoch[q] + 1 ELSE t.epoch[q]
  <1>1. archive.tables \in Tables
    BY DEF ConfigTypeOK
  <1>2. archive.tables.value[p] \in Edit
    BY <1>1 DEF Tables
  <1> DEFINE v == [t.value EXCEPT ![p] = archive.tables.value[p]]
             e == [t.epoch EXCEPT ![p] = t.epoch[p] + 1]
  <1>3. Restored(t, p) = [t EXCEPT !.value = v, !.epoch = e]
    BY DEF Restored, Tables
  <1>4. v \in [Parts -> Edit]
    BY <1>2 DEF Tables
  <1>5. /\ e \in [Parts -> Nat]
        /\ \A q \in Parts : e[q] = IF q = p THEN t.epoch[q] + 1 ELSE t.epoch[q]
    BY DEF Tables
  <1> HIDE DEF v, e
  <1>6. [t EXCEPT !.value = v, !.epoch = e] \in Tables
    BY <1>4, <1>5 DEF Tables
  <1>7. [t EXCEPT !.value = v, !.epoch = e].epoch = e
    BY DEF Tables
  <1> QED BY <1>3, <1>5, <1>6, <1>7

LEMMA NoTablesType ==
  ASSUME MaxEdits \in Nat
  PROVE  NoTables \in Tables
  BY DEF NoTables, Tables, Edit

-----------------------------------------------------------------------------
(* Type correctness.                                                       *)

(* The secrets an operator enters, or a restore writes, are secrets.       *)
LEMMA SecretsType ==
  ASSUME MaxEdits \in Nat, NEW c \in [Secrets -> Edit], NEW k \in Secrets, NEW n \in Edit
  PROVE  [c EXCEPT ![k] = n] \in [Secrets -> Edit] /\ NoSecrets \in [Secrets -> Edit] /\ 0 \in Edit
  BY DEF NoSecrets, Edit

LEMMA RollBackType ==
  ASSUME ConfigTypeOK, ConfigParameters, NEW o \in Operators, NEW why \in {"schedule", "media", "crash"},
         RollBack(o, why)
  PROVE  /\ db' \in Tables /\ txn' \in Tables
         /\ writer' \in Operators \union {Nobody}
         /\ op' \in [Operators -> {"idle", "export", "copied", "objects", "audio", "schedules", "restored"}]
         /\ restoreErrors' \subseteq {"schedule", "media", "crash"}
  BY NoTablesType DEF ConfigTypeOK, ConfigParameters, RollBack

LEMMA EditType ==
  ASSUME ConfigTypeOK, ConfigParameters,
         (\E k \in Secrets : EditSecret(k)) \/ \E p \in Parts, active \in BOOLEAN : EditPart(p, active)
  PROVE  ConfigTypeOK'
  <1> USE DEF ConfigTypeOK
  <1>1. ASSUME NEW k \in Secrets, EditSecret(k)
        PROVE  ConfigTypeOK'
    <2>1. edits' \in Edit
      <3>1. edits < MaxEdits /\ edits' = edits + 1
        BY <1>1 DEF EditSecret
      <3> QED BY <3>1 DEF Edit, ConfigParameters
    <2>2. secret' \in [Secrets -> Edit] /\ lastSecret' \in [Secrets -> Edit]
      BY <1>1, <2>1 DEF EditSecret
    <2> QED BY <1>1, <2>1, <2>2 DEF EditSecret
  <1>2. ASSUME NEW p \in Parts, NEW active \in BOOLEAN, EditPart(p, active)
        PROVE  ConfigTypeOK'
    <2>1. edits' \in Edit
      <3>1. edits < MaxEdits /\ edits' = edits + 1
        BY <1>2 DEF EditPart
      <3> QED BY <3>1 DEF Edit, ConfigParameters
    <2>2. PICK b \in BOOLEAN : b = IF p = "schedules" THEN active ELSE db.runs
      <3>1. db.runs \in BOOLEAN
        BY DEF Tables
      <3> QED BY <3>1, Zenon
    <2>3. db' = [db EXCEPT !.value[p] = edits', !.runs = b]
      BY <1>2, <2>2 DEF EditPart
    <2>4. db' \in Tables
      BY <2>1, <2>3, EditedTables
    <2> QED BY <1>2, <2>1, <2>4 DEF EditPart
  <1> QED BY <1>1, <1>2

LEMMA OperatorType ==
  ASSUME ConfigTypeOK, ConfigParameters, NEW o \in Operators,
         \/ ExportBegins(o) \/ (\E p \in Parts : ExportRows(o, p)) \/ ExportMedia(o)
         \/ RestoreCopies(o) \/ RestoreObjects(o)
         \/ RestoreAudio(o) \/ MediaFails(o) \/ RestoreSchedules(o) \/ Unstage(o)
  PROVE  ConfigTypeOK'
  <1> USE DEF ConfigTypeOK
  <1>0. 0 \in Edit
    BY DEF Edit, ConfigParameters
  <1>1. CASE ExportBegins(o)
    <2>1. archive' = [state |-> "begun", tables |-> NoTables, file |-> 0]
      BY <1>1 DEF ExportBegins, NoArchive
    <2>2. archive' \in [state : {"none", "begun", "complete"} \union Parts, tables : Tables, file : Edit]
      BY <1>0, <2>1, NoTablesType DEF ConfigParameters
    <2> QED BY <1>1, <2>2 DEF ExportBegins
  <1>2. CASE ExportMedia(o)
    <2>1. archive' \in [state : {"none", "begun", "complete"} \union Parts, tables : Tables, file : Edit]
      BY <1>2 DEF ExportMedia
    <2> QED BY <1>2, <2>1 DEF ExportMedia
  <1>9. ASSUME NEW p \in Parts, ExportRows(o, p)
        PROVE  ConfigTypeOK'
    <2> DEFINE t == [value |-> [archive.tables.value EXCEPT ![p] = db.value[p]], runs |-> db.runs,
                     epoch |-> [archive.tables.epoch EXCEPT ![p] = db.epoch[p]]]
    <2>1. t \in Tables
      BY DEF Tables
    <2>2. archive' = [archive EXCEPT !.state = p, !.tables = t]
      BY <1>9 DEF ExportRows
    <2> HIDE DEF t
    <2>3. archive' \in [state : {"none", "begun", "complete"} \union Parts, tables : Tables, file : Edit]
      BY <2>1, <2>2
    <2> QED BY <1>9, <2>3 DEF ExportRows
  <1>3. CASE RestoreCopies(o)
    <2>1. restorePoint' \in [tables : Tables, secret : [Secrets -> Edit]]
      BY <1>3 DEF RestoreCopies
    <2> QED BY <1>3, <2>1 DEF RestoreCopies
  <1>4. CASE RestoreObjects(o)
    <2>1. txn' \in Tables
      BY <1>4, RestoredTables DEF RestoreObjects, Parts
    <2>2. ExistingSecret \in [Secrets -> Edit]
      BY <1>0 DEF ExistingSecret
    <2> QED BY <1>4, <2>1, <2>2 DEF RestoreObjects
  <1>5. CASE RestoreAudio(o)
    <2>1. txn' \in Tables
      BY <1>5, RestoredTables DEF RestoreAudio, Parts
    <2> QED BY <1>5, <2>1 DEF RestoreAudio
  <1>6. CASE MediaFails(o)
    <2>1. RollBack(o, "media")
      BY <1>6 DEF MediaFails
    <2> QED BY <1>6, <2>1, RollBackType DEF MediaFails
  <1>7. CASE RestoreSchedules(o)
    <2>1. CASE archive.tables.runs
      <3>1. RollBack(o, "schedule") /\ UNCHANGED secret
        BY <1>7, <2>1 DEF RestoreSchedules
      <3> QED BY <1>7, <3>1, RollBackType DEF RestoreSchedules
    <2>2. CASE ~archive.tables.runs
      <3>1. /\ db' = [Restored(txn, "schedules") EXCEPT !.runs = FALSE]
            /\ secret' = txnSecret /\ writer' = Nobody /\ txn' = NoTables
            /\ op' = [op EXCEPT ![o] = "restored"]
            /\ UNCHANGED restoreErrors
        BY <1>7, <2>2 DEF RestoreSchedules
      <3>2. Restored(txn, "schedules") \in Tables
        BY RestoredTables DEF Parts
      <3>3. db' \in Tables /\ txn' \in Tables
        BY <3>1, <3>2, StoppedTables, NoTablesType DEF ConfigParameters
      <3> QED BY <1>7, <3>1, <3>3 DEF RestoreSchedules
    <2> QED BY <2>1, <2>2
  <1>8. CASE Unstage(o)
    BY <1>8 DEF Unstage
  <1> QED BY <1>1, <1>2, <1>3, <1>4, <1>5, <1>6, <1>7, <1>8, <1>9

LEMMA ServerType ==
  ASSUME ConfigTypeOK, ConfigParameters, Stage \/ ServerDies \/ UNCHANGED cfgVars
  PROVE  ConfigTypeOK'
  <1> USE DEF ConfigTypeOK
  <1>1. CASE Stage
    BY <1>1 DEF Stage
  <1>2. CASE ServerDies
    <2>1. writer \in Operators /\ RollBack(writer, "crash")
      BY <1>2 DEF ServerDies
    <2> QED BY <1>2, <2>1, RollBackType DEF ServerDies
  <1>3. CASE UNCHANGED cfgVars
    BY <1>3 DEF cfgVars
  <1> QED BY <1>1, <1>2, <1>3

(* Every variable of the restore keeps its type.                           *)
THEOREM ConfigTypesCorrect == ConfigSpec => []ConfigTypeOK
  <1> USE ConfigParametersHold
  <1>1. ConfigInit => ConfigTypeOK
    <2>1. 0 \in Edit /\ NoTables \in Tables
      BY NoTablesType DEF Edit, ConfigParameters
    <2>2. /\ NoArchive \in [state : {"none", "begun", "complete"} \union Parts, tables : Tables, file : Edit]
          /\ NoSecrets \in [Secrets -> Edit]
          /\ [tables |-> NoTables, secret |-> NoSecrets] \in [tables : Tables, secret : [Secrets -> Edit]]
      BY <2>1 DEF NoArchive, NoSecrets
    <2> QED BY <2>1, <2>2 DEF ConfigInit, ConfigTypeOK
  <1>2. ConfigTypeOK /\ [BoundedConfigNext]_cfgVars => ConfigTypeOK'
    BY EditType, OperatorType, ServerType DEF BoundedConfigNext, ConfigNext
  <1> QED BY <1>1, <1>2, PTL DEF ConfigSpec

-----------------------------------------------------------------------------
(* A restore is whole and costs no password that has a column of its own.  *)

(* The operator whose transaction is open is the writer, and what the      *)
(* transaction holds differs from the tables by the parts written so far:  *)
(* nobody else wrote since it began.                                       *)
Ahead(S) ==
  \A p \in Parts : txn.epoch[p] = IF p \in S THEN db.epoch[p] + 1 ELSE db.epoch[p]

Open(o) == op[o] \in {"objects", "audio"}

RestoreInv ==
  /\ RestoreIsSafe
  /\ \A o \in Operators :
       /\ Open(o) => writer = o /\ txnSecret["password"] = secret["password"]
       /\ op[o] = "objects" => Ahead({"objects"})
       /\ op[o] = "audio" => Ahead({"objects", "audio"})

(* Ending a transaction without committing leaves everything sound.        *)
LEMMA RollBackKeeps ==
  ASSUME ConfigTypeOK, ConfigParameters, RestoreInv, NEW o \in Operators, writer = o,
         NEW why, RollBack(o, why), UNCHANGED <<secret, lastSecret>>
  PROVE  RestoreInv'
  <1>1. \A x \in Operators : op'[x] \notin {"objects", "audio"}
    BY DEF RollBack, RestoreInv, Open, ConfigTypeOK
  <1>2. RestoreIsSafe'
    BY DEF RestoreInv, RestoreIsSafe, NoHalfRestore, PasswordsSurvive, RollBack
  <1> QED BY <1>1, <1>2 DEF RestoreInv, Open

(* Steps outside of transactions.                                          *)
LEMMA NobodyWrites ==
  ASSUME ConfigTypeOK, ConfigParameters, RestoreInv, writer = Nobody,
         \A o \in Operators : op'[o] \in {"objects", "audio"} => op[o] = op'[o],
         db'.epoch = db.epoch, secret'["password"] = lastSecret'["password"]
  PROVE  RestoreInv'
  <1>1. \A o \in Operators : ~Open(o)
    BY DEF RestoreInv, ConfigParameters
  <1>2. \A o \in Operators : op'[o] \notin {"objects", "audio"}
    BY <1>1 DEF Open
  <1>3. RestoreIsSafe'
    BY DEF RestoreInv, RestoreIsSafe, NoHalfRestore, PasswordsSurvive
  <1> QED BY <1>2, <1>3 DEF RestoreInv, Open

LEMMA EditKeeps ==
  ASSUME ConfigTypeOK, ConfigParameters, RestoreInv,
         (\E k \in Secrets : EditSecret(k)) \/ \E p \in Parts, active \in BOOLEAN : EditPart(p, active)
  PROVE  RestoreInv'
  <1>1. secret["password"] = lastSecret["password"]
    BY DEF RestoreInv, RestoreIsSafe, PasswordsSurvive
  <1>2. ASSUME NEW k \in Secrets, EditSecret(k)
        PROVE  RestoreInv'
    <2>1. secret'["password"] = lastSecret'["password"]
      BY <1>1, <1>2 DEF EditSecret, ConfigTypeOK, Secrets
    <2> QED BY <1>2, <2>1, NobodyWrites DEF EditSecret
  <1>3. ASSUME NEW p \in Parts, NEW active \in BOOLEAN, EditPart(p, active)
        PROVE  RestoreInv'
    <2>1. writer = Nobody /\ secret'["password"] = lastSecret'["password"] /\ op' = op
      BY <1>1, <1>3 DEF EditPart
    <2>2. db'.epoch = db.epoch
      BY <1>3 DEF EditPart, ConfigTypeOK, Tables
    <2> QED BY <2>1, <2>2, NobodyWrites
  <1> QED BY <1>2, <1>3

(* Steps that touch neither the tables nor a transaction.                  *)
LEMMA AsideKeeps ==
  ASSUME ConfigTypeOK, RestoreInv, UNCHANGED <<db, secret, lastSecret, writer, txn, txnSecret>>,
         \A o \in Operators : op'[o] \in {"objects", "audio"} => op[o] = op'[o]
  PROVE  RestoreInv'
  BY DEF RestoreInv, RestoreIsSafe, NoHalfRestore, PasswordsSurvive, Ahead, Open

LEMMA OperatorKeeps ==
  ASSUME ConfigTypeOK, ConfigParameters, RestoreInv, NEW o \in Operators,
         \/ ExportBegins(o) \/ (\E p \in Parts : ExportRows(o, p)) \/ ExportMedia(o)
         \/ RestoreCopies(o) \/ RestoreObjects(o)
         \/ RestoreAudio(o) \/ MediaFails(o) \/ RestoreSchedules(o) \/ Unstage(o)
  PROVE  RestoreInv'
  <1>0. secret["password"] = lastSecret["password"] /\ \A p, q \in Parts : db.epoch[p] = db.epoch[q]
    BY DEF RestoreInv, RestoreIsSafe, NoHalfRestore, PasswordsSurvive
  <1>1. CASE ExportBegins(o) \/ ExportMedia(o) \/ RestoreCopies(o) \/ Unstage(o)
    <2>1. UNCHANGED <<db, secret, lastSecret, writer, txn, txnSecret>>
      BY <1>1 DEF ExportBegins, ExportMedia, RestoreCopies, Unstage
    <2>2. \E at \in {"export", "idle", "copied"} : op' = [op EXCEPT ![o] = at]
      BY <1>1 DEF ExportBegins, ExportMedia, RestoreCopies, Unstage
    <2> QED BY <2>1, <2>2, AsideKeeps DEF ConfigTypeOK
  <1>6. ASSUME NEW p \in Parts, ExportRows(o, p)
        PROVE  RestoreInv'
    <2>1. UNCHANGED <<db, secret, lastSecret, writer, txn, txnSecret, op>>
      BY <1>6 DEF ExportRows
    <2> QED BY <2>1, AsideKeeps
  <1>2. CASE RestoreObjects(o)
    <2>1. \A x \in Operators : ~Open(x)
      BY <1>2 DEF RestoreObjects, RestoreInv, ConfigParameters
    <2>2. /\ writer' = o /\ txnSecret'["password"] = secret["password"]
          /\ UNCHANGED <<db, secret, lastSecret>>
          /\ txn' = Restored(db, "objects")
          /\ op' = [op EXCEPT ![o] = "objects"]
      BY <1>2 DEF RestoreObjects, ExistingSecret, ConfigTypeOK, Secrets
    <2>3. Ahead({"objects"})'
      BY <2>2, RestoredTables DEF Ahead, ConfigTypeOK, Parts
    <2>4. \A x \in Operators : op'[x] \in {"objects", "audio"} => x = o /\ op'[x] = "objects"
      BY <2>1, <2>2 DEF Open, ConfigTypeOK
    <2>5. RestoreIsSafe'
      BY <1>0, <2>2 DEF RestoreIsSafe, NoHalfRestore, PasswordsSurvive
    <2> QED BY <2>2, <2>3, <2>4, <2>5 DEF RestoreInv, Open
  <1>3. CASE RestoreAudio(o)
    <2>1. writer = o /\ txnSecret["password"] = secret["password"] /\ Ahead({"objects"})
      BY <1>3 DEF RestoreAudio, RestoreInv, Open
    <2>2. /\ UNCHANGED <<db, secret, lastSecret, writer, txnSecret>>
          /\ txn' = Restored(txn, "audio")
          /\ op' = [op EXCEPT ![o] = "audio"]
      BY <1>3 DEF RestoreAudio
    <2>3. Ahead({"objects", "audio"})'
      <3>1. \A q \in Parts : Restored(txn, "audio").epoch[q]
                               = IF q = "audio" THEN txn.epoch[q] + 1 ELSE txn.epoch[q]
        BY RestoredTables DEF ConfigTypeOK, Parts
      <3> QED BY <2>1, <2>2, <3>1 DEF Ahead, Parts
    <2>4. \A x \in Operators : op'[x] \in {"objects", "audio"} => x = o /\ op'[x] = "audio"
      BY <2>1, <2>2 DEF RestoreInv, Open, ConfigTypeOK
    <2>5. RestoreIsSafe'
      BY <1>0, <2>2 DEF RestoreIsSafe, NoHalfRestore, PasswordsSurvive
    <2> QED BY <2>1, <2>2, <2>3, <2>4, <2>5 DEF RestoreInv, Open
  <1>4. CASE MediaFails(o)
    <2>1. writer = o /\ RollBack(o, "media") /\ UNCHANGED <<secret, lastSecret>>
      BY <1>4 DEF MediaFails, RestoreInv, Open
    <2> QED BY <2>1, RollBackKeeps
  <1>5. CASE RestoreSchedules(o)
    <2>1. writer = o /\ txnSecret["password"] = secret["password"] /\ Ahead({"objects", "audio"})
      BY <1>5 DEF RestoreSchedules, RestoreInv, Open
    <2>2. UNCHANGED lastSecret
      BY <1>5 DEF RestoreSchedules
    <2>3. CASE archive.tables.runs
      <3>1. RollBack(o, "schedule") /\ UNCHANGED secret
        BY <1>5, <2>3 DEF RestoreSchedules
      <3> QED BY <2>1, <2>2, <3>1, RollBackKeeps
    <2>4. CASE ~archive.tables.runs
      <3>1. /\ db' = [Restored(txn, "schedules") EXCEPT !.runs = FALSE]
            /\ secret' = txnSecret
            /\ op' = [op EXCEPT ![o] = "restored"]
        BY <1>5, <2>4 DEF RestoreSchedules
      <3>2. /\ Restored(txn, "schedules") \in Tables
            /\ \A q \in Parts : Restored(txn, "schedules").epoch[q]
                 = IF q = "schedules" THEN txn.epoch[q] + 1 ELSE txn.epoch[q]
        BY RestoredTables DEF ConfigTypeOK, Parts
      <3>3. db'.epoch = Restored(txn, "schedules").epoch
        BY <3>1, <3>2, StoppedTables
      <3>4. \A q \in Parts : db'.epoch[q] = db.epoch[q] + 1
        BY <2>1, <3>2, <3>3 DEF Ahead, Parts
      <3>5. RestoreIsSafe'
        BY <1>0, <2>1, <2>2, <3>1, <3>4 DEF RestoreIsSafe, NoHalfRestore, PasswordsSurvive
      <3>6. \A x \in Operators : op'[x] \notin {"objects", "audio"}
        BY <2>1, <3>1 DEF RestoreInv, Open, ConfigTypeOK
      <3> QED BY <3>5, <3>6 DEF RestoreInv, Open
    <2> QED BY <2>3, <2>4
  <1> QED BY <1>1, <1>2, <1>3, <1>4, <1>5, <1>6

LEMMA ServerKeeps ==
  ASSUME ConfigTypeOK, ConfigParameters, RestoreInv, Stage \/ ServerDies \/ UNCHANGED cfgVars
  PROVE  RestoreInv'
  <1>1. CASE Stage \/ UNCHANGED cfgVars
    BY <1>1, AsideKeeps DEF Stage, cfgVars
  <1>2. CASE ServerDies
    <2>1. writer \in Operators /\ RollBack(writer, "crash") /\ UNCHANGED <<secret, lastSecret>>
      BY <1>2 DEF ServerDies, ConfigTypeOK
    <2> QED BY <2>1, RollBackKeeps
  <1> QED BY <1>1, <1>2

(* However a restore ends, either every part of the configuration comes    *)
(* from it or none does, and no password column loses what was entered     *)
(* meanwhile, for any number of concurrent restores, exports and edits.    *)
(* (Credentials inside an rtsp_url are lost: UrlSecretsSurvive.)           *)
THEOREM RestoreSafeAlways == ConfigSpec => []RestoreIsSafe
  <1> USE ConfigParametersHold
  <1>1. ConfigInit => RestoreInv
    BY DEF ConfigInit, RestoreInv, RestoreIsSafe, NoHalfRestore, PasswordsSurvive, NoTables, Open
  <1>2. ConfigTypeOK /\ RestoreInv /\ [BoundedConfigNext]_cfgVars => RestoreInv'
    BY EditKeeps, OperatorKeeps, ServerKeeps DEF BoundedConfigNext, ConfigNext
  <1>3. RestoreInv => RestoreIsSafe
    BY DEF RestoreInv
  <1> QED BY <1>1, <1>2, <1>3, ConfigTypesCorrect, PTL DEF ConfigSpec

(***************************************************************************)
(* SchedulerProcess: for any number of commands.                           *)
(***************************************************************************)

(* Whoever has a status of its own to write, or a pass to run, has the     *)
(* lock; OneScheduler says nothing of the lock and is not inductive.       *)
HoldsLock == {"first", "check", "loop", "pass", "wait", "end", "stopping"}
LockInv == \A p \in Procs : proc[p] \in HoldsLock => lockHolder = p

(* A status written whole is a status (write_scheduler_status), and so is  *)
(* one that was left alone because the disk is full.                       *)
LEMMA WrittenStatus ==
  ASSUME NEW p \in Procs, NEW state \in FileStates, Writes(p, state)
  PROVE  statusFile' \in [state : FileStates, fresh : BOOLEAN, by : Procs \union {NoProc}]
  <1>1. statusFile' = [state |-> state, fresh |-> TRUE, by |-> p]
    BY DEF Writes
  <1> QED BY <1>1, Zenon

LEMMA KeptStatus ==
  ASSUME SchedulerTypeOK, CannotWrite
  PROVE  statusFile' \in [state : FileStates, fresh : BOOLEAN, by : Procs \union {NoProc}]
  BY DEF SchedulerTypeOK, CannotWrite

(* The other variables of a step of a scheduler: it moves itself, and takes*)
(* the lock, leaves it or gives it back.                                   *)
LEMMA MovedProc ==
  ASSUME SchedulerTypeOK, NEW p \in Procs, NEW to \in ProcStates, Goes(p, to)
  PROVE  proc' \in [Procs -> ProcStates]
  BY DEF SchedulerTypeOK, Goes

LEMMA LockAfter ==
  ASSUME SchedulerTypeOK, NEW p \in Procs, Unlock(p) \/ UNCHANGED lockHolder
  PROVE  lockHolder' \in Procs \union {NoProc}
  BY DEF SchedulerTypeOK, Unlock

(* Every variable keeps its type (SchedulerProcess.SchedulerTypeOK).                *)
THEOREM SchedulerTypesCorrect == SchedulerSpec => []SchedulerTypeOK
  <1>1. SchedulerInit => SchedulerTypeOK
    <2> SUFFICES ASSUME SchedulerInit PROVE SchedulerTypeOK
      OBVIOUS
    <2>1. statusFile = [state |-> "missing", fresh |-> FALSE, by |-> NoProc]
      BY DEF SchedulerInit
    <2>2. statusFile \in [state : FileStates, fresh : BOOLEAN, by : Procs \union {NoProc}]
      <3>1. "missing" \in FileStates
        BY DEF FileStates
      <3> QED BY <2>1, <3>1, Zenon
    <2> QED BY <2>2 DEF SchedulerInit, SchedulerTypeOK, ProcStates
  <1>2. SchedulerTypeOK /\ [SchedulerNext]_schedVars => SchedulerTypeOK'
    <2> SUFFICES ASSUME SchedulerTypeOK, [SchedulerNext]_schedVars PROVE SchedulerTypeOK'
      OBVIOUS
    <2>1. ASSUME NEW p \in Procs, Start(p) PROVE SchedulerTypeOK'
      BY <2>1 DEF Start, SchedulerTypeOK, ProcStates, Goes
    <2>2. ASSUME NEW p \in Procs, ProcStep(p) PROVE SchedulerTypeOK'
      <3>1. Web \in Procs
        BY DEF Procs
      <3>2. UNCHANGED <<webUp, diskFull, schedFault>>
        BY <2>2 DEF ProcStep, FirstStatus, CheckOnly, PassStarts, PassEnds, WaitEnds,
           CommandStops, LeaveLock, ThreadUnlocks, ThreadStops
      <3>3. PICK q \in Procs, to \in ProcStates :
              Goes(q, to) /\ (Unlock(q) \/ UNCHANGED lockHolder)
        BY <2>2, <3>1 DEF ProcStep, ProcStates, FirstStatus, CheckOnly, PassStarts, PassEnds,
           WaitEnds, CommandStops, LeaveLock, ThreadUnlocks, ThreadStops
      <3>4. \/ \E r \in Procs, state \in FileStates : Writes(r, state)
            \/ CannotWrite
            \/ UNCHANGED statusFile
        BY <2>2, <3>1 DEF ProcStep, FileStates, FirstStatus, CheckOnly, PassStarts, PassEnds,
           WaitEnds, CommandStops, LeaveLock, ThreadUnlocks, ThreadStops
      <3>5. statusFile' \in [state : FileStates, fresh : BOOLEAN, by : Procs \union {NoProc}]
        BY <3>4, WrittenStatus, KeptStatus DEF SchedulerTypeOK
      <3>6. proc' \in [Procs -> ProcStates] /\ lockHolder' \in Procs \union {NoProc}
        BY <3>3, MovedProc, LockAfter
      <3> QED BY <3>2, <3>5, <3>6, Zenon DEF SchedulerTypeOK
    <2>3. ASSUME NEW p \in Procs, Killed(p) PROVE SchedulerTypeOK'
      <3>1. proc' \in [Procs -> ProcStates] /\ lockHolder' \in Procs \union {NoProc}
        BY <2>3, MovedProc, LockAfter DEF Killed, ProcStates
      <3>2. webUp' \in BOOLEAN
        BY <2>3 DEF Killed, SchedulerTypeOK
      <3> QED BY <2>3, <3>1, <3>2 DEF Killed, SchedulerTypeOK
    <2>4. CASE WebRestarts \/ DiskFills
      BY <2>4 DEF WebRestarts, DiskFills, SchedulerTypeOK
    <2>5. CASE StatusAges
      BY <2>5 DEF StatusAges, SchedulerTypeOK
    <2>6. CASE WatchScheduler
      BY <2>6 DEF WatchScheduler, SchedulerHealthy, ThreadAlive, SchedulerTypeOK
    <2>7. CASE UNCHANGED schedVars
      BY <2>7 DEF schedVars, SchedulerTypeOK
    <2> QED BY <2>1, <2>2, <2>3, <2>4, <2>5, <2>6, <2>7 DEF SchedulerNext
  <1> QED BY <1>1, <1>2, PTL DEF SchedulerSpec

(* A step of one scheduler keeps the lock with whoever works.              *)
LEMMA LockStep ==
  ASSUME SchedulerTypeOK, LockInv, [SchedulerNext]_schedVars
  PROVE  LockInv'
  <1> USE SchedulerAssumption DEF SchedulerTypeOK, LockInv, HoldsLock, Goes, Unlock
  <1>1. ASSUME NEW p \in Procs, Start(p) PROVE LockInv'
    BY <1>1 DEF Start, LockIsFree
  <1>2. ASSUME NEW p \in Procs, ProcStep(p) PROVE LockInv'
    <2>1. Web \in Procs
      BY DEF Procs
    <2>2. CASE FirstStatus(p) BY <2>2 DEF FirstStatus
    <2>3. CASE CheckOnly(p) BY <2>3 DEF CheckOnly
    <2>4. CASE PassStarts(p) BY <2>4 DEF PassStarts
    <2>5. CASE PassEnds(p) BY <2>5 DEF PassEnds
    <2>6. CASE WaitEnds(p) BY <2>6 DEF WaitEnds
    <2>7. CASE CommandStops(p) BY <2>7 DEF CommandStops
    <2>10. CASE LeaveLock(p) BY <2>10 DEF LeaveLock
    <2>8. CASE ThreadUnlocks BY <2>1, <2>8 DEF ThreadUnlocks
    <2>9. CASE ThreadStops BY <2>1, <2>9 DEF ThreadStops
    <2> QED BY <1>2, <2>2, <2>3, <2>4, <2>5, <2>6, <2>7, <2>8, <2>9, <2>10 DEF ProcStep
  <1>3. ASSUME NEW p \in Procs, Killed(p) PROVE LockInv'
    BY <1>3 DEF Killed
  <1>4. CASE WebRestarts \/ DiskFills \/ StatusAges \/ WatchScheduler
    BY <1>4 DEF WebRestarts, DiskFills, StatusAges, WatchScheduler
  <1>5. CASE UNCHANGED schedVars
    BY <1>5 DEF schedVars
  <1> QED BY <1>1, <1>2, <1>3, <1>4, <1>5 DEF SchedulerNext

(* The lock admits one scheduler to the passes, whatever is killed,        *)
(* refused or restarted.                                                   *)
THEOREM OneSchedulerAlways == SchedulerSpec => []OneScheduler
  <1>1. SchedulerInit => LockInv
    BY DEF SchedulerInit, LockInv, HoldsLock
  <1>2. SchedulerTypeOK /\ LockInv /\ [SchedulerNext]_schedVars => LockInv'
    BY LockStep
  <1>3. LockInv => OneScheduler
    BY DEF LockInv, OneScheduler, HoldsLock
  <1> QED BY SchedulerTypesCorrect, <1>1, <1>2, <1>3, PTL DEF SchedulerSpec

(***************************************************************************)
(* StreamPool: for any viewers, addresses and number of streams.           *)
(***************************************************************************)

Watchers(s) == {v \in Viewers : viewer[v].at = "watching" /\ viewer[v].stream = s}

ViewerType ==
  [at : {"away", "asking", "given", "watching"}, url : Urls, stream : 0..MaxStreams]

(* A viewer that was given a capture has one.                              *)
HasCapture(c) == c.at \in {"given", "watching"} => c.stream \in Streams

CapturesGiven == \A v \in Viewers : HasCapture(viewer[v])

PoolInv ==
  /\ PoolTypeOK
  /\ CountIsRight
  /\ EveryCaptureIsShared
  /\ registered <= opened
  /\ CapturesGiven

-----------------------------------------------------------------------------
(* The count of the watchers is a number, and moves by one.                *)
LEMMA WatchersFinite ==
  ASSUME NEW s
  PROVE  /\ IsFiniteSet(Watchers(s))
         /\ Cardinality(Watchers(s)) \in 0..Cardinality(Viewers)
<1>1. Watchers(s) \in SUBSET Viewers /\ IsFiniteSet(Viewers)
  BY PoolAssumption DEF Watchers
<1>2. /\ IsFiniteSet(Watchers(s))
      /\ Cardinality(Watchers(s)) <= Cardinality(Viewers)
  BY <1>1, FS_Subset
<1>3. Cardinality(Watchers(s)) \in Nat /\ Cardinality(Viewers) \in Nat
  BY <1>1, <1>2, FS_CardinalityType
<1> QED  BY <1>2, <1>3

LEMMA WatchersFiniteAfter ==
  ASSUME NEW s
  PROVE  Cardinality(Watchers(s)') \in 0..Cardinality(Viewers)
<1>1. Watchers(s)' \in SUBSET Viewers /\ IsFiniteSet(Viewers)
  BY PoolAssumption DEF Watchers
<1>2. /\ IsFiniteSet(Watchers(s)')
      /\ Cardinality(Watchers(s)') <= Cardinality(Viewers)
  BY <1>1, FS_Subset
<1>3. Cardinality(Watchers(s)') \in Nat /\ Cardinality(Viewers) \in Nat
  BY <1>1, <1>2, FS_CardinalityType
<1> QED  BY <1>2, <1>3

(* A count that is right has its type.                                     *)
LEMMA CountHasType ==
  ASSUME CountIsRight', DOMAIN subscribers' = Streams,
         subscribers' = [s \in Streams |-> subscribers'[s]]
  PROVE  subscribers' \in [Streams -> 0..Cardinality(Viewers)]
<1>1. \A s \in Streams : subscribers'[s] = Cardinality(Watchers(s)')
  BY DEF CountIsRight, Watchers
<1>2. \A s \in Streams : subscribers'[s] \in 0..Cardinality(Viewers)
  BY <1>1, WatchersFiniteAfter
<1> QED  BY <1>2

LEMMA PoolTypes ==
  PoolInv =>
    /\ opened \in Nat /\ opened <= MaxStreams
    /\ registered \in Nat /\ registered <= opened
    /\ url \in [Streams -> Urls]
    /\ thread \in [Streams -> ThreadStates]
    /\ subscribers \in [Streams -> Nat]
    /\ idle \in [Streams -> {"none", "grace", "past"}]
    /\ viewer \in [Viewers -> ViewerType]
    /\ MaxStreams \in Nat /\ Cardinality(Viewers) \in Nat
    /\ AnyUrl \in Urls
<1>1. Cardinality(Viewers) \in Nat
  BY PoolAssumption, FS_CardinalityType
<1> QED  BY <1>1, PoolAssumption DEF PoolInv, PoolTypeOK, ViewerType, AnyUrl

(* A viewer that moves, watching neither before nor after.                 *)
LEMMA ViewerMoves ==
  ASSUME PoolInv, NEW v \in Viewers, NEW c \in ViewerType, HasCapture(c),
         viewer[v].at # "watching", c.at # "watching",
         viewer' = [viewer EXCEPT ![v] = c],
         UNCHANGED subscribers
  PROVE  /\ viewer' \in [Viewers -> ViewerType] /\ CapturesGiven' /\ CountIsRight'
<1>1. viewer \in [Viewers -> ViewerType]
  BY PoolTypes
<1>2. \A s \in Streams : Watchers(s)' = Watchers(s)
  BY <1>1 DEF Watchers
<1> QED  BY <1>1, <1>2 DEF PoolInv, CapturesGiven, CountIsRight, Watchers

LEMMA ArriveStep ==
  ASSUME PoolInv, NEW v \in Viewers, NEW u \in Urls, Arrive(v, u)
  PROVE  PoolInv'
<1> DEFINE c == [Away EXCEPT !.at = "asking", !.url = u]
<1>1. c \in ViewerType /\ HasCapture(c) /\ c.at = "asking"
  <2>1. Away \in ViewerType /\ Away.stream = 0
    <3>1. 0 \in 0..MaxStreams
      BY PoolTypes
    <3> QED  BY <3>1, PoolTypes DEF Away, ViewerType
  <2> QED  BY <2>1 DEF ViewerType, HasCapture
<1>2. viewer[v].at = "away" /\ viewer' = [viewer EXCEPT ![v] = c]
      /\ UNCHANGED <<opened, registered, url, thread, subscribers, idle>>
  BY DEF Arrive
<1> HIDE DEF c
<1>3. viewer' \in [Viewers -> ViewerType] /\ CapturesGiven' /\ CountIsRight'
  BY <1>1, <1>2, ViewerMoves
<1> QED  BY <1>2, <1>3 DEF PoolInv, PoolTypeOK, ViewerType, EveryCaptureIsShared

LEMMA AcquireStep ==
  ASSUME PoolInv, NEW v \in Viewers, Acquire(v)
  PROVE  PoolInv'
<1>1. /\ viewer \in [Viewers -> ViewerType] /\ viewer[v] \in ViewerType
      /\ viewer[v].at = "asking" /\ viewer[v].url \in Urls
      /\ opened \in Nat /\ registered \in Nat /\ registered <= opened /\ opened <= MaxStreams
      /\ MaxStreams \in Nat
      /\ url \in [Streams -> Urls] /\ thread \in [Streams -> ThreadStates]
  BY PoolTypes DEF Acquire, ViewerType
<1>2. subscribers' = subscribers /\ idle' = idle
  BY DEF Acquire
<1>3. CASE Usable(registered, viewer[v].url)
  <2> DEFINE c == [viewer[v] EXCEPT !.at = "given", !.stream = registered]
  <2>1. /\ viewer' = [viewer EXCEPT ![v] = c]
        /\ UNCHANGED <<opened, registered, url, thread>>
    BY <1>1, <1>3 DEF Acquire
  <2>2. registered \in Streams
    BY <1>1, <1>3 DEF Usable, Streams
  <2>3. c \in ViewerType /\ HasCapture(c) /\ c.at = "given"
    <3>1. registered \in 0..MaxStreams
      BY <1>1
    <3> QED  BY <1>1, <2>2, <3>1 DEF ViewerType, HasCapture
  <2> HIDE DEF c
  <2>4. viewer' \in [Viewers -> ViewerType] /\ CapturesGiven' /\ CountIsRight'
    BY <1>1, <1>2, <2>1, <2>3, ViewerMoves
  <2> QED  BY <1>2, <2>1, <2>4 DEF PoolInv, PoolTypeOK, ViewerType, EveryCaptureIsShared
<1>4. CASE ~Usable(registered, viewer[v].url)
  <2> DEFINE s == opened + 1
             c == [viewer[v] EXCEPT !.at = "given", !.stream = s]
             u == viewer[v].url
  <2>1. /\ opened < MaxStreams /\ opened' = s /\ registered' = s
        /\ url' = [url EXCEPT ![s] = u]
        /\ thread' = [thread EXCEPT ![s] = "running"]
        /\ viewer' = [viewer EXCEPT ![v] = c]
    BY <1>1, <1>4 DEF Acquire
  <2>2. s \in Streams /\ s \in 0..MaxStreams
    BY <1>1, <2>1 DEF Streams
  <2>3. c \in ViewerType /\ HasCapture(c) /\ c.at = "given"
    BY <1>1, <2>2 DEF ViewerType, HasCapture
  <2> HIDE DEF c
  <2>4. viewer' \in [Viewers -> ViewerType] /\ CapturesGiven' /\ CountIsRight'
    BY <1>1, <1>2, <2>1, <2>3, ViewerMoves
  <2>5. EveryCaptureIsShared'
    <3> SUFFICES ASSUME NEW t \in Streams, thread'[t] \in {"running", "leaving"}, registered' # t
                 PROVE  \E later \in (t + 1)..opened' : url'[later] # url'[t]
      BY DEF EveryCaptureIsShared
    <3>1. t # s /\ thread[t] \in {"running", "leaving"} /\ url'[t] = url[t] /\ t \in Nat
      BY <1>1, <2>1 DEF Streams
    <3>2. CASE t = registered
      <4>1. url[t] # u /\ t # 0
        BY <1>4, <3>1, <3>2 DEF Usable, Stopped, Streams
      <4>2. s \in (t + 1)..opened' /\ url'[s] = u
        BY <1>1, <2>1, <2>2, <3>2
      <4> QED  BY <3>1, <4>1, <4>2
    <3>3. CASE t # registered
      <4>1. PICK later \in (t + 1)..opened : url[later] # url[t]
        BY <3>1, <3>3 DEF PoolInv, EveryCaptureIsShared
      <4>2. later # s /\ later \in (t + 1)..opened' /\ later \in Streams
        BY <1>1, <2>1, <3>1, <4>1 DEF Streams
      <4> QED  BY <1>1, <2>1, <3>1, <4>1, <4>2
    <3> QED  BY <3>2, <3>3
  <2>6. url' \in [Streams -> Urls] /\ thread' \in [Streams -> ThreadStates]
    BY <1>1, <2>1, <2>2 DEF ThreadStates
  <2>7. PoolTypeOK'
    BY <1>1, <1>2, <2>1, <2>2, <2>4, <2>6 DEF PoolInv, PoolTypeOK, ViewerType
  <2> QED  BY <1>1, <2>1, <2>4, <2>5, <2>7 DEF PoolInv
<1> QED  BY <1>3, <1>4

LEMMA SubscribeStep ==
  ASSUME PoolInv, NEW v \in Viewers, Subscribe(v)
  PROVE  PoolInv'
<1> DEFINE s == viewer[v].stream
<1>1. /\ viewer \in [Viewers -> ViewerType] /\ viewer[v] \in ViewerType
      /\ viewer[v].at = "given" /\ s \in Streams
      /\ subscribers \in [Streams -> Nat]
      /\ idle \in [Streams -> {"none", "grace", "past"}]
      /\ registered \in Nat /\ opened \in Nat /\ registered <= opened
  BY PoolTypes DEF Subscribe, PoolInv, CapturesGiven, HasCapture
<1>2. UNCHANGED <<opened, url, thread>>
  BY DEF Subscribe
<1>3. CASE Stopped(s)
  <2> DEFINE c == [viewer[v] EXCEPT !.at = "asking"]
  <2>1. /\ registered' = IF registered = s THEN 0 ELSE registered
        /\ viewer' = [viewer EXCEPT ![v] = c]
        /\ UNCHANGED <<subscribers, idle>>
    BY <1>1, <1>3 DEF Subscribe, RemoveIfCurrent
  <2>2. c \in ViewerType /\ HasCapture(c) /\ c.at = "asking"
    BY <1>1 DEF ViewerType, HasCapture
  <2> HIDE DEF c
  <2>3. viewer' \in [Viewers -> ViewerType] /\ CapturesGiven' /\ CountIsRight'
    BY <1>1, <2>1, <2>2, ViewerMoves
  <2>4. EveryCaptureIsShared'
    BY <1>1, <1>2, <1>3, <2>1 DEF PoolInv, EveryCaptureIsShared, Stopped
  <2>5. registered' <= opened' /\ registered' \in 0..MaxStreams
    BY <1>1, <1>2, <2>1, PoolTypes
  <2> QED  BY <1>2, <2>1, <2>3, <2>4, <2>5 DEF PoolInv, PoolTypeOK, ViewerType
<1>4. CASE ~Stopped(s)
  <2> DEFINE c == [viewer[v] EXCEPT !.at = "watching"]
  <2>1. /\ subscribers' = [subscribers EXCEPT ![s] = @ + 1]
        /\ idle' = [idle EXCEPT ![s] = "none"]
        /\ viewer' = [viewer EXCEPT ![v] = c]
        /\ registered' = registered
    BY <1>1, <1>4 DEF Subscribe
  <2>2. c \in ViewerType /\ HasCapture(c) /\ c.at = "watching" /\ c.stream = s
    BY <1>1 DEF ViewerType, HasCapture
  <2> HIDE DEF c
  <2>3. viewer' \in [Viewers -> ViewerType] /\ CapturesGiven'
    BY <1>1, <2>1, <2>2 DEF PoolInv, CapturesGiven
  <2>4. CountIsRight'
    <3> SUFFICES ASSUME NEW t \in Streams
                 PROVE  subscribers'[t] = Cardinality(Watchers(t)')
      BY DEF CountIsRight, Watchers
    <3>1. subscribers[t] = Cardinality(Watchers(t))
      BY DEF PoolInv, CountIsRight, Watchers
    <3>2. CASE t = s
      <4>1. Watchers(t)' = Watchers(t) \union {v} /\ v \notin Watchers(t)
        BY <1>1, <2>1, <2>2, <3>2 DEF Watchers
      <4>2. Cardinality(Watchers(t)') = Cardinality(Watchers(t)) + 1
        BY <4>1, WatchersFinite, FS_AddElement
      <4> QED  BY <1>1, <2>1, <3>1, <3>2, <4>2
    <3>3. CASE t # s
      <4>1. Watchers(t)' = Watchers(t)
        BY <1>1, <2>1, <2>2, <3>3 DEF Watchers
      <4> QED  BY <1>1, <2>1, <3>1, <3>3, <4>1
    <3> QED  BY <3>2, <3>3
  <2>5. subscribers' \in [Streams -> 0..Cardinality(Viewers)]
    <3>1. subscribers' = [t \in Streams |-> subscribers'[t]] /\ DOMAIN subscribers' = Streams
      BY <1>1, <2>1
    <3> QED  BY <2>4, <3>1, CountHasType
  <2>6. idle' \in [Streams -> {"none", "grace", "past"}]
    BY <1>1, <2>1
  <2>7. PoolTypeOK'
    BY <1>2, <2>1, <2>3, <2>5, <2>6 DEF PoolInv, PoolTypeOK, ViewerType
  <2> QED  BY <1>2, <2>1, <2>3, <2>4, <2>7 DEF PoolInv, EveryCaptureIsShared
<1> QED  BY <1>3, <1>4

LEMMA UnsubscribeStep ==
  ASSUME PoolInv, NEW v \in Viewers, viewer[v].at = "watching", Unsubscribe(v)
  PROVE  PoolInv'
<1> DEFINE s == viewer[v].stream
<1>1. /\ viewer \in [Viewers -> ViewerType] /\ viewer[v] \in ViewerType
      /\ s \in Streams
      /\ subscribers \in [Streams -> Nat]
      /\ idle \in [Streams -> {"none", "grace", "past"}]
  BY PoolTypes DEF PoolInv, CapturesGiven, HasCapture
<1>2. /\ subscribers' = [subscribers EXCEPT ![s] = IF @ > 0 THEN @ - 1 ELSE @]
      /\ idle' = [idle EXCEPT ![s] = IF subscribers'[s] = 0 THEN "grace" ELSE @]
      /\ viewer' = [viewer EXCEPT ![v] = Away]
      /\ UNCHANGED <<opened, registered, url, thread>>
  BY DEF Unsubscribe, Fewer, IdleSince
<1>3. Away \in ViewerType /\ HasCapture(Away) /\ Away.at = "away"
  <2>1. 0 \in 0..MaxStreams
    BY PoolTypes
  <2> QED  BY <2>1, PoolTypes DEF Away, ViewerType, HasCapture
<1>4. viewer' \in [Viewers -> ViewerType] /\ CapturesGiven'
  BY <1>1, <1>2, <1>3 DEF PoolInv, CapturesGiven
<1>5. CountIsRight'
  <2> SUFFICES ASSUME NEW t \in Streams
               PROVE  subscribers'[t] = Cardinality(Watchers(t)')
    BY DEF CountIsRight, Watchers
  <2>1. subscribers[t] = Cardinality(Watchers(t))
    BY DEF PoolInv, CountIsRight, Watchers
  <2>2. CASE t = s
    <3>1. Watchers(t)' = Watchers(t) \ {v} /\ v \in Watchers(t)
      BY <1>1, <1>2, <1>3, <2>2 DEF Watchers
    <3>2. Cardinality(Watchers(t)') = Cardinality(Watchers(t)) - 1
      BY <3>1, WatchersFinite, FS_RemoveElement
    <3>3. Cardinality(Watchers(t)) # 0
      BY <3>1, WatchersFinite, FS_EmptySet
    <3> QED  BY <1>1, <1>2, <2>1, <2>2, <3>2, <3>3
  <2>3. CASE t # s
    <3>1. Watchers(t)' = Watchers(t)
      BY <1>1, <1>2, <1>3, <2>3 DEF Watchers
    <3> QED  BY <1>1, <1>2, <2>1, <2>3, <3>1
  <2> QED  BY <2>2, <2>3
<1>6. subscribers' \in [Streams -> 0..Cardinality(Viewers)]
  <2>1. subscribers' = [t \in Streams |-> subscribers'[t]] /\ DOMAIN subscribers' = Streams
    BY <1>1, <1>2
  <2> QED  BY <1>5, <2>1, CountHasType
<1>7. idle' \in [Streams -> {"none", "grace", "past"}]
  BY <1>1, <1>2
<1>8. PoolTypeOK'
  BY <1>2, <1>4, <1>6, <1>7 DEF PoolInv, PoolTypeOK, ViewerType
<1> QED  BY <1>2, <1>4, <1>5, <1>8 DEF PoolInv, EveryCaptureIsShared

LEMMA ThreadStep ==
  ASSUME PoolInv, NEW s \in Streams, NEW from \in ThreadStates, NEW to \in ThreadStates,
         ThreadGoes(s, from, to),
         \/ from \in {"running", "leaving"} /\ UNCHANGED registered
         \/ from = "stopped" /\ to = "gone" /\ RemoveIfCurrent(s)
  PROVE  PoolInv'
<1>1. /\ thread[s] = from /\ thread' = [thread EXCEPT ![s] = to]
      /\ UNCHANGED <<opened, url, subscribers, idle, viewer>>
      /\ thread \in [Streams -> ThreadStates]
      /\ registered \in Nat /\ opened \in Nat /\ registered <= opened /\ opened <= MaxStreams
      /\ MaxStreams \in Nat
  BY PoolTypes DEF ThreadGoes
<1>2. registered' = registered \/ (registered = s /\ registered' = 0 /\ to = "gone")
  BY DEF RemoveIfCurrent
<1>3. thread' \in [Streams -> ThreadStates]
  BY <1>1
<1>4. registered' \in 0..MaxStreams /\ registered' <= opened'
  BY <1>1, <1>2
<1>5. EveryCaptureIsShared'
  <2> SUFFICES ASSUME NEW t \in Streams, thread'[t] \in {"running", "leaving"}, registered' # t
               PROVE  \E later \in (t + 1)..opened' : url'[later] # url'[t]
    BY DEF EveryCaptureIsShared
  <2>1. thread[t] \in {"running", "leaving"} /\ registered # t
    BY <1>1, <1>2 DEF RemoveIfCurrent
  <2> QED  BY <1>1, <2>1 DEF PoolInv, EveryCaptureIsShared
<1> QED  BY <1>1, <1>3, <1>4, <1>5 DEF PoolInv, PoolTypeOK, CountIsRight, CapturesGiven

LEMMA PoolStep ==
  ASSUME PoolInv, [PoolNext]_streamVars
  PROVE  PoolInv'
<1>1. ASSUME NEW v \in Viewers, Leave(v) \/ StreamEnded(v)
      PROVE  PoolInv'
  BY <1>1, UnsubscribeStep DEF Leave, StreamEnded
<1>2. ASSUME NEW s \in Streams, GraceEnds(s)
      PROVE  PoolInv'
  <2>1. idle' \in [Streams -> {"none", "grace", "past"}]
        /\ UNCHANGED <<opened, registered, url, thread, subscribers, viewer>>
    BY <1>2, PoolTypes DEF GraceEnds
  <2> QED  BY <2>1 DEF PoolInv, PoolTypeOK, CountIsRight, EveryCaptureIsShared, CapturesGiven
<1>3. ASSUME NEW s \in Streams,
             StopForIdle(s) \/ CaptureFails(s) \/ MarkStopped(s) \/ Remove(s)
      PROVE  PoolInv'
  BY <1>3, ThreadStep DEF StopForIdle, CaptureFails, MarkStopped, Remove, ThreadStates
<1>4. CASE UNCHANGED streamVars
  BY <1>4 DEF streamVars, PoolInv, PoolTypeOK, CountIsRight, EveryCaptureIsShared, CapturesGiven
<1> QED  BY <1>1, <1>2, <1>3, <1>4, ArriveStep, AcquireStep, SubscribeStep DEF PoolNext

LEMMA PoolStart ==
  ASSUME PoolInit
  PROVE  PoolInv
<1>1. AnyUrl \in Urls /\ MaxStreams \in Nat
  BY PoolAssumption DEF AnyUrl
<1>2. Cardinality(Viewers) \in Nat
  BY PoolAssumption, FS_CardinalityType
<1>3. CountIsRight
  <2>1. \A s : {v \in Viewers : viewer[v].at = "watching" /\ viewer[v].stream = s} = {}
    BY DEF PoolInit, Away
  <2> QED  BY <2>1, FS_EmptySet DEF PoolInit, CountIsRight
<1>4. PoolTypeOK
  BY <1>1, <1>2 DEF PoolInit, PoolTypeOK, Away, ThreadStates
<1>5. EveryCaptureIsShared /\ CapturesGiven /\ registered <= opened
  BY DEF PoolInit, EveryCaptureIsShared, CapturesGiven, HasCapture, Away
<1> QED  BY <1>3, <1>4, <1>5 DEF PoolInv

LEMMA PoolInvariant == PoolSpec => []PoolInv
  BY PoolStart, PoolStep, PTL DEF PoolSpec

-----------------------------------------------------------------------------
(* Every variable keeps its type, for any viewers, URLs and captures.      *)
THEOREM PoolTypesCorrect == PoolSpec => []PoolTypeOK
<1>1. PoolInv => PoolTypeOK
  BY DEF PoolInv
<1> QED  BY <1>1, PoolInvariant, PTL

(* Viewers are counted right, and a capture that is open but not shared any*)
(* more was replaced by one of another URL, for any number of viewers      *)
(* (SharedCameraStream, acquire_camera_stream).                            *)
THEOREM PoolAlwaysConsistent == PoolSpec => []PoolIsConsistent
<1>1. PoolInv => PoolIsConsistent
  BY DEF PoolInv, PoolIsConsistent
<1> QED  BY <1>1, PoolInvariant, PTL

(***************************************************************************)
(* HostPolling: for any hosts and answers.                                 *)
(***************************************************************************)

PollerType ==
  [at : {"sleep", "next", "health", "events", "offline", "report", "online", "recover", "dead"},
   host : Hosts, fault : {"bad_status", "unavailable"}]

LEMMA PollerMoves ==
  ASSUME PollingTypeOK,
         NEW to \in {"sleep", "next", "health", "events", "offline", "report", "online",
                     "recover", "dead"},
         PollerGoes(to)
  PROVE  poller' \in PollerType
BY DEF PollingTypeOK, PollerGoes, PollerType

LEMMA PollerStepType ==
  ASSUME PollingTypeOK, PollerStep
  PROVE  PollingTypeOK'
<1> USE DEF PollingTypeOK, worldVars
<1>1. poller.host \in Hosts /\ poller.fault \in {"bad_status", "unavailable"}
  OBVIOUS
<1>2. /\ UNCHANGED <<answer, hostActive, locked, tester, stoppedFault>>
  BY DEF PollerStep
<1>3. CASE CycleStarts \/ CycleEnds
  <2>1. poller' \in PollerType
    BY <1>3, PollerMoves DEF CycleStarts, CycleEnds
  <2> QED  BY <1>2, <1>3, <2>1 DEF CycleStarts, CycleEnds, PollerType
<1>4. CASE NextHost
  <2>1. PICK h \in pending : poller' = [poller EXCEPT !.at = "health", !.host = h]
    BY <1>4 DEF NextHost
  <2>2. poller' \in PollerType
    BY <2>1 DEF PollerType
  <2> QED  BY <1>2, <1>4, <2>2 DEF NextHost, PollerType
<1>5. CASE PollHealth
  <2>1. poller' \in PollerType
    BY <1>5, PollerMoves DEF PollHealth, FailsWith, PollerDies, PollerType
  <2>2. connection' \in [Hosts -> {"unknown", "ok", "offline"}]
    BY <1>5 DEF PollHealth
  <2>3. deathCause' \in {"none", "database", "host"}
    BY <1>5 DEF PollHealth, PollerDies
  <2> QED  BY <1>2, <1>5, <2>1, <2>2, <2>3 DEF PollHealth, PollerType
<1>6. CASE PollEvents
  <2>1. poller' \in PollerType
    BY <1>6, PollerMoves DEF PollEvents, FailsWith, PollerDies, PollerType
  <2> QED  BY <1>2, <1>6, <2>1 DEF PollEvents, PollerDies, PollerType
<1>7. CASE PollOffline \/ PollOnline
  <2>1. poller' \in PollerType
    BY <1>7, PollerMoves DEF PollOffline, PollOnline, PollerDies
  <2> QED  BY <1>2, <1>7, <2>1 DEF PollOffline, PollOnline, PollerDies, PollerType
<1>8. CASE PollFaults
  <2>1. poller' \in PollerType
    BY <1>8, PollerMoves DEF PollFaults
  <2> QED  BY <1>2, <1>8, <2>1 DEF PollFaults, Reported, BothRecovered, PollerType
<1> QED  BY <1>3, <1>4, <1>5, <1>6, <1>7, <1>8 DEF PollerStep

LEMMA OutsideType ==
  ASSUME PollingTypeOK,
         \/ WatchPolling \/ TestSave \/ Lock \/ UNCHANGED hostVars
         \/ \E h \in Hosts : TestProbe(h) \/ Toggle(h) \/ \E a \in Answers : HostAnswers(h, a)
  PROVE  PollingTypeOK'
<1> USE DEF PollingTypeOK, worldVars, pollVars
<1>1. CASE WatchPolling
  BY <1>1 DEF WatchPolling, PollingHealthy
<1>2. CASE TestSave
  BY <1>2 DEF TestSave
<1>3. CASE Lock
  BY <1>3 DEF Lock
<1>4. CASE UNCHANGED hostVars
  BY <1>4 DEF hostVars
<1>5. ASSUME NEW h \in Hosts, TestProbe(h)  PROVE  PollingTypeOK'
  BY <1>5 DEF TestProbe
<1>6. ASSUME NEW h \in Hosts, Toggle(h)  PROVE  PollingTypeOK'
  BY <1>6 DEF Toggle
<1>7. ASSUME NEW h \in Hosts, NEW a \in Answers, HostAnswers(h, a)  PROVE  PollingTypeOK'
  BY <1>7 DEF HostAnswers
<1> QED  BY <1>1, <1>2, <1>3, <1>4, <1>5, <1>6, <1>7

(* Every variable of the polling keeps its type; in particular the thread, *)
(* the test and the watchdog write statuses of hosts that exist.           *)
THEOREM PollingTypesCorrect == PollingSpec => []PollingTypeOK
<1>1. PollingInit => PollingTypeOK
  <2>1. AnyHost \in Hosts
    BY PollingAssumption DEF AnyHost
  <2>2. SUFFICES ASSUME PollingInit  PROVE  PollingTypeOK
    OBVIOUS
  <2>3. /\ answer \in [Hosts -> Answers]
        /\ hostActive \in [Hosts -> BOOLEAN]
        /\ hostStatus \in [Hosts -> {"unknown", "online", "offline", "error"}]
        /\ connection \in [Hosts -> {"unknown", "ok", "offline"}]
        /\ hostFaults \in [Hosts -> SUBSET {"bad_status", "unavailable"}]
    BY <2>2 DEF PollingInit
  <2>4. poller \in PollerType
    BY <2>1, <2>2 DEF PollingInit, PollerType
  <2>5. tester \in [at : {"idle", "probed"}, host : Hosts, ok : BOOLEAN]
    BY <2>1, <2>2 DEF PollingInit
  <2> QED  BY <2>2, <2>3, <2>4, <2>5 DEF PollingInit, PollingTypeOK, PollerType
<1>2. PollingTypeOK /\ [PollingNext]_hostVars => PollingTypeOK'
  BY PollerStepType, OutsideType DEF PollingNext
<1> QED  BY <1>1, <1>2, PTL DEF PollingSpec

(***************************************************************************)
(* ZoneCounts: for any zones, syncers and numbers of people.               *)
(***************************************************************************)

SyncType == [at : {"idle", "write", "delete", "dead"}, fetched : AnyCounts, keys : SetsOfZones]

(* What a synchronisation has still to write is in its answer, and what it *)
(* is about to delete is not, whatever the others did in between.          *)
KeysFit(c) ==
  /\ c.at = "write" => c.keys \subseteq DOMAIN c.fetched
  /\ c.at = "delete" => c.keys \intersect DOMAIN c.fetched = {}

AllKeysFit == \A s \in ZoneSyncers : KeysFit(zoneSync[s])

ZonesInv == ZonesTypeOK /\ AllKeysFit

LEMMA CountsFacts ==
  /\ \A c \in AnyCounts : /\ DOMAIN c \in SetsOfZones
                          /\ \A z \in DOMAIN c : c[z] \in 0..MaxCount
  /\ NoCounts \in AnyCounts
  /\ IdleSync \in SyncType /\ KeysFit(IdleSync)
  /\ [IdleSync EXCEPT !.at = "dead"] \in SyncType /\ KeysFit([IdleSync EXCEPT !.at = "dead"])
<1>1. ASSUME NEW c \in AnyCounts
      PROVE  DOMAIN c \in SetsOfZones /\ \A z \in DOMAIN c : c[z] \in 0..MaxCount
  <2>1. PICK zones \in SetsOfZones : c \in CountsOf(zones)
    BY DEF AnyCounts
  <2> QED  BY <2>1 DEF CountsOf
<1>2. NoCounts \in CountsOf({}) /\ {} \in SetsOfZones
  BY DEF NoCounts, CountsOf, SetsOfZones
<1>3. NoCounts \in AnyCounts
  BY <1>2 DEF AnyCounts
<1>4. IdleSync \in SyncType /\ KeysFit(IdleSync)
  BY <1>3 DEF IdleSync, SyncType, KeysFit, SetsOfZones
<1>5. [IdleSync EXCEPT !.at = "dead"] \in SyncType /\ KeysFit([IdleSync EXCEPT !.at = "dead"])
  BY <1>4 DEF SyncType, KeysFit
<1> QED  BY <1>1, <1>3, <1>4, <1>5

LEMMA RowFacts ==
  /\ \A r \in RowsOfZones : /\ DOMAIN r \in SetsOfZones
                            /\ r \in [DOMAIN r -> [count : 0..MaxCount, fresh : BOOLEAN]]
  /\ \A zones \in SetsOfZones :
       [zones -> [count : 0..MaxCount, fresh : BOOLEAN]] \subseteq RowsOfZones
<1>1. ASSUME NEW r \in RowsOfZones
      PROVE  /\ DOMAIN r \in SetsOfZones
             /\ r \in [DOMAIN r -> [count : 0..MaxCount, fresh : BOOLEAN]]
  <2>1. PICK zones \in SetsOfZones : r \in [zones -> [count : 0..MaxCount, fresh : BOOLEAN]]
    BY DEF RowsOfZones
  <2> QED  BY <2>1
<1> QED  BY <1>1 DEF RowsOfZones

(* A step of a synchronisation moves it alone.                             *)
LEMMA SyncMoves ==
  ASSUME ZonesInv, NEW s \in ZoneSyncers, NEW to \in SyncType, KeysFit(to),
         zoneSync' = [zoneSync EXCEPT ![s] = to],
         zoneRows' \in RowsOfZones, UNCHANGED <<counts, outsideVars>>
  PROVE  ZonesInv'
<1>1. zoneSync' \in [ZoneSyncers -> SyncType]
  BY DEF ZonesInv, ZonesTypeOK, SyncType
<1>2. AllKeysFit'
  BY DEF ZonesInv, ZonesTypeOK, AllKeysFit
<1> QED  BY <1>1, <1>2 DEF ZonesInv, ZonesTypeOK, SyncType, outsideVars

LEMMA SyncKeeps ==
  ASSUME ZonesInv, NEW s \in ZoneSyncers, SyncStep(s)
  PROVE  ZonesInv'
<1> DEFINE c == zoneSync[s]
<1>1. /\ zoneSync \in [ZoneSyncers -> SyncType] /\ c \in SyncType /\ KeysFit(c)
      /\ counts \in AnyCounts /\ zoneRows \in RowsOfZones
  BY DEF ZonesInv, ZonesTypeOK, SyncType, AllKeysFit
<1>2. UNCHANGED outsideVars
  BY DEF SyncStep
<1>3. CASE FetchZones(s)
  <2> DEFINE to == [at |-> "write", fetched |-> counts, keys |-> DOMAIN counts]
  <2>1. to \in SyncType /\ KeysFit(to)
    BY <1>1, CountsFacts DEF SyncType, KeysFit
  <2> QED  BY <1>1, <1>2, <1>3, <2>1, SyncMoves DEF FetchZones
<1>4. CASE WriteZone(s)
  <2>1. PICK z \in c.keys :
          /\ zoneRows' = Upserted(z, c.fetched[z])
          /\ zoneSync' = [zoneSync EXCEPT ![s].keys = @ \ {z}]
    BY <1>4 DEF WriteZone
  <2> DEFINE to == [c EXCEPT !.keys = @ \ {z}]
  <2>2. to \in SyncType /\ KeysFit(to)
    BY <1>1 DEF SyncType, KeysFit, SetsOfZones
  <2>3. zoneSync' = [zoneSync EXCEPT ![s] = to]
    BY <1>1, <2>1
  <2>4. c.fetched[z] \in 0..MaxCount /\ z \in Zones
    BY <1>1, <1>4, CountsFacts DEF WriteZone, KeysFit, SyncType, SetsOfZones
  <2>5. zoneRows' \in [DOMAIN zoneRows \union {z} -> [count : 0..MaxCount, fresh : BOOLEAN]]
    BY <1>1, <2>1, <2>4, RowFacts DEF Upserted
  <2>6. DOMAIN zoneRows \union {z} \in SetsOfZones
    BY <1>1, <2>4, RowFacts DEF SetsOfZones
  <2>7. zoneRows' \in RowsOfZones
    BY <2>5, <2>6, RowFacts
  <2> QED  BY <1>2, <1>4, <2>2, <2>3, <2>7, SyncMoves DEF WriteZone
<1>5. CASE ListUnseen(s)
  <2> DEFINE to == [c EXCEPT !.at = "delete", !.keys = Unseen(s)]
  <2>1. Unseen(s) \in SetsOfZones /\ Unseen(s) \intersect DOMAIN c.fetched = {}
    BY <1>1, RowFacts DEF Unseen, SetsOfZones
  <2>2. to \in SyncType /\ KeysFit(to)
    BY <1>1, <2>1 DEF SyncType, KeysFit
  <2>3. zoneSync' = [zoneSync EXCEPT ![s] = to]
    BY <1>1, <1>5 DEF ListUnseen
  <2> QED  BY <1>1, <1>2, <1>5, <2>2, <2>3, SyncMoves DEF ListUnseen
<1>6. CASE DeleteUnseen(s)
  <2> DEFINE kept == DOMAIN zoneRows \ c.keys
  <2>1. kept \in SetsOfZones /\ zoneRows' = [z \in kept |-> zoneRows[z]]
    BY <1>1, <1>6, RowFacts DEF DeleteUnseen, Restrict, SetsOfZones
  <2>2. zoneRows' \in [kept -> [count : 0..MaxCount, fresh : BOOLEAN]]
    BY <1>1, <2>1, RowFacts
  <2>3. zoneRows' \in RowsOfZones
    BY <2>1, <2>2, RowFacts
  <2> QED  BY <1>2, <1>6, <2>3, CountsFacts, SyncMoves DEF DeleteUnseen
<1>7. CASE SyncFails(s)
  BY <1>1, <1>2, <1>7, CountsFacts, SyncMoves DEF SyncFails
<1>8. CASE ZoneLoopDies(s)
  BY <1>1, <1>2, <1>8, CountsFacts, SyncMoves DEF ZoneLoopDies
<1> QED  BY <1>3, <1>4, <1>5, <1>6, <1>7, <1>8 DEF SyncStep

LEMMA ZonesStep == ASSUME ZonesInv, [ZonesNext]_zoneVars PROVE ZonesInv'
<1> USE DEF ZonesInv, ZonesTypeOK, AllKeysFit, outsideVars
<1>1. ASSUME NEW s \in ZoneSyncers, SyncStep(s)  PROVE  ZonesInv'
  BY <1>1, SyncKeeps
<1>6. ASSUME NEW s \in ZoneSyncers, ZoneLoopStarts(s)  PROVE  ZonesInv'
  BY <1>6, CountsFacts, SyncMoves DEF ZoneLoopStarts
<1>2. CASE RowsAge
  <2>1. DOMAIN zoneRows \in SetsOfZones
    BY RowFacts
  <2>2. \A z \in DOMAIN zoneRows :
          [zoneRows[z] EXCEPT !.fresh = FALSE] \in [count : 0..MaxCount, fresh : BOOLEAN]
    <3>1. zoneRows \in [DOMAIN zoneRows -> [count : 0..MaxCount, fresh : BOOLEAN]]
      BY RowFacts
    <3> QED  BY <3>1
  <2>3. zoneRows' \in [DOMAIN zoneRows -> [count : 0..MaxCount, fresh : BOOLEAN]]
    BY <1>2, <2>2 DEF RowsAge
  <2>4. zoneRows' \in RowsOfZones
    BY <2>1, <2>3, RowFacts
  <2> QED  BY <1>2, <2>4 DEF RowsAge
<1>3. CASE Outside
  BY <1>3 DEF Outside
<1>4. CASE PeopleMove
  BY <1>4 DEF PeopleMove
<1>5. CASE UNCHANGED zoneVars
  BY <1>5 DEF zoneVars
<1> QED  BY <1>1, <1>2, <1>3, <1>4, <1>5, <1>6 DEF ZonesNext

(* Every variable of the synchronisation keeps its type.  It rests on      *)
(* AllKeysFit: a synchronisation writes zones of its answer only.          *)
THEOREM ZonesTypesCorrect == ZonesSpec => []ZonesTypeOK
<1>1. ZonesInit => ZonesInv
  <2>1. (zoneRows = [z \in {} |-> [count |-> 0, fresh |-> TRUE]]) => zoneRows \in RowsOfZones
    <3>1. {} \in SetsOfZones
      BY DEF SetsOfZones
    <3> QED  BY <3>1, RowFacts
  <2> QED  BY <2>1, CountsFacts DEF ZonesInit, ZonesInv, ZonesTypeOK, AllKeysFit, SyncType
<1>2. ZonesInv /\ [ZonesNext]_zoneVars => ZonesInv'
  BY ZonesStep
<1>3. ZonesInv => ZonesTypeOK
  BY DEF ZonesInv
<1> QED  BY <1>1, <1>2, <1>3, PTL DEF ZonesSpec

(***************************************************************************)
(* MCStation: the components side by side.                                 *)
(***************************************************************************)

(* A behaviour of the composition is one of every component: a component   *)
(* that is not in focus stands still.  What is proved of a component holds *)
(* in the run.                                                             *)
THEOREM StationRunsComponents ==
  StationSpec => /\ Spec /\ FaultsSpec /\ ConfigSpec /\ PoolSpec
                 /\ SchedulerSpec /\ PollingSpec /\ ZonesSpec
<1>1. StationInit => /\ Init /\ FaultsInit /\ ConfigInit /\ PoolInit
                     /\ SchedulerInit /\ PollingInit /\ ZonesInit
  BY DEF StationInit
<1>2. [StationNext]_vars => /\ [Next]_micVars /\ [FaultsNext]_stationVars
                            /\ [BoundedConfigNext]_cfgVars /\ [PoolNext]_streamVars
                            /\ [SchedulerNext]_schedVars /\ [PollingNext]_hostVars
                            /\ [ZonesNext]_zoneVars
  BY DEF StationNext, vars
<1> QED  BY <1>1, <1>2, PTL
         DEF StationSpec, Spec, FaultsSpec, ConfigSpec, PoolSpec, SchedulerSpec, PollingSpec,
             ZonesSpec

(* OccSync runs in three instances, whose types bound different numbers of *)
(* days and heartbeats; the theorems hold for each choice of the bounds.   *)
OutageProofs == INSTANCE ControlCentre_proofs WITH
  ManualKinds <- {"heartbeat"}, MaxSequence <- 1,
  OccWorld <- {"outage", "crash"}

DaysProofs == INSTANCE ControlCentre_proofs WITH
  ManualKinds <- {}, MaxSequence <- 1, MaxDay <- 2,
  OccWorld <- {"outage", "crash", "db_error", "row_saves"}

LEMMA OccInFocusTypes ==
  StationSpec => [](focus = "occ" => OccTypeOK)
<1> DEFINE InFocus == focus = "occ"
<1>1. StationInit => OccInit
  BY DEF StationInit
<1>2. InFocus /\ [StationNext]_vars => InFocus' /\ [OccNext]_occSyncVars
  BY DEF StationNext, vars
<1>3. ~InFocus /\ [StationNext]_vars => ~InFocus'
  BY DEF StationNext, vars
<1>4. InFocus /\ OccTypeOK => (focus = "occ" => OccTypeOK)
  OBVIOUS
<1>5. ~InFocus => (focus = "occ" => OccTypeOK)
  OBVIOUS
<1> HIDE DEF InFocus
<1> QED  BY <1>1, <1>2, <1>3, <1>4, <1>5, OccTypesCorrect, PTL DEF StationSpec, OccSpec

(* A step of OccOutage is one of OutageProofs: both have the definitions of   *)
(* OccSync, with the same values for its constants.                        *)
LEMMA OccOutageIsTheSame == OccOutage!OccNext <=> OutageProofs!OccNext
  BY Zenon DEF
     OccOutage!occVars, OutageProofs!occVars, OccOutage!stateVars,
     OutageProofs!stateVars, OccOutage!clockVars, OutageProofs!clockVars,
     OccOutage!Threshold, OutageProofs!Threshold, OccOutage!NoCopy, OutageProofs!NoCopy,
     OccOutage!AtRest, OutageProofs!AtRest, OccOutage!Capped, OutageProofs!Capped,
     OccOutage!MayDo, OutageProofs!MayDo, OccOutage!After, OutageProofs!After,
     OccOutage!Posting, OutageProofs!Posting, OccOutage!Heartbeat,
     OutageProofs!Heartbeat, OccOutage!Waiting, OutageProofs!Waiting,
     OccOutage!Sendable, OutageProofs!Sendable, OccOutage!FirstOfItsKind,
     OutageProofs!FirstOfItsKind, OccOutage!Candidates, OutageProofs!Candidates,
     OccOutage!Batch, OutageProofs!Batch, OccOutage!Scanned, OutageProofs!Scanned,
     OccOutage!CollectEvents, OutageProofs!CollectEvents, OccOutage!DailyDue,
     OutageProofs!DailyDue, OccOutage!DeviceStatus, OutageProofs!DeviceStatus,
     OccOutage!DailySync, OutageProofs!DailySync, OccOutage!Delivered,
     OutageProofs!Delivered, OccOutage!PostSucceeds, OutageProofs!PostSucceeds,
     OccOutage!PostFails, OutageProofs!PostFails, OccOutage!MarkSuccess,
     OutageProofs!MarkSuccess, OccOutage!RecoverFault, OutageProofs!RecoverFault,
     OccOutage!ReadFailures, OutageProofs!ReadFailures, OccOutage!MarkFailure,
     OutageProofs!MarkFailure, OccOutage!ReportFault, OutageProofs!ReportFault,
     OccOutage!FaultStepLost, OutageProofs!FaultStepLost, OccOutage!SyncEnds,
     OutageProofs!SyncEnds, OccOutage!Advanced, OutageProofs!Advanced,
     OccOutage!RecordHeartbeat, OutageProofs!RecordHeartbeat, OccOutage!Outcome,
     OutageProofs!Outcome, OccOutage!RecordEvents, OutageProofs!RecordEvents,
     OccOutage!RecordDaily, OutageProofs!RecordDaily, OccOutage!RecordFailure,
     OutageProofs!RecordFailure, OccOutage!NewEvent, OutageProofs!NewEvent,
     OccOutage!ReadRow, OutageProofs!ReadRow, OccOutage!SaveRow, OutageProofs!SaveRow,
     OccOutage!SyncerDies, OutageProofs!SyncerDies, OccOutage!HourStrikes,
     OutageProofs!HourStrikes, OccOutage!Midnight, OutageProofs!Midnight,
     OccOutage!Step, OutageProofs!Step, OccOutage!OccNext, OutageProofs!OccNext,
     OccOutage!Max, OutageProofs!Max, OccOutage!Cardinality, OutageProofs!Cardinality

LEMMA OccOutageTypes ==
  StationSpec => [](focus = "occ_outage" => OccOutage!OccTypeOK)
<1> DEFINE InFocus == focus = "occ_outage"
<1>1. OccEvents \subseteq Nat /\ 1 \in Nat /\ MaxDay \in Nat \ {0}
  BY OccAssumption
<1>2. OutageProofs!OccSpec => []OutageProofs!OccTypeOK
  BY <1>1, FaultsAssumption, OutageProofs!OccTypesCorrect DEF IsFiniteSet, OutageProofs!IsFiniteSet
<1>3. StationInit => OutageProofs!OccInit
  BY DEF StationInit, OccInit, OutageProofs!OccInit, AtRest, OutageProofs!AtRest, NoCopy, OutageProofs!NoCopy
<1>4. InFocus /\ [StationNext]_vars => InFocus' /\ [OutageProofs!OccNext]_OutageProofs!occSyncVars
  <2>1. UNCHANGED occSyncVars => UNCHANGED OutageProofs!occSyncVars
    BY DEF occSyncVars, occVars, stateVars, clockVars, OutageProofs!occSyncVars, OutageProofs!occVars,
           OutageProofs!stateVars, OutageProofs!clockVars
  <2>2. UNCHANGED vars => UNCHANGED focus /\ UNCHANGED occSyncVars
    BY DEF vars
  <2> QED  BY <2>1, <2>2, OccOutageIsTheSame DEF StationNext
<1>5. ~InFocus /\ [StationNext]_vars => ~InFocus'
  BY DEF StationNext, vars
<1>6. OutageProofs!OccTypeOK => OccOutage!OccTypeOK
  BY Zenon DEF OccOutage!OccTypeOK, OutageProofs!OccTypeOK, OccOutage!Statuses, OutageProofs!Statuses, OccOutage!Threshold,
     OutageProofs!Threshold, OccOutage!Turns, OutageProofs!Turns
<1>7. ~InFocus => (focus = "occ_outage" => OccOutage!OccTypeOK)
  OBVIOUS
<1>8. OccOutage!OccTypeOK => (focus = "occ_outage" => OccOutage!OccTypeOK)
  OBVIOUS
<1> HIDE DEF InFocus
<1> QED  BY <1>2, <1>3, <1>4, <1>5, <1>6, <1>7, <1>8, PTL DEF StationSpec, OutageProofs!OccSpec

(* A step of OccDays is one of DaysProofs: both have the definitions of   *)
(* OccSync, with the same values for its constants.                        *)
LEMMA OccDaysIsTheSame == OccDays!OccNext <=> DaysProofs!OccNext
  BY Zenon DEF
     OccDays!occVars, DaysProofs!occVars, OccDays!stateVars, DaysProofs!stateVars,
     OccDays!clockVars, DaysProofs!clockVars, OccDays!Threshold, DaysProofs!Threshold,
     OccDays!NoCopy, DaysProofs!NoCopy, OccDays!AtRest, DaysProofs!AtRest,
     OccDays!Capped, DaysProofs!Capped, OccDays!MayDo, DaysProofs!MayDo, OccDays!After,
     DaysProofs!After, OccDays!Posting, DaysProofs!Posting, OccDays!Heartbeat,
     DaysProofs!Heartbeat, OccDays!Waiting, DaysProofs!Waiting, OccDays!Sendable,
     DaysProofs!Sendable, OccDays!FirstOfItsKind, DaysProofs!FirstOfItsKind,
     OccDays!Candidates, DaysProofs!Candidates, OccDays!Batch, DaysProofs!Batch,
     OccDays!Scanned, DaysProofs!Scanned, OccDays!CollectEvents,
     DaysProofs!CollectEvents, OccDays!DailyDue, DaysProofs!DailyDue,
     OccDays!DeviceStatus, DaysProofs!DeviceStatus, OccDays!DailySync,
     DaysProofs!DailySync, OccDays!Delivered, DaysProofs!Delivered,
     OccDays!PostSucceeds, DaysProofs!PostSucceeds, OccDays!PostFails,
     DaysProofs!PostFails, OccDays!MarkSuccess, DaysProofs!MarkSuccess,
     OccDays!RecoverFault, DaysProofs!RecoverFault, OccDays!ReadFailures,
     DaysProofs!ReadFailures, OccDays!MarkFailure, DaysProofs!MarkFailure,
     OccDays!ReportFault, DaysProofs!ReportFault, OccDays!FaultStepLost,
     DaysProofs!FaultStepLost, OccDays!SyncEnds, DaysProofs!SyncEnds, OccDays!Advanced,
     DaysProofs!Advanced, OccDays!RecordHeartbeat, DaysProofs!RecordHeartbeat,
     OccDays!Outcome, DaysProofs!Outcome, OccDays!RecordEvents, DaysProofs!RecordEvents,
     OccDays!RecordDaily, DaysProofs!RecordDaily, OccDays!RecordFailure,
     DaysProofs!RecordFailure, OccDays!NewEvent, DaysProofs!NewEvent, OccDays!ReadRow,
     DaysProofs!ReadRow, OccDays!SaveRow, DaysProofs!SaveRow, OccDays!SyncerDies,
     DaysProofs!SyncerDies, OccDays!HourStrikes, DaysProofs!HourStrikes,
     OccDays!Midnight, DaysProofs!Midnight, OccDays!Step, DaysProofs!Step,
     OccDays!OccNext, DaysProofs!OccNext, OccDays!Max, DaysProofs!Max,
     OccDays!Cardinality, DaysProofs!Cardinality

LEMMA OccDaysTypes ==
  StationSpec => [](focus = "occ_days" => OccDays!OccTypeOK)
<1> DEFINE InFocus == focus = "occ_days"
<1>1. OccEvents \subseteq Nat /\ 1 \in Nat /\ 2 \in Nat \ {0}
  BY OccAssumption
<1>2. DaysProofs!OccSpec => []DaysProofs!OccTypeOK
  BY <1>1, FaultsAssumption, DaysProofs!OccTypesCorrect DEF IsFiniteSet, DaysProofs!IsFiniteSet
<1>3. StationInit => DaysProofs!OccInit
  BY DEF StationInit, OccInit, DaysProofs!OccInit, AtRest, DaysProofs!AtRest, NoCopy, DaysProofs!NoCopy
<1>4. InFocus /\ [StationNext]_vars => InFocus' /\ [DaysProofs!OccNext]_DaysProofs!occSyncVars
  <2>1. UNCHANGED occSyncVars => UNCHANGED DaysProofs!occSyncVars
    BY DEF occSyncVars, occVars, stateVars, clockVars, DaysProofs!occSyncVars, DaysProofs!occVars,
           DaysProofs!stateVars, DaysProofs!clockVars
  <2>2. UNCHANGED vars => UNCHANGED focus /\ UNCHANGED occSyncVars
    BY DEF vars
  <2> QED  BY <2>1, <2>2, OccDaysIsTheSame DEF StationNext
<1>5. ~InFocus /\ [StationNext]_vars => ~InFocus'
  BY DEF StationNext, vars
<1>6. DaysProofs!OccTypeOK => OccDays!OccTypeOK
  BY Zenon DEF OccDays!OccTypeOK, DaysProofs!OccTypeOK, OccDays!Statuses, DaysProofs!Statuses, OccDays!Threshold,
     DaysProofs!Threshold, OccDays!Turns, DaysProofs!Turns
<1>7. ~InFocus => (focus = "occ_days" => OccDays!OccTypeOK)
  OBVIOUS
<1>8. OccDays!OccTypeOK => (focus = "occ_days" => OccDays!OccTypeOK)
  OBVIOUS
<1> HIDE DEF InFocus
<1> QED  BY <1>2, <1>3, <1>4, <1>5, <1>6, <1>7, <1>8, PTL DEF StationSpec, DaysProofs!OccSpec

(* Every variable of the components keeps its type in the run.             *)
THEOREM StationTypesCorrect == StationSpec => []StationTypeOK
<1>1. /\ TypeOK /\ FaultsTypeOK /\ ConfigTypeOK /\ PoolTypeOK
      /\ SchedulerTypeOK /\ PollingTypeOK /\ ZonesTypeOK
      /\ focus = "occ" => OccTypeOK
      /\ focus = "occ_outage" => OccOutage!OccTypeOK
      /\ focus = "occ_days" => OccDays!OccTypeOK
      => StationTypeOK
  BY DEF StationTypeOK
<1> QED  BY <1>1, StationRunsComponents, OccInFocusTypes, OccOutageTypes, OccDaysTypes,
            TypeCorrect, FaultTypesCorrect, ConfigTypesCorrect, PoolTypesCorrect,
            SchedulerTypesCorrect, PollingTypesCorrect, ZonesTypesCorrect, PTL

=============================================================================
