--------------------------- MODULE ConfigRestore ---------------------------
(***************************************************************************)
(* The station's configuration archive: export, staging of an upload, and  *)
(* the restore, which copies the database file, then replaces the          *)
(* configuration in one transaction and overwrites media files beside it.  *)
(*                                                                         *)
(* The configuration is three parts (the coded objects with the station's  *)
(* own row, the audio files, the schedules); a part is the number of edits *)
(* it reflects.  While the transaction is open it holds SQLite's write lock*)
(* and other writers wait; its own writes are in txn until it commits.     *)
(***************************************************************************)
EXTENDS Naturals, FiniteSets

CONSTANTS
  Operators,   \* request threads and the restore command
  Nobody,      \* the write lock is free
  MaxEdits     \* edits ever made (a bound)

(* The bound is a number, and the free lock is nobody's.                   *)
ASSUME ConfigAssumption == MaxEdits \in Nat /\ Nobody \notin Operators

VARIABLES
  db,          \* the configuration tables
  secret,      \* what an operator entered for a camera, in the same database
  media,       \* the file on disk of the audio row
  archive,     \* the archive exported last
  staged,      \* an uploaded copy of it waits for its confirmation
  restorePoint,\* the database file copied last
  writer,      \* who holds the write lock with an open transaction
  txn,         \* the tables as that transaction sees them
  txnSecret,   \* the secrets it writes
  op,          \* where each operator is
  edits,       \* edits made so far
  lastSecret,  \* history: the secrets last entered
  restoreErrors  \* history: what made each restore fail

cfgVars == <<db, secret, media, archive, staged, restorePoint, writer, txn, txnSecret, op,
             edits, lastSecret, restoreErrors>>

Edit == 0..MaxEdits
Parts == {"objects", "audio", "schedules"}
(* The password columns, and the credentials written inside rtsp_url.      *)
Secrets == {"password", "url"}
(* runs: a schedule is active; epoch: the restores a part reflects.        *)
Tables == [value : [Parts -> Edit], runs : BOOLEAN, epoch : [Parts -> Nat]]
NoTables == [value |-> [p \in Parts |-> 0], runs |-> FALSE, epoch |-> [p \in Parts |-> 0]]
NoSecrets == [k \in Secrets |-> 0]
NoArchive == [state |-> "none", tables |-> NoTables, file |-> 0]

ConfigTypeOK ==
  /\ db \in Tables
  /\ txn \in Tables
  /\ restorePoint \in [tables : Tables, secret : [Secrets -> Edit]]
  /\ secret \in [Secrets -> Edit] /\ txnSecret \in [Secrets -> Edit]
  /\ lastSecret \in [Secrets -> Edit] /\ media \in Edit /\ edits \in Edit
  /\ archive \in [state : {"none", "begun", "complete"} \union Parts, tables : Tables, file : Edit]
  /\ staged \in BOOLEAN
  /\ writer \in Operators \union {Nobody}
  /\ op \in [Operators -> {"idle", "export", "copied", "objects", "audio", "schedules", "restored"}]
  /\ restoreErrors \subseteq {"schedule", "media", "crash"}

ConfigInit ==
  /\ db = NoTables
  /\ txn = NoTables
  /\ secret = NoSecrets /\ txnSecret = NoSecrets /\ lastSecret = NoSecrets
  /\ restorePoint = [tables |-> NoTables, secret |-> NoSecrets]
  /\ media = 0 /\ edits = 0
  /\ archive = NoArchive
  /\ staged = FALSE
  /\ writer = Nobody
  /\ op = [o \in Operators |-> "idle"]
  /\ restoreErrors = {}

---------------------------------------------------------------------------
(* Operators who edit the configuration meanwhile.                         *)

EditPart(p, active) ==
  /\ writer = Nobody
  /\ edits < MaxEdits
  /\ edits' = edits + 1
  /\ db' = [db EXCEPT !.value[p] = edits', !.runs = IF p = "schedules" THEN active ELSE @]
  /\ media' = IF p = "audio" THEN edits' ELSE media
  /\ UNCHANGED <<secret, archive, staged, restorePoint, writer, txn, txnSecret, op, lastSecret, restoreErrors>>

EditSecret(k) ==
  /\ writer = Nobody
  /\ edits < MaxEdits
  /\ edits' = edits + 1
  /\ secret' = [secret EXCEPT ![k] = edits']
  /\ lastSecret' = [lastSecret EXCEPT ![k] = edits']
  /\ UNCHANGED <<db, media, archive, staged, restorePoint, writer, txn, txnSecret, op, restoreErrors>>

---------------------------------------------------------------------------
(* export_configuration_archive: the rows first, query by query and without*)
(* secrets, the media files they name afterwards.  One export at a time is *)
(* followed (a bound).                                                     *)

ExportBegins(o) ==
  /\ op[o] = "idle" /\ \A x \in Operators : op[x] # "export"
  /\ op' = [op EXCEPT ![o] = "export"]
  /\ archive' = [NoArchive EXCEPT !.state = "begun"]
  /\ UNCHANGED <<db, secret, media, staged, restorePoint, writer, txn, txnSecret, edits, lastSecret, restoreErrors>>

ReadBefore == [objects |-> "begun", audio |-> "objects", schedules |-> "audio"]

(* The tables are read as they are by then: no transaction is around them. *)
ExportRows(o, p) ==
  /\ op[o] = "export" /\ archive.state = ReadBefore[p]
  /\ archive' = [archive EXCEPT !.state = p, !.tables =
                   [value |-> [@.value EXCEPT ![p] = db.value[p]], runs |-> db.runs,
                    epoch |-> [@.epoch EXCEPT ![p] = db.epoch[p]]]]
  /\ UNCHANGED <<db, secret, media, staged, restorePoint, writer, txn, txnSecret, op, edits, lastSecret, restoreErrors>>

ExportMedia(o) ==
  /\ op[o] = "export" /\ archive.state = "schedules"
  /\ op' = [op EXCEPT ![o] = "idle"]
  /\ archive' = [archive EXCEPT !.state = "complete", !.file = media]
  /\ UNCHANGED <<db, secret, media, staged, restorePoint, writer, txn, txnSecret, edits, lastSecret, restoreErrors>>

(* stage_uploaded_archive: only an archive that passes the inspection stays*)
Stage ==
  /\ archive.state = "complete"
  /\ ~staged
  /\ staged' = TRUE
  /\ UNCHANGED <<db, secret, media, archive, restorePoint, writer, txn, txnSecret, op, edits, lastSecret, restoreErrors>>

---------------------------------------------------------------------------
(* restore_configuration_archive.                                          *)

(* The archive is inspected and the database file is copied.               *)
RestoreCopies(o) ==
  /\ op[o] = "idle"
  /\ staged
  /\ archive.state = "complete"
  /\ restorePoint' = [tables |-> db, secret |-> secret]
  /\ op' = [op EXCEPT ![o] = "copied"]
  /\ UNCHANGED <<db, secret, media, archive, staged, writer, txn, txnSecret, edits, lastSecret, restoreErrors>>

(* The transaction, part by part.                                          *)
Restored(tables, p) ==
  [tables EXCEPT !.value[p] = archive.tables.value[p], !.epoch[p] = @ + 1]

(* The passwords of an object that exists are read inside the transaction  *)
(* and kept; its rtsp_url becomes the archive's, which has no credentials. *)
ExistingSecret == [secret EXCEPT !["url"] = 0]

RestoreObjects(o) ==
  /\ op[o] = "copied"
  /\ archive.state = "complete"
  /\ writer = Nobody
  /\ writer' = o
  /\ txn' = Restored(db, "objects")
  /\ txnSecret' = ExistingSecret
  /\ op' = [op EXCEPT ![o] = "objects"]
  /\ UNCHANGED <<db, secret, media, archive, staged, restorePoint, edits, lastSecret, restoreErrors>>

(* Each audio row with its file, which is overwritten at once.             *)
RestoreAudio(o) ==
  /\ op[o] = "objects"
  /\ txn' = Restored(txn, "audio")
  /\ media' = archive.file
  /\ op' = [op EXCEPT ![o] = "audio"]
  /\ UNCHANGED <<db, secret, archive, staged, restorePoint, writer, txnSecret, edits, lastSecret, restoreErrors>>

(* Mutant of RollBack: what was written so far is committed.               *)
CommitHalf(o, why) ==
  /\ writer' = Nobody
  /\ txn' = NoTables
  /\ op' = [op EXCEPT ![o] = "idle"]
  /\ restoreErrors' = restoreErrors \union {why}
  /\ db' = txn

RollBack(o, why) ==
  /\ writer' = Nobody
  /\ txn' = NoTables
  /\ op' = [op EXCEPT ![o] = "idle"]
  /\ restoreErrors' = restoreErrors \union {why}
  /\ UNCHANGED db

(* A media file that cannot be written raises out of the transaction.      *)
MediaFails(o) ==
  /\ op[o] = "objects"
  /\ RollBack(o, "media")
  /\ UNCHANGED <<secret, media, archive, staged, restorePoint, txnSecret, edits, lastSecret>>

(* The schedules are deleted and created again.  Their times come from the *)
(* archive as text, and save computes the next run of an active schedule   *)
(* from them: comparing text with a time raises TypeError.                 *)
RestoreSchedules(o) ==
  /\ op[o] = "audio"
  /\ IF archive.tables.runs
     THEN RollBack(o, "schedule") /\ UNCHANGED secret
     ELSE /\ db' = [Restored(txn, "schedules") EXCEPT !.runs = FALSE]
          /\ secret' = txnSecret
          /\ writer' = Nobody
          /\ txn' = NoTables
          /\ op' = [op EXCEPT ![o] = "restored"]
          /\ UNCHANGED restoreErrors
  /\ UNCHANGED <<media, archive, staged, restorePoint, txnSecret, edits, lastSecret>>

(* restore_station_configuration deletes the staged archive afterwards.    *)
Unstage(o) ==
  /\ op[o] = "restored"
  /\ staged' = FALSE
  /\ op' = [op EXCEPT ![o] = "idle"]
  /\ UNCHANGED <<db, secret, media, archive, restorePoint, writer, txn, txnSecret, edits, lastSecret, restoreErrors>>

(* The server dies: SQLite rolls the open transaction back.                *)
ServerDies ==
  /\ writer # Nobody
  /\ RollBack(writer, "crash")
  /\ UNCHANGED <<secret, media, archive, staged, restorePoint, txnSecret, edits, lastSecret>>

ConfigNext ==
  \/ \E p \in Parts, active \in BOOLEAN : EditPart(p, active)
  \/ \E k \in Secrets : EditSecret(k)
  \/ Stage
  \/ ServerDies
  \/ \E o \in Operators :
       \/ ExportBegins(o) \/ ExportMedia(o)
       \/ \E p \in Parts : ExportRows(o, p)
       \/ RestoreCopies(o) \/ RestoreObjects(o) \/ RestoreAudio(o)
       \/ MediaFails(o) \/ RestoreSchedules(o) \/ Unstage(o)

(* At most MaxEdits restores are followed as well.                         *)
BoundedConfigNext == ConfigNext /\ db'.epoch["objects"] <= MaxEdits

ConfigSpec == ConfigInit /\ [][BoundedConfigNext]_cfgVars

---------------------------------------------------------------------------
(* However a restore ends (a file that cannot be written, a bad schedule, a*)
(* server that dies), either every part of the configuration comes from it *)
(* or none does (the transaction of restore_configuration_archive).        *)
NoHalfRestore == \A p, q \in Parts : db.epoch[p] = db.epoch[q]

(* The password of a device is the one an operator entered last: archives  *)
(* carry none, and a restore must not blank or revert it, whenever it was  *)
(* edited (defaults["password"] = existing.password).                      *)
PasswordsSurvive == secret["password"] = lastSecret["password"]

(* A restore is whole and costs no password that has a column of its own.  *)
RestoreIsSafe == NoHalfRestore /\ PasswordsSurvive

(* Not so: credentials inside a camera's rtsp_url are stripped from the    *)
(* archive and gone after the restore.                                     *)
UrlSecretsSurvive == secret["url"] = lastSecret["url"]

(* A station can restore its own archive: only a file that cannot be       *)
(* written or a dying server stops it.                                     *)
ArchiveIsRestorable == "schedule" \notin restoreErrors

===========================================================================
