---------------------------- MODULE EventNumber ----------------------------
(***************************************************************************)
(* The daily number of an event.  Event.save gives a new row the next      *)
(* number of its day inside a transaction; the importer, the event API and *)
(* the command repair_reused_event_ids all create rows through it, and an  *)
(* administrator deletes rows.  The command also moves the snapshot file   *)
(* of an overwritten row to the row it recovers.                           *)
(*                                                                         *)
(* SQLite's deferred transactions: all read freely, the first to write     *)
(* holds the write lock to its commit, and a reader whose view is older    *)
(* than the last commit is refused ("database is locked") when it writes.  *)
(***************************************************************************)
EXTENDS Naturals, FiniteSets, FiniteSetsExt

CONSTANTS
  Writers,      \* threads and commands that create Event rows
  EventIds,     \* identities of Event rows
  Overwritten,  \* rows that an older build overwrote with a later event
  Recovered,    \* function: the identity of the event each of them hides
  Days,         \* local dates
  NoEvent,      \* the null of an event reference
  MaxNumber     \* bound on the numbers given out on a day

(* The rows are finitely many at the start, and a null is no row.  The     *)
(* older build kept one row per host and source id, so the identity of a   *)
(* hidden event, which holds its own time, is not an overwritten row's.    *)
ASSUME NumberAssumption ==
  /\ Overwritten \subseteq EventIds /\ IsFiniteSet(Overwritten)
  /\ Recovered \in [Overwritten -> EventIds \ Overwritten]
  /\ Days # {}
  /\ NoEvent \notin EventIds
  /\ MaxNumber \in Nat

VARIABLES
  number,   \* the rows: [day, seq], with seq = 0 where there is no row
  counter,  \* EventDailyCounter.last_sequence, 0 where there is no row
  image,    \* the rows whose snapshot column names a file
  files,    \* the snapshot files on the disk, by the row they were saved for
  saver,   \* the transaction of each saver
  given     \* history: the numbers ever committed

numberVars == <<number, counter, image, files, saver, given>>

NoNumber == [day |-> CHOOSE d \in Days : TRUE, seq |-> 0]

IdleSaver ==
  [pc |-> "idle", id |-> NoEvent, from |-> NoEvent, day |-> NoNumber.day,
   max |-> 0, last |-> 0, stale |-> FALSE]

Stored(e) == number[e].seq # 0

NumberTypeOK ==
  /\ number \in [EventIds -> [day : Days, seq : Nat]]
  /\ counter \in [Days -> Nat]
  /\ image \subseteq EventIds /\ files \subseteq EventIds
  /\ saver \in [Writers ->
       [pc : {"idle", "checked", "numbered", "inserted", "moved"},
        id : EventIds \union {NoEvent}, from : EventIds \union {NoEvent},
        day : Days, max : Nat, last : Nat, stale : BOOLEAN]]
  /\ given \subseteq [day : Days, seq : Nat]

(* The migration has numbered the rows there were and set their counter.   *)
NumberInit ==
  /\ \E d \in Days, rank \in [Overwritten -> 1..Cardinality(Overwritten)] :
       /\ \A e, f \in Overwritten : rank[e] = rank[f] => e = f
       /\ number = [e \in EventIds |-> IF e \in Overwritten
                                       THEN [day |-> d, seq |-> rank[e]] ELSE NoNumber]
       /\ counter = [c \in Days |-> IF c = d THEN Cardinality(Overwritten) ELSE 0]
       /\ given = {[day |-> d, seq |-> rank[e]] : e \in Overwritten}
  /\ image = Overwritten /\ files = Overwritten
  /\ saver = [w \in Writers |-> IdleSaver]

-----------------------------------------------------------------------------
Locked == \E w \in Writers : saver[w].pc \in {"inserted", "moved"}

(* A commit makes the views that other open transactions read stale.      *)
Ended(w) ==
  [v \in Writers |-> IF v = w THEN IdleSaver ELSE [saver[v] EXCEPT !.stale = @ \/ saver[v].pc = "numbered"]]

(* Mutant of NextNumber: the next number after the rows there are.         *)
NextOfRows(c) == c.max + 1

(* The counter row goes on from itself, or from the rows if they are ahead.*)
NextNumber(c) == (IF c.last < c.max THEN c.max ELSE c.last) + 1

(* The importer or the event API begins to save a new event: it reads the  *)
(* rows and the counter of the event's day.                                *)
ReadCounter(c, e, d) ==
  [c EXCEPT !.pc = "numbered", !.id = e, !.day = d, !.last = counter[d], !.stale = FALSE,
            !.max = Max({number[f].seq : f \in {g \in EventIds : number[g].day = d}} \union {0})]

BeginSave(w, e, d) ==
  /\ saver[w].pc = "idle" /\ e \notin Overwritten
  /\ counter[d] < MaxNumber
  /\ saver' = [saver EXCEPT ![w] = ReadCounter(IdleSaver, e, d)]
  /\ UNCHANGED <<number, counter, image, files, given>>

(* Its first write, the counter, takes the write lock; then the row goes   *)
(* in, unless its identity is already stored.                              *)
Insert(w) ==
  /\ saver[w].pc = "numbered" /\ ~saver[w].stale /\ ~Locked
  /\ ~Stored(saver[w].id)
  /\ saver' = [saver EXCEPT ![w].pc = "inserted"]
  /\ UNCHANGED <<number, counter, image, files, given>>

(* "database is locked", or the row's identity is unique and taken: the    *)
(* transaction is rolled back.  The repair command ends with the error.    *)
SaveRefused(w) ==
  /\ saver[w].pc = "numbered"
  /\ saver[w].stale \/ Locked \/ Stored(saver[w].id)
  /\ saver' = [saver EXCEPT ![w] = IdleSaver]
  /\ UNCHANGED <<number, counter, image, files, given>>

Commit(w) ==
  LET c == saver[w]
      n == [day |-> c.day, seq |-> NextNumber(c)]
  IN
  /\ c.pc \in {"inserted", "moved"}
  /\ c.pc = "moved" => Stored(c.from)
  /\ number' = [number EXCEPT ![c.id] = n]
  /\ counter' = [counter EXCEPT ![c.day] = n.seq]
  /\ given' = given \union {n}
  /\ image' = IF c.pc = "moved" THEN (image \ {c.from}) \union {c.id} ELSE image \ {c.id}
  /\ saver' = Ended(w)
  /\ UNCHANGED files

(* An administrator deletes an event; its snapshot file stays.             *)
Delete(e) ==
  /\ Stored(e) /\ ~Locked
  /\ number' = [number EXCEPT ![e] = NoNumber]
  /\ image' = image \ {e}
  /\ saver' = [v \in Writers |-> [saver[v] EXCEPT !.stale = @ \/ saver[v].pc = "numbered"]]
  /\ UNCHANGED <<counter, files, given>>

-----------------------------------------------------------------------------
(* repair_reused_event_ids --apply: each row of its list whose hidden event*)
(* is not stored yet gets that event recovered, in a transaction of its    *)
(* own; the list may be older than the rows by then.                       *)
RepairChecks(w, e) ==
  /\ saver[w].pc = "idle" /\ e \in Overwritten /\ Stored(e)
  /\ ~Stored(Recovered[e])
  /\ saver' = [saver EXCEPT ![w] = [IdleSaver EXCEPT !.pc = "checked", !.from = e]]
  /\ UNCHANGED <<number, counter, image, files, given>>

RepairBegins(w, d) ==
  /\ saver[w].pc = "checked"
  /\ counter[d] < MaxNumber
  /\ saver' = [saver EXCEPT ![w] = ReadCounter(@, Recovered[@.from], d)]
  /\ UNCHANGED <<number, counter, image, files, given>>

(* Mutant of MovedFiles: the copy gets the name of the old file, and goes  *)
(* with it.                                                                *)
MovedUnderOneName(c) == (files \union {c.id}) \ {c.from, c.id}

(* The recovered row's copy is saved first, then the old file is deleted.  *)
MovedFiles(c) == (files \ {c.from}) \union {c.id}

(* --move-local-snapshot: moves the file of the overwritten row to the     *)
(* recovered one, before the commit.                                       *)
MoveSnapshot(w) ==
  LET c == saver[w] IN
  /\ c.pc = "inserted" /\ c.from # NoEvent
  /\ c.from \in files
  /\ files' = MovedFiles(c)
  /\ saver' = [saver EXCEPT ![w].pc = "moved"]
  /\ UNCHANGED <<number, counter, image, given>>

(* A transaction that has written is rolled back: the commit is refused,   *)
(* the process dies, or the overwritten row was deleted meanwhile and      *)
(* saving it raises.  A file that was moved stays where it was moved to.   *)
RollBack(w) ==
  /\ saver[w].pc \in {"inserted", "moved"}
  /\ saver' = [saver EXCEPT ![w] = IdleSaver]
  /\ UNCHANGED <<number, counter, image, files, given>>

NumberNext ==
  \/ \E w \in Writers, e \in EventIds, d \in Days : BeginSave(w, e, d)
  \/ \E w \in Writers : Insert(w) \/ SaveRefused(w) \/ Commit(w) \/ MoveSnapshot(w) \/ RollBack(w)
  \/ \E w \in Writers, d \in Days : RepairBegins(w, d)
  \/ \E w \in Writers, e \in Overwritten : RepairChecks(w, e)
  \/ \E e \in EventIds : Delete(e)

NumberSpec == NumberInit /\ [][NumberNext]_numberVars

-----------------------------------------------------------------------------
(* A number is given to one event only, although savers race each other    *)
(* and events are deleted: the number an operator wrote down yesterday     *)
(* never leads to another event.  Event.save, EventDailyCounter.           *)
NumberNeverReused ==
  [][\A e \in EventIds :
       number'[e] # number[e] /\ number'[e].seq # 0 => number'[e] \notin given]_numberVars

(* No snapshot is lost by a repair: a row that names one has its file, or  *)
(* the file is on the disk as the recovered event's, although two repairs, *)
(* imports of the same event and deletions overlap and a transaction may   *)
(* die after the file was moved (repair_reused_event_ids).                 *)
SnapshotsSurvive ==
  \A e \in image : e \in files \/ (e \in Overwritten /\ Recovered[e] \in files)

=============================================================================
