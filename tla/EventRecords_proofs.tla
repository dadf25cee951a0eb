------------------------ MODULE EventRecords_proofs -------------------------
(***************************************************************************)
(* Theorems about the records kept of events: EventNumber and NvrExport,   *)
(* and about MCEvents, which runs them with EventApi.                      *)
(***************************************************************************)
EXTENDS MCEvents, EventApi_proofs, NumberFacts, FiniteSetTheorems, TLAPS

(***************************************************************************)
(* EventNumber: numbers and snapshots, for any writers and events.         *)
(***************************************************************************)

Locking == {"inserted", "moved"}

SaverType ==
  [pc : {"idle", "checked", "numbered", "inserted", "moved"},
   id : EventIds \union {NoEvent}, from : EventIds \union {NoEvent},
   day : Days, max : Nat, last : Nat, stale : BOOLEAN]

(* The counter of a day is not behind any number given on it.              *)
CounterAhead == \A n \in given : n.seq <= counter[n.day]

StoredWasGiven == \A e \in EventIds : Stored(e) => number[e] \in given

OneLock == \A v, w \in Writers : saver[v].pc \in Locking /\ saver[w].pc \in Locking => v = w

(* A saver that can still commit has read the counter as it is.            *)
SoundSaver(c) ==
  /\ c.pc = "checked" => c.from \in Overwritten
  /\ c.pc \in {"numbered", "inserted", "moved"} => c.id \in EventIds
  /\ c.pc \in Locking \/ (c.pc = "numbered" /\ ~c.stale) => c.last = counter[c.day]
  /\ c.pc \in Locking \union {"numbered"} /\ c.from # NoEvent =>
       c.from \in Overwritten /\ c.id = Recovered[c.from]
  /\ c.pc = "moved" => c.from # NoEvent /\ c.id \in files

SaversSound == \A w \in Writers : SoundSaver(saver[w])

ImageStored == \A e \in image : Stored(e)

NumberInv ==
  /\ NumberTypeOK
  /\ CounterAhead
  /\ StoredWasGiven
  /\ OneLock
  /\ SaversSound
  /\ ImageStored
  /\ SnapshotsSurvive

-----------------------------------------------------------------------------
LEMMA IdleSaverFacts ==
  /\ IdleSaver \in SaverType /\ SoundSaver(IdleSaver)
  /\ IdleSaver.pc = "idle" /\ IdleSaver.from = NoEvent
  /\ NoNumber \in [day : Days, seq : Nat] /\ NoNumber.seq = 0
<1>1. NoNumber.day \in Days
  BY NumberAssumption DEF NoNumber
<1> QED  BY <1>1 DEF IdleSaver, SaverType, SoundSaver, NoNumber, Locking

(* What a saver reads: the numbers of the day are bounded by the counter,  *)
(* so there is a largest one.                                              *)
LEMMA ReadFacts ==
  ASSUME NumberInv, NEW c \in SaverType, NEW e \in EventIds, NEW d \in Days,
         c.from # NoEvent => c.from \in Overwritten /\ e = Recovered[c.from]
  PROVE  /\ ReadCounter(c, e, d) \in SaverType
         /\ SoundSaver(ReadCounter(c, e, d))
         /\ ReadCounter(c, e, d).pc = "numbered"
<1> DEFINE day == {f \in EventIds : number[f].day = d}
           seqs == {number[f].seq : f \in day} \union {0}
<1>1. /\ number \in [EventIds -> [day : Days, seq : Nat]]
      /\ counter \in [Days -> Nat]
  BY DEF NumberInv, NumberTypeOK
<1>2. Max(seqs) \in Nat
  <2>1. seqs \in SUBSET Nat /\ seqs # {}
    BY <1>1
  <2>2. \A x \in seqs : x <= counter[d]
    <3> SUFFICES ASSUME NEW f \in day, number[f].seq # 0  PROVE  number[f].seq <= counter[d]
      BY <1>1
    <3> QED  BY <1>1 DEF NumberInv, StoredWasGiven, Stored, CounterAhead
  <2>3. counter[d] \in Nat
    BY <1>1
  <2> HIDE DEF seqs
  <2>4. \E x \in seqs : \A y \in seqs : y <= x
    BY <2>1, <2>2, <2>3, LargestExists
  <2>5. \E x \in seqs : \A y \in seqs : x >= y
    BY <2>1, <2>4
  <2>6. Max(seqs) \in seqs
    BY <2>5 DEF Max
  <2> QED  BY <2>1, <2>6
<1>3. ReadCounter(c, e, d) =
        [c EXCEPT !.pc = "numbered", !.id = e, !.day = d, !.last = counter[d], !.stale = FALSE,
                  !.max = Max(seqs)]
  BY DEF ReadCounter
<1> DEFINE max == Max(seqs)
<1> HIDE DEF max
<1>4. ReadCounter(c, e, d) =
        [pc |-> "numbered", id |-> e, from |-> c.from, day |-> d, max |-> max,
         last |-> counter[d], stale |-> FALSE]
  BY <1>3 DEF SaverType, max
<1> QED  BY <1>1, <1>2, <1>4 DEF SaverType, SoundSaver, Locking, max

(* Putting one saver into a new state.                                     *)
LEMMA SaverMoves ==
  ASSUME NumberInv, NEW w \in Writers, NEW c \in SaverType, SoundSaver(c),
         c.pc \in Locking => \A v \in Writers \ {w} : saver[v].pc \notin Locking,
         saver' = [saver EXCEPT ![w] = c],
         UNCHANGED <<counter, files>>
  PROVE  saver' \in [Writers -> SaverType] /\ SaversSound' /\ OneLock'
<1>1. saver \in [Writers -> SaverType]
  BY DEF NumberInv, NumberTypeOK, SaverType
<1>2. saver' \in [Writers -> SaverType]
  BY <1>1
<1>3. SaversSound'
  BY <1>1 DEF NumberInv, SaversSound, SoundSaver
<1>4. OneLock'
  BY <1>1 DEF NumberInv, OneLock
<1> QED  BY <1>2, <1>3, <1>4

(* The steps before the row goes in.                                       *)
LEMMA SaverStep ==
  ASSUME NumberInv, NEW w \in Writers, NEW c \in SaverType, SoundSaver(c),
         c.pc \in Locking => \A v \in Writers \ {w} : saver[v].pc \notin Locking,
         saver' = [saver EXCEPT ![w] = c],
         UNCHANGED <<number, counter, image, files, given>>
  PROVE  NumberInv'
<1>1. saver' \in [Writers -> SaverType] /\ SaversSound' /\ OneLock'
  BY SaverMoves
<1>2. saver \in [Writers -> SaverType]
  BY DEF NumberInv, NumberTypeOK, SaverType
<1>3. SnapshotsSurvive'
  BY DEF NumberInv, SnapshotsSurvive
<1>4. NumberTypeOK'
  BY <1>1 DEF NumberInv, NumberTypeOK, SaverType
<1> QED  BY <1>1, <1>3, <1>4 DEF NumberInv, CounterAhead, StoredWasGiven, Stored, ImageStored

(* The number a locked saver gives is beyond every number of its day.      *)
LEMMA NextIsNew ==
  ASSUME NumberInv, NEW w \in Writers, saver[w].pc \in Locking
  PROVE  /\ saver[w].day \in Days /\ saver[w].id \in EventIds
         /\ NextNumber(saver[w]) \in Nat
         /\ NextNumber(saver[w]) > counter[saver[w].day]
<1>1. saver[w] \in SaverType /\ SoundSaver(saver[w])
  BY DEF NumberInv, NumberTypeOK, SaverType, SaversSound
<1> QED  BY <1>1 DEF SaverType, SoundSaver, NextNumber, Locking

LEMMA CommitStep ==
  ASSUME NumberInv, NEW w \in Writers, Commit(w)
  PROVE  NumberInv'
<1> DEFINE c == saver[w]
           n == [day |-> c.day, seq |-> NextNumber(c)]
<1>1. /\ number \in [EventIds -> [day : Days, seq : Nat]]
      /\ counter \in [Days -> Nat]
      /\ image \subseteq EventIds /\ files \subseteq EventIds
      /\ saver \in [Writers -> SaverType]
      /\ given \subseteq [day : Days, seq : Nat]
  BY DEF NumberInv, NumberTypeOK, SaverType
<1>2. /\ c.pc \in Locking /\ c.day \in Days /\ c.id \in EventIds
      /\ NextNumber(c) \in Nat /\ NextNumber(c) > counter[c.day]
  BY NextIsNew DEF Commit, Locking
<1>3. n \in [day : Days, seq : Nat] /\ n.day = c.day /\ n.seq > counter[c.day]
  BY <1>2
<1>4. /\ c.pc = "moved" => Stored(c.from)
      /\ number' = [number EXCEPT ![c.id] = n]
      /\ counter' = [counter EXCEPT ![c.day] = n.seq]
      /\ given' = given \union {n}
      /\ image' = IF c.pc = "moved" THEN (image \ {c.from}) \union {c.id} ELSE image \ {c.id}
      /\ saver' = Ended(w)
      /\ files' = files
  BY DEF Commit
<1>5. \A v \in Writers \ {w} : saver[v].pc \notin Locking
  BY <1>2 DEF NumberInv, OneLock
<1> HIDE DEF c, n
<1>6. /\ saver' \in [Writers -> SaverType]
      /\ saver'[w] = IdleSaver
      /\ \A v \in Writers \ {w} :
           saver'[v] = [saver[v] EXCEPT !.stale = @ \/ saver[v].pc = "numbered"]
  BY <1>1, <1>4, IdleSaverFacts DEF Ended, SaverType
<1>7. \A v \in Writers \ {w} :
        /\ saver'[v].pc = saver[v].pc /\ saver'[v].from = saver[v].from /\ saver'[v].id = saver[v].id
        /\ saver[v].pc = "numbered" => saver'[v].stale
  BY <1>1, <1>6 DEF SaverType
<1>8. OneLock'
  BY <1>5, <1>6, <1>7, IdleSaverFacts DEF OneLock, Locking
<1>9. SaversSound'
  <2> SUFFICES ASSUME NEW v \in Writers  PROVE  SoundSaver(saver[v])'
    BY DEF SaversSound
  <2>1. CASE v = w
    BY <2>1, <1>6 DEF SoundSaver, IdleSaver, Locking
  <2>2. CASE v # w
    <3>1. SoundSaver(saver[v]) /\ saver[v].pc \notin Locking
      BY <2>2, <1>5 DEF NumberInv, SaversSound
    <3> QED  BY <2>2, <3>1, <1>7 DEF SoundSaver, Locking
  <2> QED  BY <2>1, <2>2
<1>10. number' \in [EventIds -> [day : Days, seq : Nat]] /\ counter' \in [Days -> Nat]
  BY <1>1, <1>2, <1>3, <1>4
<1>11. image' \subseteq EventIds
  BY <1>1, <1>2, <1>4
<1>12. NumberTypeOK'
  BY <1>1, <1>3, <1>4, <1>6, <1>10, <1>11 DEF NumberTypeOK, SaverType
<1>13. CounterAhead'
  <2> SUFFICES ASSUME NEW m \in given'  PROVE  m.seq <= counter'[m.day]
    BY DEF CounterAhead
  <2>1. CASE m = n
    BY <2>1, <1>1, <1>2, <1>3, <1>4
  <2>2. CASE m \in given /\ m.day = c.day
    <3>1. m.seq \in Nat /\ m.seq <= counter[c.day] /\ counter[c.day] \in Nat /\ n.seq \in Nat
      BY <2>2, <1>1, <1>2, <1>3 DEF NumberInv, CounterAhead
    <3>2. counter'[m.day] = n.seq
      BY <2>2, <1>1, <1>2, <1>4
    <3> QED  BY <3>1, <3>2, <1>3
  <2>3. CASE m \in given /\ m.day # c.day
    BY <2>3, <1>1, <1>4 DEF NumberInv, CounterAhead
  <2> QED  BY <2>1, <2>2, <2>3, <1>4
<1>14. StoredWasGiven'
  BY <1>1, <1>4 DEF NumberInv, StoredWasGiven, Stored
<1>15. number'[c.id].seq # 0
  <2>1. counter[c.day] \in Nat /\ n.seq \in Nat
    BY <1>1, <1>2, <1>3
  <2> QED  BY <1>1, <1>2, <1>3, <1>4, <2>1
<1>16. ImageStored'
  BY <1>1, <1>4, <1>11, <1>15 DEF NumberInv, ImageStored, Stored
<1>17. SnapshotsSurvive'
  <2> SUFFICES ASSUME NEW e \in image'
               PROVE  e \in files \/ (e \in Overwritten /\ Recovered[e] \in files)
    BY <1>4 DEF SnapshotsSurvive
  <2>1. CASE e = c.id
    BY <2>1, <1>4 DEF NumberInv, SaversSound, SoundSaver, c
  <2>2. CASE e # c.id
    BY <2>2, <1>4 DEF NumberInv, SnapshotsSurvive
  <2> QED  BY <2>1, <2>2
<1> QED  BY <1>8, <1>9, <1>12, <1>13, <1>14, <1>16, <1>17 DEF NumberInv

LEMMA DeleteStep ==
  ASSUME NumberInv, NEW e \in EventIds, Delete(e)
  PROVE  NumberInv'
<1>1. /\ number \in [EventIds -> [day : Days, seq : Nat]]
      /\ saver \in [Writers -> SaverType]
  BY DEF NumberInv, NumberTypeOK, SaverType
<1>2. /\ number' = [number EXCEPT ![e] = NoNumber]
      /\ image' = image \ {e}
      /\ saver' = [v \in Writers |-> [saver[v] EXCEPT !.stale = @ \/ saver[v].pc = "numbered"]]
      /\ UNCHANGED <<counter, files, given>>
      /\ \A v \in Writers : saver[v].pc \notin Locking
  BY DEF Delete, Locked, Locking
<1>3. /\ saver' \in [Writers -> SaverType]
      /\ \A v \in Writers :
           /\ saver'[v].pc = saver[v].pc /\ saver'[v].from = saver[v].from /\ saver'[v].id = saver[v].id
           /\ saver[v].pc = "numbered" => saver'[v].stale
  BY <1>1, <1>2 DEF SaverType
<1>4. SaversSound' /\ OneLock'
  BY <1>2, <1>3 DEF NumberInv, SaversSound, SoundSaver, OneLock, Locking
<1>5. NumberTypeOK'
  BY <1>1, <1>2, <1>3, IdleSaverFacts DEF NumberInv, NumberTypeOK, SaverType
<1>6. CounterAhead' /\ StoredWasGiven' /\ ImageStored'
  <2>1. \A f \in EventIds : Stored(f)' => f # e /\ number'[f] = number[f] /\ Stored(f)
    BY <1>1, <1>2, IdleSaverFacts DEF Stored
  <2>2. \A f \in image' : f # e /\ f \in image /\ f \in EventIds /\ number'[f] = number[f]
    BY <1>1, <1>2 DEF NumberInv, NumberTypeOK
  <2> QED  BY <1>2, <2>1, <2>2 DEF NumberInv, CounterAhead, StoredWasGiven, ImageStored, Stored
<1>7. SnapshotsSurvive'
  BY <1>2 DEF NumberInv, SnapshotsSurvive
<1> QED  BY <1>4, <1>5, <1>6, <1>7 DEF NumberInv

LEMMA MoveStep ==
  ASSUME NumberInv, NEW w \in Writers, MoveSnapshot(w)
  PROVE  NumberInv'
<1> DEFINE c == saver[w]
           moved == [c EXCEPT !.pc = "moved"]
<1>1. /\ saver \in [Writers -> SaverType] /\ c \in SaverType /\ files \subseteq EventIds
      /\ SoundSaver(c)
  BY DEF NumberInv, NumberTypeOK, SaverType, SaversSound
<1>2. /\ c.pc = "inserted" /\ c.from # NoEvent /\ c.from \in files
      /\ files' = (files \ {c.from}) \union {c.id}
      /\ saver' = [saver EXCEPT ![w] = moved]
      /\ UNCHANGED <<number, counter, image, given>>
  BY <1>1 DEF MoveSnapshot, MovedFiles
<1>3. \A v \in Writers \ {w} : saver[v].pc \notin Locking
  BY <1>2 DEF NumberInv, OneLock, Locking
<1>4. /\ moved \in SaverType /\ moved.pc = "moved" /\ moved.id = c.id /\ moved.from = c.from
      /\ moved.last = c.last /\ moved.day = c.day
  BY <1>1 DEF SaverType
<1> HIDE DEF c, moved
<1>5. /\ c.id \in EventIds /\ files' \subseteq EventIds /\ c.id \in files'
      /\ c.from \in Overwritten /\ c.id = Recovered[c.from]
  BY <1>1, <1>2 DEF SoundSaver, Locking
<1>6. saver' \in [Writers -> SaverType]
  BY <1>1, <1>2, <1>4
<1>7. OneLock'
  BY <1>1, <1>2, <1>3 DEF OneLock
<1>8. SaversSound'
  <2> SUFFICES ASSUME NEW v \in Writers  PROVE  SoundSaver(saver[v])'
    BY DEF SaversSound
  <2>1. CASE v = w
    <3>1. saver'[w] = moved
      BY <1>1, <1>2
    <3> QED  BY <2>1, <3>1, <1>1, <1>2, <1>4, <1>5 DEF SoundSaver, Locking
  <2>2. CASE v # w
    <3>1. SoundSaver(saver[v]) /\ saver[v].pc \notin Locking
      BY <2>2, <1>3 DEF NumberInv, SaversSound
    <3> QED  BY <2>2, <3>1, <1>1, <1>2 DEF SoundSaver, Locking
  <2> QED  BY <2>1, <2>2
<1>9. SnapshotsSurvive'
  <2> SUFFICES ASSUME NEW e \in image
               PROVE  e \in files' \/ (e \in Overwritten /\ Recovered[e] \in files')
    BY <1>2 DEF SnapshotsSurvive
  <2>1. CASE e = c.from
    BY <2>1, <1>5
  <2>2. CASE e # c.from
    <3>1. e \in files \/ (e \in Overwritten /\ Recovered[e] \in files)
      BY DEF NumberInv, SnapshotsSurvive
    <3>2. e \in Overwritten => Recovered[e] # c.from
      BY <1>5, NumberAssumption
    <3> QED  BY <2>2, <3>1, <3>2, <1>2
  <2> QED  BY <2>1, <2>2
<1>10. NumberTypeOK'
  BY <1>2, <1>5, <1>6 DEF NumberInv, NumberTypeOK, SaverType
<1> QED  BY <1>2, <1>7, <1>8, <1>9, <1>10 DEF NumberInv, CounterAhead, StoredWasGiven, Stored, ImageStored

LEMMA NumberStep ==
  ASSUME NumberInv, [NumberNext]_numberVars
  PROVE  NumberInv'
<1>1. /\ saver \in [Writers -> SaverType]
      /\ \A w \in Writers : SoundSaver(saver[w])
  BY DEF NumberInv, NumberTypeOK, SaverType, SaversSound
<1>2. ASSUME NEW w \in Writers, NEW e \in EventIds, NEW d \in Days, BeginSave(w, e, d)
      PROVE  NumberInv'
  <2> DEFINE c == ReadCounter(IdleSaver, e, d)
  <2>1. c \in SaverType /\ SoundSaver(c) /\ c.pc = "numbered"
    BY ReadFacts, IdleSaverFacts
  <2>2. /\ saver[w].pc = "idle" /\ saver' = [saver EXCEPT ![w] = c]
        /\ UNCHANGED <<number, counter, image, files, given>>
    BY <1>2 DEF BeginSave
  <2> HIDE DEF c
  <2> QED  BY <2>1, <2>2, SaverStep DEF Locking
<1>3. ASSUME NEW w \in Writers, NEW d \in Days, RepairBegins(w, d)
      PROVE  NumberInv'
  <2> DEFINE e == Recovered[saver[w].from]
             c == ReadCounter(saver[w], e, d)
  <2>1. e \in EventIds /\ saver[w].from \in Overwritten /\ e = Recovered[saver[w].from]
    BY <1>1, <1>3, NumberAssumption DEF RepairBegins, SoundSaver
  <2>2. /\ saver[w].pc = "checked" /\ saver' = [saver EXCEPT ![w] = c]
        /\ UNCHANGED <<number, counter, image, files, given>>
    BY <1>1, <1>3 DEF RepairBegins
  <2> HIDE DEF e
  <2>3. c \in SaverType /\ SoundSaver(c) /\ c.pc = "numbered"
    BY <1>1, <2>1, ReadFacts
  <2> HIDE DEF c
  <2> QED  BY <2>2, <2>3, SaverStep DEF Locking
<1>4. ASSUME NEW w \in Writers, NEW e \in Overwritten, RepairChecks(w, e)
      PROVE  NumberInv'
  <2> DEFINE c == [IdleSaver EXCEPT !.pc = "checked", !.from = e]
  <2>1. c \in SaverType /\ SoundSaver(c) /\ c.pc = "checked"
    BY IdleSaverFacts, NumberAssumption DEF SaverType, SoundSaver, Locking
  <2>2. /\ saver[w].pc = "idle" /\ saver' = [saver EXCEPT ![w] = c]
        /\ UNCHANGED <<number, counter, image, files, given>>
    BY <1>4 DEF RepairChecks
  <2> HIDE DEF c
  <2> QED  BY <2>1, <2>2, SaverStep DEF Locking
<1>5. ASSUME NEW w \in Writers, Insert(w)
      PROVE  NumberInv'
  <2> DEFINE c == [saver[w] EXCEPT !.pc = "inserted"]
  <2>1. /\ saver[w].pc = "numbered" /\ ~saver[w].stale
        /\ \A v \in Writers : saver[v].pc \notin Locking
        /\ saver' = [saver EXCEPT ![w] = c]
        /\ UNCHANGED <<number, counter, image, files, given>>
    BY <1>1, <1>5 DEF Insert, Locked, Locking
  <2>2. c \in SaverType /\ SoundSaver(c)
    <3>1. saver[w] \in SaverType /\ SoundSaver(saver[w])
      BY <1>1
    <3>2. /\ c \in SaverType /\ c.pc = "inserted" /\ c.id = saver[w].id
          /\ c.last = saver[w].last /\ c.day = saver[w].day /\ c.from = saver[w].from
      BY <3>1 DEF SaverType
    <3> HIDE DEF c
    <3> QED  BY <2>1, <3>1, <3>2 DEF SoundSaver, Locking
  <2> HIDE DEF c
  <2> QED  BY <2>1, <2>2, SaverStep
<1>6. ASSUME NEW w \in Writers, SaveRefused(w) \/ RollBack(w)
      PROVE  NumberInv'
  <2>1. /\ saver' = [saver EXCEPT ![w] = IdleSaver]
        /\ UNCHANGED <<number, counter, image, files, given>>
    BY <1>6 DEF SaveRefused, RollBack
  <2> QED  BY <2>1, IdleSaverFacts, SaverStep DEF Locking
<1>7. CASE UNCHANGED numberVars
  BY <1>7 DEF numberVars, NumberInv, NumberTypeOK, CounterAhead, StoredWasGiven, Stored, OneLock,
     SaversSound, SoundSaver, ImageStored, SnapshotsSurvive
<1> QED  BY <1>2, <1>3, <1>4, <1>5, <1>6, <1>7, CommitStep, MoveStep, DeleteStep DEF NumberNext

LEMMA NumberStart ==
  ASSUME NumberInit
  PROVE  NumberInv
<1> DEFINE size == Cardinality(Overwritten)
<1>1. size \in Nat
  BY NumberAssumption, FS_CardinalityType
<1>2. PICK d \in Days, rank \in [Overwritten -> 1..size] :
        /\ number = [e \in EventIds |-> IF e \in Overwritten
                                        THEN [day |-> d, seq |-> rank[e]] ELSE NoNumber]
        /\ counter = [c \in Days |-> IF c = d THEN size ELSE 0]
        /\ given = {[day |-> d, seq |-> rank[e]] : e \in Overwritten}
  BY DEF NumberInit
<1>3. /\ image = Overwritten /\ files = Overwritten
      /\ saver = [w \in Writers |-> IdleSaver]
  BY DEF NumberInit
<1> HIDE DEF size
<1>4. \A e \in Overwritten : rank[e] \in Nat /\ rank[e] >= 1 /\ rank[e] <= size
  BY <1>1
<1>5. /\ number \in [EventIds -> [day : Days, seq : Nat]]
      /\ counter \in [Days -> Nat]
      /\ given \subseteq [day : Days, seq : Nat]
  BY <1>1, <1>2, <1>4, IdleSaverFacts
<1>6. NumberTypeOK
  BY <1>3, <1>5, IdleSaverFacts, NumberAssumption DEF NumberTypeOK, SaverType
<1>7. CounterAhead
  BY <1>2, <1>4 DEF CounterAhead
<1>8. StoredWasGiven /\ ImageStored
  BY <1>2, <1>3, <1>4, IdleSaverFacts, NumberAssumption DEF StoredWasGiven, ImageStored, Stored
<1>9. OneLock /\ SaversSound /\ SnapshotsSurvive
  BY <1>3, IdleSaverFacts DEF OneLock, SaversSound, SnapshotsSurvive, Locking
<1> QED  BY <1>6, <1>7, <1>8, <1>9 DEF NumberInv

LEMMA NumberInvariant == NumberSpec => []NumberInv
  BY NumberStart, NumberStep, PTL DEF NumberSpec

-----------------------------------------------------------------------------
(* Every variable keeps its type, for any events, days and savers.         *)
THEOREM NumberTypesCorrect == NumberSpec => []NumberTypeOK
<1>1. NumberInv => NumberTypeOK
  BY DEF NumberInv
<1> QED  BY <1>1, NumberInvariant, PTL

(* A number is given to one event only, whatever savers race each other    *)
(* and whatever rows are deleted (Event.save, EventDailyCounter).          *)
THEOREM NumbersNeverReused == NumberSpec => NumberNeverReused
<1>1. ASSUME NumberInv, [NumberNext]_numberVars
      PROVE  [\A e \in EventIds :
                number'[e] # number[e] /\ number'[e].seq # 0 => number'[e] \notin given]_numberVars
  <2> SUFFICES ASSUME NumberNext, NEW e \in EventIds, number'[e] # number[e], number'[e].seq # 0
               PROVE  number'[e] \notin given
    BY <1>1
  <2>1. /\ number \in [EventIds -> [day : Days, seq : Nat]] /\ counter \in [Days -> Nat]
        /\ given \subseteq [day : Days, seq : Nat]
    BY <1>1 DEF NumberInv, NumberTypeOK
  <2>2. CASE UNCHANGED number
    BY <2>2
  <2>3. ASSUME NEW w \in Writers, Commit(w)
        PROVE  number'[e] \notin given
    <3> DEFINE day == saver[w].day
               next == NextNumber(saver[w])
    <3>1. day \in Days /\ next \in Nat /\ next > counter[day]
      BY <1>1, <2>3, NextIsNew DEF Commit, Locking
    <3>2. number'[e] = [day |-> day, seq |-> next]
      BY <2>1, <2>3 DEF Commit
    <3> HIDE DEF day, next
    <3>3. ASSUME number'[e] \in given  PROVE  FALSE
      <4>1. next <= counter[day]
        BY <3>2, <3>3, <1>1 DEF NumberInv, CounterAhead
      <4> QED  BY <2>1, <3>1, <4>1
    <3> QED  BY <3>3
  <2>4. ASSUME NEW f \in EventIds, Delete(f)
        PROVE  FALSE
    BY <2>1, <2>4, IdleSaverFacts DEF Delete
  <2>5. \/ UNCHANGED number
        \/ \E w \in Writers : Commit(w)
        \/ \E f \in EventIds : Delete(f)
    BY DEF NumberNext, BeginSave, Insert, SaveRefused, MoveSnapshot, RollBack, RepairBegins,
       RepairChecks
  <2> QED  BY <2>2, <2>3, <2>4, <2>5
<1> QED  BY <1>1, NumberInvariant, PTL DEF NumberSpec, NumberNeverReused

(* No snapshot is lost by a repair, whatever repairs, imports and deletions*)
(* overlap and whenever a transaction dies: a row that names a snapshot    *)
(* has its file, or the file is the recovered event's                      *)
(* (repair_reused_event_ids).                                              *)
THEOREM SnapshotsSurviveRepairs == NumberSpec => []SnapshotsSurvive
<1>1. NumberInv => SnapshotsSurvive
  BY DEF NumberInv
<1> QED  BY <1>1, NumberInvariant, PTL

(***************************************************************************)
(* NvrExport: recordings, for any number of exporters, rows and files.     *)
(***************************************************************************)

ExportParameters == MaxEvidence \in Nat /\ MaxFiles \in Nat

LEMMA ExportParametersHold == ExportParameters
  BY ExportAssumption DEF ExportParameters

Places == {"idle", "create", "request", "ask", "download", "simulate", "save", "video"}
Exporter == [at : Places, id : 0..MaxEvidence, copy : Evidence, video : 0..MaxFiles]

-----------------------------------------------------------------------------
(* Rows and copies.                                                        *)

LEMMA EvidenceFacts ==
  ASSUME ExportParameters
  PROVE  /\ NewEvidence \in Evidence /\ NewEvidence.status = "pending"
         /\ \A e \in Evidence :
              /\ e.job \in 0..SimulatedJob /\ e.file \in 0..MaxFiles
              /\ ExportRefused(e) \in Evidence /\ ExportRefused(e).status = "failed"
              /\ [e EXCEPT !.status = "exporting"] \in Evidence
              /\ [e EXCEPT !.status = "exporting"].status = "exporting"
              /\ [e EXCEPT !.status = "exporting"].job = e.job
              /\ [e EXCEPT !.job = IF e.job = 0 THEN SimulatedJob ELSE e.job] \in Evidence
              /\ \A j \in Jobs : /\ Accepted(e, j) \in Evidence
                                 /\ Accepted(e, j).status = "requested"
                                 /\ Accepted(e, j).job = j
  <1> USE DEF Evidence, EvidenceStatuses, SimulatedJob, ExportParameters
  <1>1. NewEvidence \in Evidence /\ NewEvidence.status = "pending"
    BY DEF NewEvidence
  <1>2. ASSUME NEW e \in Evidence
        PROVE  /\ e.job \in 0..SimulatedJob /\ e.file \in 0..MaxFiles
               /\ ExportRefused(e) \in Evidence /\ ExportRefused(e).status = "failed"
    BY DEF ExportRefused
  <1>3. ASSUME NEW e \in Evidence
        PROVE  /\ [e EXCEPT !.status = "exporting"] \in Evidence
               /\ [e EXCEPT !.status = "exporting"].status = "exporting"
               /\ [e EXCEPT !.status = "exporting"].job = e.job
    OBVIOUS
  <1>4. ASSUME NEW e \in Evidence
        PROVE  [e EXCEPT !.job = IF e.job = 0 THEN SimulatedJob ELSE e.job] \in Evidence
    OBVIOUS
  <1>5. ASSUME NEW e \in Evidence, NEW j \in Jobs
        PROVE  /\ Accepted(e, j) \in Evidence
               /\ Accepted(e, j).status = "requested" /\ Accepted(e, j).job = j
    <2>1. j \in 0..SimulatedJob
      BY DEF Jobs
    <2> QED BY <2>1 DEF Accepted
  <1> QED BY <1>1, <1>2, <1>3, <1>4, <1>5

LEMMA CompletedFacts ==
  ASSUME ExportParameters, NEW e \in Evidence, nvrFiles' \in 0..MaxFiles
  PROVE  /\ Completed(e) \in Evidence
         /\ Completed(e).status = "completed" /\ Completed(e).file = nvrFiles'
  BY DEF Evidence, EvidenceStatuses, Completed, SimulatedJob, ExportParameters

LEMMA IdleFacts ==
  ASSUME ExportParameters
  PROVE  IdleExporter \in Exporter /\ IdleExporter.at = "idle" /\ IdleExporter.copy = NewEvidence
  BY EvidenceFacts DEF IdleExporter, Exporter, Places, ExportParameters

(* Where a step may take one exporter: the others stay where they are.     *)
Moves(x, to) == exporter' = [exporter EXCEPT ![x] = to]

LEMMA ContinueMoves ==
  ASSUME ExportParameters, exporter \in [Exporters -> Exporter], NEW x \in Exporters,
         NEW where \in Places, NEW copy \in Evidence, Continue(x, where, copy)
  PROVE  \E to \in Exporter : /\ Moves(x, to) /\ to.at = where /\ to.copy = copy
                              /\ to.id = exporter[x].id
  <1> DEFINE to == [exporter[x] EXCEPT !.at = where, !.copy = copy]
  <1>1. exporter[x] \in Exporter
    OBVIOUS
  <1>2. to \in Exporter /\ to.at = where /\ to.copy = copy /\ to.id = exporter[x].id
    BY <1>1 DEF Exporter
  <1>3. exporter' = [exporter EXCEPT ![x] = to]
    BY DEF Continue
  <1> HIDE DEF to
  <1> QED BY <1>2, <1>3 DEF Moves

-----------------------------------------------------------------------------
(* Rows, files, jobs and the event's video agree.                          *)

(* What makes it inductive: the copies that requests hold, however stale,  *)
(* are as sound as the rows, because files and jobs are never taken back.  *)
SoundIn(e, saved, jobs) ==
  /\ e.status = "completed" => e.file \in 1..saved
  /\ e.status \in {"requested", "exporting"} => e.job \in Jobs /\ jobs[e.job] # "unknown"

SoundExporter(to, saved, jobs, done) ==
  /\ SoundIn(to.copy, saved, jobs)
  /\ to.at = "request" => to.id # 0
  /\ to.at = "video" => to.copy.file \in done

ExportInv ==
  /\ ExportTypeOK
  /\ \A i \in DOMAIN evidence : SoundIn(evidence[i], nvrFiles, nvrJobs)
  /\ \A x \in Exporters : SoundExporter(exporter[x], nvrFiles, nvrJobs, downloaded)
  /\ VideoWasDownloaded

ExportTypes ==
  /\ evidence \in Seq(Evidence) /\ Len(evidence) <= MaxEvidence
  /\ nvrJobs \in [Jobs -> {"unknown", "running", "done", "lost"}]
  /\ nvrMode \in {"nvr", "simulation"}
  /\ nvrFiles \in 0..MaxFiles
  /\ video \in 0..MaxFiles
  /\ exporter \in [Exporters -> Exporter]
  /\ downloaded \subseteq 0..MaxFiles

LEMMA ExportTypesAreTypeOK == ExportTypeOK <=> ExportTypes
  BY DEF ExportTypeOK, ExportTypes, Exporter, Places

(* Nothing is taken back from the NVR's jobs, the files or the history.    *)
Grows ==
  /\ nvrFiles <= nvrFiles'
  /\ \A j \in Jobs : nvrJobs[j] # "unknown" => nvrJobs'[j] # "unknown"
  /\ downloaded \subseteq downloaded'

LEMMA SoundStays ==
  ASSUME ExportTypes, ExportTypes', Grows, ExportParameters
  PROVE  /\ \A e \in Evidence : SoundIn(e, nvrFiles, nvrJobs) => SoundIn(e, nvrFiles', nvrJobs')
         /\ \A to \in Exporter : SoundExporter(to, nvrFiles, nvrJobs, downloaded)
                                   => SoundExporter(to, nvrFiles', nvrJobs', downloaded')
  <1>1. ASSUME NEW e \in Evidence, SoundIn(e, nvrFiles, nvrJobs)
        PROVE  SoundIn(e, nvrFiles', nvrJobs')
    <2>1. nvrFiles \in Nat /\ nvrFiles' \in Nat /\ nvrFiles <= nvrFiles'
      BY DEF ExportTypes, Grows, ExportParameters
    <2> QED BY <1>1, <2>1 DEF SoundIn, Grows
  <1>2. ASSUME NEW to \in Exporter, SoundExporter(to, nvrFiles, nvrJobs, downloaded)
        PROVE  SoundExporter(to, nvrFiles', nvrJobs', downloaded')
    <2>1. to.copy \in Evidence
      BY DEF Exporter
    <2> QED BY <1>1, <1>2, <2>1 DEF SoundExporter, Grows
  <1> QED BY <1>1, <1>2

(* A step that moves one exporter to a sound place, changes no row and     *)
(* takes nothing back.                                                     *)
LEMMA MoveKeeps ==
  ASSUME ExportInv, ExportParameters, NEW x \in Exporters, NEW to \in Exporter, Moves(x, to),
         UNCHANGED <<evidence, nvrMode, video, downloaded>>,
         nvrFiles' \in 0..MaxFiles, nvrFiles <= nvrFiles',
         nvrJobs' \in [Jobs -> {"unknown", "running", "done", "lost"}],
         \A j \in Jobs : nvrJobs[j] # "unknown" => nvrJobs'[j] # "unknown",
         SoundExporter(to, nvrFiles', nvrJobs', downloaded')
  PROVE  ExportInv'
  <1>1. ExportTypes
    BY ExportTypesAreTypeOK DEF ExportInv
  <1>2. exporter' \in [Exporters -> Exporter]
    BY <1>1 DEF ExportTypes, Moves
  <1>3. ExportTypes'
    BY <1>1, <1>2 DEF ExportTypes
  <1>4. Grows
    BY DEF Grows
  <1>5. \A i \in DOMAIN evidence : evidence[i] \in Evidence
    BY <1>1 DEF ExportTypes
  <1>6. \A i \in DOMAIN evidence' : SoundIn(evidence'[i], nvrFiles', nvrJobs')
    BY <1>1, <1>3, <1>4, <1>5, SoundStays DEF ExportInv
  <1>7. ASSUME NEW y \in Exporters
        PROVE  SoundExporter(exporter'[y], nvrFiles', nvrJobs', downloaded')
    <2>1. CASE y = x
      BY <1>1, <2>1 DEF Moves, ExportTypes
    <2>2. CASE y # x
      <3>1. exporter'[y] = exporter[y] /\ exporter[y] \in Exporter
        BY <1>1, <2>2 DEF Moves, ExportTypes
      <3> QED BY <1>1, <1>3, <1>4, <3>1, SoundStays DEF ExportInv
    <2> QED BY <2>1, <2>2
  <1>8. VideoWasDownloaded' /\ ExportTypeOK'
    BY <1>3, ExportTypesAreTypeOK DEF ExportInv, VideoWasDownloaded, ExportTypeOK, ExportTypes, Exporter, Places
  <1> QED BY <1>6, <1>7, <1>8 DEF ExportInv

-----------------------------------------------------------------------------
(* The steps of an exporter.                                               *)

LEMMA AskKeeps ==
  ASSUME ExportInv, ExportParameters, NEW x \in Exporters,
         \/ CreateCheck(x) \/ RequestExport(x) \/ AskStatus(x) \/ DownloadExport(x) \/ Simulate(x)
         \/ \E id \in DOMAIN evidence : RefreshLoad(x, id)
  PROVE  ExportInv'
  <1>1. ExportTypes
    BY ExportTypesAreTypeOK DEF ExportInv
  <1>2. /\ exporter[x] \in Exporter
        /\ SoundExporter(exporter[x], nvrFiles, nvrJobs, downloaded)
    BY <1>1 DEF ExportTypes, ExportInv
  <1>3. exporter[x].copy \in Evidence /\ exporter[x].id \in 0..MaxEvidence
    BY <1>2 DEF Exporter
  <1> DEFINE copy == exporter[x].copy
  <1>4. SoundIn(copy, nvrFiles, nvrJobs)
    BY <1>2 DEF SoundExporter
  <1>5. nvrFiles \in 0..MaxFiles /\ nvrFiles <= nvrFiles
        /\ nvrJobs \in [Jobs -> {"unknown", "running", "done", "lost"}]
    BY <1>1 DEF ExportTypes, ExportParameters
  (* Steps that only move the exporter, with a copy that is sound.         *)
  <1>6. ASSUME NEW where \in Places \ {"request", "video"}, NEW e \in Evidence,
               Continue(x, where, e), SoundIn(e, nvrFiles, nvrJobs),
               UNCHANGED <<evidence, nvrJobs, nvrMode, nvrFiles, video, downloaded>>
        PROVE  ExportInv'
    <2>1. PICK to \in Exporter : Moves(x, to) /\ to.at = where /\ to.copy = e
      BY <1>1, <1>6, ContinueMoves DEF ExportTypes
    <2>2. SoundExporter(to, nvrFiles, nvrJobs, downloaded)
      BY <1>6, <2>1 DEF SoundExporter
    <2> QED BY <1>5, <1>6, <2>1, <2>2, MoveKeeps
  <1>7. ExportRefused(copy) \in Evidence /\ SoundIn(ExportRefused(copy), nvrFiles, nvrJobs)
    BY <1>3, EvidenceFacts DEF SoundIn
  (* Steps that store a file and name it in the copy.                      *)
  <1>8. ASSUME NEW e \in Evidence, Continue(x, "save", Completed(e)),
               nvrFiles < MaxFiles, nvrFiles' = nvrFiles + 1,
               UNCHANGED <<evidence, nvrJobs, nvrMode, video, downloaded>>
        PROVE  ExportInv'
    <2>1. nvrFiles' \in 1..MaxFiles /\ nvrFiles' \in 0..MaxFiles /\ nvrFiles <= nvrFiles'
      BY <1>5, <1>8 DEF ExportParameters
    <2>2. /\ Completed(e) \in Evidence
          /\ Completed(e).status = "completed" /\ Completed(e).file = nvrFiles'
      BY <2>1, CompletedFacts
    <2>3. PICK to \in Exporter : Moves(x, to) /\ to.at = "save" /\ to.copy = Completed(e)
      BY <1>1, <1>8, <2>2, ContinueMoves DEF ExportTypes, Places
    <2>4. SoundIn(Completed(e), nvrFiles', nvrJobs')
      BY <2>1, <2>2 DEF SoundIn
    <2>5. SoundExporter(to, nvrFiles', nvrJobs', downloaded')
      BY <2>3, <2>4 DEF SoundExporter
    <2> QED BY <1>5, <1>8, <2>1, <2>3, <2>5, MoveKeeps
  <1>9. CASE CreateCheck(x)
    <2> DEFINE to == [IdleExporter EXCEPT !.at = "create", !.video = video]
    <2>1. Moves(x, to)
      BY <1>9 DEF CreateCheck, Moves
    <2>2. to \in Exporter /\ to.at = "create" /\ to.copy = NewEvidence
      BY <1>1, IdleFacts DEF Exporter, Places, ExportTypes
    <2> HIDE DEF to
    <2>3. SoundExporter(to, nvrFiles, nvrJobs, downloaded)
      BY <2>2, EvidenceFacts DEF SoundExporter, SoundIn
    <2> QED BY <1>5, <1>9, <2>1, <2>2, <2>3, MoveKeeps DEF CreateCheck
  <1>10. CASE RequestExport(x)
    <2> DEFINE newJob == exporter[x].id
    <2>1. newJob \in Jobs
      BY <1>2, <1>3, <1>10 DEF RequestExport, At, SoundExporter, Jobs, ExportParameters
    <2>2. CASE Continue(x, "save", ExportRefused(copy)) /\ UNCHANGED nvrJobs
      BY <1>6, <1>7, <1>10, <2>2 DEF RequestExport, Places
    <2>3. CASE /\ nvrJobs' = [nvrJobs EXCEPT ![newJob] = "running"]
               /\ \/ Continue(x, "save", Accepted(copy, newJob))
                  \/ Continue(x, "save", ExportRefused(copy))
      <3>1. PICK e \in {Accepted(copy, newJob), ExportRefused(copy)} : Continue(x, "save", e)
        BY <2>3
      <3>2. /\ nvrJobs' \in [Jobs -> {"unknown", "running", "done", "lost"}]
            /\ nvrJobs'[newJob] = "running"
            /\ \A j \in Jobs : nvrJobs[j] # "unknown" => nvrJobs'[j] # "unknown"
        BY <1>5, <2>1, <2>3
      <3>3. e \in Evidence /\ SoundIn(e, nvrFiles, nvrJobs')
        <4>1. CASE e = Accepted(copy, newJob)
          <5>1. /\ Accepted(copy, newJob) \in Evidence
                /\ Accepted(copy, newJob).status = "requested" /\ Accepted(copy, newJob).job = newJob
            BY <1>3, <2>1, EvidenceFacts
          <5> HIDE DEF copy, newJob
          <5> QED BY <2>1, <3>2, <4>1, <5>1 DEF SoundIn
        <4>2. CASE e = ExportRefused(copy)
          <5>1. ExportRefused(copy) \in Evidence /\ ExportRefused(copy).status = "failed"
            BY <1>3, EvidenceFacts
          <5> QED BY <4>2, <5>1 DEF SoundIn
        <4> QED BY <3>1, <4>1, <4>2
      <3>4. PICK to \in Exporter : Moves(x, to) /\ to.at = "save" /\ to.copy = e
        BY <1>1, <3>1, <3>3, ContinueMoves DEF ExportTypes, Places
      <3>5. SoundExporter(to, nvrFiles, nvrJobs', downloaded)
        BY <3>3, <3>4 DEF SoundExporter
      <3>6. UNCHANGED <<evidence, nvrMode, nvrFiles, video, downloaded>>
        BY <1>10 DEF RequestExport
      <3> QED BY <1>5, <3>2, <3>4, <3>5, <3>6, MoveKeeps
    <2> QED BY <1>10, <2>2, <2>3 DEF RequestExport
  <1>11. CASE AskStatus(x)
    <2>1. UNCHANGED <<evidence, nvrJobs, nvrMode, nvrFiles, video, downloaded>>
      BY <1>11 DEF AskStatus
    <2> DEFINE is(state) == copy.job \in Jobs /\ nvrJobs[copy.job] = state
               exporting == [copy EXCEPT !.status = "exporting"]
    <2>2. CASE is("running") /\ Continue(x, "save", exporting)
      <3>1. exporting \in Evidence /\ exporting.status = "exporting" /\ exporting.job = copy.job
        BY <1>3, EvidenceFacts
      <3>2. SoundIn(exporting, nvrFiles, nvrJobs)
        BY <2>2, <3>1 DEF SoundIn
      <3> QED BY <1>6, <2>1, <2>2, <3>1, <3>2 DEF Places
    <2>3. CASE Continue(x, "download", copy)
      BY <1>3, <1>4, <1>6, <2>1, <2>3 DEF Places
    <2>4. CASE Continue(x, "save", ExportRefused(copy))
      BY <1>6, <1>7, <2>1, <2>4 DEF Places
    <2> QED BY <1>11, <2>2, <2>3, <2>4 DEF AskStatus
  <1>12. CASE DownloadExport(x)
    <2>1. CASE Continue(x, "save", ExportRefused(copy)) /\ UNCHANGED nvrFiles
      BY <1>6, <1>7, <1>12, <2>1 DEF DownloadExport, Places
    <2>2. CASE /\ nvrFiles < MaxFiles
               /\ nvrFiles' = nvrFiles + 1
               /\ Continue(x, "save", Completed(copy))
      BY <1>3, <1>8, <1>12, <2>2 DEF DownloadExport
    <2> QED BY <1>12, <2>1, <2>2 DEF DownloadExport
  <1>13. CASE Simulate(x)
    <2> DEFINE e == [copy EXCEPT !.job = IF copy.job = 0 THEN SimulatedJob ELSE copy.job]
    <2>1. e \in Evidence
      BY <1>3, EvidenceFacts
    <2>2. Continue(x, "save", Completed(e))
      BY <1>13 DEF Simulate
    <2> HIDE DEF e
    <2> QED BY <1>8, <1>13, <2>1, <2>2 DEF Simulate
  <1>14. ASSUME NEW id \in DOMAIN evidence, RefreshLoad(x, id)
         PROVE  ExportInv'
    <2> DEFINE row == evidence[id]
               go(where, e) == exporter' = [exporter EXCEPT ![x] =
                                 [at |-> where, id |-> id, copy |-> e, video |-> video]]
    <2>1. row \in Evidence /\ SoundIn(row, nvrFiles, nvrJobs) /\ id \in 0..MaxEvidence
      BY <1>1 DEF ExportTypes, ExportInv, ExportParameters
    <2>2. ExportRefused(row) \in Evidence /\ SoundIn(ExportRefused(row), nvrFiles, nvrJobs)
      BY <2>1, EvidenceFacts DEF SoundIn
    <2>3. PICK where \in {"simulate", "save", "ask"}, e \in {row, ExportRefused(row)} : go(where, e)
      BY <1>14 DEF RefreshLoad
    <2> DEFINE to == [at |-> where, id |-> id, copy |-> e, video |-> video]
    <2>4. e \in Evidence /\ SoundIn(e, nvrFiles, nvrJobs)
      BY <2>1, <2>2
    <2>5. Moves(x, to)
      BY <2>3 DEF Moves
    <2> HIDE DEF row
    <2>6. to \in Exporter /\ to.at \notin {"request", "video"} /\ to.copy = e
      BY <1>1, <2>1, <2>4 DEF Exporter, Places, ExportTypes
    <2> HIDE DEF to
    <2>7. SoundExporter(to, nvrFiles, nvrJobs, downloaded)
      BY <2>4, <2>6 DEF SoundExporter
    <2> QED BY <1>5, <1>14, <2>5, <2>6, <2>7, MoveKeeps DEF RefreshLoad
  <1> QED BY <1>9, <1>10, <1>11, <1>12, <1>13, <1>14

LEMMA CreateRowKeeps ==
  ASSUME ExportInv, ExportParameters, NEW x \in Exporters, CreateRow(x)
  PROVE  ExportInv'
  <1>1. ExportTypes
    BY ExportTypesAreTypeOK DEF ExportInv
  <1>2. /\ Len(evidence) < MaxEvidence
        /\ evidence' = Append(evidence, NewEvidence)
        /\ UNCHANGED <<nvrJobs, nvrMode, nvrFiles, video, downloaded>>
    BY DEF CreateRow
  <1>3. /\ evidence' \in Seq(Evidence) /\ Len(evidence') = Len(evidence) + 1
        /\ \A i \in DOMAIN evidence' : evidence'[i] = NewEvidence \/
             (i \in DOMAIN evidence /\ evidence'[i] = evidence[i])
    BY <1>1, <1>2, EvidenceFacts DEF ExportTypes
  <1>4. Len(evidence') \in 1..MaxEvidence
    BY <1>1, <1>2, <1>3 DEF ExportTypes, ExportParameters
  <1>5. PICK at \in {"simulate", "request"} :
          exporter' = [exporter EXCEPT ![x].id = Len(evidence'), ![x].copy = NewEvidence,
                                       ![x].at = at]
    BY DEF CreateRow
  <1> DEFINE to == [exporter[x] EXCEPT !.id = Len(evidence'), !.copy = NewEvidence, !.at = at]
  <1>6. exporter' = [exporter EXCEPT ![x] = to]
    BY <1>5
  <1>7. to \in Exporter /\ to.id = Len(evidence') /\ to.copy = NewEvidence /\ to.at = at
    <2>1. exporter[x] \in Exporter
      BY <1>1 DEF ExportTypes
    <2>2. ASSUME NEW n \in 1..MaxEvidence, NEW e \in Evidence
          PROVE  LET r == [exporter[x] EXCEPT !.id = n, !.copy = e, !.at = at]
                 IN r \in Exporter /\ r.id = n /\ r.copy = e /\ r.at = at
      <3>1. n \in 0..MaxEvidence /\ at \in Places
        BY DEF ExportParameters, Places
      <3> HIDE DEF to
      <3> QED BY <2>1, <3>1 DEF Exporter
    <2> QED BY <1>4, <2>2, EvidenceFacts
  <1> HIDE DEF to
  <1>8. SoundIn(NewEvidence, nvrFiles, nvrJobs)
    BY EvidenceFacts DEF SoundIn
  <1>9. SoundExporter(to, nvrFiles, nvrJobs, downloaded)
    BY <1>4, <1>7, <1>8 DEF SoundExporter
  <1>10. ExportTypeOK'
    <2>1. exporter' \in [Exporters -> Exporter]
      BY <1>1, <1>6, <1>7 DEF ExportTypes
    <2>2. Len(evidence') <= MaxEvidence
      BY <1>4 DEF ExportParameters
    <2> QED BY <1>1, <1>2, <1>3, <2>1, <2>2 DEF ExportTypes, ExportTypeOK, Exporter, Places
  <1>11. ASSUME NEW y \in Exporters
         PROVE  SoundExporter(exporter'[y], nvrFiles', nvrJobs', downloaded')
    BY <1>1, <1>2, <1>6, <1>9 DEF ExportInv, ExportTypes
  <1>12. \A i \in DOMAIN evidence' : SoundIn(evidence'[i], nvrFiles', nvrJobs')
    BY <1>2, <1>3, <1>8 DEF ExportInv
  <1> QED BY <1>2, <1>10, <1>11, <1>12 DEF ExportInv, VideoWasDownloaded

LEMMA UpdatedRows ==
  ASSUME NEW s \in Seq(Evidence), NEW i, NEW e \in Evidence
  PROVE  LET t == [s EXCEPT ![i] = e]
         IN /\ t \in Seq(Evidence) /\ Len(t) = Len(s)
            /\ \A k \in DOMAIN t : k \in DOMAIN s /\ (t[k] = e \/ t[k] = s[k])
  <1> DEFINE t == [s EXCEPT ![i] = e]
  <1>1. s \in [1..Len(s) -> Evidence] /\ Len(s) \in Nat
    OBVIOUS
  <1>2. t \in [1..Len(s) -> Evidence]
    BY <1>1
  <1>3. \A k \in DOMAIN t : k \in DOMAIN s /\ (t[k] = e \/ t[k] = s[k])
    BY <1>1
  <1> HIDE DEF t
  <1>4. t \in Seq(Evidence) /\ Len(t) = Len(s)
    BY <1>1, <1>2
  <1> QED BY <1>3, <1>4 DEF t

LEMMA SaveKeeps ==
  ASSUME ExportInv, ExportParameters, NEW x \in Exporters, SaveEvidence(x)
  PROVE  ExportInv'
  <1>1. ExportTypes
    BY ExportTypesAreTypeOK DEF ExportInv
  <1> DEFINE copy == exporter[x].copy
  <1>2. /\ exporter[x] \in Exporter /\ copy \in Evidence
        /\ SoundIn(copy, nvrFiles, nvrJobs)
    BY <1>1 DEF ExportTypes, ExportInv, SoundExporter, Exporter
  <1>3. /\ evidence' = [evidence EXCEPT ![exporter[x].id] = copy]
        /\ downloaded' = IF copy.status = "completed" THEN downloaded \union {copy.file}
                         ELSE downloaded
        /\ UNCHANGED <<nvrJobs, nvrMode, nvrFiles, video>>
    BY DEF SaveEvidence
  <1>4. PICK to \in Exporter : /\ Moves(x, to)
                               /\ SoundExporter(to, nvrFiles, nvrJobs, downloaded')
    <2>1. CASE copy.status = "completed" /\ exporter[x].video = 0
      <3>1. PICK to \in Exporter : Moves(x, to) /\ to.at = "video" /\ to.copy = copy
        BY <1>1, <1>2, <2>1, ContinueMoves DEF SaveEvidence, ExportTypes, Places
      <3>2. copy.file \in downloaded'
        BY <1>3, <2>1
      <3>3. SoundExporter(to, nvrFiles, nvrJobs, downloaded')
        BY <1>2, <3>1, <3>2 DEF SoundExporter
      <3> QED BY <3>1, <3>3
    <2>2. CASE ~(copy.status = "completed" /\ exporter[x].video = 0)
      <3>1. Moves(x, IdleExporter)
        BY <2>2 DEF SaveEvidence, Moves
      <3>2. SoundExporter(IdleExporter, nvrFiles, nvrJobs, downloaded')
        BY IdleFacts, EvidenceFacts DEF SoundExporter, SoundIn
      <3> QED BY <3>1, <3>2, IdleFacts
    <2> QED BY <2>1, <2>2
  <1>5. /\ evidence' \in Seq(Evidence) /\ Len(evidence') = Len(evidence)
        /\ \A i \in DOMAIN evidence' : i \in DOMAIN evidence
             /\ (evidence'[i] = copy \/ evidence'[i] = evidence[i])
    BY <1>1, <1>2, <1>3, UpdatedRows DEF ExportTypes
  <1>6. downloaded \subseteq downloaded' /\ downloaded' \subseteq 0..MaxFiles
    BY <1>1, <1>2, <1>3, EvidenceFacts DEF ExportTypes
  <1>7. exporter' \in [Exporters -> Exporter]
    BY <1>1, <1>4 DEF ExportTypes, Moves
  <1>8. ExportTypes'
    BY <1>1, <1>3, <1>5, <1>6, <1>7 DEF ExportTypes
  <1>9. ASSUME NEW y \in Exporters
        PROVE  SoundExporter(exporter'[y], nvrFiles', nvrJobs', downloaded')
    <2>1. CASE y = x
      BY <1>1, <1>3, <1>4, <2>1 DEF Moves, ExportTypes
    <2>2. CASE y # x
      <3>1. exporter'[y] = exporter[y] /\ SoundExporter(exporter[y], nvrFiles, nvrJobs, downloaded)
        BY <1>1, <1>4, <2>2 DEF Moves, ExportTypes, ExportInv
      <3> QED BY <1>3, <1>6, <3>1 DEF SoundExporter
    <2> QED BY <2>1, <2>2
  <1>10. \A i \in DOMAIN evidence' : SoundIn(evidence'[i], nvrFiles', nvrJobs')
    BY <1>2, <1>3, <1>5 DEF ExportInv
  <1>11. ExportTypeOK'
    BY <1>8 DEF ExportTypes, ExportTypeOK, Exporter, Places
  <1>12. VideoWasDownloaded'
    BY <1>3, <1>6 DEF ExportInv, VideoWasDownloaded
  <1> QED BY <1>9, <1>10, <1>11, <1>12 DEF ExportInv

LEMMA SetVideoKeeps ==
  ASSUME ExportInv, ExportParameters, NEW x \in Exporters, SetVideo(x)
  PROVE  ExportInv'
  <1>1. ExportTypes
    BY ExportTypesAreTypeOK DEF ExportInv
  <1>2. /\ video' = exporter[x].copy.file
        /\ exporter' = [exporter EXCEPT ![x] = IdleExporter]
        /\ UNCHANGED <<evidence, nvrJobs, nvrMode, nvrFiles, downloaded>>
    BY DEF SetVideo
  <1>3. exporter[x].copy.file \in downloaded
    BY DEF SetVideo, At, ExportInv, SoundExporter
  <1>4. exporter' \in [Exporters -> Exporter] /\ video' \in 0..MaxFiles
    BY <1>1, <1>2, <1>3, IdleFacts DEF ExportTypes
  <1>5. ExportTypeOK'
    BY <1>1, <1>2, <1>4 DEF ExportTypes, ExportTypeOK, Exporter, Places
  <1>6. SoundExporter(IdleExporter, nvrFiles, nvrJobs, downloaded)
    BY IdleFacts, EvidenceFacts DEF SoundExporter, SoundIn
  <1>7. ASSUME NEW y \in Exporters
        PROVE  SoundExporter(exporter'[y], nvrFiles', nvrJobs', downloaded')
    BY <1>1, <1>2, <1>6 DEF ExportInv, ExportTypes
  <1> QED BY <1>2, <1>3, <1>5, <1>7 DEF ExportInv, VideoWasDownloaded

-----------------------------------------------------------------------------
(* The NVR and the server.                                                 *)

LEMMA JobKeeps ==
  ASSUME ExportInv, ExportParameters, NEW j \in Jobs, JobEnds(j) \/ JobForgotten(j)
  PROVE  ExportInv'
  <1>1. ExportTypes
    BY ExportTypesAreTypeOK DEF ExportInv
  <1>2. UNCHANGED <<evidence, nvrMode, nvrFiles, video, exporter, downloaded>>
    BY DEF JobEnds, JobForgotten
  <1>3. /\ nvrJobs' \in [Jobs -> {"unknown", "running", "done", "lost"}]
        /\ \A k \in Jobs : nvrJobs[k] # "unknown" => nvrJobs'[k] # "unknown"
    BY <1>1 DEF JobEnds, JobForgotten, ExportTypes
  <1>4. ExportTypes'
    BY <1>1, <1>2, <1>3 DEF ExportTypes
  <1>5. Grows
    BY <1>1, <1>2, <1>3 DEF Grows, ExportTypes, ExportParameters
  <1>6. \A i \in DOMAIN evidence' : SoundIn(evidence'[i], nvrFiles', nvrJobs')
    <2>1. \A i \in DOMAIN evidence : evidence[i] \in Evidence
      BY <1>1 DEF ExportTypes
    <2> QED BY <1>1, <1>2, <1>4, <1>5, <2>1, SoundStays DEF ExportInv
  <1>7. \A x \in Exporters : SoundExporter(exporter'[x], nvrFiles', nvrJobs', downloaded')
    <2>1. \A x \in Exporters : exporter[x] \in Exporter
      BY <1>1 DEF ExportTypes
    <2> QED BY <1>1, <1>2, <1>4, <1>5, <2>1, SoundStays DEF ExportInv
  <1>8. ExportTypeOK'
    BY <1>4 DEF ExportTypes, ExportTypeOK, Exporter, Places
  <1> QED BY <1>2, <1>6, <1>7, <1>8 DEF ExportInv, VideoWasDownloaded

LEMMA RestartKeeps ==
  ASSUME ExportInv, ExportParameters, ServerRestarts
  PROVE  ExportInv'
  <1>1. ExportTypes
    BY ExportTypesAreTypeOK DEF ExportInv
  <1>2. /\ exporter' = [x \in Exporters |-> IdleExporter]
        /\ nvrMode' \in {"nvr", "simulation"}
        /\ UNCHANGED <<evidence, nvrJobs, nvrFiles, video, downloaded>>
    BY DEF ServerRestarts
  <1>3. exporter' \in [Exporters -> Exporter]
    BY <1>2, IdleFacts
  <1>4. ExportTypeOK'
    BY <1>1, <1>2, <1>3 DEF ExportTypes, ExportTypeOK, Exporter, Places
  <1>5. SoundExporter(IdleExporter, nvrFiles, nvrJobs, downloaded)
    BY IdleFacts, EvidenceFacts DEF SoundExporter, SoundIn
  <1> QED BY <1>2, <1>4, <1>5 DEF ExportInv, VideoWasDownloaded

LEMMA ExportInvariant == ExportSpec => []ExportInv
  <1> USE ExportParametersHold
  <1>1. ExportInit => ExportInv
    <2> SUFFICES ASSUME ExportInit PROVE ExportInv
      OBVIOUS
    <2>1. exporter \in [Exporters -> Exporter]
      BY IdleFacts DEF ExportInit
    <2>2. ExportTypeOK
      BY <2>1 DEF ExportInit, ExportTypeOK, Exporter, Places, ExportParameters
    <2>3. SoundExporter(IdleExporter, nvrFiles, nvrJobs, downloaded)
      BY IdleFacts, EvidenceFacts DEF SoundExporter, SoundIn
    <2> QED BY <2>2, <2>3 DEF ExportInit, ExportInv, VideoWasDownloaded
  <1>2. ExportInv /\ [ExportNext]_nvrVars => ExportInv'
    <2> SUFFICES ASSUME ExportInv, [ExportNext]_nvrVars
                 PROVE  ExportInv'
      OBVIOUS
    <2>1. CASE ExportNext
      BY <2>1, AskKeeps, CreateRowKeeps, SaveKeeps, SetVideoKeeps, JobKeeps, RestartKeeps
         DEF ExportNext
    <2>2. CASE UNCHANGED nvrVars
      BY <2>2 DEF nvrVars, ExportInv, ExportTypeOK, VideoWasDownloaded
    <2> QED BY <2>1, <2>2
  <1> QED BY <1>1, <1>2, PTL DEF ExportSpec

(* Every variable of the export keeps its type.                            *)
THEOREM ExportTypesCorrect == ExportSpec => []ExportTypeOK
  <1>1. ExportInv => ExportTypeOK
    BY DEF ExportInv
  <1> QED BY <1>1, ExportInvariant, PTL

(* However many requests overwrite each other's rows with stale copies, and*)
(* whenever the server dies: a completed row has its file, a waiting row a *)
(* job of the NVR, and the event's video is one that was downloaded.       *)
THEOREM ExportConsistentAlways == ExportSpec => []ExportIsConsistent
  <1>1. ExportInv => ExportIsConsistent
    BY DEF ExportInv, ExportIsConsistent, CompletedHasItsFile, WaitingHasItsJob, SoundIn
  <1> QED BY <1>1, ExportInvariant, PTL

(***************************************************************************)
(* MCEvents: the components side by side.                                  *)
(***************************************************************************)

(* A behaviour of the composition is one of every component: a component   *)
(* that is not in focus stands still.  What is proved of a component holds *)
(* in the run.                                                             *)
THEOREM EventsRunComponents == EventsSpec => NumberSpec /\ Spec /\ ExportSpec
<1>1. EventsInit => NumberInit /\ Init /\ ExportInit
  BY DEF EventsInit
<1>2. [EventsNext]_vars
        => [NumberNext]_numberVars /\ [Next]_apiVars /\ [ExportNext]_nvrVars
  <2>1. EventsNext => [NumberNext]_numberVars /\ [Next]_apiVars /\ [ExportNext]_nvrVars
    BY DEF EventsNext
  <2>2. UNCHANGED vars => UNCHANGED numberVars /\ UNCHANGED apiVars /\ UNCHANGED nvrVars
    BY DEF vars
  <2> QED  BY <2>1, <2>2
<1> QED  BY <1>1, <1>2, PTL DEF EventsSpec, NumberSpec, Spec, ExportSpec

(* Every variable of the three components keeps its type in the run.       *)
THEOREM EventsTypesCorrect == EventsSpec => []EventsTypeOK
<1>1. NumberTypeOK /\ TypeOK /\ ExportTypeOK => EventsTypeOK
  BY DEF EventsTypeOK
<1> QED  BY <1>1, EventsRunComponents, NumberTypesCorrect, TypeCorrect, ExportTypesCorrect, PTL

=============================================================================
