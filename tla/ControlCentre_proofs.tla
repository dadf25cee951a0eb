------------------------ MODULE ControlCentre_proofs ------------------------
(***************************************************************************)
(* Theorems about what the station and the control centre (OCC) exchange:  *)
(* OccSync and StationApi.                                                 *)
(***************************************************************************)
EXTENDS OccSync, StationApi, NumberFacts, SequenceTheorems, FiniteSetTheorems,
        TLAPS

(***************************************************************************)
(* OccSync: what is sent, for any events, senders and numbers of days.     *)
(***************************************************************************)

OccParameters ==
  /\ OccEvents \subseteq Nat
  /\ MaxSequence \in Nat
  /\ MaxDay \in Nat \ {0}

LEMMA OccParametersHold == OccParameters
  BY OccAssumption DEF OccParameters

OccPlaces ==
  {"idle", "posting", "succeeded", "recovering", "delivered",
   "failed", "counting", "reporting", "undelivered"}

Syncer ==
  [pc : OccPlaces, turn : Turns, kind : Turns \union {"none"}, number : Nat,
   batch : SUBSET OccEvents, read : Nat]

-----------------------------------------------------------------------------
(* Numbers.                                                                *)

LEMMA CappedFacts ==
  ASSUME NEW n \in Nat, NEW top \in Nat
  PROVE  Capped(n, top) \in 0..top /\ Capped(n, top) <= n
  BY DEF Capped

(* The comparison keeps the higher number.                                 *)
LEMMA AdvancedFacts ==
  ASSUME OccParameters, NEW n \in Nat, hbSequence \in 0..MaxSequence
  PROVE  /\ Advanced(n) \in 0..MaxSequence
         /\ hbSequence <= Advanced(n)
         /\ Advanced(n) = hbSequence \/ Advanced(n) <= n + 1
  <1> DEFINE c == Capped(n + 1, MaxSequence)
             S == {hbSequence, c}
  <1>1. c \in 0..MaxSequence /\ c <= n + 1
    BY CappedFacts DEF OccParameters
  <1> HIDE DEF c
  <1>2. \E x \in S : \A y \in S : x >= y
    <2>1. hbSequence >= c \/ c >= hbSequence
      BY <1>1 DEF OccParameters
    <2>2. hbSequence >= hbSequence /\ c >= c
      BY <1>1 DEF OccParameters
    <2> QED BY <2>1, <2>2
  <1>3. Advanced(n) = CHOOSE x \in S : \A y \in S : x >= y
    BY DEF Advanced, Max, c
  <1>4. Advanced(n) \in S /\ \A y \in S : Advanced(n) >= y
    BY <1>2, <1>3
  <1> QED BY <1>1, <1>4 DEF OccParameters

-----------------------------------------------------------------------------
(* The inductive invariant.                                                *)

(* A sender whose request succeeded holds what the OCC has: its batch, or  *)
(* the number of its heartbeat, which is not ahead of the stored one.      *)
SoundSender(s, got, beats, top) ==
  /\ s.pc # "idle" => s.kind \in Turns
  /\ s.kind = "heartbeat" => s.number <= top
  /\ s.kind = "daily" => s.number \in 0..MaxDay
  /\ s.pc \in {"succeeded", "recovering", "delivered"} =>
       /\ s.kind = "events" => \A e \in s.batch : Identity[e] \in got
       /\ s.kind = "heartbeat" => s.number \in beats

Senders ==
  /\ syncer \in [Syncers -> Syncer]
  /\ \A p \in Syncers : SoundSender(syncer[p], received, hbAccepted, hbSequence)

Numbers ==
  /\ hbSequence \in 0..MaxSequence
  /\ occFailures \in 0..Threshold
  /\ occFault \in BOOLEAN
  /\ lastDaily \in 0..MaxDay
  /\ today \in 1..MaxDay
  /\ hourPassed \in BOOLEAN

(* A stale row somebody is going to save is no more synced than the OCC    *)
(* has the event.                                                          *)
RowsSynced ==
  /\ syncStatus \in [OccEvents -> Statuses]
  /\ rowCopy \in [event : OccEvents \union {0}, status : Statuses]
  /\ SyncedWasReceived
  /\ rowCopy.event \in OccEvents /\ rowCopy.status = "synced" => Identity[rowCopy.event] \in received

OccHas ==
  /\ received \subseteq {Identity[e] : e \in OccEvents}
  /\ hbAccepted \subseteq 0..MaxSequence
  /\ summaries \subseteq 0..MaxDay
  /\ SequenceWasAccepted

OccInv == Senders /\ Numbers /\ RowsSynced /\ OccHas

LEMMA OccInvTypes == OccInv => OccTypeOK
  BY DEF OccInv, Senders, Numbers, RowsSynced, OccHas, OccTypeOK, Syncer, OccPlaces

-----------------------------------------------------------------------------
(* What the invariant needs of a step, one part at a time.                 *)

(* The OCC forgets nothing and the sequence does not fall.                 *)
Grows ==
  /\ received \subseteq received' /\ hbAccepted \subseteq hbAccepted'
  /\ hbSequence' \in 0..MaxSequence /\ hbSequence <= hbSequence'

LEMMA StandStill ==
  ASSUME Numbers, UNCHANGED <<received, hbAccepted, hbSequence>>
  PROVE  Grows
  BY DEF Grows, Numbers

(* One sender moves to a sound place.                                      *)
LEMMA SenderMoves ==
  ASSUME OccParameters, OccInv, Grows, NEW p \in Syncers, NEW to \in Syncer,
         syncer' = [syncer EXCEPT ![p] = to],
         SoundSender(to, received', hbAccepted', hbSequence')
  PROVE  Senders'
  <1>1. syncer' \in [Syncers -> Syncer]
    BY DEF OccInv, Senders
  <1>2. ASSUME NEW q \in Syncers
        PROVE  SoundSender(syncer'[q], received', hbAccepted', hbSequence')
    <2>1. CASE q = p
      BY <2>1 DEF OccInv, Senders
    <2>2. CASE q # p
      <3>1. syncer'[q] = syncer[q] /\ syncer[q].number \in Nat
        BY <2>2 DEF OccInv, Senders, Syncer
      <3>2. SoundSender(syncer[q], received, hbAccepted, hbSequence)
        BY DEF OccInv, Senders
      <3>3. hbSequence \in Nat /\ hbSequence' \in Nat /\ hbSequence <= hbSequence'
        BY DEF OccInv, Numbers, Grows, OccParameters
      <3> QED BY <3>1, <3>2, <3>3 DEF SoundSender, Grows
    <2> QED BY <2>1, <2>2
  <1> QED BY <1>1, <1>2 DEF Senders

LEMMA SendersStay ==
  ASSUME OccInv, UNCHANGED <<syncer, received, hbAccepted, hbSequence>>
  PROVE  Senders'
  BY DEF OccInv, Senders

(* Rows keep their status, or lose it, or the OCC has the event.           *)
LEMMA RowsKept ==
  ASSUME OccInv, received \subseteq received', UNCHANGED rowCopy,
         syncStatus' \in [OccEvents -> Statuses],
         \A e \in OccEvents : syncStatus'[e] = "synced" =>
           syncStatus[e] = "synced" \/ Identity[e] \in received'
  PROVE  RowsSynced'
  BY DEF OccInv, RowsSynced, SyncedWasReceived

LEMMA OccKept ==
  ASSUME OccInv, UNCHANGED <<occVars, hbSequence>>
  PROVE  OccHas'
  BY DEF OccInv, OccHas, SequenceWasAccepted, occVars

(* The fields of a sender after a move that changes only its place.        *)
LEMMA PlaceMoves ==
  ASSUME Senders, NEW p \in Syncers, NEW pc \in OccPlaces,
         syncer' = [syncer EXCEPT ![p].pc = pc]
  PROVE  \E to \in Syncer :
           /\ syncer' = [syncer EXCEPT ![p] = to]
           /\ to.pc = pc /\ to.kind = syncer[p].kind /\ to.number = syncer[p].number
           /\ to.batch = syncer[p].batch
  <1> DEFINE to == [syncer[p] EXCEPT !.pc = pc]
  <1>1. syncer[p] \in Syncer
    BY DEF Senders
  <1>2. /\ to \in Syncer /\ to.pc = pc /\ to.kind = syncer[p].kind
        /\ to.number = syncer[p].number /\ to.batch = syncer[p].batch
    BY <1>1 DEF Syncer
  <1>3. syncer' = [syncer EXCEPT ![p] = to]
    OBVIOUS
  <1> HIDE DEF to
  <1> QED BY <1>2, <1>3

(* A sender that has begun a request.                                      *)
LEMMA PostingMoves ==
  ASSUME Senders, NEW p \in Syncers, NEW kind \in Turns, NEW number \in Nat,
         NEW batch \in SUBSET OccEvents, Posting(p, kind, number, batch)
  PROVE  \E to \in Syncer :
           /\ syncer' = [syncer EXCEPT ![p] = to]
           /\ to.pc = "posting" /\ to.kind = kind /\ to.number = number /\ to.batch = batch
  <1> DEFINE to == [syncer[p] EXCEPT !.pc = "posting", !.kind = kind,
                                     !.number = number, !.batch = batch]
  <1>1. syncer[p] \in Syncer
    BY DEF Senders
  <1>2. "posting" \in OccPlaces
    BY DEF OccPlaces
  <1>3. /\ to \in Syncer /\ to.pc = "posting" /\ to.kind = kind
        /\ to.number = number /\ to.batch = batch
    BY <1>1, <1>2 DEF Syncer
  <1>4. syncer' = [syncer EXCEPT ![p] = to]
    BY DEF Posting
  <1> HIDE DEF to
  <1> QED BY <1>3, <1>4

LEMMA RestFacts ==
  ASSUME NEW turn \in Turns
  PROVE  /\ AtRest(turn) \in Syncer
         /\ AtRest(turn).pc = "idle" /\ AtRest(turn).kind = "none"
  BY DEF AtRest, Syncer, OccPlaces

LEMMA AfterType == \A turn \in Turns : After(turn) \in Turns
  BY DEF After, Turns

-----------------------------------------------------------------------------
(* The steps of the senders.                                               *)

(* Steps that send nothing, record nothing and write no row.               *)
LEMMA QuietMove ==
  ASSUME OccParameters, OccInv, NEW p \in Syncers, NEW to \in Syncer,
         syncer' = [syncer EXCEPT ![p] = to],
         SoundSender(to, received, hbAccepted, hbSequence),
         UNCHANGED <<syncStatus, rowCopy, hbSequence, occVars>>,
         Numbers'
  PROVE  OccInv'
  <1>1. Grows
    BY StandStill DEF OccInv, occVars
  <1>2. Senders'
    BY <1>1, SenderMoves DEF occVars
  <1>3. RowsSynced'
    BY DEF OccInv, RowsSynced, SyncedWasReceived, occVars
  <1>4. OccHas'
    BY OccKept
  <1> QED BY <1>2, <1>3, <1>4 DEF OccInv

(* Taking the next turn changes nothing a request depends on.              *)
LEMMA TurnMoves ==
  ASSUME Senders, NEW p \in Syncers, NEW turn \in Turns,
         syncer' = [syncer EXCEPT ![p].turn = turn]
  PROVE  \E to \in Syncer : /\ syncer' = [syncer EXCEPT ![p] = to]
                            /\ SoundSender(to, received, hbAccepted, hbSequence)
  <1> DEFINE to == [syncer[p] EXCEPT !.turn = turn]
  <1>1. syncer[p] \in Syncer /\ SoundSender(syncer[p], received, hbAccepted, hbSequence)
    BY DEF Senders
  <1>2. /\ to \in Syncer /\ to.pc = syncer[p].pc /\ to.kind = syncer[p].kind
        /\ to.number = syncer[p].number /\ to.batch = syncer[p].batch
    BY <1>1 DEF Syncer
  <1>3. syncer' = [syncer EXCEPT ![p] = to]
    OBVIOUS
  <1> HIDE DEF to
  <1>4. SoundSender(to, received, hbAccepted, hbSequence)
    BY <1>1, <1>2 DEF SoundSender
  <1> QED BY <1>2, <1>3, <1>4

LEMMA RequestKeeps ==
  ASSUME OccParameters, OccInv, NEW p \in Syncers,
         Heartbeat(p) \/ DeviceStatus(p) \/ DailySync(p)
  PROVE  OccInv'
  <1>1. Senders /\ Numbers /\ Numbers'
    BY DEF OccInv, Numbers, Heartbeat, DeviceStatus, DailySync, stateVars, clockVars
  <1>2. UNCHANGED <<syncStatus, rowCopy, hbSequence, occVars>>
    BY DEF Heartbeat, DeviceStatus, DailySync, stateVars
  <1>3. CASE Heartbeat(p)
    <2>1. PICK to \in Syncer : /\ syncer' = [syncer EXCEPT ![p] = to]
                               /\ to.pc = "posting" /\ to.kind = "heartbeat"
                               /\ to.number = hbSequence
      <3>1. "heartbeat" \in Turns /\ hbSequence \in Nat /\ {} \in SUBSET OccEvents
        BY <1>1 DEF Turns, Numbers, OccParameters
      <3>2. Posting(p, "heartbeat", hbSequence, {})
        BY <1>3 DEF Heartbeat
      <3> QED BY <1>1, <3>1, <3>2, PostingMoves
    <2>2. SoundSender(to, received, hbAccepted, hbSequence)
      <3>1. to.kind \in Turns /\ hbSequence <= hbSequence
        BY <1>1, <2>1 DEF Turns, Numbers, OccParameters
      <3> QED BY <2>1, <3>1 DEF SoundSender
    <2> QED BY <1>1, <1>2, <2>1, <2>2, QuietMove
  <1>4. CASE DailySync(p)
    <2>1. today - 1 \in Nat /\ today - 1 \in 0..MaxDay
      BY <1>1 DEF Numbers, OccParameters
    <2>2. PICK to \in Syncer : /\ syncer' = [syncer EXCEPT ![p] = to]
                               /\ to.pc = "posting" /\ to.kind = "daily"
                               /\ to.number = today - 1
      <3>1. "daily" \in Turns /\ {} \in SUBSET OccEvents
        BY DEF Turns
      <3>2. Posting(p, "daily", today - 1, {})
        BY <1>4 DEF DailySync
      <3> QED BY <1>1, <2>1, <3>1, <3>2, PostingMoves
    <2>3. SoundSender(to, received, hbAccepted, hbSequence)
      BY <2>1, <2>2 DEF SoundSender, Turns
    <2> QED BY <1>1, <1>2, <2>2, <2>3, QuietMove
  <1>5. CASE DeviceStatus(p)
    <2>1. CASE Posting(p, "devices", 0, {})
      <3>1. "devices" \in Turns /\ {} \in SUBSET OccEvents
        BY DEF Turns
      <3>2. PICK to \in Syncer : /\ syncer' = [syncer EXCEPT ![p] = to]
                                 /\ to.pc = "posting" /\ to.kind = "devices"
        BY <1>1, <2>1, <3>1, PostingMoves
      <3>3. SoundSender(to, received, hbAccepted, hbSequence)
        BY <3>2 DEF SoundSender, Turns
      <3> QED BY <1>1, <1>2, <3>2, <3>3, QuietMove
    <2>2. CASE syncer' = [syncer EXCEPT ![p].turn = "heartbeat"]
      <3>1. \E to \in Syncer : /\ syncer' = [syncer EXCEPT ![p] = to]
                               /\ SoundSender(to, received, hbAccepted, hbSequence)
        BY <1>1, <2>2, TurnMoves DEF Turns
      <3> QED BY <1>1, <1>2, <3>1, QuietMove
    <2> QED BY <1>5, <2>1, <2>2 DEF DeviceStatus
  <1> QED BY <1>3, <1>4, <1>5

(* The batch is made of events, and only the rejected rows change.         *)
LEMMA CollectKeeps ==
  ASSUME OccParameters, OccInv, NEW p \in Syncers, CollectEvents(p)
  PROVE  OccInv'
  <1>1. Senders /\ Numbers /\ Numbers'
    BY DEF OccInv, Numbers, CollectEvents, stateVars, clockVars
  <1>2. UNCHANGED <<rowCopy, hbSequence, occVars>>
    BY DEF CollectEvents, stateVars
  <1>3. syncStatus' = [e \in OccEvents |->
          IF e \in Waiting /\ ~Sendable(e) /\ Scanned(e) THEN "rejected" ELSE syncStatus[e]]
    BY DEF CollectEvents
  <1>4. RowsSynced'
    <2>1. syncStatus' \in [OccEvents -> Statuses]
      BY <1>3 DEF OccInv, RowsSynced, Statuses
    <2>2. \A e \in OccEvents : syncStatus'[e] = "synced" => syncStatus[e] = "synced"
      BY <1>3
    <2> QED BY <1>2, <2>1, <2>2, RowsKept DEF occVars
  <1>5. \E to \in Syncer : /\ syncer' = [syncer EXCEPT ![p] = to]
                           /\ SoundSender(to, received, hbAccepted, hbSequence)
    <2>1. CASE syncer' = [syncer EXCEPT ![p].turn = IF p = Service THEN After(@) ELSE @]
      <3>1. PICK turn \in Turns : turn = IF p = Service THEN After(syncer[p].turn) ELSE syncer[p].turn
        BY <1>1, AfterType DEF Senders, Syncer
      <3>2. syncer' = [syncer EXCEPT ![p].turn = turn]
        BY <2>1, <3>1
      <3> QED BY <1>1, <3>2, TurnMoves
    <2>2. CASE Posting(p, "events", 0, Batch)
      <3>1. "events" \in Turns /\ Batch \in SUBSET OccEvents
        BY DEF Turns, Batch, Candidates, Waiting
      <3>2. PICK to \in Syncer : /\ syncer' = [syncer EXCEPT ![p] = to]
                                 /\ to.pc = "posting" /\ to.kind = "events"
        BY <1>1, <2>2, <3>1, PostingMoves
      <3>3. SoundSender(to, received, hbAccepted, hbSequence)
        BY <3>2 DEF SoundSender, Turns
      <3> QED BY <3>2, <3>3
    <2> QED BY <2>1, <2>2 DEF CollectEvents
  <1>6. Grows
    BY <1>1, <1>2, StandStill DEF occVars
  <1>7. Senders'
    BY <1>2, <1>5, <1>6, SenderMoves DEF occVars
  <1>8. OccHas'
    BY <1>2, OccKept
  <1> QED BY <1>1, <1>4, <1>7, <1>8 DEF OccInv

(* A request that reaches the OCC makes it grow by what it holds.          *)
LEMMA DeliveryGrows ==
  ASSUME OccParameters, OccInv, NEW p \in Syncers, Delivered(p), UNCHANGED hbSequence
  PROVE  /\ Grows /\ OccHas'
         /\ syncer[p].kind = "events" => \A e \in syncer[p].batch : Identity[e] \in received'
         /\ syncer[p].kind = "heartbeat" => syncer[p].number \in hbAccepted'
  <1>1. /\ syncer[p] \in Syncer
        /\ SoundSender(syncer[p], received, hbAccepted, hbSequence)
        /\ hbSequence \in 0..MaxSequence
    BY DEF OccInv, Senders, Numbers
  <1>2. syncer[p].number \in Nat /\ syncer[p].batch \subseteq OccEvents
    BY <1>1 DEF Syncer
  <1>3. /\ received \subseteq received'
        /\ received' \subseteq {Identity[e] : e \in OccEvents}
        /\ syncer[p].kind = "events" => \A e \in syncer[p].batch : Identity[e] \in received'
    BY <1>2 DEF Delivered, OccInv, OccHas
  <1>4. /\ hbAccepted \subseteq hbAccepted' /\ hbAccepted' \subseteq 0..MaxSequence
        /\ syncer[p].kind = "heartbeat" => syncer[p].number \in hbAccepted'
    <2>1. syncer[p].kind = "heartbeat" => syncer[p].number \in 0..MaxSequence
      BY <1>1, <1>2 DEF SoundSender, OccParameters
    <2> QED BY <2>1 DEF Delivered, OccInv, OccHas
  <1>5. summaries' \subseteq 0..MaxDay
    BY <1>1 DEF Delivered, OccInv, OccHas, SoundSender
  <1>6. SequenceWasAccepted'
    BY <1>4 DEF SequenceWasAccepted, OccInv, OccHas
  <1>7. hbSequence <= hbSequence
    BY <1>1 DEF OccParameters
  <1> QED BY <1>1, <1>3, <1>4, <1>5, <1>6, <1>7 DEF Grows, OccHas

LEMMA PostKeeps ==
  ASSUME OccParameters, OccInv, NEW p \in Syncers, PostSucceeds(p) \/ PostFails(p)
  PROVE  OccInv'
  <1>1. Senders /\ Numbers /\ Numbers'
    BY DEF OccInv, Numbers, PostSucceeds, PostFails, stateVars, clockVars
  <1>2. UNCHANGED <<syncStatus, rowCopy, hbSequence>>
    BY DEF PostSucceeds, PostFails, stateVars
  <1>3. SoundSender(syncer[p], received, hbAccepted, hbSequence) /\ syncer[p].pc = "posting"
    BY <1>1 DEF Senders, PostSucceeds, PostFails
  <1>4. CASE Delivered(p)
    <2>1. /\ Grows /\ OccHas'
          /\ syncer[p].kind = "events" => \A e \in syncer[p].batch : Identity[e] \in received'
          /\ syncer[p].kind = "heartbeat" => syncer[p].number \in hbAccepted'
      BY <1>2, <1>4, DeliveryGrows
    <2>2. PICK pc \in {"succeeded", "failed"} : syncer' = [syncer EXCEPT ![p].pc = pc]
      BY DEF PostSucceeds, PostFails
    <2>3. PICK to \in Syncer :
            /\ syncer' = [syncer EXCEPT ![p] = to]
            /\ to.pc = pc /\ to.kind = syncer[p].kind /\ to.number = syncer[p].number
            /\ to.batch = syncer[p].batch
      <3>1. pc \in OccPlaces
        BY DEF OccPlaces
      <3> QED BY <1>1, <2>2, <3>1, PlaceMoves
    <2>4. SoundSender(to, received', hbAccepted', hbSequence')
      BY <1>2, <1>3, <2>1, <2>3 DEF SoundSender
    <2>5. Senders'
      BY <2>1, <2>3, <2>4, SenderMoves
    <2>6. RowsSynced'
      BY <1>2, <2>1, RowsKept DEF Grows, OccInv, RowsSynced
    <2> QED BY <1>1, <2>1, <2>5, <2>6 DEF OccInv
  <1>5. CASE UNCHANGED occVars /\ syncer' = [syncer EXCEPT ![p].pc = "failed"]
    <2>1. PICK to \in Syncer :
            /\ syncer' = [syncer EXCEPT ![p] = to]
            /\ to.pc = "failed" /\ to.kind = syncer[p].kind /\ to.number = syncer[p].number
            /\ to.batch = syncer[p].batch
      <3>1. "failed" \in OccPlaces
        BY DEF OccPlaces
      <3>2. syncer' = [syncer EXCEPT ![p].pc = "failed"]
        BY <1>5
      <3> QED BY <1>1, <3>1, <3>2, PlaceMoves
    <2>2. SoundSender(to, received, hbAccepted, hbSequence)
      BY <1>3, <2>1 DEF SoundSender
    <2> QED BY <1>1, <1>2, <1>5, <2>1, <2>2, QuietMove
  <1> QED BY <1>4, <1>5 DEF PostSucceeds, PostFails

(* _mark_success and _mark_failure: counters and the fault, no request.    *)
LEMMA MarkKeeps ==
  ASSUME OccParameters, OccInv, NEW p \in Syncers,
         \/ MarkSuccess(p) \/ RecoverFault(p) \/ ReadFailures(p) \/ MarkFailure(p)
         \/ ReportFault(p) \/ FaultStepLost(p) \/ SyncerDies(p)
  PROVE  OccInv'
  <1>1. Senders /\ Numbers
    BY DEF OccInv
  <1>2. syncer[p] \in Syncer /\ SoundSender(syncer[p], received, hbAccepted, hbSequence)
    BY <1>1 DEF Senders
  <1>3. UNCHANGED <<syncStatus, rowCopy, hbSequence, occVars>>
    BY DEF MarkSuccess, RecoverFault, ReadFailures, MarkFailure, ReportFault, FaultStepLost,
           SyncerDies, stateVars
  <1>4. Numbers'
    <2>1. CASE MarkFailure(p)
      <3>1. syncer[p].read + 1 \in Nat /\ Threshold \in Nat
        BY <1>2 DEF Syncer, Threshold
      <3>2. occFailures' \in 0..Threshold
        BY <2>1, <3>1, CappedFacts DEF MarkFailure
      <3> QED BY <1>1, <2>1, <3>2 DEF MarkFailure, Numbers, clockVars
    <2>2. CASE MarkSuccess(p)
      BY <1>1, <2>2 DEF MarkSuccess, Numbers, clockVars, Threshold
    <2>3. CASE RecoverFault(p) \/ ReportFault(p)
      BY <1>1, <2>3 DEF RecoverFault, ReportFault, Numbers, clockVars
    <2>4. CASE ReadFailures(p) \/ FaultStepLost(p) \/ SyncerDies(p)
      BY <1>1, <2>4 DEF ReadFailures, FaultStepLost, SyncerDies, Numbers, clockVars, stateVars
    <2> QED BY <2>1, <2>2, <2>3, <2>4
  (* A place in which no more is asked of the sender than before.          *)
  <1>5. ASSUME NEW pc \in OccPlaces, syncer' = [syncer EXCEPT ![p].pc = pc],
               pc \in {"recovering", "delivered"} =>
                 syncer[p].pc \in {"succeeded", "recovering", "delivered"},
               pc # "succeeded", syncer[p].pc # "idle"
        PROVE  OccInv'
    <2>1. PICK to \in Syncer :
            /\ syncer' = [syncer EXCEPT ![p] = to]
            /\ to.pc = pc /\ to.kind = syncer[p].kind /\ to.number = syncer[p].number
            /\ to.batch = syncer[p].batch
      BY <1>1, <1>5, PlaceMoves
    <2>2. SoundSender(to, received, hbAccepted, hbSequence)
      BY <1>2, <1>5, <2>1 DEF SoundSender
    <2> QED BY <1>3, <1>4, <2>1, <2>2, QuietMove
  <1>6. CASE MarkSuccess(p)
    BY <1>5, <1>6 DEF MarkSuccess, OccPlaces
  <1>7. CASE RecoverFault(p)
    BY <1>5, <1>7 DEF RecoverFault, OccPlaces
  <1>8. CASE MarkFailure(p)
    <2>1. PICK pc \in {"reporting", "undelivered"} : syncer' = [syncer EXCEPT ![p].pc = pc]
      BY <1>8 DEF MarkFailure
    <2>2. syncer[p].pc # "idle"
      BY <1>8 DEF MarkFailure
    <2> QED BY <1>5, <2>1, <2>2 DEF OccPlaces
  <1>9. CASE ReportFault(p)
    BY <1>5, <1>9 DEF ReportFault, OccPlaces
  <1>10. CASE FaultStepLost(p)
    <2>1. /\ syncer[p].pc = "recovering" /\ syncer' = [syncer EXCEPT ![p].pc = "delivered"]
          \/ syncer' = [syncer EXCEPT ![p].pc = "undelivered"]
      BY <1>1, <1>10 DEF FaultStepLost, Senders
    <2>2. syncer[p].pc # "idle"
      BY <1>10 DEF FaultStepLost
    <2> QED BY <1>5, <2>1, <2>2 DEF OccPlaces
  <1>11. CASE ReadFailures(p)
    <2> DEFINE to == [syncer[p] EXCEPT !.pc = "counting", !.read = occFailures]
    <2>1. occFailures \in Nat /\ "counting" \in OccPlaces
      BY <1>1 DEF Numbers, Threshold, OccPlaces
    <2>2. /\ to \in Syncer /\ to.pc = "counting" /\ to.kind = syncer[p].kind
          /\ to.number = syncer[p].number
      BY <1>2, <2>1 DEF Syncer
    <2>3. syncer' = [syncer EXCEPT ![p] = to]
      BY <1>11 DEF ReadFailures
    <2> HIDE DEF to
    <2>4. SoundSender(to, received, hbAccepted, hbSequence)
      <3>1. syncer[p].pc # "idle"
        BY <1>11 DEF ReadFailures
      <3> QED BY <1>2, <2>2, <3>1 DEF SoundSender
    <2> QED BY <1>3, <1>4, <2>2, <2>3, <2>4, QuietMove
  <1>12. CASE SyncerDies(p)
    <2>1. /\ AtRest("heartbeat") \in Syncer
          /\ SoundSender(AtRest("heartbeat"), received, hbAccepted, hbSequence)
      BY RestFacts DEF SoundSender, Turns
    <2>2. syncer' = [syncer EXCEPT ![p] = AtRest("heartbeat")]
      BY <1>12 DEF SyncerDies
    <2> QED BY <1>3, <1>4, <2>1, <2>2, QuietMove
  <1> QED BY <1>6, <1>7, <1>8, <1>9, <1>10, <1>11, <1>12

(* A sender that comes to rest, whatever it recorded.                      *)
LEMMA RestKeeps ==
  ASSUME OccParameters, OccInv, Grows, NEW p \in Syncers, syncer[p].pc # "idle", SyncEnds(p)
  PROVE  Senders'
  <1>1. syncer[p].kind \in Turns
    BY DEF OccInv, Senders, SoundSender
  <1>2. PICK turn \in Turns : turn = IF p = Service THEN After(syncer[p].kind) ELSE "heartbeat"
    BY <1>1, AfterType DEF Turns
  <1>3. AtRest(turn) \in Syncer /\ SoundSender(AtRest(turn), received', hbAccepted', hbSequence')
    BY RestFacts DEF SoundSender
  <1>4. syncer' = [syncer EXCEPT ![p] = AtRest(turn)]
    BY <1>2 DEF SyncEnds
  <1> QED BY <1>3, <1>4, SenderMoves

LEMMA RecordKeeps ==
  ASSUME OccParameters, OccInv, NEW p \in Syncers,
         RecordHeartbeat(p) \/ RecordEvents(p) \/ RecordDaily(p) \/ RecordFailure(p)
  PROVE  OccInv'
  <1>1. Senders /\ Numbers /\ RowsSynced /\ OccHas
    BY DEF OccInv
  <1>2. /\ syncer[p] \in Syncer /\ syncer[p].number \in Nat /\ syncer[p].batch \subseteq OccEvents
        /\ SoundSender(syncer[p], received, hbAccepted, hbSequence)
    BY <1>1 DEF Senders, Syncer
  <1>3. SyncEnds(p) /\ syncer[p].pc # "idle" /\ UNCHANGED <<rowCopy, occVars>>
    BY DEF RecordHeartbeat, RecordEvents, RecordDaily, RecordFailure
  <1>4. CASE RecordHeartbeat(p)
    <2> DEFINE n == syncer[p].number
    <2>1. n <= hbSequence /\ n \in hbAccepted
      BY <1>2, <1>4 DEF RecordHeartbeat, SoundSender
    <2>2. /\ hbSequence' \in 0..MaxSequence /\ hbSequence <= hbSequence'
          /\ hbSequence' = hbSequence \/ hbSequence' <= n + 1
      BY <1>1, <1>2, <1>4, AdvancedFacts DEF RecordHeartbeat, Numbers
    <2>3. Grows
      BY <1>3, <2>2 DEF Grows, occVars
    <2>4. SequenceWasAccepted'
      <3>1. ASSUME NEW m \in 0..MaxSequence, m < hbSequence'
            PROVE  m \in hbAccepted
        <4>1. CASE m < hbSequence
          BY <1>1, <4>1 DEF OccHas, SequenceWasAccepted
        <4>2. CASE ~(m < hbSequence)
          <5>1. m = n
            BY <1>1, <1>2, <2>1, <2>2, <3>1, <4>2 DEF Numbers, OccParameters
          <5> QED BY <2>1, <5>1
        <4> QED BY <4>1, <4>2
      <3> QED BY <1>3, <3>1 DEF SequenceWasAccepted, occVars
    <2>5. Senders'
      BY <1>3, <2>3, RestKeeps
    <2>6. Numbers' /\ RowsSynced'
      BY <1>1, <1>3, <1>4, <2>2 DEF RecordHeartbeat, Numbers, clockVars, RowsSynced,
                                    SyncedWasReceived, occVars
    <2> QED BY <1>1, <1>3, <2>4, <2>5, <2>6 DEF OccInv, OccHas, occVars
  <1>5. CASE RecordEvents(p) \/ RecordFailure(p)
    <2>1. UNCHANGED <<stateVars, clockVars, hbSequence>>
      BY <1>5 DEF RecordEvents, RecordFailure, stateVars
    <2>2. Grows
      BY <1>1, <1>3, <2>1, StandStill DEF occVars
    <2>3. Senders'
      BY <1>3, <2>2, RestKeeps
    <2>4. Numbers'
      BY <1>1, <2>1 DEF Numbers, stateVars, clockVars
    <2>5. OccHas'
      BY <1>3, <2>1, OccKept
    <2>6. PICK status \in {"synced", "failed"} :
            /\ syncStatus' = Outcome(syncer[p].batch, status)
            /\ status = "synced" => syncer[p].pc = "delivered" /\ syncer[p].kind = "events"
      BY <1>5 DEF RecordEvents, RecordFailure
    <2>7. syncStatus' \in [OccEvents -> Statuses]
      BY <1>1, <2>6 DEF Outcome, RowsSynced, Statuses
    <2>8. ASSUME NEW e \in OccEvents, syncStatus'[e] = "synced"
          PROVE  syncStatus[e] = "synced" \/ Identity[e] \in received'
      <3>1. CASE e \in syncer[p].batch
        <4>1. status = "synced"
          BY <2>6, <2>8, <3>1 DEF Outcome
        <4>2. Identity[e] \in received
          BY <1>2, <2>6, <3>1, <4>1 DEF SoundSender
        <4> QED BY <1>3, <4>2 DEF occVars
      <3>2. CASE e \notin syncer[p].batch
        BY <2>6, <2>8, <3>2 DEF Outcome
      <3> QED BY <3>1, <3>2
    <2>9. RowsSynced'
      BY <1>3, <2>2, <2>7, <2>8, RowsKept DEF Grows
    <2> QED BY <2>3, <2>4, <2>5, <2>9 DEF OccInv
  <1>6. CASE RecordDaily(p)
    <2>1. UNCHANGED <<syncStatus, hbSequence>>
      BY <1>6 DEF RecordDaily
    <2>2. Grows
      BY <1>1, <1>3, <2>1, StandStill DEF occVars
    <2>3. Senders'
      BY <1>3, <2>2, RestKeeps
    <2>4. Numbers'
      BY <1>1, <1>6 DEF RecordDaily, Numbers, clockVars, OccParameters
    <2>5. OccHas'
      BY <1>3, <2>1, OccKept
    <2>6. RowsSynced'
      BY <1>1, <1>3, <2>1 DEF RowsSynced, SyncedWasReceived, occVars
    <2> QED BY <2>3, <2>4, <2>5, <2>6 DEF OccInv
  <1> QED BY <1>4, <1>5, <1>6

-----------------------------------------------------------------------------
(* What happens around the senders.                                        *)

LEMMA RowKeeps ==
  ASSUME OccParameters, OccInv, SaveRow \/ \E e \in OccEvents : NewEvent(e) \/ ReadRow(e)
  PROVE  OccInv'
  <1>1. Numbers /\ RowsSynced
    BY DEF OccInv
  <1>2. UNCHANGED <<stateVars, clockVars, hbSequence, syncer, occVars>>
    BY DEF SaveRow, NewEvent, ReadRow, stateVars
  <1>3. Senders' /\ OccHas'
    BY <1>2, SendersStay, OccKept DEF occVars
  <1>4. Numbers'
    BY <1>1, <1>2 DEF Numbers, stateVars, clockVars
  <1>5. ASSUME NEW e \in OccEvents, NewEvent(e)
        PROVE  RowsSynced'
    <2>1. syncStatus' = [syncStatus EXCEPT ![e] = "pending"] /\ UNCHANGED rowCopy
      BY <1>5 DEF NewEvent
    <2>2. syncStatus' \in [OccEvents -> Statuses]
      BY <1>1, <2>1 DEF RowsSynced, Statuses
    <2>3. \A o \in OccEvents : syncStatus'[o] = "synced" => syncStatus[o] = "synced"
      BY <1>1, <2>1 DEF RowsSynced
    <2> QED BY <1>2, <2>1, <2>2, <2>3, RowsKept DEF occVars
  <1>6. ASSUME NEW e \in OccEvents, ReadRow(e)
        PROVE  RowsSynced'
    <2>1. rowCopy' = [event |-> e, status |-> syncStatus[e]] /\ UNCHANGED syncStatus
      BY <1>6 DEF ReadRow
    <2>2. syncStatus[e] \in Statuses
      BY <1>1 DEF RowsSynced
    <2>3. /\ rowCopy' \in [event : OccEvents \union {0}, status : Statuses]
          /\ rowCopy'.event = e /\ rowCopy'.status = syncStatus[e]
      BY <2>1, <2>2
    <2> QED BY <1>1, <1>2, <2>1, <2>3 DEF RowsSynced, SyncedWasReceived, occVars
  <1>7. ASSUME SaveRow
        PROVE  RowsSynced'
    <2>1. /\ syncStatus' = [syncStatus EXCEPT ![rowCopy.event] = rowCopy.status]
          /\ rowCopy' = NoCopy
      BY <1>7 DEF SaveRow
    <2>2. rowCopy.status \in Statuses
      BY <1>1 DEF RowsSynced
    <2>3. syncStatus' \in [OccEvents -> Statuses]
      BY <1>1, <2>1, <2>2 DEF RowsSynced
    <2>4. ASSUME NEW e \in OccEvents, syncStatus'[e] = "synced"
          PROVE  Identity[e] \in received
      <3>1. CASE e = rowCopy.event
        BY <1>1, <2>1, <2>4, <3>1 DEF RowsSynced
      <3>2. CASE e # rowCopy.event
        BY <1>1, <2>1, <2>4, <3>2 DEF RowsSynced, SyncedWasReceived
      <3> QED BY <3>1, <3>2
    <2>5. /\ NoCopy \in [event : OccEvents \union {0}, status : Statuses]
          /\ NoCopy.status # "synced"
      BY DEF NoCopy, Statuses
    <2> QED BY <1>2, <2>1, <2>3, <2>4, <2>5 DEF RowsSynced, SyncedWasReceived, occVars
  <1> QED BY <1>3, <1>4, <1>5, <1>6, <1>7 DEF OccInv

LEMMA ClockKeeps ==
  ASSUME OccParameters, OccInv, HourStrikes \/ Midnight \/ UNCHANGED occSyncVars
  PROVE  OccInv'
  <1>1. UNCHANGED <<syncStatus, rowCopy, hbSequence, syncer, occVars>>
    BY DEF HourStrikes, Midnight, occSyncVars, stateVars
  <1>2. Numbers'
    <2>1. Numbers
      BY DEF OccInv
    <2>2. CASE HourStrikes
      BY <2>1, <2>2 DEF Numbers, HourStrikes, stateVars
    <2>3. CASE Midnight
      <3>1. today' \in 1..MaxDay
        BY <2>1, <2>3 DEF Numbers, Midnight, OccParameters
      <3> QED BY <2>1, <2>3, <3>1 DEF Numbers, Midnight, stateVars
    <2>4. CASE UNCHANGED occSyncVars
      BY <2>1, <2>4 DEF Numbers, occSyncVars, stateVars, clockVars
    <2> QED BY <2>2, <2>3, <2>4
  <1>3. Senders' /\ OccHas'
    BY <1>1, SendersStay, OccKept DEF occVars
  <1>4. RowsSynced'
    BY <1>1 DEF OccInv, RowsSynced, SyncedWasReceived, occVars
  <1> QED BY <1>2, <1>3, <1>4 DEF OccInv

LEMMA OccStep ==
  ASSUME OccParameters, OccInv, [OccNext]_occSyncVars
  PROVE  OccInv'
  <1>1. ASSUME NEW p \in Syncers, Step(p) \/ PostFails(p) \/ FaultStepLost(p) \/ SyncerDies(p)
        PROVE  OccInv'
    BY <1>1, RequestKeeps, CollectKeeps, PostKeeps, MarkKeeps, RecordKeeps DEF Step
  <1> QED BY <1>1, RowKeeps, ClockKeeps DEF OccNext

LEMMA OccInvariant == OccSpec => []OccInv
  <1> USE OccParametersHold
  <1>1. OccInit => OccInv
    <2> SUFFICES ASSUME OccInit PROVE OccInv
      OBVIOUS
    <2>1. /\ AtRest("heartbeat") \in Syncer
          /\ SoundSender(AtRest("heartbeat"), received, hbAccepted, hbSequence)
      BY RestFacts DEF SoundSender, Turns
    <2>2. Senders
      BY <2>1 DEF OccInit, Senders
    <2>3. Numbers /\ OccHas
      <3>1. 0 \in 0..MaxSequence /\ 0 \in 0..Threshold /\ 0 \in 0..MaxDay /\ 1 \in 1..MaxDay
        BY DEF OccParameters, Threshold
      <3>2. SequenceWasAccepted
        BY DEF OccInit, SequenceWasAccepted, OccParameters
      <3> QED BY <3>1, <3>2 DEF OccInit, Numbers, OccHas
    <2>4. RowsSynced
      BY DEF OccInit, RowsSynced, SyncedWasReceived, NoCopy, Statuses
    <2> QED BY <2>2, <2>3, <2>4 DEF OccInv
  <1>2. OccInv /\ [OccNext]_occSyncVars => OccInv'
    BY OccStep
  <1> QED BY <1>1, <1>2, PTL DEF OccSpec

(* Every variable of the synchronisation keeps its type.                   *)
THEOREM OccTypesCorrect == OccSpec => []OccTypeOK
  BY OccInvariant, OccInvTypes, PTL

(* An event counts as synced only if the OCC has it, whatever is lost, and *)
(* however many senders and stale row saves overlap.                       *)
THEOREM SyncedAlways == OccSpec => []SyncedWasReceived
  <1>1. OccInv => SyncedWasReceived
    BY DEF OccInv, RowsSynced
  <1> QED BY <1>1, OccInvariant, PTL

(* The heartbeat sequence passes a number only after the OCC accepted it,  *)
(* and a slow sender never takes it back.                                  *)
THEOREM SequencesAlways == OccSpec => SequencesAreSound
  <1> USE OccParametersHold
  <1>1. OccInv => SequenceWasAccepted
    BY DEF OccInv, OccHas
  <1>2. OccInv /\ [OccNext]_occSyncVars => [hbSequence' >= hbSequence]_occSyncVars
    <2> SUFFICES ASSUME OccInv, [OccNext]_occSyncVars, ~UNCHANGED occSyncVars
                 PROVE  hbSequence' >= hbSequence
      OBVIOUS
    <2>0. hbSequence \in 0..MaxSequence
      BY DEF OccInv, Numbers
    <2>1. ASSUME NEW p \in Syncers, RecordHeartbeat(p)
          PROVE  hbSequence' >= hbSequence
      <3>1. syncer[p].number \in Nat
        BY DEF OccInv, Senders, Syncer
      <3>2. hbSequence <= hbSequence' /\ hbSequence' \in 0..MaxSequence
        BY <2>0, <2>1, <3>1, AdvancedFacts DEF RecordHeartbeat
      <3> QED BY <2>0, <3>2 DEF OccParameters
    <2>2. CASE UNCHANGED hbSequence
      BY <2>0, <2>2 DEF OccParameters
    <2>3. (\E p \in Syncers : RecordHeartbeat(p)) \/ UNCHANGED hbSequence
      BY DEF OccNext, Step, Heartbeat, CollectEvents, DeviceStatus, DailySync, PostSucceeds,
             PostFails, MarkSuccess, RecoverFault, RecordEvents, RecordDaily, ReadFailures,
             MarkFailure, ReportFault, RecordFailure, FaultStepLost, SyncerDies, NewEvent,
             ReadRow, SaveRow, HourStrikes, Midnight, stateVars
    <2> QED BY <2>1, <2>2, <2>3
  <1> QED BY <1>1, <1>2, OccInvariant, PTL DEF OccSpec, SequencesAreSound, SequenceNeverFalls

(***************************************************************************)
(* StationApi: the fault feed and the OCC that reads it.                   *)
(***************************************************************************)

FaultStatuses == {"active", "recovered"}
ChangeType == [row : Nat, status : FaultStatuses]

(* An empty set and a singleton have one order each.                       *)
LEMMA OrdersOfFew ==
  ASSUME NEW S, NEW f \in Orders(S)
  PROVE  /\ S = {} => f = <<>>
         /\ \A x : S = {x} => f = <<x>>
<1>1. CASE S = {}
  <2>1. f \in [1..0 -> S]
    BY <1>1, FS_EmptySet DEF Orders
  <2>2. f \in Seq(S) /\ Len(f) = 0
    BY <2>1
  <2> QED  BY <1>1, <2>2, FS_EmptySet
<1>2. ASSUME NEW x, S = {x}  PROVE  f = <<x>>
  <2>1. f \in [1..1 -> S]
    BY <1>2, FS_Singleton DEF Orders
  <2>2. f \in UNION {[1..n -> S] : n \in Nat}
    BY <2>1, Zenon
  <2>3. f \in Seq(S)
    BY <2>2, SeqDef, Zenon
  <2>4. Len(f) = 1 /\ f[1] = x
    BY <2>1, <2>3, <1>2
  <2> QED  BY <2>3, <2>4
<1> QED  BY <1>1, <1>2, FS_EmptySet

-----------------------------------------------------------------------------
(* The inductive invariant.                                                *)

FeedRows == \A n \in DOMAIN changes : changes[n].row \in DOMAIN faultRows

(* The last change of a row that the command did not race is its status,   *)
(* and a change that says recovered stays true.                            *)
LastIsCurrent ==
  \A n \in DOMAIN changes :
    IsLast(changes, n) /\ changes[n].row \notin raced
      => changes[n].status = faultRows[changes[n].row].status

RecoveredIsRecovered ==
  \A n \in DOMAIN changes :
    changes[n].status = "recovered" /\ changes[n].row \notin raced
      => faultRows[changes[n].row].status = "recovered"

(* The command holds copies of rows that exist.                            *)
CommandHolds ==
  /\ backfill.pc # "off" => Len(backfill.copies) <= Len(faultRows)
  /\ backfill.pc = "append" => backfill.at \in DOMAIN backfill.copies
  /\ backfill.pc # "off" => backfill.at >= 1

(* OCC has an open row exactly if the last change it read about it says so.*)
OpenIn(feed, top, i) ==
  \E n \in 1..top : /\ feed[n].row = i
                    /\ feed[n].status = "active"
                    /\ \A m \in (n + 1)..top : feed[m].row # i

MirrorIsRead == \A i \in Nat : i \in mirror <=> OpenIn(changes, sinceId, i)

(* A page takes over only a version that OCC sends.                        *)
PagesHold == \A t \in Pages : page[t].pc = "apply" => page[t].version \in 1..MaxVersion

FaultsInv ==
  /\ FaultsTypeOK
  /\ OneOpenFault
  /\ FeedRows
  /\ LastIsCurrent
  /\ RecoveredIsRecovered
  /\ RecoveryIsFinal
  /\ CommandHolds
  /\ PagesHold
  /\ MirrorIsRead

-----------------------------------------------------------------------------
(* What a step does to the rows and the feed.                              *)

Quiet == UNCHANGED <<faultRows, changes>>

RowRefreshed(i) ==
  /\ i \in DOMAIN faultRows
  /\ faultRows[i].status = "active"
  /\ faultRows' = faultRows
  /\ changes' = Append(changes, Snapshot(i, "active"))

RowCreated(k) ==
  /\ ActiveIds(k) = {}
  /\ faultRows' = Append(faultRows, [key |-> k, station |-> stationCode, status |-> "active"])
  /\ changes' = Append(changes, Snapshot(Len(faultRows) + 1, "active"))

RowRecovered(i) ==
  /\ i \in DOMAIN faultRows
  /\ faultRows[i].status = "active"
  /\ faultRows' = [faultRows EXCEPT ![i] = [@ EXCEPT !.status = "recovered"]]
  /\ changes' = Append(changes, Snapshot(i, "recovered"))

LogStep ==
  \/ Quiet
  \/ \E i \in Nat : RowRefreshed(i)
  \/ \E k \in FaultKeys : RowCreated(k)
  \/ \E i \in Nat : RowRecovered(i)

LEMMA RecoverEffect ==
  ASSUME FaultsTypeOK, OneOpenFault, NEW k \in FaultKeys, Recover(k)
  PROVE  Quiet \/ \E i \in Nat : RowRecovered(i)
<1>1. CASE ActiveIds(k) = {}
  <2>1. changes' = changes \o <<>>
    <3>1. PICK rows \in Orders(ActiveIds(k)) :
            changes' = changes \o [n \in DOMAIN rows |-> Snapshot(rows[n], "recovered")]
      BY DEF Recover
    <3>2. rows = <<>>
      BY <1>1, <3>1, OrdersOfFew
    <3>3. [n \in DOMAIN rows |-> Snapshot(rows[n], "recovered")] = <<>>
      BY <3>2
    <3> QED  BY <3>1, <3>3
  <2>2. changes' = changes
    BY <2>1 DEF FaultsTypeOK
  <2>3. faultRows' = faultRows
    <3>1. faultRows' = [i \in DOMAIN faultRows |-> faultRows[i]]
      BY <1>1 DEF Recover
    <3> QED  BY <3>1 DEF FaultsTypeOK
  <2> QED  BY <2>2, <2>3 DEF Quiet
<1>2. CASE ActiveIds(k) # {}
  <2>1. PICK i \in ActiveIds(k) : TRUE
    BY <1>2
  <2>2. i \in DOMAIN faultRows /\ faultRows[i].status = "active" /\ i \in Nat
    BY <2>1 DEF ActiveIds, FaultsTypeOK
  <2>3. ActiveIds(k) = {i}
    <3> SUFFICES ASSUME NEW j \in ActiveIds(k)  PROVE  j = i
      BY <2>1
    <3>1. j \in DOMAIN faultRows /\ faultRows[j] \in RowType /\ faultRows[i] \in RowType
      BY <2>2 DEF ActiveIds, FaultsTypeOK
    <3>2. faultRows[i] = faultRows[j]
      BY <2>1, <3>1 DEF ActiveIds, RowType
    <3> QED  BY <2>2, <3>1, <3>2 DEF OneOpenFault
  <2>4. changes' = Append(changes, Snapshot(i, "recovered"))
    <3>1. PICK rows \in Orders(ActiveIds(k)) :
            changes' = changes \o [n \in DOMAIN rows |-> Snapshot(rows[n], "recovered")]
      BY DEF Recover
    <3>2. rows = <<i>>
      BY <2>3, <3>1, OrdersOfFew
    <3>3. [n \in DOMAIN rows |-> Snapshot(rows[n], "recovered")] = <<Snapshot(i, "recovered")>>
      BY <3>2
    <3>4. Snapshot(i, "recovered") \in ChangeType
      BY <2>2 DEF Snapshot, ChangeType, FaultStatuses
    <3> QED  BY <3>1, <3>3, <3>4 DEF FaultsTypeOK, ChangeType, FaultStatuses
  <2>5. faultRows' = [faultRows EXCEPT ![i] = [@ EXCEPT !.status = "recovered"]]
    <3>1. faultRows' = [j \in DOMAIN faultRows |->
             IF j = i THEN [faultRows[j] EXCEPT !.status = "recovered"] ELSE faultRows[j]]
      BY <2>3 DEF Recover
    <3> QED  BY <3>1 DEF FaultsTypeOK
  <2> QED  BY <2>2, <2>4, <2>5 DEF RowRecovered
<1> QED  BY <1>1, <1>2

LEMMA ReportEffect ==
  ASSUME FaultsTypeOK, NEW k \in FaultKeys, Report(k)
  PROVE  Quiet \/ (\E i \in Nat : RowRefreshed(i)) \/ RowCreated(k)
<1>1. CASE Refreshed(k)
  <2>1. PICK i \in ActiveIds(k) :
          /\ faultRows' = faultRows
          /\ changes' = changes \/ changes' = Append(changes, Snapshot(i, "active"))
    BY <1>1 DEF Refreshed
  <2>2. i \in Nat /\ i \in DOMAIN faultRows /\ faultRows[i].status = "active"
    BY <2>1 DEF ActiveIds, FaultsTypeOK
  <2> QED  BY <2>1, <2>2 DEF RowRefreshed, Quiet
<1>2. CASE Created(k)
  <2>1. Len(faultRows') = Len(faultRows) + 1
    BY <1>2 DEF Created, CreatedAlways, FaultsTypeOK
  <2> QED  BY <1>2, <2>1 DEF Created, CreatedAlways, RowCreated
<1> QED  BY <1>1, <1>2 DEF Report

LEMMA StoreEffect ==
  ASSUME FaultsTypeOK, OneOpenFault, NEW k \in FaultKeys, NEW seen, Store(k, seen)
  PROVE  LogStep
  BY RecoverEffect, ReportEffect DEF Store, LogStep

LEMMA StepEffect ==
  ASSUME FaultsTypeOK, OneOpenFault, [FaultsNext]_stationVars
  PROVE  \/ LogStep /\ UNCHANGED raced
         \/ BackfillAppends
<1>1. ASSUME NEW k \in FaultKeys, Breaks(k) \/ Mends(k) \/ CheckCamera(k)
      PROVE  LogStep /\ UNCHANGED raced
  BY <1>1 DEF Breaks, Mends, CheckCamera, LogStep, Quiet, faultVars, feedVars
<1>2. ASSUME NEW k \in Watched, WatchdogLooks(k)
      PROVE  LogStep /\ UNCHANGED raced
  BY <1>2 DEF WatchdogLooks, LogStep, Quiet, faultVars, feedVars
<1>3. ASSUME NEW k \in Watched, WatchdogSyncs(k)
      PROVE  LogStep /\ UNCHANGED raced
  BY <1>3, StoreEffect, FaultsAssumption DEF WatchdogSyncs, feedVars
<1>4. ASSUME NEW k \in FaultKeys, NEW seen \in {"ok", "bad"}, CheckStored(k, seen)
      PROVE  LogStep /\ UNCHANGED raced
  BY <1>4, StoreEffect DEF CheckStored, feedVars
<1>5. CASE BackfillStarts \/ BackfillChecks \/ OccReads
  BY <1>5 DEF BackfillStarts, BackfillChecks, OccReads, LogStep, Quiet, faultVars, feedVars
<1>6. ASSUME NEW t \in Pages, (\E v \in 1..MaxVersion : ApplyChecks(t, v)) \/ ApplyCommits(t)
                              \/ FormLoads(t) \/ (\E code \in StationCodes : FormSaves(t, code))
      PROVE  LogStep /\ UNCHANGED raced
  BY <1>6 DEF ApplyChecks, ApplyCommits, FormLoads, FormSaves, LogStep, Quiet, faultVars, feedVars
<1>7. CASE UNCHANGED stationVars
  BY <1>7 DEF stationVars, LogStep, Quiet, faultVars, feedVars
<1> QED  BY <1>1, <1>2, <1>3, <1>4, <1>5, <1>6, <1>7 DEF FaultsNext

-----------------------------------------------------------------------------
(* The parts of the invariant, one by one.                                 *)

LEMMA AppendFacts ==
  ASSUME FaultsTypeOK, NEW i \in Nat, NEW st \in FaultStatuses,
         changes' = Append(changes, Snapshot(i, st))
  PROVE  /\ changes' \in Seq(ChangeType)
         /\ Len(changes') = Len(changes) + 1
         /\ changes'[Len(changes) + 1].row = i
         /\ changes'[Len(changes) + 1].status = st
         /\ \A n \in 1..Len(changes) : changes'[n] = changes[n]
<1>1. Snapshot(i, st) \in ChangeType /\ Snapshot(i, st).row = i /\ Snapshot(i, st).status = st
  BY DEF Snapshot, ChangeType
<1>2. changes \in Seq(ChangeType)
  BY DEF FaultsTypeOK, ChangeType, FaultStatuses
<1> QED  BY <1>1, <1>2

(* A snapshot of a row's new status keeps what the feed says of the rows.  *)
LEMMA FeedGrows ==
  ASSUME FaultsInv, NEW i \in Nat, NEW st \in FaultStatuses,
         changes' = Append(changes, Snapshot(i, st)),
         i \in DOMAIN faultRows',
         DOMAIN faultRows \subseteq DOMAIN faultRows',
         \A j \in DOMAIN faultRows : j # i => faultRows'[j] = faultRows[j],
         i \in DOMAIN faultRows /\ faultRows[i].status = "recovered"
           => faultRows'[i].status = "recovered",
         raced \subseteq raced',
         i \notin raced' => faultRows'[i].status = st
  PROVE  FeedRows' /\ LastIsCurrent' /\ RecoveredIsRecovered' /\ RecoveryIsFinal'
<1> DEFINE last == Len(changes) + 1
<1>1. /\ Len(changes) \in Nat
      /\ DOMAIN changes = 1..Len(changes)
      /\ DOMAIN changes' = 1..last
      /\ Len(changes') = last
      /\ changes'[last].row = i
      /\ changes'[last].status = st
      /\ \A n \in 1..Len(changes) : changes'[n] = changes[n]
  BY AppendFacts DEF FaultsInv, FaultsTypeOK
<1>2. \A n \in DOMAIN changes' : n # last => n \in 1..Len(changes) /\ changes'[n] = changes[n]
  BY <1>1
<1>3. \A n \in DOMAIN changes : changes[n].row \in DOMAIN faultRows
  BY DEF FaultsInv, FeedRows
<1>4. FeedRows'
  BY <1>1, <1>2, <1>3 DEF FeedRows
<1>5. LastIsCurrent'
  <2> SUFFICES ASSUME NEW n \in DOMAIN changes', IsLast(changes', n), changes'[n].row \notin raced'
               PROVE  changes'[n].status = faultRows'[changes'[n].row].status
    BY DEF LastIsCurrent
  <2>1. CASE n = last
    BY <2>1, <1>1
  <2>2. CASE n # last
    <3>1. n \in 1..Len(changes) /\ changes'[n] = changes[n]
      BY <2>2, <1>2
    <3>2. last \in (n + 1)..Len(changes')
      BY <3>1, <1>1
    <3>3. changes[n].row # i
      BY <3>1, <3>2, <1>1 DEF IsLast
    <3>4. IsLast(changes, n)
      BY <3>1, <1>1 DEF IsLast
    <3> QED  BY <3>1, <3>3, <3>4, <1>1, <1>3 DEF FaultsInv, LastIsCurrent
  <2> QED  BY <2>1, <2>2
<1>6. RecoveredIsRecovered'
  BY <1>1, <1>2, <1>3 DEF FaultsInv, RecoveredIsRecovered
<1>7. RecoveryIsFinal'
  <2> SUFFICES ASSUME NEW n \in DOMAIN changes', NEW m \in DOMAIN changes', n < m,
                      changes'[n].row = changes'[m].row, changes'[n].row \notin raced',
                      changes'[n].status = "recovered"
               PROVE  changes'[m].status = "recovered"
    BY DEF RecoveryIsFinal
  <2>1. n \in 1..Len(changes) /\ changes'[n] = changes[n]
    BY <1>1, <1>2
  <2>2. CASE m = last
    <3>1. faultRows[i].status = "recovered" /\ i \in DOMAIN faultRows
      BY <2>1, <2>2, <1>1, <1>3 DEF FaultsInv, RecoveredIsRecovered
    <3> QED  BY <3>1, <2>1, <2>2, <1>1
  <2>3. CASE m # last
    BY <2>1, <2>3, <1>1, <1>2 DEF FaultsInv, RecoveryIsFinal
  <2> QED  BY <2>2, <2>3
<1> QED  BY <1>4, <1>5, <1>6, <1>7

(* The log after a step: longer at most, and as sound as before.           *)
LogKept ==
  /\ faultRows' \in Seq(RowType)
  /\ changes' \in Seq(ChangeType)
  /\ Len(faultRows) <= Len(faultRows')
  /\ Len(changes) <= Len(changes')
  /\ \A n \in 1..Len(changes) : changes'[n] = changes[n]
  /\ OneOpenFault'
  /\ FeedRows' /\ LastIsCurrent' /\ RecoveredIsRecovered' /\ RecoveryIsFinal'

(* A step on the log keeps it sound.                                       *)
LEMMA LogKeeps ==
  ASSUME FaultsInv, LogStep, UNCHANGED raced
  PROVE  LogKept
<1> USE DEF FaultStatuses, LogKept
<1>1. /\ faultRows \in Seq(RowType)
      /\ changes \in Seq(ChangeType)
      /\ Len(faultRows) \in Nat /\ Len(changes) \in Nat
      /\ DOMAIN faultRows = 1..Len(faultRows)
  BY DEF FaultsInv, FaultsTypeOK, ChangeType
<1>2. CASE Quiet
  BY <1>1, <1>2 DEF Quiet, FaultsInv, OneOpenFault, FeedRows, LastIsCurrent,
     RecoveredIsRecovered, RecoveryIsFinal, IsLast
<1>3. ASSUME NEW i \in Nat, RowRefreshed(i)
      PROVE  LogKept
  <2>1. OneOpenFault' /\ faultRows' = faultRows
    BY <1>3 DEF RowRefreshed, FaultsInv, OneOpenFault
  <2>2. FeedRows' /\ LastIsCurrent' /\ RecoveredIsRecovered' /\ RecoveryIsFinal'
    BY <1>3, FeedGrows DEF RowRefreshed
  <2> QED  BY <1>1, <1>3, <2>1, <2>2, AppendFacts DEF RowRefreshed, FaultsInv
<1>4. ASSUME NEW k \in FaultKeys, RowCreated(k)
      PROVE  LogKept
  <2> DEFINE i == Len(faultRows) + 1
             row == [key |-> k, station |-> stationCode, status |-> "active"]
  <2>1. row \in RowType
    BY DEF FaultsInv, FaultsTypeOK, RowType
  <2>2. /\ faultRows' = Append(faultRows, row)
        /\ changes' = Append(changes, Snapshot(i, "active"))
        /\ ActiveIds(k) = {}
    BY <1>4 DEF RowCreated
  <2> HIDE DEF row
  <2>3. /\ faultRows' \in Seq(RowType)
        /\ Len(faultRows') = i
        /\ DOMAIN faultRows' = 1..i
        /\ faultRows'[i] = row
        /\ \A j \in 1..Len(faultRows) : faultRows'[j] = faultRows[j]
    BY <1>1, <2>1, <2>2
  <2>4. \A j \in DOMAIN faultRows : faultRows[j] # row
    <3> SUFFICES ASSUME NEW j \in DOMAIN faultRows, faultRows[j] = row  PROVE  FALSE
      OBVIOUS
    <3>1. j \in ActiveIds(k)
      BY DEF ActiveIds, row
    <3> QED  BY <3>1, <2>2
  <2>5. OneOpenFault'
    <3> SUFFICES ASSUME NEW j \in DOMAIN faultRows', NEW m \in DOMAIN faultRows',
                        faultRows'[j] = faultRows'[m], faultRows'[j].status = "active"
                 PROVE  j = m
      BY DEF OneOpenFault
    <3>1. CASE j = i /\ m = i
      BY <3>1
    <3>2. CASE j # i /\ m # i
      BY <3>2, <1>1, <2>3 DEF FaultsInv, OneOpenFault
    <3>3. CASE j = i /\ m # i
      BY <3>3, <1>1, <2>3, <2>4
    <3>4. CASE j # i /\ m = i
      BY <3>4, <1>1, <2>3, <2>4
    <3> QED  BY <3>1, <3>2, <3>3, <3>4
  <2>6. row.status = "active"
    BY DEF row
  <2>7. FeedRows' /\ LastIsCurrent' /\ RecoveredIsRecovered' /\ RecoveryIsFinal'
    <3>1. i \in Nat /\ i \in DOMAIN faultRows' /\ i \notin DOMAIN faultRows
      BY <1>1, <2>3
    <3>2. DOMAIN faultRows \subseteq DOMAIN faultRows'
      BY <1>1, <2>3
    <3> QED  BY <3>1, <3>2, <1>1, <2>2, <2>3, <2>6, FeedGrows
  <2>8. /\ changes' \in Seq(ChangeType)
        /\ Len(changes') = Len(changes) + 1
        /\ \A n \in 1..Len(changes) : changes'[n] = changes[n]
    BY <1>1, <2>2, AppendFacts DEF FaultsInv
  <2> QED  BY <1>1, <2>3, <2>5, <2>7, <2>8
<1>5. ASSUME NEW i \in Nat, RowRecovered(i)
      PROVE  LogKept
  <2> DEFINE row == [faultRows[i] EXCEPT !.status = "recovered"]
  <2>1. i \in 1..Len(faultRows) /\ faultRows[i] \in RowType
    BY <1>1, <1>5 DEF RowRecovered
  <2>2. row \in RowType /\ row.status = "recovered"
    BY <2>1 DEF RowType
  <2> HIDE DEF row
  <2>3. faultRows' = [faultRows EXCEPT ![i] = row]
    BY <1>5 DEF RowRecovered, row
  <2>4. /\ faultRows' \in Seq(RowType)
        /\ Len(faultRows') = Len(faultRows)
        /\ DOMAIN faultRows' = DOMAIN faultRows
        /\ faultRows'[i] = row
        /\ \A j \in DOMAIN faultRows : j # i => faultRows'[j] = faultRows[j]
    BY <1>1, <2>1, <2>2, <2>3
  <2>5. OneOpenFault'
    BY <2>2, <2>4 DEF FaultsInv, OneOpenFault
  <2>6. FeedRows' /\ LastIsCurrent' /\ RecoveredIsRecovered' /\ RecoveryIsFinal'
    BY <1>1, <1>5, <2>1, <2>2, <2>4, FeedGrows DEF RowRecovered
  <2>7. /\ changes' \in Seq(ChangeType)
        /\ Len(changes') = Len(changes) + 1
        /\ \A n \in 1..Len(changes) : changes'[n] = changes[n]
    BY <1>1, <1>5, AppendFacts DEF RowRecovered, FaultsInv
  <2> QED  BY <1>1, <2>4, <2>5, <2>6, <2>7
<1> QED  BY <1>2, <1>3, <1>4, <1>5 DEF LogStep

LEMMA BackfillKeeps ==
  ASSUME FaultsInv, BackfillAppends
  PROVE  LogKept /\ raced' \subseteq Nat
<1> USE DEF FaultStatuses
<1> DEFINE i == backfill.at
           st == backfill.copies[i].status
<1>1. /\ faultRows \in Seq(RowType) /\ Len(faultRows) \in Nat
      /\ DOMAIN faultRows = 1..Len(faultRows)
      /\ backfill.copies \in Seq(RowType) /\ Len(backfill.copies) \in Nat
      /\ changes \in Seq(ChangeType) /\ Len(changes) \in Nat
      /\ raced \subseteq Nat
  BY DEF FaultsInv, FaultsTypeOK, ChangeType
<1>2. i \in Nat /\ i \in DOMAIN faultRows /\ i \in DOMAIN backfill.copies
  BY <1>1 DEF FaultsInv, CommandHolds, BackfillAppends
<1>3. st \in FaultStatuses
  <2>1. backfill.copies[i] \in RowType
    BY <1>1, <1>2
  <2> QED  BY <2>1 DEF RowType
<1>4. /\ changes' = Append(changes, Snapshot(i, st))
      /\ raced' = IF faultRows[i] = backfill.copies[i] THEN raced ELSE raced \union {i}
      /\ faultRows' = faultRows
  BY DEF BackfillAppends
<1>5. raced \subseteq raced' /\ raced' \subseteq Nat /\ (i \notin raced' => faultRows'[i].status = st)
  BY <1>1, <1>2, <1>4
<1> HIDE DEF i, st
<1>6. FeedRows' /\ LastIsCurrent' /\ RecoveredIsRecovered' /\ RecoveryIsFinal'
  BY <1>2, <1>3, <1>4, <1>5, FeedGrows
<1>7. OneOpenFault'
  BY <1>4 DEF FaultsInv, OneOpenFault
<1>8. /\ changes' \in Seq(ChangeType)
      /\ Len(changes') = Len(changes) + 1
      /\ \A n \in 1..Len(changes) : changes'[n] = changes[n]
  BY <1>2, <1>3, <1>4, AppendFacts DEF FaultsInv
<1> QED  BY <1>1, <1>4, <1>5, <1>6, <1>7, <1>8 DEF LogKept

LEMMA LogStaysSound ==
  ASSUME FaultsInv, [FaultsNext]_stationVars
  PROVE  LogKept
  BY StepEffect, LogKeeps, BackfillKeeps DEF FaultsInv

-----------------------------------------------------------------------------
(* What OCC knows.                                                         *)

(* New changes are behind what OCC has read.                               *)
LEMMA MirrorStays ==
  ASSUME FaultsInv, LogKept, UNCHANGED <<sinceId, mirror>>
  PROVE  sinceId' \in 0..Len(changes') /\ MirrorIsRead'
<1>1. /\ sinceId \in Nat /\ sinceId <= Len(changes) /\ Len(changes) <= Len(changes')
      /\ Len(changes) \in Nat /\ Len(changes') \in Nat
      /\ \A n \in 1..sinceId : changes'[n] = changes[n]
  BY DEF FaultsInv, FaultsTypeOK, LogKept
<1>2. ASSUME NEW i \in Nat
      PROVE  OpenIn(changes', sinceId, i) <=> OpenIn(changes, sinceId, i)
  BY <1>1 DEF OpenIn
<1> QED  BY <1>1, <1>2 DEF MirrorIsRead, FaultsInv

LEMMA PageFacts ==
  ASSUME FaultsInv, FeedPage(sinceId) # <<>>
  PROVE  /\ Len(FeedPage(sinceId)) \in Nat \ {0}
         /\ sinceId + Len(FeedPage(sinceId)) <= Len(changes)
         /\ DOMAIN FeedPage(sinceId) = 1..Len(FeedPage(sinceId))
         /\ \A n \in DOMAIN FeedPage(sinceId) : FeedPage(sinceId)[n] = changes[sinceId + n]
<1> DEFINE top == IF sinceId + FeedLimit < Len(changes) THEN sinceId + FeedLimit ELSE Len(changes)
<1>1. /\ changes \in Seq(ChangeType) /\ Len(changes) \in Nat
      /\ sinceId \in Nat /\ sinceId <= Len(changes)
      /\ FeedLimit \in Nat \ {0}
  BY FaultsAssumption DEF FaultsInv, FaultsTypeOK, ChangeType, FaultStatuses
<1>2. top \in Nat /\ top <= Len(changes) /\ sinceId <= top
  BY <1>1
<1> HIDE DEF top
<1>3. \A n \in (sinceId + 1)..top : changes[n] \in ChangeType
  BY <1>1, <1>2
<1>4. FeedPage(sinceId) = SubSeq(changes, sinceId + 1, top)
  BY DEF FeedPage, top
<1>5. /\ FeedPage(sinceId) \in Seq(ChangeType)
      /\ Len(FeedPage(sinceId)) = IF sinceId + 1 <= top THEN top - (sinceId + 1) + 1 ELSE 0
      /\ \A n \in 1..(top - (sinceId + 1) + 1) :
           FeedPage(sinceId)[n] = changes[(sinceId + 1) + n - 1]
  BY <1>1, <1>2, <1>3, <1>4, SubSeqProperties
<1>6. Len(FeedPage(sinceId)) = top - sinceId
  BY <1>1, <1>2, <1>5
<1>7. Len(FeedPage(sinceId)) # 0
  BY <1>5
<1> QED  BY <1>1, <1>2, <1>5, <1>6, <1>7

LEMMA MirrorReads ==
  ASSUME FaultsInv, OccReads
  PROVE  sinceId' \in 0..Len(changes') /\ mirror' \subseteq Nat /\ MirrorIsRead'
<1> DEFINE feed == FeedPage(sinceId)
           top == sinceId + Len(feed)
<1>1. /\ sinceId \in Nat /\ changes \in Seq(ChangeType) /\ mirror \subseteq Nat
      /\ Len(changes) \in Nat /\ DOMAIN changes = 1..Len(changes)
  BY DEF FaultsInv, FaultsTypeOK, ChangeType, FaultStatuses
<1>2. /\ Len(feed) \in Nat /\ top <= Len(changes)
      /\ DOMAIN feed = 1..Len(feed)
      /\ \A n \in 1..Len(feed) : feed[n] = changes[sinceId + n]
  BY PageFacts DEF OccReads
<1>3. sinceId' = top /\ changes' = changes /\ mirror' = Mirrored(mirror, feed)
  BY DEF OccReads, faultVars
<1> HIDE DEF feed
<1>4. \A n \in 1..Len(feed) : feed[n].row \in Nat
  <2> SUFFICES ASSUME NEW n \in 1..Len(feed)  PROVE  feed[n].row \in Nat
    OBVIOUS
  <2>1. sinceId + n \in 1..Len(changes)
    BY <1>1, <1>2
  <2>2. changes[sinceId + n] \in ChangeType
    BY <1>1, <2>1
  <2> QED  BY <1>2, <2>2 DEF ChangeType
<1>5. ASSUME NEW i \in Nat, i \in mirror'
      PROVE  OpenIn(changes, top, i)
  <2>1. CASE i \in mirror /\ \A n \in DOMAIN feed : feed[n].row # i
    <3>1. PICK n \in 1..sinceId : /\ changes[n].row = i /\ changes[n].status = "active"
                                  /\ \A m \in (n + 1)..sinceId : changes[m].row # i
      BY <2>1 DEF FaultsInv, MirrorIsRead, OpenIn
    <3>2. ASSUME NEW m \in (n + 1)..top  PROVE  changes[m].row # i
      <4>1. CASE m <= sinceId
        BY <3>1, <4>1, <1>1, <1>2
      <4>2. CASE m > sinceId
        <5>1. m - sinceId \in 1..Len(feed) /\ sinceId + (m - sinceId) = m
          BY <1>1, <1>2, <4>2
        <5> QED  BY <5>1, <1>2, <2>1
      <4> QED  BY <4>1, <4>2, <1>1, <1>2
    <3>3. n \in 1..top
      BY <1>1, <1>2
    <3> QED  BY <3>1, <3>2, <3>3 DEF OpenIn
  <2>2. CASE \E n \in DOMAIN feed : /\ feed[n].status = "active" /\ IsLast(feed, n)
                                    /\ feed[n].row = i
    <3>1. PICK n \in 1..Len(feed) : /\ feed[n].status = "active" /\ IsLast(feed, n)
                                    /\ feed[n].row = i
      BY <2>2, <1>2
    <3>2. sinceId + n \in 1..top /\ changes[sinceId + n] = feed[n]
      BY <1>1, <1>2
    <3>3. ASSUME NEW m \in ((sinceId + n) + 1)..top  PROVE  changes[m].row # i
      <4>1. m - sinceId \in (n + 1)..Len(feed) /\ m - sinceId \in 1..Len(feed)
            /\ sinceId + (m - sinceId) = m
        BY <1>1, <1>2
      <4> QED  BY <4>1, <3>1, <1>2 DEF IsLast
    <3> QED  BY <3>1, <3>2, <3>3 DEF OpenIn
  <2> QED  BY <1>3, <1>5, <2>1, <2>2 DEF Mirrored
<1>6. ASSUME NEW i \in Nat, OpenIn(changes, top, i)
      PROVE  i \in mirror'
  <2>1. PICK n \in 1..top : /\ changes[n].row = i /\ changes[n].status = "active"
                            /\ \A m \in (n + 1)..top : changes[m].row # i
    BY <1>6 DEF OpenIn
  <2>2. CASE n <= sinceId
    <3>1. OpenIn(changes, sinceId, i)
      BY <2>1, <2>2, <1>1, <1>2 DEF OpenIn
    <3>2. i \in mirror
      BY <3>1 DEF FaultsInv, MirrorIsRead
    <3>3. ASSUME NEW m \in 1..Len(feed)  PROVE  feed[m].row # i
      <4>1. sinceId + m \in (n + 1)..top
        BY <2>2, <1>1, <1>2
      <4> QED  BY <4>1, <2>1, <1>2
    <3> QED  BY <3>2, <3>3, <1>2, <1>3 DEF Mirrored
  <2>3. CASE n > sinceId
    <3>1. n - sinceId \in 1..Len(feed) /\ sinceId + (n - sinceId) = n
      BY <2>3, <1>1, <1>2
    <3>2. feed[n - sinceId] = changes[n]
      BY <3>1, <1>2
    <3>3. IsLast(feed, n - sinceId)
      <4> SUFFICES ASSUME NEW m \in ((n - sinceId) + 1)..Len(feed)
                   PROVE  feed[m].row # feed[n - sinceId].row
        BY DEF IsLast
      <4>1. sinceId + m \in (n + 1)..top /\ m \in 1..Len(feed)
        BY <3>1, <1>1, <1>2
      <4> QED  BY <4>1, <3>2, <2>1, <1>2
    <3> QED  BY <3>1, <3>2, <3>3, <2>1, <1>2, <1>3 DEF Mirrored
  <2> QED  BY <2>2, <2>3, <1>1, <1>2
<1>7. mirror' \subseteq Nat
  BY <1>1, <1>2, <1>3, <1>4 DEF Mirrored
<1> QED  BY <1>1, <1>2, <1>3, <1>5, <1>6, <1>7 DEF MirrorIsRead

-----------------------------------------------------------------------------
(* The other variables.                                                    *)

LEMMA StoreTypes ==
  ASSUME FaultsTypeOK, NEW k \in FaultKeys, NEW seen, Store(k, seen)
  PROVE  happenings' \in 0..MaxHappenings
<1>1. MaxHappenings \in Nat /\ happenings \in 0..MaxHappenings
  BY FaultsAssumption DEF FaultsTypeOK
<1>2. CASE Recover(k)
  BY <1>1, <1>2 DEF Recover
<1>3. CASE Created(k)
  BY <1>1, <1>3 DEF Created, CreatedAlways
<1>4. CASE Refreshed(k)
  BY <1>1, <1>4 DEF Refreshed
<1> QED  BY <1>2, <1>3, <1>4 DEF Store, Report

OtherTypes ==
  /\ faulty \subseteq FaultKeys
  /\ happenings \in 0..MaxHappenings
  /\ stationCode \in StationCodes
  /\ watchdog \in [Watched -> {"none", "ok", "bad"}]
  /\ results \subseteq FaultKeys \X {"ok", "bad"}
  /\ backfill \in [pc : {"off", "check", "append"}, at : Nat, copies : Seq(RowType)]
  /\ modelVersion \in 0..MaxVersion
  /\ localVersion \in Nat
  /\ page \in [Pages -> [pc : {"idle", "apply", "form"}, version : Nat]]
  /\ PagesHold

LEMMA OthersKeepTypes ==
  ASSUME FaultsInv, [FaultsNext]_stationVars
  PROVE  OtherTypes'
<1> USE DEF OtherTypes, PagesHold
<1>1. OtherTypes /\ faultRows \in Seq(RowType)
  BY DEF FaultsInv, FaultsTypeOK
<1>2. MaxHappenings \in Nat /\ MaxVersion \in Nat /\ Watched \subseteq FaultKeys
  BY FaultsAssumption
<1>3. ASSUME NEW k \in FaultKeys, Breaks(k) \/ Mends(k) \/ CheckCamera(k)
      PROVE  OtherTypes'
  BY <1>1, <1>2, <1>3 DEF Breaks, Mends, CheckCamera, Happens, Observed, watchVars, feedVars, configVars
<1>4. ASSUME NEW k \in Watched, WatchdogLooks(k) \/ WatchdogSyncs(k)
      PROVE  OtherTypes'
  <2>1. happenings' \in 0..MaxHappenings
    BY <1>1, <1>2, <1>4, StoreTypes DEF WatchdogLooks, WatchdogSyncs, FaultsInv
  <2> QED  BY <1>1, <1>4, <2>1 DEF WatchdogLooks, WatchdogSyncs, Observed, feedVars, configVars
<1>5. ASSUME NEW k \in FaultKeys, NEW seen \in {"ok", "bad"}, CheckStored(k, seen)
      PROVE  OtherTypes'
  <2>1. happenings' \in 0..MaxHappenings
    BY <1>5, StoreTypes DEF CheckStored, FaultsInv
  <2> QED  BY <1>1, <1>5, <2>1 DEF CheckStored, feedVars, configVars
<1>6. CASE BackfillStarts
  BY <1>1, <1>2, <1>6 DEF BackfillStarts, Happens, watchVars, configVars
<1>7. CASE BackfillChecks
  BY <1>1, <1>7 DEF BackfillChecks, NoCommand, watchVars, configVars
<1>8. CASE BackfillAppends
  <2>1. backfill' = [pc |-> "check", at |-> backfill.at + 1, copies |-> backfill.copies]
    BY <1>1, <1>8 DEF BackfillAppends
  <2>2. backfill' \in [pc : {"off", "check", "append"}, at : Nat, copies : Seq(RowType)]
    BY <1>1, <2>1
  <2> QED  BY <1>1, <1>8, <2>2 DEF BackfillAppends, watchVars, configVars
<1>9. CASE OccReads
  BY <1>1, <1>9 DEF OccReads, watchVars, feedVars, configVars
<1>10. ASSUME NEW t \in Pages, NEW v \in 1..MaxVersion, ApplyChecks(t, v)
       PROVE  OtherTypes'
  BY <1>1, <1>10 DEF ApplyChecks, watchVars, feedVars
<1>11. ASSUME NEW t \in Pages, FormLoads(t)
       PROVE  OtherTypes'
  BY <1>1, <1>11 DEF FormLoads, watchVars, feedVars
<1>12. ASSUME NEW t \in Pages, NEW code \in StationCodes, FormSaves(t, code)
       PROVE  OtherTypes'
  BY <1>1, <1>2, <1>12 DEF FormSaves, NoPage, Happens, watchVars, feedVars
<1>13. ASSUME NEW t \in Pages, ApplyCommits(t)
       PROVE  OtherTypes'
  <2>1. page[t].version \in 0..MaxVersion
    BY <1>1, <1>13 DEF ApplyCommits
  <2> QED  BY <1>1, <1>2, <1>13, <2>1 DEF ApplyCommits, NoPage, Happens, watchVars, feedVars
<1>14. CASE UNCHANGED stationVars
  BY <1>1, <1>14 DEF stationVars, watchVars, feedVars, configVars
<1> QED  BY <1>3, <1>4, <1>5, <1>6, <1>7, <1>8, <1>9, <1>10, <1>11, <1>12, <1>13, <1>14 DEF FaultsNext

LEMMA CommandKept ==
  ASSUME FaultsInv, [FaultsNext]_stationVars
  PROVE  CommandHolds'
<1>1. /\ CommandHolds
      /\ backfill \in [pc : {"off", "check", "append"}, at : Nat, copies : Seq(RowType)]
      /\ faultRows \in Seq(RowType) /\ Len(faultRows) \in Nat
  BY DEF FaultsInv, FaultsTypeOK
<1>2. /\ Len(backfill.copies) \in Nat /\ DOMAIN backfill.copies = 1..Len(backfill.copies)
      /\ backfill.at \in Nat
  BY <1>1
<1>3. Len(faultRows) <= Len(faultRows') /\ Len(faultRows') \in Nat
  BY LogStaysSound DEF LogKept
<1>4. CASE UNCHANGED backfill
  BY <1>1, <1>2, <1>3, <1>4 DEF CommandHolds
<1>5. CASE BackfillStarts
  BY <1>1, <1>5 DEF BackfillStarts, faultVars, CommandHolds
<1>6. CASE BackfillChecks
  <2>1. CASE backfill.at > Len(backfill.copies)
    BY <1>6, <2>1 DEF BackfillChecks, NoCommand, CommandHolds
  <2>2. CASE backfill.at <= Len(backfill.copies) /\ InFeed(backfill.at)
    <3>1. backfill' = [pc |-> "check", at |-> backfill.at + 1, copies |-> backfill.copies]
      BY <1>1, <1>2, <1>6, <2>2 DEF BackfillChecks
    <3> QED  BY <1>1, <1>2, <1>3, <1>6, <3>1 DEF BackfillChecks, CommandHolds
  <2>3. CASE backfill.at <= Len(backfill.copies) /\ ~InFeed(backfill.at)
    <3>1. backfill' = [pc |-> "append", at |-> backfill.at, copies |-> backfill.copies]
      BY <1>1, <1>2, <1>6, <2>3 DEF BackfillChecks
    <3>2. backfill.at >= 1
      BY <1>1, <1>6 DEF BackfillChecks, CommandHolds
    <3> QED  BY <1>1, <1>2, <1>3, <1>6, <2>3, <3>1, <3>2 DEF BackfillChecks, CommandHolds
  <2> QED  BY <1>2, <2>1, <2>2, <2>3
<1>7. CASE BackfillAppends
  <2>1. backfill' = [pc |-> "check", at |-> backfill.at + 1, copies |-> backfill.copies]
    BY <1>1, <1>7 DEF BackfillAppends
  <2> QED  BY <1>1, <1>2, <1>3, <1>7, <2>1 DEF BackfillAppends, CommandHolds
<1>8. \/ UNCHANGED backfill \/ BackfillStarts \/ BackfillChecks \/ BackfillAppends
  BY DEF FaultsNext, stationVars, feedVars, Breaks, Mends, CheckCamera, WatchdogLooks, WatchdogSyncs,
     CheckStored, OccReads, ApplyChecks, ApplyCommits, FormLoads, FormSaves
<1> QED  BY <1>4, <1>5, <1>6, <1>7, <1>8

LEMMA FaultsStep ==
  ASSUME FaultsInv, [FaultsNext]_stationVars
  PROVE  FaultsInv'
<1>1. LogKept
  BY LogStaysSound
<1>2. OtherTypes' /\ CommandHolds'
  BY OthersKeepTypes, CommandKept
<1>3. raced' \subseteq Nat
  BY StepEffect, BackfillKeeps DEF FaultsInv, FaultsTypeOK
<1>4. sinceId' \in 0..Len(changes') /\ mirror' \subseteq Nat /\ MirrorIsRead'
  <2>1. CASE OccReads
    BY <2>1, MirrorReads
  <2>2. CASE UNCHANGED <<sinceId, mirror>>
    BY <1>1, <2>2, MirrorStays DEF FaultsInv, FaultsTypeOK
  <2>3. OccReads \/ UNCHANGED <<sinceId, mirror>>
    BY DEF FaultsNext, stationVars, mirrorVars, Breaks, Mends, CheckCamera, WatchdogLooks,
       WatchdogSyncs, CheckStored, BackfillStarts, BackfillChecks, BackfillAppends,
       ApplyChecks, ApplyCommits, FormLoads, FormSaves
  <2> QED  BY <2>1, <2>2, <2>3
<1>5. FaultsTypeOK'
  BY <1>1, <1>2, <1>3, <1>4 DEF FaultsTypeOK, OtherTypes, LogKept, ChangeType, FaultStatuses
<1> QED  BY <1>1, <1>2, <1>4, <1>5 DEF FaultsInv, LogKept, OtherTypes

LEMMA FaultsStart ==
  ASSUME FaultsInit
  PROVE  FaultsInv
<1>1. PICK legacy \in Orders(LegacyFaults) :
        faultRows = [i \in DOMAIN legacy |->
          [key |-> legacy[i], station |-> HomeStation, status |-> "active"]]
  BY DEF FaultsInit
<1> DEFINE size == Cardinality(LegacyFaults)
<1>2. size \in Nat
  BY FaultsAssumption, FS_CardinalityType
<1> HIDE DEF size
<1>3. /\ legacy \in [1..size -> LegacyFaults]
      /\ DOMAIN legacy = 1..size
      /\ \A i, j \in 1..size : legacy[i] = legacy[j] => i = j
  BY <1>1 DEF Orders, size
<1>4. DOMAIN faultRows = 1..size /\ \A i \in 1..size : faultRows[i] \in RowType
  BY <1>1, <1>3, FaultsAssumption DEF RowType
<1>5. faultRows \in [1..size -> RowType]
  BY <1>1, <1>3, <1>4
<1>6. faultRows \in Seq(RowType)
  <2>1. faultRows \in UNION {[1..n -> RowType] : n \in Nat}
    BY <1>2, <1>5, Zenon
  <2> QED  BY <2>1, SeqDef, Zenon
<1>7. OneOpenFault
  BY <1>1, <1>3 DEF OneOpenFault
<1>8. FaultsTypeOK
  BY <1>6, FaultsAssumption DEF FaultsInit, FaultsTypeOK, NoCommand, NoPage
<1>9. /\ FeedRows /\ LastIsCurrent /\ RecoveredIsRecovered /\ RecoveryIsFinal
      /\ CommandHolds /\ PagesHold
  BY DEF FaultsInit, FeedRows, LastIsCurrent, RecoveredIsRecovered, RecoveryIsFinal,
     CommandHolds, PagesHold, NoCommand, NoPage
<1>10. MirrorIsRead
  BY DEF FaultsInit, MirrorIsRead, OpenIn
<1> QED  BY <1>7, <1>8, <1>9, <1>10 DEF FaultsInv

-----------------------------------------------------------------------------
LEMMA FaultsInvariant == FaultsSpec => []FaultsInv
  BY FaultsStart, FaultsStep, PTL DEF FaultsSpec

(* Every variable keeps its type, for any devices, pages and bounds.       *)
THEOREM FaultTypesCorrect == FaultsSpec => []FaultsTypeOK
<1>1. FaultsInv => FaultsTypeOK
  BY DEF FaultsInv
<1> QED  BY <1>1, FaultsInvariant, PTL

(* A device has at most one open fault of a kind under one station code,   *)
(* and in the feed a recovered fault is never active again, whatever       *)
(* watchdog, page checks and back-fill overlap (device_faults.py).         *)
THEOREM FaultsAlwaysSound == FaultsSpec => []FaultsAreSound
<1>1. FaultsInv => FaultsAreSound
  BY DEF FaultsInv, FaultsAreSound
<1> QED  BY <1>1, FaultsInvariant, PTL

(* Once OCC has read the feed to its end it knows the state of every row   *)
(* in it, whatever page size it reads with, unless the back-fill raced the *)
(* row (device_fault_changes).                                             *)
THEOREM MirrorAlwaysCurrent == FaultsSpec => []MirrorIsCurrent
<1>1. ASSUME FaultsInv  PROVE  MirrorIsCurrent
  <2> SUFFICES ASSUME sinceId = Len(changes), NEW i \in DOMAIN faultRows,
                      i \notin raced, InFeed(i)
               PROVE  i \in mirror <=> faultRows[i].status = "active"
    BY DEF MirrorIsCurrent
  <2> DEFINE about == {n \in 1..Len(changes) : changes[n].row = i}
  <2>1. /\ Len(changes) \in Nat /\ DOMAIN changes = 1..Len(changes) /\ i \in Nat
        /\ i \in mirror <=> OpenIn(changes, Len(changes), i)
    BY <1>1 DEF FaultsInv, FaultsTypeOK, MirrorIsRead
  <2>2. \E x \in about : \A y \in about : y <= x
    <3>1. about \in SUBSET Nat /\ about # {} /\ \A x \in about : x <= Len(changes)
      BY <2>1 DEF InFeed
    <3> HIDE DEF about
    <3> QED  BY <2>1, <3>1, LargestExists
  <2>3. PICK n \in 1..Len(changes) : /\ changes[n].row = i
                                     /\ \A y \in about : y <= n
    BY <2>2
  <2>4. \A m \in (n + 1)..Len(changes) : changes[m].row # i
    BY <2>1, <2>3
  <2>5. changes[n].status = faultRows[i].status
    BY <1>1, <2>1, <2>3, <2>4 DEF FaultsInv, LastIsCurrent, IsLast
  <2>6. ASSUME OpenIn(changes, Len(changes), i)  PROVE  faultRows[i].status = "active"
    <3>1. PICK m \in 1..Len(changes) : /\ changes[m].row = i /\ changes[m].status = "active"
                                       /\ \A l \in (m + 1)..Len(changes) : changes[l].row # i
      BY <2>6 DEF OpenIn
    <3>2. m = n
      BY <2>1, <2>3, <2>4, <3>1
    <3> QED  BY <2>5, <3>1, <3>2
  <2>7. ASSUME faultRows[i].status = "active"  PROVE  OpenIn(changes, Len(changes), i)
    BY <2>3, <2>4, <2>5, <2>7 DEF OpenIn
  <2> QED  BY <2>1, <2>6, <2>7
<1> QED  BY <1>1, FaultsInvariant, PTL

=============================================================================
