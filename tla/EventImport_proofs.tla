------------------------- MODULE EventImport_proofs -------------------------
(***************************************************************************)
(* Theorems about EventImport, for every value of its constants.           *)
(***************************************************************************)
EXTENDS EventImport, FiniteSetTheorems, TLAPS

-----------------------------------------------------------------------------
(* The host's list has a latest event.                                     *)

HasLatest == emitted = {} \/ \E e \in emitted : \A x \in emitted : x <= e

(* Latest finds it.                                                        *)
LEMMA LatestFacts ==
  ASSUME ConstantsAssumption, emitted \subseteq Events, HasLatest
  PROVE  /\ Latest(emitted) \in Nat
         /\ \A x \in emitted : x <= Latest(emitted)
  <1>1. CASE emitted = {}
    BY <1>1 DEF Latest
  <1>2. CASE emitted # {}
    <2>1. PICK e \in emitted : \A x \in emitted : x <= e
      BY <1>2 DEF HasLatest
    <2>2. Latest(emitted) \in emitted /\ \A x \in emitted : x <= Latest(emitted)
      BY <1>2, <2>1 DEF Latest
    <2> QED BY <2>2 DEF ConstantsAssumption
  <1> QED BY <1>1, <1>2

(* A catch-up begins at a natural number.                                  *)
LEMMA SinceFacts ==
  ASSUME ConstantsAssumption, TypeOK, NEW until \in Nat
  PROVE  /\ Since(until) \in Nat
         /\ cursor # 0 => \A e \in Nat : e + Slack >= cursor => e >= Since(until)
  <1>1. cursor \in Nat /\ Slack \in Nat /\ FirstWindow \in Nat
    BY DEF TypeOK, ConstantsAssumption
  <1> QED BY <1>1 DEF Since, Minus

-----------------------------------------------------------------------------
(* Type correctness.                                                       *)

TypeInv == TypeOK /\ HasLatest

(* The program starts well typed.                                          *)
LEMMA TypeInit == ASSUME ConstantsAssumption, Init PROVE TypeInv
  <1>1. status \in [Events -> RowStatuses \union {"none"}]
    BY DEF Init
  <1>2. job \in [Events -> {"none", "pending", "playing", "over"}]
    BY DEF Init
  <1>3. held \in [Operators -> Held]
    BY DEF Init, Held, NothingHeld
  <1>4. snapshot \in [Events -> RowStatuses \union {"idle", "queued"}]
    BY DEF Init
  <1>5. range \in CatchUpRange /\ rec \in Reconciler
    BY DEF Init, CatchUpRange, NoRange, Reconciler, NotReconciling
  <1>6. emitted \subseteq Events /\ HasLatest /\ inbox \in Seq(Events)
    BY DEF Init, HasLatest
  <1> QED BY <1>1, <1>2, <1>3, <1>4, <1>5, <1>6 DEF Init, TypeInv, TypeOK

(* An import keeps the types of the store, whoever makes it.               *)
LEMMA ImportType ==
  ASSUME TypeOK, NEW e \in Events, Import(e)
  PROVE  /\ status' \in [Events -> RowStatuses \union {"none"}]
         /\ job' \in [Events -> {"none", "pending", "playing", "over"}]
         /\ snapshot' \in [Events -> RowStatuses \union {"idle", "queued"}]
         /\ closed' = closed /\ local' = local
  <1>1. status' \in [Events -> RowStatuses \union {"none"}]
    BY DEF Import, TypeOK, RowStatuses, OpenStatuses
  <1>2. job' \in [Events -> {"none", "pending", "playing", "over"}]
    BY DEF Import, TypeOK
  <1>3. snapshot' \in [Events -> RowStatuses \union {"idle", "queued"}]
    BY DEF Import, TypeOK
  <1> QED BY <1>1, <1>2, <1>3 DEF Import

(* The host's step.                                                        *)
LEMMA EmitType ==
  ASSUME ConstantsAssumption, TypeInv, NEW e \in Events, Emit(e)
  PROVE  TypeInv'
  <1>1. emitted' \subseteq Events /\ inbox' \in Seq(Events)
    BY DEF Emit, TypeInv, TypeOK
  <1>2. HasLatest'
    <2>1. CASE emitted = {}
      <3>1. emitted' = {e} /\ e <= e
        BY <2>1 DEF Emit, ConstantsAssumption
      <3> QED BY <3>1 DEF HasLatest
    <2>2. CASE emitted # {}
      <3>1. PICK m \in emitted : \A x \in emitted : x <= m
        BY <2>2 DEF TypeInv, HasLatest
      <3>2. emitted' = emitted \union {e} /\ emitted' \subseteq Nat
        BY <1>1 DEF Emit, ConstantsAssumption
      <3>3. CASE e <= m
        BY <3>1, <3>2, <3>3 DEF HasLatest
      <3>4. CASE ~(e <= m)
        <4>1. \A x \in emitted' : x <= e
          BY <3>1, <3>2, <3>4
        <4> QED BY <4>1, <3>2 DEF HasLatest
      <3> QED BY <3>3, <3>4
    <2> QED BY <2>1, <2>2
  <1> QED BY <1>1, <1>2 DEF Emit, TypeInv, TypeOK, storeVars, cursorVars, otherVars, snapVars

(* The receiver's steps.                                                   *)
LEMMA ReceiverType ==
  ASSUME ConstantsAssumption, TypeInv, ReceiverStep \/ Disconnect
  PROVE  TypeInv'
  <1> USE DEF TypeInv, storeVars, cursorVars, otherVars, snapVars
  <1>1. CASE Connect
    BY <1>1 DEF Connect, TypeOK, HasLatest
  <1>2. CASE CatchUp
    <2>1. Latest(emitted) \in Nat
      BY LatestFacts DEF TypeOK
    <2>2. Since(Latest(emitted)) \in Nat
      BY <2>1, SinceFacts
    <2>3. range' \in CatchUpRange /\ asked' \in Nat
      BY <1>2, <2>1, <2>2 DEF CatchUp, CatchUpRange, TypeOK
    <2> QED BY <1>2, <2>3 DEF CatchUp, TypeOK, HasLatest
  <1>3. CASE FetchPage
    <2>1. batch' \subseteq emitted
      BY <1>3 DEF FetchPage
    <2>2. range.offset + Page \in Nat
      BY DEF TypeOK, CatchUpRange, ConstantsAssumption
    <2>3. range' = [range EXCEPT !.offset = range.offset + Page,
                                 !.more = (Cardinality(batch') = Page)]
      BY <1>3 DEF FetchPage, NextOffset
    <2>4. range' \in CatchUpRange
      <3>1. range \in CatchUpRange
        BY DEF TypeOK
      <3> QED BY <2>2, <2>3, <3>1 DEF CatchUpRange
    <2> QED BY <1>3, <2>1, <2>4 DEF FetchPage, TypeOK, HasLatest
  <1>4. CASE CaughtUp
    BY <1>4 DEF CaughtUp, TypeOK, HasLatest
  <1>5. CASE Receive
    <2>1. Head(inbox) \in Events /\ Tail(inbox) \in Seq(Events)
      BY <1>5 DEF Receive, TypeOK
    <2> QED BY <1>5, <2>1, ImportType DEF Receive, TypeOK, HasLatest
  <1>6. CASE Record
    BY <1>6 DEF Record, TypeOK, HasLatest
  <1>7. ASSUME NEW e \in Events, ImportFromPage(e)
        PROVE  TypeInv'
    BY <1>7, ImportType DEF ImportFromPage, TypeOK, HasLatest
  <1>8. CASE Disconnect
    <2>1. range' \in CatchUpRange /\ inbox' \in Seq(Events)
      BY <1>8 DEF Disconnect, LinkDown, NoRange, CatchUpRange
    <2> QED BY <1>8, <2>1 DEF Disconnect, LinkDown, TypeOK, HasLatest
  <1> QED BY <1>1, <1>2, <1>3, <1>4, <1>5, <1>6, <1>7, <1>8 DEF ReceiverStep

(* The poller's steps.                                                     *)
LEMMA PollerType ==
  ASSUME ConstantsAssumption, TypeInv, PollerStep \/ \E e \in Events : PollSkip(e)
  PROVE  TypeInv'
  <1> USE DEF TypeInv, storeVars, cursorVars, receiverVars, snapVars
  <1>1. CASE PollFetch
    BY <1>1 DEF PollFetch, Poll, Newest, TypeOK, HasLatest
  <1>2. ASSUME NEW e \in Events, PollImport(e)
        PROVE  TypeInv'
    BY <1>2, ImportType DEF PollImport, TypeOK, HasLatest
  <1>3. ASSUME NEW e \in Events, PollSkip(e)
        PROVE  TypeInv'
    BY <1>3 DEF PollSkip, TypeOK, HasLatest
  <1> QED BY <1>1, <1>2, <1>3 DEF PollerStep

(* The operators' steps.                                                   *)
LEMMA OperatorType ==
  ASSUME TypeInv, NEW o \in Operators, OperatorStep(o)
  PROVE  TypeInv'
  <1> USE DEF TypeInv, storeVars, cursorVars, receiverVars, snapVars
  <1>1. ASSUME NEW act \in {"confirm", "close", "close_all"}, NEW E \in SUBSET Events,
               Hold(o, act, E)
        PROVE  TypeInv'
    <2>1. held' \in [Operators -> Held]
      BY <1>1 DEF Hold, TypeOK, Held
    <2> QED BY <1>1, <2>1 DEF Hold, TypeOK, HasLatest
  <1>2. CASE OperatorSave(o)
    <2>1. status' \in [Events -> RowStatuses \union {"none"}]
      BY <1>2 DEF OperatorSave, SavedStatus, TypeOK, RowStatuses, OpenStatuses
    <2>2. job' \in [Events -> {"none", "pending", "playing", "over"}]
      BY <1>2 DEF OperatorSave, TypeOK
    <2>3. held[o].events \subseteq Events
      BY DEF TypeOK, Held
    <2>4. held' \in [Operators -> Held] /\ closed' \subseteq Events
      BY <1>2, <2>3 DEF OperatorSave, NothingHeld, TypeOK, Held
    <2> QED BY <1>2, <2>1, <2>2, <2>4 DEF OperatorSave, TypeOK, HasLatest
  <1> QED BY <1>1, <1>2 DEF OperatorStep, ConfirmRead, CloseRead, CloseAllRead

(* Only a stored event has a download: the worker finds a row to read.      *)
Downloads == \A e \in Events : snapshot[e] # "idle" => Stored(e)

(* The snapshot worker's steps.                                            *)
LEMMA SnapshotType ==
  ASSUME TypeInv, Downloads, NEW e \in Events, SnapshotStep(e)
  PROVE  TypeInv'
  <1> USE DEF TypeInv, storeVars, cursorVars, receiverVars, otherVars
  <1>1. CASE SnapshotRead(e)
    <2>1. status[e] \in RowStatuses
      BY <1>1 DEF SnapshotRead, Downloads, Stored, TypeOK
    <2> QED BY <1>1, <2>1 DEF SnapshotRead, TypeOK, HasLatest
  <1>2. CASE SnapshotSave(e)
    BY <1>2 DEF SnapshotSave, TypeOK, HasLatest
  <1>3. CASE SnapshotFails(e)
    BY <1>3 DEF SnapshotFails, TypeOK, HasLatest
  <1> QED BY <1>1, <1>2, <1>3 DEF SnapshotStep

(* The steps of the reconciliation, of the player, and a crash.            *)
LEMMA OtherType ==
  ASSUME TypeInv, ReconcileStep \/ (\E e \in Events : JobStep(e)) \/ Crash
  PROVE  TypeInv'
  <1> USE DEF TypeInv, storeVars, cursorVars, receiverVars, otherVars, snapVars
  <1>1. CASE ReconcileRead
    <2>1. rec' \in Reconciler
      BY <1>1 DEF ReconcileRead, Reconciler, Open, OpenStatuses
    <2> QED BY <1>1, <2>1 DEF ReconcileRead, TypeOK, HasLatest
  <1>2. CASE ReconcileCheck
    <2>1. rec' \in Reconciler
      BY <1>2 DEF ReconcileCheck, Reconciler, NotReconciling, TypeOK
    <2> QED BY <1>2, <2>1 DEF ReconcileCheck, TypeOK, HasLatest
  <1>3. CASE ReconcileCreate
    <2>1. rec' \in Reconciler
      BY <1>3 DEF ReconcileCreate, Reconciler, NotReconciling
    <2>2. job' \in [Events -> {"none", "pending", "playing", "over"}]
      BY <1>3 DEF ReconcileCreate, TypeOK
    <2> QED BY <1>3, <2>1, <2>2 DEF ReconcileCreate, TypeOK, HasLatest
  <1>4. ASSUME NEW e \in Events, JobStep(e)
        PROVE  TypeInv'
    <2>1. job' \in [Events -> {"none", "pending", "playing", "over"}]
      BY <1>4 DEF JobStep, TypeOK
    <2> QED BY <1>4, <2>1 DEF JobStep, TypeOK, HasLatest
  <1>5. CASE Crash
    <2>1. range' \in CatchUpRange /\ inbox' \in Seq(Events) /\ held' \in [Operators -> Held]
      BY <1>5 DEF Crash, LinkDown, NoRange, CatchUpRange, NothingHeld, Held
    <2>2. snapshot' \in [Events -> RowStatuses \union {"idle", "queued"}]
      BY <1>5 DEF Crash
    <2> QED BY <1>5, <2>1, <2>2 DEF Crash, LinkDown, TypeOK, HasLatest
  <1> QED BY <1>1, <1>2, <1>3, <1>4, <1>5 DEF ReconcileStep

-----------------------------------------------------------------------------
(* What the steps do to the store.                                         *)

(* An import stores its event and takes no other one away.                 *)
LEMMA ImportStores ==
  ASSUME TypeOK, NEW e \in Events, Import(e)
  PROVE  /\ Stored(e)'
         /\ \A x \in Events : Stored(x) => Stored(x)'
         /\ \A x \in Events : snapshot[x] = "idle" /\ x # e => snapshot'[x] = "idle"
  BY DEF Import, Stored, TypeOK

(* Each step leaves the rows and the downloads alone, imports an event, or *)
(* is an operator's or a worker's.                                         *)
StoreKept == UNCHANGED <<status, snapshot>>

Imports(e) ==
  Import(e) /\ (PollImport(e) \/ ImportFromPage(e) \/ (Receive /\ e = Head(inbox)))

LEMMA StoreChanges ==
  ASSUME TypeOK, [Next]_vars
  PROVE  \/ StoreKept
         \/ \E e \in Events : Imports(e)
         \/ \E o \in Operators : OperatorSave(o)
         \/ \E e \in Events : SnapshotStep(e)
         \/ Crash
  <1> USE DEF StoreKept, Imports, storeVars, snapVars
  <1>1. CASE ReceiverStep
    <2>1. CASE Receive
      <3>1. Head(inbox) \in Events
        BY <2>1 DEF Receive, TypeOK
      <3> QED BY <2>1, <3>1 DEF Receive
    <2>2. ASSUME NEW e \in Events, ImportFromPage(e)
          PROVE  Imports(e)
      BY <2>2 DEF ImportFromPage
    <2>3. CASE Connect \/ CatchUp \/ FetchPage \/ CaughtUp \/ Record
      BY <2>3 DEF Connect, CatchUp, FetchPage, CaughtUp, Record
    <2> QED BY <1>1, <2>1, <2>2, <2>3 DEF ReceiverStep
  <1>2. CASE PollerStep
    <2>1. ASSUME NEW e \in Events, PollImport(e)
          PROVE  Imports(e)
      BY <2>1 DEF PollImport
    <2> QED BY <1>2, <2>1 DEF PollerStep, PollFetch
  <1>3. CASE ReconcileStep
    BY <1>3 DEF ReconcileStep, ReconcileRead, ReconcileCheck, ReconcileCreate
  <1>4. ASSUME NEW o \in Operators, OperatorStep(o)
        PROVE  StoreKept \/ OperatorSave(o)
    BY <1>4 DEF OperatorStep, ConfirmRead, CloseRead, CloseAllRead, Hold
  <1>5. ASSUME NEW e \in Events, Emit(e) \/ PollSkip(e) \/ JobStep(e)
        PROVE  StoreKept
    BY <1>5 DEF Emit, PollSkip, JobStep
  <1>6. CASE Disconnect
    BY <1>6 DEF Disconnect
  <1>7. CASE UNCHANGED vars
    BY <1>7 DEF vars
  <1> QED BY <1>1, <1>2, <1>3, <1>4, <1>5, <1>6, <1>7 DEF Next

(* A stored event stays stored.                                            *)
LEMMA StoredStays ==
  ASSUME TypeOK, [Next]_vars, Downloads
  PROVE  \A x \in Events : Stored(x) => Stored(x)'
  <1>1. CASE StoreKept
    BY <1>1 DEF StoreKept, Stored
  <1>2. ASSUME NEW e \in Events, Imports(e)
        PROVE  \A x \in Events : Stored(x) => Stored(x)'
    BY <1>2, ImportStores DEF Imports
  <1>3. ASSUME NEW o \in Operators, OperatorSave(o)
        PROVE  \A x \in Events : Stored(x) => Stored(x)'
    BY <1>3 DEF OperatorSave, SavedStatus, Stored
  <1>4. ASSUME NEW e \in Events, SnapshotStep(e)
        PROVE  \A x \in Events : Stored(x) => Stored(x)'
    BY <1>4 DEF SnapshotStep, SnapshotRead, SnapshotSave, SnapshotFails, Stored, storeVars,
                TypeOK, RowStatuses, OpenStatuses
  <1>5. CASE Crash
    BY <1>5 DEF Crash, Stored, storeVars
  <1> QED BY <1>1, <1>2, <1>3, <1>4, <1>5, StoreChanges

(* Downloads stay with stored events.                                      *)
LEMMA DownloadsStep ==
  ASSUME TypeOK, [Next]_vars, Downloads
  PROVE  Downloads'
  <1>1. \A x \in Events : Stored(x) => Stored(x)'
    BY StoredStays
  <1>2. CASE StoreKept
    BY <1>2, <1>1 DEF StoreKept, Downloads
  <1>3. ASSUME NEW e \in Events, Imports(e)
        PROVE  Downloads'
    BY <1>3, <1>1, ImportStores DEF Imports, Downloads
  <1>4. ASSUME NEW o \in Operators, OperatorSave(o)
        PROVE  Downloads'
    BY <1>4, <1>1 DEF OperatorSave, snapVars, Downloads
  <1>5. ASSUME NEW e \in Events, SnapshotStep(e)
        PROVE  Downloads'
    <2>1. snapshot[e] # "idle"
      BY <1>5 DEF SnapshotStep, SnapshotRead, SnapshotSave, SnapshotFails, RowStatuses, OpenStatuses
    <2>2. \A x \in Events \ {e} : snapshot'[x] = snapshot[x]
      BY <1>5 DEF SnapshotStep, SnapshotRead, SnapshotSave, SnapshotFails, TypeOK
    <2> QED BY <1>1, <2>1, <2>2 DEF Downloads
  <1>6. CASE Crash
    BY <1>6 DEF Crash, Downloads
  <1> QED BY <1>2, <1>3, <1>4, <1>5, <1>6, StoreChanges

(* Every step keeps the types.                                             *)
LEMMA TypeStep ==
  ASSUME ConstantsAssumption, TypeInv, Downloads, [Next]_vars
  PROVE  TypeInv'
  <1>1. CASE UNCHANGED vars
    BY <1>1 DEF vars, storeVars, cursorVars, receiverVars, otherVars, snapVars, TypeInv, TypeOK, HasLatest
  <1> QED BY <1>1, EmitType, ReceiverType, PollerType, OperatorType, SnapshotType, OtherType DEF Next

(* Every variable keeps its type, for any host, operators and faults; in   *)
(* particular the worker that downloads a snapshot never writes a status   *)
(* that is none.                                                           *)
THEOREM TypeCorrect == Spec => []TypeOK
  <1>1. ConstantsAssumption
    BY ConstantsAssumption
  <1>2. Init => TypeInv /\ Downloads
    BY <1>1, TypeInit DEF Init, Downloads
  <1>3. TypeInv /\ Downloads /\ [Next]_vars => (TypeInv /\ Downloads)'
    BY <1>1, TypeStep, DownloadsStep DEF TypeInv
  <1>4. TypeInv => TypeOK
    BY DEF TypeInv
  <1> QED BY <1>2, <1>3, <1>4, PTL DEF Spec

-----------------------------------------------------------------------------
(* A catch-up leaves nothing out, if it fits in one page.                  *)

OnePage == Cardinality(Events) < Page

Missing(e) == e \in emitted /\ e >= asked /\ ~Stored(e)

InInbox(e) == \E i \in 1..Len(inbox) : inbox[i] = e

(* The page that was not asked for yet will hold the event.                *)
Fetchable(e) == range.more /\ range.since <= e /\ e <= range.until

(* What the receiver works with comes from the host's list.                *)
FromHost ==
  /\ cursor \in emitted \union {0}
  /\ taken \in emitted \union {0}
  /\ range.until \in emitted \union {0}
  /\ batch \subseteq emitted
  /\ \A i \in 1..Len(inbox) : inbox[i] \in emitted

(* One page: while it is imported, no other is to come.                    *)
Paging ==
  /\ taken # 0 => link \in {"catchup", "live"}
  /\ batch # {} => link = "catchup" /\ ~range.more
  /\ range.more => range.offset = 0
  /\ \A e \in batch : e <= range.until

(* A message overtakes another by at most Slack.                           *)
InboxOrder ==
  \A i, j \in 1..Len(inbox) : i < j => inbox[i] <= inbox[j] + Slack

(* Neither the cursor nor the event it moves to next leaves a missing      *)
(* event further behind than the next catch-up reaches.                    *)
CursorBehind ==
  \A e \in Events : Missing(e) => cursor <= e + Slack /\ taken <= e + Slack

(* While the receiver catches up it still has what is missing before it.   *)
CatchUpCovers ==
  link = "catchup" =>
    \A e \in Events : Missing(e) =>
      e \in batch \/ Fetchable(e) \/ (InInbox(e) /\ range.until <= e + Slack)

LiveCovers == link = "live" => \A e \in Events : Missing(e) => InInbox(e)

Covering == FromHost /\ Paging /\ InboxOrder /\ CursorBehind /\ CatchUpCovers /\ LiveCovers

(* At the start nothing is missing.                                        *)
LEMMA CoveringInit == ASSUME Init PROVE Covering
  BY DEF Init, NoRange, Covering, FromHost, Paging, InboxOrder, CursorBehind, CatchUpCovers,
         LiveCovers, Missing

(* Steps of others only store events.                                      *)
LEMMA CoveringKept ==
  ASSUME Covering, UNCHANGED <<emitted, receiverVars>>,
         \A x \in Events : Stored(x) => Stored(x)'
  PROVE  Covering'
  <1> USE DEF receiverVars, cursorVars
  <1>1. \A x \in Events : Missing(x)' => Missing(x)
    BY DEF Missing
  <1>2. FromHost' /\ Paging' /\ InboxOrder'
    BY DEF Covering, FromHost, Paging, InboxOrder
  <1>3. CursorBehind'
    BY <1>1 DEF Covering, CursorBehind
  <1>4. \A x : (Fetchable(x)' <=> Fetchable(x)) /\ (InInbox(x)' <=> InInbox(x))
    BY DEF Fetchable, InInbox
  <1>5. CatchUpCovers' /\ LiveCovers'
    BY <1>1, <1>4 DEF Covering, CatchUpCovers, LiveCovers
  <1> QED BY <1>2, <1>3, <1>5 DEF Covering

(* A new event is at most Slack behind any other, and a connected receiver *)
(* gets it.                                                                *)
LEMMA CoveringEmit ==
  ASSUME ConstantsAssumption, TypeInv, Covering, NEW e \in Events, Emit(e)
  PROVE  Covering'
  <1> USE DEF storeVars, cursorVars
  <1>1. e \in Nat /\ Slack \in Nat /\ emitted \subseteq Nat
    BY DEF ConstantsAssumption, TypeInv, TypeOK
  <1>2. emitted' = emitted \union {e} /\ UNCHANGED <<status, link, range, batch, taken, cursor, asked>>
    BY DEF Emit
  <1>3. \A x \in emitted \union {0} : x <= e + Slack
    BY <1>1 DEF Emit
  <1>4. \A x \in Events : Missing(x)' => x = e \/ Missing(x)
    BY <1>2 DEF Missing, Stored
  <1>5. inbox \in Seq(Nat) /\ inbox' \in Seq(Nat)
    BY <1>1 DEF Emit, TypeInv, TypeOK, ConstantsAssumption
  <1>6. \/ link = "down" /\ inbox' = inbox
        \/ link # "down" /\ inbox' = Append(inbox, e)
    BY DEF Emit
  <1>7. \A i \in 1..Len(inbox) : i \in 1..Len(inbox') /\ inbox'[i] = inbox[i]
    <2>1. CASE inbox' = inbox
      BY <2>1
    <2>2. CASE inbox' = Append(inbox, e)
      <3>1. Len(inbox') = Len(inbox) + 1 /\ Len(inbox) \in Nat
        BY <1>1, <1>5, <2>2
      <3>2. \A i \in 1..Len(inbox) : inbox'[i] = inbox[i]
        BY <1>1, <1>5, <2>2
      <3> QED BY <3>1, <3>2
    <2> QED BY <1>6, <2>1, <2>2
  <1>8. \A i \in 1..Len(inbox') : i \in 1..Len(inbox) \/ (inbox'[i] = e /\ i = Len(inbox) + 1)
    BY <1>5, <1>6, <1>1
  <1>9. link # "down" => Len(inbox) + 1 \in 1..Len(inbox') /\ inbox'[Len(inbox) + 1] = e
    BY <1>5, <1>6, <1>1
  <1>10. FromHost'
    BY <1>2, <1>7, <1>8 DEF Covering, FromHost
  <1>11. Paging'
    BY <1>2 DEF Covering, Paging
  <1>12. InboxOrder'
    <2> SUFFICES ASSUME NEW i \in 1..Len(inbox'), NEW j \in 1..Len(inbox'), i < j
                 PROVE  inbox'[i] <= inbox'[j] + Slack
      BY DEF InboxOrder
    <2>1. i \in 1..Len(inbox)
      BY <1>5, <1>8
    <2>2. CASE j \in 1..Len(inbox)
      BY <1>7, <2>1, <2>2 DEF Covering, InboxOrder
    <2>3. CASE inbox'[j] = e
      BY <1>3, <1>7, <2>1, <2>3 DEF Covering, FromHost
    <2> QED BY <1>8, <2>2, <2>3
  <1>13. CursorBehind'
    BY <1>2, <1>3, <1>4 DEF Covering, FromHost, CursorBehind
  <1>14. \A x : (Fetchable(x) => Fetchable(x)') /\ (InInbox(x) => InInbox(x)')
    BY <1>2, <1>7 DEF Fetchable, InInbox
  <1>15. link # "down" => InInbox(e)'
    BY <1>9 DEF InInbox
  <1>16. CatchUpCovers' /\ LiveCovers'
    BY <1>2, <1>3, <1>4, <1>14, <1>15 DEF Covering, FromHost, CatchUpCovers, LiveCovers
  <1> QED BY <1>10, <1>11, <1>12, <1>13, <1>16 DEF Covering

(* A broken connection leaves the receiver with its cursor.                *)
LEMMA CoveringLinkDown ==
  ASSUME Covering, TypeInv, LinkDown, emitted' = emitted, UNCHANGED status
  PROVE  Covering'
  <1> USE DEF LinkDown, NoRange, cursorVars
  <1>1. \A x \in Events : Missing(x)' => Missing(x)
    BY DEF Missing, Stored
  <1>2. FromHost' /\ Paging' /\ InboxOrder'
    BY DEF Covering, FromHost, Paging, InboxOrder
  <1>3. CursorBehind'
    <2>1. \A e \in Events : e + Slack >= 0
      BY ConstantsAssumption DEF ConstantsAssumption
    <2> QED BY <1>1, <2>1 DEF Covering, CursorBehind
  <1>4. CatchUpCovers' /\ LiveCovers'
    BY DEF CatchUpCovers, LiveCovers
  <1> QED BY <1>2, <1>3, <1>4 DEF Covering

(* The catch-up reaches back to every missing event.                       *)
LEMMA CoveringCatchUp ==
  ASSUME ConstantsAssumption, TypeInv, Covering, CatchUp
  PROVE  Covering'
  <1> DEFINE until == Latest(emitted)
  <1> USE DEF storeVars
  <1>1. /\ until \in Nat /\ Since(until) \in Nat
        /\ \A x \in emitted : x <= until
    BY LatestFacts, SinceFacts DEF TypeInv, TypeOK
  <1>2. until \in emitted \union {0}
    <2>1. CASE emitted = {}
      BY <2>1 DEF Latest
    <2>2. CASE emitted # {}
      BY <2>2 DEF Latest, TypeInv, HasLatest
    <2> QED BY <2>1, <2>2
  <1>3. /\ link' = "catchup" /\ range'.since = Since(until) /\ range'.until = until
        /\ range'.offset = 0 /\ range'.more
        /\ asked' = IF cursor = 0 THEN Since(until) ELSE asked
        /\ UNCHANGED <<emitted, status, inbox, batch, taken, cursor>>
        /\ link = "connected"
    BY DEF CatchUp
  <1> HIDE DEF until
  <1>4. batch = {} /\ taken = 0
    BY <1>3 DEF Covering, Paging
  <1>5. ASSUME NEW e \in Events, Missing(e)'
        PROVE  Since(until) <= e /\ e <= until
    <2>1. e \in Nat /\ Slack \in Nat /\ cursor \in Nat /\ asked \in Nat
      BY DEF ConstantsAssumption, TypeInv, TypeOK
    <2>2. e <= until
      BY <1>1, <1>3, <1>5 DEF Missing
    <2>3. CASE cursor = 0
      BY <1>3, <1>5, <1>1, <2>2, <2>1, <2>3 DEF Missing
    <2>4. CASE cursor # 0
      <3>1. Missing(e)
        BY <1>3, <1>5, <2>4 DEF Missing, Stored
      <3>2. cursor <= e + Slack
        BY <3>1 DEF Covering, CursorBehind
      <3> QED BY <1>1, <2>1, <2>2, <2>4, <3>2, SinceFacts DEF TypeInv
    <2> QED BY <2>3, <2>4
  <1>6. FromHost' /\ Paging' /\ InboxOrder'
    BY <1>2, <1>3, <1>4 DEF Covering, FromHost, Paging, InboxOrder
  <1>7. CursorBehind'
    <2> SUFFICES ASSUME NEW e \in Events, Missing(e)'
                 PROVE  cursor <= e + Slack /\ taken <= e + Slack
      BY <1>3 DEF CursorBehind
    <2>1. e \in Nat /\ Slack \in Nat
      BY DEF ConstantsAssumption
    <2>2. CASE cursor = 0
      BY <1>4, <2>1, <2>2
    <2>3. CASE cursor # 0
      <3>1. Missing(e)
        BY <1>3, <2>3 DEF Missing, Stored
      <3> QED BY <3>1 DEF Covering, CursorBehind
    <2> QED BY <2>2, <2>3
  <1>8. CatchUpCovers' /\ LiveCovers'
    BY <1>3, <1>5 DEF CatchUpCovers, LiveCovers, Fetchable
  <1> QED BY <1>6, <1>7, <1>8 DEF Covering

(* The page holds all that was listed.                                     *)
LEMMA CoveringFetchPage ==
  ASSUME ConstantsAssumption, OnePage, TypeInv, Covering, FetchPage
  PROVE  Covering'
  <1> DEFINE listed == {e \in emitted : range.since <= e /\ e <= range.until}
  <1> USE DEF storeVars, cursorVars
  <1>1. /\ link = "catchup" /\ range.more /\ batch = {} /\ taken = 0 /\ range.offset = 0
        /\ UNCHANGED <<emitted, status, link, inbox, taken, cursor, asked>>
    BY DEF FetchPage, Covering, Paging
  <1>2. batch' = {e \in listed : range.offset <= Rank(e, listed) /\ Rank(e, listed) < range.offset + Page}
    BY DEF FetchPage
  <1>3. IsFiniteSet(Events) /\ listed \subseteq Events /\ Cardinality(Events) \in Nat /\ Page \in Nat
    BY FS_CardinalityType DEF ConstantsAssumption, TypeInv, TypeOK
  <1>4. \A S \in SUBSET Events : Cardinality(S) \in Nat /\ Cardinality(S) < Page
    <2> SUFFICES ASSUME NEW S \in SUBSET Events
                 PROVE  Cardinality(S) \in Nat /\ Cardinality(S) < Page
      OBVIOUS
    <2>1. IsFiniteSet(S) /\ Cardinality(S) <= Cardinality(Events)
      BY <1>3, FS_Subset
    <2> QED BY <1>3, <2>1, FS_CardinalityType DEF OnePage
  <1>5. batch' = listed
    <2>1. ASSUME NEW e \in listed
          PROVE  0 <= Rank(e, listed) /\ Rank(e, listed) < Page
      <3>1. {x \in listed : x > e} \in SUBSET Events
        BY <1>3
      <3> QED BY <3>1, <1>4 DEF Rank
    <2> HIDE DEF listed
    <2>2. range.offset + Page = Page
      BY <1>1, <1>3
    <2> QED BY <1>1, <1>2, <2>1, <2>2
  <1>6. /\ range'.since = range.since /\ range'.until = range.until
        /\ range'.more = (Cardinality(batch') = Page)
    BY DEF FetchPage, TypeInv, TypeOK, CatchUpRange
  <1>7. ~range'.more
    <2>1. batch' \in SUBSET Events
      BY <1>3, <1>5
    <2>2. Cardinality(batch') < Page /\ Cardinality(batch') \in Nat
      BY <1>4, <2>1
    <2>3. Cardinality(batch') # Page
      BY <2>2, <1>3
    <2> QED BY <1>6, <2>3
  <1>8. \A x \in Events : Missing(x)' => Missing(x)
    BY <1>1 DEF Missing, Stored
  <1>9. FromHost' /\ Paging' /\ InboxOrder'
    BY <1>1, <1>5, <1>6, <1>7 DEF Covering, FromHost, Paging, InboxOrder
  <1>10. CursorBehind'
    BY <1>1, <1>8 DEF Covering, CursorBehind
  <1>11. CatchUpCovers' /\ LiveCovers'
    <2> SUFFICES ASSUME NEW e \in Events, Missing(e)'
                 PROVE  e \in batch' \/ (InInbox(e)' /\ range'.until <= e + Slack)
      BY <1>1 DEF CatchUpCovers, LiveCovers
    <2>1. Missing(e) /\ (InInbox(e)' <=> InInbox(e))
      BY <1>1, <1>8 DEF InInbox
    <2>2. CASE Fetchable(e)
      BY <1>5, <2>1, <2>2 DEF Fetchable, Missing
    <2>3. CASE InInbox(e) /\ range.until <= e + Slack
      BY <1>6, <2>1, <2>3
    <2> QED BY <1>1, <2>1, <2>2, <2>3 DEF Covering, CatchUpCovers
  <1> QED BY <1>9, <1>10, <1>11 DEF Covering

(* The oldest event of the page is imported: nothing missing is older by   *)
(* more than Slack.                                                        *)
LEMMA CoveringFromPage ==
  ASSUME ConstantsAssumption, TypeInv, Covering, NEW t \in Events, ImportFromPage(t)
  PROVE  Covering'
  <1> USE DEF cursorVars
  <1>1. /\ t \in batch /\ taken = 0 /\ \A x \in batch : t <= x
        /\ batch' = batch \ {t} /\ taken' = (IF Stored(t) THEN 0 ELSE t)
        /\ UNCHANGED <<emitted, link, inbox, range, cursor, asked>> /\ Import(t)
    BY DEF ImportFromPage
  <1>2. Stored(t)' /\ \A x \in Events : Missing(x)' => Missing(x) /\ x # t
    BY <1>1, ImportStores DEF Missing, TypeInv
  <1>3. link = "catchup" /\ ~range.more /\ t <= range.until /\ t \in emitted
    BY <1>1 DEF Covering, Paging, FromHost
  <1>4. \A x \in Events \union {0} : x \in Nat
    BY DEF ConstantsAssumption
  <1>5. Slack \in Nat /\ range.until \in Nat
    BY DEF ConstantsAssumption, TypeInv, TypeOK, CatchUpRange
  <1>6. FromHost' /\ Paging' /\ InboxOrder'
    BY <1>1, <1>3 DEF Covering, FromHost, Paging, InboxOrder
  <1>7. \A x \in Events : Missing(x) => x \in batch \/ (InInbox(x) /\ range.until <= x + Slack)
    BY <1>3 DEF Covering, CatchUpCovers, Fetchable
  <1>8. CursorBehind'
    <2> SUFFICES ASSUME NEW x \in Events, Missing(x)'
                 PROVE  cursor <= x + Slack /\ taken' <= x + Slack
      BY <1>1 DEF CursorBehind
    <2>1. t <= x + Slack
      BY <1>1, <1>2, <1>3, <1>4, <1>5, <1>7
    <2>2. cursor <= x + Slack
      BY <1>2 DEF Covering, CursorBehind
    <2> QED BY <1>1, <1>4, <1>5, <2>1, <2>2
  <1>9. CatchUpCovers' /\ LiveCovers'
    <2>1. \A x : InInbox(x)' <=> InInbox(x)
      BY <1>1 DEF InInbox
    <2> QED BY <1>1, <1>2, <1>3, <1>7, <2>1 DEF CatchUpCovers, LiveCovers
  <1> QED BY <1>6, <1>8, <1>9 DEF Covering

(* The first message is imported: the others are behind it by at most      *)
(* Slack.                                                                  *)
LEMMA CoveringReceive ==
  ASSUME ConstantsAssumption, TypeInv, Covering, Receive
  PROVE  Covering'
  <1> USE DEF cursorVars
  <1>1. inbox \in Seq(Events) /\ inbox # <<>>
    BY DEF Receive, TypeInv, TypeOK
  <1>0. Head(inbox) \in Events
    BY <1>1
  <1> PICK t \in Events : t = Head(inbox)
    BY <1>0
  <1>2. t = inbox[1] /\ Len(inbox) \in Nat /\ Len(inbox) >= 1
    BY <1>1
  <1>3. inbox' = Tail(inbox) /\ Len(inbox') = Len(inbox) - 1
    BY <1>1 DEF Receive
  <1>4. \A i \in 1..Len(inbox') : inbox'[i] = inbox[i + 1] /\ i + 1 \in 1..Len(inbox)
    BY <1>1, <1>2, <1>3
  <1>5. /\ link = "live" /\ taken = 0 /\ taken' = (IF Stored(t) THEN 0 ELSE t)
        /\ UNCHANGED <<emitted, link, range, batch, cursor, asked>> /\ Import(t)
    BY DEF Receive
  <1>6. Stored(t)' /\ \A x \in Events : Missing(x)' => Missing(x) /\ x # t
    BY <1>5, ImportStores DEF Missing, TypeInv
  <1>7. t \in emitted
    BY <1>2 DEF Covering, FromHost
  <1>8. FromHost' /\ Paging'
    BY <1>4, <1>5, <1>7 DEF Covering, FromHost, Paging
  <1>9. InboxOrder'
    <2> SUFFICES ASSUME NEW i \in 1..Len(inbox'), NEW j \in 1..Len(inbox'), i < j
                 PROVE  inbox'[i] <= inbox'[j] + Slack
      BY DEF InboxOrder
    <2>1. i + 1 < j + 1
      OBVIOUS
    <2> QED BY <1>4, <2>1 DEF Covering, InboxOrder
  <1>10. ASSUME NEW x \in Events, Missing(x)'
         PROVE  InInbox(x)' /\ t <= x + Slack
    <2>1. Missing(x) /\ x # t
      BY <1>6, <1>10
    <2>2. PICK i \in 1..Len(inbox) : inbox[i] = x
      BY <1>5, <2>1 DEF Covering, LiveCovers, InInbox
    <2>3. i > 1 /\ i \in Nat
      BY <1>2, <2>1, <2>2
    <2>4. i - 1 \in 1..Len(inbox') /\ (i - 1) + 1 = i
      BY <1>2, <1>3, <2>3
    <2>5. inbox'[i - 1] = x
      BY <1>4, <2>2, <2>4
    <2>6. 1 \in 1..Len(inbox)
      BY <1>2
    <2> QED BY <1>2, <2>2, <2>3, <2>4, <2>5, <2>6 DEF InInbox, Covering, InboxOrder
  <1>11. CursorBehind'
    <2> SUFFICES ASSUME NEW x \in Events, Missing(x)'
                 PROVE  cursor <= x + Slack /\ taken' <= x + Slack
      BY <1>5 DEF CursorBehind
    <2>1. x \in Nat /\ Slack \in Nat
      BY DEF ConstantsAssumption
    <2>2. cursor <= x + Slack
      BY <1>6 DEF Covering, CursorBehind
    <2>3. taken' = 0 \/ taken' = t
      BY <1>5
    <2>4. t <= x + Slack
      BY <1>10
    <2> QED BY <2>1, <2>2, <2>3, <2>4
  <1>12. CatchUpCovers' /\ LiveCovers'
    BY <1>5, <1>10 DEF CatchUpCovers, LiveCovers
  <1> QED BY <1>8, <1>9, <1>11, <1>12 DEF Covering

(* The receiver's other steps.                                             *)
LEMMA CoveringQuiet ==
  ASSUME Covering, Connect \/ CaughtUp \/ Record
  PROVE  Covering'
  <1> USE DEF storeVars, cursorVars
  <1>1. \A x \in Events : Missing(x)' => Missing(x)
    BY DEF Connect, CaughtUp, Record, Missing, Stored
  <1>2. \A x : (Fetchable(x)' <=> Fetchable(x)) /\ (InInbox(x)' <=> InInbox(x))
    BY DEF Connect, CaughtUp, Record, Fetchable, InInbox
  <1>3. CASE Connect
    <2>1. FromHost' /\ Paging' /\ InboxOrder' /\ CatchUpCovers' /\ LiveCovers'
      BY <1>3 DEF Connect, Covering, FromHost, Paging, InboxOrder, CatchUpCovers, LiveCovers
    <2>2. CursorBehind'
      BY <1>1, <1>3 DEF Connect, Covering, CursorBehind
    <2> QED BY <2>1, <2>2 DEF Covering
  <1>4. CASE CaughtUp
    <2>1. FromHost' /\ Paging' /\ InboxOrder'
      BY <1>4 DEF CaughtUp, Covering, FromHost, Paging, InboxOrder
    <2>2. CursorBehind'
      BY <1>1, <1>4 DEF CaughtUp, Covering, CursorBehind
    <2>3. CatchUpCovers' /\ LiveCovers'
      BY <1>1, <1>2, <1>4 DEF CaughtUp, Covering, CatchUpCovers, LiveCovers, Fetchable
    <2> QED BY <2>1, <2>2, <2>3 DEF Covering
  <1>5. CASE Record
    <2>1. FromHost' /\ Paging' /\ InboxOrder'
      BY <1>5 DEF Record, Covering, FromHost, Paging, InboxOrder
    <2>2. CursorBehind'
      <3> SUFFICES ASSUME NEW x \in Events, Missing(x)'
                   PROVE  taken <= x + Slack /\ 0 <= x + Slack
        BY <1>5 DEF Record, CursorBehind
      <3>1. x \in Nat /\ Slack \in Nat
        BY ConstantsAssumption DEF ConstantsAssumption
      <3> QED BY <1>1, <3>1 DEF Covering, CursorBehind
    <2>3. CatchUpCovers' /\ LiveCovers'
      BY <1>1, <1>2, <1>5 DEF Record, Covering, CatchUpCovers, LiveCovers
    <2> QED BY <2>1, <2>2, <2>3 DEF Covering
  <1> QED BY <1>3, <1>4, <1>5

(* Every step keeps what is missing within the receiver's reach.           *)
LEMMA CoveringStep ==
  ASSUME ConstantsAssumption, OnePage, TypeInv, Downloads, Covering, [Next]_vars
  PROVE  Covering'
  <1>1. \A x \in Events : Stored(x) => Stored(x)'
    BY StoredStays DEF TypeInv
  <1>2. CASE ReceiverStep
    BY <1>2, CoveringCatchUp, CoveringFetchPage, CoveringFromPage, CoveringReceive, CoveringQuiet
       DEF ReceiverStep
  <1>3. ASSUME NEW e \in Events, Emit(e)
        PROVE  Covering'
    BY <1>3, CoveringEmit
  <1>4. CASE Disconnect \/ Crash
    BY <1>4, CoveringLinkDown DEF Disconnect, Crash, storeVars
  <1>5. CASE PollerStep \/ ReconcileStep \/ UNCHANGED vars
    BY <1>1, <1>5, CoveringKept
       DEF PollerStep, PollFetch, PollImport, ReconcileStep, ReconcileRead, ReconcileCheck,
           ReconcileCreate, vars
  <1>6. ASSUME NEW o \in Operators, OperatorStep(o)
        PROVE  Covering'
    BY <1>1, <1>6, CoveringKept
       DEF OperatorStep, ConfirmRead, CloseRead, CloseAllRead, Hold, OperatorSave
  <1>7. ASSUME NEW e \in Events, PollSkip(e) \/ SnapshotStep(e) \/ JobStep(e)
        PROVE  Covering'
    BY <1>1, <1>7, CoveringKept
       DEF PollSkip, SnapshotStep, SnapshotRead, SnapshotSave, SnapshotFails, JobStep
  <1> QED BY <1>2, <1>3, <1>4, <1>5, <1>6, <1>7 DEF Next

(* After a catch-up, and with no message left to read, nothing the host    *)
(* has emitted since the start of the last catch-up without a cursor is    *)
(* missing, whatever was lost or late before: run_forever, catch_up and    *)
(* the cursor of _record_result.  The events fit in one page.              *)
THEOREM CatchUpIsComplete ==
  ASSUME OnePage
  PROVE  Spec => []CaughtUpIsComplete
  <1>1. ConstantsAssumption
    BY ConstantsAssumption
  <1>2. Init => TypeInv /\ Downloads /\ Covering
    BY <1>1, TypeInit, CoveringInit DEF Init, Downloads
  <1>3. TypeInv /\ Downloads /\ Covering /\ [Next]_vars
          => (TypeInv /\ Downloads /\ Covering)'
    BY <1>1, TypeStep, DownloadsStep, CoveringStep DEF TypeInv
  <1>4. TypeInv /\ Covering => CaughtUpIsComplete
    <2> SUFFICES ASSUME TypeInv, Covering, link = "live", inbox = <<>>, NEW e \in emitted, e >= asked
                 PROVE  Stored(e)
      BY DEF CaughtUpIsComplete
    <2>1. e \in Events /\ ~InInbox(e)
      BY DEF TypeInv, TypeOK, InInbox
    <2> QED BY <2>1 DEF Covering, LiveCovers, Missing
  <1> QED BY <1>2, <1>3, <1>4, PTL DEF Spec

-----------------------------------------------------------------------------
(* The intake implements EventStore, whatever the operators, the snapshot  *)
(* worker and the reconciliation do with copies of the rows.               *)

(* What the copies are of is stored, and a request is for one event unless *)
(* it closes all of them.                                                  *)
HeldFits ==
  \A o \in Operators :
    /\ held[o].act \in {"confirm", "close"} => \E e \in Events : held[o].events = {e}
    /\ \A e \in held[o].events : Stored(e)

RecFits == rec.pc # "idle" => rec.event \in Events /\ Stored(rec.event)

NoJobWithoutRow == \A e \in Events : ~Stored(e) => job[e] = "none"

StoreInv == TypeInv /\ Downloads /\ HeldFits /\ RecFits /\ NoJobWithoutRow

(* The program starts with an empty store.                                 *)
LEMMA StoreInit == ASSUME ConstantsAssumption, Init PROVE StoreInv
  <1>1. TypeInv
    BY TypeInit
  <1> QED BY <1>1 DEF Init, StoreInv, Downloads, HeldFits, NothingHeld, RecFits, NotReconciling,
                     NoJobWithoutRow, Stored

(* The steps as the store sees them.                                       *)
StoreQuiet == UNCHANGED <<status, job, rec>>

LEMMA StoreSteps ==
  ASSUME TypeOK, [Next]_vars
  PROVE  \/ StoreQuiet
         \/ \E e \in Events : Import(e) /\ UNCHANGED rec
         \/ \E e \in Events : JobStep(e) \/ SnapshotSave(e)
         \/ \E o \in Operators : OperatorSave(o)
         \/ ReconcileStep
  <1> USE DEF StoreQuiet, storeVars, otherVars
  <1>1. CASE ReceiverStep
    <2>1. CASE Receive
      <3>1. Head(inbox) \in Events
        BY <2>1 DEF Receive, TypeOK
      <3> QED BY <2>1, <3>1 DEF Receive
    <2>2. ASSUME NEW e \in Events, ImportFromPage(e)
          PROVE  Import(e) /\ UNCHANGED rec
      BY <2>2 DEF ImportFromPage
    <2>3. CASE Connect \/ CatchUp \/ FetchPage \/ CaughtUp \/ Record
      BY <2>3 DEF Connect, CatchUp, FetchPage, CaughtUp, Record
    <2> QED BY <1>1, <2>1, <2>2, <2>3 DEF ReceiverStep
  <1>2. CASE PollerStep
    BY <1>2 DEF PollerStep, PollFetch, PollImport
  <1>3. CASE Crash
    BY <1>3 DEF Crash
  <1>4. ASSUME NEW o \in Operators, OperatorStep(o)
        PROVE  StoreQuiet \/ OperatorSave(o)
    BY <1>4 DEF OperatorStep, ConfirmRead, CloseRead, CloseAllRead, Hold
  <1>5. ASSUME NEW e \in Events, Emit(e) \/ PollSkip(e) \/ SnapshotRead(e) \/ SnapshotFails(e)
        PROVE  StoreQuiet
    BY <1>5 DEF Emit, PollSkip, SnapshotRead, SnapshotFails
  <1>6. CASE Disconnect \/ UNCHANGED vars
    BY <1>6 DEF Disconnect, vars
  <1> QED BY <1>1, <1>2, <1>3, <1>4, <1>5, <1>6 DEF Next, SnapshotStep

(* What an operator's request holds was read from the store, or dropped.   *)
LEMMA HeldSteps ==
  ASSUME TypeOK, [Next]_vars, NEW o \in Operators
  PROVE  \/ held'[o] \in {held[o], NothingHeld}
         \/ /\ \A e \in held'[o].events : Stored(e)
            /\ held'[o].act \in {"confirm", "close"} => \E e \in Events : held'[o].events = {e}
  <1> USE DEF otherVars
  <1>1. CASE ReceiverStep \/ Disconnect
    BY <1>1 DEF ReceiverStep, Disconnect, Connect, CatchUp, FetchPage, CaughtUp, Receive, Record,
                ImportFromPage
  <1>2. CASE PollerStep \/ ReconcileStep \/ UNCHANGED vars
    BY <1>2 DEF PollerStep, PollFetch, PollImport, ReconcileStep, ReconcileRead, ReconcileCheck,
                ReconcileCreate, vars
  <1>3. CASE Crash
    BY <1>3 DEF Crash
  <1>4. ASSUME NEW e \in Events, Emit(e) \/ PollSkip(e) \/ SnapshotStep(e) \/ JobStep(e)
        PROVE  UNCHANGED held
    BY <1>4 DEF Emit, PollSkip, JobStep, SnapshotStep, SnapshotRead, SnapshotSave, SnapshotFails
  <1>5. ASSUME NEW p \in Operators, NEW act \in {"confirm", "close", "close_all"},
               NEW E \in SUBSET Events, Hold(p, act, E), \A e \in E : Stored(e),
               act # "close_all" => \E e \in Events : E = {e}
        PROVE  \/ held'[o] = held[o]
               \/ /\ \A e \in held'[o].events : Stored(e)
                  /\ held'[o].act \in {"confirm", "close"} => \E e \in Events : held'[o].events = {e}
    BY <1>5 DEF Hold, TypeOK
  <1>6. ASSUME NEW p \in Operators, OperatorSave(p)
        PROVE  held'[o] \in {held[o], NothingHeld}
    BY <1>6 DEF OperatorSave, TypeOK
  <1>7. ASSUME NEW p \in Operators, OperatorStep(p)
        PROVE  \/ held'[o] \in {held[o], NothingHeld}
               \/ /\ \A e \in held'[o].events : Stored(e)
                  /\ held'[o].act \in {"confirm", "close"} => \E e \in Events : held'[o].events = {e}
    <2>1. CASE ConfirmRead(p)
      <3>1. PICK e \in Events : status[e] = "new" /\ Hold(p, "confirm", {e})
        BY <2>1 DEF ConfirmRead
      <3> QED BY <1>5, <3>1 DEF Stored
    <2>2. CASE CloseRead(p)
      <3>1. PICK e \in Events : status[e] = "confirmed" /\ Hold(p, "close", {e})
        BY <2>2 DEF CloseRead
      <3> QED BY <1>5, <3>1 DEF Stored
    <2>3. CASE CloseAllRead(p)
      BY <1>5, <2>3 DEF CloseAllRead, Open, OpenStatuses, Stored
    <2> QED BY <1>6, <1>7, <2>1, <2>2, <2>3 DEF OperatorStep
  <1> QED BY <1>1, <1>2, <1>3, <1>4, <1>7 DEF Next

-----------------------------------------------------------------------------
(* An import stores or queues in the sense of EventStore.                  *)
LEMMA ImportSimulates ==
  ASSUME TypeOK, NoJobWithoutRow, NEW e \in Events, Import(e), UNCHANGED rec
  PROVE  [Store!Next]_Store!vars
  <1>0. Missed' = Missed
    BY DEF Missed
  <1>1. CASE ~Stored(e)
    <2>1. status' = [status EXCEPT ![e] = "new"] /\ job[e] = "none"
      BY <1>1 DEF Import, NoJobWithoutRow
    <2>2. AbstractState' = [AbstractState EXCEPT ![e] = "open"]
      BY <2>1 DEF AbstractState, Stored, Open, OpenStatuses, TypeOK
    <2>3. AbstractState[e] = "unknown"
      BY <1>1 DEF AbstractState
    <2>4. job' = job \/ job' = [job EXCEPT ![e] = "pending"]
      BY DEF Import
    <2> QED BY <1>0, <2>1, <2>2, <2>3, <2>4 DEF Store!Next, Store!Store
  <1>2. CASE Stored(e)
    <2>1. status' = status
      BY <1>2 DEF Import
    <2>2. AbstractState' = AbstractState
      BY <2>1 DEF AbstractState, Stored, Open
    <2>3. CASE job' = job
      BY <1>0, <2>2, <2>3 DEF Store!vars
    <2>4. CASE MayQueue(e) /\ job' = [job EXCEPT ![e] = "pending"]
      <3>1. AbstractState[e] = "open" /\ job[e] = "none"
        BY <1>2, <2>4 DEF MayQueue, AbstractState
      <3> QED BY <1>0, <2>2, <2>4, <3>1 DEF Store!Next, Store!Queue
    <2> QED BY <2>3, <2>4 DEF Import
  <1> QED BY <1>1, <1>2

(* A row whose status alone is written closes, opens, or stays.            *)
LEMMA WriteSimulates ==
  ASSUME TypeOK, NEW e \in Events, Stored(e), NEW s \in RowStatuses,
         status' = [status EXCEPT ![e] = s], UNCHANGED <<job, rec>>
  PROVE  [Store!Next]_Store!vars
  <1>1. Missed' = Missed
    BY DEF Missed
  <1>2. AbstractState' =
          [AbstractState EXCEPT ![e] = IF s \in OpenStatuses THEN "open" ELSE "closed"]
    BY DEF AbstractState, Stored, Open, OpenStatuses, RowStatuses, TypeOK
  <1>3. AbstractState[e] \in {"open", "closed"} /\ AbstractState \in [Events -> {"unknown", "open", "closed"}]
    BY DEF AbstractState
  <1>4. CASE s \in OpenStatuses /\ AbstractState[e] = "closed"
    BY <1>1, <1>2, <1>4 DEF Store!Next, Store!Reopen
  <1>5. CASE s \notin OpenStatuses /\ AbstractState[e] = "open"
    BY <1>1, <1>2, <1>5 DEF Store!Next, Store!Close
  <1>6. CASE AbstractState[e] = IF s \in OpenStatuses THEN "open" ELSE "closed"
    BY <1>1, <1>2, <1>3, <1>6 DEF Store!vars
  <1> QED BY <1>3, <1>4, <1>5, <1>6

(* Confirming and closing write one row; clearing the alarms is a step.    *)
LEMMA SaveSimulates ==
  ASSUME TypeOK, HeldFits, NEW o \in Operators, OperatorSave(o)
  PROVE  [Store!Next]_Store!vars
  <1> DEFINE E == held[o].events
  <1>1. E \subseteq Events /\ held[o].act \in {"confirm", "close", "close_all"}
    BY DEF OperatorSave, TypeOK, Held
  <1>2. UNCHANGED rec
    BY DEF OperatorSave
  <1>3. CASE held[o].act \in {"confirm", "close"}
    <2>1. PICK e \in Events : E = {e} /\ Stored(e)
      BY <1>3 DEF HeldFits
    <2>2. status' = [status EXCEPT ![e] = SavedStatus(held[o].act)]
      BY <2>1 DEF OperatorSave, TypeOK
    <2>3. job' = job
      BY <1>3 DEF OperatorSave, Cancels, TypeOK
    <2>4. SavedStatus(held[o].act) \in RowStatuses
      BY DEF SavedStatus, RowStatuses, OpenStatuses
    <2> QED BY <1>2, <2>1, <2>2, <2>3, <2>4, WriteSimulates
  <1>4. CASE held[o].act = "close_all"
    <2>1. \A e \in E : Stored(e)
      BY DEF HeldFits
    <2>2. status' = [e \in Events |-> IF e \in E THEN "closed" ELSE status[e]]
      BY <1>4 DEF OperatorSave, SavedStatus
    <2>3. AbstractState' = [e \in Events |-> IF e \in E THEN "closed" ELSE AbstractState[e]]
      BY <2>1, <2>2 DEF AbstractState, Stored, Open, OpenStatuses
    <2>4. job' = [e \in Events |-> IF e \in E /\ job[e] = "pending" THEN "over" ELSE job[e]]
      BY <1>4 DEF OperatorSave, Cancels
    <2>5. \A e \in E : AbstractState[e] # "unknown"
      BY <1>1, <2>1 DEF AbstractState
    <2>6. Missed' = Missed
      BY <1>2 DEF Missed
    <2> QED BY <1>1, <2>3, <2>4, <2>5, <2>6 DEF Store!Next, Store!Clear
  <1> QED BY <1>1, <1>3, <1>4

(* The reconciliation misses an announcement, and makes up for it.         *)
LEMMA ReconcileSimulates ==
  ASSUME TypeOK, RecFits, ReconcileStep
  PROVE  [Store!Next]_Store!vars
  <1>1. UNCHANGED status /\ AbstractState' = AbstractState
    BY DEF ReconcileStep, ReconcileRead, ReconcileCheck, ReconcileCreate, storeVars, AbstractState,
           Stored, Open
  <1>2. CASE ReconcileRead
    <2>1. Missed = {} /\ Missed' = {} /\ UNCHANGED job
      BY <1>2 DEF ReconcileRead, Missed, NotReconciling, storeVars
    <2> QED BY <1>1, <2>1 DEF Store!vars
  <1>3. CASE ReconcileCheck
    <2>1. Missed = {} /\ UNCHANGED job /\ rec.event \in Events /\ Stored(rec.event)
      BY <1>3 DEF ReconcileCheck, Missed, storeVars, RecFits
    <2>2. CASE rec.open /\ job[rec.event] = "none"
      <3>1. rec'.pc = "create" /\ rec'.event = rec.event
        BY <1>3, <2>2 DEF ReconcileCheck, TypeOK, Reconciler
      <3>2. Missed' = Missed \union {rec.event}
        BY <2>1, <3>1 DEF Missed
      <3>3. AbstractState[rec.event] # "unknown"
        BY <2>1 DEF AbstractState
      <3> QED BY <1>1, <2>1, <2>2, <3>2, <3>3 DEF Store!Next, Store!Miss
    <2>3. CASE ~(rec.open /\ job[rec.event] = "none")
      <3>1. Missed' = {}
        BY <1>3, <2>3 DEF ReconcileCheck, Missed, NotReconciling
      <3> QED BY <1>1, <2>1, <3>1 DEF Store!vars
    <2> QED BY <2>2, <2>3
  <1>4. CASE ReconcileCreate
    <2>1. rec.event \in Events /\ Missed = {rec.event} /\ Missed' = {}
      BY <1>4 DEF ReconcileCreate, RecFits, Missed, NotReconciling
    <2>2. Missed' = Missed \ {rec.event}
      BY <2>1
    <2>3. \/ job[rec.event] \in {"none", "over"} /\ job' = [job EXCEPT ![rec.event] = "pending"]
          \/ UNCHANGED job
      BY <1>4, <2>1 DEF ReconcileCreate, TypeOK
    <2> QED BY <1>1, <2>1, <2>2, <2>3 DEF Store!Next, Store!MakeUp
  <1> QED BY <1>2, <1>3, <1>4 DEF ReconcileStep

(* Every step is one of the store, or none.                                *)
LEMMA StepSimulates ==
  ASSUME StoreInv, [Next]_vars
  PROVE  [Store!Next]_Store!vars
  <1> USE DEF StoreInv, TypeInv
  <1>1. CASE StoreQuiet
    BY <1>1 DEF StoreQuiet, AbstractState, Missed, Stored, Open, Store!vars
  <1>2. ASSUME NEW e \in Events, JobStep(e)
        PROVE  [Store!Next]_Store!vars
    <2>1. UNCHANGED <<status, rec>>
      BY <1>2 DEF JobStep, otherVars
    <2>2. AbstractState' = AbstractState /\ Missed' = Missed
      BY <2>1 DEF AbstractState, Missed, Stored, Open
    <2> QED BY <1>2, <2>2 DEF JobStep, Store!Next, Store!Play
  <1>3. ASSUME NEW e \in Events, SnapshotSave(e)
        PROVE  [Store!Next]_Store!vars
    <2>1. snapshot[e] \in RowStatuses /\ status' = [status EXCEPT ![e] = snapshot[e]]
      BY <1>3 DEF SnapshotSave
    <2>2. Stored(e)
      BY <2>1 DEF Downloads, RowStatuses, OpenStatuses
    <2>3. UNCHANGED <<job, rec>>
      BY <1>3 DEF SnapshotSave, otherVars
    <2> QED BY <2>1, <2>2, <2>3, WriteSimulates
  <1> QED BY <1>1, <1>2, <1>3, StoreSteps, ImportSimulates, SaveSimulates, ReconcileSimulates

(* The invariant of the simulation.                                        *)
LEMMA StoreStep ==
  ASSUME ConstantsAssumption, StoreInv, [Next]_vars
  PROVE  StoreInv'
  <1> USE DEF StoreInv, TypeInv
  <1>1. TypeInv' /\ Downloads'
    BY TypeStep, DownloadsStep
  <1>2. \A x \in Events : Stored(x) => Stored(x)'
    BY StoredStays
  <1>3. HeldFits'
    <2> SUFFICES ASSUME NEW o \in Operators
                 PROVE  /\ held'[o].act \in {"confirm", "close"} =>
                             \E e \in Events : held'[o].events = {e}
                        /\ \A e \in held'[o].events : Stored(e)'
      BY DEF HeldFits
    <2>1. held'[o].events \subseteq Events
      BY <1>1 DEF TypeOK, Held
    <2>2. CASE held'[o] = held[o]
      BY <1>2, <2>1, <2>2 DEF HeldFits
    <2>3. CASE held'[o] = NothingHeld
      BY <2>3 DEF NothingHeld
    <2>4. CASE /\ \A e \in held'[o].events : Stored(e)
               /\ held'[o].act \in {"confirm", "close"} => \E e \in Events : held'[o].events = {e}
      BY <1>2, <2>1, <2>4
    <2> QED BY <2>2, <2>3, <2>4, HeldSteps
  <1>4. RecFits'
    <2>1. CASE UNCHANGED rec
      BY <1>2, <2>1 DEF RecFits
    <2>2. CASE ReconcileStep
      <3>1. CASE ReconcileRead
        BY <1>2, <3>1 DEF ReconcileRead, RecFits
      <3>2. CASE ReconcileCheck
        <4>1. rec'.pc = "idle" \/ rec'.event = rec.event
          BY <3>2 DEF ReconcileCheck, NotReconciling, TypeOK, Reconciler
        <4>2. rec.pc # "idle"
          BY <3>2 DEF ReconcileCheck
        <4> QED BY <1>2, <4>1, <4>2 DEF RecFits
      <3>3. CASE ReconcileCreate
        BY <3>3 DEF ReconcileCreate, NotReconciling, RecFits
      <3> QED BY <2>2, <3>1, <3>2, <3>3 DEF ReconcileStep
    <2> QED BY <2>1, <2>2, StoreSteps DEF StoreQuiet, JobStep, SnapshotSave, OperatorSave, otherVars
  <1>5. NoJobWithoutRow'
    <2>1. CASE StoreQuiet
      BY <2>1 DEF StoreQuiet, NoJobWithoutRow, Stored
    <2>2. ASSUME NEW e \in Events, Import(e)
          PROVE  NoJobWithoutRow'
      <3>1. \A x \in Events : x # e => status'[x] = status[x] /\ job'[x] = job[x]
        BY <2>2 DEF Import, TypeOK
      <3>2. Stored(e)'
        BY <2>2, ImportStores
      <3> QED BY <3>1, <3>2 DEF NoJobWithoutRow, Stored
    <2>3. ASSUME NEW e \in Events, JobStep(e) \/ SnapshotSave(e)
          PROVE  NoJobWithoutRow'
      <3>1. \A x \in Events : job[x] = "none" => job'[x] = "none"
        BY <2>3 DEF JobStep, SnapshotSave, TypeOK
      <3> QED BY <1>2, <3>1 DEF NoJobWithoutRow
    <2>4. ASSUME NEW o \in Operators, OperatorSave(o)
          PROVE  NoJobWithoutRow'
      <3>1. \A e \in Events : job[e] = "none" => job'[e] = "none"
        BY <2>4 DEF OperatorSave
      <3> QED BY <1>2, <3>1 DEF NoJobWithoutRow
    <2>5. CASE ReconcileStep
      <3>1. \A x \in Events : job'[x] = job[x] \/ (rec.pc = "create" /\ x = rec.event)
        BY <2>5 DEF ReconcileStep, ReconcileRead, ReconcileCheck, ReconcileCreate, storeVars, TypeOK
      <3> QED BY <1>2, <3>1 DEF NoJobWithoutRow, RecFits
    <2> QED BY <2>1, <2>2, <2>3, <2>4, <2>5, StoreSteps
  <1> QED BY <1>1, <1>3, <1>4, <1>5

(* An event is stored once and announced at most once, while it is open,   *)
(* whichever importer is first, and the reconciliation never queues an     *)
(* announcement that waits or plays: import_payload, the operators'        *)
(* requests, the snapshot worker, crashes and reconcile_auto_broadcast     *)
(* together, for any number of each.                                       *)
THEOREM IntakeImplementsStore == Spec => ImplementsStore
  <1>1. ConstantsAssumption
    BY ConstantsAssumption
  <1>2. Init => StoreInv /\ Store!Init
    <2>1. Init => StoreInv
      BY <1>1, StoreInit
    <2>2. Init => Store!Init
      BY DEF Init, Store!Init, AbstractState, Missed, NotReconciling, Stored
    <2> QED BY <2>1, <2>2
  <1>3. StoreInv /\ [Next]_vars => StoreInv' /\ [Store!Next]_Store!vars
    BY <1>1, StoreStep, StepSimulates
  <1> QED BY <1>2, <1>3, PTL DEF Spec, ImplementsStore, Store!Spec

=============================================================================
