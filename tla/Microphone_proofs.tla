------------------------- MODULE Microphone_proofs --------------------------
(***************************************************************************)
(* Theorems about Microphone, for any speakers, request threads and number *)
(* of sessions.                                                            *)
(***************************************************************************)
EXTENDS Microphone, FiniteSetTheorems, TLAPS

(* The bound on sessions is a number, and "the lock is free" no thread.    *)
Parameters == MaxSessions \in Nat /\ NoThread \notin WebThreads

LEMMA ParametersHold == Parameters
  BY MicAssumption DEF Parameters

(* TypeOK in the parts that a step disturbs separately.  The thread that   *)
(* dials has started a session, whose timer and monitor it will name.      *)
RowsType == [Sessions -> [LiveSpeakers -> RowStates]]
EndsType == [Sessions -> EndReasons]

LiveTypes ==
  /\ liveCount \in 0..MaxSessions
  /\ liveSession \in 0..MaxSessions
  /\ liveLock \in WebThreads \union {NoThread}
  /\ liveRows \in RowsType
  /\ calls \in [Sessions -> [LiveSpeakers -> {"none", "active", "failed"}]]
  /\ liveProcess \subseteq Sessions
  /\ liveTimers \subseteq Sessions
  /\ monitors \subseteq Sessions
  /\ liveEnd \in EndsType
  /\ expired \subseteq Sessions

RecTypes ==
  /\ recCount \in 0..MaxSessions
  /\ recording \in 0..MaxSessions
  /\ recProcess \subseteq Recordings
  /\ recTimers \subseteq Recordings
  /\ tempFiles \subseteq Recordings
  /\ completed \subseteq Recordings
  /\ stored \in [Recordings -> Nat]
  /\ cutOff \subseteq Recordings

Places == {"idle", "live_checked", "dialing", "record_checked", "reset"}
RowIds == Sessions \X LiveSpeakers
WebStates == [pc : Places, speakers : SUBSET LiveSpeakers, copies : SUBSET RowIds]
WebTypes == web \in [WebThreads -> WebStates]

Dials == \A t \in WebThreads : web[t].pc = "dialing" => liveCount # 0

Types == LiveTypes /\ RecTypes /\ WebTypes /\ Dials

-----------------------------------------------------------------------------
(* What the helpers of the live manager return.                            *)
LEMMA FinishedType ==
  ASSUME NEW rows \in RowsType, NEW s \in Sessions, NEW state \in RowStates
  PROVE  Finished(rows, s, state) \in RowsType
  BY DEF Finished, RowsType

LEMMA RecoveredType ==
  ASSUME Parameters, LiveTypes
  PROVE  RecoveredRows \in RowsType /\ RecoveredEnd \in EndsType /\ RecoveredSession \in 0..MaxSessions
  <1>1. CASE ProcessExited
    <2>1. liveSession \in Sessions
      BY <1>1 DEF ProcessExited, LiveTypes, Sessions, Parameters
    <2>2. "process_error" \in RowStates /\ "process_error" \in EndReasons
      BY DEF RowStates, EndReasons
    <2>3. RecoveredRows \in RowsType
      BY <1>1, <2>1, <2>2, FinishedType DEF RecoveredRows, LiveTypes
    <2>4. RecoveredEnd \in EndsType
      BY <1>1, <2>2 DEF RecoveredEnd, LiveTypes, EndsType
    <2>5. RecoveredSession \in 0..MaxSessions
      BY <1>1 DEF RecoveredSession, Parameters
    <2> QED BY <2>3, <2>4, <2>5
  <1>2. CASE ~ProcessExited
    BY <1>2 DEF RecoveredRows, RecoveredEnd, RecoveredSession, LiveTypes
  <1> QED BY <1>1, <1>2

LEMMA ClearedType ==
  ASSUME NEW rows \in RowsType
  PROVE  Cleared(rows) \in RowsType
  BY DEF Cleared, RowsType, RowStates

LEMMA StopType ==
  ASSUME Parameters, LiveTypes, NEW s \in Sessions, NEW why \in EndReasons, Stop(s, why)
  PROVE  /\ liveSession' \in 0..MaxSessions
         /\ liveRows' \in RowsType
         /\ liveEnd' \in EndsType
         /\ liveProcess' \subseteq Sessions
  <1>1. liveRows' \in RowsType
    BY FinishedType DEF Stop, LiveTypes, RowStates
  <1> QED BY <1>1 DEF Stop, LiveTypes, EndsType, Parameters

(* A thread's record after a step that moves it, or answers its request.   *)
LEMMA WebIdle ==
  ASSUME WebTypes, NEW t \in WebThreads, web' = [web EXCEPT ![t] = Idle]
  PROVE  WebTypes'
  <1>1. Idle \in WebStates
    BY DEF Idle, WebStates, Places
  <1> QED BY <1>1 DEF WebTypes

LEMMA WebMoves ==
  ASSUME WebTypes, NEW t \in WebThreads, NEW pc \in Places, web' = [web EXCEPT ![t].pc = pc]
  PROVE  WebTypes'
  <1>1. [web[t] EXCEPT !.pc = pc] \in WebStates
    BY DEF WebTypes, WebStates
  <1>2. web' = [web EXCEPT ![t] = [web[t] EXCEPT !.pc = pc]]
    OBVIOUS
  <1> QED BY <1>1, <1>2 DEF WebTypes

LEMMA WebChooses ==
  ASSUME WebTypes, NEW t \in WebThreads, NEW pc \in Places, NEW chosen \in SUBSET LiveSpeakers,
         web' = [web EXCEPT ![t].pc = pc, ![t].speakers = chosen]
  PROVE  WebTypes'
  <1>1. [web[t] EXCEPT !.pc = pc, !.speakers = chosen] \in WebStates
    BY DEF WebTypes, WebStates
  <1>2. web' = [web EXCEPT ![t] = [web[t] EXCEPT !.pc = pc, !.speakers = chosen]]
    BY DEF WebTypes
  <1> QED BY <1>1, <1>2 DEF WebTypes

LEMMA WebLists ==
  ASSUME WebTypes, NEW t \in WebThreads, NEW pc \in Places, NEW listed \in SUBSET RowIds,
         web' = [web EXCEPT ![t].copies = listed, ![t].pc = pc]
  PROVE  WebTypes'
  <1>1. [web[t] EXCEPT !.copies = listed, !.pc = pc] \in WebStates
    BY DEF WebTypes, WebStates
  <1>2. web' = [web EXCEPT ![t] = [web[t] EXCEPT !.copies = listed, !.pc = pc]]
    BY DEF WebTypes
  <1> QED BY <1>1, <1>2 DEF WebTypes

LEMMA ListsDials ==
  ASSUME WebTypes, Dials, UNCHANGED liveCount, NEW t \in WebThreads,
         NEW pc \in {"idle", "reset"}, NEW listed \in SUBSET RowIds,
         web' = [web EXCEPT ![t].copies = listed, ![t].pc = pc]
  PROVE  Dials'
  <1> SUFFICES ASSUME NEW u \in WebThreads, web'[u].pc = "dialing" PROVE liveCount' # 0
    BY DEF Dials
  <1>1. web'[t] = [web[t] EXCEPT !.copies = listed, !.pc = pc]
    BY DEF WebTypes
  <1>2. web'[t].pc = pc
    BY <1>1 DEF WebTypes, WebStates
  <1>3. u # t
    BY <1>2
  <1> QED BY <1>3 DEF Dials, WebTypes

-----------------------------------------------------------------------------
LEMMA TypesInit == ASSUME Parameters, Init PROVE Types
  <1>1. LiveTypes
    BY DEF Parameters, Init, LiveTypes, Sessions, RowsType, EndsType, RowStates, EndReasons
  <1>2. RecTypes
    BY DEF Parameters, Init, RecTypes, Recordings
  <1>3. WebTypes /\ Dials
    BY DEF Init, WebTypes, Dials, Idle, WebStates, Places
  <1> QED BY <1>1, <1>2, <1>3 DEF Types

LEMMA TypesImply == Types => TypeOK
  BY DEF Types, LiveTypes, RecTypes, WebTypes, WebStates, Places, RowIds, RowsType, EndsType, TypeOK

(* Every step of a request of the broadcast page keeps the types.          *)
LEMMA TypesLive ==
  ASSUME Parameters, Types, NEW t \in WebThreads,
         \/ \E chosen \in SUBSET LiveSpeakers : AskLive(t, chosen)
         \/ LiveRefused(t)
         \/ LiveGivesUp(t)
         \/ LiveStart(t)
         \/ \E answered \in SUBSET LiveSpeakers : LiveDialled(t, answered)
  PROVE  Types'
  <1> USE DEF Types
  <1>1. ASSUME NEW chosen \in SUBSET LiveSpeakers, AskLive(t, chosen) PROVE Types'
    <2>1. WebTypes'
      BY <1>1, WebChooses DEF AskLive, Places
    <2>2. RecTypes'
      BY <1>1 DEF AskLive, RecoverRecorder, RecTypes, Parameters
    <2>3. LiveTypes'
      BY <1>1 DEF AskLive, liveVars, LiveTypes
    <2>4. Dials'
      BY <1>1 DEF AskLive, liveVars, Dials, WebTypes, WebStates
    <2> QED BY <2>1, <2>2, <2>3, <2>4
  <1>2. ASSUME LiveRefused(t) PROVE Types'
    <2>1. WebTypes' /\ RecTypes' /\ Dials'
      BY <1>2, WebIdle DEF LiveRefused, recVars, RecTypes, Dials, WebTypes, WebStates, Idle
    <2>2. LiveTypes'
      BY <1>2, RecoveredType DEF LiveRefused, LiveTypes
    <2> QED BY <2>1, <2>2
  <1>3. ASSUME LiveStart(t) PROVE Types'
    <2>1. liveCount' \in Sessions
      BY <1>3 DEF LiveStart, LiveTypes, RecTypes, Sessions, Parameters
    <2>2. liveRows' \in RowsType
      <3>1. Cleared(RecoveredRows) \in RowsType
        BY RecoveredType, ClearedType
      <3> QED BY <1>3, <3>1 DEF LiveStart, RowsType, RowStates
    <2>3. WebTypes'
      <3>1. "dialing" \in Places
        BY DEF Places
      <3> QED BY <1>3, <3>1, WebIdle, WebMoves DEF LiveStart
    <2>4. liveLock' \in WebThreads \union {NoThread} /\ liveProcess' \subseteq Sessions
      BY <1>3, <2>1 DEF LiveStart, LiveTypes
    <2>5. liveEnd' \in EndsType /\ liveSession' \in 0..MaxSessions
      BY <1>3, RecoveredType DEF LiveStart
    <2>6. RecTypes' /\ Dials'
      BY <1>3, <2>1 DEF LiveStart, RecTypes, recVars, Dials, Sessions
    <2> QED BY <1>3, <2>1, <2>2, <2>3, <2>4, <2>5, <2>6 DEF LiveStart, LiveTypes, Sessions
  <1>4. ASSUME NEW answered \in SUBSET LiveSpeakers, LiveDialled(t, answered) PROVE Types'
    <2>0. liveCount \in Sessions
      BY <1>4 DEF LiveDialled, Dials, LiveTypes, Sessions, Parameters
    <2>1. calls' \in [Sessions -> [LiveSpeakers -> {"none", "active", "failed"}]]
      BY <1>4 DEF LiveDialled, LiveTypes
    <2>2. liveRows' \in RowsType
      <3> DEFINE row == [p \in LiveSpeakers |->
            IF p \in web[t].speakers \ answered THEN "refused"
            ELSE IF p \in answered /\ liveCount \notin liveProcess
                 THEN "process_error" ELSE liveRows[liveCount][p]]
      <3>1. row \in [LiveSpeakers -> RowStates]
        BY <2>0 DEF LiveTypes, RowsType, RowStates
      <3>2. liveRows' = [liveRows EXCEPT ![liveCount] = row]
        BY <1>4 DEF LiveDialled
      <3> QED BY <3>1, <3>2 DEF LiveTypes, RowsType
    <2>3. liveEnd' \in EndsType
      BY <1>4 DEF LiveDialled, LiveTypes, EndsType, EndReasons
    <2>4. WebTypes' /\ RecTypes' /\ Dials'
      BY <1>4, WebIdle DEF LiveDialled, recVars, RecTypes, Dials, WebTypes, WebStates, Idle
    <2>5. /\ liveSession' \in 0..MaxSessions
          /\ liveTimers' \subseteq Sessions
          /\ monitors' \subseteq Sessions
          /\ liveProcess' \subseteq Sessions
      BY <1>4, <2>0 DEF LiveDialled, LiveTypes, Sessions, Parameters
    <2> QED BY <1>4, <2>1, <2>2, <2>3, <2>4, <2>5 DEF LiveDialled, LiveTypes
  <1>5. ASSUME LiveGivesUp(t) PROVE Types'
    <2>1. WebTypes' /\ RecTypes' /\ Dials'
      BY <1>5, WebIdle DEF LiveGivesUp, recVars, RecTypes, Dials, WebTypes, WebStates, Idle
    <2>2. liveRows' \in RowsType
      BY <1>5, RecoveredType, ClearedType DEF LiveGivesUp
    <2>3. liveEnd' \in EndsType /\ liveSession' \in 0..MaxSessions
      BY <1>5, RecoveredType DEF LiveGivesUp
    <2> QED BY <1>5, <2>1, <2>2, <2>3 DEF LiveGivesUp, LiveTypes
  <1> QED BY <1>1, <1>2, <1>3, <1>4, <1>5

(* So does every way a session ends, and the reset of the rows.            *)
LEMMA TypesStop ==
  ASSUME Parameters, Types,
         \/ LiveStatus
         \/ \E t \in WebThreads, id \in 0..MaxSessions : StopLive(t, id)
         \/ \E t \in WebThreads : ResetList(t) \/ ResetSave(t)
         \/ \E s \in Sessions : TimeoutStop(s) \/ Monitor(s) \/ LiveProcessExits(s)
  PROVE  Types'
  <1> USE DEF Types
  <1>1. CASE LiveStatus
    BY <1>1, RecoveredType DEF LiveStatus, LiveTypes, RecTypes, recVars, WebTypes, Dials, Parameters
  <1>2. ASSUME NEW t \in WebThreads, NEW id \in 0..MaxSessions, StopLive(t, id) PROVE Types'
    <2>1. WebTypes' /\ RecTypes' /\ Dials'
      BY <1>2, WebMoves DEF StopLive, recVars, RecTypes, Dials, WebTypes, WebStates, Places
    <2>2. CASE Names(id)
      <3>1. liveSession \in Sessions /\ Stop(liveSession, "manual_stop")
        BY <1>2, <2>2 DEF StopLive, Names, LiveTypes, Sessions, Parameters
      <3>2. "manual_stop" \in EndReasons
        BY DEF EndReasons
      <3> QED BY <1>2, <2>1, <2>2, <3>1, <3>2, StopType DEF StopLive, LiveTypes
    <2>3. CASE ~Names(id)
      BY <1>2, <2>1, <2>3 DEF StopLive, LiveTypes
    <2> QED BY <2>2, <2>3
  <1>3. ASSUME NEW t \in WebThreads, ResetList(t) PROVE Types'
    <2>1. PICK listed \in SUBSET RowIds, pc \in {"idle", "reset"} :
            web' = [web EXCEPT ![t].copies = listed, ![t].pc = pc]
      BY <1>3 DEF ResetList, RowIds
    <2>3. WebTypes'
      BY <2>1, WebLists DEF Places
    <2>4. Dials'
      BY <1>3, <2>1, ListsDials DEF ResetList, liveVars
    <2> QED BY <1>3, <2>3, <2>4 DEF ResetList, liveVars, recVars, LiveTypes, RecTypes
  <1>4. ASSUME NEW t \in WebThreads, ResetSave(t) PROVE Types'
    <2>1. PICK c \in web[t].copies :
            /\ liveRows' = [liveRows EXCEPT ![c[1]][c[2]] = "reset"]
            /\ web' = [web EXCEPT ![t].copies = @ \ {c},
                                  ![t].pc = IF @ = "reset" /\ web[t].copies = {c}
                                            THEN "idle" ELSE @]
      BY <1>4 DEF ResetSave
    <2>2. PICK listed \in SUBSET RowIds, pc \in {"idle", "reset"} :
            web' = [web EXCEPT ![t].copies = listed, ![t].pc = pc]
      <3>1. web[t].copies \ {c} \in SUBSET RowIds
        BY DEF WebTypes, WebStates
      <3>2. (IF web[t].pc = "reset" /\ web[t].copies = {c} THEN "idle" ELSE web[t].pc)
              \in {"idle", "reset"}
        BY <1>4 DEF ResetSave
      <3>3. web' = [web EXCEPT ![t].copies = web[t].copies \ {c},
                               ![t].pc = IF web[t].pc = "reset" /\ web[t].copies = {c}
                                         THEN "idle" ELSE web[t].pc]
        BY <2>1 DEF WebTypes, WebStates
      <3> QED BY <3>1, <3>2, <3>3
    <2>3. WebTypes'
      BY <2>2, WebLists DEF Places
    <2>4. Dials'
      BY <1>4, <2>2, ListsDials DEF ResetSave
    <2>5. liveRows' \in RowsType
      BY <2>1 DEF LiveTypes, RowsType, RowStates
    <2> QED BY <1>4, <2>3, <2>4, <2>5 DEF ResetSave, recVars, LiveTypes, RecTypes
  <1>5. ASSUME NEW s \in Sessions, TimeoutStop(s) PROVE Types'
    <2>1. "timeout" \in EndReasons
      BY DEF EndReasons
    <2>2. WebTypes' /\ RecTypes' /\ Dials'
      BY <1>5 DEF TimeoutStop, recVars, RecTypes, Dials, WebTypes
    <2>3. liveSession' \in 0..MaxSessions /\ liveRows' \in RowsType /\ liveEnd' \in EndsType
             /\ liveProcess' \subseteq Sessions
      BY <1>5, <2>1, StopType DEF TimeoutStop, LiveTypes
    <2> QED BY <1>5, <2>2, <2>3 DEF TimeoutStop, LiveTypes
  <1>6. ASSUME NEW s \in Sessions, Monitor(s) PROVE Types'
    <2>1. "process_error" \in EndReasons
      BY DEF EndReasons
    <2>2. WebTypes' /\ RecTypes' /\ Dials'
      BY <1>6 DEF Monitor, recVars, RecTypes, Dials, WebTypes
    <2>3. liveSession' \in 0..MaxSessions /\ liveRows' \in RowsType /\ liveEnd' \in EndsType
             /\ liveProcess' \subseteq Sessions
      BY <1>6, <2>1, StopType DEF Monitor, LiveTypes
    <2> QED BY <1>6, <2>2, <2>3 DEF Monitor, LiveTypes
  <1>7. ASSUME NEW s \in Sessions, LiveProcessExits(s) PROVE Types'
    BY <1>7 DEF LiveProcessExits, LiveTypes, RecTypes, recVars, WebTypes, Dials
  <1> QED BY <1>1, <1>2, <1>3, <1>4, <1>5, <1>6, <1>7

(* So does every step of the recorder, and of what happens around both.    *)
LEMMA TypesRec ==
  ASSUME Parameters, Types,
         \/ RecordingStatus
         \/ \E t \in WebThreads : AskRecording(t) \/ RecordingStart(t) \/ RecordingRefused(t)
         \/ \E n \in Recordings, valid \in BOOLEAN : RecordingTimeout(n, valid)
         \/ \E n \in Recordings :
              SaveRecording(n) \/ DiscardRecording(n) \/ RecorderProcessExits(n)
         \/ \E valid \in BOOLEAN : StopRecording(valid)
  PROVE  Types'
  <1> USE DEF Types
  <1>1. CASE RecordingStatus
    BY <1>1 DEF RecordingStatus, RecoverRecorder, liveVars, LiveTypes, RecTypes, WebTypes, Dials, Parameters
  <1>2. ASSUME NEW t \in WebThreads, AskRecording(t) PROVE Types'
    <2>1. WebTypes' /\ RecTypes' /\ Dials'
      BY <1>2, WebMoves DEF AskRecording, recVars, RecTypes, Dials, WebTypes, WebStates, Places
    <2> QED BY <1>2, <2>1, RecoveredType DEF AskRecording, LiveTypes, Parameters
  <1>3. ASSUME NEW t \in WebThreads, RecordingStart(t) \/ RecordingRefused(t) PROVE Types'
    <2>1. WebTypes' /\ LiveTypes' /\ Dials'
      <3>1. web' = [web EXCEPT ![t] = Idle] /\ UNCHANGED liveVars
        BY <1>3 DEF RecordingStart, RecordingRefused
      <3>2. WebTypes'
        BY <3>1, WebIdle
      <3>3. Dials'
        BY <3>1 DEF liveVars, Dials, WebTypes, Idle
      <3> QED BY <3>1, <3>2, <3>3 DEF liveVars, LiveTypes
    <2>2. RecTypes'
      <3>1. CASE RecordingStart(t)
        <4>1. recCount' \in Recordings
          BY <3>1 DEF RecordingStart, LiveTypes, RecTypes, Recordings, Parameters
        <4> QED BY <3>1, <4>1 DEF RecordingStart, RecTypes, Recordings
      <3>2. CASE RecordingRefused(t)
        BY <3>2 DEF RecordingRefused, RecoverRecorder, RecTypes, Parameters
      <3> QED BY <1>3, <3>1, <3>2
    <2> QED BY <2>1, <2>2
  <1>4. ASSUME NEW n \in Recordings, NEW valid \in BOOLEAN, RecordingTimeout(n, valid)
        PROVE  Types'
    BY <1>4 DEF RecordingTimeout, FinishRecording, liveVars, LiveTypes, RecTypes, WebTypes, Dials, Parameters
  <1>5. ASSUME NEW n \in Recordings,
               SaveRecording(n) \/ DiscardRecording(n) \/ RecorderProcessExits(n)
        PROVE  Types'
    BY <1>5 DEF SaveRecording, DiscardRecording, RecorderProcessExits, liveVars, LiveTypes, RecTypes,
       WebTypes, Dials
  <1>6. ASSUME NEW valid \in BOOLEAN, StopRecording(valid) PROVE Types'
    <2>1. recording \in Recordings
      BY <1>6 DEF StopRecording, RecTypes, Recordings, Parameters
    <2> QED BY <1>6, <2>1 DEF StopRecording, FinishRecording, liveVars, LiveTypes, RecTypes, WebTypes,
               Dials, Parameters
  <1> QED BY <1>1, <1>2, <1>3, <1>4, <1>5, <1>6

LEMMA TypesRestart ==
  ASSUME Parameters, Types, NEW survivors \in BOOLEAN, Restart(survivors)
  PROVE  Types'
  <1>1. LiveTypes'
    BY DEF Restart, Types, LiveTypes, Parameters
  <1>2. RecTypes'
    BY DEF Restart, Types, RecTypes, Recordings, Parameters
  <1>3. WebTypes' /\ Dials'
    BY DEF Restart, Types, WebTypes, Dials, WebStates, Places, Idle
  <1> QED BY <1>1, <1>2, <1>3 DEF Types

LEMMA TypesStep == ASSUME Parameters, Types, [Next]_micVars PROVE Types'
  <1>1. CASE Next
    BY <1>1, TypesLive, TypesStop, TypesRec, TypesRestart DEF Next
  <1>2. CASE UNCHANGED micVars
    BY <1>2 DEF micVars, liveVars, recVars, Types, LiveTypes, RecTypes, WebTypes, Dials
  <1> QED BY <1>1, <1>2

LEMMA TypesAlways == Spec => []Types
  <1> USE ParametersHold
  <1>1. Init => Types
    BY TypesInit
  <1>2. Types /\ [Next]_micVars => Types'
    BY TypesStep
  <1> QED BY <1>1, <1>2, PTL DEF Spec

(* Every variable of the microphone's users keeps its type.                *)
THEOREM TypeCorrect == Spec => []TypeOK
  <1>1. Types => TypeOK
    BY TypesImply
  <1> QED BY <1>1, TypesAlways, PTL

-----------------------------------------------------------------------------
(* Recordings.  RecordingsAreSound is not inductive: it does not say that  *)
(* the running recording has its file and is not among the completed ones, *)
(* nor that what can still be saved has not been, nor that the number of   *)
(* the next recording is new.                                              *)
RecInv ==
  /\ RecordingIsReachable
  /\ recording \notin completed
  /\ recording # 0 => recording \in tempFiles
  /\ recording <= recCount /\ \A n \in completed : n <= recCount
  /\ \A n \in Recordings :
       /\ stored[n] <= 1
       /\ n \in completed \/ n = recording \/ n > recCount => stored[n] = 0

(* _recover_if_exited, with which most entry points begin.                 *)
LEMMA RecoverKeeps ==
  ASSUME RecTypes, RecInv, RecoverRecorder, UNCHANGED <<recCount, completed, stored, cutOff>>
  PROVE  RecInv'
  <1>1. CASE RecorderExited
    <2>1. recording' = 0 /\ tempFiles' = tempFiles \ {recording}
      BY <1>1 DEF RecoverRecorder
    <2>2. 0 \notin Recordings
      BY DEF Recordings
    <2> QED BY <2>1, <2>2 DEF RecTypes, RecInv, RecordingIsReachable, Recordings
  <1>2. CASE ~RecorderExited
    BY <1>2 DEF RecInv, RecordingIsReachable, RecoverRecorder
  <1> QED BY <1>1, <1>2

(* The end of the running recording, by request or by its own timer.       *)
LEMMA FinishKeeps ==
  ASSUME RecTypes, RecInv, recording # 0, NEW valid \in BOOLEAN, FinishRecording(recording, valid),
         UNCHANGED <<recCount, stored, cutOff>>
  PROVE  RecInv'
  <1>1. recording' = 0 /\ 0 \notin Recordings
    BY DEF FinishRecording, Recordings
  <1>2. CASE valid
    BY <1>1, <1>2 DEF FinishRecording, RecTypes, RecInv, RecordingIsReachable, Recordings
  <1>3. CASE ~valid
    BY <1>1, <1>3 DEF FinishRecording, RecTypes, RecInv, RecordingIsReachable, Recordings
  <1> QED BY <1>2, <1>3

LEMMA RecStep == ASSUME Parameters, Types, RecInv, [Next]_micVars PROVE RecInv'
  <1> USE DEF Types
  <1>1. CASE UNCHANGED recVars
    BY <1>1 DEF recVars, RecInv, RecordingIsReachable
  <1>2. CASE RecordingStatus \/ \E t \in WebThreads :
               RecordingRefused(t) \/ \E chosen \in SUBSET LiveSpeakers : AskLive(t, chosen)
    BY <1>2, RecoverKeeps DEF RecordingStatus, RecordingRefused, AskLive
  <1>3. ASSUME NEW t \in WebThreads, RecordingStart(t) PROVE RecInv'
    <2>1. recCount' = recCount + 1 /\ recording' = recCount + 1 /\ recCount + 1 \in Recordings
      BY <1>3 DEF RecordingStart, LiveTypes, RecTypes, Recordings, Parameters
    <2>2. tempFiles' = (tempFiles \ {recording}) \union {recCount + 1}
      BY <1>3 DEF RecordingStart
    <2>3. UNCHANGED <<completed, stored, cutOff>>
      BY <1>3 DEF RecordingStart
    <2> QED BY <2>1, <2>2, <2>3 DEF RecTypes, RecInv, RecordingIsReachable, Recordings
  <1>4. ASSUME NEW n \in Recordings, NEW valid \in BOOLEAN, RecordingTimeout(n, valid)
        PROVE  RecInv'
    <2>1. CASE recording = n
      <3>1. recording # 0
        BY <2>1 DEF Recordings
      <3> QED BY <1>4, <2>1, <3>1, FinishKeeps DEF RecordingTimeout
    <2>2. CASE recording # n
      BY <1>4, <2>2 DEF RecordingTimeout, RecInv, RecordingIsReachable
    <2> QED BY <2>1, <2>2
  <1>5. ASSUME NEW n \in Recordings, SaveRecording(n) PROVE RecInv'
    <2>1. stored' = [stored EXCEPT ![n] = 1]
      <3>1. stored[n] = 0
        BY <1>5 DEF SaveRecording, RecInv
      <3>2. stored' = [stored EXCEPT ![n] = stored[n] + 1]
        BY <1>5 DEF SaveRecording
      <3> QED BY <3>1, <3>2
    <2>2. tempFiles' = tempFiles \ {n} /\ completed' = completed \ {n} /\ n \in completed
      BY <1>5 DEF SaveRecording
    <2>3. UNCHANGED <<recCount, recording, cutOff>>
      BY <1>5 DEF SaveRecording
    <2> QED BY <2>1, <2>2, <2>3 DEF RecTypes, RecInv, RecordingIsReachable, Recordings
  <1>6. ASSUME NEW n \in Recordings, DiscardRecording(n) \/ RecorderProcessExits(n) PROVE RecInv'
    BY <1>6 DEF DiscardRecording, RecorderProcessExits, RecTypes, RecInv, RecordingIsReachable
  <1>7. ASSUME NEW valid \in BOOLEAN, StopRecording(valid) PROVE RecInv'
    BY <1>7, FinishKeeps DEF StopRecording
  <1>8. ASSUME NEW survivors \in BOOLEAN, Restart(survivors) PROVE RecInv'
    <2>1. recording' = 0 /\ completed' = {} /\ 0 \notin Recordings
      BY <1>8 DEF Restart, Recordings
    <2>2. cutOff' = cutOff \union completed \union ({recording} \ {0})
      BY <1>8 DEF Restart
    <2>3. UNCHANGED <<recCount, tempFiles, stored>>
      BY <1>8 DEF Restart
    <2> QED BY <2>1, <2>2, <2>3 DEF RecTypes, RecInv, RecordingIsReachable, Recordings
  <1>9. CASE Next
    <2>1. \/ UNCHANGED recVars
          \/ RecordingStatus
          \/ \E t \in WebThreads : RecordingRefused(t) \/ RecordingStart(t)
                 \/ \E chosen \in SUBSET LiveSpeakers : AskLive(t, chosen)
          \/ \E n \in Recordings, valid \in BOOLEAN : RecordingTimeout(n, valid)
          \/ \E n \in Recordings : SaveRecording(n) \/ DiscardRecording(n) \/ RecorderProcessExits(n)
          \/ \E valid \in BOOLEAN : StopRecording(valid)
          \/ \E survivors \in BOOLEAN : Restart(survivors)
      BY <1>9 DEF Next, LiveStatus, LiveRefused, LiveGivesUp, LiveStart, LiveDialled, StopLive, ResetList,
         ResetSave, AskRecording, TimeoutStop, Monitor, LiveProcessExits
    <2> QED BY <2>1, <1>1, <1>2, <1>3, <1>4, <1>5, <1>6, <1>7, <1>8
  <1>10. CASE UNCHANGED micVars
    BY <1>1, <1>10 DEF micVars
  <1> QED BY <1>9, <1>10

(* A finished recording stays on disk until it is saved or discarded, no   *)
(* file is left behind but by a restart, and no recording is stored twice  *)
(* (AudioRecorderManager), for any number of recordings and requests.      *)
THEOREM RecordingsAlways == Spec => []RecordingsAreSound
  <1> USE ParametersHold
  <1>1. Init => RecInv
    BY DEF Parameters, Init, RecInv, RecordingIsReachable, Recordings
  <1>2. Types /\ RecInv /\ [Next]_micVars => RecInv'
    BY RecStep
  <1>3. RecInv => RecordingsAreSound
    BY DEF RecInv, RecordingsAreSound, StoredOnce
  <1> QED BY <1>1, <1>2, <1>3, TypesAlways, PTL DEF Spec

-----------------------------------------------------------------------------
(* Live sessions.  Between the rows of a session and its calls lies the    *)
(* dialling, which holds the lock: until the calls are known, the rows of  *)
(* the new session say nothing but playing, unless a reset changed them.   *)
OneProcess == \A x, y \in liveProcess : x = y

NoStaleRows(s) == \A r \in Sessions \ {s}, p \in LiveSpeakers : liveRows[r][p] # "playing"

DialInv ==
  \A t \in WebThreads : web[t].pc = "dialing" =>
    /\ liveLock = t
    /\ liveSession = 0
    /\ NoStaleRows(liveCount)
    /\ \A p \in LiveSpeakers :
         liveRows[liveCount][p] \in
           IF p \in web[t].speakers THEN {"playing", "reset"} ELSE {"none", "reset"}

LiveInv ==
  /\ OneProcess
  /\ LiveHoldsItsSpeakers
  /\ StaleRowsAreGone
  /\ liveSession # 0 => liveSession = liveCount
  /\ SuccessWasConnected
  /\ TimeoutWasItsOwn
  /\ DialInv

(* With the lock free nobody dials.                                        *)
LEMMA NobodyDials ==
  ASSUME Parameters, DialInv, liveLock = NoThread, NEW t \in WebThreads
  PROVE  web[t].pc # "dialing"
  BY DEF Parameters, DialInv

(* A recovery makes nothing a success or a timeout.                        *)
LEMMA RecoveredIsNoSuccess ==
  ASSUME Parameters, LiveTypes
  PROVE  /\ \A s \in Sessions, p \in LiveSpeakers :
              RecoveredRows[s][p] = "success" => liveRows[s][p] = "success"
         /\ \A s \in Sessions : RecoveredEnd[s] = "timeout" => liveEnd[s] = "timeout"
  <1>1. CASE ProcessExited
    <2>1. liveSession \in Sessions
      BY <1>1 DEF ProcessExited, LiveTypes, Sessions, Parameters
    <2>2. RecoveredRows = Finished(liveRows, liveSession, "process_error")
      BY <1>1 DEF RecoveredRows
    <2>3. RecoveredEnd = [liveEnd EXCEPT ![liveSession] = "process_error"]
      BY <1>1 DEF RecoveredEnd
    <2> QED BY <2>1, <2>2, <2>3 DEF Finished, LiveTypes, RowsType, EndsType
  <1>2. CASE ~ProcessExited
    BY <1>2 DEF RecoveredRows, RecoveredEnd
  <1> QED BY <1>1, <1>2

(* The end of a session, whoever brings it about: the calls that were up   *)
(* are ended, other rows stay.                                             *)
LEMMA EndKeeps ==
  ASSUME Types, LiveInv,
         liveSession' = 0, liveProcess' \subseteq liveProcess, UNCHANGED calls,
         \/ UNCHANGED liveRows
         \/ \E s \in Sessions, state \in {"success", "process_error"} :
              liveRows' = Finished(liveRows, s, state),
         TimeoutWasItsOwn', \A t \in WebThreads : web'[t].pc # "dialing"
  PROVE  LiveInv'
  <1>1. SuccessWasConnected'
    <2>1. CASE UNCHANGED liveRows
      BY <2>1 DEF LiveInv, SuccessWasConnected
    <2>2. ASSUME NEW s \in Sessions, NEW state \in {"success", "process_error"},
                 liveRows' = Finished(liveRows, s, state)
          PROVE  SuccessWasConnected'
      BY <2>2 DEF LiveInv, SuccessWasConnected, Finished, InSession, Types, LiveTypes, RowsType
    <2> QED BY <2>1, <2>2
  <1>2. OneProcess'
    BY DEF LiveInv, OneProcess
  <1>3. LiveHoldsItsSpeakers' /\ StaleRowsAreGone' /\ DialInv'
    BY DEF LiveHoldsItsSpeakers, StaleRowsAreGone, DialInv
  <1> QED BY <1>1, <1>2, <1>3 DEF LiveInv

(* A step that leaves sessions, rows and calls alone.                      *)
LEMMA QuietKeeps ==
  ASSUME LiveInv, liveProcess' \subseteq liveProcess,
         UNCHANGED <<liveCount, liveSession, liveLock, liveRows, calls, liveEnd>>,
         expired \subseteq expired',
         \A t \in WebThreads : web'[t].pc = "dialing" =>
           web[t].pc = "dialing" /\ web'[t].speakers = web[t].speakers
  PROVE  LiveInv'
  <1>1. OneProcess'
    BY DEF LiveInv, OneProcess
  <1>2. LiveHoldsItsSpeakers' /\ StaleRowsAreGone' /\ SuccessWasConnected' /\ TimeoutWasItsOwn'
    BY DEF LiveInv, LiveHoldsItsSpeakers, StaleRowsAreGone, SuccessWasConnected, TimeoutWasItsOwn,
       InSession
  <1>3. DialInv'
    BY DEF LiveInv, DialInv, NoStaleRows
  <1> QED BY <1>1, <1>2, <1>3 DEF LiveInv

LEMMA StartKeeps ==
  ASSUME Parameters, Types, LiveInv, NEW t \in WebThreads, LiveStart(t)
  PROVE  LiveInv'
  <1> DEFINE n == liveCount + 1
  <1>1. n \in Sessions /\ liveCount' = n
    BY DEF LiveStart, Types, LiveTypes, RecTypes, Sessions, Parameters
  <1>2. liveSession' = 0
    BY DEF LiveStart, MayStart, LiveActive, RecoveredSession, ProcessExited
  <1>3. \A u \in WebThreads : web[u].pc # "dialing"
    BY NobodyDials DEF LiveStart, LiveInv
  <1>4. OneProcess'
    BY <1>1 DEF LiveStart, PortsFree, LiveInv, OneProcess
  <1> HIDE DEF n
  <1>5. RecoveredRows \in RowsType
    BY RecoveredType DEF Types
  <1>6. liveRows' = [Cleared(RecoveredRows) EXCEPT ![n] =
          [p \in LiveSpeakers |-> IF p \in web[t].speakers THEN "playing" ELSE "none"]]
    BY <1>1 DEF LiveStart
  <1>7. \A p \in LiveSpeakers :
          liveRows'[n][p] = IF p \in web[t].speakers THEN "playing" ELSE "none"
    BY <1>1, <1>5, <1>6 DEF Cleared
  <1>8. \A s \in Sessions \ {n}, p \in LiveSpeakers :
          liveRows'[s][p] = IF RecoveredRows[s][p] = "playing" THEN "server_restart"
                            ELSE RecoveredRows[s][p]
    BY <1>1, <1>5, <1>6 DEF Cleared
  <1>9. SuccessWasConnected'
    <2> SUFFICES ASSUME NEW s \in Sessions, NEW p \in LiveSpeakers, liveRows'[s][p] = "success"
                 PROVE  calls'[s][p] = "active"
      BY DEF SuccessWasConnected
    <2>1. s # n
      BY <1>7
    <2>2. RecoveredRows[s][p] = "success"
      BY <1>8, <2>1
    <2>3. liveRows[s][p] = "success"
      BY <2>2, RecoveredIsNoSuccess DEF Types
    <2> QED BY <2>3 DEF LiveInv, SuccessWasConnected, LiveStart
  <1>10. TimeoutWasItsOwn'
    <2>1. \A s \in Sessions : liveEnd'[s] = "timeout" => liveEnd[s] = "timeout"
      BY RecoveredIsNoSuccess DEF LiveStart, Types
    <2> QED BY <2>1 DEF LiveInv, TimeoutWasItsOwn, LiveStart
  <1>11. DialInv'
    <2> SUFFICES ASSUME NEW u \in WebThreads, web'[u].pc = "dialing"
                 PROVE  /\ liveLock' = u
                        /\ web'[u].speakers = web[t].speakers
      BY <1>1, <1>2, <1>7, <1>8 DEF DialInv, NoStaleRows
    <2>1. CASE PortsFree
      <3>1. web' = [web EXCEPT ![t].pc = "dialing"] /\ liveLock' = t
        BY <2>1 DEF LiveStart
      <3>2. u = t
        BY <1>3, <3>1 DEF Types, WebTypes
      <3>3. web'[t] = [web[t] EXCEPT !.pc = "dialing"]
        BY <3>1 DEF Types, WebTypes
      <3>4. web'[t].speakers = web[t].speakers
        BY <3>3 DEF Types, WebTypes, WebStates
      <3> QED BY <3>1, <3>2, <3>4
    <2>2. CASE ~PortsFree
      <3>1. web' = [web EXCEPT ![t] = Idle]
        BY <2>2 DEF LiveStart
      <3> QED BY <1>3, <3>1 DEF Idle, Types, WebTypes
    <2> QED BY <2>1, <2>2
  <1>12. LiveHoldsItsSpeakers' /\ StaleRowsAreGone'
    BY <1>2 DEF LiveHoldsItsSpeakers, StaleRowsAreGone
  <1> QED BY <1>2, <1>4, <1>9, <1>10, <1>11, <1>12 DEF LiveInv

LEMMA GivesUpKeeps ==
  ASSUME Parameters, Types, LiveInv, NEW t \in WebThreads, LiveGivesUp(t)
  PROVE  LiveInv'
  <1>1. liveSession' = 0
    BY DEF LiveGivesUp, MayStart, LiveActive, RecoveredSession, ProcessExited
  <1>2. \A u \in WebThreads : web'[u].pc # "dialing"
    BY NobodyDials DEF LiveGivesUp, LiveInv, Types, WebTypes, Idle
  <1>3. SuccessWasConnected'
    <2> SUFFICES ASSUME NEW s \in Sessions, NEW p \in LiveSpeakers, liveRows'[s][p] = "success"
                 PROVE  calls'[s][p] = "active"
      BY DEF SuccessWasConnected
    <2>1. RecoveredRows[s][p] = "success"
      BY RecoveredType DEF LiveGivesUp, Cleared, Types
    <2>2. liveRows[s][p] = "success"
      BY <2>1, RecoveredIsNoSuccess DEF Types
    <2> QED BY <2>2 DEF LiveInv, SuccessWasConnected, LiveGivesUp
  <1>4. TimeoutWasItsOwn'
    <2>1. \A s \in Sessions : liveEnd'[s] = "timeout" => liveEnd[s] = "timeout"
      BY RecoveredIsNoSuccess DEF LiveGivesUp, Types
    <2> QED BY <2>1 DEF LiveInv, TimeoutWasItsOwn, LiveGivesUp
  <1>5. OneProcess'
    BY DEF LiveGivesUp, LiveInv, OneProcess
  <1>6. LiveHoldsItsSpeakers' /\ StaleRowsAreGone' /\ DialInv'
    BY <1>1, <1>2 DEF LiveHoldsItsSpeakers, StaleRowsAreGone, DialInv
  <1> QED BY <1>1, <1>3, <1>4, <1>5, <1>6 DEF LiveInv

LEMMA DialledKeeps ==
  ASSUME Parameters, Types, LiveInv, NEW t \in WebThreads, NEW answered \in SUBSET LiveSpeakers,
         LiveDialled(t, answered)
  PROVE  LiveInv'
  <1> DEFINE s == liveCount
  <1>1. s \in Sessions
    BY DEF LiveDialled, Types, Dials, LiveTypes, Sessions, Parameters
  <1>2. web[t].pc = "dialing" /\ answered \subseteq web[t].speakers
    BY DEF LiveDialled
  <1>3. /\ liveLock = t /\ NoStaleRows(s)
        /\ \A p \in LiveSpeakers :
             liveRows[s][p] \in IF p \in web[t].speakers THEN {"playing", "reset"} ELSE {"none", "reset"}
    BY <1>2 DEF LiveInv, DialInv
  <1>4. \A u \in WebThreads : web'[u].pc # "dialing"
    <2>1. \A u \in WebThreads \ {t} : web[u].pc # "dialing"
      BY <1>3 DEF LiveInv, DialInv
    <2> QED BY <2>1 DEF LiveDialled, Types, WebTypes, Idle
  <1>5. /\ liveSession' = IF answered = {} \/ s \notin liveProcess THEN 0 ELSE s
        /\ liveCount' = s
    BY DEF LiveDialled
  <1>6. \A p \in LiveSpeakers :
          calls'[s][p] = IF p \in answered THEN "active"
                         ELSE IF p \in web[t].speakers THEN "failed" ELSE "none"
    BY <1>1 DEF LiveDialled, Types, LiveTypes
  <1>7. \A p \in LiveSpeakers :
          liveRows'[s][p] = IF p \in web[t].speakers \ answered THEN "refused"
                            ELSE IF p \in answered /\ s \notin liveProcess THEN "process_error"
                            ELSE liveRows[s][p]
    BY <1>1 DEF LiveDialled, Types, LiveTypes, RowsType
  <1>8. \A r \in Sessions \ {s} : liveRows'[r] = liveRows[r] /\ calls'[r] = calls[r]
    BY <1>1 DEF LiveDialled, Types, LiveTypes, RowsType
  <1>9. OneProcess'
    BY DEF LiveDialled, LiveInv, OneProcess
  <1> HIDE DEF s
  <1>10. SuccessWasConnected'
    BY <1>3, <1>6, <1>7, <1>8 DEF LiveInv, SuccessWasConnected
  <1>11. LiveHoldsItsSpeakers'
    BY <1>1, <1>2, <1>3, <1>5, <1>6, <1>7 DEF LiveHoldsItsSpeakers, InSession
  <1>12. StaleRowsAreGone'
    BY <1>3, <1>5, <1>8 DEF StaleRowsAreGone, NoStaleRows
  <1>13. TimeoutWasItsOwn'
    <2>1. \A r \in Sessions : liveEnd'[r] = "timeout" => liveEnd[r] = "timeout"
      BY <1>1 DEF LiveDialled, Types, LiveTypes, EndsType
    <2> QED BY <2>1 DEF LiveDialled, LiveInv, TimeoutWasItsOwn
  <1>14. DialInv'
    BY <1>4 DEF DialInv
  <1> QED BY <1>5, <1>9, <1>10, <1>11, <1>12, <1>13, <1>14 DEF LiveInv

(* A reset overwrites a row that it listed some time ago.                  *)
LEMMA ResetKeeps ==
  ASSUME Types, LiveInv, NEW t \in WebThreads, ResetSave(t)
  PROVE  LiveInv'
  <1>1. PICK c \in web[t].copies :
          liveRows' = [liveRows EXCEPT ![c[1]][c[2]] = "reset"]
    BY DEF ResetSave
  <1>2. \A s \in Sessions, p \in LiveSpeakers :
          liveRows'[s][p] = liveRows[s][p] \/ liveRows'[s][p] = "reset"
    BY <1>1 DEF Types, LiveTypes, RowsType
  <1>3. UNCHANGED <<liveCount, liveSession, liveLock, calls, liveProcess, liveEnd, expired>>
    BY DEF ResetSave
  <1>4. \A u \in WebThreads : web'[u].pc = "dialing" => web'[u] = web[u]
    <2> SUFFICES ASSUME NEW u \in WebThreads, web'[u].pc = "dialing" PROVE web'[u] = web[u]
      OBVIOUS
    <2>1. CASE u # t
      BY <2>1 DEF ResetSave, Types, WebTypes
    <2>2. CASE u = t
      <3>1. PICK listed \in SUBSET RowIds, pc \in {"idle", "reset"} :
              web' = [web EXCEPT ![t].copies = listed, ![t].pc = pc]
        <4>1. PICK d \in web[t].copies :
                web' = [web EXCEPT ![t].copies = @ \ {d},
                                   ![t].pc = IF @ = "reset" /\ web[t].copies = {d}
                                             THEN "idle" ELSE @]
          BY DEF ResetSave
        <4>2. (IF web[t].pc = "reset" /\ web[t].copies = {d} THEN "idle" ELSE web[t].pc)
                \in {"idle", "reset"}
          BY DEF ResetSave
        <4>3. web' = [web EXCEPT ![t].copies = web[t].copies \ {d},
                                 ![t].pc = IF web[t].pc = "reset" /\ web[t].copies = {d}
                                           THEN "idle" ELSE web[t].pc]
          BY <4>1 DEF Types, WebTypes, WebStates
        <4>4. web[t].copies \ {d} \in SUBSET RowIds
          BY DEF Types, WebTypes, WebStates
        <4> QED BY <4>2, <4>3, <4>4
      <3>2. web'[t] = [web[t] EXCEPT !.copies = listed, !.pc = pc]
        BY <3>1 DEF Types, WebTypes
      <3>3. web'[t].pc = pc
        BY <3>2 DEF Types, WebTypes, WebStates
      <3> QED BY <2>2, <3>1, <3>3
    <2> QED BY <2>1, <2>2
  <1>5. OneProcess' /\ SuccessWasConnected' /\ TimeoutWasItsOwn'
    BY <1>2, <1>3 DEF LiveInv, OneProcess, SuccessWasConnected, TimeoutWasItsOwn
  <1>6. LiveHoldsItsSpeakers'
    <2>1. liveSession # 0 => liveSession \in Sessions
      BY DEF Types, LiveTypes, Sessions
    <2> QED BY <1>2, <1>3, <2>1 DEF LiveInv, LiveHoldsItsSpeakers, InSession
  <1>7. StaleRowsAreGone'
    BY <1>2, <1>3 DEF LiveInv, StaleRowsAreGone
  <1>8. DialInv'
    <2> SUFFICES ASSUME NEW u \in WebThreads, web'[u].pc = "dialing"
                 PROVE  /\ liveLock' = u /\ liveSession' = 0 /\ NoStaleRows(liveCount)'
                        /\ \A p \in LiveSpeakers :
                             liveRows'[liveCount'][p] \in
                               IF p \in web'[u].speakers THEN {"playing", "reset"} ELSE {"none", "reset"}
      BY DEF DialInv
    <2>1. web'[u] = web[u]
      BY <1>4
    <2>2. liveCount \in Sessions
      BY <2>1 DEF Types, Dials, LiveTypes, Sessions
    <2> QED BY <1>2, <1>3, <2>1, <2>2 DEF LiveInv, DialInv, NoStaleRows
  <1> QED BY <1>3, <1>5, <1>6, <1>7, <1>8 DEF LiveInv

LEMMA LiveStep == ASSUME Parameters, Types, LiveInv, [Next]_micVars PROVE LiveInv'
  <1>1. ASSUME liveLock = NoThread
        PROVE  \A t \in WebThreads : web[t].pc # "dialing"
    BY <1>1, NobodyDials DEF LiveInv
  <1>2. ASSUME NEW t \in WebThreads, NEW chosen \in SUBSET LiveSpeakers, AskLive(t, chosen)
        PROVE  LiveInv'
    <2>1. \A u \in WebThreads : web'[u].pc = "dialing" => web'[u] = web[u]
      BY <1>2 DEF AskLive, Types, WebTypes, WebStates
    <2> QED BY <1>2, <2>1, QuietKeeps DEF AskLive, liveVars
  <1>3. ASSUME LiveStatus \/ \E t \in WebThreads : AskRecording(t) PROVE LiveInv'
    <2>1. \A u \in WebThreads : web'[u].pc # "dialing"
      BY <1>1, <1>3 DEF LiveStatus, AskRecording, Types, WebTypes, WebStates
    <2>2. TimeoutWasItsOwn'
      <3>1. liveEnd' = RecoveredEnd /\ UNCHANGED expired
        BY <1>3 DEF LiveStatus, AskRecording
      <3> QED BY <3>1, RecoveredIsNoSuccess DEF LiveInv, TimeoutWasItsOwn, Types
    <2>3. liveSession' = 0 /\ UNCHANGED <<liveProcess, calls>>
      BY <1>3 DEF LiveStatus, AskRecording
    <2>4. UNCHANGED liveRows \/ \E s \in Sessions : liveRows' = Finished(liveRows, s, "process_error")
      <3>1. liveRows' = RecoveredRows
        BY <1>3 DEF LiveStatus, AskRecording
      <3>2. ProcessExited => liveSession \in Sessions
        BY DEF ProcessExited, Types, LiveTypes, Sessions
      <3> QED BY <3>1, <3>2 DEF RecoveredRows
    <2> QED BY <2>1, <2>2, <2>3, <2>4, EndKeeps
  <1>4. ASSUME NEW t \in WebThreads, LiveRefused(t) PROVE LiveInv'
    <2>1. \A u \in WebThreads : web'[u].pc # "dialing"
      BY <1>1, <1>4 DEF LiveRefused, Types, WebTypes, Idle
    <2>2. CASE ProcessExited
      <3>1. TimeoutWasItsOwn'
        <4>1. liveEnd' = RecoveredEnd /\ UNCHANGED expired
          BY <1>4 DEF LiveRefused
        <4> QED BY <4>1, RecoveredIsNoSuccess DEF LiveInv, TimeoutWasItsOwn, Types
      <3>2. liveSession' = 0 /\ UNCHANGED <<liveProcess, calls>>
        BY <1>4, <2>2 DEF LiveRefused, RecoveredSession
      <3>3. liveRows' = Finished(liveRows, liveSession, "process_error") /\ liveSession \in Sessions
        BY <1>4, <2>2 DEF LiveRefused, RecoveredRows, ProcessExited, Types, LiveTypes, Sessions
      <3> QED BY <2>1, <3>1, <3>2, <3>3, EndKeeps
    <2>3. CASE ~ProcessExited
      BY <1>4, <2>1, <2>3, QuietKeeps DEF LiveRefused, RecoveredRows, RecoveredEnd, RecoveredSession
    <2> QED BY <2>2, <2>3
  <1>5. ASSUME NEW t \in WebThreads, NEW id \in 0..MaxSessions, StopLive(t, id) PROVE LiveInv'
    <2>1. \A u \in WebThreads : web'[u].pc # "dialing"
      BY <1>1, <1>5 DEF StopLive, Types, WebTypes, WebStates
    <2>2. CASE Names(id)
      <3>1. liveSession \in Sessions /\ Stop(liveSession, "manual_stop")
        BY <1>5, <2>2 DEF StopLive, Names, Types, LiveTypes, Sessions
      <3>2. TimeoutWasItsOwn'
        BY <1>5, <3>1 DEF StopLive, Stop, LiveInv, TimeoutWasItsOwn, Types, LiveTypes, EndsType
      <3> QED BY <1>5, <2>1, <3>1, <3>2, EndKeeps DEF StopLive, Stop
    <2>3. CASE ~Names(id)
      BY <1>5, <2>1, <2>3, QuietKeeps DEF StopLive
    <2> QED BY <2>2, <2>3
  <1>6. ASSUME NEW t \in WebThreads, ResetList(t) PROVE LiveInv'
    <2>1. PICK listed \in SUBSET RowIds, pc \in {"idle", "reset"} :
            web' = [web EXCEPT ![t].copies = listed, ![t].pc = pc]
      BY <1>6 DEF ResetList, RowIds
    <2>2. web'[t] = [web[t] EXCEPT !.copies = listed, !.pc = pc]
      BY <2>1 DEF Types, WebTypes
    <2>3. web'[t].pc # "dialing"
      BY <2>2 DEF Types, WebTypes, WebStates
    <2>4. \A u \in WebThreads : web'[u].pc = "dialing" => web'[u] = web[u]
      BY <2>1, <2>3 DEF Types, WebTypes
    <2> QED BY <1>6, <2>4, QuietKeeps DEF ResetList, liveVars
  <1>7. ASSUME NEW s \in Sessions, TimeoutStop(s) PROVE LiveInv'
    <2>1. \A u \in WebThreads : web'[u].pc # "dialing"
      BY <1>1, <1>7 DEF TimeoutStop
    <2>2. CASE liveSession = s
      <3>1. TimeoutWasItsOwn'
        BY <1>7, <2>2 DEF TimeoutStop, Stop, LiveInv, TimeoutWasItsOwn, Types, LiveTypes, EndsType
      <3> QED BY <1>7, <2>1, <2>2, <3>1, EndKeeps DEF TimeoutStop, Stop
    <2>3. CASE liveSession # s
      BY <1>7, <2>1, <2>3, QuietKeeps DEF TimeoutStop
    <2> QED BY <2>2, <2>3
  <1>8. ASSUME NEW s \in Sessions, Monitor(s) PROVE LiveInv'
    <2>1. \A u \in WebThreads : web'[u].pc # "dialing"
      BY <1>1, <1>8 DEF Monitor
    <2>2. CASE liveSession = s
      <3>1. TimeoutWasItsOwn'
        BY <1>8, <2>2 DEF Monitor, Stop, LiveInv, TimeoutWasItsOwn, Types, LiveTypes, EndsType
      <3> QED BY <1>8, <2>1, <2>2, <3>1, EndKeeps DEF Monitor, Stop
    <2>3. CASE liveSession # s
      BY <1>8, <2>1, <2>3, QuietKeeps DEF Monitor
    <2> QED BY <2>2, <2>3
  <1>9. ASSUME NEW s \in Sessions, LiveProcessExits(s) PROVE LiveInv'
    BY <1>9, QuietKeeps DEF LiveProcessExits
  <1>10. ASSUME NEW t \in WebThreads, RecordingStart(t) \/ RecordingRefused(t) PROVE LiveInv'
    <2>1. \A u \in WebThreads : web'[u].pc = "dialing" => web'[u] = web[u]
      BY <1>10 DEF RecordingStart, RecordingRefused, Types, WebTypes, Idle
    <2> QED BY <1>10, <2>1, QuietKeeps DEF RecordingStart, RecordingRefused, liveVars
  <1>11. CASE UNCHANGED <<liveVars, web>>
    BY <1>11, QuietKeeps DEF liveVars
  <1>12. ASSUME NEW survivors \in BOOLEAN, Restart(survivors) PROVE LiveInv'
    <2>1. TimeoutWasItsOwn'
      BY <1>12 DEF Restart, LiveInv, TimeoutWasItsOwn
    <2>2. \A u \in WebThreads : web'[u].pc # "dialing"
      BY <1>12 DEF Restart, Idle
    <2> QED BY <1>12, <2>1, <2>2, EndKeeps DEF Restart
  <1>13. CASE Next
    <2>1. ASSUME NEW n \in Recordings,
                 \/ \E valid \in BOOLEAN : RecordingTimeout(n, valid)
                 \/ SaveRecording(n) \/ DiscardRecording(n) \/ RecorderProcessExits(n)
          PROVE  UNCHANGED <<liveVars, web>>
      BY <2>1 DEF RecordingTimeout, SaveRecording, DiscardRecording, RecorderProcessExits
    <2>2. ASSUME RecordingStatus \/ \E valid \in BOOLEAN : StopRecording(valid)
          PROVE  UNCHANGED <<liveVars, web>>
      BY <2>2 DEF RecordingStatus, StopRecording
    <2> QED BY <1>2, <1>3, <1>4, <1>5, <1>6, <1>7, <1>8, <1>9, <1>10, <1>11, <1>12, <1>13,
               <2>1, <2>2, StartKeeps, GivesUpKeeps, DialledKeeps, ResetKeeps DEF Next
  <1>14. CASE UNCHANGED micVars
    BY <1>11, <1>14 DEF micVars
  <1> QED BY <1>13, <1>14

LEMMA LiveAlways == Spec => []LiveInv
  <1> USE ParametersHold
  <1>1. Init => LiveInv
    BY DEF Init, LiveInv, OneProcess, LiveHoldsItsSpeakers, StaleRowsAreGone, SuccessWasConnected,
       TimeoutWasItsOwn, DialInv, Idle
  <1>2. Types /\ LiveInv /\ [Next]_micVars => LiveInv'
    BY LiveStep
  <1> QED BY <1>1, <1>2, TypesAlways, PTL DEF Spec

(* A live session holds the rows of the speakers it is heard on, no other  *)
(* session keeps a speaker busy, and one pjsua process runs at most, after *)
(* any restarts (LiveBroadcastManager).                                    *)
THEOREM LiveConsistentAlways == Spec => []LiveIsConsistent
  <1>1. Types /\ LiveInv => LiveIsConsistent
    <2> SUFFICES ASSUME Types, LiveInv PROVE OneLiveProcess
      BY DEF LiveInv, LiveIsConsistent
    <2>1. CASE liveProcess = {}
      BY <2>1, FS_EmptySet DEF OneLiveProcess
    <2>2. CASE liveProcess # {}
      <3>1. PICK x : liveProcess = {x}
        BY <2>2 DEF LiveInv, OneProcess
      <3> QED BY <3>1, FS_Singleton DEF OneLiveProcess
    <2> QED BY <2>1, <2>2
  <1> QED BY <1>1, LiveAlways, TypesAlways, PTL

(* A row says success only if the call to its speaker was up, whoever wrote*)
(* it and whatever had been written before.                                *)
THEOREM SuccessAlways == Spec => []SuccessWasConnected
  <1>1. LiveInv => SuccessWasConnected
    BY DEF LiveInv
  <1> QED BY <1>1, LiveAlways, PTL

(* A timer that outlives its session never ends another one.               *)
THEOREM TimeoutAlways == Spec => []TimeoutWasItsOwn
  <1>1. LiveInv => TimeoutWasItsOwn
    BY DEF LiveInv
  <1> QED BY <1>1, LiveAlways, PTL

=============================================================================
