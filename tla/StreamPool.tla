------------------------------ MODULE StreamPool ------------------------------
(***************************************************************************)
(* The shared RTSP captures of one camera: browsers watching it subscribe  *)
(* to the registered capture, whose thread closes it 15 seconds after the  *)
(* last of them left.  A camera whose URL was edited gets a new capture;   *)
(* browsers that loaded the old URL still ask for that one.                *)
(***************************************************************************)
EXTENDS Naturals, FiniteSets

CONSTANTS
  Viewers,      \* browsers, each with its response generator
  Urls,         \* RTSP URLs the camera gets (a bound)
  MaxStreams    \* captures ever opened (a bound)

(* A camera has a URL, and the browsers can be counted.                    *)
ASSUME PoolAssumption ==
  /\ IsFiniteSet(Viewers)
  /\ Urls # {}
  /\ MaxStreams \in Nat

VARIABLES
  opened,       \* captures opened so far
  registered,   \* _streams[camera_id], 0 when there is none
  url,          \* rtsp_url of each capture
  thread,       \* where the thread of each capture is
  subscribers,  \* _subscribers
  idle,         \* _idle_since: none, within the grace time, or past it
  viewer        \* the URL and the capture of each viewer

streamVars == <<opened, registered, url, thread, subscribers, idle, viewer>>

Streams == 1..MaxStreams
(* leaving: the loop has returned; stopped: _stopped is set.               *)
ThreadStates == {"none", "running", "leaving", "stopped", "gone"}
AnyUrl == CHOOSE u \in Urls : TRUE
Away == [at |-> "away", url |-> AnyUrl, stream |-> 0]

PoolTypeOK ==
  /\ opened \in 0..MaxStreams
  /\ registered \in 0..MaxStreams
  /\ url \in [Streams -> Urls]
  /\ thread \in [Streams -> ThreadStates]
  /\ subscribers \in [Streams -> 0..Cardinality(Viewers)]
  /\ idle \in [Streams -> {"none", "grace", "past"}]
  /\ viewer \in [Viewers -> [at : {"away", "asking", "given", "watching"}, url : Urls, stream : 0..MaxStreams]]

PoolInit ==
  /\ opened = 0
  /\ registered = 0
  /\ url = [s \in Streams |-> AnyUrl]
  /\ thread = [s \in Streams |-> "none"]
  /\ subscribers = [s \in Streams |-> 0]
  /\ idle = [s \in Streams |-> "none"]
  /\ viewer = [v \in Viewers |-> Away]

Stopped(s) == thread[s] \in {"stopped", "gone"}

---------------------------------------------------------------------------
(* generate_mjpeg_frames.                                                  *)

(* The camera is loaded, with the URL it has then.                         *)
Arrive(v, u) ==
  /\ viewer[v].at = "away"
  /\ viewer' = [viewer EXCEPT ![v] = [Away EXCEPT !.at = "asking", !.url = u]]
  /\ UNCHANGED <<opened, registered, url, thread, subscribers, idle>>

(* The registered capture is taken if it still runs, for this URL.         *)
Usable(s, u) == s # 0 /\ ~Stopped(s) /\ url[s] = u

(* acquire_camera_stream, under the lock of the registry.                  *)
Acquire(v) ==
  /\ viewer[v].at = "asking"
  /\ LET given(s) == viewer' = [viewer EXCEPT ![v].at = "given", ![v].stream = s] IN
     IF Usable(registered, viewer[v].url)
     THEN given(registered) /\ UNCHANGED <<opened, registered, url, thread>>
     ELSE /\ opened < MaxStreams
          /\ opened' = opened + 1
          /\ registered' = opened'
          /\ url' = [url EXCEPT ![opened'] = viewer[v].url]
          /\ thread' = [thread EXCEPT ![opened'] = "running"]
          /\ given(opened')
  /\ UNCHANGED <<subscribers, idle>>

(* Mutant of RemoveIfCurrent: whatever is registered is removed.           *)
RemoveAny(s) == registered' = 0

(* _remove_stream_if_current.                                              *)
RemoveIfCurrent(s) == registered' = IF registered = s THEN 0 ELSE registered

(* subscribe fails on a capture that stopped meanwhile: ask again.         *)
Subscribe(v) ==
  /\ viewer[v].at = "given"
  /\ LET s == viewer[v].stream IN
     IF Stopped(s)
     THEN /\ RemoveIfCurrent(s)
          /\ viewer' = [viewer EXCEPT ![v].at = "asking"]
          /\ UNCHANGED <<subscribers, idle>>
     ELSE /\ subscribers' = [subscribers EXCEPT ![s] = @ + 1]
          /\ idle' = [idle EXCEPT ![s] = "none"]
          /\ viewer' = [viewer EXCEPT ![v].at = "watching"]
          /\ UNCHANGED registered
  /\ UNCHANGED <<opened, url, thread>>

(* Mutant of Fewer: a viewer that leaves is still counted.                 *)
NotFewer(s) == subscribers

Fewer(s) == [subscribers EXCEPT ![s] = IF @ > 0 THEN @ - 1 ELSE @]

(* Mutant of IdleSince: the grace time does not start.                     *)
ForgetIdle(s) == idle

(* The last viewer to leave starts the grace time.                         *)
IdleSince(s) == [idle EXCEPT ![s] = IF subscribers'[s] = 0 THEN "grace" ELSE @]

Unsubscribe(v) ==
  LET s == viewer[v].stream IN
  /\ subscribers' = Fewer(s)
  /\ idle' = IdleSince(s)
  /\ viewer' = [viewer EXCEPT ![v] = Away]
  /\ UNCHANGED <<opened, registered, url, thread>>

Leave(v) == viewer[v].at = "watching" /\ Unsubscribe(v)

(* No frame comes any more from a capture that stopped.                    *)
StreamEnded(v) == viewer[v].at = "watching" /\ Stopped(viewer[v].stream) /\ Unsubscribe(v)

---------------------------------------------------------------------------
(* SharedCameraStream._run.                                                *)

GraceEnds(s) ==
  /\ idle[s] = "grace"
  /\ idle' = [idle EXCEPT ![s] = "past"]
  /\ UNCHANGED <<opened, registered, url, thread, subscribers, viewer>>

(* _should_stop_for_idle.                                                  *)
ShouldStop(s) == subscribers[s] = 0 /\ idle[s] = "past"

ThreadGoes(s, from, to) ==
  /\ thread[s] = from
  /\ thread' = [thread EXCEPT ![s] = to]
  /\ UNCHANGED <<opened, url, subscribers, idle, viewer>>

StopForIdle(s) == ShouldStop(s) /\ ThreadGoes(s, "running", "leaving") /\ UNCHANGED registered

(* An exception of the video library ends the loop as well.                *)
CaptureFails(s) == ThreadGoes(s, "running", "leaving") /\ UNCHANGED registered

MarkStopped(s) == ThreadGoes(s, "leaving", "stopped") /\ UNCHANGED registered

Remove(s) == ThreadGoes(s, "stopped", "gone") /\ RemoveIfCurrent(s)

PoolNext ==
  \/ \E v \in Viewers :
       \/ \E u \in Urls : Arrive(v, u)
       \/ Acquire(v) \/ Subscribe(v) \/ Leave(v) \/ StreamEnded(v)
  \/ \E s \in Streams :
       GraceEnds(s) \/ StopForIdle(s) \/ CaptureFails(s) \/ MarkStopped(s) \/ Remove(s)

PoolSpec == PoolInit /\ [][PoolNext]_streamVars

(* Threads run, time passes and a generator that was given a capture goes  *)
(* on; nobody has to arrive or to leave.                                   *)
FairStreaming ==
  /\ \A v \in Viewers : WF_streamVars(Acquire(v)) /\ WF_streamVars(Subscribe(v)) /\ WF_streamVars(StreamEnded(v))
  /\ \A s \in Streams : /\ WF_streamVars(GraceEnds(s)) /\ WF_streamVars(StopForIdle(s))
                        /\ WF_streamVars(MarkStopped(s)) /\ WF_streamVars(Remove(s))

FairPoolSpec == PoolSpec /\ FairStreaming

---------------------------------------------------------------------------
(* Viewers are counted right, so that a capture somebody watches is not    *)
(* closed for idleness and one nobody watches is (_subscribers).           *)
CountIsRight ==
  \A s \in Streams :
    subscribers[s] = Cardinality({v \in Viewers : viewer[v].at = "watching" /\ viewer[v].stream = s})

(* A capture that is open but not registered, which no new viewer can share*)
(* any more, was replaced by one of another URL: two RTSP channels to one  *)
(* camera are open for no other reason (the identity test of               *)
(* _remove_stream_if_current).                                             *)
EveryCaptureIsShared ==
  \A s \in Streams :
    thread[s] \in {"running", "leaving"} /\ registered # s
      => \E later \in (s + 1)..opened : url[later] # url[s]

(* The pool knows its captures and their viewers.                          *)
PoolIsConsistent == CountIsRight /\ EveryCaptureIsShared

(* A capture nobody watches is closed, or somebody comes back to it: no    *)
(* camera channel stays open for nobody.                                   *)
IdleCaptureCloses ==
  \A s \in Streams :
    thread[s] = "running" /\ subscribers[s] = 0 ~> subscribers[s] > 0 \/ thread[s] = "gone"

(* A viewer whose capture stopped is let go, and does not wait for ever.   *)
ViewerIsReleased ==
  \A v \in Viewers :
    viewer[v].at = "watching" /\ Stopped(viewer[v].stream) ~> viewer[v].at # "watching"

(* Neither a capture nor a viewer outlives its use.                        *)
CapturesAreReleased == IdleCaptureCloses /\ ViewerIsReleased

===========================================================================
