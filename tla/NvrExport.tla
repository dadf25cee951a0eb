------------------------------ MODULE NvrExport ------------------------------
(***************************************************************************)
(* Recordings of an event, exported from the camera's NVR: operators (and  *)
(* the command request_event_recording) create an evidence row, the NVR    *)
(* prepares the clip as a job of its own, and a later refresh downloads it.*)
(*                                                                         *)
(* Every request works on the copy of the row it loaded and saves the whole*)
(* row, so what another request stored meanwhile is overwritten.  In the   *)
(* simulation mode no NVR is asked and a text file is stored instead.      *)
(***************************************************************************)
EXTENDS Naturals, Sequences

CONSTANTS
  Exporters,     \* request threads and commands working on one event
  MaxEvidence,   \* evidence rows of the event (a bound)
  MaxFiles       \* files ever stored (a bound)

(* The bounds are numbers.                                                 *)
ASSUME ExportAssumption == MaxEvidence \in Nat /\ MaxFiles \in Nat

VARIABLES
  evidence,      \* the rows of the event, oldest first
  nvrJobs,       \* what the NVR knows of the job of each export id
  nvrMode,       \* KRTC_NVR_RECORDING_MODE
  nvrFiles,      \* how many files are stored under event_recordings/
  video,         \* the event's video_url: 0 for "", else the file
  exporter,      \* where each exporter is
  downloaded     \* history: the files of rows saved as completed

nvrVars == <<evidence, nvrJobs, nvrMode, nvrFiles, video, exporter, downloaded>>

(* Export id 0 is "", and SimulatedJob one the NVR has never given.        *)
Jobs == 1..MaxEvidence
SimulatedJob == MaxEvidence + 1
EvidenceStatuses == {"pending", "requested", "exporting", "completed", "failed"}
Evidence == [status : EvidenceStatuses, job : 0..SimulatedJob, file : 0..MaxFiles]
NewEvidence == [status |-> "pending", job |-> 0, file |-> 0]

(* at: the next step; id: the row; copy: the loaded row; video: the        *)
(* video_url of the event that was loaded with it.                         *)
IdleExporter == [at |-> "idle", id |-> 0, copy |-> NewEvidence, video |-> 0]

ExportTypeOK ==
  /\ evidence \in Seq(Evidence) /\ Len(evidence) <= MaxEvidence
  /\ nvrJobs \in [Jobs -> {"unknown", "running", "done", "lost"}]
  /\ nvrMode \in {"nvr", "simulation"}
  /\ nvrFiles \in 0..MaxFiles
  /\ video \in 0..MaxFiles
  /\ exporter \in [Exporters -> [at : {"idle", "create", "request", "ask", "download", "simulate", "save", "video"},
                                 id : 0..MaxEvidence, copy : Evidence, video : 0..MaxFiles]]
  /\ downloaded \subseteq 0..MaxFiles

ExportInit ==
  /\ evidence = << >>
  /\ nvrJobs = [j \in Jobs |-> "unknown"]
  /\ nvrMode \in {"nvr", "simulation"}
  /\ nvrFiles = 0
  /\ video = 0
  /\ exporter = [x \in Exporters |-> IdleExporter]
  /\ downloaded = {}

At(x, where) == exporter[x].at = where

(* Where an exporter goes with which copy of its row.                      *)
Continue(x, where, copy) == exporter' = [exporter EXCEPT ![x].at = where, ![x].copy = copy]

---------------------------------------------------------------------------
(* create_recording_evidence.                                              *)

(* The newest row is given back unless it failed or a new one is forced.   *)
NeedsNew(force) ==
  force \/ \A id \in DOMAIN evidence : id = Len(evidence) => evidence[id].status = "failed"

CreateCheck(x) ==
  /\ At(x, "idle")
  /\ \E force \in BOOLEAN : NeedsNew(force)
  /\ exporter' = [exporter EXCEPT ![x] = [IdleExporter EXCEPT !.at = "create", !.video = video]]
  /\ UNCHANGED <<evidence, nvrJobs, nvrMode, nvrFiles, video, downloaded>>

CreateRow(x) ==
  /\ At(x, "create")
  /\ Len(evidence) < MaxEvidence
  /\ evidence' = Append(evidence, NewEvidence)
  /\ exporter' = [exporter EXCEPT ![x].id = Len(evidence'), ![x].copy = NewEvidence,
                                  ![x].at = IF nvrMode = "simulation" THEN "simulate" ELSE "request"]
  /\ UNCHANGED <<nvrJobs, nvrMode, nvrFiles, video, downloaded>>

(* Mutant of Accepted: the NVR's own word for the state is stored.         *)
AcceptedVerbatim(copy, job) == [copy EXCEPT !.status = "running", !.job = job]

(* request_export: the NVR starts a job and answers with its id; the answer*)
(* may be lost, or be refused.                                             *)
Accepted(copy, job) == [copy EXCEPT !.status = "requested", !.job = job]

ExportRefused(copy) == [copy EXCEPT !.status = "failed"]

RequestExport(x) ==
  /\ At(x, "request")
  /\ LET job == exporter[x].id IN
     \/ nvrJobs' = [nvrJobs EXCEPT ![job] = "running"]
        /\ \/ Continue(x, "save", Accepted(exporter[x].copy, job))
           \/ Continue(x, "save", ExportRefused(exporter[x].copy))
     \/ Continue(x, "save", ExportRefused(exporter[x].copy)) /\ UNCHANGED nvrJobs
  /\ UNCHANGED <<evidence, nvrMode, nvrFiles, video, downloaded>>

---------------------------------------------------------------------------
(* refresh_export_status.                                                  *)

RefreshLoad(x, id) ==
  /\ At(x, "idle")
  /\ LET row == evidence[id]
         go(where, copy) == exporter' = [exporter EXCEPT ![x] =
                              [at |-> where, id |-> id, copy |-> copy, video |-> video]]
     IN \/ nvrMode = "simulation" /\ go("simulate", row)
        \/ nvrMode = "nvr" /\ row.job = 0 /\ go("save", ExportRefused(row))
        \/ nvrMode = "nvr" /\ row.job # 0 /\ go("ask", row)
  /\ UNCHANGED <<evidence, nvrJobs, nvrMode, nvrFiles, video, downloaded>>

(* The NVR's answer; one that cannot be had or read fails the row as well. *)
AskStatus(x) ==
  /\ At(x, "ask")
  /\ LET copy == exporter[x].copy
         is(state) == copy.job \in Jobs /\ nvrJobs[copy.job] = state
     IN \/ is("running") /\ Continue(x, "save", [copy EXCEPT !.status = "exporting"])
        \/ is("done") /\ Continue(x, "download", copy)
        \/ Continue(x, "save", ExportRefused(copy))
  /\ UNCHANGED <<evidence, nvrJobs, nvrMode, nvrFiles, video, downloaded>>

(* Mutant of Completed: completed before the file is stored.               *)
CompletedWithoutFile(copy) == [copy EXCEPT !.status = "completed"]

(* The file is stored first; the row names it when it is saved.            *)
Completed(copy) == [copy EXCEPT !.status = "completed", !.file = nvrFiles']

DownloadExport(x) ==
  /\ At(x, "download")
  /\ \/ /\ nvrFiles < MaxFiles
        /\ nvrFiles' = nvrFiles + 1
        /\ Continue(x, "save", Completed(exporter[x].copy))
     \/ Continue(x, "save", ExportRefused(exporter[x].copy)) /\ UNCHANGED nvrFiles
  /\ UNCHANGED <<evidence, nvrJobs, nvrMode, video, downloaded>>

(* _complete_simulated_evidence.                                           *)
Simulate(x) ==
  /\ At(x, "simulate")
  /\ nvrFiles < MaxFiles
  /\ nvrFiles' = nvrFiles + 1
  /\ LET copy == exporter[x].copy IN
     Continue(x, "save", Completed([copy EXCEPT !.job = IF @ = 0 THEN SimulatedJob ELSE @]))
  /\ UNCHANGED <<evidence, nvrJobs, nvrMode, video, downloaded>>

(* evidence.save(): the whole row.                                         *)
SaveEvidence(x) ==
  /\ At(x, "save")
  /\ LET copy == exporter[x].copy IN
     /\ evidence' = [evidence EXCEPT ![exporter[x].id] = copy]
     /\ downloaded' = IF copy.status = "completed" THEN downloaded \union {copy.file} ELSE downloaded
     /\ IF copy.status = "completed" /\ exporter[x].video = 0
        THEN Continue(x, "video", copy)
        ELSE exporter' = [exporter EXCEPT ![x] = IdleExporter]
  /\ UNCHANGED <<nvrJobs, nvrMode, nvrFiles, video>>

(* The event of the copy had no video: it gets this one.                   *)
SetVideo(x) ==
  /\ At(x, "video")
  /\ video' = exporter[x].copy.file
  /\ exporter' = [exporter EXCEPT ![x] = IdleExporter]
  /\ UNCHANGED <<evidence, nvrJobs, nvrMode, nvrFiles, downloaded>>

---------------------------------------------------------------------------
(* The NVR finishes jobs and forgets them; the web server restarts, perhaps*)
(* with the other mode configured.                                         *)

JobEnds(j) ==
  /\ nvrJobs[j] = "running"
  /\ \E state \in {"done", "lost"} : nvrJobs' = [nvrJobs EXCEPT ![j] = state]
  /\ UNCHANGED <<evidence, nvrMode, nvrFiles, video, exporter, downloaded>>

JobForgotten(j) ==
  /\ nvrJobs[j] = "done"
  /\ nvrJobs' = [nvrJobs EXCEPT ![j] = "lost"]
  /\ UNCHANGED <<evidence, nvrMode, nvrFiles, video, exporter, downloaded>>

ServerRestarts ==
  /\ exporter' = [x \in Exporters |-> IdleExporter]
  /\ nvrMode' \in {"nvr", "simulation"}
  /\ UNCHANGED <<evidence, nvrJobs, nvrFiles, video, downloaded>>

ExportNext ==
  \/ \E x \in Exporters :
       \/ CreateCheck(x) \/ CreateRow(x) \/ RequestExport(x)
       \/ \E id \in DOMAIN evidence : RefreshLoad(x, id)
       \/ AskStatus(x) \/ DownloadExport(x) \/ Simulate(x)
       \/ SaveEvidence(x) \/ SetVideo(x)
  \/ \E j \in Jobs : JobEnds(j) \/ JobForgotten(j)
  \/ ServerRestarts

ExportSpec == ExportInit /\ [][ExportNext]_nvrVars

---------------------------------------------------------------------------
(* However stale the copies that overwrite each other, a row that says the *)
(* export is completed names a stored file that can be played and          *)
(* downloaded (is_downloadable, _local_mp4_ready).                         *)
CompletedHasItsFile ==
  \A i \in DOMAIN evidence : evidence[i].status = "completed" => evidence[i].file \in 1..nvrFiles

(* A row that waits for the NVR carries the id of a job the NVR accepted,  *)
(* so that a refresh can find it.                                          *)
WaitingHasItsJob ==
  \A i \in DOMAIN evidence :
    evidence[i].status \in {"requested", "exporting"} =>
      evidence[i].job \in Jobs /\ nvrJobs[evidence[i].job] # "unknown"

(* The video of an event comes from an export that was saved as completed, *)
(* whenever the server dies (download_completed_export saves the row       *)
(* before it sets video_url).                                              *)
VideoWasDownloaded == video # 0 => video \in downloaded

(* Rows, files, jobs and the event's video agree.                          *)
ExportIsConsistent == CompletedHasItsFile /\ WaitingHasItsJob /\ VideoWasDownloaded

============================================================================
