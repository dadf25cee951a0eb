# Verification of the KRTC notification host

TLA+ models of the station-side *notification host* (PAO): a Django program
over SQLite that imports events from AI inference hosts, plays announcements on
IP speakers through `pjsua` processes, and reports to the OCC maintenance host.
All paths below are relative to `src/`.

## 1. The system

Everything runs in one Django process (Waitress threads serving requests, plus
daemon threads for polling, WebSocket listening, zone counts, the broadcast
scheduler and a watchdog) or in management-command processes beside it.  The
parts share one SQLite database.  Outside `transaction.atomic()` every statement
is its own transaction, so almost every handler is a sequence of small
transactions with other threads in between, and almost every one of them works
on Python copies of rows that it read earlier.

| Component | Code | State | Operations | Hard behaviours |
|---|---|---|---|---|
| Speaker arbitration | `apps/notifications/services.py`, `models.py`, `scheduler.py`, `views.py` | `BroadcastLog`, `BroadcastSchedule`, running `pjsua` processes | create, prepare, play, mark, interrupt, clear stale, recover, reset, schedule | interleaving of workers, sweeps and creators over stale copies; crash; killed processes; port slots |
| pjsua backend | `apps/notifications/backends/pjsip.py` | one process per playback, its ports | plan, execute, stop | process ends or is killed at any time |
| Live microphone | `live_broadcast.py`, `backends/pjsip_microphone.py` | one session, timer, monitor thread, live rows | start, stop, time out, recover | timer, monitor and requests race for one session |
| Audio recorder | `audio_recorder.py` | one recording and its temporary file | start, stop, save, discard, time out | shares the capture device with the live microphone |
| Scheduler process | `scheduler_process.py`, `scheduler_runtime.py`, `run_broadcast_scheduler.py` | lock file, status file | acquire, loop, release | two processes, stale lock |
| Event import | `ai_bridge/services/event_importer.py` | `Event`, automatic `BroadcastLog` rows | import, repair, reconcile | the same event arriving by push, catch-up and polling |
| Event transport | `ai_bridge/websocket_client.py`, `poll_inference_hosts.py` | connection state, catch-up cursor | connect, catch up, receive, poll | reconnects, failing imports, a cursor shared by two sources |
| Event lifecycle | `events/models.py`, `events/views.py` | `Event.status`, daily number | create, confirm, close, dismiss | operators against importers and stale saves |
| Snapshots | `events/services/snapshot_localizer.py` | local copies of snapshots | schedule, download, save | a save of a row read before a slow download |
| NVR recording | `events/services/nvr_recording.py`, `request_event_recording.py` | evidence rows, files, `Event.video_url`; the NVR's jobs | create, request, refresh, download, simulate | requests that save the whole row they loaded |
| Event requests | `notifications/views.py`, `events/views.py` | `Event`, `BroadcastLog` | trigger API, manual broadcast of an event | a row played in the request's own thread, beside pools and schedules |
| OCC sync | `station_api/occ_sync.py`, `run_occ_sync_service.py`, `sync_occ_once.py` | sync status of events, heartbeat sequence, failure counter | send heartbeat, events, device states, daily summary | a manual run beside the service; lost answers; stale row saves |
| Device faults | `station_api/device_faults.py`, `station_api/views.py` | fault rows and a change log with a cursor | report, recover, list changes, back-fill | check-then-insert without a constraint; cursor readers; a renamed station |
| Watchdog | `station_api/service_watchdog.py`, `run_pao_service_watchdog.py` | nothing of its own | look at each service, report | what it saw is old when it is stored |
| Host polling | `ai_bridge/background_polling.py`, `poll_inference_hosts.py`, `settings_app/views.py` | host status, health, faults | poll each host, test a connection | an error that ends the thread; a test that saves an old result |
| Zone counts | `ai_bridge/services/zone_count_sync.py`, `poll_zone_counts.py` | one row per zone | fetch, upsert, remove, age | overlapping synchronisations |
| Camera streams | `cameras/stream_pool.py` | one reader per camera with subscribers | acquire, subscribe, release, idle stop | the last viewer leaves as a new one arrives |
| Configuration backup | `settings_app/services/config_backup.py` | all configuration tables, media files | export, stage, restore | a restore that fails half-way; edits meanwhile |

The two centres are the arbitration of the speakers (every other part ends in
a broadcast) and the path of an event from the inference host to a row.  What makes each
correct: a speaker plays one thing at a time, the more urgent one; what is
recorded is what was heard; nothing queued is forgotten and nothing finished
comes back; an event is imported once, and never again after it was closed.

## 2. Modules

| Module | Models | Checked by | Theorems |
|---|---|---|---|
| `Broadcast` | speaker arbitration: rows, workers, processes, sweeps, schedules, and every way a row is created: console, an event's manual request, live microphone, imported event | `MCBroadcast` | `Broadcast_proofs` |
| `EventApi` | the trigger API and the manual broadcast of an event, with what pools and schedules do to the same rows | `MCEvents` | `EventApi_proofs` |
| `Microphone` | live microphone and audio recorder, two singletons over one capture device | `MCStation` | `Microphone_proofs` |
| `SchedulerProcess` | lock, status file and loops of the scheduler processes | `MCStation`, `MCLiveness` | `StationServices_proofs` |
| `EventImport` | one inference host: receiver, catch-up, poller, operators, snapshot downloads, reconciliation | `MCEventImport` | `EventImport_proofs` |
| `EventStore` | what the intake promises, abstractly | (refined by `EventImport`) | `EventImport_proofs` |
| `EventNumber` | the daily number under SQLite's locking, deletions, the repair command and its files | `MCEvents` | `EventRecords_proofs` |
| `NvrExport` | exports of recordings by requests that overwrite each other's rows | `MCEvents` | `EventRecords_proofs` |
| `OccSync` | heartbeats, event batches, device states and summaries of the service and of manual runs | `MCStation`, `MCLiveness` | `ControlCentre_proofs` |
| `StationApi` | fault log, change feed and the OCC that follows it, watchdog, camera checks, back-fill, configuration versions | `MCStation`, `MCLiveness` | `ControlCentre_proofs` |
| `ConfigRestore` | export, staging and restore of the configuration, with edits meanwhile | `MCStation` | `StationServices_proofs` |
| `StreamPool` | shared captures of a camera and their viewers | `MCStation`, `MCLiveness` | `StationServices_proofs` |
| `HostPolling` | the polling thread, health and faults of hosts, the connection test | `MCStation`, `MCLiveness` | `StationServices_proofs` |
| `ZoneCounts` | mirror of a host's zone counts | `MCStation`, `MCLiveness` | `StationServices_proofs` |

`MCEvents`, `MCStation` and `MCLiveness` put several components into one run.  None
of those components reads or writes a variable of another, so the product of their behaviours says no more
than each alone: `focus` picks the component that runs in a behaviour, and the
others keep their first state.  The first two extend the components' modules, so that a run and a theorem speak of
the same definitions; `EventsRunComponents` and `StationRunsComponents` prove that their behaviours are behaviours
of each component.  `MCStation` has two further instances of `OccSync`, with other bounds; `MCLiveness`, which gives
each component smaller constants, has instances only.  Where components do share state, one module holds
both: the microphone's two users, the trigger and the schedules, the fault log and those who report
into it.  Two abstractions connect modules instead of a composition: playing a row is a step with
an outcome in `EventApi` and detailed in `Broadcast`; a pass over the schedules is two
steps in `SchedulerProcess` and the `Scheduler` of `Broadcast`.

`Broadcast` keeps one row per `BroadcastLog` (`row`), and beside it what lives
outside the database:

| Variable | Code |
|---|---|
| `row` | status, speaker, source (in `request_payload`) and schedule of each `BroadcastLog` |
| `worker` | how far the thread inside `process_single_broadcast_log` is: row taken (`prepared`), speaker read again (`checked`), port slot counted (`counted`), ports bound and closed as a test (`tested`), process running (`playing`), result known (`done_*`), row refreshed (`read_*`), outcome saved (`marked`), recovery sweep (`recovering`); or the live microphone's call of the row (`dialing`, `on_air`) |
| `seen` | the rows created before an automatic row's `started_at`, which is all that the recovery cutoff compares |
| `pjsua`, `slot` | running playback processes, and the port offset each worker has counted |
| `device` | `is_active` and `status` of a speaker, as far as playback asks |
| `copies` | the list a sweep read (`list(queryset)`) and how far it is with each copy |
| `request`, `pass` | program counters of operator requests (with what they ask for and on which speakers) and of the scheduler loop |
| `sched` | `BroadcastSchedule`; `past` says that a one-time `run_at` is over |
| `heard`, `owed` | history: verified playbacks; schedules cut short and not yet put back |

Each transaction is one action.  The four sweeps of `services.py`
(`interrupt_lower_priority_broadcasts`, `reset_all_speaker_workflows`,
`clear_stale_schedule_broadcast_locks`, `clear_stale_auto_broadcast_locks`) share
one shape: read a list, then for each copy stop the process, save the final
status over whatever the row holds by now, and put its schedule back.  That is
`SweepStop`, `SweepSave` and `SweepReschedule`; who runs the sweep (a request, the scheduler,
or a worker that recovers after an automatic playback) decides the rows
and the status.  An event import is one transaction in the code and so one
action (`EventImported`), its cleanup included.

Three requests share the steps *clear stale schedule locks, interrupt what is outranked, look for
busy speakers, create rows*: the console's, an event's manual one and the live microphone's, which differ in
their priority, in their speakers, and in what they start with and leave behind (`ConsoleStart`, `ManualStart`, `LiveStart`; `CreateRows`).
The session behind a microphone's rows is `Microphone`'s; its rows among all others are here
(`LiveAnswered`, `LiveRefused`, `LiveEnds`, and `LiveCleared` for those of a session that is gone).

Between taking a row and starting `pjsua` a worker passes four steps (`CheckSpeaker`, `CountSlot`, `TestPorts`, `StartProcess`),
none of which looks at the row.  The test binds the ports and closes them again, so two workers can pass
it together; what keeps two processes off one port is that the second cannot bind it and exits
(`StartProcess` or `RefusePlayback`).

`Environment` chooses the outside events of a run: `"device"` (a speaker is found on- or offline), `"deactivate"`
(taken out of service or put back), `"crash"`, `"stop_fails"`, `"db_error"`, `"operator"` (resets, closed alarms,
schedule switches), `"slow"`, `"live"`, `"manual"`.

Clock time is abstract.  Any row without a thread may be older than a stale-lock
timeout at any moment; with `"slow"` in `Environment`, so may a row that is being played.

`EventImport` follows the events of one host into the `Event` table.  An event is its
timestamp.

| Variable | Code |
|---|---|
| `emitted` | the host's own list, which `get_events` pages through, newest first |
| `status`, `job` | `Event.status` (without a row: `none`), and the event's automatic `BroadcastLog` (one rule, one speaker) |
| `link`, `inbox` | `run_forever`: connecting, in `catch_up`, reading; the frames not read yet |
| `range`, `batch`, `taken` | `catch_up`: bounds and offset, the rest of the page, the event between `_import` and `_record_result` |
| `cursor` | `InferenceConnectionState.last_successful_event_at` |
| `polled` | the items of the poll in progress |
| `held` | what an operator's request has read and is about to save |
| `snapshot`, `local` | the downloads (with the status in the row each one read), and the events whose picture is here |
| `rec` | `reconcile_auto_broadcast`, which runs in a process of its own |
| `closed`, `asked` | history: events an operator closed; the start of the last catch-up made while the cursor was null |

An import is one `transaction.atomic`, hence one action, shared by the receiver
and the poller.  The views, the snapshot worker and the reconciliation run
without a transaction around their read and their save, hence two or three actions each.
Whether an open event gets a broadcast row depends on rules, cooldown and busy speakers:
a free choice here, and modelled in `Broadcast`.  In `CloseAllRead` every open event
belongs to the alarm.

`EventStore` has two variables, an event's state and its announcement; `EventImport` implements it
under `AbstractState` (new and confirmed events are open), whatever the environment does.  It promises that an event is
stored once and its announcement queued once and only while the event is open.  It leaves room for what the code
really does: an old copy written back may reopen a closed event (`Reopen`), closing one event leaves
its announcement waiting (`Close`, against `Clear` for all alarms), and a reconciliation may queue what it had
missed when it looked (`Miss`, `MakeUp`), but not beside an announcement that waits or plays.

`Microphone` runs every method of the two managers under its lock as one step,
except `LiveBroadcastManager.start`, which others watch through the database while it dials
(`liveLock` names its thread, `liveRows` are its rows; `web` is where each request is).
`liveTimers` and `monitors` are threads that may fire after their session ended;
`liveProcess` and `recProcess` are processes, which a `Restart` may leave running.
`tempFiles`, `completed` and `stored` follow a recording to its `AudioFile`.

`EventApi` has a thread per request (`api`): store the event, pick a row per
speaker, prepare, play, refresh, mark, and the trigger's exception handler, whose own read and write may raise as well
(`RequestRaises`).  `dropped` (history) has the rows left behind by a request that ended so.
`apiRow` is the table, `others` the rows that pools and schedules have taken.

`SchedulerProcess`: `lockHolder` is the locked byte of `broadcast_scheduler.lock`,
`proc` where each process is in `run_scheduler_loop`, `statusFile` the JSON file with its age, which
`WatchScheduler` of the web server reads.

`EventNumber` has a transaction per saver (`saver`): SQLite's deferred
transactions read freely, the first writer holds the lock to its commit, and a view that is
out of date is refused on its first write.  `number` and `counter` are the rows, `image` and `files` the snapshot
column and the disk.  `RollBack` is a commit that is refused, or a process that dies before it: the rows go back, files that were moved do not.

`NvrExport` keeps in `exporter` the copy of the row each request works on, which `SaveEvidence`
stores whole.  `nvrJobs` is what the NVR knows; `nvrFiles` numbers the files.

`OccSync` has one state row (`hbSequence`, `occFailures`, `lastDaily`) and a program
counter per process (`syncer`): what it sends, what it has read, how the request
ended.  `rowCopy` is an event row that a view or the snapshot worker read and will save whole.
`received`, `hbAccepted` and `summaries` are the OCC's side.

`StationApi` numbers fault rows by their position in `faultRows`; `changes` is
the append-only feed, `mirror` what the OCC makes of it.  `watchdog` and `results` are what a check saw and has not stored.

`ConfigRestore` abstracts each part of the configuration to the number of edits it
reflects.  An export reads them one query at a time.  A camera's secrets are two: the password columns, and
the credentials written inside `rtsp_url`.  `txn` is the open transaction's view, `op` the step of the restore each operator
has reached; media files are overwritten outside the transaction.

`StreamPool` numbers the captures it opens; `registered` is `_streams[camera_id]`,
`subscribers` and `idle` the capture's fields, `viewer` what each generator asked for and was given.

`HostPolling` follows one cycle of the polling thread through the hosts (`poller`,
`pending`), with what each `answer`s; every handler that can raise does so into the right
`except`, or out of the thread.  `ZoneCounts` gives each synchronisation (`zoneSync`) what it fetched and
what it has still to write or to delete; a locked database while the hosts are listed ends the loop (`ZoneLoopDies`).

## 3. Runs

| Run | Asks | Bounds |
|---|---|---|
| `arbitration` | `NoResurrection`, `OnlyOutrankedIsSkipped` | one speaker, a daily schedule, two rows alive, one request thread; live microphone, manual requests, console, imported events, resets, closed alarms, schedule switches, database errors |
| `faults` | `TypeOK`, `OneActivePerSpeaker`, `SuccessWasHeard`, `NoOverlap` | two speakers that go on- and offline, console and automatic broadcasts, two rows; crashes, unreadable process lists, database errors, slow playbacks |
| `liveness` | `EveryBroadcastEnds`, `InterruptedIsRescheduled` | one speaker that is taken out of service and put back, a one-time schedule, two rows, fair threads, no faults |
| `overlap` (violated) | `NoOverlap` | two speakers, taken out of service and put back |
| `recovery` (violated) | `RecoveryClearsOnlyStale` | two speakers, automatic broadcasts only |
| `import_reconnect` | `CaughtUpIsComplete`, `EveryEventIsStored` | three events, late by one, a connection that breaks at will; a catch-up fits in one page; fair threads |
| `import_store` | `TypeOK`, `ImplementsStore` | one event that may come late, two operators, every outside event in any order: lost connection, crashes, database errors, downloads, overlapping confirmations, both ways of closing, the reconcile command |
| `import_snapshot` (violated) | `ClosedIsNeverQueued` | one event, a download, close all |
| `import_close` (violated) | `ClosedIsSilent` | one event, one operator who confirms and closes it |
| `events` | `EventsTypeOK`, `PlaysOnce`, `TriggerRowsAreSettled`, `ExportIsConsistent`, `NumberNeverReused`, `SnapshotsSurvive`, `PagesAreComplete` | see below |
| `station` | `StationTypeOK` and the eleven properties listed below | see below |
| `station_liveness` | `OccCatchesUp`, `FaultsFollowServices`, `CapturesAreReleased`, `HostsAreShown`, `ZonesFollowHost`, `SchedulerLossIsReported` | see below |

`Logs` bounds the rows alive at a time, not the rows of a run: `Forget` lets a
finished row nobody refers to leave the model.  Two rows are what the races
need: one row being swept, and the one that takes its speaker over.  `arbitration` has one
speaker because the races for a speaker are between its rows, and the sources of rows multiply the
states; with two rows every source meets every other on it.  `faults`
has two speakers and no schedule, so that slots differ: two workers count, test and start side by side on neighbouring
ports, and the mutant that counts the online speakers only gives one speaker two slots.  A row's own process and the one of its
successor meet there too, because a kill may fail and a worker may start late.
The shift of the slots themselves needs `"deactivate"` and occurs in `overlap`; in `liveness` that element is on
as well, as a way for a broadcast to be refused.

Three events are what the cursor needs: one before it, one at it, one after it
that comes late.  The bound of one page in `import_reconnect` is not a matter of size.
The pages come newest first, so a catch-up of several pages that breaks after
its first one has already moved the cursor over the older pages, and
`CaughtUpIsComplete` fails; nothing in the repository promises more, and the poller has to bring
those events.  Several pages on a connection that holds are `PagesAreComplete` of `events`.  Nor does the property speak of events before `asked`: where the poller always imports first, the
cursor stays null and each catch-up begins five minutes back.  The code's page has 500 events.  `late` events are late by at most `Slack`, the five
seconds `catch_up` reaches back.

**`events`**, what each property says and over what:

| Property | Says | Instance |
|---|---|---|
| `EventsTypeOK` | every component keeps the type of its variables | |
| `PlaysOnce` | no row is played twice, whoever picks it | two requests, one event, two speakers, two rows |
| `TriggerRowsAreSettled` | a row the trigger gave up is settled, even if its processing raised, unless its handler raised too or a manual request that had taken it up did | the same |
| `ExportIsConsistent` | completed rows have their file, waiting rows their job, the event's video is a file of a completed row | two requests, two rows, two files |
| `NumberNeverReused` | a number given on a day is not given again, deletions included | two savers, three events, two days, two numbers |
| `SnapshotsSurvive` | a row that names a snapshot has the file, or the picture is there as the recovered event's: no repair loses one, although its transaction may fail after the file was moved | the same, one overwritten row |
| `PagesAreComplete` | after a catch-up of several pages nothing is missing, although new and late events move the older ones to later offsets while the pages are read | three events, late by one, pages of one, database errors |

**`station`**:

| Property | Says | Instance |
|---|---|---|
| `LiveIsConsistent` | the registered session holds its speakers and the one process; rows of ended sessions are not left playing once the next starts | two requests, two speakers, two sessions |
| `SuccessWasConnected` | a live row is a success only if its call was up | the same |
| `TimeoutWasItsOwn` | a timer or monitor ends no session but its own | the same |
| `RecordingsAreSound` | recordings are neither lost nor saved twice | two recordings |
| `SyncedWasReceived` | what counts as synced is at the OCC | three instances: with manual heartbeats; over midnight with other writers of event rows; with two kinds of manual runs and longer |
| `SequencesAreSound` | the heartbeat sequence passes a number only after the OCC accepted it, and never falls | the third |
| `FaultsAreSound` | one open fault per device, code and station code; in the feed a recovered row stays recovered | two faults, two station codes, three happenings |
| `MirrorIsCurrent` | an OCC that has read the whole feed knows the state of every row in it | the same |
| `RestoreIsSafe` | a restore is whole or leaves nothing, and costs no password that has a column of its own | two operators, one edit (the bound is an action constraint of `BoundedNext`) |
| `PoolIsConsistent` | a capture counts its viewers; one that is open but not registered was replaced by one of another URL | two viewers, two URLs, two captures |
| `OneScheduler` | at most one process runs schedules | the web server and two commands |

Two of everything is where the races are: an old and a new session, a request
and the one that overtakes it, a capture and its successor.  Three events and two days let a number be freed
on one day while another is counted.  Requests and speakers are interchangeable (`SYMMETRY`).
`CHECK_DEADLOCK` is off because a behaviour ends when its bound is used up.

**Fairness.**  Python threads run, and every wait of a worker is
bounded: `pjsua` has a duration and a timeout, requests have timeouts, the database a retry loop.  So
in `liveness` the steps of a worker, a sweep, a request and the scheduler's pass are weakly
fair.  Nothing is assumed of operators, events, devices, of the clock, or of the
scheduler waking up.  In `import_reconnect` the receiver and the poller are weakly
fair, as endless loops of their threads with bounded waits; the connection is not, and the poll's window
(100 in the code) is assumed to hold whatever was emitted since the last poll.
In `station_liveness` each component has the fairness of its own `FairSpec`: its background loops and
the passing of time weakly, nothing of users, hosts and devices.  Only the OCC needs strong fairness:
a kind of request that is sent again and again gets through some time, and so does the write that closes the fault.

| Property | Says |
|---|---|
| `OccCatchesUp` | each sendable event arrives, and the synchronisation fault clears, with outages and database errors, for the service alone |
| `FaultsFollowServices` | a service down for good is an open fault at the OCC; one that works for good has none under the present station code |
| `CapturesAreReleased` | a capture without viewers closes; a viewer whose capture ended is let go |
| `HostsAreShown` | status, health and faults follow a host that stays as it is, unless the thread died, and then that is reported |
| `ZonesFollowHost` | counts that stay are shown; those of a host that went silent disappear |
| `SchedulerLossIsReported` | a scheduler that is gone for good is a fault, however it ended |

**What the violated runs show.**
`recovery`: after an automatic playback the code clears "stale" automatic rows
with its own `started_at` as the cutoff (`services.py:464`), so it stops the
sibling playbacks of the same event that are still running on other speakers.
`overlap`: a comment in the importer (`event_importer.py:522`) says that the
workflow lock prevents overlapping playback.  A worker does not look at its
row again between taking it and starting `pjsua`, so after an interruption only
the ports separate the two; the port slot is counted over the active
speakers and moves when one is deactivated.
`import_snapshot`: the snapshot worker saves every field of an event it read before the
download, so a closed event is new again, and the next poll queues it, which
`event_importer.py:271` rules out.
`import_close`: closing one event (`events/views.py:638-644`) saves its status and nothing else, so its announcement
waits to be played, which the comment at `events/views.py:702-704` says must not be; only closing all alarms cancels it.

**What else does not hold.**  These are defined in their modules, TLC refutes
them, and no run lists them:

* `ClosedStaysClosed` (`EventImport`): two overlapping requests, the one that read the event first saves last.
* `CaughtUpIsComplete` with several pages and `"loss"`: see above.
* `ClosedIsNotBroadcast` (`EventApi`): the manual broadcast looks at the event's status before it creates the row; a close in between is not seen.
* `OneMicrophoneUser` (`Microphone`): each manager locks only itself, so a live broadcast and a recording can hold the device together.
* `ArchiveIsRestorable` (`ConfigRestore`): an archive with an active schedule never restores, because its times are
  text when `BroadcastSchedule.save` computes the next run.
* `UrlSecretsSurvive` (`ConfigRestore`): credentials inside a camera's `rtsp_url` are stripped from the archive
  (`config_backup.py:141`), and a restore writes the stripped URL over the camera's (`:377-381`).  The settings page says both that they
  are removed (`station_settings.html:236`) and that the passwords of existing devices are kept (`:247`).
* `StatusIsTheOwners` (`SchedulerProcess`): the web server's thread releases the lock before it writes "stopped", over the
  status of a command that has started in between.
* `VersionOnlyRises` (`StationApi`): `configuration_apply` compares versions (as text) before the transaction, so of two requests the older may commit last.
* `DailyCoversYesterday` (`OccSync`): a summary made before midnight and answered after it is stamped with the new
  day, so that the day it was made on is never summarised.
* `HostsDoNotEndPolling` (`HostPolling`): a body that is no JSON text raises out of the loop and ends the polling of all hosts.

Some limits of the properties that hold are worth knowing:

* `NoOverlap` is about the processes of recorded broadcasts.  The live microphone's process has ports of its own, so a worker that
  was interrupted for it before its process started can start it beside the live session; and a reset, which fails
  every active row, frees the speaker of a live session that goes on.
* Live rows are saved as playing before the plan is made: if that raises they stay so until the next live start or a reset.
* `TriggerRowsAreSettled` excepts a handler that raises.  The same locked database that raised in the processing
  can raise in the handler's `refresh_from_db` (`events/views.py:178`) or `mark_broadcast_failed` (`:183`), and then the row stays active with nobody
  playing it.
* `SnapshotsSurvive` does not say that a row's file is there: after a failed commit of the repair command the row names its old file
  (`repair_reused_event_ids.py:108` has deleted it), and the picture lies under the recovered event's name without a row.

## 4. Theorems

TLC checked each inductive invariant on the small instances before it was proved for all.  Every
theorem holds for any sets of the component's actors and any bounds; what is assumed of the constants is a named
`ASSUME` in the component's module, which TLC evaluates in every run: bounds are numbers, null is no
actor, sets that are counted are finite, there is a host, a day, a URL.

| Module | Theorems about |
|---|---|
| `Broadcast_proofs` | `Broadcast` |
| `EventImport_proofs` | `EventImport` and its refinement of `EventStore` |
| `EventApi_proofs` | `EventApi` |
| `EventRecords_proofs` | `EventNumber`, `NvrExport`, `MCEvents` |
| `Microphone_proofs` | `Microphone` |
| `ControlCentre_proofs` | `OccSync`, `StationApi` |
| `StationServices_proofs` | `ConfigRestore`, `SchedulerProcess`, `StreamPool`, `HostPolling`, `ZoneCounts`, `MCStation` |
| `NumberFacts` | a bounded set of numbers that is not empty has a largest one |

**`Broadcast`** (`ConstantsAssumption`: speaker codes are numbers, finitely many)

* `TypeCorrect`: `Spec => []TypeOK`, one lemma per group of actions.
* `OneActiveAlways`, `NeverResurrected`: both rest on `RowChanges`, which says that
  every step changes the table in one of a few ways (ends rows, records a
  success, takes a pending row, forgets a row, inserts rows for speakers that are not busy).
* `OnlyOutrankedIsEverSkipped`, live microphone and manual requests included: `InterruptsOutranked` says what the list of an interruption holds when the
  request gets to it, however long ago it read it: rows of its own speakers, of lower priority.  Speaker
  and source of a row never change while a list names it, so the old copy is still right about them.
* `SuccessIsHeard`: the inductive invariant `HeardInv` adds that a worker which
  knows of a good result, and a live call on the air, belong to a log in `heard`; `SuccessWasHeard` alone is not inductive.
* `NoOverlapWithoutDeviceChanges`: while no speaker is taken out of service or put back (`"deactivate" \notin
  Environment`; speakers may go on- and offline) no speaker is served by two processes.  `OverlapInv`
  strengthens it: from its count to the end of its process, each worker's slot is that of its row's speaker,
  through the port test, whatever becomes of the row, a crash and an orphaned process; and two
  processes never have one slot, because the second cannot bind its ports.  The bind-and-close test has no part in the proof: the code
  would be as safe without it, and is not made safe by it.
  The proof needs that slots of playable speakers differ, hence the finite set of speakers.
  The run `overlap` shows that the assumption cannot be dropped.

**`EventImport`** (any sets of events and operators, any slack, page and window)

* `TypeCorrect`, with the invariant `Downloads`: only a stored event is being downloaded.
* `CatchUpIsComplete`: if all events fit in one page (`OnePage`), `CaughtUpIsComplete` is an
  invariant.  It is far from inductive.  `Covering` adds where a missing event can
  be: behind neither the cursor nor the event about to become the cursor by more
  than `Slack` (`CursorBehind`, which makes the next catch-up reach it); during a
  catch-up, in the page, still to be listed, or pushed and not older than the catch-up's end
  by more than `Slack` (`CatchUpCovers`); afterwards, in the inbox (`LiveCovers`), whose
  messages overtake each other by at most `Slack` (`InboxOrder`).  The proof shows why five seconds of
  overlap suffice although the cursor follows the last import and moves
  backwards at times, and that it rests on events coming late by no more than that.
* `IntakeImplementsStore`: with no assumption on the environment, every step is a step of `EventStore` or none.
  `HeldFits` says what the operators' requests in progress have read, `RecFits` what a reconciliation has: an event
  it is about to announce is stored, and stored events stay.

**`EventApi`**: `PlaysOnceAlways` and `TriggerRowsAlways` from `ApiInv`: a row whose playback began is never
pending again, whoever has a playing row is past taking it up, and an active row of the trigger that nobody works on
was dropped by a handler or a manual request that raised.

**`EventNumber`**: `NumbersNeverReused` (an action property) and `SnapshotsSurviveRepairs` from `NumberInv`.  The number a saver gives
is new because the counter of a day is not behind any number given on it (`CounterAhead`), deleted
events included; because only one saver is past its first write (`OneLock`); and because a saver that can still
commit has read the counter as it is now (`SaversSound`); SQLite refuses the first write of any other.  `NextNumber` takes the larger of the counter and the
day's largest number in use.

**`NvrExport`**: `ExportConsistentAlways` from `ExportInv`: the copies in progress are as sound as
the rows.  So an old copy may overwrite a new row, because files and jobs are never taken back.

**`MCEvents`**: `EventsRunComponents` and, from it and the type theorems, `EventsTypesCorrect`.

**`Microphone`**: `LiveConsistentAlways`, `SuccessAlways` and `TimeoutAlways` from `LiveInv`, whose extra
part `DialInv` says what a thread that dials has left in the rows while others watch;
`RecordingsAlways` from `RecInv`: a recording in progress has its file, and only completed ones are stored.

**`OccSync`**: `SyncedAlways` and `SequencesAlways` from `OccInv`: a sender past its request holds only
what the OCC has, nobody holds a number above the sequence, and a stale row is no more synced than the OCC has the event.

**`StationApi`**: `FaultsAlwaysSound` and `MirrorAlwaysCurrent` from `FaultsInv`.

* `StepEffect` reduces every step to its effect on rows and feed: it reports, it recovers the open faults
  of a key in any order, the back-fill appends, or neither changes.  `FeedGrows` says what such a step does to the feed.
* `LastIsCurrent`: the last entry of a row in the feed is the row's status, and `RecoveredIsRecovered`: an entry that
  says recovered is still true.  A recovered row never opens again (a new fault is a new row), so after
  a recovery the feed only repeats it.  Both except the rows in `raced`, which changed while the back-fill held its copy: it may append
  an old status after the new one, and the two properties say nothing of these rows either.
* `MirrorIsRead`: the mirror is the set of the rows whose last entry in the feed *up to the cursor*
  is active, in both directions and for every row.  Reading a page extends it by `MirrorReads`, so at the end of the feed
  the mirror is what the feed says, whatever the page size and however reads and reports interleave.

**`StreamPool`**: `PoolAlwaysConsistent` from `PoolInv`: a viewer that was given a capture has one, and the registered capture is
among those opened.  The count of watchers is a cardinality; `WatchersFinite` and its companion say how it moves
by one with each viewer.

**`ConfigRestore`**: `RestoreSafeAlways` from `RestoreInv`: the operator whose transaction is open is the
writer, its view differs from the tables by exactly the parts written, and the password it writes is the one entered last,
because nobody else writes meanwhile.

**`SchedulerProcess`**: `OneSchedulerAlways` from `LockInv`: who has a pass to run holds the lock.

**`HostPolling`, `ZoneCounts`**: their types.  `ZonesTypesCorrect` needs `AllKeysFit`: what a synchronisation has
still to write is in its own answer, and what it is about to delete is not, whatever the other one did.

**`MCStation`**: `StationRunsComponents` and `StationTypesCorrect`.  For the two further
instances of `OccSync` the theorem instantiates `ControlCentre_proofs` with their bounds.

Every safety and action property that a passing run checks is a theorem, but one.  Model-checked only are:

* `PagesAreComplete`: `CatchUpIsComplete` proves the case of one page, for any number of events;
* liveness (`EveryBroadcastEnds`, `InterruptedIsRescheduled`, `EveryEventIsStored` and the six properties of
  `station_liveness`): the provers do not handle fairness;
* what the violated runs refute, and the list after them.

Two theorems have a hypothesis of their own: `NoOverlapWithoutDeviceChanges` and `CatchUpIsComplete` (one page);
the runs and remarks of section 3 show why.

## 5. Not modelled, and why

* The content of payloads and messages, audio conversion, frames, the parsing of
  `pjsua`'s log: their verdict is chosen freely.
* A thread lost before it takes its row (a database error in
  `prepare_broadcast_log_for_playback`): for safety it is a worker that never runs; the `liveness`
  run has no database errors.
* Speakers deleted from the configuration; the simulation and MicroSIP backends
  (same control flow, no process of their own to kill).
* Of the event path: several inference hosts in one `EventImport` (the supervisor that starts a
  listener per host, reconnect delays), the mapping of payloads and malformed messages, dismissed
  and processing events (an admin page sets them), the cooldown and the rules that
  decide whether an event is announced.
* A deletion of a temporary recording or a snapshot that Windows refuses.
* The read-only endpoints of the OCC API, retention and clean-up commands.
* Access control (roles, the superuser's USB key), page rendering, forms, browser scripts, settings
  and the build: no state of their own that the parts above depend on.
