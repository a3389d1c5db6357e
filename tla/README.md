# AIPulse in TLA+

TLA+ models of the parts of AIPulse that keep state, the TLC runs that check them on small
instances, and TLAPS proofs of the properties that matter most for every instance. Paths below are
relative to the repository; `aipulse/` stands for `src/aipulse/`.

## 1. The system

AIPulse follows creators on video platforms, turns their videos into "hotspots", summarises a video
with an LLM agent and archives the result three ways (an Obsidian note, a learning event, a task or
reminder). It comes as two applications over one Python code base:

- a **FastAPI server** (`aipulse/server.py`) with the summary queue, the scheduler's jobs, the web
  dashboards and their SSE streams, on one asyncio event loop and one SQLite database;
- a **desktop app**: a Tauri shell (`src-tauri/`, Rust) that talks JSON-RPC over pipes to a Python
  **sidecar** (`aipulse/desktop/sidecar.py`), and a Chromium extension that reaches another sidecar
  through a native messaging host, or the server over HTTP.

### Components

| Component | State it keeps | Operations | What is hard | What must hold |
|---|---|---|---|---|
| **Summary job queue** `aipulse/summarizers/queue.py`, `finalize.py`, `repositories/summary_job_repo.py`, `api/summary.py` | `summary_jobs` rows; an in-memory `asyncio.Queue`; one worker; a bounded queue of events per SSE client | post a video, retry a job, stream a job's events; the worker's take / start / run / finish / announce; start and stop | a row is written by handlers and worker in different transactions; a job may finish while a client connects; the queue is lost with the process | a post does not start a job beside one it can see; rows follow a lifecycle; only a fault or a stop leaves a row running; a failure is never shown as a success; no client waits for an event that is over |
| **Followed-creator scan** `aipulse/scheduler/jobs/followed_up_scan.py`, `collectors/bilibili_up/` | a cursor, a health state and a check time per creator; hotspots | minute job over all creators, manual sync with a 15 s limit, upsert of a video | the job and syncs overlap on a creator; a scan may end at any await | the cursor names a stored video, nothing behind it is lost, videos are not duplicated, every creator gets its turn |
| **Desktop sidecar** `aipulse/desktop/sidecar.py`, `core/pipeline.py`, `store/repository.py` | `tasks` rows; a progress cache; the running pipelines | submit, retry, read requests, pipeline stages, notifications, shutdown | retries overlap running pipelines; status is read and then written; the reader of stdout goes away | no row is stuck in an active state; an announced success is one; shutdown waits |
| **Shell RPC** `src-tauri/src/app_state.rs`, `lib.rs` | pending requests by id; the sidecar's handle | send a request with a 10 s limit, complete it, read the output, clear a dead sidecar | late answers, full pipes, a sidecar that dies with requests pending | an answer reaches its own call, the table does not leak, every call ends |
| **Hotspot sync** `aipulse/scheduler/jobs/hotspot_sync.py`, `hotspot/service.py`, `web/sse.py` | sources, hotspots; dashboards' event queues | sync all, sync one, broadcast, subscribe | events before the commit, one session over all sources, overlapping syncs, full event queues | a sync stores a url once, a dashboard never misses the newest event, one bad source does not stop the others |
| **Scheduler, its UI and the daily digest** `aipulse/server.py`, `scheduler/webui.py`, `scheduler/jobs/digest_generate.py`, `hotspot/service.py` | APScheduler's job store, log rows, one digest per date | run at 08:00, run now, pause, resume, a digest by hand, start and stop | run-now replaces the trigger; the job and requests race for a date | an undisturbed day has its digest; answers and logs are true |
| **Agent and three-way archive** `aipulse/summarizers/agent/`, `archive/service.py`, `apple/reminders.py` | vault files, learning events, reminders | the agent's tools, the archive route | each write fails alone; a run is cut off between a write and its report; threads go on | what is reported was done; what a cut-off hides is bounded |
| **Followed-creator routes** `aipulse/api/followed_up.py`, `repositories/followed_up_repo.py` | creators, soft deletion | create, patch, delete, validate, sync, health | check-then-act across awaits | at most 20 creators, no creator twice, but for overlaps |
| **Settings** `aipulse/core/config.py` | one JSON file, an object per process | build, change, save | two processes, truncate-then-write, migration at every start | masks are never taken for secrets; what was saved is found |
| **Task pipeline** `aipulse/core/pipeline.py`, `content_router.py`, `video/`, `article/`, `archive/`, `pushers/` | downloads, transcripts, vault notes | classify, fetch, extract, summarise, archive, push | overlapping runs share files; a run stops between two writes | no transcript mixes two downloads, no success without its notes having been written |
| **Notification route** `aipulse/web/routes.py` | `hotspot.notified` | push a hotspot | pushes between check and write | a hotspot is pushed once |
| **RSS sync** `aipulse/rss/sync.py` | feeds, entries, tasks | sync all feeds | a shared session | one bad feed does not spoil the others |
| **Extension** `extensions/chromium/src/` | the port to the native host, per-tab state in `chrome.storage` | submit with fall-back, capture a Douyin page with the debugger | the fall-back submits again; attach and detach | one submission makes one task; the debugger is let go |
| **Dashboard clients** `web/`, `frontend/` | SSE connection, back-off timer, button state | connect, reconnect, show progress | reconnection against a stream that has ended | the button shows how the job ended |
| Collectors, parsers, vault scanner, pushers, windows, schema | files, rows, configuration | fetch, format, draw | little control of their own | values, not orders of events |

Interactions: HTTP handlers, the queue's worker, the scheduler's jobs and the SSE generators share
one event loop and one database; between two `await`s a step is atomic, at an `await` anything may
happen. A row written in a session is visible to others after `commit`. The shell, the native host,
the extension and the sidecar are processes joined by pipes.

SQLite lets one transaction write at a time. The models do not take that lock: they allow more
interleavings than the database does, so the safety results carry over, and "database is locked" is
one of the failures a fault step stands for. The counterexamples kept as findings need no two
transactions to write at once.

## 2. Modules

| Module | Models | Depends on |
|---|---|---|
| `JobLifecycle` | what the `summary_jobs` table promises: the abstract specification | |
| `SummaryQueue` | the queue, its routes, worker, streams, shutdown, crash and restart | instance of `JobLifecycle` as refinement |
| `SummaryQueueProofs` | proofs about it, and that it implements `JobLifecycle` | |
| `FollowScan` | the scan job, manual syncs, fetch, upsert, cursor | |
| `FollowScanProofs` | proofs about it | |
| `SidecarTasks` | the sidecar's tasks: requests, pipeline runs, notifications, host and process ends | |
| `SidecarTasksProofs` | proofs about it, and about `TaskPipeline` | |
| `RemoteCall` | what a call to the sidecar promises a command: the abstract specification | |
| `ShellRpc` | the shell's calls, table, reader, pipes, the sidecar's loop | instance of `RemoteCall` as refinement |
| `ShellRpcProofs` | proofs about it, and that it implements `RemoteCall` | |
| `HotspotSync` | the job over all sources, manual syncs, stored candidates, the dashboards' event queues | |
| `HotspotSyncProofs` | proofs about it, and about `DigestJobs` | |
| `FollowedUps` | create, patch and delete of a creator under concurrent requests | |
| `FollowedUpsProofs` | proofs about it | |
| `AgentArchive` | the agent's tools and runs, the archive route, what is left of a run cut off | |
| `AgentArchiveProofs` | proofs about it | |
| `Settings` | the settings file and the objects of the processes that share it | |
| `SettingsProofs` | proofs about it | |
| `TaskPipeline` | what a pipeline run does between its status writes: the stages `SidecarTasks` leaves out | |
| `DigestJobs` | the scheduler's digest job, its buttons, digests by hand, starts and stops | |

How they fit together: a stage of `SidecarTasks` is the sequence of steps of one run in
`TaskPipeline`; the result a worker of `SummaryQueue` gets from the pipeline is that of an agent run
in `AgentArchive`; the routes that change a creator are in `FollowedUps`, those that scan one in
`FollowScan`; `ShellRpc` carries the requests of `SidecarTasks`. Each module keeps to the environment
what another models, as a choice over everything that other may do.

`TaskPipeline` and `DigestJobs` have their proofs in the second parts of `SidecarTasksProofs` and
`HotspotSyncProofs`, each next to the component it works for. Their names are therefore distinct from
those of `SidecarTasks` and `HotspotSync` (`PipelineSpec`, `DigestSpec`; a task is a `link` there and
its run's program counter a `place`), and so are the variables: neither part of a proof module says
anything of the other's behaviours.

The constants are given model values and bounds directly in the `.cfg` of a run. A definition whose
name starts with `Mut` is a variant of the definition that follows it, with a bug the code could
plausibly have; it takes part in no specification and shows that a property can tell the two apart.

### SummaryQueue

- `status`, `stored`, `videoOf`, `lastJob` are the committed rows; `queue` is the `asyncio.Queue`;
  `wpc`, `wjob`, `wres` the worker; `rpc`, `rvid`, `rrec`, `rjob` the handlers; `spc`, `sjob`, `sq`,
  `seen` the streams; `server` the process.
- A handler is cut at each `await` that lets others run: `PostCheck` (the SELECT), `PostEnqueue`
  (insert, flush and `put_nowait`), `PostCommit`. `CommitRow` makes a row visible. `unread[r]` is
  history: the rows a handler under way has not read, because they were committed after its look or,
  for a retry, because it looks at the row it retries only. `enqueue` puts a submission in the queue before
  its row is committed, as `api/summary.py` does. A retry creates and commits a row of its own and
  then calls `enqueue`, which makes a second one.
- The worker: `WorkerGet`, `WorkerMarkStarted` (finds the row, broadcasts `started`),
  `WorkerCommitStarted`, `WorkerPipeline` (any of the results `run_summary_pipeline` can return, a
  timeout, an exception), `WorkerFinish` (`finalize_summary_job`, whose decision is `FinalStatus` and
  `FinalError`), `WorkerAnnounce`. `WorkerFault` is a database call that raises: the loop swallows it.
- A stream: `Subscribe` comes before the row is read; `Snapshot...` is what it finds;
  `DeliverStarted`, `DeliverTerminal` what it takes from its queue. `Broadcast` drops an event for a
  full queue.
- `ShutdownBegin`, `ShutdownEnd`, `Crash`, `Restart`: memory is lost, rows stay; no code reads them
  back.

### FollowScan

- A scanner is the job or a manual sync. A scan reads the creator (`BeginScan`, `SyncRead`), fetches
  what is newer than the cursor it read (`FetchVideos`; `Fetched` is the collector's cut at the
  cursor and at `Count`), upserts the videos one by one (`NextVideo`, `UpsertFound`, `UpsertAbsent`,
  `UpsertInsert`, `UpsertMultiple`, `UpsertRaises`) and saves the cursor and the health (`Save`).
  Lookup and insert are separate steps. A video is a number, newer ones are larger.
- `JobTick`, `JobScan`, `JobDueRaises`, `JobDone` are the minute job. `JobDueRaises` is the
  `TypeError` of comparing the time SQLite returns with an aware one.
- `SyncTimeout` cancels a sync at any of its awaits; `Crash` ends every scan.

### SidecarTasks

- `row`, `err`, `saved` are the `tasks` table; `progress` is the cache `_tasks`; `told` is the last
  `task_complete` someone read. The request loop handles one request at a time (`hpc`); every
  submission or retry spawns a run (`pc`, `task`, `stage`).
- `update_status` is two steps, `ReadRow` and a write; `SetStatus` writes only a status that differs
  from the one read, as SQLAlchemy does.
- `Emit` is a notification: the cache, then the write, which raises when no one reads stdout. The
  stages of a pipeline end (`EndStage`) or raise (`StageRaises`); what they do is left out.
- `HostExits` is the end of the shell or of the native host; `Shutdown` waits for the runs; `Kill`
  and `Restart`. The desktop app and a native host each start a sidecar of their own on the same
  database. The model restarts one after the other; runs of two sidecars at once write the table the
  same way as two runs of one.

### ShellRpc

- A call: `Begin` (an id), `Insert` (the table), `TakeStdin` / `NotRunning`, `Write` / `WriteFails`,
  `Receive` / `Timeout`, `Remove`. Requests and answers are ids, `Note` is a notification.
- `ReadLine` with `Complete`, `ReadEnd`, `ReadFails` are the reader task.
- The sidecar's event loop is blocked while a line does not fit into its output pipe (`writing`).
- `RemoteCall` has the calls only: a request is `fresh`, `asked`, `running` or `ran`, a call is over
  with an answer or an error. `StageOf` reads a request's stage off the id counter, the loop and the
  handled ids. An error leaves the request free to be handled later.

### HotspotSync

- The actors are the job (`Job`, source number `0`) and one manual sync per source in `Manual`;
  APScheduler runs one instance of a job id at a time, so two actors never share an id. `src`,
  `listed`, `open` and `expired` are the job's loop and its session: `open` says that the session is
  in a transaction, and then a rollback expires the `Source` objects it still has to visit
  (`Rollback`, `JobExpired`).
- Both syncs share `collector.fetch` (`Fetch`; a feed may repeat a url) and `process_candidates`:
  `LookupFound`, `LookupAbsent`, `LookupMultiple`, the analysis (`AnalyzeNotReal` or `Insert`, which
  flushes the row and broadcasts its id) and one `Commit`. `mine` are rows that are flushed and not
  committed; `Rows` is what a session can see. Hotspots are numbered as they are made.
- `Raises`, `Rollback`, `SaveError`, `SaveFails`, `HandlerRaises` are the `except` clauses, `Crash`
  the end of the process. `Mark` is the manual sync's success: it clears the error only if it read
  one, since SQLAlchemy writes only what differs from what was read. The job never clears it.
- `conn`, `cq`, `heard` are the dashboards. `Broadcast` drops the oldest event of a full queue.

### FollowedUps

- `rows`, `key`, `life`, `enabled` are the table; `pc`, `want` the requests of the clients. `base` and
  `born` are auxiliary: how many rows there were when a request looked for its creator.
- A create is cut at its awaits: `CountActive`, `ResolveProfile` / `RefuseProfile` (Bilibili only),
  `LookForDuplicate`, `InsertRow`. `RequestRaises` is a database call that raises. `Patch` and
  `SoftDelete` find their row and write it in one step, since what is read does not change the write.

### AgentArchive

- `pc` is the tool an actor is in, `made` what it wrote, `said` what its tools have reported, `result`
  the answer. `note` and `transcript` are the files, `leftover` the work that goes on in a thread,
  the database driver or `osascript` after its run was cut off.
- An agent calls tools in any order (`Call`) up to `max_iterations`, `Report` is the callback that
  records a step, `CutOff` the 300 s limit, which may hit a tool or the time between two. `Finish`
  ends the run. A request (`Archive` ... `Archived`) calls note, event, task line and reminder in order.
- Tools that write in one step have a success and a failure (`WriteNote`, `NoteFails`, ...). The
  transcript is opened, which empties it, and written in two steps: `FetchOpens`, then `FetchWrites`
  or `FetchBreaks`, a write that fails midway, which the tool catches and answers with `[ERROR]`. A
  thread that was left behind may fail in the same way (`LeftoverVanishes`).
- `writer` (who tore the transcript) is auxiliary, and `fetched` is what the last fetch of a run
  answered. `summarize` reads whatever is in the file and no code looks whether it is whole: a run
  that was told `[ERROR]`, or the run after it, may summarise a torn file. What the code
  does give is `TornIsReported`: a file is torn by a run that was cut off or was told so.
- Runs end by the 300 s limit of the runner. The outer guard of the queue (`queue.py:247`), 30 s
  later, loses the recorded steps as well and is not modelled.

### Settings

- `file` is `settings.json` (missing, truncated or whole); `mem` the settings of a process; `raw` what
  it read and will write back; `cached` whether `get_settings` holds an object.
- Building: `Start` or `Rebuild`, `ReadFile` / `ReadNothing`, `OpenBack` (truncates), `WriteBack` and
  the merge (`Merged`, `Accepted`), which refuses the file as a whole when it names a script that is
  gone. Changing: `Update`, `OpenSave` (truncates), `Save`. Each write may fail; `Stop` ends a
  process anywhere.
- Of the fields only what the properties tell apart is kept: one plain value, whether a script is
  named, and whether the secret is from the environment, entered or a mask.

### TaskPipeline

- `url`, `link`, `home` are the spawned runs; `part`, `media`, `fd`, `bytes` the download as inodes,
  so that a run goes on writing a file another has renamed; `text` a transcript; `source`, `summary`
  the vault; `archived`, `shared` are history.
- Steps follow the awaits: `Classify`, `ShareLink`, `OpenPart`, `WriteChunk`, `RenamePart`,
  `DownloadVideo`, `ParseMetadata`, `FetchArticle`, `ExtractText`, `Summarize`, `WriteSource`,
  `WriteSummary`, `Push`, `Succeed`; `Raise` and `KillProcess` end a run anywhere they can. A run
  that ends in a note write may have emptied the note of that name (`BreakNote`), also one of a run
  that announced success. yt-dlp, whisper and note writes block the event loop (`HasTurn`).
- A file of yt-dlp counts as whole: its own `.part` files are not modelled.
- `ContentType` and `ParserOf` are the two tables a URL is looked up in; `Transcripts` is the chain of
  transcript strategies.

### DigestJobs

- `trigger` and `next` are the job in the job store; `jpc`, `jday` a running job; `digest` the table;
  `rpc`, `rday` the requests; `pending`, `logs` the log rows, written by a task of their own. `ran`,
  `held`, `daily`, `plain` are auxiliary: which days nothing interfered with.
- `Start` replaces the job; `Fire`, `Skip` (misfire), `WakeLate`; `RunNow`, `Pause`, `Resume` are the
  buttons; `ReadHotspots`, `CommitDigest` / `CommitRefused`, `Finish` the job; `Persist` a log row;
  `Post`, `Check`, `CommitRequest`, `Answer` a request. `Morning` and `Midnight` are the clock.

## 3. Runs

| Run | Asks | Instance | Result |
|---|---|---|---|
| `queue_rows` | when is a second job of a video made beside an active one? | 2 handlers, 1 video, a queue of 1, 4 ids, 1 fault | holds |
| `queue_streams` | does a client miss the end of a job, see an event twice, see a failure as a success; do rows follow the lifecycle, how many are left running behind the worker; do submissions drain, jobs finish, streams end? | 1 client, 2 videos, 2 jobs, 1 fault, 1 crash or shutdown; fair | holds |
| `queue_commit_race` | is every queued row consumed? | 1 handler, 1 job | violated |
| `scan_overlap` | do cursors stay right, are duplicates bounded, do syncs end? | job and 1 sync on 1 creator, 2 videos, 1 fault, 1 crash or timeout | holds |
| `sidecar_runs` | is a row ever stuck, a success ever taken back; do polls agree with themselves; do tasks end? | 1 task, 3 runs, 1 each of: raising stage, database fault, kill, exit of the host; fair | holds |
| `shell_rpc` | own answers, exact table, calls end; is a request handled at most once (`ImplementsRemoteCall`)? | 2 calls, 3 ids, pipes of 1 line, 1 notification, 1 death; fair | holds |
| `hotspot_sync` | copies of a url, lost events, syncs that end? | job over 2 sources, 1 manual sync, 1 url, feeds of up to 2 items, 2 ids, 1 dashboard with a queue of 1, 1 fault or crash; fair | holds |
| `followed_ups` | how far can overlapping creates pass the limit and the one row per creator? | 2 clients, 2 creators, a limit of 2, 3 rows, 1 fault | holds |
| `agent_archive` | is what is reported what was written; what does a cut-off hide, who leaves a torn transcript? | 2 agent runs of 2 calls, 1 request, on a Mac | holds |
| `settings_file` | does a secret in clear stay away, does a process find what it saved? | a server and a sidecar, 2 values, 2 stops | holds |
| `task_pipeline` | do routes agree; what mixes files; what becomes of the notes of an announced success? | 2 runs of 2 tasks in 2 processes, 4 urls, 2 file names, 1 channel, 1 kill | holds |
| `digest_jobs` | has an undisturbed day its digest; are answers and logs true? | 2 days, 2 requests, 1 restart, 1 fault | holds |

Bounds. Each bound is a constant in a guard. Two handlers, syncs, runs or clients are enough for every
interleaving a property speaks of, because the properties relate at most two of them and a shared
row (streams do not touch each other's state, so one is enough). A third run in `sidecar_runs` lets a
run start while one is about to end and another to begin. With two agent runs one is cut off while
the other follows it. Two days let a digest of a day be asked for on the next one. A queue or pipe of
one makes "full" a common case. One fault or stop per instance reaches every place it can hit; the
settings have two, so that a process is killed in the middle of a write and its successor as well.
The proofs below remove the bounds for the properties they cover, which is every safety property. Runs with `CHECK_DEADLOCK FALSE` come to rest when their bounds are used up.

Fairness. Weak fairness of a handler, worker, stream, scan, run or call says that the event loop
(asyncio, tokio) resumes a task that is ready, and that an outside call ends, which the code's
timeouts ensure where it has them (`httpx` timeouts, the pipeline's inner and outer timeout, the 10 s
limit of a call, the two seconds of `stop()`). A sidecar stage without a time limit of its own is assumed to return.
Requests, faults, crashes, kills and exits are never fair: nothing has to happen. `JobsMoveOn` joins
the two promises to a job: it leaves the queue, and what was started finishes.

Finding. *A posted job can be lost* (`queue_commit_race`). The submission is in the queue before its
row is committed. A worker that is quick finds no row, drops the submission, and the row stays queued;
`models/summary_jobs.py:39` says that the worker consumes it.

### Where code and text disagree

Met while modelling; the models follow the code.

*Summary queue.* A retry commits a row, and `enqueue` creates and submits another
(`api/summary.py:225`; the comment at `:232` says that the two ids are the same). `queue.py:7` speaks
of jobs surviving a restart, and no code reads queued rows back (`JobLifecycle` says so: `Abandon`);
`api/summary.py:73` promises that a
post reuses a queued or running job of its video: two posts that both look before the other commits
make two jobs of it, and a retry makes one beside whatever is queued or running (`SecondJobIsUnseen` says
when this happens; a post never does it beside a job it could see);
`api/summary.py:61` announces 409 for a running job where 202 with the running job is answered;
`api/summary.py:319` calls the replayed `started` of a queued row a snapshot; `api/summary.py:323`
says timeouts, which are stored as `failed`.

*Followed creators.* `followed_up_scan.py:54` says videos are deduplicated; lookup and insert are not
one step and no constraint backs them (`CopiesBounded` says how many copies there can be).
`followed_up_scan.py:37` compares an aware time with a naive one, and the `TypeError` ends the job
(`JobDueRaises`), where `09-test-cases.md:1298` wants the other creators scanned. `api/followed_up.py:310`
says that a scan goes on in the background where the limit cancels it.
`01-foundation-data-model.md:1126` wants one row per creator under concurrent creates; the constraint
holds `deleted_at`, and SQLite holds two `NULL`s for different. A `PATCH` of a deleted row answers 200
where `GET` answers 404. (Both documents are in `docs/superpowers/specs/v0.3-followed-up-and-summary/`.)

*Sidecar.* `sidecar.py:383` says that shutdown waits for the pipelines to finish; when the host has
gone, their next notification raises a broken pipe and fails them (`sidecar.py:331`). A retry leaves
the old error message in the row, so a retried task that completed still answers polls with it
(`AnswersAgree` leaves out retried tasks). A row whose last write fails, or whose sidecar is killed,
stays running (`sidecar.py:284`). `docs/v0.1-implementation-plan.md:198` lists a restart of a crashed
sidecar that the shell does not attempt.

*Hotspots.* One failed source ends the job: the rollback expires the other `Source` objects of the
session, and the next one's id is read outside the `try` (`JobExpired`);
`docs/2026-07-25-information-hotspot-research-technical.md:45` says that failures are isolated.

*Agent.* The transcript is written in place and read as it is: after a write that failed, or while
the thread of a run that was cut off still writes, `summarize` (`agent/tools.py:348`) takes a part for
the whole. No text of the repository speaks of it.

*Archive.* The document answers a second archive of a video with 409 (`09-test-cases.md:904`); the
route does not look for one: it replaces the note, adds an event and, on a Mac, two reminders
(`append_obsidian_task` and `archive/service.py:143-166` each make one).

*Settings.* `config.py:240` says that secrets survive a restart; they go to file masked, and a mask is
not taken back. `config.py:30` says that a change persists; a server and a sidecar that share the file
overwrite each other's. A secret that contains `***` cannot be set. A change of `data_dir` moves the
file that is looked for.

*Task pipeline.* The generic video branch cannot be reached. A URL with the markers of two platforms
is classified by one table and parsed by another (`RouteAgrees` is about URLs that name one). Articles are
archived in a folder `unknown`; platforms share the folder of summaries, so two of one name replace
each other, and a later run of that name that fails while it writes leaves an empty note behind
(`AnnouncedIsArchived` says that nothing else takes a note away). The
Whisper strategy ignores `whisper_model` and a failing Whisper is run twice. The registry of pushers
keeps the first settings it saw (`pushers/registry.py:33`). When the last notification fails, the run
counts as failed and its notes and pushes exist. Two processes may leave a pair of notes from two runs
that both succeeded.

*Scheduler.* `run_job` ("Trigger a scheduled job to run immediately", `webui.py:36`) replaces the
daily trigger; the job leaves the store once it has run, further buttons answer 500 until a restart.
Resuming a job whose date has passed removes it without a run. A request that loses the race for a
date answers 500. An exception after the commit logs an error although the digest exists. An 08:00
that passes while the server is down is not made up for.

## 4. Proofs

All theorems are about `Spec` (`PipelineSpec`, `DigestSpec`), for every value of the constants that
the named assumptions allow (non-empty sets, positive sizes, finite sets where something is counted
(`FiniteReqs`, `Clients`, `Procs`), `NoJob`, `NoCall`, `Nobody` and the like outside the sets they
are told apart from); bounds may be any natural number. Every safety invariant, action property and
refinement the runs check is a theorem. The type invariants (but for that of `TaskPipeline`),
`NoteFirst` and `SecretsStayReal` are left to the proofs: no run repeats them.

| Module | Theorem | States |
|---|---|---|
| `SummaryQueueProofs` | `TypeCorrect` | types, and the bounds of both queues |
| | `SecondJobsAreUnseen`, `AbandonedRowsAreCounted` | `SecondJobIsUnseen`, `AbandonedAreCounted` |
| | `EndIsNotMissed`, `StreamsAreWellFormed` | `TerminalNotMissed`, `StreamShape` |
| | `FailuresAreVisible` | `StatusDoesNotMaskFailure` |
| | `QueueImplementsLifecycle` | every behaviour implements `JobLifecycle!Spec` |
| `FollowScanProofs` | `ScanTypeCorrect`, `CursorNamesAHotspot`, `CursorNeverMovesBack` | types, `CursorIsStored`, `CursorMovesForward` |
| | `CopiesStayBounded`, `NothingIsSkipped` | `CopiesBounded`, `NothingSkipped` |
| `SidecarTasksProofs` | `SidecarTypeCorrect`, `NoRowIsStuck` | types, `ActiveHasRun` |
| | `SuccessHolds`, `AnswersHold` | `SuccessIsTrue`, `AnswersAgree` |
| | `PipelineTypeCorrect`, `RoutesAgree` | of `TaskPipeline`: types, `RouteAgrees` |
| | `GarbledMeansOverlap`, `AnnouncementsAreTrue` | `GarbledNeedsOverlap`, `AnnouncedIsArchived` |
| | `TornPairsAreUnannounced` | `TornPairIsUnannounced` |
| `ShellRpcProofs` | `RpcTypeCorrect`, `AnswersAreOwn` | types, `OwnAnswer` |
| | `TableDoesNotLeak`, `WaitersStayReachable` | `NoLeak`, `WaiterIsReachable` |
| | `ShellImplementsRemoteCall` | every behaviour implements `RemoteCall!Spec` |
| `HotspotSyncProofs` | `SyncTypeCorrect`, `SyncStoresOnce`, `EventsAreKept` | types, `OneCopyPerSync`, `EventsKept` |
| | `DigestTypeCorrect` | of `DigestJobs`: types |
| | `PlainDaysAreDigested`, `DigestReportsAreTrue` | `PlainDaysHaveDigest`, `ReportsAreTrue` |
| `FollowedUpsProofs` | `TypeCorrect`, `LimitHolds`, `DuplicatesNeedOverlap` | types, `LimitSlack`, `DuplicatesOverlap` |
| `AgentArchiveProofs` | `TypeCorrect`, `OutcomesExact`, `CutOffHidesOne` | types, `OutcomeIsExact`, `CutOffHidesOneTool` |
| | `NoteIsFirst`, `LineStays`, `TornFilesAreReported` | `NoteFirst`, `TaskLineStays`, `TornIsReported` |
| `SettingsProofs` | `TypeCorrect`, `SecretsAreReal` | types, `SecretsStayReal` |
| | `SavedIsFound`, `ClearStaysGone` | `AloneIsDurable`, `ClearNeverReturns` |

The arguments:

- **SummaryQueue.** The invariant places a job id: above `lastJob` it is unused; in the queue its
  row is absent or queued; with the worker its row is what the worker's stage says; a handler about to
  commit owns an absent row. For an open stream it says what its queue can hold at each stage of the
  job: nothing before the worker begins, at most `started` before the announcement, then `started`
  and the terminal status. That is why a queue of two events never drops the last one. The refinement
  maps `state` to `status` and `active` to the worker's job while it runs.
  For `SecondJobIsUnseen` the invariant says that a handler under way has in `unread` every active row
  of its video, but for the finished one it retries: rows are added by commits, which enter them
  there, and become active by nothing else. For `AbandonedAreCounted` a running row leaves the worker's
  hands only by a fault or a stop, and each of them is counted once: a process that is shutting down
  has counted its stop before the row is lost, so the row it still holds is charged in advance.
  The other properties add what an open stream has been sent (nothing, or the replayed `started`)
  and that a server that is not up was stopped; a step that changes a row's status at all is one of
  a few, and each writes the status together with what it is judged by (lemma `RowStep`).
- **FollowScan.** Every cursor a row, a job's copy of a row or a scan carries names a stored video,
  and what a scan fetched is newer than the cursor it fetched from. Rows are never deleted, so a
  stale cursor is still a stored one. For the copies the invariant counts the rows of a video together
  with the scanners that are about to insert one: a scanner joins them only when it found no row. For
  the gaps it says that what a scan has still to store descends without a gap to the cursor it read.
- **SidecarTasks.** That some run is alive is not inductive: a run may be alive and its write be
  skipped, because it read the status it is about to write. The invariant names the run that *will*
  write: a running row has a run whose next write changes it, a pending row a run that has yet to
  start it, or the loop is about to spawn one. A retry may overlap any of this.
  A task that was never retried has one run (`Once`), so the place of that run says what the row,
  the stored result and the cache hold: the success and the answers of a poll follow.
- **ShellRpc.** Ids below the counter were taken, and no two calls under way share one, so a line in
  a pipe concerns one call for ever. The entry is made before the request is written and removed by
  the answer or by its own call only. For the refinement the invariant adds that a request is at one
  place (`SentOnce`): still with its call, once in the pipe, with the sidecar's loop, or handled. Its
  stage then only moves on, and a step of the shell is one of the abstract call or none.
- **HotspotSync.** Between its lookup and its insert a sync knows that it made no row for the url,
  committed or flushed; others may add rows meanwhile, none of them its own. A queue ascends from
  what its dashboard has heard to the newest id, ends with that id, and keeps doing so when its head
  is dropped for a new one.
- **FollowedUps.** Each request between count and insert takes one place of the slack: it enters by
  seeing fewer rows than the limit, and leaves by turning its place into a row. A row that was there
  when a request looked would have refused it, so of two rows of a creator the later is of a request
  that looked before (`LookedBefore`).
- **AgentArchive.** For an agent the difference between `made` and `said` is the effect of the tool it
  is about to report, or empty; a cut-off freezes that difference, and the leftover of a tool makes
  one effect only. For a request the place in its sequence determines both. A torn transcript was
  torn by a run that is writing it now, was cut off, or was answered `[ERROR]` (`TornOk`); agent runs
  follow one another, so the one that summarises is not the one that is writing.
- **Settings.** `Solo`: while one process uses the file, at each of its steps the file is what the step
  says (what it read, truncated, or what it has in memory). The mask is dropped by the merge, the only
  way from file to memory; clear text is written only by who has read it.
- **TaskPipeline.** The two tables of markers are finite, and both lookups take the first marker a URL
  has (`FirstIsAMarker`); for a URL that names one platform it is that one in each (`LookupsAgree`).
  `StagesDone` says what a run at a stage has behind it. A note that names a run was written by it,
  where its folder and name say, and where the note of a run that wrote one is empty, a run of that
  name was stopped before its own was written (`NotesInVault`, `Lost`), which stays true since stopped
  runs do not move. Between a run's two writes no run of its process
  replaces or breaks its source note (`NotesInTurn`), so a source note beside another run's summary is of a run
  that never wrote its own. For the download the invariant speaks of tasks no two runs of which were ever
  alive together: what such a run has open is the file under the name it will rename, and every byte
  in it is its own (`OwnFiles`). What a dead run left is truncated by the next one.
- **DigestJobs.** A plain day is followed through: before 08:00 the job has a run ahead of it
  (`Scheduled`), after it the run is due or under way, or the digest is there (`OnItsWay`). The end of
  the job alone does not suffice: it may have been refused, and then another's digest is what refused
  it, and digests are never taken back. Reports are true because a request or job that says it made
  the digest is the one the table names (`MakersCommitted`).

Only model-checked: liveness, which is out of the prover's reach together with fairness
(`QueuedIsConsumed`, `JobsMoveOn`, `StreamEnds`, `SyncEnds`, `TasksSettle`, `CallsEnd`, `SyncsEnd`).

## 5. Not modelled

The components of `PROJECT.json` marked `not_modelled`:

- *Hotspot notification route.* It reads `notified`, awaits the pushes and writes it
  (`web/routes.py:222`), but its first look asks for a decision, `worth_learning`, that no code of the
  repository writes: behind that guard there is nothing to check.
- *RSS sync, unused repositories.* No code outside the tests uses them.
- *Chromium extension.* Two hazards are known and not covered: any failure of the native path falls
  back to HTTP, also one after the sidecar has stored the task (`background.ts:559`), which makes two
  tasks; a failed detach leaves the debugger attached, which the next attempt takes for another's
  (`douyin-debugger.ts:277`). What decides them is the browser's.
- *Dashboard clients, windows and tray, database schema.* Display and declarations; the server's end
  of the streams is in `SummaryQueue` and `HotspotSync`, the commands are the callers of `ShellRpc`.
- *Native host, collectors and parsers, pushers, vault scanner.* Input and output. Where control
  matters it is in the module that calls them (`HostExits`, the Bilibili fetch, the Douyin download,
  `Push`).

Hazards that a property covers in part: an older copy of the settings that replaces what another
process saved (`AloneIsDurable` is about one process, `ClearNeverReturns` about secrets only); a day
of the digest on which a button replaced the daily trigger (`PlainDaysHaveDigest` leaves it out, since
the code does lose that day); URLs that name two platforms; the skipped video of a scan whose upsert
failed (`NothingSkipped` requires that no fault happened; the code does skip it).

Hazards of modelled components without a property: a call that timed out may still be executed by the
sidecar (`app_state.rs:102`; `RemoteCall` says so), so submitting again makes a second task, which
nothing in the code or its documents excludes; `hotspot.new` goes to the dashboards before the commit (`hotspot/service.py:82`),
so a rollback leaves them with an id of no row until they fetch again.

Within the modelled components: the text of events, notes and messages; times (a timeout may fire at
any moment it is armed); the read-only requests; collection scans of a creator and the HTML collector;
the files of yt-dlp; videos beyond the 50 that one fetch of a creator returns (`NothingSkipped` speaks
of what a fetch returned); collectors whose `close` raises; heat scores and the edits of sources,
hotspots and keywords by the web routes; what the fields of the settings mean, and `data_dir`.

## 6. Plan

What is left, in this order:

1. `ExtensionSubmit`: the native path and its fall-back, with `SidecarTasks` behind both.
2. What a dashboard may assume of `HotspotSync`, as an abstract specification.
3. The pure functions (canonical URLs, `estimated_minutes`, heat scores) checked against reference
   definitions.

## 7. Running

In this directory: `tlc -config SummaryQueue_rows.cfg SummaryQueue` (each `.cfg` is named after its
module), `tlapm SummaryQueueProofs.tla`.
