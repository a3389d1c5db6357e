---------------------------- MODULE SummaryQueue ----------------------------
(***************************************************************************)
(* The summary job queue: HTTP handlers of api/summary.py that insert rows *)
(* and submit jobs, the in-process queue and its single worker             *)
(* (summarizers/queue.py), the summary_jobs table (summary_job_repo.py),   *)
(* the SSE streams of a job, database faults, shutdown, crash and restart. *)
(*                                                                         *)
(* Everything runs on one asyncio loop, so code between two awaits is one  *)
(* step.  An await on the database is where other tasks interleave.  The   *)
(* table is what a NEW session reads, i.e. committed rows; a row that is   *)
(* only flushed lives in the local state of the handler that flushed it.   *)
(***************************************************************************)
EXTENDS Naturals, Sequences, FiniteSets

CONSTANTS
  Videos,       (* video ids                                               *)
  Reqs,         (* request handlers that may be in flight together         *)
  Clients,      (* SSE clients                                             *)
  QueueMax,     (* QUEUE_MAX_SIZE (20 in the code)                         *)
  SubMax,       (* maxsize of a subscriber's queue (256 in the code)       *)
  MaxJobs,      (* bound: job ids ever allocated                           *)
  MaxFaults,    (* bound: database calls that raise                        *)
  MaxStops      (* bound: crashes and shutdowns                            *)

ASSUME VideosAssumption   == Videos # {}
ASSUME QueueMaxAssumption == QueueMax \in Nat \ {0}
ASSUME SubMaxAssumption   == SubMax \in Nat \ {0, 1}
ASSUME BoundsAssumption   == /\ MaxJobs \in Nat
                             /\ MaxFaults \in Nat
                             /\ MaxStops \in Nat

VARIABLES
  status,   (* status[j]: status column of row j, "absent" if not committed *)
  stored,   (* stored[j]: the note_path and error columns of row j          *)
  videoOf,  (* videoOf[j]: video id j was created for, in row or submission *)
  lastJob,  (* ids 1..lastJob are allocated; ids grow with created_at       *)
  queue,    (* asyncio.Queue of submissions, by job id                      *)
  wpc,      (* where the worker task is                                     *)
  wjob,     (* job id of the submission the worker holds, 0 if none         *)
  wres,     (* what the pipeline returned for wjob                          *)
  rpc,      (* rpc[r]: where request handler r is, or how it answered       *)
  rvid,     (* rvid[r]: the video r is about                                *)
  rrec,     (* rrec[r]: id of the row r commits                             *)
  rjob,     (* rjob[r]: job id of r's submission, or of the reused row      *)
  unread,   (* history: rows r has not read, or that came after it looked   *)
  spc,      (* spc[c]: where the SSE generator of client c is               *)
  sjob,     (* sjob[c]: the job c watches                                   *)
  sq,       (* sq[c]: c's subscriber queue                                  *)
  seen,     (* seen[c]: the events c received on this stream                *)
  server,   (* "up", "stopping" (lifespan shutdown) or "down"               *)
  faults, stops

dbVars     == <<status, stored, videoOf, lastJob>>
workerVars == <<wpc, wjob, wres>>
reqVars    == <<rpc, rvid, rrec, rjob, unread>>
sseVars    == <<spc, sjob, sq, seen>>
envVars    == <<server, faults, stops>>
vars       == <<dbVars, queue, workerVars, reqVars, sseVars, envVars>>

Jobs     == 1..MaxJobs
NoJob    == 0
Terminal == {"completed", "partial", "failed"}
Active   == {"queued", "running"}
Status   == {"absent"} \union Active \union Terminal

(* Finished request handlers: the answer they gave. *)
Answers == {"reused", "accepted", "full", "retried", "conflict", "error"}
ReqFree == {"idle"} \union Answers

(***************************************************************************)
(* What run_summary_pipeline hands the worker: a success with whatever the *)
(* agent's tool outputs contained, or a timeout (inner or outer) or an     *)
(* exception, which carry no note and no hotspot.                          *)
(***************************************************************************)
Errors  == {"none", "timeout", "exception", "missing"}
Results == [note : BOOLEAN, hotspot : BOOLEAN, error : Errors]
Outcomes ==
  [note : BOOLEAN, hotspot : BOOLEAN, error : {"none"}] \union
  [note : {FALSE}, hotspot : {FALSE}, error : {"timeout", "exception"}]

(* Mutant: an incomplete run without an error counts as completed. *)
MutFinalStatus(res) ==
  IF res.error # "none" THEN "failed"
  ELSE IF res.hotspot THEN "completed" ELSE "partial"

(* finalize_summary_job: the terminal status and the error column. *)
Incomplete(res) == ~res.hotspot \/ ~res.note

FinalStatus(res) ==
  IF res.error = "none" THEN IF Incomplete(res) THEN "partial" ELSE "completed"
                        ELSE IF Incomplete(res) THEN "failed"  ELSE "partial"

FinalError(res) ==
  IF res.error = "none" /\ Incomplete(res) THEN "missing" ELSE res.error

Columns == [note : BOOLEAN, error : Errors]

NoResult == [note |-> FALSE, hotspot |-> FALSE, error |-> "none"]

Init ==
  /\ status  = [j \in Jobs |-> "absent"]
  /\ stored  = [j \in Jobs |-> [note |-> FALSE, error |-> "none"]]
  /\ videoOf = [j \in Jobs |-> CHOOSE v \in Videos : TRUE]
  /\ lastJob = 0
  /\ queue   = << >>
  /\ wpc = "idle" /\ wjob = NoJob /\ wres = NoResult
  /\ rpc  = [r \in Reqs |-> "idle"]
  /\ rvid = [r \in Reqs |-> CHOOSE v \in Videos : TRUE]
  /\ rrec = [r \in Reqs |-> NoJob]
  /\ rjob = [r \in Reqs |-> NoJob]
  /\ unread = [r \in Reqs |-> {}]
  /\ spc  = [c \in Clients |-> "closed"]
  /\ sjob = [c \in Clients |-> NoJob]
  /\ sq   = [c \in Clients |-> << >>]
  /\ seen = [c \in Clients |-> << >>]
  /\ server = "up" /\ faults = 0 /\ stops = 0

-----------------------------------------------------------------------------
(* POST /summary/{video_id} *)

(* Mutant: only a queued job is looked for. *)
MutActiveJobsOf(v) == {j \in Jobs : videoOf[j] = v /\ status[j] = "queued"}

ActiveJobsOf(v) == {j \in Jobs : videoOf[j] = v /\ status[j] \in Active}

(* ORDER BY created_at DESC LIMIT 1; ids grow with created_at.             *)
IsLatest(j, S) == j \in S /\ \A k \in S : k <= j

(* The SELECT for a queued or running job of the video: reuse the latest. *)
PostReuse(r, v) ==
  /\ server = "up" /\ rpc[r] \in ReqFree
  /\ rpc'  = [rpc EXCEPT ![r] = "reused"]
  /\ rvid' = [rvid EXCEPT ![r] = v]
  /\ rrec' = [rrec EXCEPT ![r] = NoJob]
  /\ \E j \in Jobs : /\ IsLatest(j, ActiveJobsOf(v))
                     /\ rjob' = [rjob EXCEPT ![r] = j]
  /\ unread' = [unread EXCEPT ![r] = {}]
  /\ UNCHANGED <<dbVars, queue, workerVars, sseVars, envVars>>

(* The same SELECT finds nothing: the handler goes on to look up the       *)
(* hotspot and to enqueue.                                                 *)
PostCheck(r, v) ==
  /\ server = "up" /\ rpc[r] \in ReqFree
  /\ ActiveJobsOf(v) = {}
  /\ rpc'  = [rpc EXCEPT ![r] = "post_create"]
  /\ rvid' = [rvid EXCEPT ![r] = v]
  /\ rrec' = [rrec EXCEPT ![r] = NoJob]
  /\ rjob' = [rjob EXCEPT ![r] = NoJob]
  /\ unread' = [unread EXCEPT ![r] = {}]
  /\ UNCHANGED <<dbVars, queue, workerVars, sseVars, envVars>>

(* repo.create: the flushed INSERT takes an id; no other session sees it.  *)
AllocateJob(v) ==
  /\ lastJob < MaxJobs
  /\ lastJob' = lastJob + 1
  /\ videoOf' = [videoOf EXCEPT ![lastJob + 1] = v]

(* enqueue: create the row, then put_nowait the submission. *)
PostEnqueue(r) ==
  /\ rpc[r] = "post_create"
  /\ AllocateJob(rvid[r])
  /\ Len(queue) < QueueMax
  /\ queue' = Append(queue, lastJob + 1)
  /\ rpc'   = [rpc EXCEPT ![r] = "post_commit"]
  /\ rrec'  = [rrec EXCEPT ![r] = lastJob + 1]
  /\ rjob'  = [rjob EXCEPT ![r] = lastJob + 1]
  /\ UNCHANGED <<status, stored, unread, rvid, workerVars, sseVars, envVars>>

(* put_nowait raises QueueFull: the route rolls the row back, answers 429. *)
PostQueueFull(r) ==
  /\ rpc[r] = "post_create"
  /\ AllocateJob(rvid[r])
  /\ Len(queue) >= QueueMax
  /\ rpc'  = [rpc EXCEPT ![r] = "full"]
  /\ rrec' = [rrec EXCEPT ![r] = lastJob + 1]
  /\ unread' = [unread EXCEPT ![r] = {}]
  /\ UNCHANGED <<status, stored, queue, rvid, rjob, workerVars, sseVars, envVars>>

(* The row is committed: only now can another session read it, and a       *)
(* handler that has looked already does not know of it.                    *)
CommitRow(r) ==
  /\ status' = [status EXCEPT ![rrec[r]] = "queued"]
  /\ unread' = [q \in Reqs |-> IF q = r \/ rpc[q] \in ReqFree THEN {}
                               ELSE unread[q] \union {rrec[r]}]

(* annotate and commit. *)
PostCommit(r) ==
  /\ rpc[r] = "post_commit"
  /\ CommitRow(r)
  /\ rpc'    = [rpc EXCEPT ![r] = "accepted"]
  /\ UNCHANGED <<stored, videoOf, lastJob, queue, rvid, rrec, rjob, workerVars, sseVars, envVars>>

-----------------------------------------------------------------------------
(* POST /summary/job/{job_id}/retry *)

(* find_by_id and the status check: only a finished job may be retried.    *)
RetryCheck(r, old) ==
  /\ server = "up" /\ rpc[r] \in ReqFree
  /\ status[old] # "absent"
  /\ rpc'  = [rpc EXCEPT ![r] = IF status[old] \in Terminal THEN "retry_create"
                                                            ELSE "conflict"]
  /\ rvid' = [rvid EXCEPT ![r] = videoOf[old]]
  /\ rrec' = [rrec EXCEPT ![r] = NoJob]
  /\ rjob' = [rjob EXCEPT ![r] = NoJob]
  /\ unread' = [unread EXCEPT ![r] = IF status[old] \in Terminal
                                     THEN {j \in Jobs \ {old} : status[j] # "absent"} ELSE {}]
  /\ UNCHANGED <<dbVars, queue, workerVars, sseVars, envVars>>

(* The retry row: created, annotated and committed, but not yet submitted. *)
RetryCreate(r) ==
  /\ rpc[r] = "retry_create"
  /\ AllocateJob(rvid[r])
  /\ rpc'  = [rpc EXCEPT ![r] = "retry_commit"]
  /\ rrec' = [rrec EXCEPT ![r] = lastJob + 1]
  /\ UNCHANGED <<status, stored, unread, queue, rvid, rjob, workerVars, sseVars, envVars>>

RetryCommit(r) ==
  /\ rpc[r] = "retry_commit"
  /\ CommitRow(r)
  /\ rpc'    = [rpc EXCEPT ![r] = "retry_enqueue"]
  /\ UNCHANGED <<stored, videoOf, lastJob, queue, rvid, rrec, rjob, workerVars, sseVars, envVars>>

(* enqueue creates a SECOND row and submits that one.  The route never     *)
(* commits it, so it is rolled back when the request's session closes.     *)
RetryEnqueue(r) ==
  /\ rpc[r] = "retry_enqueue"
  /\ AllocateJob(rvid[r])
  /\ Len(queue) < QueueMax
  /\ queue' = Append(queue, lastJob + 1)
  /\ rpc'   = [rpc EXCEPT ![r] = "retried"]
  /\ rjob'  = [rjob EXCEPT ![r] = lastJob + 1]
  /\ UNCHANGED <<status, stored, unread, rvid, rrec, workerVars, sseVars, envVars>>

(* The retry route does not catch QueueFullError: 500, first row kept.     *)
RetryQueueFull(r) ==
  /\ rpc[r] = "retry_enqueue"
  /\ AllocateJob(rvid[r])
  /\ Len(queue) >= QueueMax
  /\ rpc' = [rpc EXCEPT ![r] = "error"]
  /\ UNCHANGED <<status, stored, unread, queue, rvid, rrec, rjob, workerVars, sseVars, envVars>>

(* A database call of the handler raises: its uncommitted row is gone,     *)
(* what it already submitted stays in the queue.                           *)
ReqFault(r) ==
  /\ rpc[r] \notin ReqFree
  /\ faults < MaxFaults
  /\ faults' = faults + 1
  /\ rpc'    = [rpc EXCEPT ![r] = "error"]
  /\ unread' = [unread EXCEPT ![r] = {}]
  /\ UNCHANGED <<dbVars, queue, rvid, rrec, rjob, workerVars, sseVars, server, stops>>

-----------------------------------------------------------------------------
(* The worker: _worker_loop and _run_submission *)

Subscribers(j) == {c \in Clients : spc[c] # "closed" /\ sjob[c] = j}

(* Mutant: a queue counts as full one event too early. *)
MutBroadcast(j, event) ==
  sq' = [c \in Clients |->
           IF c \in Subscribers(j) /\ Len(sq[c]) + 1 < SubMax THEN Append(sq[c], event)
                                                              ELSE sq[c]]

(* broadcast: put_nowait to every subscriber, dropped where it is full.    *)
Broadcast(j, event) ==
  sq' = [c \in Clients |->
           IF c \in Subscribers(j) /\ Len(sq[c]) < SubMax THEN Append(sq[c], event)
                                                          ELSE sq[c]]

WorkerGet ==
  /\ wpc = "idle" /\ server = "up"
  /\ queue # << >>
  /\ wjob'  = Head(queue)
  /\ queue' = Tail(queue)
  /\ wpc'   = "start"
  /\ UNCHANGED <<dbVars, wres, reqVars, sseVars, envVars>>

(* mark_started finds the row; "started" goes out before the commit.       *)
WorkerMarkStarted ==
  /\ wpc = "start"
  /\ status[wjob] # "absent"
  /\ Broadcast(wjob, "started")
  /\ wpc' = "start_commit"
  /\ UNCHANGED <<dbVars, queue, wjob, wres, reqVars, spc, sjob, seen, envVars>>

(* Mutant: SummaryJobNotFoundError is not swallowed and ends the worker. *)
MutWorkerNotFound ==
  /\ wpc = "start"
  /\ status[wjob] = "absent"
  /\ wpc' = "dead" /\ wjob' = NoJob
  /\ UNCHANGED <<dbVars, queue, wres, reqVars, sseVars, envVars>>

(* mark_started raises SummaryJobNotFoundError, swallowed by _worker_loop: *)
(* the submission is dropped.                                              *)
WorkerNotFound ==
  /\ wpc = "start"
  /\ status[wjob] = "absent"
  /\ wpc' = "idle" /\ wjob' = NoJob
  /\ UNCHANGED <<dbVars, queue, wres, reqVars, sseVars, envVars>>

WorkerCommitStarted ==
  /\ wpc = "start_commit"
  /\ status' = [status EXCEPT ![wjob] = "running"]
  /\ wpc' = "pipeline"
  /\ UNCHANGED <<stored, videoOf, lastJob, queue, wjob, wres, reqVars, sseVars, envVars>>

(* run_summary_pipeline returns, times out or raises. *)
WorkerPipeline(res) ==
  /\ wpc = "pipeline"
  /\ wres' = res
  /\ wpc'  = "finish"
  /\ UNCHANGED <<dbVars, queue, wjob, reqVars, sseVars, envVars>>

(* Mutant: the timeout branch returns early and skips finalize. *)
MutWorkerFinish ==
  /\ wpc = "finish"
  /\ IF wres.error = "timeout"
     THEN wpc' = "idle" /\ wjob' = NoJob /\ UNCHANGED <<status, stored>>
     ELSE /\ status' = [status EXCEPT ![wjob] = FinalStatus(wres)]
          /\ stored' = [stored EXCEPT ![wjob] = [note |-> wres.note, error |-> FinalError(wres)]]
          /\ wpc' = "announce" /\ UNCHANGED wjob
  /\ UNCHANGED <<videoOf, lastJob, queue, wres, reqVars, sseVars, envVars>>

(* finalize_summary_job, mark_finished and commit. *)
WorkerFinish ==
  /\ wpc = "finish"
  /\ status' = [status EXCEPT ![wjob] = FinalStatus(wres)]
  /\ stored' = [stored EXCEPT ![wjob] = [note |-> wres.note, error |-> FinalError(wres)]]
  /\ wpc' = "announce"
  /\ UNCHANGED <<videoOf, lastJob, queue, wjob, wres, reqVars, sseVars, envVars>>

(* Mutant: only a completed run is announced. *)
MutWorkerAnnounce ==
  /\ wpc = "announce"
  /\ IF FinalStatus(wres) = "completed" THEN Broadcast(wjob, "completed") ELSE UNCHANGED sq
  /\ wpc' = "idle" /\ wjob' = NoJob /\ wres' = NoResult
  /\ UNCHANGED <<dbVars, queue, reqVars, spc, sjob, seen, envVars>>

(* The terminal broadcast, after the commit. *)
WorkerAnnounce ==
  /\ wpc = "announce"
  /\ Broadcast(wjob, FinalStatus(wres))
  /\ wpc' = "idle" /\ wjob' = NoJob /\ wres' = NoResult
  /\ UNCHANGED <<dbVars, queue, reqVars, spc, sjob, seen, envVars>>

(* Mutant: the handler of an unexpected error marks the row failed. *)
MutWorkerFault ==
  /\ wpc \in {"start", "start_commit", "finish"}
  /\ faults < MaxFaults
  /\ faults' = faults + 1
  /\ status' = [status EXCEPT ![wjob] = "failed"]
  /\ wpc' = "idle" /\ wjob' = NoJob /\ wres' = NoResult
  /\ UNCHANGED <<stored, videoOf, lastJob, queue, reqVars, sseVars, server, stops>>

(* A database call of the worker raises; _worker_loop swallows it and goes *)
(* on with the next submission.  The row keeps its committed status.       *)
WorkerFault ==
  /\ wpc \in {"start", "start_commit", "finish"}
  /\ faults < MaxFaults
  /\ faults' = faults + 1
  /\ wpc' = "idle" /\ wjob' = NoJob /\ wres' = NoResult
  /\ UNCHANGED <<dbVars, queue, reqVars, sseVars, server, stops>>

-----------------------------------------------------------------------------
(* GET /summary/events/{job_id}: event_gen *)

(* subscribe comes before the row is read. *)
Subscribe(c, j) ==
  /\ server = "up" /\ spc[c] = "closed"
  /\ spc'  = [spc EXCEPT ![c] = "snapshot"]
  /\ sjob' = [sjob EXCEPT ![c] = j]
  /\ sq'   = [sq EXCEPT ![c] = << >>]
  /\ seen' = [seen EXCEPT ![c] = << >>]
  /\ UNCHANGED <<dbVars, queue, workerVars, reqVars, envVars>>

(* The stream ends: unsubscribe in the finally clause. *)
CloseStream(c, last) ==
  /\ spc'  = [spc EXCEPT ![c] = "closed"]
  /\ sq'   = [sq EXCEPT ![c] = << >>]
  /\ seen' = [seen EXCEPT ![c] = @ \o last]

SnapshotMissing(c) ==
  /\ spc[c] = "snapshot"
  /\ status[sjob[c]] = "absent"
  /\ CloseStream(c, <<"error">>)
  /\ UNCHANGED <<dbVars, queue, workerVars, reqVars, sjob, envVars>>

SnapshotFinished(c) ==
  /\ spc[c] = "snapshot"
  /\ status[sjob[c]] \in Terminal
  /\ CloseStream(c, <<status[sjob[c]]>>)
  /\ UNCHANGED <<dbVars, queue, workerVars, reqVars, sjob, envVars>>

(* A queued or running row: "started" is replayed, emitted_started is set. *)
SnapshotActive(c) ==
  /\ spc[c] = "snapshot"
  /\ status[sjob[c]] \in Active
  /\ spc'  = [spc EXCEPT ![c] = "streaming"]
  /\ seen' = [seen EXCEPT ![c] = Append(@, "started")]
  /\ UNCHANGED <<dbVars, queue, workerVars, reqVars, sjob, sq, envVars>>

(* Mutant: no deduplication, the live "started" is forwarded as well. *)
MutDeliverStarted(c) ==
  /\ spc[c] = "streaming" /\ sq[c] # << >>
  /\ Head(sq[c]) = "started"
  /\ sq'   = [sq EXCEPT ![c] = Tail(@)]
  /\ seen' = [seen EXCEPT ![c] = Append(@, "started")]
  /\ UNCHANGED <<dbVars, queue, workerVars, reqVars, spc, sjob, envVars>>

(* A live "started" after the replayed one is skipped. *)
DeliverStarted(c) ==
  /\ spc[c] = "streaming" /\ sq[c] # << >>
  /\ Head(sq[c]) = "started"
  /\ sq' = [sq EXCEPT ![c] = Tail(@)]
  /\ UNCHANGED <<dbVars, queue, workerVars, reqVars, spc, sjob, seen, envVars>>

(* A terminal event is forwarded and ends the stream. *)
DeliverTerminal(c) ==
  /\ spc[c] = "streaming" /\ sq[c] # << >>
  /\ Head(sq[c]) \in Terminal
  /\ CloseStream(c, <<Head(sq[c]), "closing">>)
  /\ UNCHANGED <<dbVars, queue, workerVars, reqVars, sjob, envVars>>

Disconnect(c) ==
  /\ spc[c] # "closed"
  /\ CloseStream(c, << >>)
  /\ UNCHANGED <<dbVars, queue, workerVars, reqVars, sjob, envVars>>

-----------------------------------------------------------------------------
(* The server process: lifespan shutdown, crash, restart *)

(* Every stream ends without another event: its generator is cancelled.    *)
DropStreams ==
  /\ spc' = [c \in Clients |-> "closed"]
  /\ sq'  = [c \in Clients |-> << >>]
  /\ UNCHANGED <<sjob, seen>>

(* uvicorn has let the requests finish and ended the streams; stop() sets  *)
(* the stop event.                                                         *)
ShutdownBegin ==
  /\ server = "up" /\ stops < MaxStops
  /\ \A r \in Reqs : rpc[r] \in ReqFree
  /\ server' = "stopping" /\ stops' = stops + 1
  /\ DropStreams
  /\ UNCHANGED <<dbVars, queue, workerVars, reqVars, faults>>

(* What the process loses when it ends: queue, worker and handlers.        *)
LoseMemory ==
  /\ queue' = << >>
  /\ wpc' = "idle" /\ wjob' = NoJob /\ wres' = NoResult
  /\ rpc' = [r \in Reqs |-> IF rpc[r] \in ReqFree THEN rpc[r] ELSE "error"]
  /\ UNCHANGED <<dbVars, rvid, rrec, rjob, unread>>

(* stop() has waited for the worker, or cancelled it after two seconds     *)
(* wherever it was; reset_queue_for_tests drops the queue.                 *)
ShutdownEnd ==
  /\ server = "stopping"
  /\ server' = "down"
  /\ LoseMemory
  /\ UNCHANGED <<sseVars, faults, stops>>

Crash ==
  /\ server = "up" /\ stops < MaxStops
  /\ server' = "down" /\ stops' = stops + 1
  /\ LoseMemory /\ DropStreams
  /\ UNCHANGED faults

(* lifespan starts an empty queue and a worker; no row is read.            *)
Restart ==
  /\ server = "down"
  /\ server' = "up"
  /\ UNCHANGED <<dbVars, queue, workerVars, reqVars, sseVars, faults, stops>>

-----------------------------------------------------------------------------
ReqStep(r) == \/ PostEnqueue(r) \/ PostQueueFull(r) \/ PostCommit(r)
              \/ RetryCreate(r) \/ RetryCommit(r)
              \/ RetryEnqueue(r) \/ RetryQueueFull(r)

WorkerStep == \/ WorkerGet \/ WorkerMarkStarted \/ WorkerNotFound \/ WorkerCommitStarted
              \/ \E res \in Outcomes : WorkerPipeline(res)
              \/ WorkerFinish \/ WorkerAnnounce

StreamStep(c) == \/ SnapshotMissing(c) \/ SnapshotFinished(c) \/ SnapshotActive(c)
                 \/ DeliverStarted(c) \/ DeliverTerminal(c)

Next ==
  \/ \E r \in Reqs, v \in Videos : PostReuse(r, v) \/ PostCheck(r, v)
  \/ \E r \in Reqs, j \in Jobs : RetryCheck(r, j)
  \/ \E r \in Reqs : ReqStep(r) \/ ReqFault(r)
  \/ WorkerStep \/ WorkerFault
  \/ \E c \in Clients, j \in Jobs : Subscribe(c, j)
  \/ \E c \in Clients : StreamStep(c) \/ Disconnect(c)
  \/ ShutdownBegin \/ ShutdownEnd \/ Crash \/ Restart

Spec == Init /\ [][Next]_vars

(* The event loop runs every ready task: handlers, worker and streams go   *)
(* on.  The pipeline and stop() end because their timeouts are finite.     *)
(* Users, faults, crashes and restarts owe nothing.                        *)
Fairness ==
  /\ \A r \in Reqs : WF_vars(ReqStep(r))
  /\ WF_vars(WorkerStep)
  /\ \A c \in Clients : WF_vars(StreamStep(c))
  /\ WF_vars(ShutdownEnd)

FairSpec == Spec /\ Fairness

-----------------------------------------------------------------------------
(* Type invariant *)

ReqPc    == ReqFree \union {"post_create", "post_commit", "retry_create",
                            "retry_commit", "retry_enqueue"}
WorkerPc == {"idle", "start", "start_commit", "pipeline", "finish", "announce"}
StreamPc == {"closed", "snapshot", "streaming"}
LiveEvents == {"started"} \union Terminal
Events     == LiveEvents \union {"error", "closing"}

(* Every variable has its type; neither queue outgrows its maxsize.        *)
TypeOK ==
  /\ status  \in [Jobs -> Status]
  /\ stored  \in [Jobs -> Columns]
  /\ videoOf \in [Jobs -> Videos]
  /\ lastJob \in 0..MaxJobs
  /\ queue \in Seq(Jobs) /\ Len(queue) <= QueueMax
  /\ wpc \in WorkerPc /\ wjob \in Jobs \union {NoJob} /\ wres \in Results
  /\ rpc  \in [Reqs -> ReqPc]
  /\ rvid \in [Reqs -> Videos]
  /\ rrec \in [Reqs -> Jobs \union {NoJob}]
  /\ rjob \in [Reqs -> Jobs \union {NoJob}]
  /\ unread \in [Reqs -> SUBSET (Jobs \union {NoJob})]
  /\ spc  \in [Clients -> StreamPc]
  /\ sjob \in [Clients -> Jobs \union {NoJob}]
  /\ sq   \in [Clients -> Seq(LiveEvents)]
  /\ \A c \in Clients : Len(sq[c]) <= SubMax
  /\ seen \in [Clients -> Seq(Events)]
  /\ server \in {"up", "stopping", "down"}
  /\ faults \in 0..MaxFaults /\ stops \in 0..MaxStops

-----------------------------------------------------------------------------
(* Safety *)

Queued == {queue[i] : i \in DOMAIN queue}

(* A handler commits a second job of a video beside one that is queued or  *)
(* running only if it has not read that one: it was committed after a post *)
(* had looked, or the handler is a retry, which reads no row but the one   *)
(* it retries.  A post never starts a job beside one it could see.         *)
SecondJobIsUnseen ==
  [][\A r \in Reqs :
       rpc[r] \in {"post_commit", "retry_commit"} /\ status'[rrec[r]] = "queued" =>
         {j \in Jobs : videoOf[j] = rvid[r] /\ status[j] \in Active} \subseteq unread[r]]_vars

(* Running rows the worker does not have: nothing will ever finish them.   *)
Held(j) == wjob = j /\ wpc \in {"pipeline", "finish"}

Abandoned == {j \in Jobs : status[j] = "running" /\ ~Held(j)}

(* Each swallowed fault and each end of the process abandons one running   *)
(* row at most, and nothing else does: no row is left running by a job     *)
(* that timed out or raised, or whose row or video another request shares. *)
AbandonedAreCounted == Cardinality(Abandoned) <= faults + stops

(* The L6 contract of finalize.py, on the row: "completed" is only written *)
(* for a run that stored its note and no error, and every other terminal   *)
(* row says why.                                                           *)
StatusDoesNotMaskFailure ==
  \A j \in Jobs :
    /\ status[j] = "completed" => stored[j].note /\ stored[j].error = "none"
    /\ status[j] \in {"partial", "failed"} => stored[j].error # "none"
    /\ status[j] = "failed" => ~stored[j].note

(* subscribe-before-read: a stream that is still open on a finished row    *)
(* has the terminal event in its queue, or the worker is about to put it   *)
(* there.  Otherwise the client would wait for ever on a finished job.     *)
TerminalNotMissed ==
  \A c \in Clients :
    LET j == sjob[c] IN
    spc[c] = "streaming" /\ status[j] \in Terminal =>
      \/ wjob = j /\ wpc = "announce"
      \/ \E i \in DOMAIN sq[c] : sq[c][i] = status[j]

(* A stream is a well-formed prefix: at most one "started", then at most   *)
(* one terminal event, which is the status the row has, then "closing".    *)
(* The worker's own "started" can race the replayed one.                   *)
StreamShape ==
  \A c \in Clients :
    LET j == sjob[c]
        s == status[j] IN
    \/ seen[c] \in {<< >>, <<"error">>, <<"started">>}
    \/ s \in Terminal /\ seen[c] \in {<<s>>, <<"started", s, "closing">>}

(* A row in a terminal state is never written again, and a row moves only  *)
(* along queued -> running -> terminal, one worker at a time.              *)
Lifecycle == INSTANCE JobLifecycle
               WITH Jobs   <- Jobs,
                    NoJob  <- NoJob,
                    state  <- status,
                    active <- IF wpc \in {"pipeline", "finish"} THEN wjob ELSE NoJob

ImplementsLifecycle == Lifecycle!Spec

-----------------------------------------------------------------------------
(* Liveness, under FairSpec *)

(* Whatever the queue accepted is taken by the worker or lost with the     *)
(* process: a slow, failing or vanished job never blocks the ones behind.  *)
SubmissionsDrain == \A j \in Jobs : j \in Queued ~> j \notin Queued

(* A running row becomes terminal, unless a fault or the end of the        *)
(* process takes the worker away from it.                                  *)
Undisturbed == faults = 0 /\ stops = 0

RunningFinishes ==
  \A j \in Jobs : status[j] = "running" ~> (status[j] \in Terminal \/ ~Undisturbed)

(* Jobs move on: out of the queue, and from running to their end.          *)
JobsMoveOn == SubmissionsDrain /\ RunningFinishes

(* So does a stream that was opened on a job that runs.                    *)
StreamEnds ==
  \A c \in Clients :
    (spc[c] = "streaming" /\ status[sjob[c]] = "running")
      ~> (spc[c] = "closed" \/ ~Undisturbed)

-----------------------------------------------------------------------------
(* What a comment of the code claims, and the code does not do *)

(* summary_jobs.py: a posted job is consumed by the worker.                *)
QueuedIsConsumed ==
  \A j \in Jobs : status[j] = "queued" ~> status[j] # "queued"

=============================================================================
