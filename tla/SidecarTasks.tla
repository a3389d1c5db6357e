----------------------------- MODULE SidecarTasks -----------------------------
(***************************************************************************)
(* The tasks of the desktop sidecar (desktop/sidecar.py): the loop that    *)
(* answers submit_url and retry_task one request at a time, the pipeline   *)
(* run each of them spawns, the tasks table, the in-memory progress cache, *)
(* the notifications on stdout, and the process that reads them going away.*)
(*                                                                         *)
(* Runs of the same task may overlap: retry_task does not ask what the     *)
(* task is doing.  update_status reads the row and writes it in two steps, *)
(* and writes the status column only if it differs from what it read.      *)
(***************************************************************************)
EXTENDS Naturals

CONSTANTS
  Stages,     (* stages of a pipeline (6 in the code)                      *)
  MaxTasks,   (* bound: tasks ever submitted                               *)
  MaxRuns,    (* bound: pipeline runs ever spawned                         *)
  MaxRaises,  (* bound: stages that raise                                  *)
  MaxFaults,  (* bound: database calls that raise                          *)
  MaxKills,   (* bound: deaths of the sidecar process                      *)
  MaxExits    (* bound: orderly exits of the host                          *)

ASSUME StagesAssumption == Stages \in Nat \ {0}
ASSUME TaskBounds == /\ MaxTasks \in Nat /\ MaxRuns \in Nat /\ MaxRaises \in Nat
                     /\ MaxFaults \in Nat /\ MaxKills \in Nat /\ MaxExits \in Nat

VARIABLES
  row,        (* row[t]: the status column, "absent" if there is no row    *)
  err,        (* err[t]: error_message is set                              *)
  saved,      (* saved[t]: transcript, summary and note paths are stored   *)
  progress,   (* progress[t]: stages done, as the _tasks cache shows it    *)
  told,       (* told[t]: status of the last task_complete that was read   *)
  lastTask,   (* tasks 1..lastTask exist                                   *)
  hpc, htask, hheld,        (* the request loop, and the status it read    *)
  retried,    (* history: tasks retry_task was called for                  *)
  pc, task, stage, held,    (* the pipeline runs                           *)
  lastRun,    (* runs 1..lastRun were spawned                              *)
  proc,       (* "up", "closing" (stdin is at its end) or "down"           *)
  reader,     (* some process reads the sidecar's stdout                   *)
  raises, faults, kills, exits

tableVars == <<row, err, saved, lastTask>>
memVars   == <<progress, told>>
loopVars  == <<hpc, htask, hheld, retried>>
runVars   == <<pc, task, stage, held, lastRun>>
procVars  == <<proc, reader>>
faultVars == <<raises, faults, kills, exits>>
vars      == <<tableVars, memVars, loopVars, runVars, procVars, faultVars>>

Tasks   == 1..MaxTasks
Runs    == 1..MaxRuns
NoTask  == 0
Active  == {"pending", "running"}
Ended   == {"completed", "failed"}
Status  == {"absent"} \union Active \union Ended
Unread  == "unread"

Init ==
  /\ row      = [t \in Tasks |-> "absent"]
  /\ err      = [t \in Tasks |-> FALSE]
  /\ saved    = [t \in Tasks |-> FALSE]
  /\ progress = [t \in Tasks |-> 0]
  /\ told     = [t \in Tasks |-> "nothing"]
  /\ lastTask = 0
  /\ hpc = "idle" /\ htask = NoTask /\ hheld = Unread /\ retried = {}
  /\ pc    = [k \in Runs |-> "done"]
  /\ task  = [k \in Runs |-> NoTask]
  /\ stage = [k \in Runs |-> 1]
  /\ held  = [k \in Runs |-> Unread]
  /\ lastRun = 0
  /\ proc = "up" /\ reader = TRUE
  /\ raises = 0 /\ faults = 0 /\ kills = 0 /\ exits = 0

(* update_status: the flush writes the column if it differs from what the  *)
(* session read.                                                           *)
SetStatus(t, read, s) == row' = IF read = s THEN row ELSE [row EXCEPT ![t] = s]

-----------------------------------------------------------------------------
(* The request loop *)

(* The answer is written; when no one reads, the write ends the loop.      *)
Answer == /\ hpc' = IF reader THEN "idle" ELSE "left"
          /\ hheld' = Unread

(* A request sent before the host went is still in the pipe.               *)
Submit ==
  /\ proc # "down" /\ hpc = "idle"
  /\ lastTask < MaxTasks /\ lastRun < MaxRuns
  /\ lastTask' = lastTask + 1
  /\ row'   = [row EXCEPT ![lastTask'] = "pending"]
  /\ hpc'   = "spawn"
  /\ htask' = lastTask'
  /\ UNCHANGED <<err, saved, memVars, hheld, retried, runVars, procVars, faultVars>>

RetryRead(t) ==
  /\ proc # "down" /\ hpc = "idle"
  /\ row[t] # "absent" /\ lastRun < MaxRuns
  /\ hpc'   = "retry"
  /\ htask' = t
  /\ hheld' = row[t]
  /\ retried' = retried \union {t}
  /\ UNCHANGED <<tableVars, memVars, runVars, procVars, faultVars>>

(* error_message=None does not clear the column. *)
RetryReset ==
  /\ hpc = "retry"
  /\ SetStatus(htask, hheld, "pending")
  /\ hpc' = "spawn" /\ hheld' = Unread
  /\ UNCHANGED <<err, saved, lastTask, memVars, htask, retried, runVars, procVars, faultVars>>

(* A database call of the retry raises: an error response, no run.         *)
RetryFault ==
  /\ hpc = "retry" /\ faults < MaxFaults
  /\ faults' = faults + 1
  /\ Answer
  /\ UNCHANGED <<tableVars, memVars, htask, retried, runVars, procVars, raises, kills, exits>>

(* Mutant: a retry of a task that still has a run spawns nothing. *)
MutSpawn ==
  /\ hpc = "spawn"
  /\ IF \E k \in Runs : task[k] = htask /\ pc[k] # "done"
     THEN UNCHANGED <<lastRun, progress, pc, task, stage>>
     ELSE /\ lastRun'  = lastRun + 1
          /\ progress' = [progress EXCEPT ![htask] = 0]
          /\ pc'    = [pc EXCEPT ![lastRun'] = "start"]
          /\ task'  = [task EXCEPT ![lastRun'] = htask]
          /\ stage' = [stage EXCEPT ![lastRun'] = 1]
  /\ Answer
  /\ UNCHANGED <<tableVars, told, htask, retried, held, procVars, faultVars>>

(* The cache entry is reset and the pipeline task created. *)
Spawn ==
  /\ hpc = "spawn"
  /\ lastRun'  = lastRun + 1
  /\ progress' = [progress EXCEPT ![htask] = 0]
  /\ pc'    = [pc EXCEPT ![lastRun'] = "start"]
  /\ task'  = [task EXCEPT ![lastRun'] = htask]
  /\ stage' = [stage EXCEPT ![lastRun'] = 1]
  /\ Answer
  /\ UNCHANGED <<tableVars, told, htask, retried, held, procVars, faultVars>>

-----------------------------------------------------------------------------
(* _run_pipeline *)

GoTo(k, to) ==
  /\ pc'   = [pc EXCEPT ![k] = to]
  /\ held' = [held EXCEPT ![k] = Unread]

(* update_status reads the row. *)
ReadRow(k) ==
  /\ pc[k] \in {"start", "complete", "fail"} /\ held[k] = Unread
  /\ held' = [held EXCEPT ![k] = row[task[k]]]
  /\ UNCHANGED <<tableVars, memVars, loopVars, pc, task, stage, lastRun, procVars, faultVars>>

MarkRunning(k) ==
  /\ pc[k] = "start" /\ held[k] # Unread
  /\ SetStatus(task[k], held[k], "running")
  /\ GoTo(k, "begin")
  /\ UNCHANGED <<err, saved, lastTask, memVars, loopVars, task, stage, lastRun, procVars, faultVars>>

(* A notification: the cache first, then the write, which raises when no   *)
(* one reads.  An exception shows as progress 0.                           *)
Emit(k, pct, next) ==
  /\ progress' = [progress EXCEPT ![task[k]] = IF reader THEN pct ELSE 0]
  /\ GoTo(k, IF reader THEN next ELSE "fail")

BeginStages(k) ==
  /\ pc[k] = "begin"
  /\ Emit(k, 0, "work")
  /\ UNCHANGED <<tableVars, told, loopVars, task, stage, lastRun, procVars, faultVars>>

(* A stage ends, its events and those of the next one's begin go out.      *)
EndStage(k) ==
  /\ pc[k] = "work"
  /\ Emit(k, stage[k], IF stage[k] = Stages THEN "complete" ELSE "work")
  /\ stage' = [stage EXCEPT ![k] = IF @ = Stages THEN @ ELSE @ + 1]
  /\ UNCHANGED <<tableVars, told, loopVars, task, lastRun, procVars, faultVars>>

StageRaises(k) ==
  /\ pc[k] = "work" /\ raises < MaxRaises
  /\ raises'   = raises + 1
  /\ progress' = [progress EXCEPT ![task[k]] = 0]
  /\ GoTo(k, "fail")
  /\ UNCHANGED <<tableVars, told, loopVars, task, stage, lastRun, procVars, faults, kills, exits>>

(* Mutant: the result is not persisted before the completion is announced. *)
MutMarkCompleted(k) ==
  /\ pc[k] = "complete" /\ held[k] # Unread
  /\ SetStatus(task[k], held[k], "completed")
  /\ GoTo(k, "announce")
  /\ UNCHANGED <<err, saved, lastTask, memVars, loopVars, task, stage, lastRun, procVars, faultVars>>

MarkCompleted(k) ==
  /\ pc[k] = "complete" /\ held[k] # Unread
  /\ SetStatus(task[k], held[k], "completed")
  /\ GoTo(k, "persist")
  /\ UNCHANGED <<err, saved, lastTask, memVars, loopVars, task, stage, lastRun, procVars, faultVars>>

Persist(k) ==
  /\ pc[k] = "persist"
  /\ saved' = [saved EXCEPT ![task[k]] = TRUE]
  /\ GoTo(k, "announce")
  /\ UNCHANGED <<row, err, lastTask, memVars, loopVars, task, stage, lastRun, procVars, faultVars>>

(* emit_complete sets 100 percent in the cache before it writes.           *)
Announce(k) ==
  /\ pc[k] = "announce"
  /\ progress' = [progress EXCEPT ![task[k]] = Stages]
  /\ told' = [told EXCEPT ![task[k]] = IF reader THEN "success" ELSE @]
  /\ GoTo(k, IF reader THEN "done" ELSE "fail")
  /\ UNCHANGED <<tableVars, loopVars, task, stage, lastRun, procVars, faultVars>>

(* Mutant: a run that failed leaves the status to the next run. *)
MutMarkFailed(k) ==
  /\ pc[k] = "fail" /\ held[k] # Unread
  /\ err' = [err EXCEPT ![task[k]] = TRUE]
  /\ GoTo(k, "announce_fail")
  /\ UNCHANGED <<row, saved, lastTask, memVars, loopVars, task, stage, lastRun, procVars, faultVars>>

MarkFailed(k) ==
  /\ pc[k] = "fail" /\ held[k] # Unread
  /\ SetStatus(task[k], held[k], "failed")
  /\ err' = [err EXCEPT ![task[k]] = TRUE]
  /\ GoTo(k, "announce_fail")
  /\ UNCHANGED <<saved, lastTask, memVars, loopVars, task, stage, lastRun, procVars, faultVars>>

(* When no one reads the exception leaves the run: it is over all the same. *)
AnnounceFail(k) ==
  /\ pc[k] = "announce_fail"
  /\ told' = [told EXCEPT ![task[k]] = IF reader THEN "failed" ELSE @]
  /\ GoTo(k, "done")
  /\ UNCHANGED <<tableVars, progress, loopVars, task, stage, lastRun, procVars, faultVars>>

(* A database call raises: the run goes to its except clause, and if it is *)
(* there already, it ends with the row as it is.                           *)
RunFault(k) ==
  /\ pc[k] \in {"start", "complete", "persist", "fail"} /\ faults < MaxFaults
  /\ faults' = faults + 1
  /\ GoTo(k, IF pc[k] = "fail" THEN "done" ELSE "fail")
  /\ UNCHANGED <<tableVars, memVars, loopVars, task, stage, lastRun, procVars, raises, kills, exits>>

-----------------------------------------------------------------------------
(* The processes *)

(* The desktop app quits, or the extension disconnects from the native     *)
(* host after its one answer: stdin ends and stdout loses its reader.      *)
HostExits ==
  /\ proc = "up" /\ exits < MaxExits
  /\ proc' = "closing" /\ reader' = FALSE
  /\ exits' = exits + 1
  /\ UNCHANGED <<tableVars, memVars, loopVars, runVars, raises, faults, kills>>

(* main's finally clause: shutdown gathers the runs. *)
Shutdown ==
  /\ proc = "closing" /\ hpc \in {"idle", "left"}
  /\ \A k \in Runs : pc[k] = "done"
  /\ proc' = "down" /\ hpc' = "idle"
  /\ UNCHANGED <<tableVars, memVars, htask, hheld, retried, runVars, reader, faultVars>>

Kill ==
  /\ proc # "down" /\ kills < MaxKills
  /\ kills' = kills + 1
  /\ proc'  = "down"
  /\ hpc'   = "idle" /\ hheld' = Unread
  /\ pc'    = [k \in Runs |-> "done"]
  /\ held'  = [k \in Runs |-> Unread]
  /\ UNCHANGED <<tableVars, memVars, htask, retried, task, stage, lastRun, reader, raises, faults, exits>>

(* A new process: an empty cache; no row of the table is looked at.        *)
Restart ==
  /\ proc = "down"
  /\ proc' = "up" /\ reader' = TRUE
  /\ progress' = [t \in Tasks |-> 0]
  /\ UNCHANGED <<tableVars, told, loopVars, runVars, faultVars>>

-----------------------------------------------------------------------------
(* The read-only requests *)

(* get_task_status: status and error from the row, progress from the cache *)
(* of this process.                                                        *)
TaskStatus(t) == [status |-> row[t], progress |-> progress[t], error |-> err[t]]

(* list_tasks shows the tasks there are, the newest of them.               *)
TaskList == 1..lastTask

-----------------------------------------------------------------------------
LoopStep   == RetryReset \/ Spawn
RunStep(k) == \/ ReadRow(k) \/ MarkRunning(k) \/ BeginStages(k) \/ EndStage(k)
              \/ MarkCompleted(k) \/ Persist(k) \/ Announce(k)
              \/ MarkFailed(k) \/ AnnounceFail(k)

Next ==
  \/ Submit \/ \E t \in Tasks : RetryRead(t)
  \/ LoopStep \/ RetryFault
  \/ \E k \in Runs : RunStep(k) \/ StageRaises(k) \/ RunFault(k)
  \/ HostExits \/ Shutdown \/ Kill \/ Restart

Spec == Init /\ [][Next]_vars

(* The event loop runs every ready task, and a stage returns: each of its  *)
(* network calls and subprocesses ends.                                    *)
Fairness ==
  /\ WF_vars(LoopStep)
  /\ \A k \in Runs : WF_vars(RunStep(k))
  /\ WF_vars(Shutdown)

FairSpec == Spec /\ Fairness

-----------------------------------------------------------------------------
RunPc == {"start", "begin", "work", "complete", "persist", "announce",
          "fail", "announce_fail", "done"}

(* Every variable has its type. *)
TypeOK ==
  /\ row      \in [Tasks -> Status]
  /\ err      \in [Tasks -> BOOLEAN]
  /\ saved    \in [Tasks -> BOOLEAN]
  /\ progress \in [Tasks -> 0..Stages]
  /\ told     \in [Tasks -> {"nothing", "success", "failed"}]
  /\ lastTask \in 0..MaxTasks
  /\ hpc \in {"idle", "retry", "spawn", "left"}
  /\ hpc \in {"retry", "spawn"} => htask \in Tasks /\ lastRun < MaxRuns
  /\ htask \in Tasks \union {NoTask}
  /\ retried \subseteq Tasks
  /\ hheld \in Status \union {Unread}
  /\ pc    \in [Runs -> RunPc]
  /\ task  \in [Runs -> Tasks \union {NoTask}]
  /\ \A k \in Runs : pc[k] # "done" => task[k] \in Tasks
  /\ stage \in [Runs -> 1..Stages]
  /\ held  \in [Runs -> Status \union {Unread}]
  /\ lastRun \in 0..MaxRuns
  /\ proc \in {"up", "closing", "down"} /\ reader \in BOOLEAN
  /\ raises \in 0..MaxRaises /\ faults \in 0..MaxFaults
  /\ kills \in 0..MaxKills /\ exits \in 0..MaxExits

-----------------------------------------------------------------------------
RunsOf(t) == {k \in Runs : task[k] = t}
LiveRunsOf(t) == {k \in RunsOf(t) : pc[k] # "done"}

(* Without database faults and kills, a task that the table shows as       *)
(* pending or running has a run that will still write its row, however     *)
(* retries overlap, stages fail and the host goes away: no row is stuck.   *)
ActiveHasRun ==
  (faults = 0 /\ kills = 0) =>
    \A t \in Tasks :
      row[t] \in Active => LiveRunsOf(t) # {} \/ (hpc = "spawn" /\ htask = t)

(* A task that was announced a success and never retried is completed, has *)
(* its result stored and shows no error: nothing that still happens to its *)
(* one run turns it into a failure.                                        *)
SuccessIsTrue ==
  \A t \in Tasks \ retried :
    told[t] = "success" => row[t] = "completed" /\ saved[t] /\ ~err[t]

(* A client that polls is told the truth of two places at once: in the     *)
(* process that ran it, a task never retried is completed only at full     *)
(* progress, and has an error if and only if it failed.                    *)
AnswersAgree ==
  (kills = 0 /\ exits = 0) =>
    \A t \in TaskList \ retried :
      LET answer == TaskStatus(t) IN
        /\ answer.status = "completed" => answer.progress = Stages
        /\ answer.error <=> answer.status = "failed"

(* Under FairSpec a submitted or retried task ends, unless a fault or a    *)
(* kill takes its run away: also after the host has gone.                  *)
TasksSettle ==
  \A t \in Tasks : row[t] \in Active ~> row[t] \in Ended \/ faults > 0 \/ kills > 0
=============================================================================
