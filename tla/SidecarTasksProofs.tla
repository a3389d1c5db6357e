-------------------------- MODULE SidecarTasksProofs --------------------------
(***************************************************************************)
(* Proofs about SidecarTasks, for any number of stages, tasks, overlapping *)
(* runs, failures and exits: TypeOK, ActiveHasRun, and of the tasks that   *)
(* are never retried SuccessIsTrue and AnswersAgree.                       *)
(*                                                                         *)
(* ActiveHasRun is not inductive: a run that is alive may still leave the  *)
(* row as it is, because update_status does not write a status equal to    *)
(* the one it read.  The invariant names the run that will write: a row    *)
(* that is running belongs to a run whose next write changes it, a row     *)
(* that is pending to a run that has yet to start it.                      *)
(*                                                                         *)
(* The second part is about TaskPipeline, what a run does in its stages,   *)
(* for any number of tasks, runs, processes, urls, files and channels:     *)
(* TypeOK, RouteAgrees, GarbledNeedsOverlap, AnnouncedIsArchived and       *)
(* TornPairIsUnannounced.  Its invariant says which stages a run has       *)
(* behind it (StagesDone), that its notes are where it wrote them unless   *)
(* they were lost (NotesInVault, Lost, NotesInTurn), and that a run that   *)
(* was alone on its task owns the download it reads (OwnFiles).            *)
(***************************************************************************)
EXTENDS SidecarTasks, TaskPipeline, TLAPS

(* Run k will end, and its write of the status will not be skipped. *)
WillEnd(k) ==
  \/ pc[k] \in {"begin", "work"}
  \/ pc[k] = "complete" /\ held[k] # "completed"
  \/ pc[k] = "fail" /\ held[k] # "failed"

(* Run k will start, and its write of "running" will not be skipped. *)
WillStart(k) == pc[k] = "start" /\ held[k] # "running"

AboutToRun(t) == hpc = "spawn" /\ htask = t

RunningOwned(t) == row[t] = "running" => \E k \in Runs : task[k] = t /\ WillEnd(k)
PendingOwned(t) == row[t] = "pending" => AboutToRun(t) \/ \E k \in Runs : task[k] = t /\ WillStart(k)

Owned == (faults = 0 /\ kills = 0) => \A t \in Tasks : RunningOwned(t) /\ PendingOwned(t)

(* A run that is over, or not spawned yet, holds nothing. *)
FreshRuns == \A k \in Runs : /\ pc[k] = "done" => held[k] = Unread
                             /\ k > lastRun => pc[k] = "done"

IInv == TypeOK /\ FreshRuns /\ Owned

-----------------------------------------------------------------------------
LEMMA InitIInv == Init => IInv
<1> SUFFICES ASSUME Init PROVE IInv
  OBVIOUS
<1>1. TypeOK
  BY StagesAssumption, TaskBounds DEF Init, TypeOK, Status, Active, Ended, RunPc
<1>2. FreshRuns
  BY DEF Init, FreshRuns
<1>3. Owned
  BY DEF Init, Owned, RunningOwned, PendingOwned
<1>4. QED
  BY <1>1, <1>2, <1>3 DEF IInv

-----------------------------------------------------------------------------
(* Type correctness, one lemma per group of actions *)

LEMMA LoopType ==
  ASSUME TypeOK, Submit \/ (\E t \in Tasks : RetryRead(t)) \/ LoopStep \/ RetryFault
  PROVE  TypeOK'
<1> USE TaskBounds, StagesAssumption DEF TypeOK, Answer, tableVars, memVars, loopVars, runVars,
   procVars, faultVars,
        Tasks, Status, Active, Ended
<1>1. CASE Submit
  BY <1>1 DEF Submit
<1>2. ASSUME NEW t \in Tasks, RetryRead(t) PROVE TypeOK'
  BY <1>2 DEF RetryRead
<1>3. CASE RetryReset
  BY <1>3 DEF RetryReset, SetStatus
<1>4. CASE Spawn
  <2>1. lastRun + 1 \in Runs /\ htask \in Tasks /\ lastRun' = lastRun + 1
    BY <1>4 DEF Spawn, Runs
  <2>2. /\ progress' \in [Tasks -> 0..Stages]
        /\ pc' \in [Runs -> RunPc]
        /\ task' \in [Runs -> Tasks \union {NoTask}]
        /\ stage' \in [Runs -> 1..Stages]
        /\ hpc' \in {"idle", "left"}
    BY <1>4, <2>1 DEF Spawn, RunPc
  <2>3. \A k \in Runs : pc'[k] # "done" => task'[k] \in Tasks
    BY <1>4, <2>1 DEF Spawn
  <2>4. lastRun' \in 0..MaxRuns
    BY <2>1 DEF Runs
  <2>5. QED
    BY <1>4, <2>2, <2>3, <2>4 DEF Spawn
<1>5. CASE RetryFault
  BY <1>5 DEF RetryFault
<1>6. QED
  BY <1>1, <1>2, <1>3, <1>4, <1>5 DEF LoopStep

(* Moving a run that has a task keeps the types of pc and held. *)
LEMMA GoToType ==
  ASSUME TypeOK, NEW k \in Runs, NEW to \in RunPc, task[k] \in Tasks, GoTo(k, to), task' = task
  PROVE  /\ pc' \in [Runs -> RunPc]
         /\ \A j \in Runs : pc'[j] # "done" => task'[j] \in Tasks
         /\ held' \in [Runs -> Status \union {Unread}]
BY DEF TypeOK, GoTo

LEMMA EmitType ==
  ASSUME TypeOK, NEW k \in Runs, NEW to \in RunPc, NEW pct \in 0..Stages, task[k] \in Tasks,
         Emit(k, pct, to), task' = task
  PROVE  /\ progress' \in [Tasks -> 0..Stages]
         /\ pc' \in [Runs -> RunPc]
         /\ \A j \in Runs : pc'[j] # "done" => task'[j] \in Tasks
         /\ held' \in [Runs -> Status \union {Unread}]
<1>1. (IF reader THEN to ELSE "fail") \in RunPc
  BY DEF RunPc
<1>2. GoTo(k, IF reader THEN to ELSE "fail")
  BY DEF Emit
<1>3. progress' \in [Tasks -> 0..Stages]
  BY StagesAssumption DEF Emit, TypeOK
<1>4. QED
  BY <1>1, <1>2, <1>3, GoToType

LEMMA RunType ==
  ASSUME TypeOK, NEW k \in Runs, RunStep(k) \/ StageRaises(k) \/ RunFault(k)
  PROVE  TypeOK'
<1> USE DEF tableVars, memVars, loopVars, runVars, procVars, faultVars
<1>1. task[k] \in Tasks
  BY DEF TypeOK, RunStep, ReadRow, MarkRunning, BeginStages, EndStage, MarkCompleted, Persist,
         Announce, MarkFailed, AnnounceFail, StageRaises, RunFault
<1>2. CASE ReadRow(k)
  BY <1>1, <1>2 DEF ReadRow, TypeOK
<1>3. CASE MarkRunning(k)
  BY <1>1, <1>3, GoToType DEF MarkRunning, SetStatus, TypeOK, Status, Active, RunPc
<1>4. CASE BeginStages(k)
  <2>1. 0 \in 0..Stages /\ "work" \in RunPc
    BY StagesAssumption DEF RunPc
  <2>2. QED
    BY <1>1, <1>4, <2>1, EmitType DEF BeginStages, TypeOK
<1>5. CASE EndStage(k)
  <2> DEFINE to == IF stage[k] = Stages THEN "complete" ELSE "work"
  <2>1. stage[k] \in 0..Stages /\ to \in RunPc
    BY StagesAssumption DEF RunPc, TypeOK
  <2>2. Emit(k, stage[k], to) /\ task' = task
    BY <1>5 DEF EndStage
  <2> HIDE DEF to
  <2>3. /\ progress' \in [Tasks -> 0..Stages]
        /\ pc' \in [Runs -> RunPc]
        /\ \A j \in Runs : pc'[j] # "done" => task'[j] \in Tasks
        /\ held' \in [Runs -> Status \union {Unread}]
    BY <1>1, <2>1, <2>2, EmitType
  <2>4. stage' \in [Runs -> 1..Stages]
    BY <1>5, StagesAssumption DEF EndStage, TypeOK
  <2>5. QED
    BY <1>5, <2>3, <2>4 DEF EndStage, TypeOK
<1>6. CASE StageRaises(k)
  <2>1. raises' \in 0..MaxRaises /\ progress' \in [Tasks -> 0..Stages]
    BY <1>6, TaskBounds, StagesAssumption DEF StageRaises, TypeOK
  <2>2. QED
    BY <1>1, <1>6, <2>1, GoToType DEF StageRaises, TypeOK, RunPc
<1>7. CASE MarkCompleted(k)
  BY <1>1, <1>7, GoToType DEF MarkCompleted, SetStatus, TypeOK, Status, Ended, RunPc
<1>8. CASE Persist(k)
  BY <1>1, <1>8, GoToType DEF Persist, TypeOK, RunPc
<1>9. CASE Announce(k)
  <2>1. progress' \in [Tasks -> 0..Stages] /\ told' \in [Tasks -> {"nothing", "success", "failed"}]
    BY <1>9, StagesAssumption DEF Announce, TypeOK
  <2>2. (IF reader THEN "done" ELSE "fail") \in RunPc
    BY DEF RunPc
  <2>3. QED
    BY <1>1, <1>9, <2>1, <2>2, GoToType DEF Announce, TypeOK
<1>10. CASE MarkFailed(k)
  BY <1>1, <1>10, GoToType DEF MarkFailed, SetStatus, TypeOK, Status, Ended, RunPc
<1>11. CASE AnnounceFail(k)
  <2>1. told' \in [Tasks -> {"nothing", "success", "failed"}]
    BY <1>11 DEF AnnounceFail, TypeOK
  <2>2. QED
    BY <1>1, <1>11, <2>1, GoToType DEF AnnounceFail, TypeOK, RunPc
<1>12. CASE RunFault(k)
  <2>1. faults' \in 0..MaxFaults
    BY <1>12, TaskBounds DEF RunFault, TypeOK
  <2>2. (IF pc[k] = "fail" THEN "done" ELSE "fail") \in RunPc
    BY DEF RunPc
  <2>3. QED
    BY <1>1, <1>12, <2>1, <2>2, GoToType DEF RunFault, TypeOK
<1>13. QED
  BY <1>2, <1>3, <1>4, <1>5, <1>6, <1>7, <1>8, <1>9, <1>10, <1>11, <1>12 DEF RunStep

LEMMA HostExitsType == ASSUME TypeOK, HostExits PROVE TypeOK'
<1>1. exits' \in 0..MaxExits
  BY TaskBounds DEF TypeOK, HostExits
<1>2. proc' \in {"up", "closing", "down"} /\ reader' \in BOOLEAN
  BY DEF HostExits
<1>3. QED
  BY <1>1, <1>2 DEF TypeOK, HostExits, tableVars, memVars, loopVars, runVars

LEMMA ProcessType ==
  ASSUME TypeOK, HostExits \/ Shutdown \/ Kill \/ Restart
  PROVE  TypeOK'
<1> USE TaskBounds, StagesAssumption DEF TypeOK, tableVars, memVars, loopVars, runVars, procVars,
   faultVars
<1>1. CASE HostExits
  BY <1>1, HostExitsType
<1>2. CASE Shutdown
  BY <1>2 DEF Shutdown
<1>3. CASE Kill
  BY <1>3 DEF Kill, RunPc
<1>4. CASE Restart
  BY <1>4 DEF Restart
<1>5. QED
  BY <1>1, <1>2, <1>3, <1>4

LEMMA NextType == ASSUME TypeOK, [Next]_vars PROVE TypeOK'
<1>1. CASE UNCHANGED vars
  BY <1>1 DEF TypeOK, vars, tableVars, memVars, loopVars, runVars, procVars, faultVars
<1>2. QED
  BY <1>1, LoopType, RunType, ProcessType DEF Next

-----------------------------------------------------------------------------
(* FreshRuns *)

LEMMA NextFresh == ASSUME TypeOK, FreshRuns, [Next]_vars PROVE FreshRuns'
<1> USE DEF FreshRuns, tableVars, memVars, loopVars, runVars, procVars, faultVars
<1>1. ASSUME NEW k \in Runs, RunStep(k) \/ StageRaises(k) \/ RunFault(k) PROVE FreshRuns'
  <2> SUFFICES ASSUME NEW j \in Runs
               PROVE  (pc'[j] = "done" => held'[j] = Unread) /\ (j > lastRun' => pc'[j] = "done")
    OBVIOUS
  <2>1. lastRun' = lastRun /\ pc[k] # "done"
    BY <1>1 DEF RunStep, ReadRow, MarkRunning, BeginStages, EndStage, MarkCompleted, Persist,
                Announce, MarkFailed, AnnounceFail, StageRaises, RunFault
  <2>2. CASE j # k
    <3>1. pc'[j] = pc[j] /\ held'[j] = held[j]
      BY <1>1, <2>2 DEF TypeOK, GoTo, Emit, RunStep, ReadRow, MarkRunning, BeginStages, EndStage,
         MarkCompleted,
                Persist, Announce, MarkFailed, AnnounceFail, StageRaises, RunFault
    <3>2. QED
      BY <2>1, <3>1
  <2>3. CASE j = k /\ ReadRow(k)
    BY <2>1, <2>3 DEF ReadRow, TypeOK
  <2>4. CASE j = k /\ ~ReadRow(k)
    <3>1. held'[k] = Unread
      BY <1>1, <2>4 DEF TypeOK, GoTo, Emit, RunStep, MarkRunning, BeginStages, EndStage,
         MarkCompleted,
                Persist, Announce, MarkFailed, AnnounceFail, StageRaises, RunFault
    <3>2. QED
      BY <2>1, <2>4, <3>1
  <2>5. QED
    BY <2>2, <2>3, <2>4
<1>2. CASE Spawn
  BY <1>2 DEF Spawn, TypeOK, Runs
<1>3. CASE Submit \/ (\E t \in Tasks : RetryRead(t)) \/ RetryReset \/ RetryFault \/ HostExits \/ Shutdown \/ Restart
  BY <1>3 DEF Submit, RetryRead, RetryReset, RetryFault, HostExits, Shutdown, Restart
<1>4. CASE Kill
  BY <1>4 DEF Kill
<1>5. CASE UNCHANGED vars
  BY <1>5 DEF vars
<1>6. QED
  BY <1>1, <1>2, <1>3, <1>4, <1>5 DEF Next, LoopStep

-----------------------------------------------------------------------------
(* Owned *)

(* What run k does to other runs' claims: nothing, and it only ever writes *)
(* the row of its own task.                                                *)
LEMMA OtherRuns ==
  ASSUME TypeOK, NEW k \in Runs, RunStep(k) \/ StageRaises(k) \/ RunFault(k)
  PROVE  /\ \A j \in Runs \ {k} : pc'[j] = pc[j] /\ held'[j] = held[j]
         /\ task' = task /\ hpc' = hpc /\ htask' = htask /\ kills' = kills
         /\ \A t \in Tasks \ {task[k]} : row'[t] = row[t]
BY DEF TypeOK, GoTo, Emit, SetStatus, RunStep, ReadRow, MarkRunning, BeginStages, EndStage,
   MarkCompleted,
       Persist, Announce, MarkFailed, AnnounceFail, StageRaises, RunFault,
       tableVars, memVars, loopVars, runVars, procVars, faultVars

(* A step of run k that keeps its own claim, and changes the row of its    *)
(* task only to a status it then owns, keeps every row owned.              *)
LEMMA KeepsOwned ==
  ASSUME TypeOK, Owned, NEW k \in Runs, RunStep(k) \/ StageRaises(k), faults' = faults,
         row'[task[k]] # row[task[k]] => \/ row'[task[k]] = "running" /\ WillEnd(k)'
                                         \/ row'[task[k]] \in Ended,
         row[task[k]] = "running" /\ row'[task[k]] = "running" /\ WillEnd(k) => WillEnd(k)',
         row[task[k]] = "pending" /\ row'[task[k]] = "pending" /\ WillStart(k) => WillStart(k)'
  PROVE  Owned'
<1> SUFFICES ASSUME faults = 0, kills = 0, NEW t \in Tasks PROVE RunningOwned(t)' /\ PendingOwned(t)'
  BY OtherRuns DEF Owned
<1>1. /\ \A j \in Runs \ {k} : (WillEnd(j)' <=> WillEnd(j)) /\ (WillStart(j)' <=> WillStart(j))
      /\ task' = task /\ hpc' = hpc /\ htask' = htask
  BY OtherRuns DEF WillEnd, WillStart
<1>2. RunningOwned(t) /\ PendingOwned(t)
  BY DEF Owned
<1>3. CASE t # task[k]
  <2>1. row'[t] = row[t]
    BY <1>3, OtherRuns
  <2>2. QED
    BY <1>1, <1>2, <1>3, <2>1 DEF RunningOwned, PendingOwned, AboutToRun
<1>4. CASE t = task[k] /\ row'[t] = row[t]
  BY <1>1, <1>2, <1>4 DEF RunningOwned, PendingOwned, AboutToRun
<1>5. CASE t = task[k] /\ row'[t] # row[t]
  <2>1. \/ row'[t] = "running" /\ WillEnd(k)' /\ task'[k] = t
        \/ row'[t] \in Ended
    BY <1>1, <1>5
  <2>2. QED
    BY <2>1 DEF RunningOwned, PendingOwned, Ended
<1>6. QED
  BY <1>3, <1>4, <1>5

LEMMA RunOwned ==
  ASSUME TypeOK, Owned, NEW k \in Runs, RunStep(k) \/ StageRaises(k)
  PROVE  Owned'
<1> USE DEF tableVars, memVars, loopVars, runVars, procVars, faultVars, TypeOK, WillEnd, WillStart,
   Unread
<1>1. task[k] \in Tasks
  BY DEF RunStep, ReadRow, MarkRunning, BeginStages, EndStage, MarkCompleted, Persist,
         Announce, MarkFailed, AnnounceFail, StageRaises
<1>2. CASE ReadRow(k)
  <2>1. row' = row /\ faults' = faults /\ pc' = pc /\ held'[k] = row[task[k]]
    BY <1>2 DEF ReadRow
  <2>2. QED
    BY <2>1, KeepsOwned
<1>3. CASE MarkRunning(k)
  <2>1. /\ faults' = faults /\ pc[k] = "start" /\ pc'[k] = "begin"
        /\ row' = IF held[k] = "running" THEN row ELSE [row EXCEPT ![task[k]] = "running"]
    BY <1>3 DEF MarkRunning, SetStatus, GoTo
  <2>2. row'[task[k]] # row[task[k]] => row'[task[k]] = "running"
    BY <1>1, <2>1
  <2>3. row'[task[k]] = "pending" => ~WillStart(k)
    BY <1>1, <2>1
  <2>4. QED
    BY <2>1, <2>2, <2>3, KeepsOwned
<1>4. CASE BeginStages(k)
  <2>1. row' = row /\ faults' = faults /\ pc[k] = "begin" /\ pc'[k] \in {"work", "fail"} /\ held'[k] = Unread
    BY <1>4 DEF BeginStages, Emit, GoTo
  <2>2. QED
    BY <2>1, KeepsOwned
<1>5. CASE EndStage(k)
  <2>1. row' = row /\ faults' = faults /\ pc[k] = "work" /\ held'[k] = Unread
    BY <1>5 DEF EndStage, Emit, GoTo
  <2>2. pc'[k] \in {"work", "complete", "fail"}
    BY <1>5 DEF EndStage, Emit, GoTo
  <2>3. QED
    BY <2>1, <2>2, KeepsOwned
<1>6. CASE StageRaises(k)
  <2>1. row' = row /\ faults' = faults /\ pc[k] = "work" /\ pc'[k] = "fail" /\ held'[k] = Unread
    BY <1>6 DEF StageRaises, GoTo
  <2>2. QED
    BY <2>1, KeepsOwned
<1>7. CASE MarkCompleted(k)
  <2>1. /\ faults' = faults /\ pc[k] = "complete"
        /\ row' = IF held[k] = "completed" THEN row ELSE [row EXCEPT ![task[k]] = "completed"]
    BY <1>7 DEF MarkCompleted, SetStatus
  <2>2. row'[task[k]] # row[task[k]] => row'[task[k]] \in Ended
    BY <1>1, <2>1 DEF Ended
  <2>3. row'[task[k]] = "running" => ~WillEnd(k)
    BY <1>1, <2>1
  <2>4. QED
    BY <2>1, <2>2, <2>3, KeepsOwned
<1>8. CASE Persist(k) \/ Announce(k) \/ AnnounceFail(k)
  <2>1. row' = row /\ faults' = faults /\ pc[k] \in {"persist", "announce", "announce_fail"}
    BY <1>8 DEF Persist, Announce, AnnounceFail
  <2>2. QED
    BY <2>1, KeepsOwned
<1>9. CASE MarkFailed(k)
  <2>1. /\ faults' = faults /\ pc[k] = "fail"
        /\ row' = IF held[k] = "failed" THEN row ELSE [row EXCEPT ![task[k]] = "failed"]
    BY <1>9 DEF MarkFailed, SetStatus
  <2>2. row'[task[k]] # row[task[k]] => row'[task[k]] \in Ended
    BY <1>1, <2>1 DEF Ended
  <2>3. row'[task[k]] = "running" => ~WillEnd(k)
    BY <1>1, <2>1
  <2>4. QED
    BY <2>1, <2>2, <2>3, KeepsOwned
<1>10. QED
  BY <1>2, <1>3, <1>4, <1>5, <1>6, <1>7, <1>8, <1>9 DEF RunStep

(* A step that leaves the runs alone, and no row active that was not, keeps *)
(* every row owned if the loop does not drop a task it is about to run.    *)
LEMMA QuietOwned ==
  ASSUME Owned, UNCHANGED <<row, runVars>>, faults' = faults, kills' = kills,
         \A t \in Tasks : AboutToRun(t) => AboutToRun(t)'
  PROVE  Owned'
BY DEF Owned, RunningOwned, PendingOwned, WillEnd, WillStart, runVars

LEMMA NextOwned == ASSUME IInv, [Next]_vars PROVE Owned'
<1> USE DEF IInv, tableVars, memVars, loopVars, runVars, procVars, faultVars
<1>1. CASE Submit
  <2> SUFFICES ASSUME faults = 0, kills = 0, NEW t \in Tasks PROVE RunningOwned(t)' /\ PendingOwned(t)'
    BY <1>1 DEF Submit, Owned
  <2>1. CASE t = lastTask'
    BY <1>1, <2>1 DEF Submit, TypeOK, RunningOwned, PendingOwned, AboutToRun
  <2>2. CASE t # lastTask'
    <3>1. row'[t] = row[t] /\ ~AboutToRun(t) /\ UNCHANGED runVars
      BY <1>1, <2>2 DEF Submit, TypeOK, AboutToRun
    <3>2. QED
      BY <3>1 DEF Owned, RunningOwned, PendingOwned, WillEnd, WillStart
  <2>3. QED
    BY <2>1, <2>2
<1>2. CASE RetryReset
  <2> SUFFICES ASSUME faults = 0, kills = 0, NEW t \in Tasks PROVE RunningOwned(t)' /\ PendingOwned(t)'
    BY <1>2 DEF RetryReset, Owned
  <2>1. htask \in Tasks /\ htask' = htask /\ hpc = "retry" /\ hpc' = "spawn" /\ UNCHANGED runVars
    BY <1>2 DEF RetryReset, TypeOK
  <2>2. row' = IF hheld = "pending" THEN row ELSE [row EXCEPT ![htask] = "pending"]
    BY <1>2 DEF RetryReset, SetStatus
  <2>3. CASE t = htask
    <3>1. AboutToRun(t)' /\ (row'[t] = "running" => row[t] = "running")
      BY <2>1, <2>2, <2>3 DEF AboutToRun, TypeOK
    <3>2. QED
      BY <2>1, <3>1 DEF Owned, RunningOwned, PendingOwned, WillEnd, runVars
  <2>4. CASE t # htask
    <3>1. row'[t] = row[t] /\ ~AboutToRun(t)
      BY <2>1, <2>2, <2>4 DEF TypeOK, AboutToRun
    <3>2. QED
      BY <2>1, <3>1 DEF Owned, RunningOwned, PendingOwned, WillEnd, WillStart, runVars
  <2>5. QED
    BY <2>3, <2>4
<1>3. CASE Spawn
  <2> SUFFICES ASSUME faults = 0, kills = 0, NEW t \in Tasks PROVE RunningOwned(t)' /\ PendingOwned(t)'
    BY <1>3 DEF Spawn, Owned
  <2>0. PICK n \in Runs : n = lastRun + 1
    BY <1>3, TaskBounds DEF Spawn, TypeOK, Runs
  <2>1. pc[n] = "done" /\ held[n] = Unread
    BY <2>0 DEF TypeOK, FreshRuns
  <2>2. /\ row' = row /\ held' = held /\ hpc = "spawn"
        /\ pc' = [pc EXCEPT ![n] = "start"] /\ task' = [task EXCEPT ![n] = htask]
    BY <1>3, <2>0 DEF Spawn
  <2>3. /\ WillStart(n)' /\ task'[n] = htask
        /\ \A j \in Runs \ {n} : pc'[j] = pc[j] /\ task'[j] = task[j]
    BY <2>1, <2>2 DEF WillStart, TypeOK, Unread
  <2>4. \A j \in Runs : WillEnd(j) \/ WillStart(j) => j # n
    BY <2>1 DEF WillEnd, WillStart
  <2>5. \A j \in Runs : /\ WillEnd(j) => WillEnd(j)' /\ task'[j] = task[j]
                        /\ WillStart(j) => WillStart(j)' /\ task'[j] = task[j]
    BY <2>2, <2>3, <2>4 DEF WillEnd, WillStart
  <2>6. RunningOwned(t) /\ PendingOwned(t)
    BY DEF Owned
  <2>7. QED
    BY <2>1, <2>2, <2>3, <2>5, <2>6 DEF RunningOwned, PendingOwned, AboutToRun
<1>4. ASSUME NEW t \in Tasks, RetryRead(t) PROVE Owned'
  BY <1>4, QuietOwned DEF RetryRead, AboutToRun
<1>5. CASE HostExits \/ Restart
  BY <1>5, QuietOwned DEF HostExits, Restart, AboutToRun
<1>6. CASE Shutdown
  BY <1>6, QuietOwned DEF Shutdown, AboutToRun
<1>7. CASE RetryFault \/ \E k \in Runs : RunFault(k)
  <2>1. faults' # 0
    BY <1>7 DEF RetryFault, RunFault, TypeOK
  <2>2. QED
    BY <2>1 DEF Owned
<1>8. CASE Kill
  <2>1. kills' # 0
    BY <1>8 DEF Kill, TypeOK
  <2>2. QED
    BY <2>1 DEF Owned
<1>9. CASE UNCHANGED vars
  BY <1>9, QuietOwned DEF vars, AboutToRun
<1>10. QED
  BY <1>1, <1>2, <1>3, <1>4, <1>5, <1>6, <1>7, <1>8, <1>9, RunOwned DEF Next, LoopStep

-----------------------------------------------------------------------------
LEMMA Invariance == Spec => []IInv
<1>1. IInv /\ [Next]_vars => IInv'
  BY NextType, NextFresh, NextOwned DEF IInv
<1>2. QED
  BY <1>1, InitIInv, PTL DEF Spec

(* Every variable of the sidecar keeps its type. *)
THEOREM SidecarTypeCorrect == Spec => []TypeOK
<1>1. IInv => TypeOK
  BY DEF IInv
<1>2. QED
  BY <1>1, Invariance, PTL

(* Without database faults and kills no row is left pending or running     *)
(* without a run that will write it, however retries overlap.              *)
THEOREM NoRowIsStuck == Spec => []ActiveHasRun
<1>1. IInv => ActiveHasRun
  <2> SUFFICES ASSUME Owned, faults = 0, kills = 0, NEW t \in Tasks, row[t] \in Active
               PROVE  LiveRunsOf(t) # {} \/ (hpc = "spawn" /\ htask = t)
    BY DEF IInv, ActiveHasRun
  <2>1. AboutToRun(t) \/ \E k \in Runs : task[k] = t /\ (WillEnd(k) \/ WillStart(k))
    BY DEF Owned, RunningOwned, PendingOwned, Active
  <2>2. QED
    BY <2>1 DEF AboutToRun, LiveRunsOf, RunsOf, WillEnd, WillStart
<1>2. QED
  BY <1>1, Invariance, PTL

-----------------------------------------------------------------------------
(* Tasks that are never retried *)

(* Such a task has one run, which alone writes its row and its cache       *)
(* entry: the place of that run says what both hold.                       *)
Undisturbed == kills = 0 /\ exits = 0

TaskOk(t) ==
  /\ err[t] <=> row[t] = "failed"
  /\ told[t] = "success" => row[t] = "completed" /\ saved[t]
  /\ Undisturbed /\ row[t] = "completed" => progress[t] = Stages
  /\ \A j, k \in Runs : task[j] = t /\ task[k] = t => j = k
  /\ hpc = "spawn" /\ htask = t =>
       row[t] = "pending" /\ told[t] # "success" /\ \A k \in Runs : task[k] # t

RunOk(k) ==
  /\ held[k] \in {Unread, row[task[k]]}
  /\ pc[k] # "done" => told[task[k]] # "success"
  /\ pc[k] = "start" => row[task[k]] = "pending"
  /\ pc[k] \in {"begin", "work", "complete"} => row[task[k]] = "running"
  /\ pc[k] = "complete" /\ Undisturbed => progress[task[k]] = Stages
  /\ pc[k] \in {"persist", "announce"} => row[task[k]] = "completed"
  /\ pc[k] = "announce" => saved[task[k]]
  /\ pc[k] = "fail" => row[task[k]] # "failed"
  /\ pc[k] = "announce_fail" => row[task[k]] = "failed"

(* Tasks and runs that do not exist yet, and what exists of them. *)
Numbered ==
  /\ \A t \in Tasks : t > lastTask =>
       /\ row[t] = "absent" /\ told[t] # "success" /\ htask # t
       /\ \A k \in Runs : task[k] # t
  /\ \A k \in Runs : k > lastRun => task[k] = NoTask
  /\ hpc = "retry" => htask \in retried
  /\ \A t \in retried : t <= lastTask
  /\ Undisturbed => proc = "up" /\ reader

Once == /\ \A t \in Tasks \ retried : TaskOk(t)
        /\ \A k \in Runs : task[k] \in Tasks \ retried => RunOk(k)

OInv == IInv /\ Numbered /\ Once

LEMMA InitOnce == Init => Numbered /\ Once
BY DEF Init, Numbered, Once, TaskOk, RunOk, Undisturbed, Tasks, Unread, NoTask

(* A run's step touches its own task and its own place only. *)
LEMMA RunFrame ==
  ASSUME TypeOK, NEW k \in Runs, RunStep(k) \/ StageRaises(k) \/ RunFault(k)
  PROVE  /\ task[k] \in Tasks /\ pc[k] # "done"
         /\ \A j \in Runs \ {k} : pc'[j] = pc[j] /\ held'[j] = held[j]
         /\ \A t \in Tasks \ {task[k]} :
              /\ row'[t] = row[t] /\ err'[t] = err[t] /\ saved'[t] = saved[t]
              /\ told'[t] = told[t] /\ progress'[t] = progress[t]
         /\ UNCHANGED <<task, lastRun, lastTask, loopVars, procVars, kills, exits>>
<1> USE DEF TypeOK, GoTo, Emit, SetStatus, tableVars, memVars, loopVars, runVars, procVars,
   faultVars
<1>1. task[k] \in Tasks /\ pc[k] # "done"
  BY DEF RunStep, ReadRow, MarkRunning, BeginStages, EndStage, MarkCompleted,
         Persist, Announce, MarkFailed, AnnounceFail, StageRaises, RunFault
<1>2. CASE ReadRow(k) \/ MarkRunning(k) \/ MarkCompleted(k) \/ MarkFailed(k) \/ RunFault(k)
  BY <1>1, <1>2 DEF ReadRow, MarkRunning, MarkCompleted, MarkFailed, RunFault
<1>3. CASE BeginStages(k) \/ EndStage(k) \/ StageRaises(k)
  BY <1>1, <1>3 DEF BeginStages, EndStage, StageRaises
<1>4. CASE Persist(k) \/ Announce(k) \/ AnnounceFail(k)
  BY <1>1, <1>4 DEF Persist, Announce, AnnounceFail
<1>5. QED
  BY <1>2, <1>3, <1>4 DEF RunStep

(* So it is enough to look at that task and that run. *)
LEMMA RunKeeps ==
  ASSUME OInv, NEW k \in Runs, RunStep(k) \/ StageRaises(k) \/ RunFault(k),
         task[k] \notin retried =>
            /\ err'[task[k]] <=> row'[task[k]] = "failed"
            /\ told'[task[k]] = "success" => row'[task[k]] = "completed" /\ saved'[task[k]]
            /\ Undisturbed /\ row'[task[k]] = "completed" => progress'[task[k]] = Stages
            /\ RunOk(k)'
  PROVE  Numbered' /\ Once'
<1> USE DEF OInv, IInv
<1>1. /\ task[k] \in Tasks /\ pc[k] # "done"
      /\ \A j \in Runs \ {k} : pc'[j] = pc[j] /\ held'[j] = held[j]
      /\ \A t \in Tasks \ {task[k]} :
           /\ row'[t] = row[t] /\ err'[t] = err[t] /\ saved'[t] = saved[t]
           /\ told'[t] = told[t] /\ progress'[t] = progress[t]
      /\ UNCHANGED <<task, lastRun, lastTask, hpc, htask, retried, proc, reader, kills, exits>>
  BY RunFrame DEF loopVars, procVars
<1>2. task[k] <= lastTask
  BY <1>1 DEF Numbered, Tasks, TypeOK
<1>3. Numbered'
  BY <1>1, <1>2 DEF Numbered, Undisturbed, Tasks
<1>4. ASSUME NEW t \in Tasks, t \notin retried PROVE TaskOk(t)'
  <2>1. TaskOk(t)
    BY <1>4 DEF Once
  <2>2. CASE t # task[k]
    BY <1>1, <2>1, <2>2 DEF TaskOk, Undisturbed
  <2>3. CASE t = task[k]
    BY <1>1, <1>4, <2>1, <2>3 DEF TaskOk, Undisturbed
  <2>4. QED
    BY <2>2, <2>3
<1>5. ASSUME NEW j \in Runs, task[j] \in Tasks, task[j] \notin retried PROVE RunOk(j)'
  <2>1. CASE j = k
    BY <1>5, <2>1
  <2>2. CASE j # k
    <3>1. task[j] # task[k]
      BY <1>5, <2>2 DEF Once, TaskOk
    <3>2. RunOk(j)
      BY <1>5 DEF Once
    <3>3. QED
      BY <1>1, <1>5, <2>2, <3>1, <3>2 DEF RunOk, Undisturbed
  <2>3. QED
    BY <2>1, <2>2
<1>6. QED
  BY <1>1, <1>3, <1>4, <1>5 DEF Once

LEMMA Lands ==
  ASSUME TypeOK, NEW k \in Runs, NEW to, GoTo(k, to)
  PROVE  pc'[k] = to /\ held'[k] = Unread
BY DEF TypeOK, GoTo

LEMMA RunOnce ==
  ASSUME OInv, NEW k \in Runs, RunStep(k) \/ StageRaises(k) \/ RunFault(k)
  PROVE  Numbered' /\ Once'
<1> SUFFICES ASSUME task[k] \notin retried
             PROVE  /\ err'[task[k]] <=> row'[task[k]] = "failed"
                    /\ told'[task[k]] = "success" => row'[task[k]] = "completed" /\ saved'[task[k]]
                    /\ Undisturbed /\ row'[task[k]] = "completed" => progress'[task[k]] = Stages
                    /\ RunOk(k)'
  BY RunKeeps
<1>1. task[k] \in Tasks /\ task' = task /\ UNCHANGED <<kills, exits>> /\ pc[k] # "done"
  BY RunFrame DEF OInv, IInv
<1>2. TaskOk(task[k]) /\ RunOk(k) /\ TypeOK /\ (Undisturbed => reader)
  BY <1>1 DEF OInv, IInv, Once, Numbered
<1>3. told[task[k]] # "success" /\ (err[task[k]] <=> row[task[k]] = "failed")
  BY <1>1, <1>2 DEF RunOk, TaskOk
<1> USE DEF TypeOK, Emit, SetStatus, tableVars, memVars, Unread
<1>4. CASE ReadRow(k)
  BY <1>1, <1>2, <1>4 DEF ReadRow, TaskOk, RunOk, Undisturbed
<1>5. CASE MarkRunning(k)
  <2>1. row'[task[k]] = "running" /\ pc'[k] = "begin" /\ held'[k] = Unread
        /\ UNCHANGED <<err, told>>
    BY <1>1, <1>2, <1>5, Lands DEF MarkRunning, RunOk
  <2>2. row[task[k]] = "pending"
    BY <1>2, <1>5 DEF MarkRunning, RunOk
  <2>3. QED
    BY <1>1, <1>3, <2>1, <2>2 DEF RunOk, Undisturbed
<1>6. CASE BeginStages(k) \/ EndStage(k) \/ StageRaises(k)
  <2>1. /\ pc[k] \in {"begin", "work"} /\ held'[k] = Unread
        /\ UNCHANGED <<row, err, saved, told>>
    <3>1. CASE BeginStages(k)
      BY <1>2, <3>1, Lands DEF BeginStages
    <3>2. CASE EndStage(k)
      BY <1>2, <3>2, Lands DEF EndStage
    <3>3. CASE StageRaises(k)
      BY <1>2, <3>3, Lands DEF StageRaises
    <3>4. QED
      BY <1>6, <3>1, <3>2, <3>3
  <2>2. row[task[k]] = "running"
    BY <1>2, <2>1 DEF RunOk
  <2>3. /\ pc'[k] \in {"work", "complete", "fail"}
        /\ pc'[k] = "complete" => progress'[task[k]] = Stages
    <3>1. CASE BeginStages(k)
      BY <1>2, <3>1, Lands DEF BeginStages
    <3>2. CASE EndStage(k)
      <4> DEFINE to == IF reader THEN IF stage[k] = Stages THEN "complete" ELSE "work" ELSE "fail"
      <4>1. pc'[k] = to
        BY <1>2, <3>2, Lands DEF EndStage
      <4>2. progress'[task[k]] = IF reader THEN stage[k] ELSE 0
        BY <1>1, <1>2, <3>2 DEF EndStage
      <4>3. QED
        BY <4>1, <4>2
    <3>3. CASE StageRaises(k)
      BY <1>2, <3>3, Lands DEF StageRaises
    <3>4. QED
      BY <1>6, <3>1, <3>2, <3>3
  <2>4. QED
    BY <1>1, <1>3, <2>1, <2>2, <2>3 DEF RunOk, Undisturbed
<1>7. CASE MarkCompleted(k)
  <2>1. /\ row'[task[k]] = "completed" /\ pc'[k] = "persist" /\ held'[k] = Unread
        /\ UNCHANGED <<err, told, progress>>
    BY <1>1, <1>2, <1>7, Lands DEF MarkCompleted, RunOk
  <2>2. row[task[k]] = "running" /\ (Undisturbed => progress[task[k]] = Stages)
    BY <1>2, <1>7 DEF MarkCompleted, RunOk
  <2>3. QED
    BY <1>1, <1>3, <2>1, <2>2 DEF RunOk, Undisturbed
<1>8. CASE Persist(k)
  <2>1. /\ pc'[k] = "announce" /\ held'[k] = Unread
        /\ UNCHANGED <<row, err, told, progress>>
    BY <1>2, <1>8, Lands DEF Persist
  <2>2. saved'[task[k]] = TRUE
    BY <1>1, <1>2, <1>8 DEF Persist
  <2>3. row[task[k]] = "completed"
    BY <1>2, <1>8 DEF Persist, RunOk
  <2>4. QED
    BY <1>1, <1>2, <1>3, <2>1, <2>2, <2>3 DEF TaskOk, RunOk, Undisturbed
<1>9. CASE Announce(k)
  <2>1. /\ pc'[k] \in {"done", "fail"} /\ held'[k] = Unread
        /\ UNCHANGED <<row, err, saved>>
    BY <1>2, <1>9, Lands DEF Announce
  <2>2. progress'[task[k]] = Stages
    BY <1>1, <1>2, <1>9 DEF Announce
  <2>3. pc'[k] = "fail" => told'[task[k]] # "success"
    <3>1. CASE reader
      BY <1>2, <1>9, <3>1, Lands DEF Announce
    <3>2. CASE ~reader
      BY <1>1, <1>2, <1>3, <1>9, <3>2 DEF Announce
    <3>3. QED
      BY <3>1, <3>2
  <2>4. row[task[k]] = "completed" /\ saved[task[k]]
    BY <1>2, <1>9 DEF Announce, RunOk
  <2>5. QED
    BY <1>1, <1>3, <2>1, <2>2, <2>3, <2>4 DEF RunOk, Undisturbed
<1>10. CASE MarkFailed(k)
  <2>1. row'[task[k]] = "failed" /\ err'[task[k]]
        /\ pc'[k] = "announce_fail" /\ held'[k] = Unread /\ told' = told
    BY <1>1, <1>2, <1>10, Lands DEF MarkFailed, RunOk
  <2>2. QED
    BY <1>1, <1>3, <2>1 DEF RunOk, Undisturbed
<1>11. CASE AnnounceFail(k)
  <2>1. /\ pc'[k] = "done" /\ held'[k] = Unread
        /\ UNCHANGED <<row, err, saved, progress>>
    BY <1>2, <1>11, Lands DEF AnnounceFail
  <2>2. told'[task[k]] # "success"
    BY <1>1, <1>2, <1>3, <1>11 DEF AnnounceFail
  <2>3. QED
    BY <1>1, <1>2, <1>3, <2>1, <2>2 DEF TaskOk, RunOk, Undisturbed
<1>12. CASE RunFault(k)
  <2>1. /\ pc'[k] \in {"done", "fail"} /\ held'[k] = Unread
        /\ pc[k] \in {"start", "complete", "persist", "fail"}
        /\ UNCHANGED <<row, err, saved, told, progress>>
    BY <1>2, <1>12, Lands DEF RunFault
  <2>2. row[task[k]] # "failed"
    BY <1>2, <2>1 DEF RunOk
  <2>3. QED
    BY <1>1, <1>2, <1>3, <2>1, <2>2 DEF TaskOk, RunOk, Undisturbed
<1>13. QED
  BY <1>4, <1>5, <1>6, <1>7, <1>8, <1>9, <1>10, <1>11, <1>12 DEF RunStep

(* A new task has no run and tells nothing yet. *)
LEMMA SubmitOnce == ASSUME OInv, Submit PROVE Numbered' /\ Once'
<1> DEFINE n == lastTask + 1
<1>1. n \in Tasks /\ lastTask \in Nat
  BY TaskBounds DEF Submit, OInv, IInv, TypeOK, Tasks
<1>2. /\ n \notin retried /\ row[n] = "absent" /\ told[n] # "success"
      /\ \A k \in Runs : task[k] # n
  BY <1>1 DEF OInv, Numbered, Tasks
<1>3. ~err[n]
  BY <1>1, <1>2 DEF OInv, Once, TaskOk
<1>4. row' = [row EXCEPT ![n] = "pending"] /\ lastTask' = n /\ htask' = n /\ hpc' = "spawn"
  BY DEF Submit
<1>5. UNCHANGED <<err, saved, progress, told, retried, pc, task, held, lastRun, proc, reader, kills, exits>>
  BY DEF Submit, memVars, runVars, procVars, faultVars
<1>6. row'[n] = "pending" /\ \A t \in Tasks \ {n} : row'[t] = row[t]
  BY <1>1, <1>4 DEF OInv, IInv, TypeOK
<1>7. \A t \in Tasks : t > lastTask' => t > lastTask /\ t # n
  BY <1>1, <1>4 DEF Tasks
<1> HIDE DEF n
<1>8. Numbered'
  <2>1. ASSUME NEW t \in Tasks, t > lastTask'
        PROVE  row'[t] = "absent" /\ told'[t] # "success" /\ htask' # t /\ \A k \in Runs : task'[k] # t
    <3>1. t > lastTask /\ t # n
      BY <1>7, <2>1
    <3>2. row[t] = "absent" /\ told[t] # "success" /\ \A k \in Runs : task[k] # t
      BY <3>1 DEF OInv, Numbered
    <3>3. QED
      BY <1>4, <1>5, <1>6, <3>1, <3>2
  <2>2. \A t \in retried' : t <= lastTask'
    <3>1. \A t \in retried : t \in Tasks /\ t <= lastTask
      BY DEF OInv, IInv, TypeOK, Numbered
    <3>2. QED
      BY <1>1, <1>4, <1>5, <3>1 DEF n, Tasks
  <2>3. \A k \in Runs : k > lastRun' => task'[k] = NoTask
    BY <1>5 DEF OInv, Numbered
  <2>4. Undisturbed' => proc' = "up" /\ reader'
    BY <1>5 DEF OInv, Numbered, Undisturbed
  <2>5. QED
    BY <1>4, <2>1, <2>2, <2>3, <2>4 DEF Numbered
<1>9. ASSUME NEW t \in Tasks, t \notin retried PROVE TaskOk(t)'
  <2>1. TaskOk(t)
    BY <1>9 DEF OInv, Once
  <2>2. CASE t = n
    BY <1>2, <1>3, <1>5, <1>6, <2>2 DEF TaskOk
  <2>3. CASE t # n
    BY <1>4, <1>5, <1>6, <2>1, <2>3 DEF TaskOk, Undisturbed
  <2>4. QED
    BY <2>2, <2>3
<1>10. ASSUME NEW k \in Runs, task[k] \in Tasks, task[k] \notin retried PROVE RunOk(k)'
  <2>1. RunOk(k) /\ task[k] # n
    BY <1>2, <1>10 DEF OInv, Once
  <2>2. row'[task[k]] = row[task[k]]
    BY <1>6, <1>10, <2>1
  <2>3. QED
    BY <1>5, <2>1, <2>2 DEF RunOk, Undisturbed
<1>11. QED
  BY <1>5, <1>8, <1>9, <1>10 DEF Once

(* A retry only reads, or touches a task that was retried. *)
LEMMA RetryOnce ==
  ASSUME OInv, (\E t \in Tasks : RetryRead(t)) \/ RetryReset \/ RetryFault
  PROVE  Numbered' /\ Once'
<1> USE DEF OInv, IInv, TypeOK, Numbered, Once, TaskOk, RunOk, Undisturbed, Answer,
        tableVars, memVars, loopVars, runVars, procVars, faultVars, Tasks
<1>1. ASSUME NEW t \in Tasks, RetryRead(t) PROVE Numbered' /\ Once'
  BY <1>1 DEF RetryRead
<1>2. CASE RetryReset
  <2>1. htask \in retried /\ htask \in Tasks /\ hpc' = "spawn" /\ \A t \in Tasks \ {htask} : row'[t] = row[t]
    BY <1>2 DEF RetryReset, SetStatus
  <2>2. QED
    BY <1>2, <2>1 DEF RetryReset
<1>3. CASE RetryFault
  BY <1>3 DEF RetryFault
<1>4. QED
  BY <1>1, <1>2, <1>3

(* The first run of a task finds it pending and alone. *)
LEMMA SpawnOnce == ASSUME OInv, Spawn PROVE Numbered' /\ Once'
<1> USE DEF tableVars, memVars, loopVars, runVars, procVars, faultVars
<1> DEFINE n == lastRun + 1
<1>1. /\ n \in Runs /\ htask \in Tasks /\ htask <= lastTask
      /\ task[n] = NoTask /\ pc[n] = "done" /\ held[n] = Unread
  BY TaskBounds DEF Spawn, OInv, IInv, TypeOK, FreshRuns, Numbered, Runs, Tasks
<1>2. /\ lastRun' = n /\ hpc = "spawn" /\ hpc' # "spawn" /\ hpc' # "retry" /\ htask' = htask
      /\ pc'[n] = "start" /\ task'[n] = htask /\ held' = held
      /\ \A k \in Runs \ {n} : pc'[k] = pc[k] /\ task'[k] = task[k]
      /\ \A t \in Tasks \ {htask} : progress'[t] = progress[t]
      /\ UNCHANGED <<row, err, saved, lastTask, told, retried, proc, reader, kills, exits>>
  BY <1>1 DEF Spawn, Answer, OInv, IInv, TypeOK
<1> HIDE DEF n
<1>3. Numbered'
  BY <1>1, <1>2 DEF OInv, Numbered, Undisturbed, n, IInv, TypeOK, Runs, Tasks
<1>4. htask \notin retried =>
         row[htask] = "pending" /\ told[htask] # "success" /\ \A k \in Runs : task[k] # htask
  BY <1>1, <1>2 DEF OInv, Once, TaskOk
<1>5. ASSUME NEW t \in Tasks, t \notin retried PROVE TaskOk(t)'
  <2>1. TaskOk(t)
    BY <1>5 DEF OInv, Once
  <2>2. CASE t = htask
    BY <1>1, <1>2, <1>4, <1>5, <2>1, <2>2 DEF TaskOk, Undisturbed
  <2>3. CASE t # htask
    <3>1. \A k \in Runs : task'[k] = t <=> task[k] = t
      BY <1>1, <1>2, <2>3 DEF NoTask, Tasks
    <3>2. QED
      BY <1>2, <2>1, <2>3, <3>1 DEF TaskOk, Undisturbed
  <2>4. QED
    BY <2>2, <2>3
<1>6. ASSUME NEW k \in Runs, task'[k] \in Tasks, task'[k] \notin retried PROVE RunOk(k)'
  <2>1. CASE k = n
    BY <1>1, <1>2, <1>4, <1>6, <2>1 DEF RunOk
  <2>2. CASE k # n
    <3>1. RunOk(k) /\ task'[k] = task[k] /\ task[k] # htask
      BY <1>2, <1>4, <1>6, <2>2 DEF OInv, Once
    <3>2. QED
      BY <1>2, <1>6, <2>2, <3>1 DEF RunOk, Undisturbed
  <2>3. QED
    BY <2>1, <2>2
<1>7. QED
  BY <1>2, <1>3, <1>5, <1>6 DEF Once

LEMMA ProcessOnce ==
  ASSUME OInv, HostExits \/ Shutdown \/ Kill \/ Restart \/ UNCHANGED vars
  PROVE  Numbered' /\ Once'
<1> USE DEF tableVars, memVars, loopVars, runVars, procVars, faultVars,
        OInv, IInv, Numbered, Once, TaskOk, RunOk, Undisturbed
<1>1. CASE HostExits
  <2>1. exits' # 0
    BY <1>1 DEF HostExits, TypeOK
  <2>2. QED
    BY <1>1, <2>1 DEF HostExits
<1>2. CASE Shutdown
  BY <1>2 DEF Shutdown
<1>3. CASE Kill
  <2>1. kills' # 0
    BY <1>3 DEF Kill, TypeOK
  <2>2. QED
    BY <1>3, <2>1 DEF Kill
<1>4. CASE Restart
  BY <1>4 DEF Restart
<1>5. CASE UNCHANGED vars
  BY <1>5 DEF vars
<1>6. QED
  BY <1>1, <1>2, <1>3, <1>4, <1>5

LEMMA OInvariance == Spec => []OInv
<1>1. Init => OInv
  BY InitIInv, InitOnce DEF OInv
<1>2. ASSUME OInv, [Next]_vars PROVE OInv'
  <2>1. IInv'
    BY <1>2, NextType, NextFresh, NextOwned DEF OInv, IInv
  <2>2. Numbered' /\ Once'
    BY <1>2, RunOnce, SubmitOnce, RetryOnce, SpawnOnce, ProcessOnce DEF Next, LoopStep
  <2>3. QED
    BY <2>1, <2>2 DEF OInv
<1>3. QED
  BY <1>1, <1>2, PTL DEF Spec

(* A task announced a success and never retried is completed, stored and   *)
(* without an error, for good.                                             *)
THEOREM SuccessHolds == Spec => []SuccessIsTrue
<1>1. OInv => SuccessIsTrue
  BY DEF OInv, Once, TaskOk, SuccessIsTrue
<1>2. QED
  BY <1>1, OInvariance, PTL

(* In an undisturbed process the row and the cache of a task that was      *)
(* never retried tell the same story.                                      *)
THEOREM AnswersHold == Spec => []AnswersAgree
<1>1. OInv => AnswersAgree
  <2> SUFFICES ASSUME OInv, kills = 0, exits = 0, NEW t \in TaskList \ retried
               PROVE  /\ row[t] = "completed" => progress[t] = Stages
                      /\ err[t] <=> row[t] = "failed"
    BY DEF AnswersAgree, TaskStatus
  <2>1. t \in Tasks \ retried
    BY TaskBounds DEF OInv, IInv, TypeOK, TaskList, Tasks
  <2>2. QED
    BY <2>1 DEF OInv, Once, TaskOk, Undisturbed
<1>2. QED
  BY <1>1, OInvariance, PTL

-----------------------------------------------------------------------------
(* What a run does in its stages: proofs about TaskPipeline.                *)

-----------------------------------------------------------------------------
(* Routing *)

LEMMA PlatformSet ==
  /\ Platforms = {"bilibili", "youtube", "douyin", "xiaohongshu"}
  /\ Platforms \subseteq Markers
  /\ "article" \notin Platforms /\ "no url" \notin Markers
<1>1. /\ DOMAIN Parsers = 1..4
      /\ Parsers[1] = "bilibili" /\ Parsers[2] = "youtube"
      /\ Parsers[3] = "douyin" /\ Parsers[4] = "xiaohongshu"
  BY DEF Parsers
<1>2. /\ DOMAIN Handlers = 1..6
      /\ Handlers[1] = "youtube" /\ Handlers[2] = "bilibili"
      /\ Handlers[3] = "douyin" /\ Handlers[4] = "xiaohongshu"
      /\ Handlers[5] = "weixin" /\ Handlers[6] = "rss"
  BY DEF Handlers
<1>3. Platforms = {"bilibili", "youtube", "douyin", "xiaohongshu"}
  BY <1>1 DEF Platforms
<1>4. Markers = {"youtube", "bilibili", "douyin", "xiaohongshu", "weixin", "rss"}
  BY <1>2 DEF Markers
<1>5. QED
  BY <1>3, <1>4

LEMMA LeastIndex ==
  ASSUME NEW hits \in SUBSET (1..6), hits # {}
  PROVE  \E i \in hits : \A j \in hits : i <= j
<1>1. CASE 1 \in hits
  BY <1>1
<1>2. CASE 1 \notin hits /\ 2 \in hits
  BY <1>2
<1>3. CASE {1, 2} \cap hits = {} /\ 3 \in hits
  BY <1>3
<1>4. CASE {1, 2, 3} \cap hits = {} /\ 4 \in hits
  BY <1>4
<1>5. CASE {1, 2, 3, 4} \cap hits = {} /\ 5 \in hits
  BY <1>5
<1>6. CASE {1, 2, 3, 4, 5} \cap hits = {}
  <2>1. \A j \in hits : j = 6
    BY <1>6
  <2>2. PICK i \in hits : TRUE
    OBVIOUS
  <2>3. 6 \in hits /\ \A j \in hits : 6 <= j
    BY <2>1, <2>2
  <2>4. QED
    BY <2>3
<1>7. QED
  BY <1>1, <1>2, <1>3, <1>4, <1>5, <1>6

(* The first marker of a URL, in either order, is one of its markers; there *)
(* is one if the order has any of them.                                     *)
LEMMA FirstIsAMarker ==
  ASSUME NEW order, NEW u, NEW none, DOMAIN order \subseteq 1..6
  PROVE  LET first == FirstOf(order, u, none) IN
         \/ first \in u /\ \E i \in DOMAIN order : first = order[i]
         \/ first = none /\ \A i \in DOMAIN order : order[i] \notin u
<1> DEFINE hits == {i \in DOMAIN order : order[i] \in u}
           least == CHOOSE i \in hits : \A j \in hits : i <= j
<1>1. CASE hits = {}
  BY <1>1 DEF FirstOf
<1>2. CASE hits # {}
  <2>1. \E i \in hits : \A j \in hits : i <= j
    BY <1>2, LeastIndex
  <2>2. least \in hits
    BY <2>1
  <2>3. FirstOf(order, u, none) = order[least]
    BY <1>2 DEF FirstOf
  <2>4. QED
    BY <2>2, <2>3
<1>3. QED
  BY <1>1, <1>2

LEMMA ContentTypeFacts ==
  ASSUME NEW u
  PROVE  \/ ContentType(u) \in u
         \/ ContentType(u) = "article" /\ u \cap Markers = {}
<1>1. DOMAIN Handlers \subseteq 1..6
  BY DEF Handlers
<1>2. QED
  BY <1>1, FirstIsAMarker DEF ContentType, Markers

LEMMA ParserFacts ==
  ASSUME NEW u
  PROVE  \/ ParserOf(u) \in u \cap Platforms
         \/ ParserOf(u) = "generic_video" /\ u \cap Platforms = {}
<1>1. DOMAIN Parsers \subseteq 1..6
  BY DEF Parsers
<1>2. QED
  BY <1>1, FirstIsAMarker DEF ParserOf, Platforms

LEMMA FolderFacts == ASSUME NEW u PROVE FolderOf(u) \in Folders
BY ParserFacts DEF FolderOf, Folders

(* Whatever the URL, the two lookups agree.                                 *)
LEMMA LookupsAgree ==
  ASSUME NEW u
  PROVE  /\ IsVideo(u) => ParserOf(u) # "generic_video"
         /\ \A m \in Platforms : u = {m} => FolderOf(u) = m
<1>1. IsVideo(u) => ParserOf(u) # "generic_video"
  BY ContentTypeFacts, ParserFacts, PlatformSet DEF IsVideo
<1>2. ASSUME NEW m \in Platforms, u = {m} PROVE FolderOf(u) = m
  <2>1. ContentType(u) = m
    BY <1>2, ContentTypeFacts, PlatformSet
  <2>2. ParserOf(u) = m
    BY <1>2, ParserFacts
  <2>3. QED
    BY <2>1, <2>2 DEF FolderOf, IsVideo
<1>3. QED
  BY <1>1, <1>2

(* Every run is routed consistently, whatever the URL: the two tables need  *)
(* no invariant to agree.                                                   *)
THEOREM RoutesAgree == PipelineSpec => []RouteAgrees
<1>1. RouteAgrees
  BY LookupsAgree DEF RouteAgrees, Url
<1>2. QED
  BY <1>1, PTL

-----------------------------------------------------------------------------
(* The runs: their stages, their notes and their files *)

(* How far a run is, by what it has to show.                                *)
StagesDone(r) ==
  /\ place[r] = "absent" => text[r] = "none"
  /\ archived[r] # {} => place[r] \in {"between", "notify"} \union Stopped
  /\ sent[r] # {} => place[r] \in {"notify"} \union Stopped
  /\ place[r] = "between" => archived[r] = {"source"}
  /\ place[r] \in {"notify", "done"} \/ sent[r] # {} => archived[r] = {"source", "summary"}
  /\ place[r] \in {"archive", "between", "notify", "done"} \/ archived[r] # {} =>
        slug[r] \in Slugs /\ text[r] \in {"text", "garbled"}

(* A run of the name of run r was stopped before it had written its note.   *)
Lost(r, kind) ==
  \E q \in PipelineRuns \ {r} :
    /\ place[q] \in {"failed", "killed"} /\ kind \notin archived[q]
    /\ slug[q] = slug[r]
    /\ kind = "source" => Folder(q) = Folder(r)

(* A note in the vault was written by a run of its name, and the note of a  *)
(* run that wrote one is there, its own or another, or was lost.            *)
NotesInVault ==
  /\ \A f \in Folders, s \in Slugs : source[f][s] # 0 =>
        slug[source[f][s]] = s /\ "source" \in archived[source[f][s]]
  /\ \A s \in Slugs : summary[s] # 0 =>
        slug[summary[s]] = s /\ "summary" \in archived[summary[s]]
  /\ \A r \in PipelineRuns :
        /\ "source" \in archived[r] => source[Folder(r)][slug[r]] # 0 \/ Lost(r, "source")
        /\ "summary" \in archived[r] => summary[slug[r]] # 0 \/ Lost(r, "summary")

(* Between its two writes a run's source note can be replaced, or broken,   *)
(* by a run of another process only; so the source note that stands beside the summary  *)
(* note of another run of the process is of a run without a summary note.   *)
NotesInTurn ==
  /\ \A r \in PipelineRuns : place[r] = "between" =>
        LET a == source[Folder(r)][slug[r]] IN a = r \/ a = 0 \/ home[a] # home[r]
  /\ \A f \in Folders, s \in Slugs :
        LET a == source[f][s]
            b == summary[s] IN
        a # 0 /\ b # 0 /\ a # b /\ Folder(b) = f /\ home[a] = home[b] =>
          "summary" \notin archived[a]

(* URLs whose parser brings the download along.                             *)
Brings(u) == IsVideo(u) /\ ParserOf(u) = "douyin"

(* Inode i was made by a run of task t.                                     *)
MadeFor(i, t) == i \in PipelineRuns /\ place[i] # "absent" /\ link[i] = t

(* The files of a task were made by its runs, and only if its URL brings a  *)
(* download along.                                                          *)
FilesOfTasks ==
  /\ \A t \in Links :
        /\ part[t] # 0 => MadeFor(part[t], t)
        /\ media[t] # 0 => MadeFor(media[t], t)
        /\ part[t] # 0 \/ media[t] # 0 => Brings(url[t])
  /\ \A r \in PipelineRuns :
        /\ fd[r] # 0 => MadeFor(fd[r], link[r])
        /\ place[r] \in {"share", "download", "stream"} => Brings(Url(r))
        /\ place[r] = "fetch" => ~Brings(Url(r))

(* A run of a task that never had two runs at once is the only live one,    *)
(* and the file it downloads, or has downloaded, holds its bytes only.      *)
Alone(r) == place[r] # "absent" /\ ~shared[link[r]]

OwnFiles ==
  \A r \in PipelineRuns : Alone(r) =>
    /\ Live(r) => \A q \in PipelineRuns \ {r} : Live(q) => link[q] # link[r]
    /\ place[r] = "stream" => part[link[r]] = fd[r] /\ bytes[fd[r]] = {r}
    /\ place[r] \in {"parse", "extract"} /\ media[link[r]] # 0 => bytes[media[link[r]]] = {r}

PipelineInv == /\ PipelineTypeOK
               /\ \A r \in PipelineRuns : StagesDone(r)
               /\ NotesInVault /\ NotesInTurn
               /\ FilesOfTasks /\ OwnFiles /\ GarbledNeedsOverlap

LEMMA PipelineInitInv == PipelineInit => PipelineInv
<1> SUFFICES ASSUME PipelineInit PROVE PipelineInv
  OBVIOUS
<1> USE PipelineBounds DEF PipelineInit, PipelineRuns, NoRun, NoFile,
   Working, Stopped
<1>1. PipelineTypeOK
  BY DEF PipelineTypeOK
<1>2. \A r \in PipelineRuns : StagesDone(r)
  BY DEF StagesDone
<1>3. NotesInVault /\ NotesInTurn
  BY DEF NotesInVault, NotesInTurn
<1>4. FilesOfTasks /\ OwnFiles
  BY DEF FilesOfTasks, OwnFiles, Alone
<1>5. GarbledNeedsOverlap
  BY DEF GarbledNeedsOverlap
<1>6. QED
  BY <1>1, <1>2, <1>3, <1>4, <1>5 DEF PipelineInv

(* The steps: a run is spawned, a run moves, a process dies. *)
SpawnStep == \E t \in Links, p \in Procs :
                \/ RetryTask(t, p)
                \/ \E u \in Urls : SubmitUrl(t, p, u)

MoveStep == \E r \in PipelineRuns : StageStep(r)

DeathStep == \E p \in Procs : KillProcess(p)

LEMMA PipelineSteps == PipelineNext => SpawnStep \/ MoveStep \/ DeathStep
BY DEF PipelineNext, SpawnStep, MoveStep, DeathStep

(* Type correctness *)

LEMMA PlaceNames ==
  Working \cap Stopped = {} /\ "absent" \notin Working \union Stopped
BY DEF Working, Stopped

LEMMA SpawnType ==
  ASSUME PipelineTypeOK, SpawnStep
  PROVE  PipelineTypeOK'
<1> USE PipelineBounds DEF PipelineTypeOK, PipelineRuns, NoFile, Url,
        fileVars, vaultVars, pushVars
<1>1. PICK t \in Links, p \in Procs :
        /\ SpawnRun(t, p)
        /\ url' \in [Links -> Urls \union {NoUrl}]
        /\ url'[t] # NoUrl
        /\ \A x \in Links : url[x] # NoUrl => url'[x] = url[x]
  <2>1. \A u \in Urls : u # NoUrl
    BY PlatformSet, UrlsAssumption DEF NoUrl
  <2>2. PICK t \in Links, p \in Procs :
          \/ RetryTask(t, p)
          \/ \E u \in Urls : SubmitUrl(t, p, u)
    BY DEF SpawnStep
  <2>3. CASE RetryTask(t, p)
    BY <2>3 DEF RetryTask
  <2>4. ASSUME NEW u \in Urls, SubmitUrl(t, p, u)
        PROVE  /\ SpawnRun(t, p)
               /\ url' \in [Links -> Urls \union {NoUrl}]
               /\ url'[t] # NoUrl
               /\ \A x \in Links : url[x] # NoUrl => url'[x] = url[x]
    BY <2>1, <2>4 DEF SubmitUrl
  <2>5. QED
    BY <2>2, <2>3, <2>4
<1>2. spawned' = spawned + 1 /\ spawned' \in PipelineRuns
  BY <1>1 DEF SpawnRun
<1>3. place' = [place EXCEPT ![spawned'] = "new"] /\ link' = [link EXCEPT ![spawned'] = t]
  BY <1>1, <1>2 DEF SpawnRun
<1>4. /\ place' \in [PipelineRuns -> Working \union Stopped \union {"absent"}]
      /\ \A r \in PipelineRuns : place'[r] = "absent" <=> r > spawned'
  BY <1>2, <1>3, PlaceNames DEF Working
<1>5. \A r \in PipelineRuns : place'[r] # "absent" => link'[r] \in Links /\ url'[link'[r]] # NoUrl
  BY <1>1, <1>2, <1>3
<1>6. \A r \in PipelineRuns : fd'[r] # 0 <=> place'[r] = "stream"
  BY <1>1, <1>2, <1>3 DEF SpawnRun
<1>7. /\ link' \in [PipelineRuns -> Links \union {NoLink}]
      /\ home' \in [PipelineRuns -> Procs \union {NoProc}]
      /\ shared' \in [Links -> BOOLEAN]
  BY <1>1, <1>2, <1>3 DEF SpawnRun
<1>8. spawned' \in 0..MaxSpawned /\ deaths' \in 0..MaxDeaths
  BY <1>1, <1>2 DEF SpawnRun
<1>9. QED
  BY <1>1, <1>4, <1>5, <1>6, <1>7, <1>8 DEF SpawnRun

(* A note of run r, if any, is broken: nothing else in the vault changes.   *)
NotesBroken(r) ==
  /\ source' \in [Folders -> [Slugs -> PipelineRuns \union {0}]]
  /\ summary' \in [Slugs -> PipelineRuns \union {0}]
  /\ archived' = archived
  /\ \A f \in Folders, s \in Slugs :
       \/ source'[f][s] = source[f][s]
       \/ source'[f][s] = 0 /\ place[r] = "archive" /\ f = Folder(r) /\ s = slug[r]
  /\ \A s \in Slugs :
       \/ summary'[s] = summary[s]
       \/ summary'[s] = 0 /\ place[r] = "between" /\ s = slug[r]

LEMMA BreakFacts ==
  ASSUME PipelineTypeOK, NEW r \in PipelineRuns, BreakNote(r)
  PROVE  NotesBroken(r)
<1> USE DEF PipelineTypeOK, NoRun, NotesBroken
<1>1. CASE place[r] = "archive"
  <2> DEFINE f == Folder(r)
             s == slug[r]
  <2>1. f \in Folders
    BY FolderFacts DEF Folder
  <2>2. source' = [source EXCEPT ![f][s] = 0] /\ summary' = summary /\ archived' = archived
    BY <1>1 DEF BreakNote
  <2> HIDE DEF f, s
  <2>3. source' \in [Folders -> [Slugs -> PipelineRuns \union {0}]]
    BY <2>1, <2>2
  <2>4. \A g \in Folders, x \in Slugs :
          source'[g][x] = IF g = f /\ x = s THEN 0 ELSE source[g][x]
    BY <2>1, <2>2
  <2>5. QED
    BY <1>1, <2>2, <2>3, <2>4 DEF f, s
<1>2. CASE place[r] = "between"
  BY <1>2 DEF BreakNote
<1>3. QED
  BY <1>1, <1>2 DEF BreakNote

LEMMA DeathType ==
  ASSUME PipelineTypeOK, DeathStep
  PROVE  PipelineTypeOK'
<1> USE PipelineBounds DEF PipelineTypeOK, PipelineRuns, NoFile, Url,
        fileVars, vaultVars, pushVars, spawnVars
<1>1. PICK p \in Procs : KillProcess(p)
  BY DEF DeathStep
<1>2. /\ place' \in [PipelineRuns -> Working \union Stopped \union {"absent"}]
      /\ \A r \in PipelineRuns : place'[r] = "absent" <=> place[r] = "absent"
      /\ fd' \in [PipelineRuns -> PipelineRuns \union {0}]
      /\ \A r \in PipelineRuns : fd'[r] # 0 <=> place'[r] = "stream"
  BY <1>1, PlaceNames DEF KillProcess, Live, Working, Stopped
<1>3. deaths' \in 0..MaxDeaths
  BY <1>1 DEF KillProcess
<1>4. /\ source' \in [Folders -> [Slugs -> PipelineRuns \union {NoRun}]]
      /\ summary' \in [Slugs -> PipelineRuns \union {NoRun}]
      /\ archived' = archived
  BY <1>1, BreakFacts DEF KillProcess, NotesBroken, NoRun
<1>5. QED
  BY <1>1, <1>2, <1>3, <1>4 DEF KillProcess

LEMMA MoveType ==
  ASSUME PipelineTypeOK, MoveStep
  PROVE  PipelineTypeOK'
<1> USE PipelineBounds DEF PipelineTypeOK, PipelineRuns, NoFile, Url, Dir,
        fileVars, vaultVars, pushVars, spawnVars
<1>1. PICK r \in PipelineRuns : StageStep(r)
  BY DEF MoveStep
<1>2. CASE Classify(r)
  BY <1>2 DEF Classify, Working
<1>3. CASE ShareLink(r)
  BY <1>3 DEF ShareLink, Working
<1>4. CASE OpenPart(r)
  BY <1>4 DEF OpenPart, Working
<1>5. CASE WriteChunk(r)
  BY <1>5 DEF WriteChunk, Working
<1>6. CASE RenamePart(r)
  BY <1>6 DEF RenamePart, Working
<1>7. CASE ParseMetadata(r)
  BY <1>7 DEF ParseMetadata, Working
<1>8. CASE DownloadVideo(r)
  BY <1>8 DEF DownloadVideo, Working
<1>9. CASE FetchArticle(r)
  BY <1>9 DEF FetchArticle, Working
<1>10. CASE ExtractText(r)
  BY <1>10 DEF ExtractText, Working, Transcripts, Found,
     Heard, CcSubtitles, EmbeddedSubtitles
<1>11. CASE TakeText(r)
  BY <1>11 DEF TakeText, Working
<1>12. CASE Summarize(r)
  BY <1>12 DEF Summarize, Working
<1>13. CASE WriteSource(r)
  BY <1>13, FolderFacts DEF WriteSource, Working, Folder
<1>14. CASE WriteSummary(r)
  BY <1>14 DEF WriteSummary, Working
<1>15. ASSUME NEW c \in Channels, Push(r, c) PROVE PipelineTypeOK'
  BY <1>15 DEF Push
<1>16. CASE Succeed(r)
  BY <1>16 DEF Succeed, Stopped
<1>17. CASE Raise(r)
  <2>1. /\ source' \in [Folders -> [Slugs -> PipelineRuns \union {NoRun}]]
        /\ summary' \in [Slugs -> PipelineRuns \union {NoRun}]
        /\ archived' = archived
    BY <1>17, BreakFacts DEF Raise, NotesBroken, NoRun
  <2>2. QED
    BY <1>17, <2>1 DEF Raise, Working, Stopped
<1>18. QED
  BY <1>1, <1>2, <1>3, <1>4, <1>5, <1>6, <1>7, <1>8, <1>9, <1>10, <1>11, <1>12, <1>13, <1>14,
     <1>15, <1>16, <1>17 DEF StageStep

(* What a step leaves of the runs: of the past nothing is lost, and a step  *)
(* of one run is not seen in the others.                                    *)

PastKept ==
  \A r \in PipelineRuns : place[r] # "absent" =>
    /\ place'[r] # "absent" /\ link'[r] = link[r] /\ home'[r] = home[r]
    /\ url'[link[r]] = url[link[r]]
    /\ shared[link[r]] => shared'[link[r]]
    /\ archived[r] \subseteq archived'[r]
    /\ archived[r] # {} => slug'[r] = slug[r]
    /\ place[r] \in Stopped =>
         place'[r] = place[r] /\ slug'[r] = slug[r] /\ archived'[r] = archived[r]

(* Spawning run n of task t in process p. *)
SpawnIs(n, t, p) ==
  /\ n \in PipelineRuns /\ place[n] = "absent" /\ t \in Links
  /\ place' = [place EXCEPT ![n] = "new"] /\ link' = [link EXCEPT ![n] = t]
  /\ home' = [home EXCEPT ![n] = p]
  /\ shared' = IF \E q \in PipelineRuns : link[q] = t /\ Live(q)
               THEN [shared EXCEPT ![t] = TRUE] ELSE shared
  /\ \A x \in Links : url[x] # NoUrl => url'[x] = url[x]
  /\ UNCHANGED <<part, media, fd, bytes, source, summary, archived, todo, sent, text, slug>>

LEMMA SpawnFacts ==
  ASSUME PipelineTypeOK, SpawnStep
  PROVE  \E n, t, p : SpawnIs(n, t, p)
<1> USE PipelineBounds DEF PipelineTypeOK, PipelineRuns
<1>1. PICK t \in Links, p \in Procs :
        \/ RetryTask(t, p)
        \/ \E u \in Urls : SubmitUrl(t, p, u)
  BY DEF SpawnStep
<1>2. SpawnRun(t, p) /\ \A x \in Links : url[x] # NoUrl => url'[x] = url[x]
  BY <1>1 DEF RetryTask, SubmitUrl
<1>3. spawned + 1 \in PipelineRuns /\ place[spawned + 1] = "absent"
  BY <1>2 DEF SpawnRun
<1>4. SpawnIs(spawned + 1, t, p)
  BY <1>2, <1>3 DEF SpawnIs, SpawnRun, fileVars, vaultVars,
     pushVars
<1>5. QED
  BY <1>4

(* Kill ends the live runs of a process and closes their files. *)
DeathIs ==
  /\ \A r \in PipelineRuns : \/ place'[r] = place[r]
                             \/ Live(r) /\ place'[r] = "killed"
  /\ \A r \in PipelineRuns : fd'[r] \in {0, fd[r]}
  /\ UNCHANGED <<part, media, bytes, archived, todo, sent, text, slug,
                 url, link, home, shared>>

LEMMA DeathFacts ==
  ASSUME PipelineTypeOK, DeathStep
  PROVE  DeathIs
<1>1. PICK p \in Procs : KillProcess(p)
  BY DEF DeathStep
<1>2. archived' = archived
  BY <1>1 DEF KillProcess, BreakNote, vaultVars
<1>3. QED
  BY <1>1, <1>2 DEF KillProcess, DeathIs, PipelineTypeOK, NoFile, Live,
     pushVars, spawnVars

(* A run that moves was alive, and changes its own record only. *)
MovesAlone(r) ==
  /\ Live(r)
  /\ place'[r] \in Working \union Stopped
  /\ UNCHANGED <<url, link, home, shared>>
  /\ \A q \in PipelineRuns \ {r} :
       /\ place'[q] = place[q] /\ fd'[q] = fd[q] /\ text'[q] = text[q] /\ slug'[q] = slug[q]
       /\ archived'[q] = archived[q] /\ sent'[q] = sent[q]

LEMMA MoveFacts ==
  ASSUME PipelineTypeOK, NEW r \in PipelineRuns, StageStep(r)
  PROVE  MovesAlone(r)
<1> USE DEF MovesAlone, Live, PipelineTypeOK, spawnVars, fileVars,
   vaultVars,
            pushVars
<1>0. Working = {"new", "share", "download", "stream", "parse", "fetch", "extract",
                          "summarize", "archive", "between", "notify"}
      /\ Stopped = {"done", "failed", "killed"}
  BY DEF Working, Stopped
<1>1. CASE Classify(r) \/ ShareLink(r) \/ ParseMetadata(r) \/ DownloadVideo(r)
           \/ TakeText(r) \/ Succeed(r)
  BY <1>0, <1>1 DEF Classify, ShareLink, ParseMetadata,
     DownloadVideo,
                    TakeText, Succeed
<1>2. CASE OpenPart(r) \/ WriteChunk(r) \/ RenamePart(r)
  BY <1>0, <1>2 DEF OpenPart, WriteChunk, RenamePart
<1>3. CASE FetchArticle(r) \/ ExtractText(r) \/ Summarize(r)
  BY <1>0, <1>3 DEF FetchArticle, ExtractText, Summarize
<1>4. CASE WriteSource(r) \/ WriteSummary(r) \/ \E c \in Channels : Push(r, c)
  BY <1>0, <1>4 DEF WriteSource, WriteSummary, Push
<1>5. CASE Raise(r)
  <2>1. archived' = archived
    BY <1>5 DEF Raise, BreakNote
  <2>2. QED
    BY <1>0, <1>5, <2>1 DEF Raise
<1>6. QED
  BY <1>1, <1>2, <1>3, <1>4, <1>5 DEF StageStep

LEMMA PastIsKept ==
  ASSUME PipelineInv, SpawnStep \/ MoveStep \/ DeathStep
  PROVE  PastKept
<1> USE DEF PastKept, PipelineInv
<1>1. CASE SpawnStep
  <2>1. PICK n, t, p : SpawnIs(n, t, p)
    BY <1>1, SpawnFacts
  <2>2. QED
    BY <2>1 DEF SpawnIs, PipelineTypeOK, Url
<1>2. CASE DeathStep
  BY <1>2, DeathFacts, PlaceNames DEF DeathIs, Live, Stopped
<1>3. CASE MoveStep
  <2>1. PICK r \in PipelineRuns : StageStep(r)
    BY <1>3 DEF MoveStep
  <2>2. MovesAlone(r)
    BY <2>1, MoveFacts
  <2>3. archived[r] \subseteq archived'[r]
    BY <2>1 DEF StageStep, Classify, ShareLink, OpenPart,
       WriteChunk,
       RenamePart, ParseMetadata, DownloadVideo, FetchArticle,
       ExtractText,
       TakeText, Summarize, WriteSource, WriteSummary,
       Push,
       Succeed, Raise, BreakNote, vaultVars, PipelineTypeOK
  <2>4. slug'[r] = slug[r] \/ place[r] = "summarize"
    BY <2>1 DEF StageStep, Classify, ShareLink, OpenPart,
       WriteChunk,
       RenamePart, ParseMetadata, DownloadVideo, FetchArticle,
       ExtractText,
       TakeText, Summarize, WriteSource, WriteSummary,
       Push,
       Succeed, Raise
  <2>5. archived[r] # {} => slug'[r] = slug[r]
    BY <2>4 DEF StagesDone, Stopped
  <2>6. QED
    BY <2>2, <2>3, <2>5, PlaceNames DEF MovesAlone, Live
<1>4. QED
  BY <1>1, <1>2, <1>3

(* The stages *)

LEMMA StagesKept ==
  ASSUME PipelineInv, SpawnStep \/ MoveStep \/ DeathStep
  PROVE  \A r \in PipelineRuns : StagesDone(r)'
<1> USE DEF PipelineInv
<1>0. Stopped = {"done", "failed", "killed"}
  BY DEF Stopped
<1>1. CASE SpawnStep
  <2>1. PICK n, t, p : SpawnIs(n, t, p)
    BY <1>1, SpawnFacts
  <2>2. QED
    BY <1>0, <2>1 DEF SpawnIs, StagesDone, PipelineTypeOK
<1>2. CASE DeathStep
  BY <1>0, <1>2, DeathFacts DEF DeathIs, StagesDone
<1>3. ASSUME NEW r \in PipelineRuns, StageStep(r)
      PROVE  \A q \in PipelineRuns : StagesDone(q)'
  <2>1. \A q \in PipelineRuns \ {r} : StagesDone(q)'
    BY <1>3, MoveFacts DEF MovesAlone, StagesDone
  <2>2. StagesDone(r)'
    <3> USE <1>0 DEF StagesDone, PipelineTypeOK, spawnVars, fileVars,
       vaultVars, pushVars
    <3>1. CASE Classify(r)
      BY <3>1 DEF Classify
    <3>2. CASE ShareLink(r)
      BY <3>2 DEF ShareLink
    <3>3. CASE OpenPart(r)
      BY <3>3 DEF OpenPart
    <3>4. CASE WriteChunk(r)
      BY <3>4 DEF WriteChunk
    <3>5. CASE RenamePart(r)
      BY <3>5 DEF RenamePart
    <3>6. CASE ParseMetadata(r)
      BY <3>6 DEF ParseMetadata
    <3>7. CASE DownloadVideo(r)
      BY <3>7 DEF DownloadVideo
    <3>8. CASE FetchArticle(r)
      BY <3>8 DEF FetchArticle
    <3>9. CASE ExtractText(r)
      BY <3>9 DEF ExtractText
    <3>10. CASE TakeText(r)
      BY <3>10 DEF TakeText
    <3>11. CASE Summarize(r)
      BY <3>11 DEF Summarize
    <3>12. CASE WriteSource(r)
      BY <3>12 DEF WriteSource
    <3>13. CASE WriteSummary(r)
      BY <3>13 DEF WriteSummary
    <3>14. CASE Succeed(r)
      BY <3>14 DEF Succeed
    <3>15. CASE Raise(r)
      <4>1. archived' = archived
        BY <3>15 DEF Raise, BreakNote
      <4>2. QED
        BY <3>15, <4>1 DEF Raise, Working
    <3>16. ASSUME NEW c \in Channels, Push(r, c) PROVE StagesDone(r)'
      BY <3>16 DEF Push
    <3>17. QED
      BY <1>3, <3>1, <3>2, <3>3, <3>4, <3>5, <3>6, <3>7, <3>8, <3>9, <3>10, <3>11, <3>12, <3>13,
         <3>14, <3>15, <3>16 DEF StageStep
  <2>3. QED
    BY <2>1, <2>2
<1>4. QED
  BY <1>1, <1>2, <1>3 DEF MoveStep

(* The notes *)

(* Run r stops, and breaks a note while the others of its process are not   *)
(* between their writes.                                                    *)
StopsAtNote(r) ==
  /\ NotesBroken(r)
  /\ place[r] \in {"archive", "between"} /\ place'[r] \in {"failed", "killed"}
  /\ \A q \in PipelineRuns : place'[q] = "between" =>
       place[q] = "between" /\ home[q] # home[r]
  /\ UNCHANGED <<slug, url, link, home>>

(* A step writes a note, breaks one, or leaves the vault as it is.          *)
LEMMA VaultSteps ==
  ASSUME PipelineTypeOK, SpawnStep \/ MoveStep \/ DeathStep
  PROVE  \/ \E r \in PipelineRuns : WriteSource(r) \/ WriteSummary(r) \/ StopsAtNote(r)
         \/ UNCHANGED <<source, summary, archived>>
<1>0. /\ place \in [PipelineRuns -> Working \union Stopped \union {"absent"}]
      /\ "between" \notin {"failed", "killed"}
  BY DEF PipelineTypeOK
<1>1. CASE SpawnStep
  BY <1>1, SpawnFacts DEF SpawnIs
<1>2. CASE DeathStep
  <2>1. PICK p \in Procs : KillProcess(p)
    BY <1>2 DEF DeathStep
  <2>2. CASE UNCHANGED vaultVars
    BY <2>2 DEF vaultVars
  <2>3. ASSUME NEW r \in PipelineRuns, home[r] = p, BreakNote(r)
        PROVE  StopsAtNote(r)
    <3>1. place[r] \in {"archive", "between"}
      BY <2>3 DEF BreakNote
    <3>2. place'[r] = "killed"
      BY <2>1, <2>3, <3>1 DEF KillProcess, Live, Working
    <3>3. ASSUME NEW q \in PipelineRuns, place'[q] = "between"
          PROVE  place[q] = "between" /\ home[q] # home[r]
      BY <2>1, <2>3, <3>3 DEF KillProcess, Live, Working
    <3>4. QED
      BY <2>1, <2>3, <3>1, <3>2, <3>3, BreakFacts DEF KillProcess, StopsAtNote, spawnVars
  <2>4. QED
    BY <2>1, <2>2, <2>3 DEF KillProcess
<1>3. CASE MoveStep
  <2>1. PICK r \in PipelineRuns : StageStep(r)
    BY <1>3 DEF MoveStep
  <2>2. CASE Raise(r) /\ BreakNote(r)
    <3>1. place[r] \in {"archive", "between"}
      BY <2>2 DEF BreakNote
    <3>2. place' = [place EXCEPT ![r] = "failed"]
          /\ \A q \in PipelineRuns \ {r} : home[q] = home[r] => place[q] # "between"
      BY <2>2 DEF Raise, HasTurn
    <3>3. StopsAtNote(r)
      BY <1>0, <2>2, <3>1, <3>2, BreakFacts DEF Raise, StopsAtNote, spawnVars
    <3>4. QED
      BY <3>3
  <2>3. CASE ~(Raise(r) /\ BreakNote(r)) /\ ~WriteSource(r) /\ ~WriteSummary(r)
    BY <2>1, <2>3 DEF StageStep, Classify, ShareLink, OpenPart, WriteChunk, RenamePart,
       ParseMetadata, DownloadVideo, FetchArticle, ExtractText, TakeText, Summarize,
       Push, Succeed, Raise, vaultVars
  <2>4. QED
    BY <2>2, <2>3
<1>4. QED
  BY <1>1, <1>2, <1>3

(* Runs that archived something keep their file name and their folder.      *)
LEMMA ArchivedKeep ==
  ASSUME PipelineInv, PastKept, NEW r \in PipelineRuns, archived[r] # {}
  PROVE  /\ slug'[r] = slug[r] /\ slug[r] \in Slugs /\ archived[r] \subseteq archived'[r]
         /\ Folder(r)' = Folder(r) /\ Folder(r) \in Folders
         /\ home'[r] = home[r] /\ place[r] # "absent"
<1>1. place[r] # "absent"
  BY DEF PipelineInv, StagesDone, Stopped
<1>2. Folder(r)' = Folder(r)
  BY <1>1 DEF PastKept, Folder, Url
<1>3. QED
  BY <1>1, <1>2, FolderFacts DEF PastKept, PipelineInv, StagesDone, Folder

(* A lost note stays lost: the run that broke it has stopped for good.      *)
LEMMA LostKeep ==
  ASSUME PipelineInv, PastKept, NEW r \in PipelineRuns, archived[r] # {},
         NEW kind, Lost(r, kind)
  PROVE  Lost(r, kind)'
<1>1. PICK q \in PipelineRuns \ {r} :
        /\ place[q] \in {"failed", "killed"} /\ kind \notin archived[q]
        /\ slug[q] = slug[r]
        /\ kind = "source" => Folder(q) = Folder(r)
  BY DEF Lost
<1>2. place[q] # "absent" /\ place[q] \in Stopped
  BY <1>1 DEF Stopped
<1>3. /\ place'[q] = place[q] /\ slug'[q] = slug[q] /\ archived'[q] = archived[q]
      /\ Folder(q)' = Folder(q)
  BY <1>2 DEF PastKept, Folder, Url
<1>4. slug'[r] = slug[r] /\ Folder(r)' = Folder(r)
  BY ArchivedKeep
<1>5. QED
  BY <1>1, <1>3, <1>4 DEF Lost

LEMMA VaultKept ==
  ASSUME PipelineInv, SpawnStep \/ MoveStep \/ DeathStep, PastKept
  PROVE  NotesInVault'
<1> USE DEF PipelineInv, NotesInVault
<1>0. /\ source \in [Folders -> [Slugs -> PipelineRuns \union {0}]]
      /\ summary \in [Slugs -> PipelineRuns \union {0}]
      /\ archived \in [PipelineRuns -> SUBSET {"source", "summary"}]
      /\ 0 \notin PipelineRuns
  BY PipelineBounds DEF PipelineTypeOK, NoRun, PipelineRuns
<1>1. ASSUME NEW r \in PipelineRuns, WriteSource(r) PROVE NotesInVault'
  <2> DEFINE f == Folder(r)
             s == slug[r]
  <2>1. f \in Folders /\ s \in Slugs
    BY <1>1, FolderFacts DEF WriteSource, StagesDone, Folder
  <2>2. /\ source' = [source EXCEPT ![f][s] = r]
        /\ archived' = [archived EXCEPT ![r] = @ \union {"source"}]
        /\ summary' = summary /\ slug' = slug /\ url' = url /\ link' = link
    BY <1>1 DEF WriteSource, spawnVars
  <2>3. \A q \in PipelineRuns : Folder(q)' = Folder(q)
    BY <2>2 DEF Folder, Url
  <2>4. \A g \in Folders, x \in Slugs : source'[g][x] = IF g = f /\ x = s THEN r ELSE source[g][x]
    BY <1>0, <2>1, <2>2
  <2>5. \A q \in PipelineRuns : archived'[q] = IF q = r THEN archived[r] \union {"source"} ELSE archived[q]
    BY <1>0, <2>2
  <2>6. \A q \in PipelineRuns : archived[q] # {} =>
               Folder(q) \in Folders /\ slug[q] \in Slugs
    BY ArchivedKeep
  <2>7. \A g \in Folders, x \in Slugs : source'[g][x] # 0 =>
           slug'[source'[g][x]] = x /\ "source" \in archived'[source'[g][x]]
    BY <1>0, <2>1, <2>2, <2>4, <2>5
  <2>8. \A x \in Slugs : summary'[x] # 0 =>
           slug'[summary'[x]] = x /\ "summary" \in archived'[summary'[x]]
    BY <1>0, <2>2, <2>5
  <2>9. ASSUME NEW q \in PipelineRuns
        PROVE  /\ "source" \in archived'[q] =>
                    source'[Folder(q)'][slug'[q]] # 0 \/ Lost(q, "source")'
               /\ "summary" \in archived'[q] =>
                    summary'[slug'[q]] # 0 \/ Lost(q, "summary")'
    <3>1. archived[q] # {} => /\ Lost(q, "source") => Lost(q, "source")'
                              /\ Lost(q, "summary") => Lost(q, "summary")'
      BY LostKeep
    <3>2. CASE q = r
      BY <1>0, <2>1, <2>2, <2>3, <2>4, <2>5, <2>6, <3>1, <3>2
    <3>3. CASE q # r
      BY <1>0, <2>1, <2>2, <2>3, <2>4, <2>5, <2>6, <3>1, <3>3
    <3>4. QED
      BY <3>2, <3>3
  <2>10. QED
    BY <2>7, <2>8, <2>9
<1>2. ASSUME NEW r \in PipelineRuns, WriteSummary(r) PROVE NotesInVault'
  <2> DEFINE s == slug[r]
  <2>1. s \in Slugs
    BY <1>2 DEF WriteSummary, StagesDone
  <2>2. /\ summary' = [summary EXCEPT ![s] = r]
        /\ archived' = [archived EXCEPT ![r] = @ \union {"summary"}]
        /\ source' = source /\ slug' = slug /\ url' = url /\ link' = link
    BY <1>2 DEF WriteSummary, spawnVars
  <2>3. \A q \in PipelineRuns : Folder(q)' = Folder(q)
    BY <2>2 DEF Folder, Url
  <2>4. \A x \in Slugs : summary'[x] = IF x = s THEN r ELSE summary[x]
    BY <1>0, <2>1, <2>2
  <2>5. \A q \in PipelineRuns : archived'[q] = IF q = r THEN archived[r] \union {"summary"} ELSE archived[q]
    BY <1>0, <2>2
  <2>6. \A q \in PipelineRuns : archived[q] # {} =>
               Folder(q) \in Folders /\ slug[q] \in Slugs
    BY ArchivedKeep
  <2>7. \A g \in Folders, x \in Slugs : source'[g][x] # 0 =>
           slug'[source'[g][x]] = x /\ "source" \in archived'[source'[g][x]]
    BY <1>0, <2>2, <2>5
  <2>8. \A x \in Slugs : summary'[x] # 0 =>
           slug'[summary'[x]] = x /\ "summary" \in archived'[summary'[x]]
    BY <1>0, <2>1, <2>2, <2>4, <2>5
  <2>9. ASSUME NEW q \in PipelineRuns
        PROVE  /\ "source" \in archived'[q] =>
                    source'[Folder(q)'][slug'[q]] # 0 \/ Lost(q, "source")'
               /\ "summary" \in archived'[q] =>
                    summary'[slug'[q]] # 0 \/ Lost(q, "summary")'
    <3>1. archived[q] # {} => /\ Lost(q, "source") => Lost(q, "source")'
                              /\ Lost(q, "summary") => Lost(q, "summary")'
      BY LostKeep
    <3>2. CASE q = r
      BY <1>0, <2>1, <2>2, <2>3, <2>4, <2>5, <2>6, <3>1, <3>2
    <3>3. CASE q # r
      BY <1>0, <2>1, <2>2, <2>3, <2>4, <2>5, <2>6, <3>1, <3>3
    <3>4. QED
      BY <3>2, <3>3
  <2>10. QED
    BY <2>7, <2>8, <2>9
<1>3. ASSUME UNCHANGED <<source, summary, archived>>
      PROVE  NotesInVault'
  <2>1. \A r \in PipelineRuns : archived[r] # {} =>
          /\ slug'[r] = slug[r] /\ Folder(r)' = Folder(r)
          /\ Lost(r, "source") => Lost(r, "source")'
          /\ Lost(r, "summary") => Lost(r, "summary")'
    BY ArchivedKeep, LostKeep
  <2>2. QED
    BY <1>0, <1>3, <2>1
<1>4. ASSUME NEW r \in PipelineRuns, StopsAtNote(r) PROVE NotesInVault'
  <2>1. /\ archived' = archived /\ slug' = slug
        /\ place'[r] \in {"failed", "killed"}
        /\ place[r] = "archive" => archived[r] = {}
        /\ place[r] = "between" => archived[r] = {"source"}
    BY <1>4 DEF StopsAtNote, NotesBroken, StagesDone, Stopped
  <2>2. \A q \in PipelineRuns : Folder(q)' = Folder(q)
    BY <1>4 DEF StopsAtNote, Folder, Url
  <2>3. /\ \A f \in Folders, s \in Slugs :
             \/ source'[f][s] = source[f][s]
             \/ source'[f][s] = 0 /\ place[r] = "archive" /\ f = Folder(r) /\ s = slug[r]
        /\ \A s \in Slugs :
             \/ summary'[s] = summary[s]
             \/ summary'[s] = 0 /\ place[r] = "between" /\ s = slug[r]
    BY <1>4 DEF StopsAtNote, NotesBroken
  <2>4. \A f \in Folders, s \in Slugs : source'[f][s] # 0 =>
           slug'[source'[f][s]] = s /\ "source" \in archived'[source'[f][s]]
    BY <2>1, <2>3
  <2>5. \A s \in Slugs : summary'[s] # 0 =>
           slug'[summary'[s]] = s /\ "summary" \in archived'[summary'[s]]
    BY <2>1, <2>3
  <2>6. ASSUME NEW q \in PipelineRuns, "source" \in archived'[q]
        PROVE  source'[Folder(q)'][slug'[q]] # 0 \/ Lost(q, "source")'
    <3>1. Folder(q) \in Folders /\ slug[q] \in Slugs
      BY <2>1, <2>6, ArchivedKeep
    <3>2. CASE source'[Folder(q)][slug[q]] = source[Folder(q)][slug[q]]
      BY <2>1, <2>2, <2>6, <3>2, LostKeep
    <3>3. CASE place[r] = "archive" /\ Folder(q) = Folder(r) /\ slug[q] = slug[r]
      BY <2>1, <2>2, <2>6, <3>3 DEF Lost
    <3>4. QED
      BY <2>3, <3>1, <3>2, <3>3
  <2>7. ASSUME NEW q \in PipelineRuns, "summary" \in archived'[q]
        PROVE  summary'[slug'[q]] # 0 \/ Lost(q, "summary")'
    <3>1. slug[q] \in Slugs
      BY <2>1, <2>7, ArchivedKeep
    <3>2. CASE summary'[slug[q]] = summary[slug[q]]
      BY <2>1, <2>7, <3>2, LostKeep
    <3>3. CASE place[r] = "between" /\ slug[q] = slug[r]
      BY <2>1, <2>7, <3>3 DEF Lost
    <3>4. QED
      BY <2>3, <3>1, <3>2, <3>3
  <2>8. QED
    BY <2>4, <2>5, <2>6, <2>7
<1>5. QED
  BY <1>1, <1>2, <1>3, <1>4, VaultSteps

LEMMA TurnsKept ==
  ASSUME PipelineInv, SpawnStep \/ MoveStep \/ DeathStep, PastKept
  PROVE  NotesInTurn'
<1> USE DEF PipelineInv, NotesInTurn
<1>0. /\ source \in [Folders -> [Slugs -> PipelineRuns \union {0}]]
      /\ summary \in [Slugs -> PipelineRuns \union {0}]
      /\ archived \in [PipelineRuns -> SUBSET {"source", "summary"}]
      /\ place \in [PipelineRuns -> Working \union Stopped \union {"absent"}]
      /\ 0 \notin PipelineRuns
  BY PipelineBounds DEF PipelineTypeOK, NoRun, PipelineRuns
<1>1. ASSUME NEW r \in PipelineRuns, WriteSource(r) PROVE NotesInTurn'
  <2> DEFINE f == Folder(r)
             s == slug[r]
  <2>1. f \in Folders /\ s \in Slugs /\ archived[r] = {} /\ place[r] = "archive"
    BY <1>0, <1>1, FolderFacts DEF WriteSource, StagesDone, Folder, Stopped
  <2>2. /\ source' = [source EXCEPT ![f][s] = r]
        /\ archived' = [archived EXCEPT ![r] = @ \union {"source"}]
        /\ place' = [place EXCEPT ![r] = "between"]
        /\ summary' = summary /\ slug' = slug /\ url' = url /\ link' = link /\ home' = home
        /\ \A q \in PipelineRuns \ {r} : home[q] = home[r] => place[q] # "between"
    BY <1>1 DEF WriteSource, spawnVars, HasTurn
  <2>3. \A q \in PipelineRuns : Folder(q)' = Folder(q)
    BY <2>2 DEF Folder, Url
  <2>4. \A g \in Folders, x \in Slugs : source'[g][x] = IF g = f /\ x = s THEN r ELSE source[g][x]
    BY <1>0, <2>1, <2>2
  <2>5. \A q \in PipelineRuns : archived'[q] = IF q = r THEN {"source"} ELSE archived[q]
    BY <1>0, <2>1, <2>2
  <2>6. \A q \in PipelineRuns : archived[q] # {} =>
               Folder(q) \in Folders /\ slug[q] \in Slugs
    BY ArchivedKeep
  <2>7. ASSUME NEW q \in PipelineRuns, place'[q] = "between"
        PROVE  \/ source'[Folder(q)'][slug'[q]] \in {q, 0}
               \/ home'[source'[Folder(q)'][slug'[q]]] # home'[q]
    <3>1. CASE q = r
      BY <2>1, <2>2, <2>3, <2>4, <3>1
    <3>2. CASE q # r
      <4>1. place[q] = "between" /\ home[q] # home[r] /\ archived[q] # {}
        BY <1>0, <2>2, <2>7, <3>2 DEF StagesDone
      <4>2. Folder(q) \in Folders /\ slug[q] \in Slugs
        BY <2>6, <4>1
      <4>3. QED
        BY <2>2, <2>3, <2>4, <4>1, <4>2
    <3>3. QED
      BY <3>1, <3>2
  <2>8. ASSUME NEW g \in Folders, NEW x \in Slugs, NEW a \in PipelineRuns, NEW b \in PipelineRuns,
               a = source'[g][x], b = summary'[x], a # b, Folder(b)' = g, home'[a] = home'[b]
        PROVE  "summary" \notin archived'[a]
    <3>1. CASE g = f /\ x = s
      BY <2>1, <2>4, <2>5, <2>8, <3>1
    <3>2. CASE ~(g = f /\ x = s)
      <4>1. a = source[g][x] /\ b = summary[x]
        BY <2>2, <2>4, <2>8, <3>2
      <4>2. "summary" \notin archived[a]
        BY <1>0, <2>2, <2>3, <2>8, <4>1
      <4>3. QED
        BY <2>5, <4>2
    <3>3. QED
      BY <3>1, <3>2
  <2>9. /\ source' \in [Folders -> [Slugs -> PipelineRuns \union {0}]]
        /\ summary' \in [Slugs -> PipelineRuns \union {0}]
    BY <1>0, <2>2, <2>4
  <2>10. QED
    BY <2>7, <2>8, <2>9 DEF Folder, Url
<1>2. ASSUME NEW r \in PipelineRuns, WriteSummary(r) PROVE NotesInTurn'
  <2> DEFINE s == slug[r]
  <2>1. s \in Slugs /\ place[r] = "between" /\ "source" \in archived[r]
    BY <1>2 DEF WriteSummary, StagesDone
  <2>2. /\ summary' = [summary EXCEPT ![s] = r]
        /\ archived' = [archived EXCEPT ![r] = @ \union {"summary"}]
        /\ place' = [place EXCEPT ![r] = "notify"]
        /\ source' = source /\ slug' = slug /\ url' = url /\ link' = link /\ home' = home
    BY <1>2 DEF WriteSummary, spawnVars
  <2>3. \A q \in PipelineRuns : Folder(q)' = Folder(q)
    BY <2>2 DEF Folder, Url
  <2>4. \A x \in Slugs : summary'[x] = IF x = s THEN r ELSE summary[x]
    BY <1>0, <2>1, <2>2
  <2>5. \A q \in PipelineRuns : archived'[q] = IF q = r THEN archived[r] \union {"summary"} ELSE archived[q]
    BY <1>0, <2>2
  <2>6. \A q \in PipelineRuns : place'[q] = "between" => place[q] = "between"
    BY <1>0, <2>2
  <2>7. ASSUME NEW q \in PipelineRuns, place'[q] = "between"
        PROVE  \/ source'[Folder(q)'][slug'[q]] \in {q, 0}
               \/ home'[source'[Folder(q)'][slug'[q]]] # home'[q]
    BY <2>2, <2>3, <2>6, <2>7
  <2>8. ASSUME NEW g \in Folders, NEW x \in Slugs, NEW a \in PipelineRuns, NEW b \in PipelineRuns,
               a = source'[g][x], b = summary'[x], a # b, Folder(b)' = g, home'[a] = home'[b]
        PROVE  "summary" \notin archived'[a]
    <3>1. a = source[g][x]
      BY <2>2, <2>8
    <3>2. CASE x = s
      <4>1. b = r /\ Folder(r) = g /\ home[a] = home[r] /\ a # r
        BY <2>2, <2>3, <2>4, <2>8, <3>2
      <4>2. QED
        BY <1>0, <2>1, <3>1, <3>2, <4>1
    <3>3. CASE x # s
      <4>1. b = summary[x]
        BY <2>4, <2>8, <3>3
      <4>2. "summary" \notin archived[a]
        BY <1>0, <2>2, <2>3, <2>8, <3>1, <4>1
      <4>3. a # r
        BY <1>0, <3>1, <3>3 DEF NotesInVault
      <4>4. QED
        BY <2>5, <4>2, <4>3
    <3>4. QED
      BY <3>2, <3>3
  <2>9. /\ source' \in [Folders -> [Slugs -> PipelineRuns \union {0}]]
        /\ summary' \in [Slugs -> PipelineRuns \union {0}]
    BY <1>0, <2>2, <2>4
  <2>10. QED
    BY <2>7, <2>8, <2>9 DEF Folder, Url
<1>3. ASSUME UNCHANGED <<source, summary, archived>>,
             \A r \in PipelineRuns : ~WriteSource(r) /\ ~WriteSummary(r)
      PROVE  NotesInTurn'
  <2>1. source' = source /\ summary' = summary /\ archived' = archived
    BY <1>3
  <2>2. \A r \in PipelineRuns : archived[r] # {} =>
          /\ slug'[r] = slug[r] /\ Folder(r)' = Folder(r) /\ home'[r] = home[r]
          /\ Folder(r) \in Folders /\ slug[r] \in Slugs
    BY ArchivedKeep
  <2>3. \A r \in PipelineRuns : place'[r] = "between" => place[r] = "between"
    <3>1. CASE SpawnStep
      BY <3>1, SpawnFacts, <1>0 DEF SpawnIs
    <3>2. CASE DeathStep
      BY <3>2, DeathFacts DEF DeathIs
    <3>3. CASE MoveStep
      BY <1>0, <1>3, <3>3 DEF MoveStep, StageStep, Classify, ShareLink,
         OpenPart, WriteChunk,
       RenamePart, ParseMetadata, DownloadVideo, FetchArticle,
       ExtractText,
       TakeText, Summarize, Push, Succeed, Raise
    <3>4. QED
      BY <3>1, <3>2, <3>3
  <2>4. ASSUME NEW r \in PipelineRuns, place'[r] = "between"
        PROVE  \/ source'[Folder(r)'][slug'[r]] \in {r, 0}
               \/ home'[source'[Folder(r)'][slug'[r]]] # home'[r]
    <3>1. place[r] = "between" /\ "source" \in archived[r]
      BY <2>3, <2>4 DEF StagesDone
    <3> DEFINE a == source[Folder(r)][slug[r]]
    <3> HIDE DEF a
    <3>2. a = 0 \/ (a \in PipelineRuns /\ archived[a] # {})
      <4>1. Folder(r) \in Folders /\ slug[r] \in Slugs
        BY <2>2, <3>1
      <4>2. a # 0 => archived[a] # {}
        BY <4>1 DEF NotesInVault, a
      <4>3. a \in PipelineRuns \union {0}
        BY <1>0, <4>1 DEF a
      <4>4. QED
        BY <4>2, <4>3
    <3>3. QED
      BY <2>1, <2>2, <3>1, <3>2 DEF a
  <2>5. ASSUME NEW g \in Folders, NEW x \in Slugs, NEW a \in PipelineRuns, NEW b \in PipelineRuns,
               a = source'[g][x], b = summary'[x], a # b, Folder(b)' = g, home'[a] = home'[b]
        PROVE  "summary" \notin archived'[a]
    <3>1. a = source[g][x] /\ b = summary[x] /\ archived[a] # {} /\ archived[b] # {}
      BY <1>0, <2>1, <2>5 DEF NotesInVault
    <3>2. QED
      BY <1>0, <2>1, <2>2, <2>5, <3>1
  <2>6. /\ source' \in [Folders -> [Slugs -> PipelineRuns \union {0}]]
        /\ summary' \in [Slugs -> PipelineRuns \union {0}]
    BY <1>0, <2>1
  <2>7. QED
    BY <2>4, <2>5, <2>6 DEF Folder, Url
<1>4. ASSUME NEW r \in PipelineRuns, StopsAtNote(r) PROVE NotesInTurn'
  <2>1. /\ archived' = archived /\ slug' = slug /\ home' = home
        /\ \A q \in PipelineRuns : place'[q] = "between" =>
             place[q] = "between" /\ home[q] # home[r]
        /\ source' \in [Folders -> [Slugs -> PipelineRuns \union {0}]]
        /\ summary' \in [Slugs -> PipelineRuns \union {0}]
    BY <1>4 DEF StopsAtNote, NotesBroken
  <2>2. \A q \in PipelineRuns : Folder(q)' = Folder(q)
    BY <1>4 DEF StopsAtNote, Folder, Url
  <2>3. /\ \A f \in Folders, s \in Slugs : source'[f][s] \in {0, source[f][s]}
        /\ \A s \in Slugs : summary'[s] \in {0, summary[s]}
    BY <1>4 DEF StopsAtNote, NotesBroken
  <2>4. ASSUME NEW q \in PipelineRuns, place'[q] = "between"
        PROVE  \/ source'[Folder(q)'][slug'[q]] \in {q, 0}
               \/ home'[source'[Folder(q)'][slug'[q]]] # home'[q]
    <3>1. place[q] = "between" /\ archived[q] # {}
      BY <2>1, <2>4 DEF StagesDone
    <3>2. Folder(q) \in Folders /\ slug[q] \in Slugs
      BY <3>1, ArchivedKeep
    <3>3. QED
      BY <2>1, <2>2, <2>3, <3>1, <3>2
  <2>5. ASSUME NEW g \in Folders, NEW x \in Slugs, NEW a \in PipelineRuns, NEW b \in PipelineRuns,
               a = source'[g][x], b = summary'[x], a # b, Folder(b)' = g, home'[a] = home'[b]
        PROVE  "summary" \notin archived'[a]
    <3>1. a = source[g][x] /\ b = summary[x]
      BY <1>0, <2>3, <2>5
    <3>2. QED
      BY <1>0, <2>1, <2>2, <2>5, <3>1
  <2>6. QED
    BY <2>1, <2>4, <2>5 DEF Folder, Url
<1>5. QED
  BY <1>1, <1>2, <1>3, <1>4, VaultSteps

(* The files *)

LEMMA FilesKept ==
  ASSUME PipelineInv, SpawnStep \/ MoveStep \/ DeathStep, PastKept
  PROVE  FilesOfTasks'
<1> USE DEF PipelineInv, FilesOfTasks, MadeFor, Url
<1> DEFINE MadeNow(i, t) == i \in PipelineRuns /\ place'[i] # "absent" /\ link'[i] = t
<1>0. /\ part \in [Links -> PipelineRuns \union {0}] /\ media \in [Links -> PipelineRuns \union {0}]
      /\ fd \in [PipelineRuns -> PipelineRuns \union {0}]
      /\ place \in [PipelineRuns -> Working \union Stopped \union {"absent"}]
      /\ \A r \in PipelineRuns : place[r] # "absent" => link[r] \in Links
      /\ \A r \in PipelineRuns : fd[r] # 0 <=> place[r] = "stream"
  BY DEF PipelineTypeOK, NoFile
<1>2. \A t \in Links, i \in PipelineRuns : MadeFor(i, t) => MadeNow(i, t) /\ url'[t] = url[t]
  BY DEF PastKept
<1>1. \A t \in Links : part[t] # 0 \/ media[t] # 0 => url'[t] = url[t]
  BY <1>0, <1>2
<1>3. \A r \in PipelineRuns : place[r] # "absent" => url'[link[r]] = url[link[r]] /\ link'[r] = link[r]
  BY DEF PastKept
<1>4. CASE SpawnStep
  <2>1. PICK n, t, p : SpawnIs(n, t, p)
    BY <1>4, SpawnFacts
  <2>2. \A r \in PipelineRuns \ {n} : place'[r] = place[r]
    BY <1>0, <2>1 DEF SpawnIs
  <2>3. place'[n] = "new" /\ fd'[n] = 0 /\ fd' = fd /\ part' = part /\ media' = media
    BY <1>0, <2>1 DEF SpawnIs
  <2>4. QED
    BY <1>0, <1>1, <1>2, <1>3, <2>2, <2>3
<1>5. CASE DeathStep
  <2>1. DeathIs
    BY <1>5, DeathFacts
  <2>2. QED
    BY <1>0, <1>1, <1>2, <1>3, <2>1 DEF DeathIs, Live, Working
<1>6. ASSUME NEW r \in PipelineRuns, StageStep(r) PROVE FilesOfTasks'
  <2>1. MovesAlone(r) /\ place[r] # "absent" /\ link[r] \in Links
    BY <1>0, <1>6, MoveFacts DEF MovesAlone, Live, Working
  <2>2. ASSUME NEW q \in PipelineRuns \ {r}
        PROVE  /\ fd'[q] # 0 => MadeNow(fd'[q], link'[q])
               /\ place'[q] \in {"share", "download", "stream"} => Brings(url'[link'[q]])
               /\ place'[q] = "fetch" => ~Brings(url'[link'[q]])
    BY <1>0, <1>2, <1>3, <2>1 DEF MovesAlone
  <2>3. CASE Classify(r)
    <3>1. place'[r] = IF Brings(Url(r)) THEN "share" ELSE "fetch"
      BY <1>0, <2>3 DEF Classify, Brings
    <3>2. fd' = fd /\ part' = part /\ media' = media /\ fd[r] = 0
      BY <1>0, <2>3 DEF Classify, fileVars
    <3>3. QED
      BY <1>0, <1>1, <1>2, <1>3, <2>1, <2>2, <3>1, <3>2
  <2>4. CASE OpenPart(r)
    <3> DEFINE i == IF part[link[r]] = 0 THEN r ELSE part[link[r]]
    <3>1. /\ part' = [part EXCEPT ![link[r]] = i] /\ fd' = [fd EXCEPT ![r] = i] /\ media' = media
          /\ place'[r] = "stream" /\ place[r] = "download"
      BY <1>0, <2>4 DEF OpenPart, Dir, NoFile
    <3>2. i \in PipelineRuns /\ MadeFor(i, link[r]) /\ Brings(url[link[r]])
      BY <1>0, <2>1, <3>1 DEF MadeFor, Url
    <3>3. MadeNow(i, link[r]) /\ url'[link[r]] = url[link[r]]
      BY <1>2, <2>1, <3>2
    <3>4. ASSUME NEW t \in Links
          PROVE  /\ part'[t] # 0 => MadeNow(part'[t], t)
                 /\ media'[t] # 0 => MadeNow(media'[t], t)
                 /\ part'[t] # 0 \/ media'[t] # 0 => Brings(url'[t])
      <4>1. CASE t = link[r]
        BY <1>0, <1>2, <2>1, <3>1, <3>2, <3>3, <4>1
      <4>2. CASE t # link[r]
        BY <1>0, <1>1, <1>2, <2>1, <3>1, <4>2
      <4>3. QED
        BY <4>1, <4>2
    <3>5. QED
      BY <1>0, <1>3, <2>1, <2>2, <3>1, <3>2, <3>3, <3>4 DEF Url
  <2>5. CASE RenamePart(r)
    <3>1. /\ part' = [part EXCEPT ![link[r]] = 0] /\ fd' = [fd EXCEPT ![r] = 0]
          /\ media' = [media EXCEPT ![link[r]] = part[link[r]]] /\ place'[r] = "parse" /\ part[link[r]] # 0
      BY <1>0, <2>5 DEF RenamePart, Dir, NoFile
    <3>2. QED
      BY <1>0, <1>1, <1>2, <2>1, <2>2, <3>1
  <2>6. CASE /\ part' = part /\ media' = media /\ fd'[r] \in {0, fd[r]}
             /\ place'[r] \in {"share", "download", "stream"} => place[r] \in {"share", "download", "stream"}
             /\ place'[r] = "fetch" => place[r] = "fetch"
    BY <1>0, <1>1, <1>2, <1>3, <2>1, <2>2, <2>6
  <2>7. \/ Classify(r) \/ OpenPart(r) \/ RenamePart(r)
        \/ /\ part' = part /\ media' = media /\ fd'[r] \in {0, fd[r]}
           /\ place'[r] \in {"share", "download", "stream"} => place[r] \in {"share", "download", "stream"}
           /\ place'[r] = "fetch" => place[r] = "fetch"
    BY <1>0, <1>6 DEF StageStep, fileVars, NoFile, ShareLink,
       WriteChunk, ParseMetadata, DownloadVideo, FetchArticle,
       ExtractText, TakeText, Summarize, WriteSource,
       WriteSummary, Push, Succeed, Raise
  <2>8. QED
    BY <2>3, <2>4, <2>5, <2>6, <2>7
<1>7. QED
  BY <1>4, <1>5, <1>6 DEF MoveStep

(* A run that downloads touches inodes of its own task only.                *)
LEMMA InodesOfTask ==
  ASSUME PipelineInv, NEW r \in PipelineRuns, StageStep(r)
  PROVE  /\ \A t \in Links \ {link[r]} : part'[t] = part[t] /\ media'[t] = media[t]
         /\ \A i \in PipelineRuns : link[i] # link[r] => bytes'[i] = bytes[i]
<1> USE DEF PipelineInv, FilesOfTasks, MadeFor, NoFile, Dir, fileVars
<1>0. /\ part \in [Links -> PipelineRuns \union {0}] /\ media \in [Links -> PipelineRuns \union {0}]
      /\ bytes \in [PipelineRuns -> SUBSET PipelineRuns]
      /\ \A q \in PipelineRuns : place[q] # "absent" => link[q] \in Links
      /\ \A q \in PipelineRuns : fd[q] # 0 <=> place[q] = "stream"
  BY DEF PipelineTypeOK
<1>1. CASE OpenPart(r)
  BY <1>0, <1>1 DEF OpenPart
<1>2. CASE WriteChunk(r)
  BY <1>0, <1>2 DEF WriteChunk
<1>3. CASE RenamePart(r)
  BY <1>0, <1>3 DEF RenamePart
<1>4. \/ OpenPart(r) \/ WriteChunk(r) \/ RenamePart(r)
      \/ UNCHANGED <<part, media, bytes>>
  BY DEF StageStep, Classify, ShareLink, ParseMetadata,
     DownloadVideo,
         FetchArticle, ExtractText, TakeText, Summarize,
         WriteSource,
         WriteSummary, Push, Succeed, Raise
<1>5. QED
  BY <1>1, <1>2, <1>3, <1>4

(* What holds of one run of a task that never had two at once.              *)
OwnFile(r) ==
  /\ place[r] = "stream" => part[link[r]] = fd[r] /\ bytes[fd[r]] = {r}
  /\ place[r] \in {"parse", "extract"} /\ media[link[r]] # 0 => bytes[media[link[r]]] = {r}

LEMMA OwnFileKept ==
  ASSUME PipelineInv, PastKept, NEW r \in PipelineRuns, StageStep(r), Alone(r)
  PROVE  OwnFile(r)'
<1> USE DEF PipelineInv, OwnFile, NoFile, Dir, fileVars
<1>0. /\ part \in [Links -> PipelineRuns \union {0}] /\ media \in [Links -> PipelineRuns \union {0}]
      /\ bytes \in [PipelineRuns -> SUBSET PipelineRuns]
      /\ fd \in [PipelineRuns -> PipelineRuns \union {0}]
      /\ place \in [PipelineRuns -> Working \union Stopped \union {"absent"}]
      /\ \A q \in PipelineRuns : fd[q] # 0 <=> place[q] = "stream"
  BY DEF PipelineTypeOK
<1>1. OwnFile(r) /\ link[r] \in Links /\ link'[r] = link[r]
  BY DEF OwnFiles, Alone, PastKept, PipelineTypeOK
<1>2. CASE OpenPart(r)
  <2>1. (IF part[link[r]] = 0 THEN r ELSE part[link[r]]) \in PipelineRuns
    BY <1>0, <1>1
  <2>2. QED
    BY <1>0, <1>1, <1>2, <2>1 DEF OpenPart
<1>3. CASE WriteChunk(r)
  BY <1>0, <1>1, <1>3 DEF WriteChunk
<1>4. CASE RenamePart(r)
  BY <1>0, <1>1, <1>4 DEF RenamePart
<1>5. CASE DownloadVideo(r) \/ FetchArticle(r)
  <2>1. place[r] = "fetch" /\ place'[r] \in {"parse", "extract"} /\ media' = media
    BY <1>0, <1>5 DEF DownloadVideo, FetchArticle
  <2>2. media[link[r]] = 0
    BY <1>1, <2>1 DEF FilesOfTasks, Url
  <2>3. QED
    BY <1>1, <2>1, <2>2
<1>6. CASE ParseMetadata(r)
  BY <1>0, <1>1, <1>6 DEF ParseMetadata
<1>7. CASE place'[r] \notin {"stream", "parse", "extract"}
  BY <1>7
<1>8. \/ OpenPart(r) \/ WriteChunk(r) \/ RenamePart(r)
      \/ DownloadVideo(r) \/ FetchArticle(r) \/ ParseMetadata(r)
      \/ place'[r] \notin {"stream", "parse", "extract"}
  BY <1>0 DEF StageStep, Classify, ShareLink,
         ExtractText, TakeText, Summarize, WriteSource,
         WriteSummary, Push, Succeed, Raise
<1>9. QED
  BY <1>2, <1>3, <1>4, <1>5, <1>6, <1>7, <1>8

LEMMA OwnFilesKept ==
  ASSUME PipelineInv, SpawnStep \/ MoveStep \/ DeathStep, PastKept, PipelineTypeOK'
  PROVE  OwnFiles'
<1> USE DEF PipelineInv
<1>0. /\ place \in [PipelineRuns -> Working \union Stopped \union {"absent"}]
      /\ \A r \in PipelineRuns : place[r] # "absent" => link[r] \in Links
      /\ \A r \in PipelineRuns : fd[r] # 0 <=> place[r] = "stream"
      /\ \A r \in PipelineRuns : fd'[r] # 0 <=> place'[r] = "stream"
  BY DEF PipelineTypeOK, NoFile
<1>1. \A r \in PipelineRuns : Alone(r) =>
        /\ Live(r) => \A q \in PipelineRuns \ {r} : Live(q) => link[q] # link[r]
        /\ OwnFile(r)
  BY DEF OwnFiles, OwnFile
<1>2. \A r \in PipelineRuns : place[r] # "absent" /\ Alone(r)' => Alone(r)
  BY DEF Alone, PastKept
<1> SUFFICES ASSUME NEW r \in PipelineRuns, Alone(r)'
             PROVE  /\ Live(r)' => \A q \in PipelineRuns \ {r} : Live(q)' => link'[q] # link'[r]
                    /\ OwnFile(r)'
  BY DEF OwnFiles, OwnFile
<1>3. CASE SpawnStep
  <2>1. PICK n, t, p : SpawnIs(n, t, p)
    BY <1>3, SpawnFacts
  <2>2. /\ \A q \in PipelineRuns \ {n} : place'[q] = place[q] /\ link'[q] = link[q]
        /\ place'[n] = "new" /\ link'[n] = t /\ shared \in [Links -> BOOLEAN]
        /\ shared' = IF \E q \in PipelineRuns : link[q] = t /\ Live(q)
                     THEN [shared EXCEPT ![t] = TRUE] ELSE shared
    BY <2>1 DEF SpawnIs, PipelineTypeOK
  <2>3. CASE r = n
    <3>1. ~shared'[t]
      BY <2>2, <2>3 DEF Alone
    <3>2. \A q \in PipelineRuns : Live(q) => link[q] # t
      BY <2>1, <2>2, <3>1 DEF SpawnIs
    <3>3. QED
      BY <2>2, <2>3, <3>2 DEF OwnFile, Live
  <2>4. CASE r # n
    <3>1. Alone(r) /\ place'[r] = place[r] /\ link'[r] = link[r] /\ ~shared'[link[r]] /\ link[r] \in Links
      BY <1>0, <1>2, <2>2, <2>4 DEF Alone
    <3>2. Live(r) => link[r] # t
      BY <2>1, <2>2, <3>1 DEF SpawnIs
    <3>3. OwnFile(r)'
      BY <1>1, <2>1, <3>1 DEF OwnFile, SpawnIs
    <3>4. QED
      BY <1>1, <2>2, <3>1, <3>2, <3>3 DEF Live
  <2>5. QED
    BY <2>3, <2>4
<1>4. CASE DeathStep
  <2>1. DeathIs
    BY <1>4, DeathFacts
  <2>2. Alone(r)
    BY <2>1 DEF DeathIs, Alone, Live, Working
  <2>3. \A q \in PipelineRuns : Live(q)' => Live(q)
    BY <2>1 DEF DeathIs, Live, Working
  <2>4. OwnFile(r)'
    BY <1>0, <1>1, <2>1, <2>2 DEF DeathIs, OwnFile
  <2>5. QED
    BY <1>1, <2>1, <2>2, <2>3, <2>4 DEF DeathIs
<1>5. ASSUME NEW m \in PipelineRuns, StageStep(m)
      PROVE  /\ Live(r)' => \A q \in PipelineRuns \ {r} : Live(q)' => link'[q] # link'[r]
             /\ OwnFile(r)'
  <2>1. MovesAlone(m) /\ place[m] # "absent" /\ link[m] \in Links
    BY <1>0, <1>5, MoveFacts DEF MovesAlone, Live, Working
  <2>2. Alone(r)
    BY <2>1 DEF MovesAlone, Alone
  <2>3. \A q \in PipelineRuns : Live(q)' => Live(q)
    BY <2>1 DEF MovesAlone, Live
  <2>4. CASE r = m
    BY <1>1, <1>5, <2>1, <2>2, <2>3, <2>4, OwnFileKept DEF MovesAlone
  <2>5. CASE r # m
    <3>1. place'[r] = place[r] /\ fd'[r] = fd[r] /\ link' = link
      BY <2>1, <2>5 DEF MovesAlone
    <3>2. CASE ~Live(r)
      BY <2>3, <3>1, <3>2 DEF OwnFile, Live, Working
    <3>3. CASE Live(r)
      <4>1. link[r] # link[m] /\ link[r] \in Links
        BY <1>0, <1>1, <2>1, <2>2, <2>5, <3>3 DEF MovesAlone, Alone
      <4>2. part'[link[r]] = part[link[r]] /\ media'[link[r]] = media[link[r]]
        BY <1>5, <4>1, InodesOfTask
      <4>3. /\ fd[r] # 0 => fd[r] \in PipelineRuns /\ link[fd[r]] = link[r]
            /\ media[link[r]] # 0 => media[link[r]] \in PipelineRuns /\ link[media[link[r]]] = link[r]
        BY <4>1 DEF FilesOfTasks, MadeFor
      <4>4. /\ fd[r] # 0 => bytes'[fd[r]] = bytes[fd[r]]
            /\ media[link[r]] # 0 => bytes'[media[link[r]]] = bytes[media[link[r]]]
        BY <1>5, <4>1, <4>3, InodesOfTask
      <4>5. OwnFile(r)'
        BY <1>0, <1>1, <2>2, <3>1, <4>2, <4>4 DEF OwnFile
      <4>6. QED
        BY <1>1, <2>2, <2>3, <3>1, <4>5
    <3>4. QED
      BY <3>2, <3>3
  <2>6. QED
    BY <2>4, <2>5
<1>6. QED
  BY <1>3, <1>4, <1>5 DEF MoveStep

LEMMA GarbledKept ==
  ASSUME PipelineInv, SpawnStep \/ MoveStep \/ DeathStep, PastKept
  PROVE  GarbledNeedsOverlap'
<1> USE DEF PipelineInv, GarbledNeedsOverlap
<1>1. CASE SpawnStep
  <2>1. PICK n, t, p : SpawnIs(n, t, p)
    BY <1>1, SpawnFacts
  <2>2. QED
    BY <2>1 DEF SpawnIs, PastKept, StagesDone
<1>2. CASE DeathStep
  BY <1>2, DeathFacts DEF DeathIs
<1>3. ASSUME NEW r \in PipelineRuns, StageStep(r) PROVE GarbledNeedsOverlap'
  <2>1. MovesAlone(r)
    BY <1>3, MoveFacts
  <2>2. CASE text'[r] = text[r]
    BY <2>1, <2>2 DEF MovesAlone
  <2>3. CASE FetchArticle(r)
    BY <2>1, <2>3 DEF MovesAlone, FetchArticle, PipelineTypeOK
  <2>4. CASE ExtractText(r)
    <3>1. text'[r] = "garbled" => media[link[r]] # 0 /\ bytes[media[link[r]]] # {r}
      BY <2>4 DEF ExtractText, Transcripts, Found, Heard,
         CcSubtitles,
                  EmbeddedSubtitles, PipelineTypeOK, Dir, NoFile
    <3>2. place[r] = "extract"
      BY <2>4 DEF ExtractText
    <3>3. text'[r] = "garbled" => shared[link[r]]
      BY <3>1, <3>2 DEF OwnFiles, Alone
    <3>4. QED
      BY <2>1, <3>3 DEF MovesAlone
  <2>5. text'[r] = text[r] \/ FetchArticle(r) \/ ExtractText(r)
    BY <1>3 DEF StageStep, Classify, ShareLink, OpenPart,
       WriteChunk,
       RenamePart, ParseMetadata, DownloadVideo,
       TakeText, Summarize, WriteSource, WriteSummary,
       Push,
       Succeed, Raise
  <2>6. QED
    BY <2>2, <2>3, <2>4, <2>5
<1>4. QED
  BY <1>1, <1>2, <1>3 DEF MoveStep

LEMMA PipelineNextInv == PipelineInv /\ [PipelineNext]_pipelineVars => PipelineInv'
<1> SUFFICES ASSUME PipelineInv, [PipelineNext]_pipelineVars PROVE PipelineInv'
  OBVIOUS
<1>1. CASE PipelineNext
  <2>1. SpawnStep \/ MoveStep \/ DeathStep
    BY <1>1, PipelineSteps
  <2>2. PipelineTypeOK'
    BY <2>1, SpawnType, MoveType, DeathType DEF PipelineInv
  <2>3. PastKept
    BY <2>1, PastIsKept
  <2>4. \A r \in PipelineRuns : StagesDone(r)'
    BY <2>1, StagesKept
  <2>5. NotesInVault' /\ NotesInTurn'
    BY <2>1, <2>3, VaultKept, TurnsKept
  <2>6. FilesOfTasks' /\ OwnFiles' /\ GarbledNeedsOverlap'
    BY <2>1, <2>2, <2>3, FilesKept, OwnFilesKept, GarbledKept
  <2>7. QED
    BY <2>2, <2>4, <2>5, <2>6 DEF PipelineInv
<1>2. CASE UNCHANGED pipelineVars
  <2>1. /\ UNCHANGED <<part, media, fd, bytes, source, summary, archived, todo, sent>>
        /\ UNCHANGED <<url, link, home, shared, spawned, place, text, slug, deaths>>
    BY <1>2 DEF pipelineVars, fileVars, vaultVars, pushVars,
       spawnVars
  <2>2. PipelineTypeOK'
    BY <2>1 DEF PipelineInv, PipelineTypeOK, Url
  <2>3. (\A r \in PipelineRuns : StagesDone(r)') /\ NotesInVault' /\ NotesInTurn'
    BY <2>1 DEF PipelineInv, StagesDone, NotesInVault, Lost, NotesInTurn, Folder, Url
  <2>4. FilesOfTasks' /\ OwnFiles' /\ GarbledNeedsOverlap'
    BY <2>1 DEF PipelineInv, FilesOfTasks, MadeFor, OwnFiles, Alone, Live, Url,
                GarbledNeedsOverlap
  <2>5. QED
    BY <2>2, <2>3, <2>4 DEF PipelineInv
<1>3. QED
  BY <1>1, <1>2

LEMMA PipelineInvariance == PipelineSpec => []PipelineInv
BY PipelineInitInv, PipelineNextInv, PTL DEF PipelineSpec

(* Runs, files and notes are as typed, for any number of tasks, processes,  *)
(* runs and deaths.                                                         *)
THEOREM PipelineTypeCorrect == PipelineSpec => []PipelineTypeOK
<1>1. PipelineInv => PipelineTypeOK
  BY DEF PipelineInv
<1>2. QED
  BY <1>1, PipelineInvariance, PTL

(* A transcript of another run's bytes is never made of what a dead run     *)
(* left: two runs of the task were alive at once.                           *)
THEOREM GarbledMeansOverlap == PipelineSpec => []GarbledNeedsOverlap
<1>1. PipelineInv => GarbledNeedsOverlap
  BY DEF PipelineInv
<1>2. QED
  BY <1>1, PipelineInvariance, PTL

(* A run that announced success, or pushed, had a text and wrote its two    *)
(* notes; only a run of the same file name replaces them or, stopped while  *)
(* it writes, breaks them.                                                  *)
THEOREM AnnouncementsAreTrue == PipelineSpec => []AnnouncedIsArchived
<1>1. PipelineInv => AnnouncedIsArchived
  <2> SUFFICES ASSUME PipelineInv, NEW r \in PipelineRuns, place[r] = "done" \/ sent[r] # {}
               PROVE  /\ text[r] \in {"text", "garbled"}
                      /\ archived[r] = {"source", "summary"}
                      /\ Kept(source[Folder(r)][slug[r]], r, "source")
                      /\ Kept(summary[slug[r]], r, "summary")
    BY DEF AnnouncedIsArchived
  <2>1. archived[r] = {"source", "summary"} /\ slug[r] \in Slugs /\ text[r] \in {"text", "garbled"}
    BY DEF PipelineInv, StagesDone
  <2>2. Folder(r) \in Folders
    BY FolderFacts DEF Folder
  <2>3. /\ source[Folder(r)][slug[r]] \in PipelineRuns \union {0}
        /\ summary[slug[r]] \in PipelineRuns \union {0}
    BY <2>1, <2>2 DEF PipelineInv, PipelineTypeOK, NoRun
  <2>4. Kept(source[Folder(r)][slug[r]], r, "source")
    <3>1. CASE source[Folder(r)][slug[r]] = 0
      <4>1. Lost(r, "source")
        BY <2>1, <3>1 DEF PipelineInv, NotesInVault
      <4>2. QED
        BY <3>1, <4>1 DEF Lost, Kept, NoRun
    <3>2. CASE source[Folder(r)][slug[r]] # 0
      BY <2>1, <2>2, <2>3, <3>2 DEF PipelineInv, NotesInVault, Kept
    <3>3. QED
      BY <3>1, <3>2
  <2>5. Kept(summary[slug[r]], r, "summary")
    <3>1. CASE summary[slug[r]] = 0
      <4>1. Lost(r, "summary")
        BY <2>1, <3>1 DEF PipelineInv, NotesInVault
      <4>2. QED
        BY <3>1, <4>1 DEF Lost, Kept, NoRun
    <3>2. CASE summary[slug[r]] # 0
      BY <2>1, <2>3, <3>2 DEF PipelineInv, NotesInVault, Kept
    <3>3. QED
      BY <3>1, <3>2
  <2>6. QED
    BY <2>1, <2>4, <2>5
<1>2. QED
  BY <1>1, PipelineInvariance, PTL

(* Of two runs of one process whose notes stand side by side under one      *)
(* name, the one with the source note only never announces itself.          *)
THEOREM TornPairsAreUnannounced == PipelineSpec => []TornPairIsUnannounced
<1>1. PipelineInv => TornPairIsUnannounced
  <2> SUFFICES ASSUME PipelineInv, NEW f \in Folders, NEW s \in Slugs,
                      NEW a, NEW b, a = source[f][s], b = summary[s], a # 0, b # 0, a # b,
                      Folder(b) = f, home[a] = home[b]
               PROVE  place[a] \notin {"notify", "done"} /\ sent[a] = {}
    BY DEF TornPairIsUnannounced, NoRun
  <2>1. "summary" \notin archived[a]
    BY DEF PipelineInv, NotesInTurn
  <2>2. a \in PipelineRuns
    BY DEF PipelineInv, PipelineTypeOK, NoRun
  <2>3. QED
    BY <2>1, <2>2 DEF PipelineInv, StagesDone
<1>2. QED
  BY <1>1, PipelineInvariance, PTL

===============================================================================
