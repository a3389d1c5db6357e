------------------------- MODULE SummaryQueueProofs -------------------------
(***************************************************************************)
(* Proofs about SummaryQueue, for every number of videos, requests,        *)
(* clients, jobs, faults and stops and every queue size:                   *)
(*   - TypeOK, with both queue bounds;                                     *)
(*   - TerminalNotMissed, StatusDoesNotMaskFailure and StreamShape;        *)
(*   - AbandonedAreCounted and SecondJobIsUnseen;                          *)
(*   - SummaryQueue implements JobLifecycle.                               *)
(* The inductive invariant IInv says where a job id may be at each stage   *)
(* of its row, and what a subscriber's queue can hold then.                *)
(***************************************************************************)
EXTENDS SummaryQueue, SequenceTheorems, FiniteSetTheorems, TLAPS

(* No id is queued twice, or queued while the worker has it. *)
SubmittedOnce ==
  /\ \A i, k \in DOMAIN queue : queue[i] = queue[k] => i = k
  /\ wjob \notin Queued

(* A row the worker has not begun: not committed yet, or queued. *)
NotBegun == {"absent", "queued"}

(* Where the worker is decides the committed status of its row. *)
WorkerInv ==
  /\ wpc = "idle" <=> wjob = NoJob
  /\ wpc = "start" => status[wjob] \in NotBegun
  /\ wpc = "start_commit" => status[wjob] = "queued"
  /\ wpc \in {"pipeline", "finish"} => status[wjob] = "running"
  /\ wpc = "announce" => status[wjob] = FinalStatus(wres)
  /\ wpc \in {"finish", "announce"} => wres \in Outcomes

(* Ids above lastJob are unused: no row, no submission. *)
FreshInv ==
  /\ \A j \in Jobs : j > lastJob => status[j] = "absent"
  /\ \A j \in Queued : j <= lastJob /\ status[j] \in NotBegun
  /\ wjob <= lastJob

(* A handler about to commit owns the only claim to its row's status. *)
Committing == {"post_commit", "retry_commit"}

ReqInv ==
  \A r \in Reqs :
    rpc[r] \in Committing =>
      /\ rrec[r] \in Jobs /\ rrec[r] <= lastJob
      /\ status[rrec[r]] = "absent"
      /\ \A q \in Reqs : rpc[q] \in Committing /\ rrec[q] = rrec[r] => q = r

(* What the subscriber queue of an open stream holds, by the stage of its  *)
(* job: nothing before the worker begins, at most "started" before the     *)
(* announcement, at most "started" and the terminal status after it.       *)
Unbegun(j)     == j > lastJob \/ j \in Queued \/ (wjob = j /\ wpc = "start")
Unannounced(j) == wjob = j /\ wpc = "announce"

BeforeTerminal == {<< >>, <<"started">>}
WithTerminal(s) == {<<s>>, <<"started", s>>}

StreamOK(c, j) ==
  /\ Unbegun(j) => sq[c] = << >>
  /\ \/ sq[c] \in BeforeTerminal
     \/ status[j] \in Terminal /\ ~Unannounced(j) /\ sq[c] \in WithTerminal(status[j])
  /\ spc[c] = "streaming" /\ status[j] \in Terminal =>
       Unannounced(j) \/ sq[c] \in WithTerminal(status[j])

StreamInv ==
  \A c \in Clients : spc[c] # "closed" => sjob[c] \in Jobs /\ StreamOK(c, sjob[c])

(* Streams are closed before the worker is stopped. *)
StoppedInv == server # "up" => \A c \in Clients : spc[c] = "closed"

IInv == /\ TypeOK /\ SubmittedOnce
        /\ WorkerInv /\ FreshInv /\ ReqInv /\ StreamInv /\ StoppedInv

-----------------------------------------------------------------------------
(* Lemmas about the queue of submissions and about finalize. *)

(* What a sequence holds after an element is appended. *)
LEMMA AppendElements ==
  ASSUME NEW S, NEW q \in Seq(S), NEW x \in S
  PROVE  /\ Append(q, x) \in Seq(S)
         /\ Len(Append(q, x)) = Len(q) + 1
         /\ {Append(q, x)[i] : i \in DOMAIN Append(q, x)}
              = {q[i] : i \in DOMAIN q} \union {x}
<1> DEFINE a == Append(q, x)
<1>1. /\ a \in Seq(S) /\ Len(a) = Len(q) + 1
      /\ DOMAIN a = 1..Len(q) + 1 /\ DOMAIN q = 1..Len(q) /\ Len(q) \in Nat
      /\ \A i \in 1..Len(q) : a[i] = q[i]
      /\ a[Len(q) + 1] = x
  OBVIOUS
<1> HIDE DEF a
<1>2. {a[i] : i \in DOMAIN a} = {q[i] : i \in DOMAIN q} \union {x}
  BY <1>1
<1>3. QED
  BY <1>1, <1>2 DEF a

(* What is left after the head is taken. *)
LEMMA TailElements ==
  ASSUME NEW S, NEW q \in Seq(S), q # << >>
  PROVE  /\ Tail(q) \in Seq(S) /\ Head(q) \in S
         /\ Len(Tail(q)) = Len(q) - 1
         /\ {Tail(q)[i] : i \in DOMAIN Tail(q)} \subseteq {q[i] : i \in DOMAIN q}
         /\ Head(q) \in {q[i] : i \in DOMAIN q}
  OBVIOUS

LEMMA AppendToShort ==
  ASSUME NEW x, NEW y
  PROVE  Append(<< >>, y) = <<y>> /\ Append(<<x>>, y) = <<x, y>>
<1> DEFINE S == {x, y}
<1>1. << >> \in Seq(S) /\ <<x>> \in Seq(S) /\ <<y>> \in Seq(S) /\ <<x, y>> \in Seq(S)
  OBVIOUS
<1>2. Append(<< >>, y) = <<y>>
  <2>1. /\ Append(<< >>, y) \in Seq(S) /\ Len(Append(<< >>, y)) = Len(<<y>>)
        /\ \A i \in 1..1 : Append(<< >>, y)[i] = <<y>>[i]
    OBVIOUS
  <2>2. QED
    BY <1>1, <2>1, SeqEqual
<1>3. Append(<<x>>, y) = <<x, y>>
  <2>1. /\ Append(<<x>>, y) \in Seq(S) /\ Len(Append(<<x>>, y)) = Len(<<x, y>>)
        /\ \A i \in 1..2 : Append(<<x>>, y)[i] = <<x, y>>[i]
    OBVIOUS
  <2>2. QED
    BY <1>1, <2>1, SeqEqual
<1>4. QED
  BY <1>2, <1>3

(* finalize_summary_job always decides for a terminal status. *)
LEMMA FinalStatusTerminal ==
  ASSUME NEW res \in Results
  PROVE  /\ FinalStatus(res) \in Terminal
         /\ FinalError(res) \in Errors
  BY DEF FinalStatus, FinalError, Incomplete, Results, Terminal, Errors

LEMMA OutcomesAreResults == Outcomes \subseteq Results
  BY DEF Outcomes, Results, Errors

-----------------------------------------------------------------------------
(* Type correctness *)

LEMMA BroadcastType ==
  ASSUME TypeOK, NEW j, NEW event \in LiveEvents, Broadcast(j, event)
  PROVE  /\ sq' \in [Clients -> Seq(LiveEvents)]
         /\ \A c \in Clients : Len(sq'[c]) <= SubMax
  BY SubMaxAssumption DEF Broadcast, TypeOK

LEMMA CloseStreamType ==
  ASSUME TypeOK, NEW c \in Clients, NEW last \in Seq(Events), CloseStream(c, last)
  PROVE  /\ spc'  \in [Clients -> StreamPc]
         /\ sq'   \in [Clients -> Seq(LiveEvents)]
         /\ \A d \in Clients : Len(sq'[d]) <= SubMax
         /\ seen' \in [Clients -> Seq(Events)]
  BY SubMaxAssumption DEF CloseStream, TypeOK, StreamPc

LEMMA TypeInit == Init => TypeOK
<1> SUFFICES ASSUME Init PROVE TypeOK
  OBVIOUS
<1> USE DEF Init
<1>1. /\ status \in [Jobs -> Status] /\ stored \in [Jobs -> Columns]
      /\ lastJob \in 0..MaxJobs
      /\ faults \in 0..MaxFaults /\ stops \in 0..MaxStops
  BY BoundsAssumption DEF Status, Columns, Errors
<1>2. videoOf \in [Jobs -> Videos] /\ rvid \in [Reqs -> Videos]
  BY VideosAssumption
<1>3. queue \in Seq(Jobs) /\ Len(queue) <= QueueMax
  BY QueueMaxAssumption
<1>4. /\ wpc \in WorkerPc /\ wjob \in Jobs \union {NoJob} /\ wres \in Results
      /\ rpc \in [Reqs -> ReqPc]
      /\ rrec \in [Reqs -> Jobs \union {NoJob}] /\ rjob \in [Reqs -> Jobs \union {NoJob}]
      /\ unread \in [Reqs -> SUBSET (Jobs \union {NoJob})]
  BY DEF WorkerPc, Results, NoResult, Errors, ReqPc, ReqFree
<1>5. /\ spc \in [Clients -> StreamPc] /\ sjob \in [Clients -> Jobs \union {NoJob}]
      /\ sq \in [Clients -> Seq(LiveEvents)] /\ seen \in [Clients -> Seq(Events)]
      /\ \A c \in Clients : Len(sq[c]) <= SubMax
  BY SubMaxAssumption DEF StreamPc
<1>6. QED
  BY <1>1, <1>2, <1>3, <1>4, <1>5 DEF TypeOK

LEMMA TypeStep == TypeOK /\ [Next]_vars => TypeOK'
<1> SUFFICES ASSUME TypeOK, [Next]_vars PROVE TypeOK'
  OBVIOUS
<1> USE QueueMaxAssumption, SubMaxAssumption, BoundsAssumption DEF TypeOK, dbVars, workerVars, reqVars, sseVars, envVars
<1>1. ASSUME NEW r \in Reqs, NEW v \in Videos, PostReuse(r, v) \/ PostCheck(r, v)
      PROVE  TypeOK'
  <2>1. CASE PostReuse(r, v)
    BY <2>1 DEF PostReuse, ReqPc, ReqFree, Answers
  <2>2. CASE PostCheck(r, v)
    BY <2>2 DEF PostCheck, ReqPc, ReqFree, Answers
  <2>3. QED
    BY <1>1, <2>1, <2>2
<1>2. ASSUME NEW r \in Reqs, NEW j \in Jobs, RetryCheck(r, j)
      PROVE  TypeOK'
  BY <1>2 DEF RetryCheck, ReqPc, ReqFree, Answers
<1>3. ASSUME NEW r \in Reqs, ReqStep(r)
      PROVE  TypeOK'
  <2>1. ASSUME AllocateJob(rvid[r])
        PROVE  /\ lastJob + 1 \in Jobs /\ lastJob' \in 0..MaxJobs
               /\ videoOf' \in [Jobs -> Videos]
    BY <2>1 DEF AllocateJob, Jobs
  <2>2. CASE PostEnqueue(r) \/ RetryEnqueue(r)
    <3>1. /\ lastJob + 1 \in Jobs /\ queue' = Append(queue, lastJob + 1)
          /\ Len(queue) < QueueMax
      BY <2>1, <2>2 DEF PostEnqueue, RetryEnqueue
    <3>2. queue' \in Seq(Jobs) /\ Len(queue') = Len(queue) + 1
      BY <3>1, AppendElements
    <3>3. Len(queue') <= QueueMax
      BY <3>1, <3>2
    <3>4. /\ rpc' \in [Reqs -> ReqPc] /\ rrec' \in [Reqs -> Jobs \union {NoJob}]
          /\ rjob' \in [Reqs -> Jobs \union {NoJob}]
      <4>1. CASE PostEnqueue(r)
        BY <3>1, <4>1 DEF PostEnqueue, ReqPc
      <4>2. CASE RetryEnqueue(r)
        BY <3>1, <4>2 DEF RetryEnqueue, ReqPc, ReqFree, Answers
      <4>3. QED
        BY <2>2, <4>1, <4>2
    <3>5. QED
      BY <2>1, <2>2, <3>2, <3>3, <3>4 DEF PostEnqueue, RetryEnqueue
  <2>3. CASE PostQueueFull(r) \/ RetryQueueFull(r) \/ RetryCreate(r)
    <3>1. CASE PostQueueFull(r)
      BY <2>1, <3>1 DEF PostQueueFull, ReqPc, ReqFree, Answers
    <3>2. CASE RetryQueueFull(r)
      BY <2>1, <3>2 DEF RetryQueueFull, ReqPc, ReqFree, Answers
    <3>3. CASE RetryCreate(r)
      BY <2>1, <3>3 DEF RetryCreate, ReqPc
    <3>4. QED
      BY <2>3, <3>1, <3>2, <3>3
  <2>4. CASE PostCommit(r) \/ RetryCommit(r)
    <3>1. /\ status' \in [Jobs -> Status]
          /\ unread' \in [Reqs -> SUBSET (Jobs \union {NoJob})]
      <4>1. /\ status' = [status EXCEPT ![rrec[r]] = "queued"] /\ "queued" \in Status
            /\ unread' = [q \in Reqs |-> IF q = r \/ rpc[q] \in ReqFree THEN {}
                                         ELSE unread[q] \union {rrec[r]}]
        BY <2>4 DEF PostCommit, RetryCommit, CommitRow, Status, Active
      <4>2. \A q \in Reqs : unread[q] \union {rrec[r]} \in SUBSET (Jobs \union {NoJob})
        OBVIOUS
      <4>3. QED
        BY <4>1, <4>2
    <3>2. rpc' \in [Reqs -> ReqPc]
      BY <2>4 DEF PostCommit, RetryCommit, ReqPc, ReqFree, Answers
    <3>3. QED
      BY <2>4, <3>1, <3>2 DEF PostCommit, RetryCommit
  <2>5. QED
    BY <1>3, <2>2, <2>3, <2>4 DEF ReqStep
<1>4. ASSUME NEW r \in Reqs, ReqFault(r)
      PROVE  TypeOK'
  BY <1>4 DEF ReqFault, ReqPc, ReqFree, Answers
<1>5. CASE WorkerStep
  <2>1. CASE WorkerGet
    BY <2>1, TailElements DEF WorkerGet, WorkerPc
  <2>2. CASE WorkerMarkStarted
    BY <2>2, BroadcastType DEF WorkerMarkStarted, WorkerPc, LiveEvents
  <2>3. CASE WorkerNotFound \/ WorkerCommitStarted
    BY <2>3 DEF WorkerNotFound, WorkerCommitStarted, WorkerPc, NoJob, Status, Active
  <2>4. ASSUME NEW res \in Outcomes, WorkerPipeline(res)
        PROVE  TypeOK'
    BY <2>4, OutcomesAreResults DEF WorkerPipeline, WorkerPc
  <2>5. CASE WorkerFinish
    BY <2>5, FinalStatusTerminal DEF WorkerFinish, WorkerPc, Status, Columns, Results
  <2>6. CASE WorkerAnnounce
    <3>1. FinalStatus(wres) \in LiveEvents
      BY FinalStatusTerminal DEF LiveEvents
    <3>2. QED
      BY <2>6, <3>1, BroadcastType DEF WorkerAnnounce, WorkerPc, NoJob, NoResult, Results, Errors
  <2>7. QED
    BY <1>5, <2>1, <2>2, <2>3, <2>4, <2>5, <2>6 DEF WorkerStep
<1>6. CASE WorkerFault
  BY <1>6 DEF WorkerFault, WorkerPc, NoJob, NoResult, Results, Errors
<1>7. ASSUME NEW c \in Clients, NEW j \in Jobs, Subscribe(c, j)
      PROVE  TypeOK'
  BY <1>7 DEF Subscribe, StreamPc
<1>8. ASSUME NEW c \in Clients, StreamStep(c) \/ Disconnect(c)
      PROVE  TypeOK'
  <2> USE DEF LiveEvents, Events, StreamPc
  <2>1. CASE SnapshotMissing(c)
    BY <2>1, CloseStreamType, <<"error">> \in Seq(Events) DEF SnapshotMissing
  <2>2. CASE SnapshotFinished(c)
    BY <2>2, CloseStreamType, <<status[sjob[c]]>> \in Seq(Events) DEF SnapshotFinished
  <2>3. CASE SnapshotActive(c)
    BY <2>3 DEF SnapshotActive
  <2>4. CASE DeliverStarted(c)
    BY <2>4, TailElements DEF DeliverStarted
  <2>5. CASE DeliverTerminal(c)
    BY <2>5, CloseStreamType, <<Head(sq[c]), "closing">> \in Seq(Events) DEF DeliverTerminal
  <2>6. CASE Disconnect(c)
    BY <2>6, CloseStreamType, << >> \in Seq(Events) DEF Disconnect
  <2>7. QED
    BY <1>8, <2>1, <2>2, <2>3, <2>4, <2>5, <2>6 DEF StreamStep
<1>9. CASE ShutdownBegin \/ ShutdownEnd \/ Crash \/ Restart
  <2>1. ASSUME DropStreams
        PROVE  /\ spc' \in [Clients -> StreamPc] /\ sq' \in [Clients -> Seq(LiveEvents)]
               /\ \A c \in Clients : Len(sq'[c]) <= SubMax
    BY <2>1 DEF DropStreams, StreamPc
  <2>2. ASSUME LoseMemory
        PROVE  /\ queue' \in Seq(Jobs) /\ Len(queue') <= QueueMax
               /\ wpc' \in WorkerPc /\ wjob' \in Jobs \union {NoJob} /\ wres' \in Results
               /\ rpc' \in [Reqs -> ReqPc]
    <3>1. wpc' \in WorkerPc /\ wjob' \in Jobs \union {NoJob} /\ wres' \in Results
      BY <2>2 DEF LoseMemory, WorkerPc, NoResult, Results, Errors
    <3>2. rpc' \in [Reqs -> ReqPc]
      BY <2>2 DEF LoseMemory, ReqPc, ReqFree, Answers
    <3>3. QED
      BY <2>2, <3>1, <3>2 DEF LoseMemory
  <2>3. CASE ShutdownBegin
    BY <2>1, <2>3 DEF ShutdownBegin, DropStreams
  <2>4. CASE ShutdownEnd
    BY <2>2, <2>4 DEF ShutdownEnd, LoseMemory
  <2>5. CASE Crash
    BY <2>1, <2>2, <2>5 DEF Crash, DropStreams, LoseMemory
  <2>6. CASE Restart
    BY <2>6 DEF Restart
  <2>7. QED
    BY <1>9, <2>3, <2>4, <2>5, <2>6
<1>10. CASE UNCHANGED vars
  BY <1>10 DEF vars
<1>11. QED
  BY <1>1, <1>2, <1>3, <1>4, <1>5, <1>6, <1>7, <1>8, <1>9, <1>10 DEF Next

(* In every state each variable has its type, the submission queue holds   *)
(* at most QueueMax jobs (put_nowait refuses the next one) and a           *)
(* subscriber's queue at most SubMax events.                               *)
THEOREM TypeCorrect == Spec => []TypeOK
  BY TypeInit, TypeStep, PTL DEF Spec

-----------------------------------------------------------------------------
(* How the set of queued ids changes *)

(* enqueue adds the fresh id. *)
LEMMA QueuedAppend ==
  ASSUME TypeOK, NEW j \in Jobs, queue' = Append(queue, j)
  PROVE  Queued' = Queued \union {j}
<1>1. queue \in Seq(Jobs)
  BY DEF TypeOK
<1>2. {Append(queue, j)[i] : i \in DOMAIN Append(queue, j)} = Queued \union {j}
  BY <1>1, AppendElements DEF Queued
<1>3. QED
  BY <1>2 DEF Queued

(* The worker takes the head, which was queued; nothing is added. *)
LEMMA QueuedTail ==
  ASSUME TypeOK, queue # << >>, queue' = Tail(queue)
  PROVE  Queued' \subseteq Queued /\ Head(queue) \in Queued
<1>1. queue \in Seq(Jobs)
  BY DEF TypeOK
<1>2. /\ {Tail(queue)[i] : i \in DOMAIN Tail(queue)} \subseteq {queue[i] : i \in DOMAIN queue}
      /\ Head(queue) \in {queue[i] : i \in DOMAIN queue}
  BY ONLY <1>1, TailElements, queue # << >>
<1>3. QED
  BY <1>2 DEF Queued

LEMMA QueuedAreJobs == TypeOK => Queued \subseteq Jobs /\ NoJob \notin Jobs
<1>1. TypeOK => \A i \in DOMAIN queue : queue[i] \in Jobs
  BY DEF TypeOK
<1>2. QED
  BY <1>1, BoundsAssumption DEF Queued, Jobs, NoJob

(* A fresh id is unused everywhere. *)
LEMMA FreshId ==
  ASSUME IInv, NEW v, AllocateJob(v)
  PROVE  /\ lastJob + 1 \in Jobs /\ lastJob' = lastJob + 1
         /\ status[lastJob + 1] = "absent"
         /\ lastJob + 1 \notin Queued /\ wjob # lastJob + 1
         /\ \A r \in Reqs : rpc[r] \in Committing => rrec[r] # lastJob + 1
<1>1. lastJob + 1 \in Jobs /\ lastJob' = lastJob + 1 /\ lastJob \in Nat
  BY BoundsAssumption DEF AllocateJob, Jobs, IInv, TypeOK
<1>2. lastJob + 1 \notin Queued /\ wjob # lastJob + 1
  BY <1>1 DEF IInv, FreshInv
<1>3. \A r \in Reqs : rpc[r] \in Committing => rrec[r] # lastJob + 1
  BY <1>1 DEF IInv, ReqInv
<1>4. QED
  BY <1>1, <1>2, <1>3 DEF IInv, FreshInv

-----------------------------------------------------------------------------
(* The conjuncts of IInv, one lemma each *)

LEMMA SubmittedOnceStep == IInv /\ [Next]_vars => SubmittedOnce'
<1> SUFFICES ASSUME IInv, [Next]_vars PROVE SubmittedOnce'
  OBVIOUS
<1> USE DEF dbVars, workerVars, reqVars, sseVars, envVars
<1>1. ASSUME UNCHANGED <<queue, wjob>> PROVE SubmittedOnce'
  BY <1>1 DEF IInv, SubmittedOnce, Queued
<1>2. ASSUME UNCHANGED queue, wjob' = NoJob PROVE SubmittedOnce'
  BY <1>2, QueuedAreJobs DEF IInv, SubmittedOnce, Queued
<1>3. ASSUME queue' = << >>, wjob' = NoJob PROVE SubmittedOnce'
  BY <1>3 DEF SubmittedOnce, Queued
<1>4. ASSUME NEW v, AllocateJob(v), queue' = Append(queue, lastJob + 1), UNCHANGED wjob
      PROVE  SubmittedOnce'
  <2>1. lastJob + 1 \in Jobs /\ lastJob + 1 \notin Queued /\ wjob # lastJob + 1
    BY <1>4, FreshId
  <2>2. wjob' \notin Queued'
    BY <1>4, <2>1, QueuedAppend DEF IInv, SubmittedOnce
  <2>3. ASSUME NEW i \in DOMAIN queue', NEW k \in DOMAIN queue', queue'[i] = queue'[k]
        PROVE  i = k
    BY <1>4, <2>1, <2>3 DEF IInv, SubmittedOnce, Queued, TypeOK
  <2>4. QED
    BY <2>2, <2>3 DEF SubmittedOnce
<1>5. CASE WorkerGet
  <2>1. queue # << >> /\ queue' = Tail(queue) /\ wjob' = Head(queue) /\ queue \in Seq(Jobs)
    BY <1>5 DEF WorkerGet, IInv, TypeOK
  <2>2. \A i, k \in DOMAIN queue : queue[i] = queue[k] => i = k
    BY DEF IInv, SubmittedOnce
  <2>3. /\ \A i \in DOMAIN queue' : /\ i \in Nat \ {0} /\ i + 1 \in DOMAIN queue
                                    /\ queue'[i] = queue[i + 1]
        /\ 1 \in DOMAIN queue /\ wjob' = queue[1]
    BY <2>1
  <2>4. \A i, k \in DOMAIN queue' : queue'[i] = queue'[k] => i = k
    BY <2>2, <2>3
  <2>5. wjob' \notin Queued'
    BY <2>2, <2>3 DEF Queued
  <2>6. QED
    BY <2>4, <2>5 DEF SubmittedOnce
<1>6. ASSUME NEW r \in Reqs, NEW v \in Videos, PostReuse(r, v) \/ PostCheck(r, v)
      PROVE  SubmittedOnce'
  BY <1>1, <1>6 DEF PostReuse, PostCheck
<1>7. ASSUME NEW r \in Reqs, NEW j \in Jobs, RetryCheck(r, j) PROVE SubmittedOnce'
  BY <1>1, <1>7 DEF RetryCheck
<1>8. ASSUME NEW r \in Reqs, ReqStep(r) \/ ReqFault(r) PROVE SubmittedOnce'
  BY <1>1, <1>4, <1>8 DEF ReqStep, ReqFault, PostEnqueue, PostQueueFull, PostCommit, CommitRow, RetryCreate,
     RetryCommit, RetryEnqueue, RetryQueueFull
<1>9. CASE WorkerStep \/ WorkerFault
  BY <1>1, <1>2, <1>5, <1>9 DEF WorkerStep, WorkerFault, WorkerMarkStarted, WorkerNotFound,
     WorkerCommitStarted, WorkerPipeline, WorkerFinish, WorkerAnnounce
<1>10. ASSUME NEW c \in Clients, NEW j \in Jobs, Subscribe(c, j) PROVE SubmittedOnce'
  BY <1>1, <1>10 DEF Subscribe
<1>11. ASSUME NEW c \in Clients, StreamStep(c) \/ Disconnect(c) PROVE SubmittedOnce'
  BY <1>1, <1>11 DEF StreamStep, SnapshotMissing, SnapshotFinished, SnapshotActive,
     DeliverStarted, DeliverTerminal, Disconnect
<1>12. CASE ShutdownBegin \/ ShutdownEnd \/ Crash \/ Restart \/ UNCHANGED vars
  BY <1>1, <1>3, <1>12 DEF ShutdownBegin, ShutdownEnd, Crash, Restart, LoseMemory, vars
<1>13. QED
  BY <1>6, <1>7, <1>8, <1>9, <1>10, <1>11, <1>12 DEF Next

LEMMA WorkerInvStep == IInv /\ [Next]_vars => WorkerInv'
<1> SUFFICES ASSUME IInv, [Next]_vars PROVE WorkerInv'
  OBVIOUS
<1> USE DEF dbVars, workerVars, reqVars, sseVars, envVars, NoJob
<1>1. ASSUME UNCHANGED <<status, wpc, wjob, wres>> PROVE WorkerInv'
  BY <1>1 DEF IInv, WorkerInv
<1>2. ASSUME UNCHANGED status, wpc' = "idle", wjob' = NoJob PROVE WorkerInv'
  BY <1>2 DEF WorkerInv
<1>3. ASSUME NEW r \in Reqs, rpc[r] \in Committing, UNCHANGED <<wpc, wjob, wres>>,
             status' = [status EXCEPT ![rrec[r]] = "queued"]
      PROVE  WorkerInv'
  <2>1. /\ rrec[r] \in Jobs /\ status[rrec[r]] = "absent"
        /\ status'[rrec[r]] = "queued"
        /\ \A j \in Jobs : j # rrec[r] => status'[j] = status[j]
    BY <1>3 DEF IInv, ReqInv, TypeOK
  <2>2. CASE wjob = rrec[r]
    BY <1>3, <2>1, <2>2, FinalStatusTerminal DEF IInv, TypeOK, WorkerInv, WorkerPc, NotBegun, Terminal
  <2>3. CASE wjob # rrec[r] /\ wjob # NoJob
    BY <1>3, <2>1, <2>3 DEF IInv, TypeOK, WorkerInv
  <2>4. CASE wjob = NoJob
    BY <1>3, <2>4 DEF IInv, WorkerInv
  <2>5. QED
    BY <2>2, <2>3, <2>4
<1>4. CASE WorkerGet
  <2>1. Head(queue) \in Queued /\ Head(queue) \in Jobs
    BY <1>4, QueuedTail, QueuedAreJobs DEF WorkerGet, IInv
  <2>2. status[Head(queue)] \in NotBegun /\ Head(queue) # NoJob
    BY <2>1, QueuedAreJobs DEF IInv, FreshInv
  <2>3. QED
    BY <1>4, <2>2 DEF WorkerGet, WorkerInv
<1>5. ASSUME wpc # "idle" PROVE wjob \in Jobs /\ wjob # NoJob
  BY <1>5 DEF IInv, WorkerInv, TypeOK
<1>6. CASE WorkerMarkStarted
  BY <1>5, <1>6 DEF WorkerMarkStarted, IInv, WorkerInv, NotBegun
<1>7. CASE WorkerCommitStarted
  BY <1>5, <1>7 DEF WorkerCommitStarted, IInv, WorkerInv, TypeOK
<1>8. ASSUME NEW res \in Outcomes, WorkerPipeline(res) PROVE WorkerInv'
  BY <1>5, <1>8 DEF WorkerPipeline, IInv, WorkerInv
<1>9. CASE WorkerFinish
  BY <1>5, <1>9 DEF WorkerFinish, IInv, WorkerInv, TypeOK
<1>10. CASE WorkerNotFound \/ WorkerAnnounce \/ WorkerFault
  BY <1>2, <1>10 DEF WorkerNotFound, WorkerAnnounce, WorkerFault
<1>11. ASSUME NEW r \in Reqs, NEW v \in Videos, PostReuse(r, v) \/ PostCheck(r, v)
      PROVE  WorkerInv'
  BY <1>1, <1>11 DEF PostReuse, PostCheck
<1>12. ASSUME NEW r \in Reqs, NEW j \in Jobs, RetryCheck(r, j) PROVE WorkerInv'
  BY <1>1, <1>12 DEF RetryCheck
<1>13. ASSUME NEW r \in Reqs, ReqStep(r) \/ ReqFault(r) PROVE WorkerInv'
  <2>1. CASE PostCommit(r) \/ RetryCommit(r)
    BY <1>3, <2>1 DEF PostCommit, CommitRow, RetryCommit, Committing
  <2>2. QED
    BY <1>1, <1>13, <2>1 DEF ReqStep, ReqFault, PostEnqueue, PostQueueFull, RetryCreate,
       RetryEnqueue, RetryQueueFull
<1>14. ASSUME NEW c \in Clients, NEW j \in Jobs, Subscribe(c, j) PROVE WorkerInv'
  BY <1>1, <1>14 DEF Subscribe
<1>15. ASSUME NEW c \in Clients, StreamStep(c) \/ Disconnect(c) PROVE WorkerInv'
  BY <1>1, <1>15 DEF StreamStep, SnapshotMissing, SnapshotFinished, SnapshotActive,
     DeliverStarted, DeliverTerminal, Disconnect
<1>16. CASE ShutdownBegin \/ ShutdownEnd \/ Crash \/ Restart \/ UNCHANGED vars
  BY <1>1, <1>2, <1>16 DEF ShutdownBegin, ShutdownEnd, Crash, Restart, LoseMemory, vars
<1>17. QED
  BY <1>4, <1>6, <1>7, <1>8, <1>9, <1>10, <1>11, <1>12, <1>13, <1>14, <1>15, <1>16
     DEF Next, WorkerStep

LEMMA FreshInvStep == IInv /\ [Next]_vars => FreshInv'
<1> SUFFICES ASSUME IInv, [Next]_vars PROVE FreshInv'
  OBVIOUS
<1> USE DEF dbVars, workerVars, reqVars, sseVars, envVars, NoJob
<1>1. lastJob \in Nat
  BY BoundsAssumption DEF IInv, TypeOK
<1>2. ASSUME UNCHANGED <<status, lastJob>>, Queued' \subseteq Queued,
             wjob' = wjob \/ wjob' = NoJob \/ wjob' \in Queued
      PROVE  FreshInv'
  BY <1>1, <1>2 DEF IInv, FreshInv
<1>3. ASSUME NEW v, AllocateJob(v), UNCHANGED <<status, wjob>>,
             queue' = queue \/ queue' = Append(queue, lastJob + 1)
      PROVE  FreshInv'
  <2>1. /\ lastJob + 1 \in Jobs /\ lastJob' = lastJob + 1 /\ status[lastJob + 1] = "absent"
        /\ Queued' \subseteq Queued \union {lastJob + 1}
    BY <1>3, FreshId, QueuedAppend DEF Queued, IInv
  <2>2. \A j \in Queued : j \in Jobs /\ j \in Nat
    BY QueuedAreJobs DEF IInv, Jobs
  <2>3. wjob \in Nat
    BY DEF IInv, TypeOK, Jobs
  <2>4. QED
    BY <1>1, <1>3, <2>1, <2>2, <2>3 DEF IInv, FreshInv, NotBegun, Jobs
<1>4. ASSUME NEW j \in Jobs, NEW s \in Status, status' = [status EXCEPT ![j] = s],
             UNCHANGED <<lastJob, queue, wjob>>, j <= lastJob,
             s \in NotBegun \/ j \notin Queued
      PROVE  FreshInv'
  <2>1. \A k \in Jobs : status'[k] = IF k = j THEN s ELSE status[k]
    BY <1>4 DEF IInv, TypeOK
  <2>2. Queued' = Queued /\ Queued \subseteq Jobs
    BY <1>4, QueuedAreJobs DEF Queued, IInv
  <2>3. \A k \in Jobs : k \in Nat
    BY DEF Jobs
  <2>4. QED
    BY <1>1, <1>4, <2>1, <2>2, <2>3 DEF IInv, FreshInv
<1>5. ASSUME UNCHANGED queue PROVE Queued' = Queued
  BY <1>5 DEF Queued
<1>6. ASSUME NEW r \in Reqs, NEW v \in Videos, PostReuse(r, v) \/ PostCheck(r, v)
      PROVE  FreshInv'
  BY <1>2, <1>5, <1>6 DEF PostReuse, PostCheck
<1>7. ASSUME NEW r \in Reqs, NEW j \in Jobs, RetryCheck(r, j) PROVE FreshInv'
  BY <1>2, <1>5, <1>7 DEF RetryCheck
<1>8. ASSUME NEW r \in Reqs, ReqStep(r) \/ ReqFault(r) PROVE FreshInv'
  <2>1. CASE PostCommit(r) \/ RetryCommit(r)
    <3>1. rrec[r] \in Jobs /\ rrec[r] <= lastJob
      BY <2>1 DEF PostCommit, CommitRow, RetryCommit, Committing, IInv, ReqInv
    <3>2. "queued" \in NotBegun /\ "queued" \in Status
      BY DEF NotBegun, Status, Active
    <3>3. QED
      BY <1>4, <2>1, <3>1, <3>2 DEF PostCommit, CommitRow, RetryCommit
  <2>2. CASE PostEnqueue(r) \/ PostQueueFull(r) \/ RetryCreate(r) \/ RetryEnqueue(r)
             \/ RetryQueueFull(r)
    BY <1>3, <2>2 DEF PostEnqueue, PostQueueFull, RetryCreate, RetryEnqueue, RetryQueueFull
  <2>3. CASE ReqFault(r)
    BY <1>2, <1>5, <2>3 DEF ReqFault
  <2>4. QED
    BY <1>8, <2>1, <2>2, <2>3 DEF ReqStep
<1>9. CASE WorkerStep \/ WorkerFault
  <2>1. CASE WorkerGet
    BY <1>2, <2>1, QueuedTail DEF WorkerGet, IInv
  <2>2. ASSUME wpc # "idle" PROVE wjob \in Jobs /\ wjob <= lastJob /\ wjob \notin Queued
    BY <2>2 DEF IInv, TypeOK, WorkerInv, FreshInv, SubmittedOnce
  <2>3. CASE WorkerCommitStarted
    <3>1. "running" \in Status
      BY DEF Status, Active
    <3>2. QED
      BY <1>4, <2>2, <2>3, <3>1 DEF WorkerCommitStarted
  <2>4. CASE WorkerFinish
    <3>1. FinalStatus(wres) \in Status
      BY FinalStatusTerminal DEF IInv, TypeOK, Status
    <3>2. QED
      BY <1>4, <2>2, <2>4, <3>1 DEF WorkerFinish
  <2>5. QED
    BY <1>2, <1>5, <1>9, <2>1, <2>3, <2>4 DEF WorkerStep, WorkerFault, WorkerMarkStarted,
       WorkerNotFound, WorkerPipeline, WorkerAnnounce
<1>10. ASSUME NEW c \in Clients, NEW j \in Jobs, Subscribe(c, j) PROVE FreshInv'
  BY <1>2, <1>5, <1>10 DEF Subscribe
<1>11. ASSUME NEW c \in Clients, StreamStep(c) \/ Disconnect(c) PROVE FreshInv'
  BY <1>2, <1>5, <1>11 DEF StreamStep, SnapshotMissing, SnapshotFinished, SnapshotActive,
     DeliverStarted, DeliverTerminal, Disconnect
<1>12. CASE ShutdownBegin \/ ShutdownEnd \/ Crash \/ Restart \/ UNCHANGED vars
  <2>1. ASSUME queue' = << >> PROVE Queued' \subseteq Queued
    BY <2>1 DEF Queued
  <2>2. QED
    BY <1>2, <1>5, <1>12, <2>1 DEF ShutdownBegin, ShutdownEnd, Crash, Restart, LoseMemory, vars
<1>13. QED
  BY <1>6, <1>7, <1>8, <1>9, <1>10, <1>11, <1>12 DEF Next

LEMMA ReqInvStep == IInv /\ [Next]_vars => ReqInv'
<1> SUFFICES ASSUME IInv, [Next]_vars PROVE ReqInv'
  OBVIOUS
<1> USE DEF dbVars, workerVars, reqVars, sseVars, envVars, NoJob
<1>1. lastJob \in Nat /\ rpc \in [Reqs -> ReqPc] /\ rrec \in [Reqs -> Jobs \union {NoJob}]
  BY BoundsAssumption DEF IInv, TypeOK
(* No handler starts to commit and no row changes. *)
<1>2. ASSUME UNCHANGED status, lastJob' = lastJob \/ lastJob' = lastJob + 1,
             \A q \in Reqs : rpc'[q] \in Committing => rpc[q] \in Committing /\ rrec'[q] = rrec[q]
      PROVE  ReqInv'
  <2>1. \A q \in Reqs : rpc[q] \in Committing => rrec[q] \in Nat
    BY DEF IInv, ReqInv, Jobs
  <2>2. QED
    BY <1>1, <1>2, <2>1 DEF IInv, ReqInv
(* A handler takes a fresh id and is about to commit it. *)
<1>3. ASSUME NEW r \in Reqs, NEW pc \in Committing, AllocateJob(rvid[r]), UNCHANGED status,
             rpc' = [rpc EXCEPT ![r] = pc], rrec' = [rrec EXCEPT ![r] = lastJob + 1]
      PROVE  ReqInv'
  <2>1. /\ lastJob + 1 \in Jobs /\ lastJob' = lastJob + 1 /\ status[lastJob + 1] = "absent"
        /\ \A q \in Reqs : rpc[q] \in Committing => rrec[q] # lastJob + 1
    BY <1>3, FreshId
  <2>2. \A q \in Reqs : rpc[q] \in Committing => rrec[q] \in Nat
    BY DEF IInv, ReqInv, Jobs
  <2>3. \A q \in Reqs : /\ rpc'[q] = IF q = r THEN pc ELSE rpc[q]
                        /\ rrec'[q] = IF q = r THEN lastJob + 1 ELSE rrec[q]
    BY <1>1, <1>3
  <2>4. QED
    BY <1>1, <1>3, <2>1, <2>2, <2>3 DEF IInv, ReqInv
(* The worker writes its row, which is not absent. *)
<1>4. ASSUME NEW s, status' = [status EXCEPT ![wjob] = s], wjob \in Jobs, status[wjob] # "absent",
             UNCHANGED <<rpc, rrec, lastJob>>
      PROVE  ReqInv'
  <2>1. \A j \in Jobs : j # wjob => status'[j] = status[j]
    BY <1>4 DEF IInv, TypeOK
  <2>2. QED
    BY <1>4, <2>1 DEF IInv, ReqInv
<1>5. ASSUME NEW r \in Reqs, PostCommit(r) \/ RetryCommit(r) PROVE ReqInv'
  <2>1. /\ rpc[r] \in Committing
        /\ \A q \in Reqs : rpc'[q] \in Committing => q # r /\ rpc[q] \in Committing
        /\ UNCHANGED <<rrec, lastJob>>
    BY <1>1, <1>5 DEF PostCommit, CommitRow, RetryCommit, Committing
  <2>2. \A j \in Jobs : j # rrec[r] => status'[j] = status[j]
    BY <1>5 DEF PostCommit, CommitRow, RetryCommit, IInv, TypeOK
  <2>3. QED
    BY <2>1, <2>2 DEF IInv, ReqInv
<1>6. ASSUME NEW r \in Reqs, NEW v \in Videos, PostReuse(r, v) \/ PostCheck(r, v)
      PROVE  ReqInv'
  BY <1>1, <1>2, <1>6 DEF PostReuse, PostCheck, Committing
<1>7. ASSUME NEW r \in Reqs, NEW j \in Jobs, RetryCheck(r, j) PROVE ReqInv'
  BY <1>1, <1>2, <1>7 DEF RetryCheck, Committing
<1>8. ASSUME NEW r \in Reqs, ReqStep(r) \/ ReqFault(r) PROVE ReqInv'
  <2>1. CASE PostEnqueue(r) \/ RetryCreate(r)
    BY <1>3, <2>1 DEF PostEnqueue, RetryCreate, Committing
  <2>2. CASE PostQueueFull(r) \/ RetryEnqueue(r) \/ RetryQueueFull(r)
    BY <1>1, <1>2, <2>2 DEF PostQueueFull, RetryEnqueue, RetryQueueFull, Committing, AllocateJob
  <2>3. CASE ReqFault(r)
    BY <1>1, <1>2, <2>3 DEF ReqFault, Committing
  <2>4. QED
    BY <1>5, <1>8, <2>1, <2>2, <2>3 DEF ReqStep
<1>9. CASE WorkerStep \/ WorkerFault
  <2>1. ASSUME wpc # "idle" PROVE wjob \in Jobs
    BY <2>1 DEF IInv, TypeOK, WorkerInv
  <2>2. CASE WorkerCommitStarted
    BY <1>4, <2>1, <2>2 DEF WorkerCommitStarted, IInv, WorkerInv
  <2>3. CASE WorkerFinish
    BY <1>4, <2>1, <2>3 DEF WorkerFinish, IInv, WorkerInv
  <2>4. QED
    BY <1>2, <1>9, <2>2, <2>3 DEF WorkerStep, WorkerFault, WorkerGet, WorkerMarkStarted,
       WorkerNotFound, WorkerPipeline, WorkerAnnounce
<1>10. ASSUME NEW c \in Clients, NEW j \in Jobs, Subscribe(c, j) PROVE ReqInv'
  BY <1>2, <1>10 DEF Subscribe
<1>11. ASSUME NEW c \in Clients, StreamStep(c) \/ Disconnect(c) PROVE ReqInv'
  BY <1>2, <1>11 DEF StreamStep, SnapshotMissing, SnapshotFinished, SnapshotActive,
     DeliverStarted, DeliverTerminal, Disconnect
<1>12. CASE ShutdownBegin \/ ShutdownEnd \/ Crash \/ Restart \/ UNCHANGED vars
  <2>1. ASSUME LoseMemory PROVE \A q \in Reqs : rpc'[q] \notin Committing
    BY <2>1 DEF LoseMemory, ReqFree, Answers, Committing
  <2>2. CASE ShutdownEnd \/ Crash
    BY <2>1, <2>2 DEF ShutdownEnd, Crash, ReqInv
  <2>3. QED
    BY <1>2, <1>12, <2>2 DEF ShutdownBegin, Restart, vars
<1>13. QED
  BY <1>6, <1>7, <1>8, <1>9, <1>10, <1>11, <1>12 DEF Next

(* An open stream keeps StreamOK when neither it nor the stage of its job  *)
(* changes.                                                                *)
LEMMA StreamUndisturbed ==
  ASSUME NEW c \in Clients, NEW j \in Jobs, StreamOK(c, j),
         sq'[c] = sq[c], spc'[c] = spc[c], status'[j] = status[j],
         Unbegun(j)' => Unbegun(j), Unannounced(j)' = Unannounced(j)
  PROVE  StreamOK(c, j)'
  BY DEF StreamOK

LEMMA StreamInvStep == IInv /\ [Next]_vars => StreamInv'
<1> SUFFICES ASSUME IInv, [Next]_vars PROVE StreamInv'
  OBVIOUS
<1> USE DEF dbVars, workerVars, reqVars, sseVars, envVars, NoJob
<1>1. /\ \A c \in Clients : spc[c] # "closed" => sjob[c] \in Jobs /\ StreamOK(c, sjob[c])
      /\ lastJob \in Nat /\ Jobs \subseteq Nat /\ wjob \in Nat /\ Queued \subseteq Jobs
      /\ wpc # "idle" => wjob \in Jobs
  BY BoundsAssumption, QueuedAreJobs DEF IInv, TypeOK, StreamInv, WorkerInv, Jobs
(* Steps that leave the streams and every row alone. *)
<1>2. ASSUME UNCHANGED <<spc, sjob, sq, status>>, lastJob' >= lastJob,
             \A j \in Jobs : Unbegun(j)' => Unbegun(j),
             \A j \in Jobs : Unannounced(j)' = Unannounced(j)
      PROVE  StreamInv'
  BY <1>1, <1>2, StreamUndisturbed DEF StreamInv
<1>3. ASSUME UNCHANGED <<spc, sjob, sq, status, lastJob, queue, wpc, wjob>> PROVE StreamInv'
  <2>1. \A j \in Jobs : Unbegun(j)' = Unbegun(j) /\ Unannounced(j)' = Unannounced(j)
    BY <1>3 DEF Unbegun, Unannounced, Queued
  <2>2. lastJob' >= lastJob
    BY <1>1, <1>3
  <2>3. /\ \A j \in Jobs : Unbegun(j)' => Unbegun(j)
        /\ \A j \in Jobs : Unannounced(j)' = Unannounced(j)
    BY ONLY <2>1
  <2>4. UNCHANGED <<spc, sjob, sq, status>>
    BY <1>3
  <2>5. QED
    BY ONLY <1>2, <2>2, <2>3, <2>4
(* A handler allocates an id and may queue it. *)
<1>4. ASSUME NEW v, AllocateJob(v), UNCHANGED <<spc, sjob, sq, status, wpc, wjob>>,
             queue' = queue \/ queue' = Append(queue, lastJob + 1)
      PROVE  StreamInv'
  <2>1. lastJob + 1 \in Jobs /\ lastJob' = lastJob + 1
    BY <1>4, FreshId
  <2>2. Queued' \subseteq Queued \union {lastJob + 1}
    BY <1>4, <2>1, QueuedAppend DEF Queued, IInv
  <2>3. \A j \in Jobs : Unbegun(j)' => Unbegun(j)
    <3>1. SUFFICES ASSUME NEW j \in Jobs, Unbegun(j)' PROVE Unbegun(j)
      OBVIOUS
    <3>2. lastJob \in Nat /\ j \in Nat /\ lastJob' = lastJob + 1
      BY <1>1, <2>1
    <3>3. j > lastJob' => j > lastJob
      BY <3>2
    <3>4. j \in Queued' => j \in Queued \/ j > lastJob
      BY <2>2, <3>2
    <3>5. QED
      BY <1>4, <3>1, <3>3, <3>4 DEF Unbegun
  <2>4. \A j \in Jobs : Unannounced(j)' = Unannounced(j)
    BY <1>4 DEF Unannounced
  <2>5. lastJob' >= lastJob
    BY <1>1, <2>1
  <2>6. UNCHANGED <<spc, sjob, sq, status>>
    BY <1>4
  <2>7. QED
    BY ONLY <1>2, <2>3, <2>4, <2>5, <2>6
(* One row changes from one status that is not terminal to another. *)
<1>5. ASSUME NEW k \in Jobs, NEW s, status' = [status EXCEPT ![k] = s],
             status[k] \notin Terminal, s \notin Terminal,
             UNCHANGED <<spc, sjob, sq, lastJob, queue>>,
             \A j \in Jobs : Unbegun(j)' => Unbegun(j),
             \A j \in Jobs : Unannounced(j)' = Unannounced(j)
      PROVE  StreamInv'
  <2>1. \A j \in Jobs : status'[j] = IF j = k THEN s ELSE status[j]
    BY <1>5 DEF IInv, TypeOK
  <2>2. SUFFICES ASSUME NEW c \in Clients, spc'[c] # "closed"
                 PROVE  sjob'[c] \in Jobs /\ StreamOK(c, sjob[c])'
    BY <1>5 DEF StreamInv, StreamOK
  <2>3. sjob[c] \in Jobs /\ StreamOK(c, sjob[c])
    BY <1>1, <1>5, <2>2
  <2>4. QED
    BY <1>5, <2>1, <2>3 DEF StreamOK
<1>6. ASSUME NEW r \in Reqs, NEW v \in Videos, PostReuse(r, v) \/ PostCheck(r, v)
      PROVE  StreamInv'
  BY <1>3, <1>6 DEF PostReuse, PostCheck
<1>7. ASSUME NEW r \in Reqs, NEW j \in Jobs, RetryCheck(r, j) PROVE StreamInv'
  BY <1>3, <1>7 DEF RetryCheck
<1>8. ASSUME NEW r \in Reqs, ReqStep(r) \/ ReqFault(r) PROVE StreamInv'
  <2>1. CASE PostCommit(r) \/ RetryCommit(r)
    <3>1. rrec[r] \in Jobs /\ status[rrec[r]] \notin Terminal /\ "queued" \notin Terminal
      BY <2>1 DEF PostCommit, CommitRow, RetryCommit, Committing, IInv, ReqInv, Terminal
    <3>2. \A j \in Jobs : Unbegun(j)' = Unbegun(j) /\ Unannounced(j)' = Unannounced(j)
      BY <2>1 DEF PostCommit, CommitRow, RetryCommit, Unbegun, Unannounced, Queued
    <3>3. QED
      BY <1>5, <2>1, <3>1, <3>2 DEF PostCommit, CommitRow, RetryCommit
  <2>2. CASE PostEnqueue(r) \/ PostQueueFull(r) \/ RetryCreate(r) \/ RetryEnqueue(r)
             \/ RetryQueueFull(r)
    BY <1>4, <2>2 DEF PostEnqueue, PostQueueFull, RetryCreate, RetryEnqueue, RetryQueueFull
  <2>3. CASE ReqFault(r)
    BY <1>3, <2>3 DEF ReqFault
  <2>4. QED
    BY <1>8, <2>1, <2>2, <2>3 DEF ReqStep
<1>9. CASE WorkerGet
  <2>1. Queued' \subseteq Queued /\ Head(queue) \in Queued
    BY <1>9, QueuedTail DEF WorkerGet, IInv
  <2>2. \A j \in Jobs : (Unbegun(j)' => Unbegun(j)) /\ Unannounced(j)' = Unannounced(j)
    BY <1>9, <2>1 DEF WorkerGet, Unbegun, Unannounced
  <2>3. QED
    BY <1>1, <1>2, <1>9, <2>2 DEF WorkerGet
(* "started" is broadcast once, to queues that are still empty. *)
<1>10. CASE WorkerMarkStarted
  <2>1. /\ wjob \in Jobs /\ status[wjob] \notin Terminal /\ wjob \notin Queued
        /\ wjob <= lastJob /\ Unbegun(wjob)
    BY <1>1, <1>10 DEF WorkerMarkStarted, IInv, WorkerInv, NotBegun, Terminal, FreshInv,
                       SubmittedOnce, Unbegun
  <2>2. SUFFICES ASSUME NEW c \in Clients, spc[c] # "closed"
                 PROVE  StreamOK(c, sjob[c])'
    BY <1>1, <1>10 DEF WorkerMarkStarted, StreamInv, StreamOK
  <2>3. sjob[c] \in Jobs /\ StreamOK(c, sjob[c])
    BY <1>1, <2>2
  <2>4. CASE sjob[c] = wjob
    <3>1. sq[c] = << >> /\ sq'[c] = <<"started">>
      BY <1>10, <2>1, <2>2, <2>3, <2>4, SubMaxAssumption
         DEF WorkerMarkStarted, Broadcast, Subscribers, StreamOK, IInv, TypeOK
    <3>2. ~Unbegun(wjob)'
      BY <1>1, <1>10, <2>1 DEF WorkerMarkStarted, Unbegun, Queued
    <3>3. QED
      BY <1>10, <2>1, <2>4, <3>1, <3>2 DEF WorkerMarkStarted, StreamOK, BeforeTerminal
  <2>5. CASE sjob[c] # wjob
    <3>1. sq'[c] = sq[c]
      BY <1>10, <2>2, <2>5 DEF WorkerMarkStarted, Broadcast, Subscribers, IInv, TypeOK
    <3>2. (Unbegun(sjob[c])' => Unbegun(sjob[c])) /\ Unannounced(sjob[c])' = Unannounced(sjob[c])
      BY <1>10, <2>5 DEF WorkerMarkStarted, Unbegun, Unannounced, Queued
    <3>3. StreamOK(c, sjob[c])'
      BY <1>10, <2>3, <3>1, <3>2 DEF WorkerMarkStarted, StreamOK
    <3>4. QED
      BY <3>3
  <2>6. QED
    BY <2>4, <2>5
<1>11. CASE WorkerCommitStarted
  <2>1. /\ wjob \in Jobs /\ status[wjob] \notin Terminal /\ "running" \notin Terminal
    BY <1>1, <1>11 DEF WorkerCommitStarted, IInv, WorkerInv, Terminal
  <2>2. \A j \in Jobs : (Unbegun(j)' => Unbegun(j)) /\ Unannounced(j)' = Unannounced(j)
    BY <1>11 DEF WorkerCommitStarted, Unbegun, Unannounced, Queued
  <2>3. QED
    BY <1>5, <1>11, <2>1, <2>2 DEF WorkerCommitStarted
<1>12. ASSUME NEW res \in Outcomes, WorkerPipeline(res) PROVE StreamInv'
  <2>1. \A j \in Jobs : (Unbegun(j)' => Unbegun(j)) /\ Unannounced(j)' = Unannounced(j)
    BY <1>12 DEF WorkerPipeline, Unbegun, Unannounced, Queued
  <2>2. QED
    BY <1>1, <1>2, <1>12, <2>1 DEF WorkerPipeline
(* The row becomes terminal; the announcement is still to come. *)
<1>13. CASE WorkerFinish
  <2>1. wjob \in Jobs /\ status[wjob] \notin Terminal /\ wjob \notin Queued /\ wjob <= lastJob
    BY <1>1, <1>13 DEF WorkerFinish, IInv, WorkerInv, Terminal, FreshInv, SubmittedOnce
  <2>2. \A j \in Jobs : /\ j # wjob => status'[j] = status[j]
                        /\ Unbegun(j)' => Unbegun(j)
                        /\ Unannounced(j)' = (j = wjob)
                        /\ ~Unannounced(j)
    BY <1>13 DEF WorkerFinish, Unbegun, Unannounced, Queued, IInv, TypeOK
  <2>3. SUFFICES ASSUME NEW c \in Clients, spc[c] # "closed"
                 PROVE  StreamOK(c, sjob[c])'
    BY <1>1, <1>13 DEF WorkerFinish, StreamInv, StreamOK
  <2>4. sjob[c] \in Jobs /\ StreamOK(c, sjob[c])
    BY <1>1, <2>3
  <2>5. QED
    BY <1>13, <2>1, <2>2, <2>4 DEF WorkerFinish, StreamOK
(* The terminal event is appended; there is room for it. *)
<1>14. CASE WorkerAnnounce
  <2>1. /\ wjob \in Jobs /\ status[wjob] = FinalStatus(wres) /\ status[wjob] \in Terminal
        /\ Unannounced(wjob)
    BY <1>1, <1>14, FinalStatusTerminal DEF WorkerAnnounce, IInv, TypeOK, WorkerInv, Unannounced
  <2>2. \A j \in Jobs : /\ Unbegun(j)' => Unbegun(j)
                        /\ ~Unannounced(j)'
                        /\ Unannounced(j) => j = wjob
    BY <1>14 DEF WorkerAnnounce, Unbegun, Unannounced, Queued
  <2>3. SUFFICES ASSUME NEW c \in Clients, spc[c] # "closed"
                 PROVE  StreamOK(c, sjob[c])'
    BY <1>1, <1>14 DEF WorkerAnnounce, StreamInv, StreamOK
  <2>4. sjob[c] \in Jobs /\ StreamOK(c, sjob[c])
    BY <1>1, <2>3
  <2>5. CASE sjob[c] = wjob
    <3>1. sq[c] \in BeforeTerminal /\ Len(sq[c]) < SubMax
      <4>1. sq[c] \in BeforeTerminal
        BY <2>1, <2>4, <2>5 DEF StreamOK
      <4>2. SubMax > 0 /\ SubMax > 1
        BY SubMaxAssumption
      <4>3. CASE sq[c] = << >>
        BY <4>1, <4>2, <4>3
      <4>4. CASE sq[c] = <<"started">>
        BY <4>1, <4>2, <4>4
      <4>5. QED
        BY <4>1, <4>3, <4>4 DEF BeforeTerminal
    <3>2. sq'[c] = Append(sq[c], status[wjob])
      BY <1>14, <2>1, <2>3, <2>5, <3>1 DEF WorkerAnnounce, Broadcast, Subscribers
    <3>3. sq'[c] \in WithTerminal(status[wjob])
      <4>1. CASE sq[c] = << >>
        BY <3>2, <4>1, AppendToShort DEF WithTerminal
      <4>2. CASE sq[c] = <<"started">>
        BY <3>2, <4>2, AppendToShort DEF WithTerminal
      <4>3. QED
        BY <3>1, <4>1, <4>2 DEF BeforeTerminal
    <3>4. ~Unbegun(wjob)
      BY <1>1, <1>14, <2>1 DEF WorkerAnnounce, Unbegun, IInv, FreshInv, SubmittedOnce
    <3>5. QED
      BY <1>14, <2>1, <2>2, <2>5, <3>3, <3>4 DEF WorkerAnnounce, StreamOK
  <2>6. CASE sjob[c] # wjob
    <3>1. sq'[c] = sq[c]
      BY <1>14, <2>3, <2>6 DEF WorkerAnnounce, Broadcast, Subscribers, IInv, TypeOK
    <3>2. QED
      BY <1>14, <2>2, <2>4, <2>6, <3>1 DEF WorkerAnnounce, StreamOK
  <2>7. QED
    BY <2>5, <2>6
<1>15. CASE WorkerNotFound \/ WorkerFault
  <2>1. \A j \in Jobs : (Unbegun(j)' => Unbegun(j)) /\ Unannounced(j)' = Unannounced(j)
    BY <1>1, <1>15 DEF WorkerNotFound, WorkerFault, Unbegun, Unannounced, Queued
  <2>2. UNCHANGED <<spc, sjob, sq, status, lastJob>>
    BY <1>15 DEF WorkerNotFound, WorkerFault
  <2>3. QED
    BY <1>1, <1>2, <2>1, <2>2
<1>16. ASSUME NEW c \in Clients, NEW j \in Jobs, Subscribe(c, j) PROVE StreamInv'
  <2>1. \A k \in Jobs : Unbegun(k)' = Unbegun(k) /\ Unannounced(k)' = Unannounced(k)
    BY <1>16 DEF Subscribe, Unbegun, Unannounced, Queued
  <2>2. SUFFICES ASSUME NEW d \in Clients, spc'[d] # "closed"
                 PROVE  sjob'[d] \in Jobs /\ StreamOK(d, sjob[d])'
    BY DEF StreamInv, StreamOK
  <2>3. CASE d = c
    <3>1. sjob'[d] = j /\ sq'[d] = << >> /\ spc'[d] = "snapshot"
      BY <1>16, <2>3 DEF Subscribe, IInv, TypeOK
    <3>2. QED
      BY <3>1 DEF StreamOK, BeforeTerminal
  <2>4. CASE d # c
    <3>1. sjob'[d] = sjob[d] /\ sq'[d] = sq[d] /\ spc'[d] = spc[d] /\ status' = status
      BY <1>16, <2>4 DEF Subscribe, IInv, TypeOK
    <3>2. sjob[d] \in Jobs /\ StreamOK(d, sjob[d])
      BY <1>1, <2>2, <3>1
    <3>3. QED
      BY <2>1, <3>1, <3>2 DEF StreamOK
  <2>5. QED
    BY <2>3, <2>4
<1>17. ASSUME NEW c \in Clients, StreamStep(c) \/ Disconnect(c) PROVE StreamInv'
  <2>1. UNCHANGED <<status, lastJob, queue, wpc, wjob, sjob>>
    BY <1>17 DEF StreamStep, Disconnect, SnapshotMissing, SnapshotFinished, SnapshotActive,
       DeliverStarted, DeliverTerminal
  <2>2. \A k \in Jobs : Unbegun(k)' = Unbegun(k) /\ Unannounced(k)' = Unannounced(k)
    BY <2>1 DEF Unbegun, Unannounced, Queued
  <2>3. \A d \in Clients : d # c => sq'[d] = sq[d] /\ spc'[d] = spc[d]
    BY <1>17 DEF StreamStep, Disconnect, SnapshotMissing, SnapshotFinished, SnapshotActive,
       DeliverStarted, DeliverTerminal, CloseStream, IInv, TypeOK
  <2>4. SUFFICES ASSUME NEW d \in Clients, spc'[d] # "closed"
                 PROVE  sjob[d] \in Jobs /\ StreamOK(d, sjob[d])'
    BY <2>1 DEF StreamInv, StreamOK
  <2>5. CASE d # c
    <3>1. sjob[d] \in Jobs /\ StreamOK(d, sjob[d])
      BY <1>1, <2>3, <2>4, <2>5
    <3>2. QED
      BY <2>1, <2>2, <2>3, <2>5, <3>1 DEF StreamOK
  <2>6. CASE d = c /\ SnapshotActive(c)
    <3>1. sjob[c] \in Jobs /\ StreamOK(c, sjob[c]) /\ status[sjob[c]] \notin Terminal
      BY <1>1, <2>6 DEF SnapshotActive, Active, Terminal
    <3>2. QED
      BY <2>1, <2>2, <2>6, <3>1 DEF SnapshotActive, StreamOK
  <2>7. CASE d = c /\ DeliverStarted(c)
    <3>1. /\ sjob[c] \in Jobs /\ StreamOK(c, sjob[c])
          /\ sq'[c] = Tail(sq[c]) /\ sq[c] # << >> /\ Head(sq[c]) = "started"
          /\ spc'[c] = spc[c]
      BY <1>1, <2>7 DEF DeliverStarted, IInv, TypeOK
    <3>2. /\ sq[c] \in BeforeTerminal => sq'[c] = << >>
          /\ \A s \in Terminal : sq[c] \in WithTerminal(s) => sq'[c] = <<s>>
      <4>1. /\ Tail(<<"started">>) = << >>
            /\ \A s \in Terminal : /\ Tail(<<"started", s>>) = <<s>>
                                   /\ Head(<<s>>) = s /\ s # "started"
        BY DEF Terminal
      <4>2. QED
        BY <3>1, <4>1 DEF BeforeTerminal, WithTerminal
    <3>3. QED
      BY <2>1, <2>2, <2>7, <3>1, <3>2 DEF StreamOK, BeforeTerminal, WithTerminal
  <2>8. CASE d = c /\ ~SnapshotActive(c) /\ ~DeliverStarted(c)
    BY <1>17, <2>4, <2>8 DEF StreamStep, Disconnect, SnapshotMissing, SnapshotFinished,
       DeliverTerminal, CloseStream, IInv, TypeOK
  <2>9. QED
    BY <2>5, <2>6, <2>7, <2>8
<1>18. CASE ShutdownBegin \/ Crash
  <2>1. \A c \in Clients : spc'[c] = "closed"
    BY <1>18 DEF ShutdownBegin, Crash, DropStreams
  <2>2. QED
    BY <2>1 DEF StreamInv
<1>19. CASE Restart \/ UNCHANGED vars
  BY <1>3, <1>19 DEF Restart, vars
<1>20. CASE ShutdownEnd
  <2>1. \A c \in Clients : spc'[c] = "closed"
    BY <1>20 DEF ShutdownEnd, IInv, StoppedInv
  <2>2. QED
    BY <2>1 DEF StreamInv
<1>21. QED
  BY <1>6, <1>7, <1>8, <1>9, <1>10, <1>11, <1>12, <1>13, <1>14, <1>15, <1>16, <1>17, <1>18,
     <1>19, <1>20 DEF Next, WorkerStep

LEMMA StoppedInvStep == IInv /\ [Next]_vars => StoppedInv'
<1> SUFFICES ASSUME IInv, [Next]_vars PROVE StoppedInv'
  OBVIOUS
<1> USE DEF dbVars, workerVars, reqVars, sseVars, envVars
<1>1. ASSUME server' = server, spc' = spc PROVE StoppedInv'
  BY <1>1 DEF IInv, StoppedInv
<1>2. ASSUME NEW r \in Reqs, NEW v \in Videos, PostReuse(r, v) \/ PostCheck(r, v)
      PROVE  StoppedInv'
  BY <1>1, <1>2 DEF PostReuse, PostCheck
<1>3. ASSUME NEW r \in Reqs, NEW j \in Jobs, RetryCheck(r, j) PROVE StoppedInv'
  BY <1>1, <1>3 DEF RetryCheck
<1>4. ASSUME NEW r \in Reqs, ReqStep(r) \/ ReqFault(r) PROVE StoppedInv'
  BY <1>1, <1>4 DEF ReqStep, ReqFault, PostEnqueue, PostQueueFull, PostCommit, CommitRow, RetryCreate,
     RetryCommit, RetryEnqueue, RetryQueueFull
<1>5. CASE WorkerStep \/ WorkerFault
  BY <1>1, <1>5 DEF WorkerStep, WorkerFault, WorkerGet, WorkerMarkStarted, WorkerNotFound,
     WorkerCommitStarted, WorkerPipeline, WorkerFinish, WorkerAnnounce
<1>6. ASSUME NEW c \in Clients, NEW j \in Jobs, Subscribe(c, j) PROVE StoppedInv'
  BY <1>6 DEF Subscribe, StoppedInv
<1>7. ASSUME NEW c \in Clients, StreamStep(c) \/ Disconnect(c) PROVE StoppedInv'
  BY <1>7 DEF StreamStep, Disconnect, SnapshotMissing, SnapshotFinished, SnapshotActive,
     DeliverStarted, DeliverTerminal, CloseStream, IInv, StoppedInv, TypeOK
<1>8. CASE ShutdownBegin \/ ShutdownEnd \/ Crash \/ Restart \/ UNCHANGED vars
  BY <1>1, <1>8 DEF ShutdownBegin, ShutdownEnd, Crash, Restart, DropStreams, IInv, StoppedInv, vars
<1>9. QED
  BY <1>2, <1>3, <1>4, <1>5, <1>6, <1>7, <1>8 DEF Next

-----------------------------------------------------------------------------
LEMMA InductiveInit == Init => IInv
<1> SUFFICES ASSUME Init PROVE IInv
  OBVIOUS
<1>1. SubmittedOnce
  BY DEF Init, SubmittedOnce, Queued, NoJob
<1>2. WorkerInv /\ ReqInv /\ StreamInv /\ StoppedInv
  BY DEF Init, WorkerInv, NoJob, ReqInv, Committing, StreamInv, StoppedInv
<1>3. FreshInv
  BY DEF Init, FreshInv, Queued, NoJob
<1>4. QED
  BY <1>1, <1>2, <1>3, TypeInit DEF IInv

LEMMA Inductive == Spec => []IInv
<1>1. IInv /\ [Next]_vars => IInv'
  BY TypeStep, SubmittedOnceStep, WorkerInvStep, FreshInvStep, ReqInvStep, StreamInvStep,
     StoppedInvStep DEF IInv
<1>2. QED
  BY <1>1, InductiveInit, PTL DEF Spec

(* A client that subscribed before the row was read never misses the end   *)
(* of its job, whatever the interleaving of worker, handlers and faults.   *)
THEOREM EndIsNotMissed == Spec => []TerminalNotMissed
<1>1. IInv => TerminalNotMissed
  <2> SUFFICES ASSUME IInv, NEW c \in Clients, spc[c] = "streaming",
                      status[sjob[c]] \in Terminal, ~Unannounced(sjob[c])
               PROVE  \E i \in DOMAIN sq[c] : sq[c][i] = status[sjob[c]]
    BY DEF TerminalNotMissed, Unannounced
  <2>1. sq[c] \in WithTerminal(status[sjob[c]])
    BY DEF IInv, StreamInv, StreamOK
  <2>2. CASE sq[c] = <<status[sjob[c]]>>
    BY <2>2
  <2>3. CASE sq[c] = <<"started", status[sjob[c]]>>
    BY <2>3
  <2>4. QED
    BY <2>1, <2>2, <2>3 DEF WithTerminal
<1>2. QED
  BY <1>1, Inductive, PTL

-----------------------------------------------------------------------------
(* Refinement of JobLifecycle *)

ActiveJob == IF wpc \in {"pipeline", "finish"} THEN wjob ELSE NoJob

LEMMA LifecycleInit == Init => Lifecycle!Init
  BY DEF Init, Lifecycle!Init, NoJob

LEMMA LifecycleStep == IInv /\ [Next]_vars => [Lifecycle!Next]_Lifecycle!vars
<1> SUFFICES ASSUME IInv, [Next]_vars PROVE [Lifecycle!Next]_Lifecycle!vars
  OBVIOUS
<1> USE DEF dbVars, workerVars, reqVars, sseVars, envVars
<1>1. ASSUME UNCHANGED <<status, ActiveJob>> PROVE [Lifecycle!Next]_Lifecycle!vars
  BY <1>1 DEF Lifecycle!vars, ActiveJob
<1>2. ASSUME UNCHANGED status, wjob' = NoJob PROVE [Lifecycle!Next]_Lifecycle!vars
  <2>1. ActiveJob' = NoJob
    BY <1>2 DEF ActiveJob
  <2>2. QED
    BY <1>2, <2>1 DEF Lifecycle!vars, Lifecycle!Next, Lifecycle!Abandon, ActiveJob
<1>3. ASSUME wpc # "idle" PROVE wjob \in Jobs /\ wjob # NoJob
  BY <1>3 DEF IInv, TypeOK, WorkerInv
<1>4. CASE WorkerCommitStarted
  <2>1. Lifecycle!Start(wjob)
    BY <1>3, <1>4 DEF WorkerCommitStarted, IInv, WorkerInv, Lifecycle!Start
  <2>2. QED
    BY <1>3, <1>4, <2>1 DEF WorkerCommitStarted, Lifecycle!Next
<1>5. CASE WorkerFinish
  <2>1. FinalStatus(wres) \in Lifecycle!Terminal
    BY FinalStatusTerminal DEF IInv, TypeOK, Terminal, Lifecycle!Terminal
  <2>2. Lifecycle!Finish(wjob, FinalStatus(wres))
    BY <1>3, <1>5 DEF WorkerFinish, IInv, WorkerInv, Lifecycle!Finish
  <2>3. QED
    BY <1>3, <1>5, <2>1, <2>2 DEF WorkerFinish, Lifecycle!Next
<1>6. ASSUME NEW r \in Reqs, PostCommit(r) \/ RetryCommit(r)
      PROVE  [Lifecycle!Next]_Lifecycle!vars
  <2>1. Lifecycle!Submit(rrec[r]) /\ rrec[r] \in Jobs
    BY <1>6 DEF PostCommit, CommitRow, RetryCommit, IInv, ReqInv, Committing, Lifecycle!Submit
  <2>2. QED
    BY <2>1 DEF Lifecycle!Next
<1>7. ASSUME NEW r \in Reqs, NEW v \in Videos, PostReuse(r, v) \/ PostCheck(r, v)
      PROVE  [Lifecycle!Next]_Lifecycle!vars
  BY <1>1, <1>7 DEF PostReuse, PostCheck, ActiveJob
<1>8. ASSUME NEW r \in Reqs, NEW j \in Jobs, RetryCheck(r, j)
      PROVE  [Lifecycle!Next]_Lifecycle!vars
  BY <1>1, <1>8 DEF RetryCheck, ActiveJob
<1>9. ASSUME NEW r \in Reqs, ReqStep(r) \/ ReqFault(r)
      PROVE  [Lifecycle!Next]_Lifecycle!vars
  BY <1>1, <1>6, <1>9 DEF ReqStep, ReqFault, PostEnqueue, PostQueueFull, RetryCreate,
     RetryEnqueue, RetryQueueFull, ActiveJob
<1>10. CASE WorkerGet \/ WorkerMarkStarted
  BY <1>1, <1>10 DEF WorkerGet, WorkerMarkStarted, ActiveJob
<1>11. ASSUME NEW res \in Outcomes, WorkerPipeline(res)
       PROVE  [Lifecycle!Next]_Lifecycle!vars
  BY <1>1, <1>11 DEF WorkerPipeline, ActiveJob
<1>12. CASE WorkerNotFound \/ WorkerAnnounce \/ WorkerFault
  BY <1>2, <1>12 DEF WorkerNotFound, WorkerAnnounce, WorkerFault
<1>13. ASSUME NEW c \in Clients, NEW j \in Jobs, Subscribe(c, j)
       PROVE  [Lifecycle!Next]_Lifecycle!vars
  BY <1>1, <1>13 DEF Subscribe, ActiveJob
<1>14. ASSUME NEW c \in Clients, StreamStep(c) \/ Disconnect(c)
       PROVE  [Lifecycle!Next]_Lifecycle!vars
  BY <1>1, <1>14 DEF StreamStep, Disconnect, SnapshotMissing, SnapshotFinished, SnapshotActive,
     DeliverStarted, DeliverTerminal, ActiveJob
<1>15. CASE ShutdownBegin \/ ShutdownEnd \/ Crash \/ Restart \/ UNCHANGED vars
  BY <1>1, <1>2, <1>15 DEF ShutdownBegin, ShutdownEnd, Crash, Restart, LoseMemory, vars, ActiveJob
<1>16. QED
  BY <1>4, <1>5, <1>7, <1>8, <1>9, <1>10, <1>11, <1>12, <1>13, <1>14, <1>15 DEF Next, WorkerStep

(* The queue implements the lifecycle of a job: a terminal row is final,   *)
(* one job runs at a time, only the worker that started a job finishes it. *)
THEOREM QueueImplementsLifecycle == Spec => ImplementsLifecycle
  BY LifecycleInit, LifecycleStep, Inductive, PTL DEF Spec, ImplementsLifecycle, Lifecycle!Spec

-----------------------------------------------------------------------------
(* What a row is written, and by whom; what a stream has sent *)

(* A terminal row is never written: only the worker writes after "queued". *)
LEMMA RowStep ==
  ASSUME IInv, [Next]_vars, NEW j \in Jobs
  PROVE  \/ status'[j] = status[j] /\ stored'[j] = stored[j]
         \/ status[j] = "absent" /\ status'[j] = "queued"
         \/ WorkerCommitStarted /\ j = wjob
         \/ WorkerFinish /\ j = wjob
<1> USE DEF dbVars, workerVars, reqVars, sseVars, envVars
<1>1. ASSUME NEW r \in Reqs, PostCommit(r) \/ RetryCommit(r)
      PROVE  \/ status'[j] = status[j] /\ stored'[j] = stored[j]
             \/ status[j] = "absent" /\ status'[j] = "queued"
  <2>1. /\ rrec[r] \in Jobs /\ status[rrec[r]] = "absent" /\ stored' = stored
        /\ status' = [status EXCEPT ![rrec[r]] = "queued"]
    BY <1>1 DEF PostCommit, CommitRow, RetryCommit, IInv, ReqInv, Committing
  <2>2. QED
    BY <2>1 DEF IInv, TypeOK
<1>2. CASE WorkerCommitStarted
  BY <1>2 DEF WorkerCommitStarted, IInv, TypeOK
<1>3. CASE WorkerFinish
  BY <1>3 DEF WorkerFinish, IInv, TypeOK
<1>4. CASE UNCHANGED <<status, stored>>
  BY <1>4
<1>5. ASSUME NEW r \in Reqs, ReqStep(r) \/ ReqFault(r)
      PROVE  UNCHANGED <<status, stored>> \/ PostCommit(r) \/ RetryCommit(r)
  BY <1>5 DEF ReqStep, ReqFault, PostEnqueue, PostQueueFull, RetryCreate, RetryEnqueue, RetryQueueFull
<1>6. ASSUME NEW r \in Reqs, NEW v \in Videos, PostReuse(r, v) \/ PostCheck(r, v)
      PROVE  UNCHANGED <<status, stored>>
  BY <1>6 DEF PostReuse, PostCheck
<1>7. ASSUME NEW r \in Reqs, NEW k \in Jobs, RetryCheck(r, k)
      PROVE  UNCHANGED <<status, stored>>
  BY <1>7 DEF RetryCheck
<1>8. CASE WorkerStep \/ WorkerFault
  BY <1>2, <1>3, <1>4, <1>8 DEF WorkerStep, WorkerFault, WorkerGet, WorkerMarkStarted, WorkerNotFound,
     WorkerPipeline, WorkerAnnounce
<1>9. ASSUME NEW c \in Clients, NEW k \in Jobs, Subscribe(c, k)
      PROVE  UNCHANGED <<status, stored>>
  BY <1>9 DEF Subscribe
<1>10. ASSUME NEW c \in Clients, StreamStep(c) \/ Disconnect(c)
       PROVE  UNCHANGED <<status, stored>>
  BY <1>10 DEF StreamStep, Disconnect, SnapshotMissing, SnapshotFinished, SnapshotActive,
     DeliverStarted, DeliverTerminal
<1>11. CASE ShutdownBegin \/ ShutdownEnd \/ Crash \/ Restart \/ UNCHANGED vars
  BY <1>4, <1>11 DEF ShutdownBegin, ShutdownEnd, Crash, Restart, LoseMemory, vars
<1>12. QED
  BY <1>1, <1>4, <1>5, <1>6, <1>7, <1>8, <1>9, <1>10, <1>11 DEF Next

(* finalize agrees with itself: the status it decides for and the columns  *)
(* it writes with it.                                                      *)
LEMMA FinalIsHonest ==
  ASSUME NEW res \in Outcomes
  PROVE  /\ FinalStatus(res) = "completed" => res.note /\ FinalError(res) = "none"
         /\ FinalStatus(res) \in {"partial", "failed"} => FinalError(res) # "none"
         /\ FinalStatus(res) = "failed" => ~res.note
BY DEF Outcomes, FinalStatus, FinalError, Incomplete

LEMMA HonestStep ==
  ASSUME IInv, StatusDoesNotMaskFailure, [Next]_vars
  PROVE  StatusDoesNotMaskFailure'
<1> SUFFICES ASSUME NEW j \in Jobs
             PROVE  /\ status'[j] = "completed" => stored'[j].note /\ stored'[j].error = "none"
                    /\ status'[j] \in {"partial", "failed"} => stored'[j].error # "none"
                    /\ status'[j] = "failed" => ~stored'[j].note
  BY DEF StatusDoesNotMaskFailure
<1>1. CASE status'[j] = status[j] /\ stored'[j] = stored[j]
  BY <1>1 DEF StatusDoesNotMaskFailure
<1>2. CASE WorkerFinish /\ j = wjob
  <2>1. wres \in Outcomes
    BY <1>2 DEF WorkerFinish, IInv, WorkerInv
  <2>2. /\ status'[j] = FinalStatus(wres)
        /\ stored'[j] = [note |-> wres.note, error |-> FinalError(wres)]
    BY <1>2 DEF WorkerFinish, IInv, TypeOK
  <2>3. stored'[j].note = wres.note /\ stored'[j].error = FinalError(wres)
    BY <2>2
  <2>4. QED
    BY <2>1, <2>2, <2>3, FinalIsHonest
<1>3. CASE WorkerCommitStarted /\ j = wjob
  <2>1. status'[j] = "running"
    BY <1>3 DEF WorkerCommitStarted, IInv, TypeOK
  <2>2. QED
    BY <2>1
<1>4. QED
  BY <1>1, <1>2, <1>3, RowStep

-----------------------------------------------------------------------------
(* Abandoned rows *)

(* The stop that is announced has not taken its row yet. *)
Debt == IF server = "stopping" THEN 1 ELSE 0

Stranded == Cardinality(Abandoned)

AbandonedInv == Stranded + Debt <= faults + stops

(* The steps that take the worker away from its row. *)
TakesWorker == WorkerFault \/ ShutdownEnd \/ Crash

(* The counters pay for the rows that were abandoned. *)
LEMMA Balance ==
  ASSUME faults \in Nat, stops \in Nat, Debt \in Nat, Stranded \in Nat,
         faults' \in Nat, stops' \in Nat, Debt' \in Nat, Stranded' \in Nat,
         AbandonedInv,
         \/ /\ Stranded' <= Stranded
            /\ faults + stops + Debt' <= faults' + stops' + Debt
         \/ /\ Stranded' <= Stranded + 1
            /\ faults + stops + Debt' + 1 <= faults' + stops' + Debt
  PROVE  AbandonedInv'
<1> DEFINE f == faults'
           s == stops'
           d == Debt'
           n == Stranded'
<1>1. /\ f \in Nat /\ s \in Nat /\ d \in Nat /\ n \in Nat
      /\ \/ n <= Stranded     /\ faults + stops + d <= f + s + Debt
         \/ n <= Stranded + 1 /\ faults + stops + d + 1 <= f + s + Debt
  OBVIOUS
<1>2. Stranded + Debt <= faults + stops
  BY DEF AbandonedInv
<1> HIDE DEF f, s, d, n
<1>3. n + d <= f + s
  BY <1>1, <1>2
<1>4. QED
  BY <1>3 DEF f, s, d, n, AbandonedInv

LEMMA AbandonedFinite ==
  ASSUME TypeOK, NEW S \in SUBSET Jobs
  PROVE  IsFiniteSet(S) /\ Cardinality(S) \in Nat
<1>1. IsFiniteSet(Jobs)
  BY BoundsAssumption, FS_Interval DEF Jobs
<1>2. QED
  BY <1>1, FS_Subset, FS_CardinalityType

(* The worker leaves a job it has marked running only after it has written *)
(* its end, or when a fault or a stop takes it away.                       *)
LEMMA WorkerMoves ==
  ASSUME IInv, [Next]_vars, wpc \in {"pipeline", "finish"}, ~TakesWorker
  PROVE  wjob' = wjob /\ (wpc' \in {"pipeline", "finish"} \/ WorkerFinish)
<1> USE DEF dbVars, workerVars, reqVars, sseVars, envVars
<1>1. CASE UNCHANGED <<wjob, wpc>>
  BY <1>1
<1>2. CASE WorkerStep
  BY <1>2 DEF WorkerStep, WorkerGet, WorkerMarkStarted, WorkerNotFound, WorkerCommitStarted,
     WorkerPipeline, WorkerFinish, WorkerAnnounce
<1>3. CASE ShutdownBegin
  BY <1>1, <1>3 DEF ShutdownBegin
<1>4. CASE WorkerFault \/ ShutdownEnd \/ Crash
  BY <1>4 DEF TakesWorker
<1>5. CASE Restart \/ UNCHANGED vars
  BY <1>1, <1>5 DEF Restart, vars
<1>6. ASSUME NEW r \in Reqs, ReqStep(r) \/ ReqFault(r) PROVE UNCHANGED <<wjob, wpc>>
  BY <1>6 DEF ReqStep, ReqFault, PostEnqueue, PostQueueFull, PostCommit, RetryCreate, RetryCommit,
     RetryEnqueue, RetryQueueFull
<1>7. ASSUME NEW c \in Clients, StreamStep(c) \/ Disconnect(c) PROVE UNCHANGED <<wjob, wpc>>
  BY <1>7 DEF StreamStep, Disconnect, SnapshotMissing, SnapshotFinished, SnapshotActive,
     DeliverStarted, DeliverTerminal
<1>8. QED
  BY <1>1, <1>2, <1>3, <1>4, <1>5, <1>6, <1>7 DEF Next, PostReuse, PostCheck, RetryCheck, Subscribe

(* A fault or a stop is counted when it takes the worker away. *)
LEMMA CountersStep ==
  ASSUME TypeOK, [Next]_vars
  PROVE  /\ faults + stops + Debt' <= faults' + stops' + Debt
         /\ TakesWorker => faults + stops + Debt' + 1 <= faults' + stops' + Debt
<1> USE DEF dbVars, workerVars, reqVars, sseVars, envVars, TypeOK, Debt
<1> DEFINE Same  == UNCHANGED <<server, faults, stops>>
           Grows == /\ faults + stops + Debt' <= faults' + stops' + Debt
                    /\ TakesWorker => faults + stops + Debt' + 1 <= faults' + stops' + Debt
<1>1. Same => ~TakesWorker /\ Grows
  BY DEF TakesWorker, WorkerFault, ShutdownEnd, Crash
<1>2. CASE WorkerFault
  <2>1. faults' = faults + 1 /\ UNCHANGED <<server, stops>>
    BY <1>2 DEF WorkerFault
  <2>2. QED
    BY <2>1
<1>3. ASSUME NEW r \in Reqs, ReqFault(r) PROVE Grows
  <2>1. faults' = faults + 1 /\ UNCHANGED <<server, stops>>
    BY <1>3 DEF ReqFault
  <2>2. QED
    BY <2>1
<1>4. CASE ShutdownBegin
  <2>1. /\ server = "up" /\ server' = "stopping" /\ stops' = stops + 1 /\ UNCHANGED faults
        /\ UNCHANGED wpc
    BY <1>4 DEF ShutdownBegin
  <2>2. ~TakesWorker
    BY <2>1 DEF TakesWorker, WorkerFault, ShutdownEnd, Crash
  <2>3. QED
    BY <2>1, <2>2
<1>5. CASE ShutdownEnd
  BY <1>5 DEF ShutdownEnd
<1>6. CASE Crash
  BY <1>6 DEF Crash
<1>7. CASE Restart
  <2>1. server = "down" /\ server' = "up" /\ UNCHANGED <<faults, stops>>
    BY <1>7 DEF Restart
  <2>2. ~TakesWorker
    BY <2>1 DEF TakesWorker, WorkerFault, ShutdownEnd, Crash
  <2>3. QED
    BY <2>1, <2>2
<1>8. UNCHANGED vars => Same
  BY DEF vars
<1>9. ASSUME NEW r \in Reqs, ReqStep(r) PROVE Same
  BY <1>9 DEF ReqStep, PostEnqueue, PostQueueFull, PostCommit, RetryCreate, RetryCommit,
     RetryEnqueue, RetryQueueFull
<1>10. WorkerStep => Same
  BY DEF WorkerStep, WorkerGet, WorkerMarkStarted, WorkerNotFound, WorkerCommitStarted,
     WorkerPipeline, WorkerFinish, WorkerAnnounce
<1>11. ASSUME NEW c \in Clients, StreamStep(c) \/ Disconnect(c) PROVE Same
  BY <1>11 DEF StreamStep, Disconnect, SnapshotMissing, SnapshotFinished, SnapshotActive,
     DeliverStarted, DeliverTerminal
<1>12. ASSUME NEW r \in Reqs, NEW v \in Videos, PostReuse(r, v) \/ PostCheck(r, v) PROVE Same
  BY <1>12 DEF PostReuse, PostCheck
<1>13. ASSUME NEW r \in Reqs, NEW j \in Jobs, RetryCheck(r, j) PROVE Same
  BY <1>13 DEF RetryCheck
<1>14. ASSUME NEW c \in Clients, NEW j \in Jobs, Subscribe(c, j) PROVE Same
  BY <1>14 DEF Subscribe
<1>15. Grows
  <2>1. WorkerFault \/ ShutdownBegin \/ ShutdownEnd \/ Crash \/ Restart => Grows
    BY <1>2, <1>4, <1>5, <1>6, <1>7
  <2> HIDE DEF Grows, Same
  <2>2. QED
    BY <1>1, <1>3, <1>8, <1>9, <1>10, <1>11, <1>12, <1>13, <1>14, <2>1 DEF Next
<1>16. QED
  BY <1>15

(* Only the row of a worker that is taken away becomes abandoned. *)
LEMMA NewlyAbandoned ==
  ASSUME IInv, [Next]_vars, NEW j \in Jobs, j \in Abandoned', j \notin Abandoned
  PROVE  TakesWorker /\ j = wjob
<1>1. status'[j] = "running" /\ ~(wjob' = j /\ wpc' \in {"pipeline", "finish"})
  BY DEF Abandoned, Held
<1>2. ~(WorkerFinish /\ j = wjob)
  <2>1. WorkerFinish /\ j = wjob => status'[j] \in Terminal
    BY FinalStatusTerminal DEF WorkerFinish, IInv, TypeOK
  <2>2. QED
    BY <1>1, <2>1 DEF Terminal
<1>3. ~(WorkerCommitStarted /\ j = wjob)
  BY <1>1 DEF WorkerCommitStarted, workerVars
<1>4. status[j] = "running"
  BY <1>1, <1>2, <1>3, RowStep
<1>5. wjob = j /\ wpc \in {"pipeline", "finish"}
  BY <1>4 DEF Abandoned, Held
<1>6. QED
  BY <1>1, <1>2, <1>5, WorkerMoves

LEMMA AbandonedStep ==
  ASSUME IInv, AbandonedInv, [Next]_vars
  PROVE  AbandonedInv'
<1>1. /\ faults \in Nat /\ stops \in Nat /\ faults' \in Nat /\ stops' \in Nat
      /\ Debt \in Nat /\ Debt' \in Nat
  BY TypeStep, BoundsAssumption DEF IInv, TypeOK, Debt
<1>2. /\ IsFiniteSet(Abandoned) /\ Cardinality(Abandoned) \in Nat
      /\ IsFiniteSet(Abandoned') /\ Cardinality(Abandoned') \in Nat
      /\ Abandoned \subseteq Jobs /\ Abandoned' \subseteq Jobs
  <2>1. Abandoned \in SUBSET Jobs /\ Abandoned' \in SUBSET Jobs
    BY DEF Abandoned
  <2>2. QED
    BY <2>1, AbandonedFinite DEF IInv
<1>3. /\ faults + stops + Debt' <= faults' + stops' + Debt
      /\ TakesWorker => faults + stops + Debt' + 1 <= faults' + stops' + Debt
  BY CountersStep DEF IInv
<1>4. CASE TakesWorker
  <2> DEFINE Grown == Abandoned \union {wjob}
  <2>1. Abandoned' \subseteq Grown
    BY <1>2, NewlyAbandoned
  <2>2. IsFiniteSet(Grown) /\ Cardinality(Grown) <= Cardinality(Abandoned) + 1
        /\ Cardinality(Grown) \in Nat
    <3>1. /\ IsFiniteSet(Grown)
          /\ Cardinality(Grown) = IF wjob \in Abandoned THEN Cardinality(Abandoned)
                                                       ELSE Cardinality(Abandoned) + 1
      BY <1>2, FS_AddElement
    <3>2. QED
      BY <1>2, <3>1
  <2>3. Cardinality(Abandoned') <= Cardinality(Grown)
    BY <2>1, <2>2, FS_Subset
  <2> HIDE DEF Grown
  <2>4. Stranded' <= Stranded + 1 /\ Stranded \in Nat /\ Stranded' \in Nat
    BY <1>2, <2>2, <2>3 DEF Stranded
  <2>5. QED
    BY <1>1, <1>3, <1>4, <2>4, Balance
<1>5. CASE ~TakesWorker
  <2>1. Abandoned' \subseteq Abandoned
    BY <1>2, <1>5, NewlyAbandoned
  <2>2. Cardinality(Abandoned') <= Cardinality(Abandoned)
    BY <1>2, <2>1, FS_Subset
  <2>3. Stranded' <= Stranded /\ Stranded \in Nat /\ Stranded' \in Nat
    BY <1>2, <2>2 DEF Stranded
  <2>4. QED
    BY <1>1, <1>3, <2>3, Balance
<1>6. QED
  BY <1>4, <1>5

-----------------------------------------------------------------------------
(* What a handler has not read *)

(* A handler between its look and its commit. *)
Looked == {"post_create", "post_commit", "retry_create", "retry_commit"}

Unread(r) == \A j \in Jobs : videoOf[j] = rvid[r] /\ status[j] \in Active => j \in unread[r]

UnreadInv == \A r \in Reqs : rpc[r] \in Looked => Unread(r)

LEMMA UnreadStep ==
  ASSUME IInv, UnreadInv, [Next]_vars
  PROVE  UnreadInv'
<1> USE DEF dbVars, workerVars, reqVars, sseVars, envVars
<1>1. SUFFICES ASSUME NEW r \in Reqs, rpc'[r] \in Looked PROVE Unread(r)'
  BY DEF UnreadInv
<1>2. /\ rpc \in [Reqs -> ReqPc] /\ unread \in [Reqs -> SUBSET (Jobs \union {NoJob})]
      /\ rvid \in [Reqs -> Videos] /\ videoOf \in [Jobs -> Videos]
      /\ status \in [Jobs -> Status]
      /\ rpc[r] \in Looked => Unread(r)
      /\ Looked \cap ReqFree = {}
  BY DEF IInv, TypeOK, UnreadInv, Looked, ReqFree, Answers
(* The handler looked before; no row becomes active that it has read. *)
<1>3. ASSUME rpc[r] \in Looked, rvid'[r] = rvid[r], unread[r] \subseteq unread'[r],
             \A j \in Jobs : status'[j] \in Active =>
               videoOf'[j] = videoOf[j] /\ (status[j] \in Active \/ j \in unread'[r])
      PROVE  Unread(r)'
  BY <1>2, <1>3 DEF Unread
(* Steps that allocate no id and commit no row. *)
<1>4. ASSUME UNCHANGED <<rvid, unread, videoOf>>, rpc'[r] = rpc[r],
             \A j \in Jobs : status'[j] \in Active => status[j] \in Active
      PROVE  Unread(r)'
  BY <1>1, <1>3, <1>4
<1>5. ASSUME NEW q \in Reqs, NEW v \in Videos, PostReuse(q, v) \/ PostCheck(q, v)
      PROVE  Unread(r)'
  <2>1. CASE q # r
    BY <1>1, <1>2, <1>3, <1>5, <2>1 DEF PostReuse, PostCheck
  <2>2. CASE q = r
    BY <1>1, <1>2, <1>5, <2>2 DEF PostReuse, PostCheck, ActiveJobsOf, Unread, Looked
  <2>3. QED
    BY <2>1, <2>2
<1>6. ASSUME NEW q \in Reqs, NEW old \in Jobs, RetryCheck(q, old)
      PROVE  Unread(r)'
  <2>1. CASE q # r
    BY <1>1, <1>2, <1>3, <1>6, <2>1 DEF RetryCheck
  <2>2. CASE q = r
    <3>1. status[old] \in Terminal /\ unread'[r] = {j \in Jobs \ {old} : status[j] # "absent"}
          /\ UNCHANGED status
      BY <1>1, <1>2, <1>6, <2>2 DEF RetryCheck, Looked
    <3>2. \A j \in Jobs : status[j] \in Active => j # old /\ status[j] # "absent"
      BY <3>1 DEF Active, Terminal
    <3>3. QED
      BY <3>1, <3>2 DEF Unread
  <2>3. QED
    BY <2>1, <2>2
<1>7. ASSUME NEW q \in Reqs, PostCommit(q) \/ RetryCommit(q)
      PROVE  Unread(r)'
  <2>1. /\ CommitRow(q) /\ UNCHANGED <<rvid, videoOf>>
        /\ q # r /\ rpc[r] \in Looked
    BY <1>1, <1>2, <1>7 DEF PostCommit, RetryCommit, Looked
  <2>2. unread'[r] = unread[r] \union {rrec[q]}
    BY <1>2, <2>1 DEF CommitRow
  <2>3. \A j \in Jobs : status'[j] = status[j] \/ j = rrec[q]
    BY <1>2, <2>1 DEF CommitRow
  <2>4. QED
    BY <1>3, <2>1, <2>2, <2>3
<1>8. ASSUME NEW q \in Reqs, AllocateJob(rvid[q]), UNCHANGED <<status, rvid, unread>>,
             rpc[r] \in Looked
      PROVE  Unread(r)'
  <2>1. status[lastJob + 1] = "absent"
    BY <1>8, FreshId
  <2>2. \A j \in Jobs : status[j] \in Active => videoOf'[j] = videoOf[j]
    BY <1>2, <1>8, <2>1 DEF AllocateJob, Active
  <2>3. QED
    BY <1>3, <1>8, <2>2
<1>9. ASSUME NEW q \in Reqs, PostEnqueue(q) \/ RetryCreate(q) PROVE Unread(r)'
  BY <1>1, <1>2, <1>8, <1>9 DEF PostEnqueue, RetryCreate, Looked
<1>10. ASSUME NEW q \in Reqs, PostQueueFull(q) PROVE Unread(r)'
  <2>1. q # r /\ rpc[r] \in Looked
    BY <1>1, <1>2, <1>10 DEF PostQueueFull, Looked
  <2>2. status[lastJob + 1] = "absent"
    BY <1>10, FreshId DEF PostQueueFull
  <2>3. \A j \in Jobs : status[j] \in Active => videoOf'[j] = videoOf[j]
    BY <1>2, <1>10, <2>2 DEF PostQueueFull, AllocateJob, Active
  <2>4. UNCHANGED <<status, rvid>> /\ unread'[r] = unread[r]
    BY <1>2, <1>10, <2>1 DEF PostQueueFull
  <2>5. QED
    BY <1>3, <2>1, <2>3, <2>4
<1>11. ASSUME NEW q \in Reqs, RetryEnqueue(q) \/ RetryQueueFull(q) PROVE Unread(r)'
  BY <1>1, <1>2, <1>8, <1>11 DEF RetryEnqueue, RetryQueueFull, Looked
<1>12. ASSUME NEW q \in Reqs, ReqFault(q) PROVE Unread(r)'
  BY <1>1, <1>2, <1>3, <1>12 DEF ReqFault, Looked
<1>13. CASE WorkerStep \/ WorkerFault
  <2>1. UNCHANGED <<rvid, unread, videoOf, rpc>>
    BY <1>13 DEF WorkerStep, WorkerFault, WorkerGet, WorkerMarkStarted, WorkerNotFound,
       WorkerCommitStarted, WorkerPipeline, WorkerFinish, WorkerAnnounce
  <2>2. ASSUME NEW j \in Jobs, status'[j] \in Active PROVE status[j] \in Active
    <3>1. ~(status[j] = "absent" /\ status'[j] = "queued")
      BY <1>2, <1>13 DEF WorkerStep, WorkerFault, WorkerGet, WorkerMarkStarted, WorkerNotFound,
         WorkerCommitStarted, WorkerPipeline, WorkerFinish, WorkerAnnounce, IInv, TypeOK, WorkerInv
    <3>2. CASE WorkerCommitStarted /\ j = wjob
      BY <3>2 DEF WorkerCommitStarted, IInv, WorkerInv, Active
    <3>3. CASE WorkerFinish /\ j = wjob
      BY <3>3 DEF WorkerFinish, IInv, WorkerInv, Active
    <3>4. QED
      BY <2>2, <3>1, <3>2, <3>3, RowStep
  <2>3. QED
    BY <1>4, <2>1, <2>2
<1>14. ASSUME NEW c \in Clients, NEW j \in Jobs, Subscribe(c, j) PROVE Unread(r)'
  BY <1>4, <1>14 DEF Subscribe
<1>15. ASSUME NEW c \in Clients, StreamStep(c) \/ Disconnect(c) PROVE Unread(r)'
  BY <1>4, <1>15 DEF StreamStep, Disconnect, SnapshotMissing, SnapshotFinished, SnapshotActive,
     DeliverStarted, DeliverTerminal
<1>16. CASE ShutdownBegin \/ Restart \/ UNCHANGED vars
  BY <1>4, <1>16 DEF ShutdownBegin, Restart, vars
<1>17. CASE ShutdownEnd \/ Crash
  <2>1. rpc'[r] = IF rpc[r] \in ReqFree THEN rpc[r] ELSE "error"
    BY <1>17 DEF ShutdownEnd, Crash, LoseMemory
  <2>2. QED
    BY <1>1, <1>2, <2>1 DEF Looked
<1>18. QED
  BY <1>5, <1>6, <1>7, <1>9, <1>10, <1>11, <1>12, <1>13, <1>14, <1>15, <1>16, <1>17
     DEF Next, ReqStep

-----------------------------------------------------------------------------
(* The shape of a stream *)

Shape(c) ==
  \/ seen[c] \in {<< >>, <<"error">>, <<"started">>}
  \/ /\ status[sjob[c]] \in Terminal
     /\ seen[c] \in {<<status[sjob[c]]>>, <<"started", status[sjob[c]], "closing">>}

(* An open stream has sent nothing, or the replayed "started". *)
SentInv ==
  \A c \in Clients : /\ spc[c] = "snapshot" => seen[c] = << >>
                     /\ spc[c] = "streaming" => seen[c] = <<"started">>
                     /\ sjob[c] \in Jobs \/ seen[c] = << >>
                     /\ Shape(c)

LEMMA Joined ==
  ASSUME NEW x, NEW y, NEW z
  PROVE  << >> \o << >> = << >> /\ << >> \o <<x>> = <<x>>
         /\ <<x>> \o << >> = <<x>> /\ <<x>> \o <<y, z>> = <<x, y, z>>
<1> DEFINE S == {x, y, z}
<1>1. << >> \in Seq(S) /\ <<x>> \in Seq(S) /\ <<y, z>> \in Seq(S) /\ <<x, y, z>> \in Seq(S)
  OBVIOUS
<1>2. << >> \o << >> = << >> /\ << >> \o <<x>> = <<x>> /\ <<x>> \o << >> = <<x>>
  BY <1>1, ConcatEmptySeq
<1>3. <<x>> \o <<y, z>> = <<x, y, z>>
  <2>1. /\ <<x>> \o <<y, z>> \in Seq(S) /\ Len(<<x>> \o <<y, z>>) = Len(<<x, y, z>>)
        /\ \A i \in 1..3 : (<<x>> \o <<y, z>>)[i] = <<x, y, z>>[i]
    OBVIOUS
  <2>2. QED
    BY <1>1, <2>1, SeqEqual
<1>4. QED
  BY <1>2, <1>3

(* What closing a stream leaves in what it has sent. *)
LEMMA CloseSent ==
  ASSUME IInv, SentInv, NEW c \in Clients, spc[c] # "closed",
         status' = status, sjob' = sjob,
         SnapshotMissing(c) \/ SnapshotFinished(c) \/ DeliverTerminal(c) \/ Disconnect(c)
  PROVE  spc'[c] = "closed" /\ Shape(c)'
<1>1. spc[c] \in {"snapshot", "streaming"}
  BY DEF IInv, TypeOK, StreamPc
<1>2. /\ spc[c] = "snapshot" => seen[c] = << >>
      /\ spc[c] = "streaming" => seen[c] = <<"started">>
  BY DEF SentInv
<1>3. spc'[c] = "closed"
  BY DEF SnapshotMissing, SnapshotFinished, DeliverTerminal, Disconnect, CloseStream, IInv, TypeOK
<1>4. CASE SnapshotMissing(c)
  <2>1. seen'[c] = << >> \o <<"error">>
    BY <1>2, <1>4 DEF SnapshotMissing, CloseStream, IInv, TypeOK
  <2>2. QED
    BY <1>3, <2>1, Joined DEF Shape
<1>5. CASE SnapshotFinished(c)
  <2>1. seen'[c] = << >> \o <<status[sjob[c]]>> /\ status[sjob[c]] \in Terminal
    BY <1>2, <1>5 DEF SnapshotFinished, CloseStream, IInv, TypeOK
  <2>2. QED
    BY <1>3, <2>1, Joined DEF Shape
<1>6. CASE DeliverTerminal(c)
  <2>1. /\ sq[c] # << >> /\ Head(sq[c]) \in Terminal /\ spc[c] = "streaming"
        /\ seen'[c] = <<"started">> \o <<Head(sq[c]), "closing">>
    BY <1>2, <1>6 DEF DeliverTerminal, CloseStream, IInv, TypeOK
  <2>2. status[sjob[c]] \in Terminal /\ sq[c] \in WithTerminal(status[sjob[c]])
    <3>1. StreamOK(c, sjob[c])
      BY <2>1 DEF IInv, StreamInv
    <3>2. Head(<<"started">>) = "started" /\ "started" \notin Terminal
      BY DEF Terminal
    <3>3. QED
      BY <2>1, <3>1, <3>2 DEF StreamOK, BeforeTerminal
  <2>3. Head(sq[c]) = status[sjob[c]]
    <3>1. /\ Head(<<status[sjob[c]]>>) = status[sjob[c]]
          /\ Head(<<"started", status[sjob[c]]>>) = "started" /\ "started" \notin Terminal
      BY DEF Terminal
    <3>2. QED
      BY <2>1, <2>2, <3>1 DEF WithTerminal
  <2>4. seen'[c] = <<"started", status[sjob[c]], "closing">>
    BY <2>1, <2>3, Joined
  <2>5. QED
    BY <1>3, <2>2, <2>4 DEF Shape
<1>7. CASE Disconnect(c)
  <2>1. seen'[c] = seen[c] \o << >>
    BY <1>7 DEF Disconnect, CloseStream, IInv, TypeOK
  <2>2. seen'[c] = seen[c]
    BY <1>1, <1>2, <2>1, Joined
  <2>3. QED
    BY <1>1, <1>2, <1>3, <2>2 DEF Shape
<1>8. QED
  BY <1>4, <1>5, <1>6, <1>7

(* A stream that is left alone keeps its shape: its row, once terminal, is *)
(* not written again.                                                      *)
LEMMA ShapeStays ==
  ASSUME IInv, [Next]_vars, NEW c \in Clients, Shape(c), seen'[c] = seen[c], sjob'[c] = sjob[c],
         sjob[c] \in Jobs \/ seen[c] = << >>
  PROVE  Shape(c)'
<1>1. CASE seen[c] \in {<< >>, <<"error">>, <<"started">>}
  BY <1>1 DEF Shape
<1>2. CASE seen[c] \notin {<< >>, <<"error">>, <<"started">>}
  <2>1. status[sjob[c]] \in Terminal /\ sjob[c] \in Jobs
    BY <1>2 DEF Shape
  <2>2. status'[sjob[c]] = status[sjob[c]]
    BY <2>1, RowStep DEF WorkerCommitStarted, WorkerFinish, IInv, WorkerInv, Terminal
  <2>3. QED
    BY <1>2, <2>1, <2>2 DEF Shape
<1>3. QED
  BY <1>1, <1>2

LEMMA SentStep == ASSUME IInv, SentInv, [Next]_vars PROVE SentInv'
<1> USE DEF dbVars, workerVars, reqVars, sseVars, envVars
<1>1. SUFFICES ASSUME NEW c \in Clients
               PROVE  /\ spc'[c] = "snapshot" => seen'[c] = << >>
                      /\ spc'[c] = "streaming" => seen'[c] = <<"started">>
                      /\ sjob'[c] \in Jobs \/ seen'[c] = << >>
                      /\ Shape(c)'
  BY DEF SentInv, Shape
<1>2. /\ spc[c] = "snapshot" => seen[c] = << >>
      /\ spc[c] = "streaming" => seen[c] = <<"started">>
      /\ sjob[c] \in Jobs \/ seen[c] = << >>
      /\ Shape(c)
  BY DEF SentInv
<1> DEFINE Goal == /\ spc'[c] = "snapshot" => seen'[c] = << >>
                   /\ spc'[c] = "streaming" => seen'[c] = <<"started">>
                   /\ sjob'[c] \in Jobs \/ seen'[c] = << >>
                   /\ Shape(c)'
<1>3. ASSUME seen'[c] = seen[c], sjob'[c] = sjob[c], spc'[c] = spc[c] \/ spc'[c] = "closed"
      PROVE  Goal
  <2>1. Shape(c)'
    BY <1>2, <1>3, ShapeStays
  <2>2. QED
    BY <1>2, <1>3, <2>1
<1>4. ASSUME NEW d \in Clients, NEW j \in Jobs, Subscribe(d, j) PROVE Goal
  <2>1. CASE d = c
    <3>1. spc'[c] = "snapshot" /\ seen'[c] = << >>
      BY <1>4, <2>1 DEF Subscribe, IInv, TypeOK
    <3>2. QED
      BY <3>1 DEF Shape
  <2>2. CASE d # c
    BY <1>3, <1>4, <2>2 DEF Subscribe, IInv, TypeOK
  <2>3. QED
    BY <2>1, <2>2
<1>5. ASSUME NEW d \in Clients, StreamStep(d) \/ Disconnect(d) PROVE Goal
  <2>1. /\ UNCHANGED <<status, sjob>>
        /\ spc[d] # "closed"
    BY <1>5 DEF StreamStep, Disconnect, SnapshotMissing, SnapshotFinished, SnapshotActive,
       DeliverStarted, DeliverTerminal
  <2>2. CASE d # c
    <3>1. spc'[c] = spc[c] /\ seen'[c] = seen[c]
      BY <1>5, <2>2 DEF StreamStep, Disconnect, SnapshotMissing, SnapshotFinished, SnapshotActive,
         DeliverStarted, DeliverTerminal, CloseStream, IInv, TypeOK
    <3>2. QED
      BY <1>3, <2>1, <3>1
  <2>3. CASE d = c /\ SnapshotActive(c)
    <3>1. seen[c] = << >> /\ sjob[c] \in Jobs
      BY <1>2, <2>3 DEF SnapshotActive, IInv, StreamInv
    <3>2. spc'[c] = "streaming" /\ seen'[c] = <<"started">>
      BY <2>3, <3>1, AppendToShort DEF SnapshotActive, IInv, TypeOK
    <3>3. QED
      BY <2>1, <3>1, <3>2 DEF Shape
  <2>4. CASE d = c /\ DeliverStarted(c)
    BY <1>3, <2>4 DEF DeliverStarted
  <2>5. CASE d = c /\ (SnapshotMissing(c) \/ SnapshotFinished(c) \/ DeliverTerminal(c) \/ Disconnect(c))
    <3>1. spc'[c] = "closed" /\ Shape(c)'
      BY <2>1, <2>5, CloseSent
    <3>2. sjob[c] \in Jobs
      BY <2>1, <2>5 DEF IInv, StreamInv
    <3>3. QED
      BY <2>1, <3>1, <3>2
  <2>6. QED
    BY <1>5, <2>2, <2>3, <2>4, <2>5 DEF StreamStep
<1>6. CASE ShutdownBegin \/ Crash
  BY <1>3, <1>6 DEF ShutdownBegin, Crash, DropStreams
<1>7. CASE UNCHANGED <<spc, seen, sjob>>
  BY <1>3, <1>7
<1>8. CASE ShutdownEnd \/ Restart \/ UNCHANGED vars
  BY <1>7, <1>8 DEF ShutdownEnd, Restart, vars
<1>9. ASSUME NEW r \in Reqs, ReqStep(r) \/ ReqFault(r) PROVE UNCHANGED <<spc, seen, sjob>>
  BY <1>9 DEF ReqStep, ReqFault, PostEnqueue, PostQueueFull, PostCommit, CommitRow, RetryCreate, RetryCommit,
     RetryEnqueue, RetryQueueFull
<1>10. CASE WorkerStep \/ WorkerFault
  BY <1>7, <1>10 DEF WorkerStep, WorkerFault, WorkerGet, WorkerMarkStarted, WorkerNotFound,
     WorkerCommitStarted, WorkerPipeline, WorkerFinish, WorkerAnnounce
<1>11. ASSUME NEW r \in Reqs, NEW v \in Videos, PostReuse(r, v) \/ PostCheck(r, v)
       PROVE  UNCHANGED <<spc, seen, sjob>>
  BY <1>11 DEF PostReuse, PostCheck
<1>12. ASSUME NEW r \in Reqs, NEW j \in Jobs, RetryCheck(r, j)
       PROVE  UNCHANGED <<spc, seen, sjob>>
  BY <1>12 DEF RetryCheck
<1>13. Goal
  <2>1. UNCHANGED <<spc, seen, sjob>> => Goal
    BY <1>7
  <2>2. ShutdownBegin \/ Crash \/ ShutdownEnd \/ Restart \/ UNCHANGED vars \/ WorkerStep \/ WorkerFault => Goal
    BY <1>6, <1>8, <1>10
  <2> HIDE DEF Goal
  <2>3. QED
    BY <1>4, <1>5, <1>9, <1>11, <1>12, <2>1, <2>2 DEF Next
<1>14. QED
  BY <1>13

-----------------------------------------------------------------------------
HistoryInv == IInv /\ AbandonedInv /\ UnreadInv /\ StatusDoesNotMaskFailure /\ SentInv

LEMMA HistoryInductive == Spec => []HistoryInv
<1>1. Init => HistoryInv
  <2>1. Init => UnreadInv /\ StatusDoesNotMaskFailure /\ SentInv
    BY DEF Init, UnreadInv, Looked, StatusDoesNotMaskFailure, SentInv, Shape
  <2>2. Init => AbandonedInv
    <3>1. Init => Abandoned = {}
      BY DEF Init, Abandoned
    <3>2. Init => Stranded = 0
      BY <3>1, FS_EmptySet DEF Stranded
    <3>3. QED
      BY <3>2 DEF Init, AbandonedInv, Debt
  <2>3. QED
    BY <2>1, <2>2, InductiveInit DEF HistoryInv
<1>2. ASSUME HistoryInv, [Next]_vars PROVE HistoryInv'
  <2>1. IInv'
    BY <1>2, TypeStep, SubmittedOnceStep, WorkerInvStep, FreshInvStep, ReqInvStep, StreamInvStep,
       StoppedInvStep DEF HistoryInv, IInv
  <2>2. QED
    BY <1>2, <2>1, AbandonedStep, UnreadStep, HonestStep, SentStep DEF HistoryInv
<1>3. QED
  BY <1>1, <1>2, PTL DEF Spec

(* Each swallowed database fault and each end of the process leaves one    *)
(* row running with nobody to finish it, at most, and nothing else does.   *)
THEOREM AbandonedRowsAreCounted == Spec => []AbandonedAreCounted
<1>1. HistoryInv => AbandonedAreCounted
  <2> SUFFICES ASSUME HistoryInv PROVE AbandonedAreCounted
    OBVIOUS
  <2>1. Cardinality(Abandoned) \in Nat /\ faults \in Nat /\ stops \in Nat
    BY AbandonedFinite, BoundsAssumption DEF HistoryInv, IInv, TypeOK, Abandoned
  <2>2. QED
    BY <2>1 DEF HistoryInv, AbandonedInv, Stranded, Debt, AbandonedAreCounted
<1>2. QED
  BY <1>1, HistoryInductive, PTL

(* A handler that makes a second job of a video has not read the row it    *)
(* makes it beside, however posts, retries and the worker interleave.      *)
THEOREM SecondJobsAreUnseen == Spec => SecondJobIsUnseen
<1> DEFINE Unseen == \A r \in Reqs :
      rpc[r] \in {"post_commit", "retry_commit"} /\ status'[rrec[r]] = "queued" =>
        {j \in Jobs : videoOf[j] = rvid[r] /\ status[j] \in Active} \subseteq unread[r]
<1>1. HistoryInv => Unseen
  BY DEF HistoryInv, UnreadInv, Looked, Unread
<1>2. QED
  BY <1>1, HistoryInductive, PTL DEF SecondJobIsUnseen

(* A completed row has its note and no error, every other end says why.    *)
THEOREM FailuresAreVisible == Spec => []StatusDoesNotMaskFailure
<1>1. HistoryInv => StatusDoesNotMaskFailure
  BY DEF HistoryInv
<1>2. QED
  BY <1>1, HistoryInductive, PTL

(* A stream sends at most one "started", then at most one terminal event,  *)
(* which is and stays the status of the row.                               *)
THEOREM StreamsAreWellFormed == Spec => []StreamShape
<1>1. HistoryInv => StreamShape
  BY DEF HistoryInv, SentInv, Shape, StreamShape
<1>2. QED
  BY <1>1, HistoryInductive, PTL

=============================================================================
