-------------------------- MODULE AgentArchiveProofs --------------------------
(***************************************************************************)
(* Proofs about AgentArchive, for any number of agent runs, requests and   *)
(* tool calls: TypeOK, OutcomeIsExact, CutOffHidesOneTool, NoteFirst,      *)
(* TaskLineStays and TornIsReported.                                       *)
(*                                                                         *)
(* The invariant follows each actor from step to step: between tools it    *)
(* has reported all it wrote, and a run that was cut off has either        *)
(* written one thing it did not report or left one tool that still may.    *)
(* An actor's step touches no other actor, so each lemma looks at one.     *)
(***************************************************************************)
EXTENDS AgentArchive, FiniteSetTheorems, TLAPS

(* Tools that write one of the three when they are left to themselves. *)
Writers == {"note", "event", "append"}

ArchiveSteps == {"note", "event", "append", "remind", "remind again", "ending"}

Reported(a) ==
    /\ said[a] \subseteq made[a]
    /\ result[a] # "none" => pc[a] = "idle"
    /\ pc[a] = "idle" /\ result[a] = "none" => made[a] = {}
    /\ pc[a] \notin {"idle", "report", "remind"} => Hidden(a) = {}
    /\ pc[a] = "remind" => Hidden(a) \subseteq {"task"}

AgentOk(a) ==
    /\ Reported(a)
    /\ result[a] # "archived"
    /\ result[a] = "ended" => Hidden(a) = {}
    /\ \A x, y \in Hidden(a) : x = y
    /\ \A t \in Outside : <<a, t>> \in leftover => result[a] = "partial"
    /\ \A t, u \in Outside : <<a, t>> \in leftover /\ <<a, u>> \in leftover => t = u
    /\ Hidden(a) # {} => \A t \in Writers : <<a, t>> \notin leftover

RequestOk(a) ==
    /\ Reported(a)
    /\ pc[a] \in {"idle"} \union ArchiveSteps
    /\ result[a] \in {"none", "archived"}
    /\ pc[a] = "idle" => Hidden(a) = {}
    /\ pc[a] = "note" => made[a] = {}
    /\ pc[a] \in ArchiveSteps \ {"note"} => "note" \in made[a]
    /\ pc[a] = "remind" => "task" \in made[a]
    /\ made[a] # {} => "note" \in made[a]

ActorOk(a) == (a \in Agents => AgentOk(a)) /\ (a \in Requests => RequestOk(a))

(* The task line of the last writer is there from the moment it is made. *)
LineThere == \A a \in Requests : "task" \in made[a] /\ note.by = a => a \in note.tasks

OneRun == \A a, b \in Agents : pc[a] # "idle" /\ pc[b] # "idle" => a = b

(* A torn transcript was torn by a run that is writing it, that was cut off, *)
(* or that was told of the error.                                            *)
TornOk ==
    transcript = "torn" =>
        /\ writer \in Agents
        /\ pc[writer] = "write" \/ result[writer] = "partial" \/ fetched[writer] = "error"

IInv ==
    /\ TypeOK
    /\ \A a \in Actors : ActorOk(a)
    /\ LineThere /\ OneRun /\ TornOk

-----------------------------------------------------------------------------
Notes == [by : Actors \union {Nobody}, tasks : SUBSET Actors, exists : BOOLEAN]

LEMMA Note ==
  /\ [by |-> Nobody, tasks |-> {}, exists |-> FALSE] \in Notes
  /\ \A b \in Actors \union {Nobody} : Written(b) \in Notes
  /\ \A n \in Notes, b \in Actors : [n EXCEPT !.tasks = @ \union {b}] \in Notes
BY DEF Notes, Written

LEMMA InitIInv == Init => IInv
<1> SUFFICES ASSUME Init PROVE IInv
  OBVIOUS
<1>1. TypeOK
  <2>1. note \in Notes
    BY Note DEF Init
  <2>2. calls \in 0..MaxCalls
    BY AgentBounds DEF Init
  <2>3. QED
    BY <2>1, <2>2 DEF Init, TypeOK, Results, Notes
<1>2. \A a \in Actors : ActorOk(a)
  BY DEF Init, Actors, ActorOk, AgentOk, RequestOk, Reported, Hidden, ArchiveSteps
<1>3. LineThere /\ OneRun /\ TornOk
  BY DEF Init, Actors, LineThere, OneRun, TornOk
<1>4. QED
  BY <1>1, <1>2, <1>3 DEF IInv

-----------------------------------------------------------------------------
(* Types *)

LEMMA ToolType ==
  ASSUME TypeOK, NEW a \in Actors, ToolStep(a)
  PROVE  TypeOK'
<1> USE DEF TypeOK, Files, fetchVars, Busy, Tools, Effects
<1>1. ASSUME NEW tool, Return(a, tool) PROVE pc' \in [Actors -> {"idle"} \union Busy]
  BY <1>1 DEF Return, Go
<1>2. CASE FetchOpens(a)
  BY <1>2 DEF FetchOpens, Tear, Go
<1>3. CASE FetchFails(a) \/ FetchWrites(a) \/ FetchBreaks(a) \/ Summarize(a) \/ Judge(a) \/ EventFails(a) \/ NoTask(a)
  <2>1. PICK tool : Return(a, tool)
    BY <1>3 DEF FetchFails, FetchWrites, FetchBreaks, Tear, Answer, Summarize, Judge, EventFails, NoTask
  <2>2. pc' \in [Actors -> {"idle"} \union Busy]
    BY <1>1, <2>1
  <2>3. /\ UNCHANGED <<calls, made, said, result, leftover, note>>
        /\ transcript' \in {"missing", "torn", "whole"}
        /\ writer' \in Actors \union {Nobody}
        /\ fetched' \in [Actors -> {"nothing", "path", "error"}]
    BY <1>3 DEF FetchFails, FetchWrites, FetchBreaks, Tear, Answer, Summarize, Judge, EventFails, NoTask
  <2>4. QED
    BY <2>2, <2>3
<1>4. CASE WriteNote(a)
  <2>1. made' \in [Actors -> SUBSET Effects] /\ said' \in [Actors -> SUBSET Effects]
    BY <1>4 DEF WriteNote, Make, Confirm
  <2>2. note' \in Notes
    BY <1>4, Note DEF WriteNote
  <2>3. pc' \in [Actors -> {"idle"} \union Busy]
    BY <1>1, <1>4 DEF WriteNote
  <2>4. QED
    BY <1>4, <2>1, <2>2, <2>3 DEF WriteNote, Notes
<1>5. CASE NoteFails(a)
  <2>1. note' \in Notes
    <3>1. note' = note \/ note' = Written(Nobody)
      BY <1>5 DEF NoteFails
    <3>2. note \in Notes
      BY DEF Notes
    <3>3. Written(Nobody) \in Notes
      BY Note
    <3>4. QED
      BY <3>1, <3>2, <3>3
  <2>2. pc' \in [Actors -> {"idle"} \union Busy] /\ result' \in [Actors -> Results]
    <3>1. CASE a \in Agents
      BY <1>1, <1>5, <3>1 DEF NoteFails
    <3>2. CASE a \notin Agents
      BY <1>5, <3>2 DEF NoteFails, Go, Results
    <3>3. QED
      BY <3>1, <3>2
  <2>3. QED
    BY <1>5, <2>1, <2>2 DEF NoteFails, Notes
<1>6. CASE RecordEvent(a)
  <2>1. made' \in [Actors -> SUBSET Effects] /\ said' \in [Actors -> SUBSET Effects]
    BY <1>6 DEF RecordEvent, Make, Confirm
  <2>2. pc' \in [Actors -> {"idle"} \union Busy]
    BY <1>1, <1>6 DEF RecordEvent
  <2>3. QED
    BY <1>6, <2>1, <2>2 DEF RecordEvent
<1>7. CASE AppendTask(a)
  <2>1. made' \in [Actors -> SUBSET Effects]
    BY <1>7 DEF AppendTask, Make
  <2>2. note' \in Notes
    BY <1>7, Note DEF AppendTask, Notes
  <2>3. QED
    BY <1>7, <2>1, <2>2 DEF AppendTask, Go, Notes
<1>8. CASE Remind(a)
  <2>1. said' \in [Actors -> SUBSET Effects]
    BY <1>8 DEF Remind, Confirm
  <2>2. pc' \in [Actors -> {"idle"} \union Busy]
    BY <1>1, <1>8 DEF Remind
  <2>3. QED
    BY <1>8, <2>1, <2>2 DEF Remind
<1>9. QED
  BY <1>2, <1>3, <1>4, <1>5, <1>6, <1>7, <1>8 DEF ToolStep

LEMMA AgentType ==
  ASSUME TypeOK, NEW a \in Agents, AgentStep(a)
  PROVE  TypeOK'
<1> USE AgentBounds DEF TypeOK, Files, fetchVars, Actors
<1>1. CASE Begin(a)
  BY <1>1 DEF Begin, Go, Busy
<1>2. ASSUME NEW tool \in {"fetch", "summarize", "judge", "note", "event", "append"}, Call(a, tool)
      PROVE  TypeOK'
  <2>1. calls' \in 0..MaxCalls
    BY <1>2 DEF Call
  <2>2. QED
    BY <1>2, <2>1 DEF Call, Go, Busy, Tools
<1>3. CASE Report(a)
  BY <1>3 DEF Report, Go, Busy
<1>4. CASE Finish(a)
  BY <1>4 DEF Finish, Go, Results
<1>5. CASE CutOff(a)
  BY <1>5 DEF CutOff, Go, Results
<1>6. CASE LeftoverOpens(a)
  BY <1>6 DEF LeftoverOpens, Tear, Outside, Tools
<1>7. ASSUME NEW tool \in Outside, LeftoverTakesEffect(a, tool) PROVE TypeOK'
  <2>1. made' \in [Actors -> SUBSET Effects]
    BY <1>7 DEF LeftoverTakesEffect, Make, Effects
  <2>2. note' \in Notes
    BY <1>7, Note DEF LeftoverTakesEffect, Notes
  <2>3. QED
    BY <1>7, <2>1, <2>2 DEF LeftoverTakesEffect, Notes
<1>8. ASSUME NEW tool \in Outside, LeftoverVanishes(a, tool) PROVE TypeOK'
  <2>1. note' \in Notes
    BY <1>8, Note DEF LeftoverVanishes, Notes
  <2>2. QED
    BY <1>8, <2>1 DEF LeftoverVanishes, Tear, Notes
<1>9. QED
  BY <1>1, <1>2, <1>3, <1>4, <1>5, <1>6, <1>7, <1>8 DEF AgentStep

LEMMA RequestType ==
  ASSUME TypeOK, NEW a \in Requests, RequestStep(a)
  PROVE  TypeOK'
BY DEF RequestStep, Archive, RemindAgain, Archived, Go, TypeOK, Files, fetchVars, Actors, Busy, Tools, Results

-----------------------------------------------------------------------------
(* What a step of one actor leaves of the others *)

Same(b) ==
    /\ pc'[b] = pc[b] /\ made'[b] = made[b] /\ said'[b] = said[b] /\ result'[b] = result[b]
    /\ \A t \in Outside : <<b, t>> \in leftover' <=> <<b, t>> \in leftover

LEMMA SameOk ==
  ASSUME NEW b \in Actors, Same(b), ActorOk(b)
  PROVE  ActorOk(b)'
BY DEF Same, ActorOk, AgentOk, RequestOk, Reported, Hidden, Writers, Outside, Tools

LEMMA ToolFrame ==
  ASSUME TypeOK, NEW a \in Actors, ToolStep(a), NEW b \in Actors, b # a
  PROVE  Same(b)
<1> USE DEF TypeOK, Files, fetchVars, Same, Go, Return, Make, Confirm
<1>1. CASE FetchOpens(a) \/ FetchFails(a) \/ FetchWrites(a) \/ FetchBreaks(a) \/ Summarize(a) \/ Judge(a)
  BY <1>1 DEF FetchOpens, FetchFails, FetchWrites, FetchBreaks, Tear, Answer, Summarize, Judge
<1>2. CASE WriteNote(a)
  BY <1>2 DEF WriteNote
<1>3. CASE NoteFails(a)
  BY <1>3 DEF NoteFails
<1>4. CASE RecordEvent(a) \/ EventFails(a)
  BY <1>4 DEF RecordEvent, EventFails
<1>5. CASE AppendTask(a) \/ NoTask(a) \/ Remind(a)
  BY <1>5 DEF AppendTask, NoTask, Remind
<1>6. QED
  BY <1>1, <1>2, <1>3, <1>4, <1>5 DEF ToolStep

LEMMA AgentFrame ==
  ASSUME TypeOK, NEW a \in Agents, AgentStep(a), NEW b \in Actors, b # a
  PROVE  Same(b)
<1> USE DEF TypeOK, Files, fetchVars, Same, Go
<1>1. CASE Begin(a) \/ Report(a) \/ Finish(a)
  BY <1>1 DEF Begin, Report, Finish
<1>2. ASSUME NEW tool, Call(a, tool) PROVE Same(b)
  BY <1>2 DEF Call
<1>3. CASE CutOff(a)
  BY <1>3 DEF CutOff
<1>4. CASE LeftoverOpens(a)
  BY <1>4 DEF LeftoverOpens
<1>5. ASSUME NEW tool \in Outside, LeftoverTakesEffect(a, tool) PROVE Same(b)
  BY <1>5 DEF LeftoverTakesEffect, Make
<1>6. ASSUME NEW tool \in Outside, LeftoverVanishes(a, tool) PROVE Same(b)
  BY <1>6 DEF LeftoverVanishes
<1>7. QED
  BY <1>1, <1>2, <1>3, <1>4, <1>5, <1>6 DEF AgentStep

LEMMA RequestFrame ==
  ASSUME TypeOK, NEW a \in Requests, RequestStep(a), NEW b \in Actors, b # a
  PROVE  Same(b)
BY DEF RequestStep, Archive, RemindAgain, Archived, TypeOK, Files, Same, Go

-----------------------------------------------------------------------------
(* The actor that steps: an agent *)

(* A step that writes and reports nothing and does not end a run. *)
LEMMA AgentQuiet ==
  ASSUME TypeOK, NEW a \in Agents, AgentOk(a), NEW to \in Busy \ {"remind"}, Go(a, to),
         UNCHANGED <<made, said, result, leftover>>, result[a] = "none", Hidden(a) = {}
  PROVE  AgentOk(a)'
<1>1. pc'[a] = to /\ to \notin {"idle", "remind"}
  BY DEF TypeOK, Actors, Go, Busy, Tools
<1>2. Hidden(a)' = {} /\ result'[a] = "none"
  BY DEF Hidden
<1>3. QED
  BY <1>1, <1>2 DEF AgentOk, Reported

LEMMA AgentToolOk ==
  ASSUME TypeOK, NEW a \in Agents, AgentOk(a), ToolStep(a)
  PROVE  AgentOk(a)'
<1> USE DEF TypeOK, Actors, Files, fetchVars, Go
<1>1. pc[a] \in Tools /\ result[a] = "none" /\ \A t \in Outside : <<a, t>> \notin leftover
  <2>1. pc[a] \in Tools
    BY DEF ToolStep, Tools, FetchOpens, FetchFails, FetchWrites, FetchBreaks, Tear, Answer, Summarize, Judge, WriteNote,
       NoteFails, RecordEvent, EventFails, AppendTask, NoTask, Remind
  <2>2. result[a] = "none"
    BY <2>1 DEF AgentOk, Reported, Tools
  <2>3. QED
    BY <2>1, <2>2 DEF AgentOk
<1>2. pc[a] # "remind" => Hidden(a) = {}
  BY <1>1 DEF AgentOk, Reported, Tools
<1>3. ASSUME NEW tool, Return(a, tool) PROVE Go(a, "report")
  BY <1>3 DEF Return
<1>4. CASE FetchOpens(a)
  BY <1>1, <1>2, <1>4, AgentQuiet DEF FetchOpens, Busy, Tools
<1>5. CASE \/ FetchFails(a) \/ FetchWrites(a) \/ FetchBreaks(a) \/ Summarize(a) \/ Judge(a) \/ EventFails(a)
           \/ NoTask(a) \/ NoteFails(a)
  <2>1. /\ Go(a, "report") /\ UNCHANGED <<made, said, result, leftover>>
        /\ pc[a] # "remind"
    BY <1>3, <1>5 DEF FetchFails, FetchWrites, FetchBreaks, Tear, Answer, Summarize, Judge, EventFails, NoTask, NoteFails
  <2>2. QED
    BY <1>1, <1>2, <2>1, AgentQuiet DEF Busy
<1>6. ASSUME NEW e, made' = [made EXCEPT ![a] = @ \union {e}], pc[a] # "remind",
             Go(a, "report") \/ (e = "task" /\ Go(a, "remind")),
             UNCHANGED <<said, result, leftover>>
      PROVE  AgentOk(a)'
  <2>1. Hidden(a)' \subseteq {e} /\ said'[a] \subseteq made'[a]
    BY <1>2, <1>6 DEF Hidden, AgentOk, Reported
  <2>2. pc'[a] \in {"report", "remind"} /\ (pc'[a] = "remind" => e = "task")
    BY <1>6
  <2>3. QED
    BY <1>1, <1>6, <2>1, <2>2 DEF AgentOk, Reported, Writers, Outside, Tools
<1>7. CASE WriteNote(a)
  <2>1. Go(a, "report") /\ said' = said
    BY <1>3, <1>7 DEF WriteNote, Confirm
  <2>2. QED
    BY <1>6, <1>7, <2>1 DEF WriteNote, Make
<1>8. CASE RecordEvent(a)
  <2>1. Go(a, "report") /\ said' = said
    BY <1>3, <1>8 DEF RecordEvent, Confirm
  <2>2. QED
    BY <1>6, <1>8, <2>1 DEF RecordEvent, Make
<1>9. CASE AppendTask(a)
  BY <1>6, <1>9 DEF AppendTask, Make
<1>10. CASE Remind(a)
  <2>1. Go(a, "report") /\ UNCHANGED <<made, said, result, leftover>>
    BY <1>3, <1>10 DEF Remind, Confirm
  <2>2. Hidden(a)' = Hidden(a) /\ pc'[a] = "report"
    BY <2>1 DEF Hidden
  <2>3. QED
    BY <1>1, <2>1, <2>2 DEF AgentOk, Reported
<1>11. QED
  BY <1>4, <1>5, <1>7, <1>8, <1>9, <1>10 DEF ToolStep

LEMMA AgentStepOk ==
  ASSUME TypeOK, NEW a \in Agents, AgentOk(a), AgentStep(a)
  PROVE  AgentOk(a)'
<1> USE DEF TypeOK, Actors, Files, fetchVars, Go
<1>1. CASE Begin(a)
  <2>1. made[a] = {} /\ result[a] = "none"
    BY <1>1 DEF Begin, AgentOk, Reported
  <2>2. QED
    BY <1>1, <2>1, AgentQuiet DEF Begin, Busy, Hidden
<1>2. ASSUME NEW tool \in {"fetch", "summarize", "judge", "note", "event", "append"}, Call(a, tool)
      PROVE  AgentOk(a)'
  <2>1. Hidden(a) = {} /\ result[a] = "none"
    BY <1>2 DEF Call, AgentOk, Reported
  <2>2. tool \in Busy \ {"remind"}
    BY DEF Busy, Tools
  <2>3. QED
    BY <1>2, <2>1, <2>2, AgentQuiet DEF Call
<1>3. CASE Report(a)
  <2>1. result[a] = "none"
    BY <1>3 DEF Report, AgentOk, Reported
  <2>2. said'[a] = made[a] /\ made' = made /\ pc'[a] = "think"
    BY <1>3 DEF Report
  <2>3. Hidden(a)' = {}
    BY <2>2 DEF Hidden
  <2>4. QED
    BY <1>3, <2>1, <2>2, <2>3 DEF Report, AgentOk, Reported
<1>4. CASE Finish(a)
  <2>1. Hidden(a) = {} /\ \A t \in Outside : <<a, t>> \notin leftover
    BY <1>4 DEF Finish, AgentOk, Reported
  <2>2. Hidden(a)' = {} /\ result'[a] = "ended" /\ pc'[a] = "idle"
    BY <1>4, <2>1 DEF Finish, Hidden
  <2>3. QED
    BY <1>4, <2>1, <2>2 DEF Finish, AgentOk, Reported
<1>5. CASE CutOff(a)
  <2>1. /\ Hidden(a)' = Hidden(a) /\ result'[a] = "partial" /\ pc'[a] = "idle"
        /\ UNCHANGED <<made, said>>
    BY <1>5 DEF CutOff, Hidden
  <2>2. \A t \in Outside : <<a, t>> \notin leftover
    BY <1>5 DEF CutOff, AgentOk, Reported, Busy, Tools
  <2>3. \A t \in Outside : <<a, t>> \in leftover' => t = pc[a]
    BY <1>5, <2>2 DEF CutOff
  <2>4. Hidden(a) # {} => pc[a] \in {"report", "remind"}
    BY <1>5 DEF CutOff, AgentOk, Reported, Busy, Tools
  <2>5. QED
    BY <2>1, <2>3, <2>4 DEF AgentOk, Reported, Writers, Outside, Tools
<1>6. CASE LeftoverOpens(a)
  <2>1. "fetch" \in Outside /\ "write" \in Outside
    BY DEF Outside, Tools
  <2>2. \A t \in Outside : <<a, t>> \in leftover' => t = "write"
    BY <1>6, <2>1 DEF LeftoverOpens, AgentOk
  <2>3. result[a] = "partial" /\ UNCHANGED <<pc, made, said, result>>
    BY <1>6, <2>1 DEF LeftoverOpens, AgentOk
  <2>4. QED
    BY <2>2, <2>3 DEF AgentOk, Reported, Hidden, Writers, Outside, Tools
<1>7. ASSUME NEW tool \in Outside, LeftoverTakesEffect(a, tool) PROVE AgentOk(a)'
  <2>1. \A t \in Outside : <<a, t>> \notin leftover'
    BY <1>7 DEF LeftoverTakesEffect, AgentOk
  <2>2. result[a] = "partial" /\ pc[a] = "idle" /\ UNCHANGED <<pc, said, result>>
    BY <1>7 DEF LeftoverTakesEffect, AgentOk, Reported
  <2>3. CASE tool \in Writers
    <3>1. Hidden(a) = {}
      BY <1>7, <2>3 DEF LeftoverTakesEffect, AgentOk
    <3>2. PICK e : made'[a] = made[a] \union {e}
      BY <1>7, <2>3 DEF LeftoverTakesEffect, Writers, Make
    <3>3. Hidden(a)' \subseteq {e} /\ said'[a] \subseteq made'[a]
      BY <2>2, <3>1, <3>2 DEF Hidden, AgentOk, Reported
    <3>4. QED
      BY <2>1, <2>2, <3>3 DEF AgentOk, Reported, Writers, Outside, Tools
  <2>4. CASE tool \notin Writers
    <3>1. made' = made
      BY <1>7, <2>4 DEF LeftoverTakesEffect, Writers
    <3>2. QED
      BY <2>1, <2>2, <3>1 DEF AgentOk, Reported, Hidden, Writers, Outside, Tools
  <2>5. QED
    BY <2>3, <2>4
<1>8. ASSUME NEW tool \in Outside, LeftoverVanishes(a, tool) PROVE AgentOk(a)'
  BY <1>8 DEF LeftoverVanishes, AgentOk, Reported, Hidden, Writers, Outside, Tools
<1>9. QED
  BY <1>1, <1>2, <1>3, <1>4, <1>5, <1>6, <1>7, <1>8 DEF AgentStep

-----------------------------------------------------------------------------
(* The actor that steps: a request *)

LEMMA RequestToolOk ==
  ASSUME TypeOK, NEW a \in Requests, RequestOk(a), ToolStep(a)
  PROVE  RequestOk(a)'
<1> USE ActorsAssumption DEF TypeOK, Actors, Files, fetchVars, Go
<1>1. /\ pc[a] \in {"note", "event", "append", "remind"} /\ result[a] = "none"
      /\ a \notin Agents
  <2>1. pc[a] \in {"note", "event", "append", "remind"}
    BY DEF ToolStep, Tools, FetchOpens, FetchFails, FetchWrites, FetchBreaks, Tear, Answer, Summarize, Judge, WriteNote,
       NoteFails, RecordEvent, EventFails, AppendTask, NoTask, Remind, RequestOk, ArchiveSteps
  <2>2. QED
    BY <2>1 DEF RequestOk, Reported
<1>2. CASE WriteNote(a)
  <2>1. pc'[a] = "event" /\ result' = result
    BY <1>1, <1>2 DEF WriteNote, Return
  <2>2. made'[a] = {"note"} /\ said'[a] = {"note"}
    BY <1>1, <1>2 DEF WriteNote, Make, Confirm, RequestOk, Reported
  <2>3. QED
    BY <1>1, <2>1, <2>2 DEF RequestOk, Reported, Hidden, ArchiveSteps
<1>3. CASE NoteFails(a)
  <2>1. pc'[a] = "idle" /\ result'[a] = "archived" /\ UNCHANGED <<made, said>> /\ made[a] = {}
    BY <1>1, <1>3 DEF NoteFails, RequestOk
  <2>2. QED
    BY <2>1 DEF RequestOk, Reported, Hidden, ArchiveSteps
<1>4. CASE RecordEvent(a) \/ EventFails(a)
  <2>1. pc'[a] = "append" /\ result' = result /\ pc[a] = "event"
    BY <1>1, <1>4 DEF RecordEvent, EventFails, Return
  <2>2. PICK e \in SUBSET {"event"} : made'[a] = made[a] \union e /\ said'[a] = said[a] \union e
    <3>1. CASE RecordEvent(a)
      BY <1>1, <3>1 DEF RecordEvent, Make, Confirm
    <3>2. CASE EventFails(a)
      <4>1. UNCHANGED <<made, said>>
        BY <3>2 DEF EventFails
      <4>2. {} \in SUBSET {"event"} /\ made'[a] = made[a] \union {} /\ said'[a] = said[a] \union {}
        BY <4>1
      <4>3. QED
        BY <4>2
    <3>3. QED
      BY <1>4, <3>1, <3>2
  <2>3. Hidden(a) = {} /\ "note" \in made[a] /\ said[a] \subseteq made[a]
    BY <2>1 DEF RequestOk, Reported, ArchiveSteps
  <2>4. Hidden(a)' = {} /\ "note" \in made'[a] /\ said'[a] \subseteq made'[a]
    BY <2>2, <2>3 DEF Hidden
  <2>5. QED
    BY <1>1, <2>1, <2>4 DEF RequestOk, Reported, ArchiveSteps
<1>5. CASE AppendTask(a) \/ NoTask(a)
  <2>1. /\ pc[a] = "append" /\ result' = result /\ said' = said
        /\ pc'[a] \in {"remind", "remind again", "ending"}
    BY <1>1, <1>5 DEF AppendTask, NoTask, Return
  <2>2. Hidden(a) = {} /\ "note" \in made[a] /\ said[a] \subseteq made[a]
    BY <2>1 DEF RequestOk, Reported, ArchiveSteps
  <2>3. \/ made'[a] = made[a] /\ pc'[a] # "remind"
        \/ made'[a] = made[a] \union {"task"} /\ pc'[a] = "remind"
    <3>1. CASE AppendTask(a)
      BY <3>1 DEF AppendTask, Make
    <3>2. CASE NoTask(a)
      BY <1>1, <3>2 DEF NoTask, Return
    <3>3. QED
      BY <1>5, <3>1, <3>2
  <2>4. /\ Hidden(a)' \subseteq {"task"} /\ (pc'[a] # "remind" => Hidden(a)' = {})
        /\ "note" \in made'[a] /\ said'[a] \subseteq made'[a]
        /\ (pc'[a] = "remind" => "task" \in made'[a])
    BY <2>1, <2>2, <2>3 DEF Hidden
  <2>5. QED
    BY <1>1, <2>1, <2>4 DEF RequestOk, Reported, ArchiveSteps
<1>6. CASE Remind(a)
  <2>1. /\ pc[a] = "remind" /\ pc'[a] \in {"remind again", "ending"}
        /\ UNCHANGED <<result, made>>
    BY <1>1, <1>6 DEF Remind, Return
  <2>2. said'[a] = said[a] \union {"task"}
    BY <1>1, <1>6 DEF Remind, Confirm
  <2>3. Hidden(a)' = {}
    BY <2>1, <2>2 DEF RequestOk, Reported, Hidden
  <2>4. "task" \in made[a]
    BY <2>1 DEF RequestOk
  <2>5. QED
    BY <1>1, <2>1, <2>2, <2>3, <2>4 DEF RequestOk, Reported, ArchiveSteps
<1>7. QED
  BY <1>1, <1>2, <1>3, <1>4, <1>5, <1>6 DEF ToolStep, FetchOpens, FetchFails, FetchWrites, FetchBreaks, Tear, Answer, Summarize, Judge

LEMMA RequestStepOk ==
  ASSUME TypeOK, NEW a \in Requests, RequestOk(a), RequestStep(a)
  PROVE  RequestOk(a)'
<1> USE DEF TypeOK, Actors, Files, fetchVars, Go, RequestOk, Reported, Hidden, ArchiveSteps
<1>1. CASE Archive(a)
  BY <1>1 DEF Archive
<1>2. CASE RemindAgain(a)
  BY <1>2 DEF RemindAgain
<1>3. CASE Archived(a)
  BY <1>3 DEF Archived
<1>4. QED
  BY <1>1, <1>2, <1>3 DEF RequestStep

-----------------------------------------------------------------------------
(* What actors share: the note and the transcript *)

LEMMA ActorsOk ==
  ASSUME TypeOK, \A a \in Actors : ActorOk(a), [Next]_vars
  PROVE  \A a \in Actors : ActorOk(a)'
<1> USE ActorsAssumption DEF Actors
<1>1. ASSUME NEW a \in Actors, ToolStep(a) PROVE \A b \in Actors : ActorOk(b)'
  <2>1. ActorOk(a)'
    BY <1>1, AgentToolOk, RequestToolOk DEF ActorOk
  <2>2. \A b \in Actors : b # a => ActorOk(b)'
    BY <1>1, ToolFrame, SameOk
  <2>3. QED
    BY <2>1, <2>2
<1>2. ASSUME NEW a \in Agents, AgentStep(a) PROVE \A b \in Actors : ActorOk(b)'
  <2>1. ActorOk(a)'
    BY <1>2, AgentStepOk DEF ActorOk
  <2>2. \A b \in Actors : b # a => ActorOk(b)'
    BY <1>2, AgentFrame, SameOk
  <2>3. QED
    BY <2>1, <2>2
<1>3. ASSUME NEW a \in Requests, RequestStep(a) PROVE \A b \in Actors : ActorOk(b)'
  <2>1. ActorOk(a)'
    BY <1>3, RequestStepOk DEF ActorOk
  <2>2. \A b \in Actors : b # a => ActorOk(b)'
    BY <1>3, RequestFrame, SameOk
  <2>3. QED
    BY <2>1, <2>2
<1>4. CASE UNCHANGED vars
  BY <1>4, SameOk DEF vars, Same
<1>5. QED
  BY <1>1, <1>2, <1>3, <1>4 DEF Next

(* A step that writes no note keeps the lines, if tasks are made with them. *)
LEMMA LineKept ==
  ASSUME LineThere, UNCHANGED note,
         \A a \in Requests : "task" \in made'[a] => "task" \in made[a]
  PROVE  LineThere'
BY DEF LineThere

LEMMA LineTool ==
  ASSUME TypeOK, \A a \in Actors : ActorOk(a), LineThere, NEW a \in Actors, ToolStep(a)
  PROVE  LineThere'
<1> USE ActorsAssumption DEF TypeOK, Actors, Files, fetchVars, Go, Notes
<1>1. CASE \/ FetchOpens(a) \/ FetchFails(a) \/ FetchWrites(a) \/ FetchBreaks(a) \/ Summarize(a) \/ Judge(a)
           \/ EventFails(a) \/ NoTask(a) \/ Remind(a)
  BY <1>1, LineKept DEF FetchOpens, FetchFails, FetchWrites, FetchBreaks, Tear, Answer, Summarize, Judge, EventFails,
     NoTask, Remind
<1>2. CASE WriteNote(a)
  <2>1. note'.by = a /\ \A b \in Requests : b # a => made'[b] = made[b]
    BY <1>2 DEF WriteNote, Written, Make
  <2>2. a \in Requests => made'[a] = {"note"}
    BY <1>2 DEF WriteNote, Make, ActorOk, RequestOk
  <2>3. QED
    BY <2>1, <2>2 DEF LineThere
<1>3. CASE NoteFails(a)
  <2>1. made' = made /\ (note' = note \/ note'.by = Nobody)
    BY <1>3 DEF NoteFails, Written
  <2>2. QED
    BY <2>1 DEF LineThere
<1>4. CASE RecordEvent(a)
  <2>1. \A b \in Requests : "task" \in made'[b] => "task" \in made[b]
    BY <1>4 DEF RecordEvent, Make
  <2>2. QED
    BY <1>4, <2>1, LineKept DEF RecordEvent
<1>5. CASE AppendTask(a)
  <2>1. note'.by = note.by /\ note'.tasks = note.tasks \union {a}
    BY <1>5 DEF AppendTask
  <2>2. \A b \in Requests : b # a => made'[b] = made[b]
    BY <1>5 DEF AppendTask, Make
  <2>3. QED
    BY <2>1, <2>2 DEF LineThere
<1>6. QED
  BY <1>1, <1>2, <1>3, <1>4, <1>5 DEF ToolStep

LEMMA LineOther ==
  ASSUME TypeOK, LineThere,
         (\E a \in Agents : AgentStep(a)) \/ (\E a \in Requests : RequestStep(a))
  PROVE  LineThere'
<1> USE ActorsAssumption DEF TypeOK, Actors, Files, fetchVars, Notes
<1>1. ASSUME NEW a \in Agents, NEW tool \in Outside, LeftoverTakesEffect(a, tool)
      PROVE  LineThere'
  <2>1. \A b \in Requests : made'[b] = made[b] /\ b # a
    BY <1>1 DEF LeftoverTakesEffect, Make
  <2>2. \/ note' = note
        \/ note'.by = a
        \/ note'.by = note.by /\ note'.tasks = note.tasks \union {a}
    BY <1>1 DEF LeftoverTakesEffect, Written
  <2>3. QED
    BY <2>1, <2>2 DEF LineThere
<1>2. ASSUME NEW a \in Agents, AgentStep(a),
             ~ \E tool \in Outside : LeftoverTakesEffect(a, tool)
      PROVE  UNCHANGED made /\ (note' = note \/ note'.by = Nobody)
  <2>1. CASE \E tool \in Outside : LeftoverVanishes(a, tool)
    BY <2>1 DEF LeftoverVanishes, Written
  <2>2. CASE ~ \E tool \in Outside : LeftoverVanishes(a, tool)
    BY <1>2, <2>2 DEF AgentStep, Begin, Report, Finish, CutOff, LeftoverOpens, Call
  <2>3. QED
    BY <2>1, <2>2
<1>3. ASSUME NEW a \in Requests, RequestStep(a) PROVE UNCHANGED <<note, made>>
  BY <1>3 DEF RequestStep, Archive, RemindAgain, Archived
<1>4. ASSUME UNCHANGED made, note' = note \/ note'.by = Nobody PROVE LineThere'
  BY <1>4 DEF LineThere
<1>5. QED
  BY <1>1, <1>2, <1>3, <1>4 DEF AgentStep

LEMMA RunTool ==
  ASSUME IInv, NEW a \in Actors, ToolStep(a)
  PROVE  OneRun' /\ TornOk'
<1> USE ActorsAssumption DEF IInv, TypeOK, Actors, Files, fetchVars
<1>1. \A b \in Agents : pc'[b] # "idle" => pc[b] # "idle"
  <2>1. pc[a] # "idle"
    BY DEF ToolStep, FetchOpens, FetchFails, FetchWrites, FetchBreaks, Tear, Answer, Summarize, Judge, WriteNote,
       NoteFails, RecordEvent, EventFails, AppendTask, NoTask, Remind
  <2>2. \A b \in Agents : b # a => pc'[b] = pc[b]
    BY ToolFrame DEF Same
  <2>3. QED
    BY <2>1, <2>2
<1>2. UNCHANGED result \/ a \in Requests
  BY DEF ToolStep, FetchOpens, FetchFails, FetchWrites, FetchBreaks, Summarize, Judge, WriteNote,
     NoteFails, RecordEvent, EventFails, AppendTask, NoTask, Remind
<1>3. OneRun'
  BY <1>1 DEF OneRun
<1>4. a \in Requests => pc[a] \notin {"fetch", "write", "summarize"}
  BY DEF ActorOk, RequestOk, ArchiveSteps
<1>5. CASE FetchOpens(a)
  <2>1. a \in Agents /\ pc'[a] = "write" /\ writer' = a
    BY <1>4, <1>5 DEF FetchOpens, Go, Tear
  <2>2. QED
    BY <1>3, <2>1 DEF TornOk
<1>6. CASE FetchWrites(a)
  BY <1>3, <1>6 DEF FetchWrites, TornOk
<1>7. CASE FetchBreaks(a)
  <2>1. a \in Agents /\ fetched'[a] = "error" /\ writer' = a
    BY <1>4, <1>7 DEF FetchBreaks, Answer, Tear
  <2>2. QED
    BY <1>3, <2>1 DEF TornOk
<1>8. CASE ~(FetchOpens(a) \/ FetchWrites(a) \/ FetchBreaks(a))
  <2>1. UNCHANGED <<transcript, writer>> /\ pc[a] # "write"
    BY <1>8 DEF ToolStep, FetchFails, Summarize, Judge, WriteNote,
       NoteFails, RecordEvent, EventFails, AppendTask, NoTask, Remind
  <2>2. \A b \in Agents : fetched[b] = "error" => fetched'[b] = "error"
    BY <1>8 DEF ToolStep, FetchFails, Answer, Summarize, Judge, WriteNote,
       NoteFails, RecordEvent, EventFails, AppendTask, NoTask, Remind
  <2>3. \A b \in Agents : /\ pc[b] = "write" => pc'[b] = "write"
                          /\ result[b] = "partial" => result'[b] = "partial"
    <3>1. \A b \in Agents : b # a => pc'[b] = pc[b] /\ result'[b] = result[b]
      BY ToolFrame DEF Same
    <3>2. QED
      BY <1>2, <2>1, <3>1
  <2>4. QED
    BY <1>3, <2>1, <2>2, <2>3 DEF TornOk
<1>9. QED
  BY <1>5, <1>6, <1>7, <1>8

LEMMA RunAgent ==
  ASSUME IInv, NEW a \in Agents, AgentStep(a)
  PROVE  OneRun' /\ TornOk'
<1> USE DEF IInv, TypeOK, Actors, Files, fetchVars, Go
<1>1. \A b \in Agents : b # a => pc'[b] = pc[b] /\ result'[b] = result[b]
  BY AgentFrame DEF Same
<1>2. OneRun'
  <2>1. CASE Begin(a)
    BY <1>1, <2>1 DEF Begin, OneRun
  <2>2. CASE ~Begin(a)
    <3>1. pc'[a] # "idle" => pc[a] # "idle"
      BY <2>2 DEF AgentStep, Report, Finish, CutOff, LeftoverOpens, Call, LeftoverVanishes,
         LeftoverTakesEffect
    <3>2. QED
      BY <1>1, <3>1 DEF OneRun
  <2>3. QED
    BY <2>1, <2>2
(* A step of a run that is not the writer leaves the file's writer as it is. *)
<1>3. ASSUME UNCHANGED fetchVars, pc[a] # "write" \/ result'[a] = "partial",
             result'[a] = result[a] \/ result[a] # "partial"
      PROVE  TornOk'
  BY <1>1, <1>3 DEF TornOk
<1>4. CASE CutOff(a)
  <2>1. result'[a] = "partial"
    BY <1>4 DEF CutOff
  <2>2. result[a] # "partial"
    BY <1>4 DEF CutOff, ActorOk, AgentOk, Reported, Busy, Tools
  <2>3. UNCHANGED fetchVars
    BY <1>4 DEF CutOff
  <2>4. QED
    BY <1>2, <1>3, <2>1, <2>2, <2>3
<1>5. CASE LeftoverOpens(a)
  <2>1. result'[a] = "partial" /\ writer' = a
    BY <1>5 DEF LeftoverOpens, Tear, ActorOk, AgentOk, Outside, Tools
  <2>2. writer' \in Agents /\ result'[writer'] = "partial"
    BY <2>1
  <2>3. QED
    BY <1>2, <2>2 DEF TornOk
<1>6. ASSUME NEW tool \in Outside, LeftoverTakesEffect(a, tool) \/ LeftoverVanishes(a, tool)
      PROVE  TornOk'
  <2>1. result[a] = "partial" /\ UNCHANGED <<pc, result, fetched>>
    BY <1>6 DEF LeftoverTakesEffect, LeftoverVanishes, ActorOk, AgentOk
  <2>2. \/ transcript' = "whole"
        \/ UNCHANGED <<transcript, writer>>
        \/ writer' = a
    BY <1>6 DEF LeftoverTakesEffect, LeftoverVanishes, Tear
  <2>3. QED
    BY <2>1, <2>2 DEF TornOk
<1>7. ASSUME \/ Begin(a) \/ Report(a) \/ Finish(a)
             \/ \E tool \in {"fetch", "summarize", "judge", "note", "event", "append"} : Call(a, tool)
      PROVE  TornOk'
  <2>1. UNCHANGED fetchVars /\ pc[a] # "write" /\ result[a] # "partial"
    BY <1>7 DEF Begin, Report, Finish, Call, ActorOk, AgentOk, Reported
  <2>2. QED
    BY <1>3, <2>1
<1>8. QED
  BY <1>2, <1>4, <1>5, <1>6, <1>7 DEF AgentStep

LEMMA RunRequest ==
  ASSUME IInv, NEW a \in Requests, RequestStep(a)
  PROVE  OneRun' /\ TornOk'
<1>1. \A b \in Agents : pc'[b] = pc[b] /\ result'[b] = result[b]
  BY RequestFrame, ActorsAssumption DEF IInv, Same, Actors
<1>2. UNCHANGED fetchVars
  BY DEF RequestStep, Archive, RemindAgain, Archived, Files
<1>3. QED
  BY <1>1, <1>2 DEF IInv, OneRun, TornOk, fetchVars

LEMMA NextIInv == IInv /\ [Next]_vars => IInv'
<1> SUFFICES ASSUME IInv, [Next]_vars PROVE IInv'
  OBVIOUS
<1>1. \A a \in Actors : ActorOk(a)'
  BY ActorsOk DEF IInv
<1>2. ASSUME NEW a \in Actors, ToolStep(a) PROVE IInv'
  <2>1. TypeOK' /\ LineThere'
    BY <1>2, ToolType, LineTool DEF IInv
  <2>2. OneRun' /\ TornOk'
    BY <1>2, RunTool
  <2>3. QED
    BY <1>1, <2>1, <2>2 DEF IInv, Actors
<1>3. ASSUME NEW a \in Agents, AgentStep(a) PROVE IInv'
  <2>1. TypeOK' /\ LineThere'
    BY <1>3, AgentType, LineOther DEF IInv
  <2>2. OneRun' /\ TornOk'
    BY <1>3, RunAgent
  <2>3. QED
    BY <1>1, <2>1, <2>2 DEF IInv, Actors
<1>4. ASSUME NEW a \in Requests, RequestStep(a) PROVE IInv'
  <2>1. TypeOK' /\ LineThere'
    BY <1>4, RequestType, LineOther DEF IInv
  <2>2. OneRun' /\ TornOk'
    BY <1>4, RunRequest
  <2>3. QED
    BY <1>1, <2>1, <2>2 DEF IInv, Actors
<1>5. CASE UNCHANGED vars
  BY <1>1, <1>5 DEF vars, fetchVars, IInv, TypeOK, LineThere, OneRun, TornOk
<1>6. QED
  BY <1>2, <1>3, <1>4, <1>5 DEF Next

LEMMA Inductive == Spec => []IInv
<1>1. Init => IInv
  BY InitIInv
<1>2. IInv /\ [Next]_vars => IInv'
  BY NextIInv
<1>3. QED
  BY <1>1, <1>2, PTL DEF Spec

-----------------------------------------------------------------------------
(* Every reachable state has the stated types. *)
THEOREM TypeCorrect == Spec => []TypeOK
<1>1. IInv => TypeOK
  BY DEF IInv
<1>2. QED
  BY <1>1, Inductive, PTL

(* Answers of requests and results of runs that ended by themselves list   *)
(* exactly what was written.                                               *)
THEOREM OutcomesExact == Spec => []OutcomeIsExact
<1>1. IInv => OutcomeIsExact
  <2> SUFFICES ASSUME IInv, NEW a \in Actors
               PROVE  /\ said[a] \subseteq made[a]
                      /\ pc[a] = "idle" /\ result[a] # "partial" => Hidden(a) = {}
    BY DEF OutcomeIsExact
  <2>1. CASE a \in Agents
    BY <2>1 DEF IInv, TypeOK, Results, ActorOk, AgentOk, Reported, Hidden
  <2>2. CASE a \in Requests
    BY <2>2 DEF IInv, ActorOk, RequestOk, Reported
  <2>3. QED
    BY <2>1, <2>2 DEF Actors
<1>2. QED
  BY <1>1, Inductive, PTL

(* A run that was cut off hides at most one of its three writes. *)
THEOREM CutOffHidesOne == Spec => []CutOffHidesOneTool
<1>1. IInv => CutOffHidesOneTool
  <2> SUFFICES ASSUME IInv, NEW a \in Agents PROVE Cardinality(Hidden(a)) <= 1
    BY DEF CutOffHidesOneTool
  <2>1. \A x, y \in Hidden(a) : x = y
    BY DEF IInv, Actors, ActorOk, AgentOk
  <2>2. CASE Hidden(a) = {}
    BY <2>2, FS_EmptySet
  <2>3. CASE Hidden(a) # {}
    <3>1. PICK x : Hidden(a) = {x}
      BY <2>1, <2>3
    <3>2. QED
      BY <3>1, FS_Singleton
  <2>4. QED
    BY <2>2, <2>3
<1>2. QED
  BY <1>1, Inductive, PTL

(* A request that wrote anything wrote its note. *)
THEOREM NoteIsFirst == Spec => []NoteFirst
<1>1. IInv => NoteFirst
  BY DEF IInv, Actors, ActorOk, RequestOk, NoteFirst
<1>2. QED
  BY <1>1, Inductive, PTL

(* The task line of a request stays until the whole note is replaced. *)
THEOREM LineStays == Spec => []TaskLineStays
<1>1. IInv => TaskLineStays
  BY DEF IInv, Actors, ActorOk, RequestOk, Reported, LineThere, TaskLineStays
<1>2. QED
  BY <1>1, Inductive, PTL

(* A summary made from a torn transcript is one whose writer was cut off or *)
(* was told that its write failed.                                          *)
THEOREM TornFilesAreReported == Spec => []TornIsReported
<1>1. IInv => TornIsReported
  <2> SUFFICES ASSUME IInv, NEW a \in Agents, pc[a] = "summarize", transcript = "torn"
               PROVE  result[writer] = "partial" \/ fetched[writer] = "error"
    BY DEF TornIsReported
  <2>1. writer \in Agents /\ pc[writer] # "write"
    BY DEF IInv, OneRun, TornOk
  <2>2. QED
    BY <2>1 DEF IInv, TornOk
<1>2. QED
  BY <1>1, Inductive, PTL

=============================================================================
