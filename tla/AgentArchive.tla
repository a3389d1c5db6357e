----------------------------- MODULE AgentArchive -----------------------------
(***************************************************************************)
(* What is written for one video: by the summary agent, whose language     *)
(* model calls the tools of summarizers/agent/tools.py in any order it     *)
(* likes, and by the archive route, which calls them in the order of       *)
(* archive/service.py.  Files and rows of two videos have nothing in       *)
(* common, so one video is enough.                                         *)
(*                                                                         *)
(* The queue's worker runs one agent at a time.  A run that is cut off     *)
(* after 300 s leaves what a thread, the database driver or osascript was  *)
(* doing for it to finish by itself: such leftovers meet the next run.     *)
(***************************************************************************)
EXTENDS Naturals, FiniteSets

CONSTANTS
    Agents,    \* runs of run_summary_pipeline
    Requests,  \* requests to archive the video by hand
    Nobody,    \* the writer of a note that is missing or was left empty
    Mac,       \* sys.platform = "darwin"
    MaxCalls   \* max_iterations of the executor

ASSUME ActorsAssumption == Agents \intersect Requests = {} /\ Nobody \notin Agents \union Requests
ASSUME AgentBounds      == Mac \in BOOLEAN /\ MaxCalls \in Nat

VARIABLES
    pc,         \* pc[a]: the tool actor a is in, or between tools, or not running
    calls,      \* tool calls of the agent's run so far
    made,       \* made[a]: what a wrote: note, event, task line
    said,       \* said[a]: what of it a's tools have reported back
    result,     \* result[a]: how the run or the request ended
    leftover,   \* <<a, tool>>: work of a run that was cut off, still going on
    transcript, \* the transcript file: missing, torn (emptied, in part there), or whole
    writer,     \* the run that tore it (auxiliary)
    fetched,    \* fetched[a]: what the last fetch of a's run answered
    note        \* the note: who wrote it last, whose task lines it holds

fetchVars == <<transcript, writer, fetched>>
vars == <<pc, calls, made, said, result, leftover, fetchVars, note>>

Actors  == Agents \union Requests
Effects == {"note", "event", "task"}
Tools   == {"fetch", "write", "summarize", "judge", "note", "event", "append", "remind"}
Outside == Tools \ {"summarize", "judge"}   \* these work in threads, the driver or osascript
Busy    == {"think", "report", "remind again", "ending"} \union Tools
Results == {"none", "ended", "partial", "archived"}

Init ==
    /\ pc = [a \in Actors |-> "idle"]
    /\ calls = 0
    /\ made = [a \in Actors |-> {}]
    /\ said = [a \in Actors |-> {}]
    /\ result = [a \in Actors |-> "none"]
    /\ leftover = {}
    /\ transcript = "missing"
    /\ writer = Nobody
    /\ fetched = [a \in Actors |-> "nothing"]
    /\ note = [by |-> Nobody, tasks |-> {}, exists |-> FALSE]

Files == <<fetchVars, note>>

Go(a, to) == pc' = [pc EXCEPT ![a] = to]

\* A tool of a returns: to the callback that records the step, or to the archive
\* service, which goes on with the next.
Return(a, tool) ==
    Go(a, IF a \in Agents THEN "report"
          ELSE IF tool = "note" THEN "event"
          ELSE IF tool = "event" THEN "append"
          ELSE IF Mac THEN "remind again" ELSE "ending")

Make(a, e)    == made' = [made EXCEPT ![a] = @ \union e]
Confirm(a, e) == said' = IF a \in Agents THEN said ELSE [said EXCEPT ![a] = @ \union e]

(* ------------------------------ the agent ------------------------------ *)

\* The worker starts a run; it runs one at a time.
Begin(a) ==
    /\ pc[a] = "idle" /\ result[a] = "none"
    /\ \A b \in Agents : pc[b] = "idle"
    /\ Go(a, "think")
    /\ UNCHANGED <<calls, made, said, result, leftover, Files>>

\* The model asks for a tool.
Call(a, tool) ==
    /\ pc[a] = "think" /\ calls < MaxCalls
    /\ calls' = calls + 1
    /\ Go(a, tool)
    /\ UNCHANGED <<made, said, result, leftover, Files>>

\* _StepCaptureCallback: the step is recorded after the tool has returned.
Report(a) ==
    /\ pc[a] = "report"
    /\ said' = [said EXCEPT ![a] = made[a]]
    /\ Go(a, "think")
    /\ UNCHANGED <<calls, made, result, leftover, Files>>

\* The model answers, the executor stops it at max_iterations, or the model's
\* endpoint raises: the result lists the steps that were recorded.
Finish(a) ==
    /\ pc[a] = "think"
    /\ Go(a, "idle")
    /\ calls' = 0
    /\ result' = [result EXCEPT ![a] = "ended"]
    /\ UNCHANGED <<made, said, leftover, Files>>

MutCutOff(a) ==
    /\ a \in Agents /\ pc[a] \in Busy
    /\ Go(a, "idle")
    /\ calls' = 0
    /\ result' = [result EXCEPT ![a] = "partial"]
    /\ said' = [said EXCEPT ![a] = {}]
    /\ leftover' = leftover \union ({<<a, pc[a]>>} \intersect (Agents \X Outside))
    /\ UNCHANGED <<made, Files>>

\* wait_for cancels the run after 300 s.  The steps captured so far are kept;
\* what is running outside the event loop runs on.
CutOff(a) ==
    /\ a \in Agents /\ pc[a] \in Busy
    /\ Go(a, "idle")
    /\ calls' = 0
    /\ result' = [result EXCEPT ![a] = "partial"]
    /\ leftover' = leftover \union ({<<a, pc[a]>>} \intersect (Agents \X Outside))
    /\ UNCHANGED <<made, said, Files>>

(* ------------------------------ transcript ----------------------------- *)

\* The file is opened for writing, which empties it, and is torn until all is written.
Tear(a) == transcript' = "torn" /\ writer' = a

\* What the fetch answers: the path of the file, or "[ERROR]".
Answer(a, what) == fetched' = [fetched EXCEPT ![a] = what]

\* Subtitles with a cookie, public ones, or Whisper: some text is found.
FetchOpens(a) ==
    /\ pc[a] = "fetch"
    /\ Tear(a)
    /\ Go(a, "write")
    /\ UNCHANGED <<calls, made, said, result, leftover, fetched, note>>

\* No source has text, a call fails, or the file cannot be opened: it is as it was.
FetchFails(a) ==
    /\ pc[a] = "fetch"
    /\ Answer(a, "error")
    /\ Return(a, "fetch")
    /\ UNCHANGED <<calls, made, said, result, leftover, transcript, writer, note>>

FetchWrites(a) ==
    /\ pc[a] = "write"
    /\ transcript' = "whole"
    /\ Answer(a, "path")
    /\ Return(a, "write")
    /\ UNCHANGED <<calls, made, said, result, leftover, writer, note>>

MutFetchBreaks(a) ==
    /\ pc[a] = "write"
    /\ Tear(a)
    /\ Answer(a, "path")
    /\ Return(a, "write")
    /\ UNCHANGED <<calls, made, said, result, leftover, note>>

\* The write fails midway.  The error is caught, the file stays torn.
FetchBreaks(a) ==
    /\ pc[a] = "write"
    /\ Tear(a)
    /\ Answer(a, "error")
    /\ Return(a, "write")
    /\ UNCHANGED <<calls, made, said, result, leftover, note>>

\* summarize reads the file, whatever is in it; without text it reports an error.
Summarize(a) ==
    /\ pc[a] = "summarize"
    /\ Return(a, "summarize")
    /\ UNCHANGED <<calls, made, said, result, leftover, Files>>

\* judge_tech_relevance writes nothing, and no tool asks for its verdict.
Judge(a) ==
    /\ pc[a] = "judge"
    /\ Return(a, "judge")
    /\ UNCHANGED <<calls, made, said, result, leftover, Files>>

(* ------------------------------- the note ------------------------------ *)

\* A note replaces the one of the same name, task lines included.
Written(a) == [by |-> a, tasks |-> {}, exists |-> TRUE]

WriteNote(a) ==
    /\ pc[a] = "note"
    /\ note' = Written(a)
    /\ Make(a, {"note"})
    /\ Confirm(a, {"note"})
    /\ Return(a, "note")
    /\ UNCHANGED <<calls, result, leftover, fetchVars>>

\* The write fails, before the file is opened or after.  The archive ends here.
NoteFails(a) ==
    /\ pc[a] = "note"
    /\ \/ UNCHANGED note
       \/ note' = Written(Nobody)
    /\ IF a \in Agents
       THEN Return(a, "note") /\ UNCHANGED result
       ELSE Go(a, "idle") /\ result' = [result EXCEPT ![a] = "archived"]
    /\ UNCHANGED <<calls, made, said, leftover, fetchVars>>

(* ------------------------------ the event ------------------------------ *)

\* The row of the video is there, once, and has a creator: an event, committed.
RecordEvent(a) ==
    /\ pc[a] = "event"
    /\ Make(a, {"event"})
    /\ Confirm(a, {"event"})
    /\ Return(a, "event")
    /\ UNCHANGED <<calls, result, leftover, Files>>

MutEventFails(a) ==
    /\ pc[a] = "event"
    /\ Make(a, {"event"})
    /\ Return(a, "event")
    /\ UNCHANGED <<calls, said, result, leftover, Files>>

\* It is not, or there are several (scalar_one_or_none raises), or the database
\* does: no event.
EventFails(a) ==
    /\ pc[a] = "event"
    /\ Return(a, "event")
    /\ UNCHANGED <<calls, made, said, result, leftover, Files>>

(* -------------------------- task and reminder -------------------------- *)

MutAppendTask(a) ==
    /\ pc[a] = "append" /\ note.exists
    /\ note' = [note EXCEPT !.tasks = {a}]
    /\ Make(a, {"task"})
    /\ Go(a, "remind")
    /\ UNCHANGED <<calls, said, result, leftover, fetchVars>>

\* send_notification: the task line is appended to a note that is there.
AppendTask(a) ==
    /\ pc[a] = "append" /\ note.exists
    /\ note' = [note EXCEPT !.tasks = @ \union {a}]
    /\ Make(a, {"task"})
    /\ Go(a, "remind")
    /\ UNCHANGED <<calls, said, result, leftover, fetchVars>>

NoTask(a) ==
    /\ pc[a] = "append"
    /\ Return(a, "append")
    /\ UNCHANGED <<calls, made, said, result, leftover, Files>>

\* create_reminder: osascript answers in time, or it fails, or it is killed after
\* five seconds, when it may have made the reminder all the same.  Whatever comes of
\* it, the task is reported; no row and no file holds the reminder.
Remind(a) ==
    /\ pc[a] = "remind"
    /\ Confirm(a, {"task"})
    /\ Return(a, "append")
    /\ UNCHANGED <<calls, made, result, leftover, Files>>

\* archive_three_way makes a reminder of its own after send_notification has.
RemindAgain(a) ==
    /\ pc[a] = "remind again"
    /\ Go(a, "ending")
    /\ UNCHANGED <<calls, made, said, result, leftover, Files>>

(* ------------------------- requests and leftovers ---------------------- *)

\* A request to archive the video; a later one is not refused.
Archive(a) ==
    /\ pc[a] = "idle" /\ result[a] = "none"
    /\ Go(a, "note")
    /\ UNCHANGED <<calls, made, said, result, leftover, Files>>

\* The request is answered with what its tools reported.
Archived(a) ==
    /\ pc[a] = "ending"
    /\ Go(a, "idle")
    /\ result' = [result EXCEPT ![a] = "archived"]
    /\ UNCHANGED <<calls, made, said, leftover, Files>>

\* What a run left behind goes on.  The thread of a fetch may have yet to open
\* its file.
LeftoverOpens(a) ==
    /\ <<a, "fetch">> \in leftover
    /\ Tear(a)
    /\ leftover' = (leftover \ {<<a, "fetch">>}) \union {<<a, "write">>}
    /\ UNCHANGED <<pc, calls, made, said, result, fetched, note>>

\* It writes what it had in hand after all.
LeftoverTakesEffect(a, tool) ==
    /\ <<a, tool>> \in leftover
    /\ leftover' = leftover \ {<<a, tool>>}
    /\ \/ /\ tool = "write" /\ transcript' = "whole"
          /\ UNCHANGED <<made, note>>
       \/ /\ tool = "note" /\ note' = Written(a) /\ Make(a, {"note"})
          /\ UNCHANGED transcript
       \/ /\ tool = "event" /\ Make(a, {"event"})
          /\ UNCHANGED <<transcript, note>>
       \/ /\ tool = "append" /\ note.exists /\ Make(a, {"task"})
          /\ note' = [note EXCEPT !.tasks = @ \union {a}] /\ UNCHANGED transcript
    /\ UNCHANGED <<pc, calls, said, result, writer, fetched>>

\* Or it comes to nothing: cancelled before it began, or failed, and a write that
\* fails may leave its file torn.
LeftoverVanishes(a, tool) ==
    /\ <<a, tool>> \in leftover
    /\ leftover' = leftover \ {<<a, tool>>}
    /\ \/ UNCHANGED Files
       \/ tool = "write" /\ Tear(a) /\ UNCHANGED <<fetched, note>>
       \/ tool = "note" /\ note' = Written(Nobody) /\ UNCHANGED fetchVars
    /\ UNCHANGED <<pc, calls, made, said, result>>

(* ---------------------------- specification ---------------------------- *)

ToolStep(a) ==
    \/ FetchOpens(a) \/ FetchFails(a) \/ FetchWrites(a) \/ FetchBreaks(a)
    \/ Summarize(a) \/ Judge(a)
    \/ WriteNote(a) \/ NoteFails(a) \/ RecordEvent(a) \/ EventFails(a)
    \/ AppendTask(a) \/ NoTask(a) \/ Remind(a)

AgentStep(a) ==
    \/ Begin(a) \/ Report(a) \/ Finish(a) \/ CutOff(a) \/ LeftoverOpens(a)
    \/ \E tool \in {"fetch", "summarize", "judge", "note", "event", "append"} : Call(a, tool)
    \/ \E tool \in Outside : LeftoverTakesEffect(a, tool) \/ LeftoverVanishes(a, tool)

RequestStep(a) == Archive(a) \/ RemindAgain(a) \/ Archived(a)

Next ==
    \/ \E a \in Actors : ToolStep(a)
    \/ \E a \in Agents : AgentStep(a)
    \/ \E a \in Requests : RequestStep(a)

Spec == Init /\ [][Next]_vars

(* ------------------------------ properties ----------------------------- *)

\* Types; no run calls more than max_iterations tools.
TypeOK ==
    /\ pc \in [Actors -> {"idle"} \union Busy]
    /\ calls \in 0..MaxCalls
    /\ made \in [Actors -> SUBSET Effects]
    /\ said \in [Actors -> SUBSET Effects]
    /\ result \in [Actors -> Results]
    /\ leftover \subseteq Agents \X Outside
    /\ transcript \in {"missing", "torn", "whole"}
    /\ writer \in Actors \union {Nobody}
    /\ fetched \in [Actors -> {"nothing", "path", "error"}]
    /\ note \in [by : Actors \union {Nobody}, tasks : SUBSET Actors, exists : BOOLEAN]

\* What actor a has written and nobody was told of.
Hidden(a) == made[a] \ said[a]

\* An archive request is answered with exactly what it wrote, whichever of the
\* three writes failed, and a run that ended by itself lists every note, event
\* and task line it made: no tool fails after it has written.
OutcomeIsExact ==
    \A a \in Actors :
        /\ said[a] \subseteq made[a]
        /\ pc[a] = "idle" /\ result[a] # "partial" => Hidden(a) = {}

\* A run that was cut off kept the steps it had recorded (runner.py, L7): what it
\* does not list is the one tool that was under way, whenever that takes effect.
CutOffHidesOneTool ==
    \A a \in Agents : result[a] = "partial" => Cardinality(Hidden(a)) <= 1

\* A request writes no event and no task line unless it wrote its note.
NoteFirst == \A a \in Requests : made[a] # {} => "note" \in made[a]

\* An archive that was told its task line was written can find it in the note,
\* unless someone has replaced the whole note since.
TaskLineStays ==
    \A a \in Requests : "task" \in said[a] /\ note.by = a => a \in note.tasks

\* When a summary is about to be made from a transcript that is not whole, the run
\* that tore it was cut off, so that its thread still writes or has stopped, or was
\* answered "[ERROR]": no run is given the path of a file that it left torn.
TornIsReported ==
    \A a \in Agents : pc[a] = "summarize" /\ transcript = "torn" =>
        result[writer] = "partial" \/ fetched[writer] = "error"

=============================================================================
