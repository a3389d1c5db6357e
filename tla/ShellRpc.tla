------------------------------- MODULE ShellRpc -------------------------------
(***************************************************************************)
(* The JSON-RPC calls of the Tauri shell to its Python sidecar             *)
(* (src-tauri/src/app_state.rs, lib.rs): commands that call at the same    *)
(* time, the table of pending requests, the task that reads the sidecar's  *)
(* output, the 10 s limit, and the sidecar's one request loop, joined by   *)
(* two pipes that hold a bounded number of lines.                          *)
(*                                                                         *)
(* A request is its id.  A line of the output is the id of the request it  *)
(* answers, or Note for a notification.                                    *)
(***************************************************************************)
EXTENDS Naturals, Sequences

CONSTANTS
  Calls,     (* commands of the shell that may be under way together       *)
  MaxIds,    (* bound: requests ever sent                                  *)
  InCap,     (* lines the sidecar's stdin pipe holds                       *)
  OutCap,    (* lines its stdout pipe holds                                *)
  MaxNotes,  (* bound: notifications of the pipelines                      *)
  MaxStops   (* bound: deaths of the sidecar and read errors               *)

ASSUME PipeAssumption == InCap \in Nat \ {0} /\ OutCap \in Nat \ {0}
ASSUME RpcBounds == MaxIds \in Nat /\ MaxNotes \in Nat /\ MaxStops \in Nat

VARIABLES
  pc, id,      (* the calls: what comes next, and the id of the request    *)
  chan,        (* the oneshot channel of a call: the answer sent to it     *)
  result,      (* the answer a call returned, NoId if it returned an error *)
  nextId,
  pending,     (* pending[i]: the call whose sender is stored under i      *)
  handle,      (* AppState.sidecar holds a handle                          *)
  reading,     (* read_sidecar_stdout is in its loop                       *)
  alive,       (* the sidecar process                                      *)
  stdin, stdout,
  serving,     (* the request the sidecar's loop is handling               *)
  writing,     (* the line its event loop is writing, which blocks it      *)
  executed,    (* history: the ids whose handler ran since they were taken *)
  notes, stops

callVars    == <<pc, id, chan, result>>
tableVars   == <<nextId, pending, handle>>
sidecarVars == <<alive, serving, writing, executed, notes>>
vars == <<callVars, tableVars, reading, stdin, stdout, sidecarVars, stops>>

Ids    == 1..MaxIds
NoId   == 0
Note   == MaxIds + 1
Lines  == Ids \union {Note}
NoLine == 0
NoCall == "no call"
ASSUME CallAssumption == NoCall \notin Calls

Init ==
  /\ pc      = [c \in Calls |-> "idle"]
  /\ id      = [c \in Calls |-> NoId]
  /\ chan    = [c \in Calls |-> NoId]
  /\ result  = [c \in Calls |-> NoId]
  /\ nextId  = 1
  /\ pending = [i \in Ids |-> NoCall]
  /\ handle = TRUE /\ reading = TRUE /\ alive = TRUE
  /\ stdin = << >> /\ stdout = << >>
  /\ serving = NoId /\ writing = NoLine /\ executed = {}
  /\ notes = 0 /\ stops = 0

-----------------------------------------------------------------------------
(* send_request *)

(* Mutant: an id that is in no one's table entry is used again. *)
MutBegin(c) ==
  /\ pc[c] = "idle" /\ nextId \in Ids
  /\ \E i \in Ids :
       /\ i <= nextId /\ pending[i] = NoCall
       /\ \A j \in 1..(i - 1) : pending[j] # NoCall
       /\ id' = [id EXCEPT ![c] = i]
  /\ executed' = executed \ {id'[c]}
  /\ nextId' = nextId + 1
  /\ chan'   = [chan EXCEPT ![c] = NoId]
  /\ result' = [result EXCEPT ![c] = NoId]
  /\ pc'     = [pc EXCEPT ![c] = "insert"]
  /\ UNCHANGED <<pending, handle, reading, stdin, stdout, alive, serving, writing, notes, stops>>

Begin(c) ==
  /\ pc[c] = "idle" /\ nextId \in Ids
  /\ id'     = [id EXCEPT ![c] = nextId]
  /\ executed' = executed \ {id'[c]}
  /\ nextId' = nextId + 1
  /\ chan'   = [chan EXCEPT ![c] = NoId]
  /\ result' = [result EXCEPT ![c] = NoId]
  /\ pc'     = [pc EXCEPT ![c] = "insert"]
  /\ UNCHANGED <<pending, handle, reading, stdin, stdout, alive, serving, writing, notes, stops>>

Insert(c) ==
  /\ pc[c] = "insert"
  /\ pending' = [pending EXCEPT ![id[c]] = c]
  /\ pc'      = [pc EXCEPT ![c] = "stdin"]
  /\ UNCHANGED <<id, chan, result, nextId, handle, reading, stdin, stdout, sidecarVars, stops>>

(* The call is over: what is left is to take its entry away. *)
Ends(c, answer) ==
  /\ result' = [result EXCEPT ![c] = answer]
  /\ pc'     = [pc EXCEPT ![c] = "remove"]
  /\ UNCHANGED <<id, chan, tableVars, reading, stdin, stdout, sidecarVars, stops>>

(* write_sidecar clones the handle's stdin, and lets the handle go ...     *)
TakeStdin(c) ==
  /\ pc[c] = "stdin" /\ handle
  /\ pc' = [pc EXCEPT ![c] = "write"]
  /\ UNCHANGED <<id, chan, result, tableVars, reading, stdin, stdout, sidecarVars, stops>>

NotRunning(c) == pc[c] = "stdin" /\ ~handle /\ Ends(c, NoId)

(* ... before it writes the line, however long that takes.                 *)
Write(c) ==
  /\ pc[c] = "write" /\ alive /\ Len(stdin) < InCap
  /\ stdin' = Append(stdin, id[c])
  /\ pc'    = [pc EXCEPT ![c] = "wait"]
  /\ UNCHANGED <<id, chan, result, tableVars, reading, stdout, sidecarVars, stops>>

WriteFails(c) == pc[c] = "write" /\ ~alive /\ Ends(c, NoId)

Receive(c) == pc[c] = "wait" /\ chan[c] # NoId /\ Ends(c, chan[c])

(* Mutant: no limit once the sidecar has gone. *)
MutTimeout(c) == pc[c] = "wait" /\ chan[c] = NoId /\ handle /\ Ends(c, NoId)

(* Mutant: a call that got no answer in time sends its request once more. *)
MutRetry(c) ==
  /\ pc[c] = "wait" /\ chan[c] = NoId
  /\ pc' = [pc EXCEPT ![c] = "stdin"]
  /\ UNCHANGED <<id, chan, result, tableVars, reading, stdin, stdout, sidecarVars, stops>>

Timeout(c) == pc[c] = "wait" /\ chan[c] = NoId /\ Ends(c, NoId)

(* Mutant: a call that timed out leaves its entry for the late answer. *)
MutRemove(c) ==
  /\ pc[c] = "remove"
  /\ pending' = IF result[c] = NoId THEN pending ELSE [pending EXCEPT ![id[c]] = NoCall]
  /\ pc'      = [pc EXCEPT ![c] = "idle"]
  /\ UNCHANGED <<id, chan, result, nextId, handle, reading, stdin, stdout, sidecarVars, stops>>

Remove(c) ==
  /\ pc[c] = "remove"
  /\ pending' = [pending EXCEPT ![id[c]] = NoCall]
  /\ pc'      = [pc EXCEPT ![c] = "idle"]
  /\ UNCHANGED <<id, chan, result, nextId, handle, reading, stdin, stdout, sidecarVars, stops>>

-----------------------------------------------------------------------------
(* read_sidecar_stdout *)

(* complete_request: the entry goes, and its channel gets the answer; a    *)
(* receiver that has stopped waiting is gone.                              *)
Complete(i) ==
  LET c == pending[i] IN
  IF c = NoCall THEN UNCHANGED <<pending, chan>>
  ELSE /\ pending' = [pending EXCEPT ![i] = NoCall]
       /\ chan'    = IF pc[c] = "remove" THEN chan ELSE [chan EXCEPT ![c] = i]

ReadLine ==
  /\ reading /\ stdout # << >>
  /\ stdout' = Tail(stdout)
  /\ IF Head(stdout) \in Ids THEN Complete(Head(stdout)) ELSE UNCHANGED <<pending, chan>>
  /\ UNCHANGED <<pc, id, result, nextId, handle, reading, stdin, sidecarVars, stops>>

(* The end of the output; the pending requests are left to their limit.    *)
ReadEnd ==
  /\ reading /\ stdout = << >> /\ ~alive
  /\ handle' = FALSE /\ reading' = FALSE
  /\ UNCHANGED <<callVars, nextId, pending, stdin, stdout, sidecarVars, stops>>

(* An error of the read ends the loop the same way, with output unread.    *)
ReadFails ==
  /\ reading /\ stops < MaxStops
  /\ stops' = stops + 1
  /\ handle' = FALSE /\ reading' = FALSE
  /\ UNCHANGED <<callVars, nextId, pending, stdin, stdout, sidecarVars>>

-----------------------------------------------------------------------------
(* The sidecar: one event loop, which a write to a full pipe blocks *)

Serve ==
  /\ alive /\ writing = NoLine /\ serving = NoId /\ stdin # << >>
  /\ serving' = Head(stdin)
  /\ stdin'   = Tail(stdin)
  /\ UNCHANGED <<callVars, tableVars, reading, stdout, alive, writing, executed, notes, stops>>

(* The handler returns or raises: either way there is one answer.          *)
Answer ==
  /\ alive /\ writing = NoLine /\ serving # NoId
  /\ executed' = executed \union {serving}
  /\ writing'  = serving
  /\ serving'  = NoId
  /\ UNCHANGED <<callVars, tableVars, reading, stdin, stdout, alive, notes, stops>>

(* A pipeline run sends a notification. *)
Notify ==
  /\ alive /\ writing = NoLine /\ notes < MaxNotes
  /\ notes'   = notes + 1
  /\ writing' = Note
  /\ UNCHANGED <<callVars, tableVars, reading, stdin, stdout, alive, serving, executed, stops>>

WriteLine ==
  /\ alive /\ writing # NoLine /\ Len(stdout) < OutCap
  /\ stdout'  = Append(stdout, writing)
  /\ writing' = NoLine
  /\ UNCHANGED <<callVars, tableVars, reading, stdin, alive, serving, executed, notes, stops>>

(* With the handle go the pipes: the sidecar's loop ends at the end of its *)
(* input, or at a write that no one reads.                                 *)
Disconnected ==
  /\ alive /\ ~handle
  /\ alive' = FALSE
  /\ UNCHANGED <<callVars, tableVars, reading, stdin, stdout, serving, writing, executed, notes, stops>>

Die ==
  /\ alive /\ stops < MaxStops
  /\ stops' = stops + 1
  /\ alive' = FALSE
  /\ UNCHANGED <<callVars, tableVars, reading, stdin, stdout, serving, writing, executed, notes>>

-----------------------------------------------------------------------------
CallStep(c)  == \/ Insert(c) \/ TakeStdin(c) \/ NotRunning(c) \/ Write(c) \/ WriteFails(c)
                \/ Receive(c) \/ Timeout(c) \/ Remove(c)
ReaderStep   == ReadLine \/ ReadEnd
SidecarStep  == Serve \/ Answer \/ WriteLine \/ Disconnected

Next ==
  \/ \E c \in Calls : Begin(c) \/ CallStep(c)
  \/ ReaderStep \/ ReadFails
  \/ SidecarStep \/ Notify \/ Die

Spec == Init /\ [][Next]_vars

(* The runtimes of both processes run what is ready, and a timer fires.    *)
FairSpec ==
  /\ Spec
  /\ \A c \in Calls : WF_vars(CallStep(c))
  /\ WF_vars(ReaderStep)
  /\ WF_vars(SidecarStep)

-----------------------------------------------------------------------------
CallPc   == {"idle", "insert", "stdin", "write", "wait", "remove"}
InFlight == CallPc \ {"idle"}

(* Every variable has its type. *)
TypeOK ==
  /\ pc      \in [Calls -> CallPc]
  /\ id      \in [Calls -> Ids \union {NoId}]
  /\ chan    \in [Calls -> Ids \union {NoId}]
  /\ result  \in [Calls -> Ids \union {NoId}]
  /\ nextId  \in 1..(MaxIds + 1)
  /\ pending \in [Ids -> Calls \union {NoCall}]
  /\ handle \in BOOLEAN /\ reading \in BOOLEAN /\ alive \in BOOLEAN
  /\ stdin  \in Seq(Ids) /\ stdout \in Seq(Lines)
  /\ serving \in Ids \union {NoId} /\ writing \in Lines \union {NoLine}
  /\ executed \subseteq Ids
  /\ notes \in 0..MaxNotes /\ stops \in 0..MaxStops
  /\ \A c \in Calls : pc[c] # "idle" => id[c] \in Ids

(* A call that returns an answer returns the answer to its own request,    *)
(* whose handler ran since the call began: also when earlier requests      *)
(* timed out and their answers arrive late.                                *)
OwnAnswer ==
  \A c \in Calls : pc[c] = "remove" /\ result[c] # NoId =>
    result[c] = id[c] /\ id[c] \in executed

(* An entry of the table belongs to a call that is under way: neither a    *)
(* timeout, nor an error, nor a dead sidecar leaves one behind.            *)
NoLeak ==
  \A i \in Ids : pending[i] # NoCall => id[pending[i]] = i /\ pc[pending[i]] \in InFlight

(* A call that waits can be reached: it has its answer, or its entry is in *)
(* the table, put there before the request was written.                    *)
WaiterIsReachable ==
  \A c \in Calls : pc[c] \in {"stdin", "write", "wait"} => chan[c] # NoId \/ pending[id[c]] = c

(* How far the sidecar is with request i. *)
StageOf(i) == IF serving = i THEN "running"
              ELSE IF i \in executed THEN "ran"
              ELSE IF i < nextId THEN "asked" ELSE "fresh"

Remote == INSTANCE RemoteCall WITH
  Requests  <- Ids,
  NoRequest <- NoId,
  stage     <- [i \in Ids |-> StageOf(i)],
  of        <- [c \in Calls |-> IF pc[c] = "idle" THEN NoId ELSE id[c]],
  over      <- [c \in Calls |-> pc[c] = "remove"],
  answer    <- [c \in Calls |-> IF pc[c] = "remove" THEN result[c] ELSE NoId]

(* The calls implement RemoteCall: whatever times out, fails or arrives    *)
(* late, a request is handled at most once and a call ends once, with the  *)
(* answer to its own request or with an error.                             *)
ImplementsRemoteCall == Remote!Spec

(* Under FairSpec every call ends, also when both pipes fill up, when      *)
(* notifications delay the answers and when the sidecar dies.              *)
CallsEnd == \A c \in Calls : pc[c] # "idle" ~> pc[c] = "idle"
=============================================================================
