---------------------------- MODULE ShellRpcProofs ----------------------------
(***************************************************************************)
(* Proofs about ShellRpc, for any set of concurrent calls and pipes of any *)
(* size: TypeOK, OwnAnswer, NoLeak, WaiterIsReachable, and that it         *)
(* implements RemoteCall.                                                  *)
(*                                                                         *)
(* They rest on one fact: an id is below the counter from the moment a     *)
(* call takes it, no two calls under way share one, and so a line of the   *)
(* pipes can only concern the call that took its id.  The refinement needs *)
(* that a request is at one place only (SentOnce): with its call, in the   *)
(* pipe, with the sidecar's loop, or handled.                              *)
(***************************************************************************)
EXTENDS ShellRpc, SequenceTheorems, TLAPS

(* Ids that calls took are old, and no two calls under way share one. *)
IdsTaken ==
  /\ \A c \in Calls : pc[c] # "idle" => id[c] < nextId
  /\ \A c, d \in Calls : pc[c] # "idle" /\ pc[d] # "idle" /\ id[c] = id[d] => c = d

(* What a channel holds is the answer to its call's request. *)
ChannelOwn ==
  \A c \in Calls : pc[c] # "idle" /\ chan[c] # NoId => chan[c] = id[c] /\ id[c] \in executed

(* Requests on their way, and executed ones, carry old ids. *)
RequestsOld ==
  /\ \A i \in 1..Len(stdin) : stdin[i] < nextId
  /\ serving # NoId => serving < nextId
  /\ \A i \in executed : i < nextId

(* Answers on their way are to executed requests. *)
AnswersExecuted ==
  /\ \A i \in 1..Len(stdout) : stdout[i] \in Ids => stdout[i] \in executed
  /\ writing \in Ids => writing \in executed

IInv == /\ TypeOK /\ IdsTaken /\ ChannelOwn /\ RequestsOld /\ AnswersExecuted
        /\ OwnAnswer /\ NoLeak /\ WaiterIsReachable

-----------------------------------------------------------------------------
(* Taking the head of a list, and adding to its end, keep what holds of    *)
(* every element.                                                          *)
LEMMA TailFacts ==
  ASSUME NEW S, NEW q \in Seq(S), q # << >>
  PROVE  /\ Head(q) \in S /\ Tail(q) \in Seq(S) /\ Head(q) = q[1] /\ 1 \in 1..Len(q)
         /\ \A i \in 1..Len(Tail(q)) : i + 1 \in 1..Len(q) /\ Tail(q)[i] = q[i + 1]
OBVIOUS

LEMMA AppendFacts ==
  ASSUME NEW S, NEW q \in Seq(S), NEW e \in S
  PROVE  /\ Append(q, e) \in Seq(S)
         /\ \A i \in 1..Len(Append(q, e)) :
              (i \in 1..Len(q) /\ Append(q, e)[i] = q[i]) \/ Append(q, e)[i] = e
OBVIOUS

LEMMA InitIInv == Init => IInv
<1> SUFFICES ASSUME Init PROVE IInv
  OBVIOUS
<1>1. TypeOK
  BY RpcBounds DEF Init, TypeOK, CallPc, Ids, NoId, NoLine
<1>2. IdsTaken /\ ChannelOwn /\ OwnAnswer /\ NoLeak /\ WaiterIsReachable
  BY DEF Init, IdsTaken, ChannelOwn, OwnAnswer, NoLeak, WaiterIsReachable
<1>3. RequestsOld /\ AnswersExecuted
  BY DEF Init, RequestsOld, AnswersExecuted, NoLine, Ids
<1>4. QED
  BY <1>1, <1>2, <1>3 DEF IInv

-----------------------------------------------------------------------------
LEMMA BeginIInv == ASSUME IInv, NEW c \in Calls, Begin(c) PROVE IInv'
<1> USE DEF IInv
<1>1. /\ pc[c] = "idle" /\ nextId \in Ids /\ nextId \in Nat
      /\ id' = [id EXCEPT ![c] = nextId] /\ nextId' = nextId + 1
      /\ chan' = [chan EXCEPT ![c] = NoId] /\ result' = [result EXCEPT ![c] = NoId]
      /\ pc' = [pc EXCEPT ![c] = "insert"]
  BY DEF Begin, Ids
<1>2. UNCHANGED <<pending, handle, reading, stdin, stdout, alive, serving, writing, notes, stops>>
  BY DEF Begin
<1>3. executed' = executed
  <2>1. nextId \notin executed
    BY <1>1 DEF RequestsOld, TypeOK
  <2>2. id'[c] = nextId
    BY <1>1 DEF TypeOK
  <2>3. QED
    BY <2>1, <2>2 DEF Begin
<1>4. TypeOK'
  BY <1>1, <1>2, <1>3, RpcBounds DEF TypeOK, CallPc, Ids, NoId
<1>5. IdsTaken'
  <2> SUFFICES ASSUME NEW d \in Calls, pc'[d] # "idle"
               PROVE  /\ id'[d] < nextId'
                      /\ \A e \in Calls : pc'[e] # "idle" /\ id'[d] = id'[e] => d = e
    BY DEF IdsTaken
  <2>1. id'[d] < nextId'
    BY <1>1 DEF IdsTaken, TypeOK, Ids
  <2>2. ASSUME NEW e \in Calls, pc'[e] # "idle", id'[d] = id'[e] PROVE d = e
    BY <1>1, <2>2 DEF IdsTaken, TypeOK
  <2>3. QED
    BY <2>1, <2>2
<1>6. ChannelOwn' /\ OwnAnswer'
  BY <1>1, <1>3 DEF ChannelOwn, OwnAnswer, TypeOK
<1>7. NoLeak'
  BY <1>1, <1>2 DEF NoLeak, TypeOK, InFlight, CallPc
<1>8. WaiterIsReachable'
  BY <1>1, <1>2 DEF WaiterIsReachable, TypeOK
<1>9. RequestsOld' /\ AnswersExecuted'
  <2>1. \A x \in Ids : x < nextId => x < nextId'
    BY <1>1 DEF Ids
  <2>2. /\ \A i \in 1..Len(stdin) : stdin[i] \in Ids
        /\ serving \in Ids \union {NoId} /\ executed \subseteq Ids
    BY DEF TypeOK
  <2>3. RequestsOld'
    BY <1>2, <1>3, <2>1, <2>2 DEF RequestsOld
  <2>4. AnswersExecuted'
    BY <1>2, <1>3 DEF AnswersExecuted
  <2>5. QED
    BY <2>3, <2>4
<1>10. QED
  BY <1>4, <1>5, <1>6, <1>7, <1>8, <1>9

(* A step of a call that has begun leaves the ids and the sidecar's side   *)
(* of the pipes alone.                                                     *)
LEMMA QuietCall ==
  ASSUME IInv, NEW c \in Calls, NEW to \in CallPc, pc[c] # "idle",
         pc' = [pc EXCEPT ![c] = to], UNCHANGED <<id, chan, nextId, executed>>
  PROVE  IdsTaken' /\ ChannelOwn'
BY DEF IInv, TypeOK, IdsTaken, ChannelOwn

LEMMA InsertIInv == ASSUME IInv, NEW c \in Calls, Insert(c) PROVE IInv'
<1> USE DEF IInv
<1>1. /\ pc[c] = "insert" /\ id[c] \in Ids
      /\ pending' = [pending EXCEPT ![id[c]] = c] /\ pc' = [pc EXCEPT ![c] = "stdin"]
      /\ UNCHANGED <<id, chan, result, nextId, handle, reading, stdin, stdout, sidecarVars, stops>>
  BY DEF Insert, TypeOK
<1>2. TypeOK'
  BY <1>1 DEF TypeOK, sidecarVars, CallPc
<1>3. IdsTaken' /\ ChannelOwn'
  BY <1>1, QuietCall DEF CallPc, sidecarVars
<1>4. RequestsOld' /\ AnswersExecuted' /\ OwnAnswer'
  BY <1>1 DEF RequestsOld, AnswersExecuted, OwnAnswer, TypeOK, sidecarVars
<1>5. NoLeak'
  BY <1>1, CallAssumption DEF NoLeak, TypeOK, InFlight, CallPc
<1>6. WaiterIsReachable'
  BY <1>1 DEF WaiterIsReachable, TypeOK, IdsTaken
<1>7. QED
  BY <1>2, <1>3, <1>4, <1>5, <1>6

LEMMA EndsIInv ==
  ASSUME IInv, NEW c \in Calls, NEW a \in {NoId, chan[c]}, pc[c] # "idle", Ends(c, a)
  PROVE  IInv'
<1> USE DEF IInv
<1>1. /\ result' = [result EXCEPT ![c] = a] /\ pc' = [pc EXCEPT ![c] = "remove"]
      /\ UNCHANGED <<id, chan, tableVars, reading, stdin, stdout, sidecarVars, stops>>
  BY DEF Ends
<1>2. TypeOK'
  BY <1>1 DEF TypeOK, sidecarVars, tableVars, CallPc
<1>3. IdsTaken' /\ ChannelOwn'
  BY <1>1, QuietCall DEF CallPc, sidecarVars, tableVars
<1>4. RequestsOld' /\ AnswersExecuted'
  BY <1>1 DEF RequestsOld, AnswersExecuted, sidecarVars, tableVars
<1>5. OwnAnswer'
  BY <1>1 DEF OwnAnswer, ChannelOwn, TypeOK, sidecarVars
<1>6. NoLeak'
  BY <1>1 DEF NoLeak, TypeOK, InFlight, CallPc, tableVars
<1>7. WaiterIsReachable'
  BY <1>1 DEF WaiterIsReachable, TypeOK, tableVars
<1>8. QED
  BY <1>2, <1>3, <1>4, <1>5, <1>6, <1>7

LEMMA TakeStdinIInv == ASSUME IInv, NEW c \in Calls, TakeStdin(c) PROVE IInv'
<1> USE DEF IInv
<1>1. /\ pc[c] = "stdin" /\ pc' = [pc EXCEPT ![c] = "write"]
      /\ UNCHANGED <<id, chan, result, tableVars, reading, stdin, stdout, sidecarVars, stops>>
  BY DEF TakeStdin
<1>2. TypeOK'
  BY <1>1 DEF TypeOK, sidecarVars, tableVars, CallPc
<1>3. IdsTaken' /\ ChannelOwn'
  BY <1>1, QuietCall DEF CallPc, sidecarVars, tableVars
<1>4. RequestsOld' /\ AnswersExecuted' /\ OwnAnswer'
  BY <1>1 DEF RequestsOld, AnswersExecuted, OwnAnswer, TypeOK, sidecarVars, tableVars
<1>5. NoLeak' /\ WaiterIsReachable'
  BY <1>1 DEF NoLeak, WaiterIsReachable, TypeOK, InFlight, CallPc, tableVars
<1>6. QED
  BY <1>2, <1>3, <1>4, <1>5

LEMMA WriteIInv == ASSUME IInv, NEW c \in Calls, Write(c) PROVE IInv'
<1> USE DEF IInv
<1>1. /\ pc[c] = "write" /\ pc' = [pc EXCEPT ![c] = "wait"] /\ stdin' = Append(stdin, id[c])
      /\ UNCHANGED <<id, chan, result, tableVars, reading, stdout, sidecarVars, stops>>
  BY DEF Write
<1>2. id[c] \in Ids /\ id[c] < nextId /\ stdin \in Seq(Ids)
  BY <1>1 DEF TypeOK, IdsTaken
<1>3. stdin' \in Seq(Ids) /\ \A i \in 1..Len(stdin') : stdin'[i] < nextId
  BY <1>1, <1>2, AppendFacts DEF RequestsOld
<1>4. TypeOK'
  BY <1>1, <1>3 DEF TypeOK, sidecarVars, tableVars, CallPc
<1>5. IdsTaken' /\ ChannelOwn'
  BY <1>1, QuietCall DEF CallPc, sidecarVars, tableVars
<1>6. RequestsOld' /\ AnswersExecuted' /\ OwnAnswer'
  BY <1>1, <1>3 DEF RequestsOld, AnswersExecuted, OwnAnswer, TypeOK, sidecarVars, tableVars
<1>7. NoLeak' /\ WaiterIsReachable'
  BY <1>1 DEF NoLeak, WaiterIsReachable, TypeOK, InFlight, CallPc, tableVars
<1>8. QED
  BY <1>4, <1>5, <1>6, <1>7

LEMMA RemoveIInv == ASSUME IInv, NEW c \in Calls, Remove(c) PROVE IInv'
<1> USE DEF IInv
<1>1. /\ pc[c] = "remove" /\ id[c] \in Ids
      /\ pending' = [pending EXCEPT ![id[c]] = NoCall] /\ pc' = [pc EXCEPT ![c] = "idle"]
      /\ UNCHANGED <<id, chan, result, nextId, handle, reading, stdin, stdout, sidecarVars, stops>>
  BY DEF Remove, TypeOK
<1>2. TypeOK'
  BY <1>1 DEF TypeOK, sidecarVars, CallPc
<1>3. IdsTaken' /\ ChannelOwn'
  BY <1>1, QuietCall DEF CallPc, sidecarVars
<1>4. RequestsOld' /\ AnswersExecuted' /\ OwnAnswer'
  BY <1>1 DEF RequestsOld, AnswersExecuted, OwnAnswer, TypeOK, sidecarVars
<1>5. NoLeak'
  <2> SUFFICES ASSUME NEW i \in Ids, pending'[i] # NoCall
               PROVE  id'[pending'[i]] = i /\ pc'[pending'[i]] \in InFlight
    BY DEF NoLeak
  <2>1. i # id[c] /\ pending'[i] = pending[i]
    BY <1>1 DEF TypeOK
  <2>2. pending[i] \in Calls /\ id[pending[i]] = i /\ pc[pending[i]] \in InFlight
    BY <2>1 DEF NoLeak, TypeOK
  <2>3. QED
    BY <1>1, <2>1, <2>2 DEF TypeOK
<1>6. WaiterIsReachable'
  BY <1>1 DEF WaiterIsReachable, TypeOK, IdsTaken
<1>7. QED
  BY <1>2, <1>3, <1>4, <1>5, <1>6

LEMMA CallStepIInv == ASSUME IInv, NEW c \in Calls, CallStep(c) PROVE IInv'
<1>1. CASE NotRunning(c)
  BY <1>1, EndsIInv DEF NotRunning
<1>2. CASE WriteFails(c)
  BY <1>2, EndsIInv DEF WriteFails
<1>3. CASE Receive(c)
  BY <1>3, EndsIInv DEF Receive
<1>4. CASE Timeout(c)
  BY <1>4, EndsIInv DEF Timeout
<1>5. QED
  BY <1>1, <1>2, <1>3, <1>4, InsertIInv, TakeStdinIInv, WriteIInv, RemoveIInv DEF CallStep

-----------------------------------------------------------------------------
LEMMA ReadLineIInv == ASSUME IInv, ReadLine PROVE IInv'
<1> USE DEF IInv
<1> DEFINE h == Head(stdout)
<1>1. /\ stdout # << >> /\ stdout' = Tail(stdout) /\ stdout \in Seq(Lines)
      /\ UNCHANGED <<pc, id, result, nextId, handle, reading, stdin, sidecarVars, stops>>
  BY DEF ReadLine, TypeOK
<1>2. /\ stdout' \in Seq(Lines) /\ (h \in Ids => h \in executed)
      /\ \A i \in 1..Len(stdout') : stdout'[i] \in Ids => stdout'[i] \in executed
  BY <1>1, TailFacts DEF AnswersExecuted
<1>3. IdsTaken' /\ RequestsOld' /\ AnswersExecuted' /\ OwnAnswer'
  BY <1>1, <1>2 DEF IdsTaken, RequestsOld, AnswersExecuted, OwnAnswer, sidecarVars
<1>4. CASE UNCHANGED <<pending, chan>>
  <2>1. TypeOK'
    BY <1>1, <1>2, <1>4 DEF TypeOK, sidecarVars
  <2>2. ChannelOwn' /\ NoLeak' /\ WaiterIsReachable'
    BY <1>1, <1>4 DEF ChannelOwn, NoLeak, WaiterIsReachable, sidecarVars
  <2>3. QED
    BY <1>3, <2>1, <2>2
<1>5. CASE h \in Ids /\ pending[h] # NoCall
  <2>1. PICK c \in Calls : c = pending[h] /\ id[c] = h /\ pc[c] \in InFlight
    BY <1>5 DEF TypeOK, NoLeak
  <2>2. /\ pending' = [pending EXCEPT ![h] = NoCall]
        /\ chan' = IF pc[c] = "remove" THEN chan ELSE [chan EXCEPT ![c] = h]
    BY <1>5, <2>1 DEF ReadLine, Complete
  <2>3. h \in executed
    BY <1>2, <1>5
  <2> HIDE DEF h
  <2>4. TypeOK'
    BY <1>1, <1>2, <1>5, <2>2 DEF TypeOK, sidecarVars
  <2>5. ChannelOwn'
    BY <1>1, <2>1, <2>2, <2>3 DEF ChannelOwn, TypeOK, sidecarVars
  <2>6. NoLeak'
    BY <1>1, <2>2 DEF NoLeak, TypeOK
  <2>7. WaiterIsReachable'
    <3> SUFFICES ASSUME NEW d \in Calls, pc[d] \in {"stdin", "write", "wait"}
                 PROVE  chan'[d] # NoId \/ pending'[id[d]] = d
      BY <1>1 DEF WaiterIsReachable
    <3>1. CASE d = c
      BY <1>5, <2>2, <3>1 DEF TypeOK, Ids, NoId
    <3>2. CASE d # c
      <4>1. id[d] # h
        BY <2>1, <3>2 DEF IdsTaken, InFlight
      <4>2. chan'[d] = chan[d] /\ pending'[id[d]] = pending[id[d]]
        BY <2>2, <3>2, <4>1 DEF TypeOK
      <4>3. QED
        BY <4>2 DEF WaiterIsReachable
    <3>3. QED
      BY <3>1, <3>2
  <2>8. QED
    BY <1>3, <2>4, <2>5, <2>6, <2>7
<1>6. QED
  BY <1>4, <1>5 DEF ReadLine, Complete

(* A step of the sidecar, or the end of the reader's loop. *)
LEMMA SidecarIInv ==
  ASSUME IInv, ReadEnd \/ ReadFails \/ SidecarStep \/ Notify \/ Die
  PROVE  IInv'
<1> USE DEF IInv, callVars, tableVars, sidecarVars
<1>1. UNCHANGED <<pc, id, chan, result, nextId, pending>> /\ executed \subseteq executed'
  BY DEF ReadEnd, ReadFails, SidecarStep, Serve, Answer, WriteLine, Disconnected, Notify, Die
<1>2. IdsTaken' /\ ChannelOwn' /\ OwnAnswer' /\ NoLeak' /\ WaiterIsReachable'
  BY <1>1 DEF IdsTaken, ChannelOwn, OwnAnswer, NoLeak, WaiterIsReachable
<1>3. CASE ReadEnd \/ ReadFails \/ Disconnected \/ Die
  <2>1. UNCHANGED <<stdin, stdout, serving, writing, executed, notes>>
    BY <1>3 DEF ReadEnd, ReadFails, Disconnected, Die
  <2>2. handle' \in {handle, FALSE} /\ reading' \in {reading, FALSE} /\ alive' \in {alive, FALSE}
    BY <1>3 DEF ReadEnd, ReadFails, Disconnected, Die
  <2>3. stops' \in 0..MaxStops
    BY <1>3, RpcBounds DEF ReadEnd, ReadFails, Disconnected, Die, TypeOK
  <2>4. handle \in BOOLEAN /\ reading \in BOOLEAN /\ alive \in BOOLEAN
    BY DEF TypeOK
  <2>5. handle' \in BOOLEAN /\ reading' \in BOOLEAN /\ alive' \in BOOLEAN
    BY <2>2, <2>4
  <2>6. TypeOK'
    BY <1>1, <2>1, <2>3, <2>5 DEF TypeOK
  <2>7. RequestsOld' /\ AnswersExecuted'
    BY <1>1, <2>1 DEF RequestsOld, AnswersExecuted
  <2>8. QED
    BY <1>2, <2>6, <2>7
<1>4. CASE Serve
  <2>1. /\ stdin # << >> /\ serving' = Head(stdin) /\ stdin' = Tail(stdin) /\ stdin \in Seq(Ids)
        /\ UNCHANGED <<handle, reading, stdout, alive, writing, executed, notes, stops>>
    BY <1>4 DEF Serve, TypeOK
  <2>2. /\ stdin' \in Seq(Ids) /\ serving' \in Ids /\ serving' < nextId
        /\ \A i \in 1..Len(stdin') : stdin'[i] < nextId
    BY <2>1, TailFacts DEF RequestsOld
  <2>3. TypeOK'
    BY <1>1, <2>1, <2>2 DEF TypeOK
  <2>4. RequestsOld' /\ AnswersExecuted'
    BY <1>1, <2>1, <2>2 DEF RequestsOld, AnswersExecuted
  <2>5. QED
    BY <1>2, <2>3, <2>4
<1>5. CASE Answer
  <2>1. /\ serving \in Ids /\ executed' = executed \union {serving}
        /\ writing' = serving /\ serving' = NoId
        /\ UNCHANGED <<handle, reading, stdin, stdout, alive, notes, stops>>
    BY <1>5 DEF Answer, TypeOK
  <2>2. TypeOK'
    BY <1>1, <2>1 DEF TypeOK, Lines
  <2>3. RequestsOld' /\ AnswersExecuted'
    BY <1>1, <2>1 DEF RequestsOld, AnswersExecuted, Ids, NoId
  <2>4. QED
    BY <1>2, <2>2, <2>3
<1>6. CASE Notify
  <2>1. /\ notes' \in 0..MaxNotes /\ writing' = Note /\ Note \in Lines /\ Note \notin Ids
        /\ UNCHANGED <<handle, reading, stdin, stdout, alive, serving, executed, stops>>
    BY <1>6, RpcBounds DEF Notify, TypeOK, Note, Lines, Ids
  <2>2. TypeOK'
    BY <1>1, <2>1 DEF TypeOK
  <2>3. RequestsOld' /\ AnswersExecuted'
    BY <1>1, <2>1 DEF RequestsOld, AnswersExecuted
  <2>4. QED
    BY <1>2, <2>2, <2>3
<1>7. CASE WriteLine
  <2>1. /\ writing \in Lines /\ stdout \in Seq(Lines) /\ stdout' = Append(stdout, writing)
        /\ writing' = NoLine
        /\ UNCHANGED <<handle, reading, stdin, alive, serving, executed, notes, stops>>
    BY <1>7 DEF WriteLine, TypeOK
  <2>2. /\ stdout' \in Seq(Lines)
        /\ \A i \in 1..Len(stdout') : stdout'[i] \in Ids => stdout'[i] \in executed
    BY <2>1, AppendFacts DEF AnswersExecuted
  <2>3. TypeOK'
    BY <1>1, <2>1, <2>2 DEF TypeOK
  <2>4. RequestsOld' /\ AnswersExecuted'
    BY <1>1, <2>1, <2>2 DEF RequestsOld, AnswersExecuted, NoLine, Ids
  <2>5. QED
    BY <1>2, <2>3, <2>4
<1>8. QED
  BY <1>3, <1>4, <1>5, <1>6, <1>7 DEF SidecarStep

LEMMA StutterIInv == ASSUME IInv, UNCHANGED vars PROVE IInv'
<1> USE DEF vars, callVars, tableVars, sidecarVars
<1>1. TypeOK' /\ IdsTaken' /\ ChannelOwn'
  BY DEF IInv, TypeOK, IdsTaken, ChannelOwn
<1>2. RequestsOld' /\ AnswersExecuted' /\ OwnAnswer' /\ NoLeak' /\ WaiterIsReachable'
  BY DEF IInv, RequestsOld, AnswersExecuted, OwnAnswer, NoLeak, WaiterIsReachable
<1>3. QED
  BY <1>1, <1>2 DEF IInv

LEMMA Invariance == Spec => []IInv
<1>1. IInv /\ [Next]_vars => IInv'
  BY BeginIInv, CallStepIInv, ReadLineIInv, SidecarIInv, StutterIInv DEF Next, ReaderStep
<1>2. QED
  BY <1>1, InitIInv, PTL DEF Spec

(* Every variable of the calls and of the sidecar's loop keeps its type.   *)
THEOREM RpcTypeCorrect == Spec => []TypeOK
<1>1. IInv => TypeOK
  BY DEF IInv
<1>2. QED
  BY <1>1, Invariance, PTL

(* Whatever times out or arrives late, a call that returns an answer       *)
(* returns the one to its own request.                                     *)
THEOREM AnswersAreOwn == Spec => []OwnAnswer
<1>1. IInv => OwnAnswer
  BY DEF IInv
<1>2. QED
  BY <1>1, Invariance, PTL

(* The table holds entries of calls under way only: nothing piles up in    *)
(* it, however calls fail, time out or are answered late.                  *)
THEOREM TableDoesNotLeak == Spec => []NoLeak
<1>1. IInv => NoLeak
  BY DEF IInv
<1>2. QED
  BY <1>1, Invariance, PTL

(* A waiting call has its entry until it is answered. *)
THEOREM WaitersStayReachable == Spec => []WaiterIsReachable
<1>1. IInv => WaiterIsReachable
  BY DEF IInv
<1>2. QED
  BY <1>1, Invariance, PTL

-----------------------------------------------------------------------------
(* ShellRpc implements RemoteCall *)

(* A request is at one place: with its call, in the pipe, with the         *)
(* sidecar's loop, or handled.                                             *)
Unsent(i) == /\ i \notin executed /\ i # serving
             /\ \A k \in 1..Len(stdin) : stdin[k] # i

SentOnce ==
  /\ \A c \in Calls : pc[c] \in {"insert", "stdin", "write"} => Unsent(id[c])
  /\ \A k \in 1..Len(stdin) : stdin[k] \notin executed /\ stdin[k] # serving
  /\ \A k, m \in 1..Len(stdin) : stdin[k] = stdin[m] => k = m
  /\ serving \notin executed

LEMMA InitSentOnce == Init => SentOnce
BY DEF Init, SentOnce, Unsent

LEMMA BeginSentOnce == ASSUME IInv, SentOnce, NEW c \in Calls, Begin(c) PROVE SentOnce'
<1>1. /\ nextId \in Ids /\ id' = [id EXCEPT ![c] = nextId] /\ pc' = [pc EXCEPT ![c] = "insert"]
      /\ UNCHANGED <<stdin, serving>>
  BY DEF Begin
<1>2. executed' = executed \ {nextId}
  BY <1>1 DEF Begin, IInv, TypeOK
<1>3. Unsent(nextId)
  <2>1. /\ \A k \in 1..Len(stdin) : stdin[k] < nextId
        /\ serving # NoId => serving < nextId
        /\ \A i \in executed : i < nextId
    BY DEF IInv, RequestsOld
  <2>2. nextId # NoId /\ ~(nextId < nextId)
    BY <1>1 DEF Ids, NoId
  <2>3. QED
    BY <2>1, <2>2 DEF Unsent
<1>4. ASSUME NEW d \in Calls, pc'[d] \in {"insert", "stdin", "write"}
      PROVE  /\ id'[d] \notin executed' /\ id'[d] # serving'
             /\ \A k \in 1..Len(stdin') : stdin'[k] # id'[d]
  <2>1. CASE d = c
    BY <1>1, <1>2, <1>3, <2>1 DEF Unsent, IInv, TypeOK
  <2>2. CASE d # c
    BY <1>1, <1>2, <1>4, <2>2 DEF Unsent, SentOnce, IInv, TypeOK
  <2>3. QED
    BY <2>1, <2>2
<1>5. QED
  BY <1>1, <1>2, <1>4 DEF SentOnce, Unsent

(* A step that leaves pipe, loop and handled requests alone, and brings no *)
(* call back before its write.                                             *)
LEMMA QuietSentOnce ==
  ASSUME SentOnce, UNCHANGED <<id, stdin, serving, executed>>,
         \A d \in Calls : pc'[d] \in {"insert", "stdin", "write"} => pc[d] \in {"insert", "stdin", "write"}
  PROVE  SentOnce'
BY DEF SentOnce, Unsent

LEMMA WriteSentOnce == ASSUME IInv, SentOnce, NEW c \in Calls, Write(c) PROVE SentOnce'
<1>1. /\ pc[c] = "write" /\ pc' = [pc EXCEPT ![c] = "wait"] /\ stdin' = Append(stdin, id[c])
      /\ UNCHANGED <<id, serving, executed>>
  BY DEF Write, sidecarVars
<1>2. /\ stdin \in Seq(Ids) /\ id[c] \in Ids /\ Unsent(id[c])
  BY <1>1 DEF IInv, TypeOK, SentOnce
<1>3. /\ Len(stdin') = Len(stdin) + 1 /\ Len(stdin) \in Nat
      /\ \A k \in 1..Len(stdin') :
           \/ k \in 1..Len(stdin) /\ stdin'[k] = stdin[k]
           \/ k = Len(stdin) + 1 /\ stdin'[k] = id[c]
  BY <1>1, <1>2
<1>4. \A d \in Calls : pc'[d] \in {"insert", "stdin", "write"} => d # c /\ id[d] # id[c] /\ Unsent(id[d])
  BY <1>1 DEF IInv, TypeOK, IdsTaken, SentOnce
<1>5. \A k \in 1..Len(stdin') : stdin'[k] \notin executed /\ stdin'[k] # serving
  BY <1>2, <1>3 DEF SentOnce, Unsent
<1>6. \A k, m \in 1..Len(stdin') : stdin'[k] = stdin'[m] => k = m
  BY <1>2, <1>3 DEF SentOnce, Unsent
<1>7. \A d \in Calls : pc'[d] \in {"insert", "stdin", "write"} =>
        \A k \in 1..Len(stdin') : stdin'[k] # id[d]
  BY <1>3, <1>4 DEF Unsent
<1>8. QED
  BY <1>1, <1>4, <1>5, <1>6, <1>7 DEF SentOnce, Unsent

LEMMA ServeSentOnce == ASSUME IInv, SentOnce, Serve PROVE SentOnce'
<1>1. /\ stdin # << >> /\ serving' = Head(stdin) /\ stdin' = Tail(stdin) /\ stdin \in Seq(Ids)
      /\ UNCHANGED <<pc, id, executed>>
  BY DEF Serve, callVars, IInv, TypeOK
<1>2. /\ serving' = stdin[1] /\ 1 \in 1..Len(stdin)
      /\ \A k \in 1..Len(stdin') : k + 1 \in 1..Len(stdin) /\ stdin'[k] = stdin[k + 1] /\ k + 1 # 1
  BY <1>1, TailFacts
<1>3. \A k \in 1..Len(stdin') : stdin'[k] \notin executed /\ stdin'[k] # serving'
  BY <1>2 DEF SentOnce
<1>4. \A k, m \in 1..Len(stdin') : stdin'[k] = stdin'[m] => k = m
  <2> SUFFICES ASSUME NEW k \in 1..Len(stdin'), NEW m \in 1..Len(stdin'), stdin'[k] = stdin'[m]
               PROVE  k = m
    OBVIOUS
  <2>1. k + 1 = m + 1
    BY <1>2 DEF SentOnce
  <2>2. QED
    BY <2>1
<1>5. \A d \in Calls : pc[d] \in {"insert", "stdin", "write"} =>
        /\ id[d] \notin executed /\ id[d] # serving'
        /\ \A k \in 1..Len(stdin') : stdin'[k] # id[d]
  BY <1>2 DEF SentOnce, Unsent
<1>6. QED
  BY <1>1, <1>2, <1>3, <1>4, <1>5 DEF SentOnce, Unsent

LEMMA AnswerSentOnce == ASSUME IInv, SentOnce, Answer PROVE SentOnce'
<1>1. /\ serving # NoId /\ executed' = executed \union {serving} /\ serving' = NoId
      /\ UNCHANGED <<pc, id, stdin>>
  BY DEF Answer, callVars
<1>2. /\ NoId \notin executed' /\ stdin \in Seq(Ids) /\ NoId \notin Ids
      /\ \A d \in Calls : pc[d] # "idle" => id[d] \in Ids
  BY <1>1 DEF IInv, TypeOK, Ids, NoId
<1>3. \A k \in 1..Len(stdin) : stdin[k] # NoId
  BY <1>2
<1>4. \A d \in Calls : pc[d] \in {"insert", "stdin", "write"} => id[d] # NoId
  BY <1>2
<1>5. QED
  BY <1>1, <1>2, <1>3, <1>4 DEF SentOnce, Unsent

LEMMA StepSentOnce == ASSUME IInv, SentOnce, [Next]_vars PROVE SentOnce'
<1> USE DEF callVars, tableVars, sidecarVars
<1>1. ASSUME NEW c \in Calls, CallStep(c), ~Write(c) PROVE SentOnce'
  <2>1. /\ UNCHANGED <<id, stdin, serving, executed>>
        /\ \E to \in CallPc : pc' = [pc EXCEPT ![c] = to]
        /\ pc'[c] \in {"insert", "stdin", "write"} => pc[c] \in {"insert", "stdin", "write"}
    BY <1>1 DEF CallStep, Insert, TakeStdin, NotRunning, WriteFails, Receive, Timeout, Remove, Ends,
                IInv, TypeOK, CallPc
  <2>2. QED
    BY <2>1, QuietSentOnce DEF IInv, TypeOK
<1>2. CASE ReadLine \/ ReadEnd \/ ReadFails \/ Notify \/ WriteLine \/ Disconnected \/ Die \/ UNCHANGED vars
  <2>1. UNCHANGED <<pc, id, stdin, serving, executed>>
    BY <1>2 DEF ReadLine, ReadEnd, ReadFails, Notify, WriteLine, Disconnected, Die, vars
  <2>2. QED
    BY <2>1, QuietSentOnce
<1>3. QED
  BY <1>1, <1>2, BeginSentOnce, WriteSentOnce, ServeSentOnce, AnswerSentOnce
     DEF Next, ReaderStep, SidecarStep

LEMMA SentOnceInvariance == Spec => [](IInv /\ SentOnce)
<1>1. (IInv /\ SentOnce) /\ [Next]_vars => SentOnce'
  BY StepSentOnce
<1>2. QED
  BY <1>1, InitSentOnce, Invariance, PTL DEF Spec


(* What a command sees of its calls, and what becomes of the requests. *)
Stage    == [i \in Ids |-> StageOf(i)]
Of       == [c \in Calls |-> IF pc[c] = "idle" THEN NoId ELSE id[c]]
Over     == [c \in Calls |-> pc[c] = "remove"]
Returned == [c \in Calls |-> IF pc[c] = "remove" THEN result[c] ELSE NoId]

LEMMA BeginAsks ==
  ASSUME IInv, SentOnce, NEW c \in Calls, Begin(c), NEW i \in Ids, i = nextId
  PROVE  Remote!Ask(c, i)
<1>1. /\ nextId \in Ids /\ pc[c] = "idle" /\ nextId' = nextId + 1
      /\ pc' = [pc EXCEPT ![c] = "insert"] /\ id' = [id EXCEPT ![c] = nextId]
      /\ result' = [result EXCEPT ![c] = NoId] /\ UNCHANGED serving
  BY DEF Begin
<1>2. nextId \notin executed /\ nextId # serving /\ executed' = executed
  <2>1. nextId \notin executed /\ nextId # serving
    BY <1>1 DEF IInv, RequestsOld, TypeOK, Ids, NoId
  <2>2. id'[c] = nextId
    BY <1>1 DEF IInv, TypeOK
  <2>3. QED
    BY <2>1, <2>2 DEF Begin
<1>3. Of[c] = NoId /\ Stage[nextId] = "fresh"
  BY <1>1, <1>2 DEF Of, Stage, StageOf, Ids
<1>4. Of' = [Of EXCEPT ![c] = nextId]
  BY <1>1 DEF Of, IInv, TypeOK
<1>5. Stage' = [Stage EXCEPT ![nextId] = "asked"]
  <2>1. \A j \in Ids : j \in Nat /\ (j < nextId + 1 <=> j < nextId \/ j = nextId)
    BY <1>1 DEF Ids
  <2>2. \A j \in Ids : StageOf(j)' = IF j = nextId THEN "asked" ELSE StageOf(j)
    BY <1>1, <1>2, <2>1 DEF StageOf
  <2>3. QED
    BY <1>1, <2>2 DEF Stage
<1>6. Over' = Over /\ Returned' = Returned
  BY <1>1 DEF Over, Returned, IInv, TypeOK
<1>7. QED
  BY <1>3, <1>4, <1>5, <1>6 DEF Remote!Ask, Of, Stage, Over, Returned

(* A call on its way to its end is the same to its command. *)
LEMMA CallStutters ==
  ASSUME IInv, NEW c \in Calls, Insert(c) \/ TakeStdin(c) \/ Write(c)
  PROVE  UNCHANGED Remote!vars
<1>1. /\ \E to \in CallPc \ {"idle", "remove"} : pc' = [pc EXCEPT ![c] = to]
      /\ pc[c] \notin {"idle", "remove"}
      /\ UNCHANGED <<id, result, nextId, serving, executed>>
  BY DEF Insert, TakeStdin, Write, CallPc, tableVars, sidecarVars
<1>2. Of' = Of /\ Over' = Over /\ Returned' = Returned
  BY <1>1 DEF Of, Over, Returned, IInv, TypeOK
<1>3. Stage' = Stage
  BY <1>1 DEF Stage, StageOf
<1>4. QED
  BY <1>2, <1>3 DEF Remote!vars, Of, Stage, Over, Returned

(* A call that ends without an answer is given up, one that ends with an   *)
(* answer has the answer to a request that was handled.                    *)
LEMMA EndsRefines ==
  ASSUME IInv, NEW c \in Calls, NEW a \in Ids \union {NoId}, Ends(c, a),
         pc[c] \notin {"idle", "remove"}
  PROVE  /\ Of[c] # NoId /\ Over[c] = FALSE
         /\ Stage' = Stage /\ Of' = Of
         /\ Over' = [Over EXCEPT ![c] = TRUE]
         /\ Returned' = [Returned EXCEPT ![c] = a]
<1>1. /\ result' = [result EXCEPT ![c] = a] /\ pc' = [pc EXCEPT ![c] = "remove"]
      /\ UNCHANGED <<id, nextId, serving, executed>>
  BY DEF Ends, tableVars, sidecarVars
<1>2. id[c] \in Ids /\ id[c] # NoId
  BY DEF IInv, TypeOK, Ids, NoId
<1>3. Of[c] # NoId /\ Over[c] = FALSE
  BY <1>2 DEF Of, Over
<1>4. Of' = Of /\ Returned' = [Returned EXCEPT ![c] = a]
  BY <1>1 DEF Of, Returned, IInv, TypeOK
<1>5. Over' = [Over EXCEPT ![c] = TRUE]
  BY <1>1 DEF Over, IInv, TypeOK
<1>6. Stage' = Stage
  BY <1>1 DEF Stage, StageOf
<1>7. QED
  BY <1>3, <1>4, <1>5, <1>6

LEMMA FailureGivesUp ==
  ASSUME IInv, NEW c \in Calls, NotRunning(c) \/ WriteFails(c) \/ Timeout(c)
  PROVE  Remote!GiveUp(c)
<1>1. Ends(c, NoId) /\ pc[c] \notin {"idle", "remove"}
  BY DEF NotRunning, WriteFails, Timeout
<1>2. Returned[c] = NoId
  BY <1>1 DEF Returned
<1>3. Returned' = Returned
  BY <1>1, <1>2, EndsRefines DEF Returned
<1>4. QED
  BY <1>1, <1>3, EndsRefines DEF Remote!GiveUp, Of, Stage, Over, Returned

LEMMA ReceiveReplies == ASSUME IInv, SentOnce, NEW c \in Calls, Receive(c) PROVE Remote!Reply(c)
<1>1. pc[c] = "wait" /\ chan[c] # NoId /\ Ends(c, chan[c])
  BY DEF Receive
<1>2. chan[c] = id[c] /\ id[c] \in Ids /\ id[c] \in executed
  BY <1>1 DEF IInv, ChannelOwn, TypeOK
<1>3. Of[c] = id[c] /\ Stage[id[c]] = "ran"
  BY <1>1, <1>2 DEF Of, Stage, StageOf, SentOnce
<1>4. Returned' = [Returned EXCEPT ![c] = Of[c]]
  BY <1>1, <1>2, <1>3, EndsRefines
<1>5. QED
  BY <1>1, <1>2, <1>3, <1>4, EndsRefines DEF Remote!Reply, Of, Stage, Over, Returned

LEMMA RemoveReturns == ASSUME IInv, NEW c \in Calls, Remove(c) PROVE Remote!Return(c)
<1>1. /\ pc[c] = "remove" /\ pc' = [pc EXCEPT ![c] = "idle"]
      /\ UNCHANGED <<id, result, nextId, serving, executed>>
  BY DEF Remove, sidecarVars
<1>2. Over[c] /\ Over' = [Over EXCEPT ![c] = FALSE]
  BY <1>1 DEF Over, IInv, TypeOK
<1>3. Of' = [Of EXCEPT ![c] = NoId] /\ Returned' = [Returned EXCEPT ![c] = NoId]
  BY <1>1 DEF Of, Returned, IInv, TypeOK
<1>4. Stage' = Stage
  BY <1>1 DEF Stage, StageOf
<1>5. QED
  BY <1>2, <1>3, <1>4 DEF Remote!Return, Of, Stage, Over, Returned

-----------------------------------------------------------------------------
LEMMA ServeRuns == ASSUME IInv, SentOnce, Serve PROVE Remote!Run(Head(stdin))
<1> DEFINE i == Head(stdin)
<1>1. /\ serving = NoId /\ serving' = i /\ stdin # << >> /\ stdin \in Seq(Ids)
      /\ UNCHANGED <<pc, id, result, nextId, executed>>
  BY DEF Serve, callVars, tableVars, IInv, TypeOK
<1>2. i \in Ids /\ i \notin executed /\ i < nextId
  BY <1>1, TailFacts DEF SentOnce, IInv, RequestsOld
<1> HIDE DEF i
<1>3. \A j \in Ids : Stage[j] # "running" /\ serving # j
  BY <1>1 DEF Stage, StageOf, Ids, NoId
<1>4. Stage[i] = "asked"
  BY <1>2, <1>3 DEF Stage, StageOf
<1>5. Stage' = [Stage EXCEPT ![i] = "running"]
  BY <1>1, <1>2, <1>3 DEF Stage, StageOf
<1>6. UNCHANGED <<Of, Over, Returned>>
  BY <1>1 DEF Of, Over, Returned
<1>7. Remote!Run(i)
  BY <1>3, <1>4, <1>5, <1>6 DEF Remote!Run, Of, Stage, Over, Returned
<1>8. QED
  BY <1>7 DEF i

LEMMA AnswerFinishes == ASSUME IInv, SentOnce, Answer PROVE serving \in Ids /\ Remote!Finish(serving)
<1>1. /\ serving \in Ids /\ executed' = executed \union {serving} /\ serving' = NoId
      /\ UNCHANGED <<pc, id, result, nextId>>
  BY DEF Answer, callVars, tableVars, IInv, TypeOK
<1>2. Stage[serving] = "running"
  BY <1>1 DEF Stage, StageOf
<1>3. Stage' = [Stage EXCEPT ![serving] = "ran"]
  <2>1. \A i \in Ids : i # NoId
    BY DEF Ids, NoId
  <2>2. \A i \in Ids : StageOf(i)' = IF i = serving THEN "ran" ELSE StageOf(i)
    BY <1>1, <2>1 DEF StageOf
  <2>3. QED
    BY <1>1, <2>2 DEF Stage
<1>4. UNCHANGED <<Of, Over, Returned>>
  BY <1>1 DEF Of, Over, Returned
<1>5. QED
  BY <1>1, <1>2, <1>3, <1>4 DEF Remote!Finish, Of, Stage, Over, Returned

(* The reader, the pipes and the ends of the sidecar show in nothing. *)
LEMMA OthersStutter ==
  ASSUME ReadLine \/ ReadEnd \/ ReadFails \/ Notify \/ WriteLine \/ Disconnected \/ Die \/ UNCHANGED vars
  PROVE  UNCHANGED Remote!vars
<1>1. UNCHANGED <<pc, id, result, nextId, serving, executed>>
  BY DEF ReadLine, ReadEnd, ReadFails, Notify, WriteLine, Disconnected, Die,
         vars, callVars, tableVars, sidecarVars
<1>2. UNCHANGED <<Stage, Of, Over, Returned>>
  BY <1>1 DEF Stage, StageOf, Of, Over, Returned
<1>3. QED
  BY <1>2 DEF Remote!vars, Of, Stage, Over, Returned

LEMMA InitRefines == Init => Remote!Init
<1> SUFFICES ASSUME Init PROVE Remote!Init
  OBVIOUS
<1>1. \A i \in Ids : StageOf(i) = "fresh"
  BY DEF Init, StageOf, Ids, NoId
<1>2. QED
  BY <1>1 DEF Init, Remote!Init

LEMMA StepRefines == ASSUME IInv, SentOnce, [Next]_vars PROVE [Remote!Next]_(Remote!vars)
<1>1. ASSUME NEW c \in Calls, Begin(c) PROVE Remote!Next
  <2>1. PICK i \in Ids : i = nextId
    BY <1>1 DEF Begin
  <2>2. Remote!Ask(c, i)
    BY <1>1, <2>1, BeginAsks
  <2>3. QED
    BY <2>1, <2>2 DEF Remote!Next
<1>2. ASSUME NEW c \in Calls, CallStep(c) PROVE Remote!Next \/ UNCHANGED Remote!vars
  BY <1>2, CallStutters, FailureGivesUp, ReceiveReplies, RemoveReturns DEF CallStep, Remote!Next
<1>3. CASE Serve
  BY <1>3, ServeRuns, TailFacts DEF Serve, IInv, TypeOK, Remote!Next
<1>4. CASE Answer
  BY <1>4, AnswerFinishes DEF Remote!Next
<1>5. QED
  BY <1>1, <1>2, <1>3, <1>4, OthersStutter DEF Next, ReaderStep, SidecarStep

(* The calls of the shell implement RemoteCall: a request is handled at    *)
(* most once, and a call ends once, with its own answer or an error, for   *)
(* any number of commands and pipes of any size.                           *)
THEOREM ShellImplementsRemoteCall == Spec => ImplementsRemoteCall
<1>1. (IInv /\ SentOnce) /\ [Next]_vars => [Remote!Next]_(Remote!vars)
  BY StepRefines
<1>2. QED
  BY <1>1, InitRefines, SentOnceInvariance, PTL DEF Spec, ImplementsRemoteCall, Remote!Spec
=============================================================================
