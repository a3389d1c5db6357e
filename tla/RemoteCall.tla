----------------------------- MODULE RemoteCall -----------------------------
(***************************************************************************)
(* What send_request promises the commands of the shell: every call makes  *)
(* a request of its own, the sidecar handles one request at a time and     *)
(* each of them at most once, and a call ends once, with the answer to its *)
(* own request after that was handled, or with an error.  An error says    *)
(* nothing of the request: it may be handled later, or never.              *)
(* ShellRpc implements this specification.                                 *)
(***************************************************************************)

CONSTANTS Calls,     (* commands that may be under way together            *)
          Requests,
          NoRequest  (* no member of Requests                              *)

VARIABLES stage,     (* stage[i]: how far the sidecar is with request i    *)
          of,        (* of[c]: the request of call c, NoRequest between two *)
          over,      (* over[c]: the call has ended and is about to return *)
          answer     (* what it returns, NoRequest for an error            *)

vars == <<stage, of, over, answer>>

Stages == {"fresh", "asked", "running", "ran"}

CallTypeOK ==
  /\ stage  \in [Requests -> Stages]
  /\ of     \in [Calls -> Requests \union {NoRequest}]
  /\ over   \in [Calls -> BOOLEAN]
  /\ answer \in [Calls -> Requests \union {NoRequest}]

Init == /\ stage  = [i \in Requests |-> "fresh"]
        /\ of     = [c \in Calls |-> NoRequest]
        /\ over   = [c \in Calls |-> FALSE]
        /\ answer = [c \in Calls |-> NoRequest]

Ask(c, i) == /\ of[c] = NoRequest /\ stage[i] = "fresh"
             /\ of'    = [of EXCEPT ![c] = i]
             /\ stage' = [stage EXCEPT ![i] = "asked"]
             /\ UNCHANGED <<over, answer>>

(* The sidecar's loop takes a request, also one that was given up ...      *)
Run(i) == /\ stage[i] = "asked"
          /\ \A j \in Requests : stage[j] # "running"
          /\ stage' = [stage EXCEPT ![i] = "running"]
          /\ UNCHANGED <<of, over, answer>>

(* ... and has handled it. *)
Finish(i) == /\ stage[i] = "running"
             /\ stage' = [stage EXCEPT ![i] = "ran"]
             /\ UNCHANGED <<of, over, answer>>

Reply(c) == /\ of[c] # NoRequest /\ ~over[c]
            /\ stage[of[c]] = "ran"
            /\ over'   = [over EXCEPT ![c] = TRUE]
            /\ answer' = [answer EXCEPT ![c] = of[c]]
            /\ UNCHANGED <<stage, of>>

GiveUp(c) == /\ of[c] # NoRequest /\ ~over[c]
             /\ over' = [over EXCEPT ![c] = TRUE]
             /\ UNCHANGED <<stage, of, answer>>

Return(c) == /\ over[c]
             /\ of'     = [of EXCEPT ![c] = NoRequest]
             /\ over'   = [over EXCEPT ![c] = FALSE]
             /\ answer' = [answer EXCEPT ![c] = NoRequest]
             /\ UNCHANGED stage

Next == \/ \E c \in Calls, i \in Requests : Ask(c, i)
        \/ \E c \in Calls : Reply(c) \/ GiveUp(c) \/ Return(c)
        \/ \E i \in Requests : Run(i) \/ Finish(i)

Spec == Init /\ [][Next]_vars
=============================================================================
