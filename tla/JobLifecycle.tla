---------------------------- MODULE JobLifecycle ----------------------------
(***************************************************************************)
(* What the summary_jobs table promises its readers: a job is submitted    *)
(* once, one job at a time is worked on, and a row leaves "running" only   *)
(* through the worker that holds it.  A worker may abandon its job (a      *)
(* failed commit, a crash, a cancelled shutdown); the row then keeps its   *)
(* status for ever, because nothing in the program picks it up again.      *)
(* SummaryQueue implements this specification.                             *)
(***************************************************************************)

CONSTANTS Jobs,   (* job ids                                               *)
          NoJob   (* "the worker holds no job"                             *)

VARIABLES state,  (* state[j]: the committed status of row j               *)
          active  (* the job the worker holds, or NoJob                    *)

vars == <<state, active>>

Terminal == {"completed", "partial", "failed"}
Status   == {"absent", "queued", "running"} \union Terminal

LifecycleTypeOK ==
  /\ state  \in [Jobs -> Status]
  /\ active \in Jobs \union {NoJob}

Init == /\ state  = [j \in Jobs |-> "absent"]
        /\ active = NoJob

(* A committed INSERT of a fresh row. *)
Submit(j) == /\ state[j] = "absent"
             /\ state' = [state EXCEPT ![j] = "queued"]
             /\ UNCHANGED active

(* Only a queued row is started, and only by a worker that is free. *)
Start(j) == /\ active = NoJob
            /\ state[j] = "queued"
            /\ state'  = [state EXCEPT ![j] = "running"]
            /\ active' = j

(* Only the job the worker holds is finished. *)
Finish(j, s) == /\ active = j
                /\ state[j] = "running"
                /\ state'  = [state EXCEPT ![j] = s]
                /\ active' = NoJob

(* The worker loses its job: nobody will finish the row. *)
Abandon == /\ active # NoJob
           /\ active' = NoJob
           /\ UNCHANGED state

Next == \/ \E j \in Jobs : Submit(j) \/ Start(j)
        \/ \E j \in Jobs, s \in Terminal : Finish(j, s)
        \/ Abandon

Spec == Init /\ [][Next]_vars
=============================================================================
