------------------------------ MODULE DigestJobs ------------------------------
(***************************************************************************)
(* The server's scheduler and the daily digest it makes: the job of 08:00, *)
(* the run, pause and resume buttons of scheduler/webui.py, the request    *)
(* that makes a digest by hand, and starts and stops of the server.        *)
(*                                                                         *)
(* The job is kept in the database (the scheduler's job store) and every   *)
(* start replaces it.  Run-now replaces its daily trigger by one date, so  *)
(* the job leaves the store once it has run and is back with the next      *)
(* start only.  The digests' unique date is what keeps the job and the     *)
(* requests from making two for one day.                                   *)
(*                                                                         *)
(* The names differ from those of HotspotSync, another job of the server:  *)
(* the proofs of both stand in one module.                                 *)
(***************************************************************************)
EXTENDS Integers, FiniteSets

CONSTANTS
    Requests,    \* the requests POST /digests/generate that come
    MaxDays,     \* days that pass
    MaxStops,    \* stops and crashes of the server
    MaxDbFaults  \* database calls that raise, and late wake-ups of the scheduler

ASSUME RequestsAssumption == IsFiniteSet(Requests) /\ {"none", "job"} \cap Requests = {}
ASSUME DigestBounds == MaxDays \in Nat \ {0} /\ MaxStops \in Nat /\ MaxDbFaults \in Nat

VARIABLES
    day, morning,   \* the date, and whether it is before 08:00
    up,             \* the server runs
    trigger,        \* of the job in the store: daily, one date, or no such job
    next,           \* its next run: none, a later 08:00, due now, or long past
    ran, held,      \* since the start it was run by hand; it was paused last (auxiliary)
    plain,          \* days whose job nothing kept from running (auxiliary)
    jpc, jday,      \* the running job: its place and the date it puts on the digest
    daily,          \* the running job was fired by the daily trigger (auxiliary)
    digest,         \* digest[d]: who made the digest of day d
    rpc, rday,      \* the requests: their place or answer, and their date
    pending, logs,  \* log rows being written, and written
    stops, dbFaults

clock   == <<day, morning>>
store   == <<trigger, next, ran, held>>
job     == <<jpc, jday, daily>>
request == <<rpc, rday>>
log     == <<pending, logs>>
bounds  == <<stops, dbFaults>>
digestVars == <<clock, up, store, plain, job, digest, request, log, bounds>>

Days    == 1..MaxDays
Working == {"check", "write", "refresh"}
Answers == {"made", "exists", "error", "gone"}
Entries == [status : {"success", "error"}, day : 0..MaxDays]

DigestInit ==
    /\ day = 1 /\ morning = TRUE
    /\ up = FALSE
    /\ trigger = "removed" /\ next = "none" /\ ran = FALSE /\ held = FALSE
    /\ plain = {}
    /\ jpc = "idle" /\ jday = 0 /\ daily = FALSE
    /\ digest = [d \in Days |-> "none"]
    /\ rpc = [r \in Requests |-> "idle"] /\ rday = [r \in Requests |-> 1]
    /\ pending = {} /\ logs = {}
    /\ stops = 0 /\ dbFaults = 0

(* ------------------------------- the server ---------------------------- *)

\* lifespan: add_job with replace_existing, whose next run is the next 08:00.
Start ==
    /\ ~up /\ up' = TRUE
    /\ trigger' = "daily" /\ next' = "later"
    /\ ran' = FALSE /\ held' = FALSE
    /\ UNCHANGED <<clock, plain, job, digest, request, log, bounds>>

\* The server stops, shutdown(wait=False), or is killed: what it was doing and
\* the log rows it had not written are gone.
Stop ==
    /\ up /\ stops < MaxStops /\ stops' = stops + 1
    /\ up' = FALSE
    /\ jpc' = "idle" /\ jday' = 0 /\ daily' = FALSE
    /\ rpc' = [r \in Requests |-> IF rpc[r] \in Working THEN "gone" ELSE rpc[r]]
    /\ pending' = {}
    /\ plain' = plain \ {day}
    /\ UNCHANGED <<clock, store, digest, rday, logs, dbFaults>>

\* It is 08:00.
Morning ==
    /\ morning /\ morning' = FALSE
    /\ next' = IF up /\ trigger = "daily" /\ next = "later" THEN "due" ELSE next
    /\ plain' = IF up /\ ~ran /\ ~held THEN plain \cup {day} ELSE plain
    /\ UNCHANGED <<day, up, trigger, ran, held, job, digest, request, log, bounds>>

\* Midnight: a due job was fired long ago, and one of 08:00 has ended; one run
\* by hand may see the date change.
Midnight ==
    /\ ~morning /\ day < MaxDays
    /\ up => next \notin {"due", "past"} /\ ~daily
    /\ day' = day + 1 /\ morning' = TRUE
    /\ UNCHANGED <<up, store, plain, job, digest, request, log, bounds>>

(* ------------------------------ the scheduler -------------------------- *)

\* A job that was due is given its next run; one whose trigger has none leaves
\* the store.
Advance ==
    /\ IF trigger = "daily" THEN next' = "later" /\ UNCHANGED trigger
                            ELSE next' = "none" /\ trigger' = "removed"
    /\ UNCHANGED <<ran, held>>

Fire ==
    /\ up /\ next = "due" /\ jpc = "idle"
    /\ jpc' = "read" /\ jday' = 0 /\ daily' = (trigger = "daily")
    /\ Advance
    /\ UNCHANGED <<clock, up, plain, digest, request, log, bounds>>

\* At its one instance (max_instances), or past the grace of a second: no run.
Skip ==
    /\ up /\ next \in {"due", "past"} /\ (next = "due" => jpc # "idle")
    /\ Advance
    /\ UNCHANGED <<clock, up, plain, job, digest, request, log, bounds>>

\* The scheduler wakes up more than a second late.
WakeLate ==
    /\ up /\ next = "due" /\ dbFaults < MaxDbFaults /\ dbFaults' = dbFaults + 1
    /\ next' = "past"
    /\ plain' = plain \ {day}
    /\ UNCHANGED <<clock, up, trigger, ran, held, job, digest, request, log, stops>>

\* A button pressed between 08:00 and the run takes the day's run away.
Button ==
    /\ up /\ trigger # "removed"
    /\ plain' = IF next = "due" THEN plain \ {day} ELSE plain
    /\ UNCHANGED <<clock, up, job, digest, request, log, bounds>>

\* run_job: the trigger becomes the date that is now.
RunNow ==
    /\ Button
    /\ trigger' = "date" /\ next' = "due"
    /\ ran' = TRUE /\ held' = FALSE

Pause ==
    /\ Button
    /\ next' = "none" /\ held' = TRUE
    /\ UNCHANGED <<trigger, ran>>

MutResume ==
    /\ Button
    /\ next' = "past" /\ held' = FALSE
    /\ UNCHANGED <<trigger, ran>>

\* resume_job: the trigger's first run from now on; the date of a run-now is
\* past by then, by more than the grace or not.
Resume ==
    /\ Button
    /\ IF trigger = "daily" THEN next' = "later" ELSE next' \in {"due", "past"}
    /\ held' = FALSE
    /\ UNCHANGED <<trigger, ran>>

(* -------------------------------- the job ------------------------------ *)

\* The job is over; the scheduler's listener starts to write its log row.
JobEnds(status) ==
    /\ jpc' = "idle" /\ jday' = 0 /\ daily' = FALSE
    /\ pending' = pending \cup {[status |-> status, day |-> jday]}
    /\ UNCHANGED <<clock, up, store, request, logs, stops>>

\* generate_digest: the hotspots are read, then today's date.
ReadHotspots ==
    /\ jpc = "read"
    /\ jpc' = "write" /\ jday' = day
    /\ UNCHANGED <<clock, up, store, plain, daily, digest, request, log, bounds>>

MutCommitDigest ==
    /\ jpc = "write"
    /\ jpc' = "refresh"
    /\ digest' = IF digest[jday] = "none" THEN [digest EXCEPT ![jday] = "job"] ELSE digest
    /\ UNCHANGED <<clock, up, store, plain, jday, daily, request, log, bounds>>

CommitDigest ==
    /\ jpc = "write" /\ digest[jday] = "none"
    /\ jpc' = "refresh"
    /\ digest' = [digest EXCEPT ![jday] = "job"]
    /\ UNCHANGED <<clock, up, store, plain, jday, daily, request, log, bounds>>

\* The date is unique: the INSERT is refused and the job ends in error.
CommitRefused ==
    /\ jpc = "write" /\ digest[jday] # "none"
    /\ JobEnds("error")
    /\ UNCHANGED <<plain, digest, dbFaults>>

Finish ==
    /\ jpc = "refresh"
    /\ JobEnds("success")
    /\ UNCHANGED <<plain, digest, dbFaults>>

\* A database call of the job raises; the one after the commit too.
JobRaises ==
    /\ jpc # "idle" /\ dbFaults < MaxDbFaults /\ dbFaults' = dbFaults + 1
    /\ JobEnds("error")
    /\ plain' = plain \ {day}
    /\ UNCHANGED digest

DigestJobStep == ReadHotspots \/ CommitDigest \/ CommitRefused \/ Finish

\* The listener's own task writes the row.
Persist(e) ==
    /\ e \in pending
    /\ pending' = pending \ {e} /\ logs' = logs \cup {e}
    /\ UNCHANGED <<clock, up, store, plain, job, digest, request, bounds>>

\* It raises, and no one looks at it.
PersistRaises(e) ==
    /\ e \in pending /\ dbFaults < MaxDbFaults /\ dbFaults' = dbFaults + 1
    /\ pending' = pending \ {e}
    /\ UNCHANGED <<clock, up, store, plain, job, digest, request, logs, stops>>

(* ------------------------------ the requests --------------------------- *)

RequestOnly == UNCHANGED <<clock, up, store, plain, job, log, stops>>
To(r, pc)   == rpc' = [rpc EXCEPT ![r] = pc]

\* A digest is asked for, of today or of a date the client gives.
Post(r, d) ==
    /\ up /\ rpc[r] = "idle"
    /\ To(r, "check") /\ rday' = [rday EXCEPT ![r] = d]
    /\ RequestOnly /\ UNCHANGED <<digest, dbFaults>>

\* The look for the date's digest answers 409 when there is one.
Check(r) ==
    /\ rpc[r] = "check"
    /\ To(r, IF digest[rday[r]] = "none" THEN "write" ELSE "exists")
    /\ RequestOnly /\ UNCHANGED <<digest, rday, dbFaults>>

\* generate_digest again; a digest made since the look makes the INSERT raise.
CommitRequest(r) ==
    /\ rpc[r] = "write"
    /\ IF digest[rday[r]] = "none"
       THEN digest' = [digest EXCEPT ![rday[r]] = r] /\ To(r, "refresh")
       ELSE To(r, "error") /\ UNCHANGED digest
    /\ RequestOnly /\ UNCHANGED <<rday, dbFaults>>

Answer(r) ==
    /\ rpc[r] = "refresh"
    /\ To(r, "made")
    /\ RequestOnly /\ UNCHANGED <<digest, rday, dbFaults>>

RequestRaises(r) ==
    /\ rpc[r] \in Working /\ dbFaults < MaxDbFaults /\ dbFaults' = dbFaults + 1
    /\ To(r, "error")
    /\ RequestOnly /\ UNCHANGED <<digest, rday>>

RequestStep(r) == Check(r) \/ CommitRequest(r) \/ Answer(r)

DigestNext ==
    \/ Start \/ Stop \/ Morning \/ Midnight
    \/ Fire \/ Skip \/ WakeLate \/ RunNow \/ Pause \/ Resume
    \/ DigestJobStep \/ JobRaises
    \/ \E e \in pending : Persist(e) \/ PersistRaises(e)
    \/ \E r \in Requests : \/ \E d \in Days : Post(r, d)
                           \/ RequestStep(r) \/ RequestRaises(r)

DigestSpec == DigestInit /\ [][DigestNext]_digestVars

(* ------------------------------ properties ----------------------------- *)

\* Types; without a run by hand the daily trigger stays while the server is up.
DigestTypeOK ==
    /\ day \in Days /\ morning \in BOOLEAN /\ up \in BOOLEAN
    /\ ran \in BOOLEAN /\ held \in BOOLEAN /\ daily \in BOOLEAN
    /\ trigger \in {"daily", "date", "removed"}
    /\ next \in {"none", "later", "due", "past"}
    /\ plain \subseteq Days
    /\ jpc \in {"idle", "read", "write", "refresh"}
    /\ jday \in 0..MaxDays /\ (jpc \in {"write", "refresh"} => jday # 0)
    /\ digest \in [Days -> {"none", "job"} \cup Requests]
    /\ rpc \in [Requests -> {"idle"} \cup Working \cup Answers]
    /\ rday \in [Requests -> Days]
    /\ pending \subseteq Entries /\ logs \subseteq Entries
    /\ stops \in 0..MaxStops /\ dbFaults \in 0..MaxDbFaults
    /\ up /\ ~ran => trigger = "daily"

\* A day is over with a digest when the server was up at 08:00, nobody had run
\* the job by hand since the start or left it paused, and nothing failed that
\* day: whoever wins the race for the date, the job or a request.
PlainDaysHaveDigest == \A d \in plain : d < day => digest[d] # "none"

\* What a client is told is so: made is its own digest, exists is one, and an
\* error of the race, without a database fault, leaves another's digest.
AnswersAreTrue ==
    \A r \in Requests :
        /\ rpc[r] \in {"refresh", "made"} => digest[rday[r]] = r
        /\ rpc[r] = "exists" => digest[rday[r]] # "none"
        /\ rpc[r] = "error" /\ dbFaults = 0 => digest[rday[r]] \notin {"none", r}

\* The log's rows are so: success is the job's own digest of that date, and an
\* error that no fault made is a date that has its digest.
LogsAreTrue ==
    \A e \in pending \cup logs :
        IF e.status = "success" THEN e.day \in Days /\ digest[e.day] = "job"
        ELSE dbFaults = 0 => e.day \in Days /\ digest[e.day] # "none"

\* Job and requests race for a date: what each of them reports of it is so.
ReportsAreTrue == AnswersAreTrue /\ LogsAreTrue

===============================================================================
