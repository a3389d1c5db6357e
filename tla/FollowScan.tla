------------------------------ MODULE FollowScan ------------------------------
(***************************************************************************)
(* Scanning the followed creators (scheduler/jobs/followed_up_scan.py):    *)
(* the APScheduler job that scans every due row once a minute, the manual  *)
(* POST /followed-up/{id}/sync with its 15 s limit, the incremental fetch  *)
(* of a collector, and the hotspot rows and followed_up rows they write    *)
(* while users create, pause and delete creators.                          *)
(*                                                                         *)
(* A creator's videos are numbered 1, 2, ... in the order they are         *)
(* published; the platform lists them newest first.                        *)
(***************************************************************************)
EXTENDS Naturals, Sequences, FiniteSets

CONSTANTS
  Ups,        (* followed_up ids                                           *)
  Job,        (* the scheduler's scan (max_instances = 1)                  *)
  Reqs,       (* sync requests that may run together                       *)
  Count,      (* videos asked for in one fetch (50 in the code)            *)
  MaxVideos,  (* bound: videos a creator publishes                         *)
  MaxFaults,  (* bound: database calls and fetches that raise              *)
  MaxStops    (* bound: crashes of the server                              *)

ASSUME ScannersAssumption == Job \notin Reqs
ASSUME FiniteReqs         == IsFiniteSet(Reqs)
ASSUME UpsAssumption      == Ups # {}
ASSUME CountAssumption    == Count \in Nat \ {0}
ASSUME ScanBounds         == MaxVideos \in Nat /\ MaxFaults \in Nat /\ MaxStops \in Nat

VARIABLES
  life,       (* life[u]: "none", "live", "paused" (is_active) or "deleted" *)
  cursor,     (* cursor[u]: last_cursor_id, 0 for NULL                      *)
  checked,    (* checked[u]: last_checked_at is set                         *)
  health,     (* health[u]: the health column                               *)
  published,  (* published[u]: how many videos the platform shows           *)
  copies,     (* copies[u][v]: hotspot rows for video v of u                *)
  todo,       (* candidates the job has not looked at yet                   *)
  rows,       (* what the job's SELECT read of each candidate               *)
  pc,         (* where each scanner is, or how the request was answered     *)
  up,         (* the creator a scanner works on                             *)
  snap,       (* last_cursor_id of the row as the scanner read it           *)
  got,        (* how the scanner's fetch ended                              *)
  list,       (* videos the scanner still has to store                      *)
  latest,     (* latest_bvid, 0 for None                                    *)
  faults, stops

rowVars  == <<life, cursor, checked, health>>
jobVars  == <<todo, rows>>
scanVars == <<pc, up, snap, got, list, latest>>
vars     == <<rowVars, published, copies, jobVars, scanVars, faults, stops>>

Scanners == {Job} \union Reqs
Videos   == 1..MaxVideos
NoVideo  == 0
Bvid     == Videos \union {NoVideo}

Working  == {"read", "fetch", "look", "insert", "save"}
Answers  == {"ok", "timeout", "failed"}
ReqFree  == {"idle"} \union Answers

Init ==
  /\ life      = [u \in Ups |-> "none"]
  /\ cursor    = [u \in Ups |-> NoVideo]
  /\ checked   = [u \in Ups |-> FALSE]
  /\ health    = [u \in Ups |-> "healthy"]
  /\ published = [u \in Ups |-> 0]
  /\ copies    = [u \in Ups |-> [v \in Videos |-> 0]]
  /\ todo = {}
  /\ rows   = [u \in Ups |-> [cursor |-> NoVideo, checked |-> FALSE]]
  /\ pc     = [s \in Scanners |-> "idle"]
  /\ up     = [s \in Scanners |-> CHOOSE u \in Ups : TRUE]
  /\ snap   = [s \in Scanners |-> NoVideo]
  /\ got    = [s \in Scanners |-> "empty"]
  /\ list   = [s \in Scanners |-> << >>]
  /\ latest = [s \in Scanners |-> NoVideo]
  /\ faults = 0 /\ stops = 0

-----------------------------------------------------------------------------
(* The platform and the users *)

Publish(u) ==
  /\ published[u] < MaxVideos
  /\ published' = [published EXCEPT ![u] = @ + 1]
  /\ UNCHANGED <<rowVars, copies, jobVars, scanVars, faults, stops>>

(* POST /followed-up, PATCH is_active, DELETE: a deleted row stays in the  *)
(* table and is never undeleted.                                           *)
Create(u) ==
  /\ life[u] = "none"
  /\ life' = [life EXCEPT ![u] = "live"]
  /\ UNCHANGED <<cursor, checked, health, published, copies, jobVars, scanVars, faults, stops>>

SetActive(u, to) ==
  /\ life[u] \in {"live", "paused"}
  /\ life' = [life EXCEPT ![u] = to]
  /\ UNCHANGED <<cursor, checked, health, published, copies, jobVars, scanVars, faults, stops>>

SoftDelete(u) ==
  /\ life[u] \in {"live", "paused"}
  /\ life' = [life EXCEPT ![u] = "deleted"]
  /\ UNCHANGED <<cursor, checked, health, published, copies, jobVars, scanVars, faults, stops>>

-----------------------------------------------------------------------------
(* scan_all_followed_up *)

(* The SELECT of enabled rows; the scan works on what it read here.        *)
JobTick ==
  /\ pc[Job] = "idle"
  /\ todo' = {u \in Ups : life[u] = "live"}
  /\ rows' = [u \in Ups |-> [cursor |-> cursor[u], checked |-> checked[u]]]
  /\ pc'   = [pc EXCEPT ![Job] = "next"]
  /\ UNCHANGED <<rowVars, published, copies, up, snap, got, list, latest, faults, stops>>

(* A scanner starts to work on the row it read. *)
BeginScan(s, u, c) ==
  /\ pc'     = [pc EXCEPT ![s] = "fetch"]
  /\ up'     = [up EXCEPT ![s] = u]
  /\ snap'   = [snap EXCEPT ![s] = c]
  /\ list'   = [list EXCEPT ![s] = << >>]
  /\ latest' = [latest EXCEPT ![s] = NoVideo]

(* _is_due: a row that was never checked is due. *)
JobScan(u) ==
  /\ pc[Job] = "next" /\ u \in todo
  /\ ~rows[u].checked
  /\ todo' = todo \ {u}
  /\ BeginScan(Job, u, rows[u].cursor)
  /\ UNCHANGED <<rowVars, published, copies, rows, got, faults, stops>>

(* _is_due compares the aware now with a last_checked_at that SQLite       *)
(* returns naive: TypeError, outside the loop's try.  The whole run ends.  *)
JobDueRaises(u) ==
  /\ pc[Job] = "next" /\ u \in todo
  /\ rows[u].checked
  /\ todo' = {}
  /\ pc'   = [pc EXCEPT ![Job] = "idle"]
  /\ UNCHANGED <<rowVars, published, copies, rows, up, snap, got, list, latest, faults, stops>>

JobDone ==
  /\ pc[Job] = "next" /\ todo = {}
  /\ pc' = [pc EXCEPT ![Job] = "idle"]
  /\ UNCHANGED <<rowVars, published, copies, jobVars, up, snap, got, list, latest, faults, stops>>

-----------------------------------------------------------------------------
(* POST /followed-up/{id}/sync: scan_followed_up_by_id under wait_for *)

SyncRequest(r, u) ==
  /\ pc[r] \in ReqFree
  /\ pc' = [pc EXCEPT ![r] = "read"]
  /\ up' = [up EXCEPT ![r] = u]
  /\ UNCHANGED <<rowVars, published, copies, jobVars, snap, got, list, latest, faults, stops>>

(* A row that is missing or deleted scans nothing and is answered "ok"; a  *)
(* paused one is scanned.                                                  *)
SyncMissing(r) ==
  /\ pc[r] = "read"
  /\ life[up[r]] \in {"none", "deleted"}
  /\ pc' = [pc EXCEPT ![r] = "ok"]
  /\ UNCHANGED <<rowVars, published, copies, jobVars, up, snap, got, list, latest, faults, stops>>

SyncRead(r) ==
  /\ pc[r] = "read"
  /\ life[up[r]] \in {"live", "paused"}
  /\ BeginScan(r, up[r], cursor[up[r]])
  /\ UNCHANGED <<rowVars, published, copies, jobVars, got, faults, stops>>

(* wait_for cancels the scan at whatever await it is. *)
SyncTimeout(r) ==
  /\ pc[r] \in Working
  /\ pc' = [pc EXCEPT ![r] = "timeout"]
  /\ UNCHANGED <<rowVars, published, copies, jobVars, up, snap, got, list, latest, faults, stops>>

-----------------------------------------------------------------------------
(* _scan_one *)

(* Mutant: the oldest new video is left out. *)
MutFetched(u, c) ==
  LET new == published[u] - c
      k   == IF new < Count THEN new ELSE Count
  IN  [i \in 1..(k - 1) |-> published[u] - i + 1]

(* fetch_videos: newest first, down to the cursor, at most Count.          *)
Fetched(u, c) ==
  LET new == published[u] - c
      k   == IF new < Count THEN new ELSE Count
  IN  [i \in 1..k |-> published[u] - i + 1]

FetchVideos(s) ==
  /\ pc[s] = "fetch"
  /\ list' = [list EXCEPT ![s] = Fetched(up[s], snap[s])]
  /\ LET some == list'[s] # << >> IN
       /\ got' = [got EXCEPT ![s] = IF some THEN "videos" ELSE "empty"]
       /\ pc'  = [pc EXCEPT ![s] = IF some THEN "look" ELSE "save"]
  /\ UNCHANGED <<rowVars, published, copies, jobVars, up, snap, latest, faults, stops>>

(* An HTTP error is swallowed by the collector, which returns no videos;   *)
(* anything else it raises is caught here.                                 *)
FetchFails(s, how) ==
  /\ pc[s] = "fetch" /\ faults < MaxFaults
  /\ faults' = faults + 1
  /\ got' = [got EXCEPT ![s] = how]
  /\ pc'  = [pc EXCEPT ![s] = "save"]
  /\ UNCHANGED <<rowVars, published, copies, jobVars, up, snap, list, latest, stops>>

(* The loop over the videos goes on with the rest of the list.             *)
NextVideo(s, newest) ==
  /\ list'   = [list EXCEPT ![s] = Tail(@)]
  /\ latest' = [latest EXCEPT ![s] = newest]
  /\ pc'     = [pc EXCEPT ![s] = IF Tail(list[s]) = << >> THEN "save" ELSE "look"]

(* latest_bvid: the first video of the list that did not raise.            *)
Stored(s) == IF latest[s] = NoVideo THEN Head(list[s]) ELSE latest[s]

(* Mutant: latest_bvid is set before the upsert is known to succeed. *)
MutUpsertRaises(s) ==
  /\ pc[s] \in {"look", "insert"} /\ faults < MaxFaults
  /\ faults' = faults + 1
  /\ NextVideo(s, Stored(s))
  /\ UNCHANGED <<rowVars, published, copies, jobVars, up, snap, got, stops>>

(* upsert_hotspot_from_video raises: the video is skipped. *)
UpsertRaises(s) ==
  /\ pc[s] \in {"look", "insert"} /\ faults < MaxFaults
  /\ faults' = faults + 1
  /\ NextVideo(s, latest[s])
  /\ UNCHANGED <<rowVars, published, copies, jobVars, up, snap, got, stops>>

(* Mutant: a video with two rows is tried again instead of skipped. *)
MutUpsertMultiple(s) ==
  /\ pc[s] = "look"
  /\ copies[up[s]][Head(list[s])] > 1
  /\ UNCHANGED vars

(* scalar_one_or_none finds two rows: MultipleResultsFound, the same.      *)
UpsertMultiple(s) ==
  /\ pc[s] = "look"
  /\ copies[up[s]][Head(list[s])] > 1
  /\ NextVideo(s, latest[s])
  /\ UNCHANGED <<rowVars, published, copies, jobVars, up, snap, got, faults, stops>>

UpsertFound(s) ==
  /\ pc[s] = "look"
  /\ copies[up[s]][Head(list[s])] = 1
  /\ NextVideo(s, Stored(s))
  /\ UNCHANGED <<rowVars, published, copies, jobVars, up, snap, got, faults, stops>>

(* Mutant: the existing row is not looked up. *)
MutUpsertAbsent(s) ==
  /\ pc[s] = "look"
  /\ pc' = [pc EXCEPT ![s] = "insert"]
  /\ UNCHANGED <<rowVars, published, copies, jobVars, up, snap, got, list, latest, faults, stops>>

UpsertAbsent(s) ==
  /\ pc[s] = "look"
  /\ copies[up[s]][Head(list[s])] = 0
  /\ pc' = [pc EXCEPT ![s] = "insert"]
  /\ UNCHANGED <<rowVars, published, copies, jobVars, up, snap, got, list, latest, faults, stops>>

(* add and commit, in the session that looked: no constraint stops a       *)
(* second row for the same video.                                          *)
UpsertInsert(s) ==
  /\ pc[s] = "insert"
  /\ copies' = [copies EXCEPT ![up[s]][Head(list[s])] = @ + 1]
  /\ NextVideo(s, Stored(s))
  /\ UNCHANGED <<rowVars, published, jobVars, up, snap, got, faults, stops>>

Return(s) == pc' = [pc EXCEPT ![s] = IF s = Job THEN "next" ELSE "ok"]

(* Mutant: a run that stored nothing clears the cursor. *)
MutSave(s) ==
  /\ pc[s] = "save"
  /\ cursor'  = [cursor EXCEPT ![up[s]] = IF got[s] = "videos" THEN latest[s] ELSE @]
  /\ checked' = [checked EXCEPT ![up[s]] = TRUE]
  /\ health'  = [health EXCEPT ![up[s]] = IF got[s] = "raised" THEN "error" ELSE "healthy"]
  /\ Return(s)
  /\ UNCHANGED <<life, published, copies, jobVars, up, snap, got, list, latest, faults, stops>>

(* The UPDATE by id, from the cursor the scanner read when it began; it    *)
(* also lands on a row that was paused or deleted meanwhile.               *)
Save(s) ==
  /\ pc[s] = "save"
  /\ cursor' = [cursor EXCEPT ![up[s]] =
                  IF got[s] # "videos" THEN @
                  ELSE IF latest[s] = NoVideo THEN snap[s] ELSE latest[s]]
  /\ checked' = [checked EXCEPT ![up[s]] = TRUE]
  /\ health'  = [health EXCEPT ![up[s]] = IF got[s] = "raised" THEN "error" ELSE "healthy"]
  /\ Return(s)
  /\ UNCHANGED <<life, published, copies, jobVars, up, snap, got, list, latest, faults, stops>>

(* The UPDATE or the read of a row raises: the job logs it and goes on to  *)
(* the next candidate, the route answers 502.                              *)
ScanRaises(s) ==
  /\ pc[s] \in {"read", "save"} /\ faults < MaxFaults
  /\ faults' = faults + 1
  /\ pc' = [pc EXCEPT ![s] = IF s = Job THEN "next" ELSE "failed"]
  /\ UNCHANGED <<rowVars, published, copies, jobVars, up, snap, got, list, latest, stops>>

(* The process ends and starts again: no scanner survives. *)
Crash ==
  /\ stops < MaxStops
  /\ stops' = stops + 1
  /\ pc'   = [s \in Scanners |-> IF pc[s] \in Answers THEN pc[s] ELSE "idle"]
  /\ todo' = {}
  /\ UNCHANGED <<rowVars, published, copies, rows, up, snap, got, list, latest, faults>>

-----------------------------------------------------------------------------
ScanStep(s) == \/ FetchVideos(s) \/ UpsertMultiple(s) \/ UpsertFound(s)
               \/ UpsertAbsent(s) \/ UpsertInsert(s) \/ Save(s)

ScanFault(s) == \/ \E how \in {"http_error", "raised"} : FetchFails(s, how)
                \/ UpsertRaises(s) \/ ScanRaises(s)

JobStep == JobTick \/ JobDone \/ \E u \in Ups : JobScan(u) \/ JobDueRaises(u)

UserStep == \E u \in Ups :
  \/ Publish(u) \/ Create(u) \/ SoftDelete(u)
  \/ \E to \in {"live", "paused"} : SetActive(u, to)

Next ==
  \/ UserStep
  \/ JobStep
  \/ \E s \in Scanners : ScanStep(s) \/ ScanFault(s)
  \/ \E r \in Reqs : \/ SyncRead(r) \/ SyncMissing(r) \/ SyncTimeout(r)
                     \/ \E u \in Ups : SyncRequest(r, u)
  \/ Crash

Spec == Init /\ [][Next]_vars

(* APScheduler fires the job every minute, and the loop runs every ready   *)
(* task; each HTTP call of a collector has a timeout.                      *)
Fairness ==
  /\ WF_vars(JobStep)
  /\ \A s \in Scanners : WF_vars(ScanStep(s))
  /\ \A r \in Reqs : WF_vars(SyncRead(r) \/ SyncMissing(r))

FairSpec == Spec /\ Fairness

-----------------------------------------------------------------------------
(* Every variable has its type. *)
TypeOK ==
  /\ life      \in [Ups -> {"none", "live", "paused", "deleted"}]
  /\ cursor    \in [Ups -> Bvid]
  /\ checked   \in [Ups -> BOOLEAN]
  /\ health    \in [Ups -> {"healthy", "error"}]
  /\ published \in [Ups -> 0..MaxVideos]
  /\ copies    \in [Ups -> [Videos -> Nat]]
  /\ todo \subseteq Ups
  /\ rows   \in [Ups -> [cursor : Bvid, checked : BOOLEAN]]
  /\ pc     \in [Scanners -> Working \union ReqFree \union {"next"}]
  /\ up     \in [Scanners -> Ups]
  /\ snap   \in [Scanners -> Bvid]
  /\ got    \in [Scanners -> {"videos", "empty", "http_error", "raised"}]
  /\ list   \in [Scanners -> Seq(Videos)]
  /\ latest \in [Scanners -> Bvid]
  /\ faults \in 0..MaxFaults /\ stops \in 0..MaxStops

-----------------------------------------------------------------------------
(* The cursor a row holds is a video whose hotspot is stored: a fetch that *)
(* stops there never stops at a video the archive does not have, whatever  *)
(* scans overlapped, failed, timed out or died on the way.                 *)
CursorIsStored == \A u \in Ups : cursor[u] # NoVideo => copies[u][cursor[u]] > 0

(* Without faults, and while a fetch is not cut off at Count, everything   *)
(* up to the cursor is stored: nothing behind it can be lost.              *)
NothingSkipped ==
  (faults = 0 /\ Count >= MaxVideos) =>
    \A u \in Ups : \A v \in 1..cursor[u] : copies[u][v] > 0

(* A video never has more rows than there are scanners: two rows need two *)
(* scans that overlap, and the job alone, dying after it stored a video    *)
(* and before it saved the cursor, never stores it twice.                  *)
CopiesBounded ==
  \A u \in Ups, v \in Videos : copies[u][v] <= 1 + Cardinality(Reqs)

(* A scan that saves while the cursor is still the one it read never moves *)
(* it back, whatever part of its videos it could not store.                *)
CursorMovesForward ==
  [][\A s \in Scanners :
       (pc[s] = "save" /\ pc'[s] \in {"next", "ok"} /\ snap[s] = cursor[up[s]])
         => cursor'[up[s]] >= cursor[up[s]]]_vars

(* Under FairSpec every sync request is answered or lost with the process, *)
(* without the time limit's help: also after an overlap left two rows for  *)
(* a video, which every later lookup trips over.                           *)
SyncEnds == \A r \in Reqs : pc[r] \in Working ~> pc[r] \notin Working

=============================================================================
