--------------------------- MODULE FollowScanProofs ---------------------------
(***************************************************************************)
(* Proofs about FollowScan, for any set of creators and sync requests, any *)
(* fetch size and any number of faults and crashes:                        *)
(*   - TypeOK;                                                             *)
(*   - CursorIsStored and CursorMovesForward;                              *)
(*   - CopiesBounded and NothingSkipped.                                   *)
(* The inductive invariant says that every cursor a scanner or the job     *)
(* carries names a stored video, and that what a scanner fetched is newer  *)
(* than the cursor it fetched from.                                        *)
(***************************************************************************)
EXTENDS FollowScan, SequenceTheorems, FiniteSetTheorems, TLAPS

(* A cursor that is not NULL names a video that has a hotspot. *)
HasHotspot(u, v) == v # NoVideo => copies[u][v] > 0

(* The steps of _scan_one. *)
InScan == {"fetch", "look", "insert", "save"}

RowsStored == \A u \in Ups : HasHotspot(u, rows[u].cursor)

ScanStored ==
  \A s \in Scanners : pc[s] \in InScan =>
    HasHotspot(up[s], snap[s]) /\ HasHotspot(up[s], latest[s])

ScanNewer ==
  \A s \in Scanners : pc[s] \in InScan =>
    /\ latest[s] # NoVideo => latest[s] > snap[s]
    /\ \A i \in 1..Len(list[s]) : list[s][i] > snap[s]

ListLeft == \A s \in Scanners : pc[s] \in {"look", "insert"} => list[s] # << >>

IInv == TypeOK /\ CursorIsStored /\ RowsStored /\ ScanStored /\ ScanNewer /\ ListLeft

-----------------------------------------------------------------------------
(* What fetch_videos returns is newer than the cursor. *)
LEMMA FetchedNewer ==
  ASSUME TypeOK, NEW u \in Ups, NEW c \in Bvid
  PROVE  /\ Fetched(u, c) \in Seq(Videos)
         /\ \A i \in 1..Len(Fetched(u, c)) : Fetched(u, c)[i] > c
<1> DEFINE new == published[u] - c
           k   == IF new < Count THEN new ELSE Count
           f   == [i \in 1..k |-> published[u] - i + 1]
<1>1. published[u] \in 0..MaxVideos /\ c \in 0..MaxVideos /\ MaxVideos \in Nat /\ Count \in Nat \ {0}
  BY CountAssumption, ScanBounds DEF TypeOK, Bvid, Videos, NoVideo
<1>2. k \in Int /\ k <= new
  BY <1>1
<1>3. \A i \in 1..k : published[u] - i + 1 \in Videos /\ published[u] - i + 1 > c
  BY <1>1, <1>2 DEF Videos
<1>4. f = Fetched(u, c)
  BY DEF Fetched
<1> DEFINE m == IF k < 0 THEN 0 ELSE k
<1>5. m \in Nat /\ 1..k = 1..m
  BY <1>2
<1>6. f \in [1..m -> Videos]
  BY <1>3, <1>5
<1> HIDE DEF f, m, k, new
<1>7. f \in Seq(Videos) /\ Len(f) = m
  BY <1>5, <1>6
<1>8. \A i \in 1..m : f[i] > c
  <2>1. \A i \in 1..k : f[i] > c
    BY <1>3 DEF f
  <2>2. QED
    BY <2>1, <1>5
<1>9. QED
  BY <1>7, <1>8, <1>4

(* The head and the tail of a list keep what all its elements satisfy. *)
LEMMA HeadTail ==
  ASSUME NEW q \in Seq(Videos), q # << >>
  PROVE  /\ Head(q) \in Videos /\ Tail(q) \in Seq(Videos)
         /\ \A c \in Bvid : (\A i \in 1..Len(q) : q[i] > c) =>
              Head(q) > c /\ \A i \in 1..Len(Tail(q)) : Tail(q)[i] > c
  OBVIOUS

LEMMA VideoFacts ==
  /\ Videos \subseteq Bvid /\ NoVideo \in Bvid /\ NoVideo = 0
  /\ \A v \in Bvid : v \in Nat /\ (v # NoVideo => v \in Videos)
  BY ScanBounds DEF Videos, Bvid, NoVideo

-----------------------------------------------------------------------------
LEMMA InitIInv == Init => IInv
<1> SUFFICES ASSUME Init PROVE IInv
  OBVIOUS
<1>1. (CHOOSE u \in Ups : TRUE) \in Ups
  BY UpsAssumption
<1>2. TypeOK
  <2>1. /\ life      \in [Ups -> {"none", "live", "paused", "deleted"}]
        /\ checked   \in [Ups -> BOOLEAN]
        /\ health    \in [Ups -> {"healthy", "error"}]
        /\ todo \subseteq Ups
    BY DEF Init
  <2>2. /\ cursor    \in [Ups -> Bvid]
        /\ published \in [Ups -> 0..MaxVideos]
        /\ rows   \in [Ups -> [cursor : Bvid, checked : BOOLEAN]]
        /\ snap   \in [Scanners -> Bvid]
        /\ latest \in [Scanners -> Bvid]
    BY VideoFacts, ScanBounds DEF Init
  <2>3. copies    \in [Ups -> [Videos -> Nat]]
    BY DEF Init
  <2>4. /\ pc     \in [Scanners -> Working \union ReqFree \union {"next"}]
        /\ up     \in [Scanners -> Ups]
        /\ got    \in [Scanners -> {"videos", "empty", "http_error", "raised"}]
    BY <1>1 DEF Init, ReqFree
  <2>5. list   \in [Scanners -> Seq(Videos)]
    BY DEF Init
  <2>6. faults \in 0..MaxFaults /\ stops \in 0..MaxStops
    BY ScanBounds DEF Init
  <2>7. QED
    BY <2>1, <2>2, <2>3, <2>4, <2>5, <2>6 DEF TypeOK
<1>3. CursorIsStored /\ RowsStored
  BY DEF Init, CursorIsStored, RowsStored, HasHotspot
<1>4. ScanStored /\ ScanNewer /\ ListLeft
  BY DEF Init, ScanStored, ScanNewer, ListLeft, InScan
<1>5. QED
  BY <1>2, <1>3, <1>4 DEF IInv

(* A step of the users leaves every scanner and every cursor alone. *)
LEMMA UserStepIInv == ASSUME IInv, UserStep PROVE IInv'
<1> USE DEF IInv
<1>1. TypeOK'
  <2> USE DEF TypeOK, rowVars, jobVars, scanVars
  <2> SUFFICES ASSUME NEW u \in Ups,
                      \/ Publish(u) \/ Create(u) \/ SoftDelete(u)
                      \/ \E to \in {"live", "paused"} : SetActive(u, to)
               PROVE  TypeOK'
    BY DEF UserStep
  <2>1. CASE Publish(u)
    <3>1. published[u] + 1 \in 0..MaxVideos
      BY <2>1, ScanBounds DEF Publish
    <3>2. QED
      BY <2>1, <3>1 DEF Publish
  <2>2. CASE Create(u)
    BY <2>2 DEF Create
  <2>3. CASE SoftDelete(u)
    BY <2>3 DEF SoftDelete
  <2>4. CASE \E to \in {"live", "paused"} : SetActive(u, to)
    BY <2>4 DEF SetActive
  <2>5. QED
    BY <2>1, <2>2, <2>3, <2>4
<1>2. /\ UNCHANGED <<cursor, copies, rows, pc, up, snap, list, latest>>
  BY DEF UserStep, Publish, Create, SetActive, SoftDelete, rowVars, jobVars, scanVars
<1>3. CursorIsStored' /\ RowsStored'
  BY <1>2 DEF CursorIsStored, RowsStored, HasHotspot
<1>4. ScanStored' /\ ScanNewer' /\ ListLeft'
  BY <1>2 DEF ScanStored, ScanNewer, ListLeft, HasHotspot
<1>5. QED
  BY <1>1, <1>3, <1>4
-----------------------------------------------------------------------------
(* A step that leaves hotspots and cursors alone, and either leaves a      *)
(* scanner's scan as it is or takes it out of _scan_one, keeps IInv.       *)
LEMMA QuietStep ==
  ASSUME IInv, TypeOK', UNCHANGED <<cursor, copies, rows, snap, list, latest>>,
         \A s \in Scanners : pc'[s] \in InScan => pc'[s] = pc[s] /\ up'[s] = up[s]
  PROVE  IInv'
<1> USE DEF IInv
<1>1. CursorIsStored' /\ RowsStored'
  BY DEF CursorIsStored, RowsStored, HasHotspot
<1>2. ScanStored'
  BY DEF ScanStored, HasHotspot
<1>3. ScanNewer' /\ ListLeft'
  BY DEF ScanNewer, ListLeft, InScan
<1>4. QED
  BY <1>1, <1>2, <1>3

LEMMA JobTickIInv == ASSUME IInv, JobTick PROVE IInv'
<1> USE DEF IInv
<1>1. TypeOK'
  BY DEF JobTick, TypeOK, rowVars, Scanners
<1>2. UNCHANGED <<cursor, copies, up, snap, list, latest>>
      /\ \A s \in Scanners : pc'[s] \in InScan => pc'[s] = pc[s]
  BY DEF JobTick, rowVars, TypeOK, InScan
<1>3. CursorIsStored'
  BY <1>2 DEF CursorIsStored
<1>4. RowsStored'
  BY <1>2 DEF JobTick, CursorIsStored, RowsStored, HasHotspot
<1>5. ScanStored'
  BY <1>2 DEF ScanStored, HasHotspot
<1>6. ScanNewer' /\ ListLeft'
  BY <1>2 DEF ScanNewer, ListLeft, InScan
<1>7. QED
  BY <1>1, <1>3, <1>4, <1>5, <1>6

(* A scan begins from a cursor that names a stored video. *)
LEMMA BeginScanIInv ==
  ASSUME IInv, NEW s \in Scanners, NEW u \in Ups, NEW c \in Bvid, HasHotspot(u, c),
         BeginScan(s, u, c), UNCHANGED <<rowVars, published, copies, rows, got, faults, stops>>,
         todo' \subseteq Ups
  PROVE  IInv'
<1> USE DEF IInv
<1>1. TypeOK'
  BY VideoFacts DEF BeginScan, TypeOK, rowVars, Working
<1>2. CursorIsStored' /\ RowsStored'
  BY DEF rowVars, CursorIsStored, RowsStored, HasHotspot
<1>3. ScanStored'
  BY VideoFacts DEF BeginScan, ScanStored, HasHotspot, TypeOK
<1>4. ScanNewer' /\ ListLeft'
  BY VideoFacts DEF BeginScan, ScanNewer, ListLeft, TypeOK
<1>5. QED
  BY <1>1, <1>2, <1>3, <1>4

LEMMA JobScanIInv == ASSUME IInv, NEW u \in Ups, JobScan(u) PROVE IInv'
<1>1. Job \in Scanners /\ rows[u].cursor \in Bvid /\ HasHotspot(u, rows[u].cursor)
  BY DEF IInv, TypeOK, RowsStored, Scanners
<1>2. todo' \subseteq Ups
  BY DEF IInv, TypeOK, JobScan
<1>3. QED
  BY <1>1, <1>2, BeginScanIInv DEF JobScan

LEMMA SyncReadIInv == ASSUME IInv, NEW r \in Reqs, SyncRead(r) PROVE IInv'
<1>1. r \in Scanners /\ up[r] \in Ups
  BY DEF IInv, TypeOK, Scanners
<1>2. cursor[up[r]] \in Bvid /\ HasHotspot(up[r], cursor[up[r]])
  BY <1>1 DEF IInv, TypeOK, CursorIsStored, HasHotspot
<1>3. todo' \subseteq Ups
  BY DEF IInv, TypeOK, SyncRead, jobVars
<1>4. UNCHANGED rows
  BY DEF SyncRead, jobVars
<1>5. QED
  BY <1>1, <1>2, <1>3, <1>4, BeginScanIInv DEF SyncRead

(* The other steps of the job and of a request leave the scans as they are. *)
LEMMA JobStepIInv == ASSUME IInv, JobStep PROVE IInv'
<1> USE DEF IInv
<1>1. CASE JobDone
  <2>1. TypeOK'
    BY <1>1 DEF JobDone, TypeOK, rowVars, jobVars, ReqFree
  <2>2. QED
    BY <1>1, <2>1, QuietStep DEF JobDone, TypeOK, rowVars, jobVars, InScan
<1>2. ASSUME NEW u \in Ups, JobDueRaises(u) PROVE IInv'
  <2>1. TypeOK'
    BY <1>2 DEF JobDueRaises, TypeOK, rowVars, ReqFree
  <2>2. QED
    BY <1>2, <2>1, QuietStep DEF JobDueRaises, TypeOK, rowVars, InScan
<1>3. QED
  BY <1>1, <1>2, JobTickIInv, JobScanIInv DEF JobStep

LEMMA RequestIInv ==
  ASSUME IInv, NEW r \in Reqs,
         \/ SyncRead(r) \/ SyncMissing(r) \/ SyncTimeout(r)
         \/ \E u \in Ups : SyncRequest(r, u)
  PROVE  IInv'
<1> USE DEF IInv
<1>1. CASE SyncMissing(r)
  <2>1. TypeOK'
    BY <1>1 DEF SyncMissing, TypeOK, rowVars, jobVars, ReqFree, Answers
  <2>2. QED
    BY <1>1, <2>1, QuietStep DEF SyncMissing, TypeOK, rowVars, jobVars, InScan
<1>2. CASE SyncTimeout(r)
  <2>1. TypeOK'
    BY <1>2 DEF SyncTimeout, TypeOK, rowVars, jobVars, ReqFree, Answers
  <2>2. QED
    BY <1>2, <2>1, QuietStep DEF SyncTimeout, TypeOK, rowVars, jobVars, InScan
<1>3. ASSUME NEW u \in Ups, SyncRequest(r, u) PROVE IInv'
  <2>1. TypeOK'
    BY <1>3 DEF SyncRequest, TypeOK, rowVars, jobVars, Working
  <2>2. QED
    BY <1>3, <2>1, QuietStep DEF SyncRequest, TypeOK, rowVars, jobVars, InScan
<1>4. QED
  BY <1>1, <1>2, <1>3, SyncReadIInv

LEMMA CrashIInv == ASSUME IInv, Crash PROVE IInv'
<1>1. TypeOK'
  BY ScanBounds DEF IInv, Crash, TypeOK, rowVars, ReqFree
<1>2. QED
  BY <1>1, QuietStep DEF IInv, Crash, TypeOK, rowVars, InScan, Answers

-----------------------------------------------------------------------------
(* The steps of a scan *)

LEMMA FetchVideosIInv == ASSUME IInv, NEW s \in Scanners, FetchVideos(s) PROVE IInv'
<1> USE DEF IInv
<1> DEFINE f == Fetched(up[s], snap[s])
<1>1. /\ f \in Seq(Videos)
      /\ \A i \in 1..Len(f) : f[i] > snap[s]
  BY FetchedNewer DEF TypeOK
<1>2. /\ list' = [list EXCEPT ![s] = f]
      /\ pc' = [pc EXCEPT ![s] = IF f # << >> THEN "look" ELSE "save"]
      /\ got' = [got EXCEPT ![s] = IF f # << >> THEN "videos" ELSE "empty"]
      /\ pc[s] = "fetch"
      /\ UNCHANGED <<rowVars, published, copies, jobVars, up, snap, latest, faults, stops>>
  BY DEF FetchVideos, TypeOK
<1> HIDE DEF f
<1>3. TypeOK'
  BY <1>1, <1>2 DEF TypeOK, rowVars, jobVars, Working
<1>4. CursorIsStored' /\ RowsStored' /\ ScanStored'
  BY <1>2 DEF TypeOK, rowVars, jobVars, CursorIsStored, RowsStored, ScanStored, HasHotspot, InScan
<1>5. ScanNewer'
  BY <1>1, <1>2 DEF TypeOK, ScanNewer, InScan
<1>6. ListLeft'
  BY <1>2 DEF TypeOK, ListLeft
<1>7. QED
  BY <1>3, <1>4, <1>5, <1>6

LEMMA FetchFailsIInv ==
  ASSUME IInv, NEW s \in Scanners, NEW how \in {"http_error", "raised"}, FetchFails(s, how)
  PROVE  IInv'
<1> USE DEF IInv
<1>1. TypeOK'
  BY ScanBounds DEF FetchFails, TypeOK, rowVars, jobVars, Working
<1>2. CursorIsStored' /\ RowsStored' /\ ScanStored'
  BY DEF FetchFails, TypeOK, rowVars, jobVars, CursorIsStored, RowsStored, ScanStored, HasHotspot, InScan
<1>3. ScanNewer' /\ ListLeft'
  BY DEF FetchFails, TypeOK, ScanNewer, ListLeft, InScan
<1>4. QED
  BY <1>1, <1>2, <1>3

(* The loop takes a video off the list; hotspots are only ever added, and  *)
(* the newest video it remembers has one.                                  *)
LEMMA NextVideoIInv ==
  ASSUME IInv, NEW s \in Scanners, pc[s] \in {"look", "insert"},
         NEW v \in {latest[s], Stored(s)}, NextVideo(s, v),
         UNCHANGED <<rowVars, published, jobVars, up, snap, got, stops>>,
         faults' \in 0..MaxFaults,
         copies' \in [Ups -> [Videos -> Nat]],
         \A u \in Ups, w \in Videos : copies'[u][w] >= copies[u][w],
         v # NoVideo => copies'[up[s]][v] > 0
  PROVE  IInv'
<1> USE DEF IInv
<1> DEFINE q == list[s]
<1>1. q \in Seq(Videos) /\ q # << >> /\ latest[s] \in Bvid /\ snap[s] \in Bvid /\ up[s] \in Ups
  BY DEF TypeOK, ListLeft
<1>2. pc[s] \in InScan
  BY DEF InScan
<1>3. \A i \in 1..Len(q) : q[i] > snap[s]
  BY <1>2 DEF ScanNewer
<1>4. /\ Head(q) \in Videos /\ Tail(q) \in Seq(Videos) /\ Head(q) > snap[s]
      /\ \A i \in 1..Len(Tail(q)) : Tail(q)[i] > snap[s]
  BY <1>1, <1>3, HeadTail
<1>5. v \in Bvid /\ (v # NoVideo => v > snap[s])
  BY <1>1, <1>2, <1>4, VideoFacts DEF Stored, ScanNewer
<1>6. /\ list' = [list EXCEPT ![s] = Tail(q)]
      /\ latest' = [latest EXCEPT ![s] = v]
      /\ pc' = [pc EXCEPT ![s] = IF Tail(q) = << >> THEN "save" ELSE "look"]
  BY DEF NextVideo, TypeOK
<1> HIDE DEF q
<1>7. TypeOK'
  BY <1>4, <1>5, <1>6 DEF TypeOK, rowVars, jobVars, Working
<1>8. \A u \in Ups, w \in Bvid : HasHotspot(u, w) => (HasHotspot(u, w))'
  BY VideoFacts DEF HasHotspot, TypeOK
<1>9. CursorIsStored'
  BY <1>8 DEF CursorIsStored, HasHotspot, TypeOK, rowVars
<1>10. RowsStored'
  BY <1>8 DEF RowsStored, HasHotspot, TypeOK, jobVars
<1>11. ScanStored'
  <2> SUFFICES ASSUME NEW z \in Scanners, pc'[z] \in InScan
               PROVE  (HasHotspot(up[z], snap[z]))' /\ (HasHotspot(up[z], latest[z]))'
    BY DEF ScanStored
  <2>1. up'[z] = up[z] /\ snap'[z] = snap[z] /\ up[z] \in Ups /\ snap[z] \in Bvid /\ latest[z] \in Bvid
    BY DEF TypeOK
  <2>2. pc[z] \in InScan
    BY <1>2, <1>6 DEF TypeOK
  <2>3. HasHotspot(up[z], snap[z]) /\ HasHotspot(up[z], latest[z])
    BY <2>2 DEF ScanStored
  <2>4. (HasHotspot(up[z], snap[z]))'
    BY <1>8, <2>1, <2>3 DEF HasHotspot
  <2>5. CASE z = s
    BY <1>6, <2>1, <2>4, <2>5 DEF HasHotspot, TypeOK
  <2>6. CASE z # s
    <3>1. latest'[z] = latest[z]
      BY <1>6, <2>6 DEF TypeOK
    <3>2. QED
      BY <1>8, <2>1, <2>3, <2>4, <3>1 DEF HasHotspot
  <2>7. QED
    BY <2>5, <2>6
<1>12. ScanNewer'
  <2> SUFFICES ASSUME NEW z \in Scanners, pc'[z] \in InScan
               PROVE  /\ latest'[z] # NoVideo => latest'[z] > snap'[z]
                      /\ \A i \in 1..Len(list'[z]) : list'[z][i] > snap'[z]
    BY DEF ScanNewer
  <2>1. CASE z = s
    BY <1>4, <1>5, <1>6, <2>1 DEF TypeOK
  <2>2. CASE z # s
    <3>1. pc[z] \in InScan /\ latest'[z] = latest[z] /\ list'[z] = list[z] /\ snap'[z] = snap[z]
      BY <1>6, <2>2 DEF TypeOK
    <3>2. QED
      BY <3>1 DEF ScanNewer
  <2>3. QED
    BY <2>1, <2>2
<1>13. ListLeft'
  BY <1>6 DEF ListLeft, TypeOK
<1>14. QED
  BY <1>7, <1>9, <1>10, <1>11, <1>12, <1>13

LEMMA UpsertRaisesIInv == ASSUME IInv, NEW s \in Scanners, UpsertRaises(s) PROVE IInv'
<1> USE DEF IInv
<1>1. pc[s] \in InScan /\ faults' \in 0..MaxFaults
  BY ScanBounds DEF UpsertRaises, InScan, TypeOK
<1>2. latest[s] # NoVideo => copies[up[s]][latest[s]] > 0
  BY <1>1 DEF ScanStored, HasHotspot
<1>3. copies' = copies /\ \A u \in Ups, w \in Videos : copies'[u][w] >= copies[u][w]
  BY DEF UpsertRaises, TypeOK
<1>4. QED
  BY <1>1, <1>2, <1>3, NextVideoIInv DEF UpsertRaises, TypeOK

LEMMA UpsertMultipleIInv == ASSUME IInv, NEW s \in Scanners, UpsertMultiple(s) PROVE IInv'
<1> USE DEF IInv
<1>1. pc[s] \in InScan /\ faults' \in 0..MaxFaults
  BY DEF UpsertMultiple, InScan, TypeOK
<1>2. latest[s] # NoVideo => copies[up[s]][latest[s]] > 0
  BY <1>1 DEF ScanStored, HasHotspot
<1>3. copies' = copies /\ \A u \in Ups, w \in Videos : copies'[u][w] >= copies[u][w]
  BY DEF UpsertMultiple, TypeOK
<1>4. QED
  BY <1>1, <1>2, <1>3, NextVideoIInv DEF UpsertMultiple, TypeOK

LEMMA UpsertFoundIInv == ASSUME IInv, NEW s \in Scanners, UpsertFound(s) PROVE IInv'
<1> USE DEF IInv
<1>1. pc[s] \in InScan /\ faults' \in 0..MaxFaults
  BY DEF UpsertFound, InScan, TypeOK
<1>2. Stored(s) # NoVideo => copies[up[s]][Stored(s)] > 0
  BY <1>1 DEF UpsertFound, Stored, ScanStored, HasHotspot
<1>3. copies' = copies /\ \A u \in Ups, w \in Videos : copies'[u][w] >= copies[u][w]
  BY DEF UpsertFound, TypeOK
<1>4. QED
  BY <1>1, <1>2, <1>3, NextVideoIInv DEF UpsertFound, TypeOK

LEMMA UpsertInsertIInv == ASSUME IInv, NEW s \in Scanners, UpsertInsert(s) PROVE IInv'
<1> USE DEF IInv
<1> DEFINE u0 == up[s]
           v0 == Head(list[s])
<1>1. pc[s] = "insert" /\ pc[s] \in InScan /\ faults' \in 0..MaxFaults
  BY DEF UpsertInsert, InScan, TypeOK
<1>2. u0 \in Ups /\ v0 \in Videos
  BY <1>1, HeadTail DEF TypeOK, ListLeft
<1>3. copies' = [copies EXCEPT ![u0][v0] = @ + 1] /\ copies \in [Ups -> [Videos -> Nat]]
  BY DEF UpsertInsert, TypeOK
<1> HIDE DEF u0, v0
<1>4. copies' \in [Ups -> [Videos -> Nat]]
  BY <1>2, <1>3
<1>5. /\ \A u \in Ups, w \in Videos : copies'[u][w] >= copies[u][w]
      /\ copies'[u0][v0] > 0
  BY <1>2, <1>3
<1>6. Stored(s) # NoVideo => copies'[up[s]][Stored(s)] > 0
  <2>1. CASE latest[s] = NoVideo
    BY <1>5, <2>1 DEF Stored, u0, v0
  <2>2. CASE latest[s] # NoVideo
    <3>1. copies[up[s]][latest[s]] > 0 /\ up[s] \in Ups /\ latest[s] \in Videos
      BY <1>1, <2>2, VideoFacts DEF ScanStored, HasHotspot, TypeOK
    <3>2. copies[up[s]][latest[s]] \in Nat /\ copies'[up[s]][latest[s]] \in Nat
      BY <1>3, <1>4, <3>1
    <3>3. QED
      BY <1>5, <2>2, <3>1, <3>2 DEF Stored
  <2>3. QED
    BY <2>1, <2>2
<1>7. QED
  BY <1>1, <1>4, <1>5, <1>6, NextVideoIInv DEF UpsertInsert

LEMMA UpsertAbsentIInv == ASSUME IInv, NEW s \in Scanners, UpsertAbsent(s) PROVE IInv'
<1> USE DEF IInv
<1>1. TypeOK'
  BY DEF UpsertAbsent, TypeOK, rowVars, jobVars, Working
<1>2. CursorIsStored' /\ RowsStored' /\ ScanStored'
  BY DEF UpsertAbsent, TypeOK, rowVars, jobVars, CursorIsStored, RowsStored, ScanStored, HasHotspot, InScan
<1>3. ScanNewer' /\ ListLeft'
  BY DEF UpsertAbsent, TypeOK, ScanNewer, ListLeft, InScan
<1>4. QED
  BY <1>1, <1>2, <1>3

(* The cursor Save writes is the old one, the one read or the newest video *)
(* stored: each has a hotspot.                                             *)
LEMMA SaveIInv == ASSUME IInv, NEW s \in Scanners, Save(s) PROVE IInv'
<1> USE DEF IInv
<1> DEFINE c == IF got[s] # "videos" THEN cursor[up[s]]
                ELSE IF latest[s] = NoVideo THEN snap[s] ELSE latest[s]
<1>1. pc[s] = "save" /\ pc[s] \in InScan /\ up[s] \in Ups
  BY DEF Save, InScan, TypeOK
<1>2. c \in Bvid /\ HasHotspot(up[s], c)
  BY <1>1 DEF TypeOK, CursorIsStored, ScanStored, HasHotspot
<1>3. cursor' = [cursor EXCEPT ![up[s]] = c]
  BY <1>1 DEF Save, TypeOK
<1> HIDE DEF c
<1>4. TypeOK'
  <2>1. pc' \in [Scanners -> Working \union ReqFree \union {"next"}]
    BY DEF Save, Return, TypeOK, ReqFree, Answers
  <2>2. cursor' \in [Ups -> Bvid]
    BY <1>2, <1>3 DEF TypeOK
  <2>3. checked' \in [Ups -> BOOLEAN] /\ health' \in [Ups -> {"healthy", "error"}]
    BY DEF Save, TypeOK
  <2>4. QED
    BY <2>1, <2>2, <2>3 DEF Save, TypeOK, jobVars
<1>5. CursorIsStored'
  <2>1. UNCHANGED copies
    BY DEF Save
  <2>2. QED
    BY <1>1, <1>2, <1>3, <2>1 DEF CursorIsStored, HasHotspot, TypeOK
<1>6. UNCHANGED <<copies, rows, up, snap, list, latest>>
      /\ \A z \in Scanners : pc'[z] \in InScan => pc'[z] = pc[z]
  BY DEF Save, Return, TypeOK, jobVars, InScan
<1>7. RowsStored' /\ ScanStored'
  BY <1>6 DEF RowsStored, ScanStored, HasHotspot
<1>8. ScanNewer' /\ ListLeft'
  BY <1>6 DEF ScanNewer, ListLeft, InScan
<1>9. QED
  BY <1>4, <1>5, <1>7, <1>8

LEMMA ScanRaisesIInv == ASSUME IInv, NEW s \in Scanners, ScanRaises(s) PROVE IInv'
<1>1. TypeOK'
  BY ScanBounds DEF IInv, ScanRaises, TypeOK, rowVars, jobVars, ReqFree, Answers
<1>2. QED
  BY <1>1, QuietStep DEF IInv, ScanRaises, TypeOK, rowVars, jobVars, InScan

LEMMA StutterIInv == ASSUME IInv, UNCHANGED vars PROVE IInv'
<1>1. TypeOK'
  BY DEF IInv, TypeOK, vars, rowVars, jobVars, scanVars
<1>2. QED
  BY <1>1, QuietStep DEF vars, rowVars, jobVars, scanVars

LEMMA Inductive == IInv /\ [Next]_vars => IInv'
<1> SUFFICES ASSUME IInv, [Next]_vars PROVE IInv'
  OBVIOUS
<1>1. ASSUME NEW s \in Scanners, ScanStep(s) PROVE IInv'
  BY <1>1, FetchVideosIInv, UpsertMultipleIInv, UpsertFoundIInv, UpsertAbsentIInv,
     UpsertInsertIInv, SaveIInv DEF ScanStep
<1>2. ASSUME NEW s \in Scanners, ScanFault(s) PROVE IInv'
  BY <1>2, FetchFailsIInv, UpsertRaisesIInv, ScanRaisesIInv DEF ScanFault
<1>3. QED
  BY <1>1, <1>2, UserStepIInv, JobStepIInv, RequestIInv, CrashIInv, StutterIInv DEF Next

LEMMA Invariance == Spec => []IInv
BY InitIInv, Inductive, PTL DEF Spec

-----------------------------------------------------------------------------
(* Type correctness: a list never holds anything but published videos, and *)
(* no cursor is ever anything but one of them or NULL.                     *)
THEOREM ScanTypeCorrect == Spec => []TypeOK
<1>1. IInv => TypeOK
  BY DEF IInv
<1>2. QED
  BY Invariance, <1>1, PTL

(* However scans overlap, fail, time out or die, a stored cursor names a   *)
(* video that has a hotspot.                                               *)
THEOREM CursorNamesAHotspot == Spec => []CursorIsStored
<1>1. IInv => CursorIsStored
  BY DEF IInv
<1>2. QED
  BY Invariance, <1>1, PTL

(* Only Save takes a scanner from "save" to "next" or "ok". *)
LEMMA LeavingSave ==
  ASSUME TypeOK, NEW s \in Scanners, Next, pc[s] = "save", pc'[s] \in {"next", "ok"}
  PROVE  Save(s) \/ UNCHANGED cursor
<1>1. ASSUME NEW z \in Scanners, ScanStep(z) PROVE Save(s) \/ UNCHANGED cursor
  <2>1. CASE Save(z)
    <3>1. z = s
      BY <2>1 DEF Save, Return, TypeOK
    <3>2. QED
      BY <2>1, <3>1
  <2>2. CASE ~Save(z)
    BY <1>1, <2>2 DEF ScanStep, FetchVideos, UpsertMultiple, UpsertFound, UpsertAbsent, UpsertInsert, rowVars
  <2>3. QED
    BY <2>1, <2>2
<1>2. ASSUME NEW z \in Scanners, ScanFault(z) PROVE UNCHANGED cursor
  BY <1>2 DEF ScanFault, FetchFails, UpsertRaises, ScanRaises, rowVars
<1>3. ASSUME UserStep \/ JobStep PROVE UNCHANGED cursor
  BY <1>3 DEF UserStep, Publish, Create, SetActive, SoftDelete, JobStep, JobTick, JobDone, JobScan,
             JobDueRaises, rowVars
<1>4. ASSUME NEW r \in Reqs,
             \/ SyncRead(r) \/ SyncMissing(r) \/ SyncTimeout(r)
             \/ \E u \in Ups : SyncRequest(r, u)
      PROVE  UNCHANGED cursor
  BY <1>4 DEF SyncRead, SyncMissing, SyncTimeout, SyncRequest, rowVars
<1>5. ASSUME Crash PROVE UNCHANGED cursor
  BY <1>5 DEF Crash, rowVars
<1>6. QED
  BY <1>1, <1>2, <1>3, <1>4, <1>5 DEF Next

(* A scan that saves while the cursor is still the one it read never moves *)
(* it back.                                                                *)
THEOREM CursorNeverMovesBack == Spec => CursorMovesForward
<1> DEFINE Forward(s) == (pc[s] = "save" /\ pc'[s] \in {"next", "ok"} /\ snap[s] = cursor[up[s]])
                           => cursor'[up[s]] >= cursor[up[s]]
<1>1. ASSUME IInv, [Next]_vars PROVE [\A s \in Scanners : Forward(s)]_vars
  <2> SUFFICES ASSUME NEW s \in Scanners, Next, pc[s] = "save", pc'[s] \in {"next", "ok"},
                      snap[s] = cursor[up[s]]
               PROVE  cursor'[up[s]] >= cursor[up[s]]
    BY <1>1
  <2>1. up[s] \in Ups /\ cursor[up[s]] \in Nat /\ latest[s] \in Nat /\ pc[s] \in InScan
    BY <1>1, VideoFacts DEF IInv, TypeOK, InScan
  <2>2. Save(s) \/ UNCHANGED cursor
    BY <1>1, LeavingSave DEF IInv
  <2>3. CASE Save(s)
    BY <1>1, <2>1, <2>3 DEF Save, IInv, TypeOK, ScanNewer
  <2>4. QED
    BY <2>1, <2>2, <2>3
<1>2. QED
  BY <1>1, Invariance, PTL DEF Spec, CursorMovesForward

-----------------------------------------------------------------------------
(* Copies of a video *)

(* The scanners that looked for video v of u, found none and will insert. *)
Inserting(u, v) == {s \in Scanners : pc[s] = "insert" /\ up[s] = u /\ Head(list[s]) = v}

(* Rows are made by scanners that looked when there was none: the rows and *)
(* the inserts to come are never more than the scanners.                   *)
Room(u, v) == copies[u][v] + Cardinality(Inserting(u, v)) <= Cardinality(Scanners)

CopyInv == \A u \in Ups, v \in Videos : Room(u, v)

LEMMA ScannersFinite ==
  /\ IsFiniteSet(Scanners) /\ Cardinality(Scanners) = 1 + Cardinality(Reqs)
  /\ Cardinality(Scanners) \in Nat
<1>1. /\ IsFiniteSet(Reqs \union {Job})
      /\ Cardinality(Reqs \union {Job}) = Cardinality(Reqs) + 1
  BY FiniteReqs, ScannersAssumption, FS_AddElement
<1>2. Scanners = Reqs \union {Job}
  BY DEF Scanners
<1>3. Cardinality(Reqs) \in Nat
  BY FiniteReqs, FS_CardinalityType
<1>4. QED
  BY <1>1, <1>2, <1>3

LEMMA InsertingFinite ==
  ASSUME NEW u, NEW v
  PROVE  /\ IsFiniteSet(Inserting(u, v)) /\ Cardinality(Inserting(u, v)) \in Nat
         /\ Cardinality(Inserting(u, v)) <= Cardinality(Scanners)
<1>1. Inserting(u, v) \in SUBSET Scanners
  BY DEF Inserting
<1>2. QED
  BY <1>1, ScannersFinite, FS_Subset, FS_CardinalityType

LEMMA QuietRoom ==
  ASSUME TypeOK, CopyInv, UNCHANGED copies,
         \A s \in Scanners : pc'[s] = "insert" => pc[s] = "insert" /\ up'[s] = up[s] /\ list'[s] = list[s]
  PROVE  CopyInv'
<1> SUFFICES ASSUME NEW u \in Ups, NEW v \in Videos PROVE Room(u, v)'
  BY DEF CopyInv
<1>1. Inserting(u, v)' \in SUBSET Inserting(u, v)
  BY DEF Inserting
<1>2. Cardinality(Inserting(u, v)') <= Cardinality(Inserting(u, v)) /\ Cardinality(Inserting(u, v)') \in Nat
  BY <1>1, InsertingFinite, FS_Subset, FS_CardinalityType
<1>3. Room(u, v) /\ copies[u][v] \in Nat
  BY DEF CopyInv, TypeOK
<1>4. QED
  BY <1>2, <1>3, InsertingFinite, ScannersFinite DEF Room

(* Who looks and finds none is one of the scanners. *)
LEMMA AbsentRoom ==
  ASSUME IInv, CopyInv, NEW s \in Scanners, UpsertAbsent(s)
  PROVE  CopyInv'
<1> SUFFICES ASSUME NEW u \in Ups, NEW v \in Videos PROVE Room(u, v)'
  BY DEF CopyInv
<1>1. UNCHANGED <<copies, up, list>> /\ pc' = [pc EXCEPT ![s] = "insert"]
  BY DEF UpsertAbsent
<1>2. Inserting(u, v)' \in SUBSET Scanners
  BY DEF Inserting
<1>3. Cardinality(Inserting(u, v)') <= Cardinality(Scanners) /\ Cardinality(Inserting(u, v)') \in Nat
  BY <1>2, ScannersFinite, FS_Subset, FS_CardinalityType
<1>4. CASE u = up[s] /\ v = Head(list[s])
  <2>1. copies'[u][v] = 0
    BY <1>1, <1>4 DEF UpsertAbsent
  <2>2. QED
    BY <1>3, <2>1, ScannersFinite DEF Room
<1>5. CASE ~(u = up[s] /\ v = Head(list[s]))
  <2>1. Inserting(u, v)' = Inserting(u, v)
    BY <1>1, <1>5 DEF Inserting, IInv, TypeOK, UpsertAbsent
  <2>2. QED
    BY <1>1, <2>1 DEF Room, CopyInv
<1>6. QED
  BY <1>4, <1>5

(* Who inserts is no longer about to. *)
LEMMA InsertRoom ==
  ASSUME IInv, CopyInv, NEW s \in Scanners, UpsertInsert(s)
  PROVE  CopyInv'
<1> SUFFICES ASSUME NEW u \in Ups, NEW v \in Videos PROVE Room(u, v)'
  BY DEF CopyInv
<1>1. /\ pc[s] = "insert" /\ pc'[s] # "insert" /\ up' = up
      /\ \A z \in Scanners \ {s} : pc'[z] = pc[z] /\ list'[z] = list[z]
  BY DEF UpsertInsert, NextVideo, IInv, TypeOK
<1>2. up[s] \in Ups /\ Head(list[s]) \in Videos
  BY <1>1, HeadTail DEF IInv, TypeOK, ListLeft
<1>3. copies' = [copies EXCEPT ![up[s]][Head(list[s])] = @ + 1] /\ copies \in [Ups -> [Videos -> Nat]]
  BY DEF UpsertInsert, IInv, TypeOK
<1>4. Inserting(u, v)' = Inserting(u, v) \ {s}
  BY <1>1 DEF Inserting
<1>5. Room(u, v) /\ copies[u][v] \in Nat
  BY DEF CopyInv, IInv, TypeOK
<1>6. CASE u = up[s] /\ v = Head(list[s])
  <2>1. copies'[u][v] = copies[u][v] + 1
    BY <1>2, <1>3, <1>6
  <2>2. s \in Inserting(u, v)
    BY <1>1, <1>6 DEF Inserting
  <2>3. Cardinality(Inserting(u, v)') = Cardinality(Inserting(u, v)) - 1
    BY <1>4, <2>2, InsertingFinite, FS_RemoveElement
  <2>4. QED
    BY <1>5, <2>1, <2>3, InsertingFinite, ScannersFinite DEF Room
<1>7. CASE ~(u = up[s] /\ v = Head(list[s]))
  <2>1. copies'[u][v] = copies[u][v]
    BY <1>2, <1>3, <1>7
  <2>2. Inserting(u, v)' = Inserting(u, v)
    BY <1>4, <1>7 DEF Inserting
  <2>3. QED
    BY <1>5, <2>1, <2>2 DEF Room
<1>8. QED
  BY <1>6, <1>7

(* No other step makes a row, or a scanner about to insert. *)
LEMMA OtherSteps ==
  ASSUME TypeOK, [Next]_vars
  PROVE  \/ \E s \in Scanners : UpsertAbsent(s) \/ UpsertInsert(s)
         \/ /\ UNCHANGED copies
            /\ \A s \in Scanners : pc'[s] = "insert" =>
                 pc[s] = "insert" /\ up'[s] = up[s] /\ list'[s] = list[s]
<1> DEFINE Quiet == /\ UNCHANGED copies
                    /\ \A s \in Scanners : pc'[s] = "insert" =>
                         pc[s] = "insert" /\ up'[s] = up[s] /\ list'[s] = list[s]
<1> USE DEF TypeOK, rowVars, jobVars, scanVars
<1>1. ASSUME NEW s \in Scanners, ScanStep(s) PROVE Quiet \/ UpsertAbsent(s) \/ UpsertInsert(s)
  <2>1. FetchVideos(s) => Quiet
    BY DEF FetchVideos
  <2>2. UpsertMultiple(s) \/ UpsertFound(s) => Quiet
    BY DEF UpsertMultiple, UpsertFound, NextVideo
  <2>3. Save(s) => Quiet
    BY DEF Save, Return
  <2>4. QED
    BY <1>1, <2>1, <2>2, <2>3 DEF ScanStep
<1>2. ASSUME NEW s \in Scanners, ScanFault(s) PROVE Quiet
  BY <1>2 DEF ScanFault, FetchFails, UpsertRaises, ScanRaises, NextVideo
<1>3. UserStep => Quiet
  BY DEF UserStep, Publish, Create, SetActive, SoftDelete
<1>4. JobStep => Quiet
  BY DEF JobStep, JobTick, JobDone, JobScan, JobDueRaises, BeginScan, Scanners
<1>5. ASSUME NEW r \in Reqs,
             \/ SyncRead(r) \/ SyncMissing(r) \/ SyncTimeout(r)
             \/ \E u \in Ups : SyncRequest(r, u)
      PROVE  Quiet
  BY <1>5 DEF SyncRead, SyncMissing, SyncTimeout, SyncRequest, BeginScan, Scanners
<1>6. Crash => Quiet
  BY DEF Crash
<1>7. UNCHANGED vars => Quiet
  BY DEF vars
<1> HIDE DEF Quiet
<1>8. Quiet \/ \E s \in Scanners : UpsertAbsent(s) \/ UpsertInsert(s)
  BY <1>1, <1>2, <1>3, <1>4, <1>5, <1>6, <1>7 DEF Next
<1>9. QED
  BY <1>8 DEF Quiet

LEMMA CopyInvariance == Spec => []CopyInv
<1>1. Init => CopyInv
  <2> SUFFICES ASSUME Init, NEW u \in Ups, NEW v \in Videos PROVE Room(u, v)
    BY DEF CopyInv
  <2>1. copies[u][v] = 0
    BY DEF Init
  <2>2. QED
    BY <2>1, InsertingFinite, ScannersFinite DEF Room
<1>2. ASSUME IInv, CopyInv, [Next]_vars PROVE CopyInv'
  BY <1>2, AbsentRoom, InsertRoom, OtherSteps, QuietRoom DEF IInv
<1>3. QED
  BY <1>1, <1>2, Invariance, PTL DEF Spec

(* However many scans overlap on a creator, and however they end, a video  *)
(* has at most one row per scanner.                                        *)
THEOREM CopiesStayBounded == Spec => []CopiesBounded
<1>1. IInv /\ CopyInv => CopiesBounded
  <2> SUFFICES ASSUME IInv, CopyInv, NEW u \in Ups, NEW v \in Videos
               PROVE  copies[u][v] <= 1 + Cardinality(Reqs)
    BY DEF CopiesBounded
  <2>1. Room(u, v) /\ copies[u][v] \in Nat
    BY DEF CopyInv, IInv, TypeOK
  <2>2. QED
    BY <2>1, InsertingFinite, ScannersFinite DEF Room
<1>2. QED
  BY <1>1, Invariance, CopyInvariance, PTL

-----------------------------------------------------------------------------
(* Nothing is skipped *)

Clean == faults = 0 /\ Count >= MaxVideos

AllUpTo(u, c) == \A v \in 1..c : copies[u][v] > 0

(* What is left of a list descends, without a gap, to the video after the  *)
(* cursor the scan read; what it took off, up to the newest video it       *)
(* stored, is stored.                                                      *)
ScanClaim(s) ==
  /\ pc[s] \in InScan => AllUpTo(up[s], snap[s])
  /\ pc[s] = "fetch" => list[s] = << >> /\ latest[s] = NoVideo
  /\ pc[s] = "save" => list[s] = << >>
  /\ pc[s] \in {"look", "insert"} =>
       \A i \in 1..Len(list[s]) : list[s][i] = snap[s] + Len(list[s]) + 1 - i
  /\ pc[s] \in {"look", "insert", "save"} =>
       \A v \in 1..latest[s] : v <= snap[s] + Len(list[s]) \/ copies[up[s]][v] > 0

RowClaim(u) == AllUpTo(u, cursor[u]) /\ AllUpTo(u, rows[u].cursor)

SkipInv == Clean => /\ \A u \in Ups : RowClaim(u)
                    /\ \A s \in Scanners : ScanClaim(s)

(* Rows are only ever added. *)
Grows == \A u \in Ups, v \in Videos : copies[u][v] > 0 => copies'[u][v] > 0

LEMMA Below == ASSUME NEW c \in Bvid, NEW v \in 1..c PROVE v \in Videos
BY ScanBounds DEF Videos, Bvid, NoVideo

LEMMA AllUpToGrows ==
  ASSUME Grows, NEW u \in Ups, NEW c \in Bvid, AllUpTo(u, c)
  PROVE  \A v \in 1..c : copies'[u][v] > 0
BY Below DEF Grows, AllUpTo

(* A scanner that is left alone, or leaves its scan, keeps its claim. *)
LEMMA ClaimStays ==
  ASSUME TypeOK, Grows, NEW s \in Scanners, ScanClaim(s),
         UNCHANGED <<up[s], snap[s], list[s], latest[s]>>, pc'[s] \in InScan => pc'[s] = pc[s]
  PROVE  ScanClaim(s)'
<1>1. up[s] \in Ups /\ snap[s] \in Bvid /\ latest[s] \in Bvid
  BY DEF TypeOK
<1>2. pc'[s] \in InScan => \A v \in 1..snap[s] : copies'[up[s]][v] > 0
  BY <1>1, AllUpToGrows DEF ScanClaim
<1>3. ASSUME NEW v \in 1..latest[s], copies[up[s]][v] > 0 PROVE copies'[up[s]][v] > 0
  BY <1>1, <1>3, Below DEF Grows
<1>4. QED
  BY <1>1, <1>2, <1>3 DEF ScanClaim, InScan, AllUpTo

LEMMA RowsStay ==
  ASSUME TypeOK, Grows, UNCHANGED <<cursor, rows>>, NEW u \in Ups, RowClaim(u)
  PROVE  RowClaim(u)'
<1>1. cursor[u] \in Bvid /\ rows[u].cursor \in Bvid
  BY DEF TypeOK
<1>2. QED
  BY <1>1, AllUpToGrows DEF RowClaim, AllUpTo

(* A step that leaves hotspots, cursors and lists alone, and no scan begun *)
(* that was not, keeps every claim.                                        *)
LEMMA QuietSkip ==
  ASSUME TypeOK, SkipInv, faults <= faults', UNCHANGED <<cursor, copies, rows, snap, list, latest>>,
         \A s \in Scanners : pc'[s] \in InScan => pc'[s] = pc[s] /\ up'[s] = up[s]
  PROVE  SkipInv'
<1> SUFFICES ASSUME Clean' PROVE (\A u \in Ups : RowClaim(u)') /\ (\A s \in Scanners : ScanClaim(s)')
  BY DEF SkipInv
<1>1. Clean
  BY DEF Clean, TypeOK
<1>2. QED
  BY <1>1 DEF SkipInv, RowClaim, ScanClaim, AllUpTo, InScan

LEMMA BeginSkip ==
  ASSUME TypeOK, SkipInv, NEW s \in Scanners, NEW u \in Ups, NEW c \in Bvid,
         Clean => AllUpTo(u, c), BeginScan(s, u, c), UNCHANGED <<cursor, copies, rows, faults>>
  PROVE  SkipInv'
<1> SUFFICES ASSUME Clean PROVE (\A w \in Ups : RowClaim(w)') /\ (\A z \in Scanners : ScanClaim(z)')
  BY DEF SkipInv, Clean
<1>1. ASSUME NEW w \in Ups PROVE RowClaim(w)'
  BY DEF SkipInv, RowClaim, AllUpTo
<1>2. ASSUME NEW z \in Scanners PROVE ScanClaim(z)'
  <2>1. CASE z = s
    <3>1. /\ pc'[s] = "fetch" /\ up'[s] = u /\ snap'[s] = c
          /\ list'[s] = << >> /\ latest'[s] = NoVideo
      BY DEF BeginScan, TypeOK
    <3>2. QED
      BY <2>1, <3>1 DEF ScanClaim, AllUpTo
  <2>2. CASE z # s
    <3>1. UNCHANGED <<pc[z], up[z], snap[z], list[z], latest[z]>>
      BY <2>2 DEF BeginScan, TypeOK
    <3>2. QED
      BY <3>1 DEF SkipInv, ScanClaim, AllUpTo
  <2>3. QED
    BY <2>1, <2>2
<1>3. QED
  BY <1>1, <1>2

(* A step of one scanner: it is enough to look at its own claim. *)
LEMMA OneClaim ==
  ASSUME TypeOK, SkipInv, Clean, Grows, NEW s \in Scanners, UNCHANGED <<cursor, rows>>,
         \A z \in Scanners \ {s} : UNCHANGED <<pc[z], up[z], snap[z], list[z], latest[z]>>,
         ScanClaim(s)'
  PROVE  SkipInv'
<1>1. ASSUME NEW u \in Ups PROVE RowClaim(u)'
  BY RowsStay DEF SkipInv
<1>2. ASSUME NEW z \in Scanners \ {s} PROVE ScanClaim(z)'
  BY ClaimStays DEF SkipInv
<1>3. QED
  BY <1>1, <1>2 DEF SkipInv

(* A fetch that is not cut off lists every video down to the cursor. *)
LEMMA FetchedAll ==
  ASSUME TypeOK, Count >= MaxVideos, NEW u \in Ups, NEW c \in Bvid
  PROVE  \A i \in 1..Len(Fetched(u, c)) : Fetched(u, c)[i] = c + Len(Fetched(u, c)) + 1 - i
<1> DEFINE new == published[u] - c
           k   == IF new < Count THEN new ELSE Count
           f   == [i \in 1..k |-> published[u] - i + 1]
<1>1. published[u] \in 0..MaxVideos /\ c \in 0..MaxVideos /\ MaxVideos \in Nat /\ Count \in Nat \ {0}
  BY CountAssumption, ScanBounds DEF TypeOK, Bvid, Videos, NoVideo
<1>2. k = new /\ k \in Int
  BY <1>1
<1>3. f = Fetched(u, c) /\ f \in Seq(Videos)
  BY FetchedNewer DEF Fetched
<1>4. \A i \in 1..k : f[i] = c + k + 1 - i
  BY <1>1, <1>2
<1>5. DOMAIN f = 1..k
  OBVIOUS
<1> HIDE DEF f, k, new
<1>6. DOMAIN f = 1..Len(f) /\ Len(f) \in Nat
  BY <1>3
<1>7. k > 0 => Len(f) = k
  BY <1>2, <1>5, <1>6
<1>8. \A i \in 1..Len(f) : i \in 1..k /\ k > 0
  BY <1>2, <1>5, <1>6
<1>9. \A i \in 1..Len(f) : f[i] = c + Len(f) + 1 - i
  BY <1>4, <1>7, <1>8
<1>10. QED
  BY <1>3, <1>9

LEMMA FetchSkip ==
  ASSUME TypeOK, SkipInv, Clean, NEW s \in Scanners, FetchVideos(s)
  PROVE  SkipInv'
<1> DEFINE f == Fetched(up[s], snap[s])
<1>1. /\ f \in Seq(Videos) /\ up[s] \in Ups /\ snap[s] \in Bvid
      /\ \A i \in 1..Len(f) : f[i] = snap[s] + Len(f) + 1 - i
  BY FetchedNewer, FetchedAll DEF TypeOK, Clean
<1>2. /\ list'[s] = f /\ pc[s] = "fetch" /\ pc'[s] = IF f # << >> THEN "look" ELSE "save"
      /\ UNCHANGED <<cursor, rows, copies, up, snap, latest>>
      /\ \A z \in Scanners \ {s} : pc'[z] = pc[z] /\ list'[z] = list[z]
  BY DEF FetchVideos, TypeOK, rowVars, jobVars
<1> HIDE DEF f
<1>3. latest[s] = NoVideo /\ AllUpTo(up[s], snap[s])
  BY <1>2 DEF SkipInv, ScanClaim, InScan
<1>4. ScanClaim(s)'
  BY <1>1, <1>2, <1>3 DEF ScanClaim, AllUpTo, NoVideo
<1>5. QED
  BY <1>2, <1>4, OneClaim DEF Grows

(* Taking a stored video off the list. *)
LEMMA NextSkip ==
  ASSUME IInv, SkipInv, Clean, Grows, NEW s \in Scanners, NEW newest \in Bvid,
         pc[s] \in {"look", "insert"}, NextVideo(s, newest), newest \in {latest[s], Stored(s)},
         copies'[up[s]][Head(list[s])] > 0, UNCHANGED <<cursor, rows, up, snap>>
  PROVE  SkipInv'
<1>1. /\ list[s] \in Seq(Videos) /\ list[s] # << >> /\ up[s] \in Ups
      /\ snap[s] \in Nat /\ latest[s] \in Bvid /\ latest[s] \in Nat
  BY VideoFacts DEF IInv, TypeOK, ListLeft
<1>2. /\ list'[s] = Tail(list[s]) /\ latest'[s] = newest
      /\ pc'[s] = IF Tail(list[s]) = << >> THEN "save" ELSE "look"
      /\ \A z \in Scanners \ {s} : UNCHANGED <<pc[z], list[z], latest[z]>>
  BY DEF NextVideo, IInv, TypeOK
<1> DEFINE n == Len(list[s])
<1>3. /\ n \in Nat \ {0} /\ Len(Tail(list[s])) = n - 1 /\ Head(list[s]) = list[s][1]
      /\ \A i \in 1..n - 1 : Tail(list[s])[i] = list[s][i + 1]
  BY <1>1
<1>4. /\ \A i \in 1..n : list[s][i] = snap[s] + n + 1 - i
      /\ \A v \in 1..latest[s] : v <= snap[s] + n \/ copies[up[s]][v] > 0
      /\ AllUpTo(up[s], snap[s])
  BY DEF SkipInv, ScanClaim, InScan
<1>5. Head(list[s]) = snap[s] + n
  BY <1>1, <1>3, <1>4
<1>6. \A i \in 1..Len(list'[s]) : list'[s][i] = snap'[s] + Len(list'[s]) + 1 - i
  <2>1. ASSUME NEW i \in 1..n - 1 PROVE Tail(list[s])[i] = snap[s] + (n - 1) + 1 - i
    <3>1. i + 1 \in 1..n
      BY <1>3
    <3>2. list[s][i + 1] = snap[s] + n + 1 - (i + 1)
      BY <1>4, <3>1
    <3>3. Tail(list[s])[i] = list[s][i + 1]
      BY <1>3
    <3> HIDE DEF n
    <3>4. snap[s] + n + 1 - (i + 1) = snap[s] + (n - 1) + 1 - i
      BY <1>1, <1>3
    <3>5. QED
      BY <3>2, <3>3, <3>4
  <2>2. QED
    BY <1>2, <1>3, <2>1
<1>7. ASSUME NEW v \in 1..latest'[s], ~(v <= snap[s] + Len(list'[s]))
      PROVE  copies'[up[s]][v] > 0
  <2>1. v \in Nat /\ v > snap[s] + (n - 1)
    BY <1>1, <1>2, <1>3, <1>7
  <2>2. CASE v = snap[s] + n
    BY <1>5, <2>2
  <2>3. CASE v # snap[s] + n
    <3>1. v > snap[s] + n
      BY <1>1, <1>3, <2>1, <2>3
    <3>2. v \in 1..latest[s]
      BY <1>1, <1>2, <1>3, <1>5, <1>7, <3>1 DEF Stored, NoVideo
    <3>3. copies[up[s]][v] > 0
      BY <1>1, <1>3, <1>4, <2>1, <3>1, <3>2
    <3>4. v \in Videos
      BY <1>1, <3>2, Below
    <3>5. QED
      BY <1>1, <3>3, <3>4 DEF Grows
  <2>4. QED
    BY <2>2, <2>3
<1>8. \A v \in 1..snap'[s] : copies'[up'[s]][v] > 0
  BY <1>1, <1>4, AllUpToGrows DEF IInv, TypeOK
<1> HIDE DEF n
<1>9. ScanClaim(s)'
  BY <1>2, <1>6, <1>7, <1>8 DEF ScanClaim, AllUpTo
<1>10. QED
  BY <1>2, <1>9, OneClaim DEF IInv

LEMMA UpsertSkip ==
  ASSUME IInv, SkipInv, Clean, NEW s \in Scanners,
         UpsertMultiple(s) \/ UpsertFound(s) \/ UpsertInsert(s)
  PROVE  SkipInv'
<1>1. /\ pc[s] \in {"look", "insert"} /\ up[s] \in Ups /\ Head(list[s]) \in Videos
      /\ latest[s] \in Bvid /\ Stored(s) \in Bvid
  BY HeadTail, VideoFacts DEF UpsertMultiple, UpsertFound, UpsertInsert, IInv, TypeOK, ListLeft, Stored
<1>2. UNCHANGED <<cursor, rows, up, snap>>
  BY DEF UpsertMultiple, UpsertFound, UpsertInsert, rowVars, jobVars
<1>3. copies \in [Ups -> [Videos -> Nat]]
  BY DEF IInv, TypeOK
<1>4. CASE UpsertMultiple(s)
  <2>1. copies' = copies /\ copies[up[s]][Head(list[s])] > 1 /\ NextVideo(s, latest[s])
    BY <1>4 DEF UpsertMultiple
  <2>2. Grows /\ copies'[up[s]][Head(list[s])] > 0
    BY <1>1, <1>3, <2>1 DEF Grows
  <2>3. QED
    BY <1>1, <1>2, <2>1, <2>2, NextSkip
<1>5. CASE UpsertFound(s)
  <2>1. copies' = copies /\ copies[up[s]][Head(list[s])] = 1 /\ NextVideo(s, Stored(s))
    BY <1>5 DEF UpsertFound
  <2>2. Grows /\ copies'[up[s]][Head(list[s])] > 0
    BY <2>1 DEF Grows
  <2>3. QED
    BY <1>1, <1>2, <2>1, <2>2, NextSkip
<1>6. CASE UpsertInsert(s)
  <2>1. copies' = [copies EXCEPT ![up[s]][Head(list[s])] = @ + 1] /\ NextVideo(s, Stored(s))
    BY <1>6 DEF UpsertInsert
  <2>2. Grows /\ copies'[up[s]][Head(list[s])] > 0
    BY <1>1, <1>3, <2>1 DEF Grows
  <2>3. QED
    BY <1>1, <1>2, <2>1, <2>2, NextSkip
<1>7. QED
  BY <1>4, <1>5, <1>6

LEMMA AbsentSkip ==
  ASSUME TypeOK, SkipInv, Clean, NEW s \in Scanners, UpsertAbsent(s)
  PROVE  SkipInv'
<1>1. /\ pc[s] = "look" /\ pc'[s] = "insert"
      /\ UNCHANGED <<cursor, rows, copies, up, snap, list, latest>>
      /\ \A z \in Scanners \ {s} : pc'[z] = pc[z]
  BY DEF UpsertAbsent, TypeOK, rowVars, jobVars
<1>2. ScanClaim(s)
  BY DEF SkipInv
<1>3. ScanClaim(s)'
  BY <1>1, <1>2 DEF ScanClaim, AllUpTo, InScan
<1>4. QED
  BY <1>1, <1>3, OneClaim DEF Grows

(* What Save writes has everything up to it stored. *)
LEMMA SaveSkip ==
  ASSUME TypeOK, SkipInv, Clean, NEW s \in Scanners, Save(s)
  PROVE  SkipInv'
<1> DEFINE c == IF got[s] # "videos" THEN cursor[up[s]]
                ELSE IF latest[s] = NoVideo THEN snap[s] ELSE latest[s]
<1>1. /\ pc[s] = "save" /\ up[s] \in Ups /\ snap[s] \in Nat /\ latest[s] \in Nat
      /\ cursor[up[s]] \in Nat
  BY VideoFacts DEF Save, TypeOK
<1>2. /\ cursor' = [cursor EXCEPT ![up[s]] = c] /\ UNCHANGED <<rows, copies, up, snap, list, latest>>
      /\ \A z \in Scanners : pc'[z] \in InScan => pc'[z] = pc[z]
  BY <1>1 DEF Save, Return, TypeOK, jobVars, InScan
<1>3. AllUpTo(up[s], c)
  <2>1. /\ AllUpTo(up[s], cursor[up[s]]) /\ AllUpTo(up[s], snap[s]) /\ list[s] = << >>
        /\ \A v \in 1..latest[s] : v <= snap[s] + Len(list[s]) \/ copies[up[s]][v] > 0
    BY <1>1 DEF SkipInv, RowClaim, ScanClaim, InScan
  <2>2. AllUpTo(up[s], latest[s])
    <3>1. Len(list[s]) = 0
      BY <2>1
    <3>2. QED
      BY <1>1, <2>1, <3>1 DEF AllUpTo
  <2>3. QED
    BY <2>1, <2>2
<1> HIDE DEF c
<1>4. ASSUME NEW u \in Ups PROVE RowClaim(u)'
  <2>1. RowClaim(u)
    BY DEF SkipInv
  <2>2. CASE u = up[s]
    <3>1. cursor'[u] = c
      BY <1>1, <1>2, <2>2 DEF TypeOK
    <3>2. QED
      BY <1>2, <1>3, <2>1, <2>2, <3>1 DEF RowClaim, AllUpTo
  <2>3. CASE u # up[s]
    <3>1. cursor'[u] = cursor[u]
      BY <1>1, <1>2, <2>3 DEF TypeOK
    <3>2. QED
      BY <1>2, <2>1, <3>1 DEF RowClaim, AllUpTo
  <2>4. QED
    BY <2>2, <2>3
<1>5. ASSUME NEW z \in Scanners PROVE ScanClaim(z)'
  <2>1. ScanClaim(z)
    BY DEF SkipInv
  <2>2. QED
    BY <1>2, <2>1 DEF ScanClaim, AllUpTo, InScan
<1>6. QED
  BY <1>4, <1>5 DEF SkipInv

(* A step that leaves Clean leaves nothing to keep. *)
LEMMA FaultSkip ==
  ASSUME TypeOK, NEW s \in Scanners, ScanFault(s)
  PROVE  SkipInv'
<1>1. faults' # 0
  BY DEF ScanFault, FetchFails, UpsertRaises, ScanRaises, TypeOK
<1>2. QED
  BY <1>1 DEF SkipInv, Clean

LEMMA JobSkip == ASSUME TypeOK, SkipInv, JobStep PROVE SkipInv'
<1>1. CASE JobTick
  <2> SUFFICES ASSUME Clean PROVE (\A u \in Ups : RowClaim(u)') /\ (\A s \in Scanners : ScanClaim(s)')
    BY <1>1 DEF SkipInv, Clean, JobTick
  <2>1. /\ UNCHANGED <<cursor, copies, up, snap, list, latest>>
        /\ \A u \in Ups : rows'[u].cursor = cursor[u]
        /\ \A s \in Scanners : pc'[s] \in InScan => pc'[s] = pc[s]
    BY <1>1 DEF JobTick, TypeOK, rowVars, InScan
  <2>2. QED
    BY <2>1 DEF SkipInv, RowClaim, ScanClaim, AllUpTo, InScan
<1>2. CASE JobDone
  BY <1>2, QuietSkip DEF JobDone, TypeOK, rowVars, jobVars, InScan
<1>3. ASSUME NEW u \in Ups, JobDueRaises(u) PROVE SkipInv'
  BY <1>3, QuietSkip DEF JobDueRaises, TypeOK, rowVars, InScan
<1>4. ASSUME NEW u \in Ups, JobScan(u) PROVE SkipInv'
  <2>1. Job \in Scanners /\ rows[u].cursor \in Bvid /\ (Clean => AllUpTo(u, rows[u].cursor))
    BY DEF TypeOK, Scanners, SkipInv, RowClaim
  <2>2. BeginScan(Job, u, rows[u].cursor) /\ UNCHANGED <<cursor, copies, rows, faults>>
    BY <1>4 DEF JobScan, rowVars
  <2>3. QED
    BY <2>1, <2>2, BeginSkip
<1>5. QED
  BY <1>1, <1>2, <1>3, <1>4 DEF JobStep

LEMMA RequestSkip ==
  ASSUME TypeOK, SkipInv, NEW r \in Reqs,
         \/ SyncRead(r) \/ SyncMissing(r) \/ SyncTimeout(r)
         \/ \E u \in Ups : SyncRequest(r, u)
  PROVE  SkipInv'
<1>1. CASE SyncRead(r)
  <2>1. /\ r \in Scanners /\ up[r] \in Ups /\ cursor[up[r]] \in Bvid
        /\ (Clean => AllUpTo(up[r], cursor[up[r]]))
    BY DEF TypeOK, Scanners, SkipInv, RowClaim
  <2>2. BeginScan(r, up[r], cursor[up[r]]) /\ UNCHANGED <<cursor, copies, rows, faults>>
    BY <1>1 DEF SyncRead, rowVars, jobVars
  <2>3. QED
    BY <2>1, <2>2, BeginSkip
<1>2. CASE SyncMissing(r)
  BY <1>2, QuietSkip DEF SyncMissing, TypeOK, rowVars, jobVars, InScan
<1>3. CASE SyncTimeout(r)
  BY <1>3, QuietSkip DEF SyncTimeout, TypeOK, rowVars, jobVars, InScan
<1>4. ASSUME NEW u \in Ups, SyncRequest(r, u) PROVE SkipInv'
  BY <1>4, QuietSkip DEF SyncRequest, TypeOK, rowVars, jobVars, InScan
<1>5. QED
  BY <1>1, <1>2, <1>3, <1>4

LEMMA NextSkipInv == ASSUME IInv, SkipInv, [Next]_vars PROVE SkipInv'
<1>1. TypeOK
  BY DEF IInv
<1>2. ASSUME NEW s \in Scanners, ScanStep(s) PROVE SkipInv'
  <2>1. faults' = faults
    BY <1>2 DEF ScanStep, FetchVideos, UpsertMultiple, UpsertFound, UpsertAbsent, UpsertInsert, Save
  <2>2. Clean \/ SkipInv'
    BY <2>1 DEF SkipInv, Clean
  <2>3. QED
    BY <1>1, <1>2, <2>2, FetchSkip, UpsertSkip, AbsentSkip, SaveSkip DEF ScanStep
<1>3. CASE UserStep
  <2>1. UNCHANGED <<cursor, copies, rows, pc, up, snap, list, latest, faults>>
    BY <1>3 DEF UserStep, Publish, Create, SetActive, SoftDelete, rowVars, jobVars, scanVars
  <2>2. QED
    BY <1>1, <2>1, QuietSkip DEF TypeOK
<1>4. CASE Crash
  BY <1>1, <1>4, QuietSkip DEF Crash, TypeOK, rowVars, InScan, Answers
<1>5. CASE UNCHANGED vars
  BY <1>1, <1>5, QuietSkip DEF vars, TypeOK, rowVars, jobVars, scanVars
<1>6. QED
  BY <1>1, <1>2, <1>3, <1>4, <1>5, FaultSkip, JobSkip, RequestSkip DEF Next

LEMMA SkipInvariance == Spec => []SkipInv
<1>1. Init => SkipInv
  BY DEF Init, SkipInv, RowClaim, ScanClaim, AllUpTo, InScan, NoVideo
<1>2. QED
  BY <1>1, NextSkipInv, Invariance, PTL DEF Spec

(* While nothing fails and a fetch is not cut off, everything up to a      *)
(* cursor is stored, however job and syncs overlap.                        *)
THEOREM NothingIsSkipped == Spec => []NothingSkipped
<1>1. SkipInv => NothingSkipped
  BY DEF SkipInv, Clean, RowClaim, AllUpTo, NothingSkipped
<1>2. QED
  BY <1>1, SkipInvariance, PTL

=============================================================================
