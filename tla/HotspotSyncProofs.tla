-------------------------- MODULE HotspotSyncProofs --------------------------
(***************************************************************************)
(* Proofs about HotspotSync, for any number of sources, urls, dashboards   *)
(* and any length of a dashboard's queue: TypeOK, OneCopyPerSync and       *)
(* EventsKept.                                                             *)
(*                                                                         *)
(* OneCopyPerSync needs what a sync knows between its lookup and its       *)
(* insert (LookupHolds): others may store the url meanwhile, but no row of *)
(* its own can appear.                                                     *)
(*                                                                         *)
(* The second part is about DigestJobs, the daily digest of the same       *)
(* server, for any number of days, requests, restarts and faults: TypeOK,  *)
(* PlainDaysHaveDigest and ReportsAreTrue.  The invariant follows a day:   *)
(* before 08:00 its run is ahead (DayBegins, Scheduled), then it is due or *)
(* under way, and when it ends the digest is there (OnItsWay).             *)
(***************************************************************************)
EXTENDS HotspotSync, DigestJobs, TLAPS

(* Rows a sync has flushed are its own. *)
MineIsOwn == \A a \in Actors : \A h \in mine[a] : by[h] = a

(* Among the rows a sync can see, it made no two for the same url. *)
OwnUrlsDiffer ==
  \A a \in Actors : \A h, k \in stored \union mine[a] :
    by[h] = a /\ by[k] = a /\ urlOf[h] = urlOf[k] => h = k

(* A sync about to insert sees no row of its own for the url. *)
LookupHolds ==
  \A a \in Actors : pc[a] = "analyze" =>
    /\ todo[a] # << >>
    /\ \A h \in stored \union mine[a] : by[h] = a => urlOf[h] # Head(todo[a])

(* The entries of q ascend, above lo and not above hi. *)
Ascends(q, lo, hi) ==
  /\ \A i \in 1..Len(q) : lo < q[i] /\ q[i] <= hi
  /\ \A i, k \in 1..Len(q) : i < k => q[i] < q[k]

EndsWith(q, lo, hi) == IF q = << >> THEN lo = hi ELSE q[Len(q)] = hi

QueuesInv ==
  \A c \in Clients : conn[c] => /\ Ascends(cq[c], heard[c], lastId)
                                /\ EndsWith(cq[c], heard[c], lastId)

CopiesInv == MineIsOwn /\ OwnUrlsDiffer /\ LookupHolds

IInv == TypeOK /\ CopiesInv /\ QueuesInv

-----------------------------------------------------------------------------
LEMMA FeedFacts == ASSUME NEW feed \in Feeds PROVE feed \in Seq(Urls)
BY SyncBounds DEF Feeds

LEMMA EmptyLen == ASSUME NEW S, NEW q \in Seq(S) PROVE Len(q) \in Nat /\ (q = << >> <=> Len(q) = 0)
OBVIOUS

LEMMA TailFacts ==
  ASSUME NEW S, NEW q \in Seq(S), q # << >>
  PROVE  /\ Head(q) \in S /\ Tail(q) \in Seq(S)
         /\ Head(q) = q[1] /\ Len(q) \in Nat \ {0} /\ Len(Tail(q)) = Len(q) - 1
         /\ \A i \in 1..Len(Tail(q)) : Tail(q)[i] = q[i + 1]
OBVIOUS

LEMMA AppendFacts ==
  ASSUME NEW S, NEW q \in Seq(S), NEW e \in S
  PROVE  /\ Append(q, e) \in Seq(S)
         /\ Len(Append(q, e)) = Len(q) + 1
         /\ \A i \in 1..Len(q) : Append(q, e)[i] = q[i]
         /\ Append(q, e)[Len(q) + 1] = e
         /\ Append(q, e) # << >>
OBVIOUS

(* Without its head, an ascending queue ascends above that head.           *)
LEMMA AscendsTail ==
  ASSUME NEW q \in Seq(Ids), q # << >>, NEW lo \in Nat, NEW hi \in Nat,
         Ascends(q, lo, hi), EndsWith(q, lo, hi)
  PROVE  /\ Ascends(Tail(q), Head(q), hi) /\ EndsWith(Tail(q), Head(q), hi)
         /\ Ascends(Tail(q), lo, hi)
<1>1. /\ Head(q) = q[1] /\ Len(q) \in Nat \ {0} /\ Len(Tail(q)) = Len(q) - 1
      /\ \A i \in 1..Len(Tail(q)) : Tail(q)[i] = q[i + 1]
  BY TailFacts
<1>2. \A i \in 1..Len(Tail(q)) : i + 1 \in 1..Len(q) /\ 1 \in 1..Len(q) /\ 1 < i + 1
  BY <1>1
<1>3. \A i \in 1..Len(Tail(q)) : Head(q) < Tail(q)[i] /\ lo < Tail(q)[i] /\ Tail(q)[i] <= hi
  BY <1>1, <1>2 DEF Ascends
<1>4. \A i, k \in 1..Len(Tail(q)) : i < k => Tail(q)[i] < Tail(q)[k]
  BY <1>1, <1>2 DEF Ascends
<1>5. EndsWith(Tail(q), Head(q), hi)
  <2>1. q[Len(q)] = hi
    BY DEF EndsWith
  <2>2. Tail(q) \in Seq(Ids)
    BY TailFacts
  <2>3. Tail(q) = << >> <=> Len(Tail(q)) = 0
    BY <2>2, EmptyLen
  <2>4. CASE Len(q) = 1
    BY <1>1, <2>1, <2>3, <2>4 DEF EndsWith
  <2>5. CASE Len(q) # 1
    <3>1. Len(Tail(q)) \in 1..Len(Tail(q)) /\ Len(Tail(q)) + 1 = Len(q)
      BY <1>1, <2>5
    <3>2. Tail(q)[Len(Tail(q))] = hi
      BY <1>1, <2>1, <3>1
    <3>3. QED
      BY <1>1, <2>3, <2>5, <3>2 DEF EndsWith
  <2>6. QED
    BY <2>4, <2>5
<1>6. QED
  BY <1>3, <1>4, <1>5 DEF Ascends

(* A newer id at its end keeps a queue ascending.                          *)
LEMMA AscendsAppend ==
  ASSUME NEW q \in Seq(Ids), NEW lo \in Nat, NEW hi \in Nat, hi + 1 \in Ids, lo <= hi,
         Ascends(q, lo, hi)
  PROVE  Ascends(Append(q, hi + 1), lo, hi + 1) /\ EndsWith(Append(q, hi + 1), lo, hi + 1)
<1>1. /\ Len(Append(q, hi + 1)) = Len(q) + 1 /\ Len(q) \in Nat
      /\ \A i \in 1..Len(q) : Append(q, hi + 1)[i] = q[i]
      /\ Append(q, hi + 1)[Len(q) + 1] = hi + 1 /\ Append(q, hi + 1) # << >>
  BY AppendFacts
<1>2. \A i \in 1..Len(q) : q[i] \in Nat
  BY SyncBounds DEF Ids
<1>3. \A i \in 1..Len(Append(q, hi + 1)) : i \in 1..Len(q) \/ i = Len(q) + 1
  BY <1>1
<1>4. \A i \in 1..Len(Append(q, hi + 1)) :
        lo < Append(q, hi + 1)[i] /\ Append(q, hi + 1)[i] <= hi + 1
  BY <1>1, <1>2, <1>3 DEF Ascends
<1>5. ASSUME NEW i \in 1..Len(Append(q, hi + 1)), NEW k \in 1..Len(Append(q, hi + 1)), i < k
      PROVE  Append(q, hi + 1)[i] < Append(q, hi + 1)[k]
  <2>1. i \in 1..Len(q)
    BY <1>1, <1>5
  <2>2. CASE k \in 1..Len(q)
    BY <1>1, <1>5, <2>1, <2>2 DEF Ascends
  <2>3. CASE k = Len(q) + 1
    BY <1>1, <1>2, <2>1, <2>3 DEF Ascends
  <2>4. QED
    BY <1>3, <2>2, <2>3
<1>6. QED
  BY <1>1, <1>4, <1>5 DEF Ascends, EndsWith

-----------------------------------------------------------------------------
LEMMA InitIInv == Init => IInv
<1> SUFFICES ASSUME Init PROVE IInv
  OBVIOUS
<1>1. (CHOOSE u \in Urls : TRUE) \in Urls
  BY UrlsAssumption
<1>2. TypeOK
  <2>1. /\ pc \in [Actors -> SyncPc] /\ src \in Sources \union {Job} /\ listed \in SUBSET Sources
        /\ open \in BOOLEAN /\ expired \in BOOLEAN
        /\ snap \in [Manual -> BOOLEAN] /\ err \in [Sources -> BOOLEAN]
    BY DEF Init, SyncPc
  <2>2. todo \in [Actors -> Seq(Urls)] /\ mine \in [Actors -> SUBSET (1..lastId)]
    BY DEF Init
  <2>3. /\ stored \in SUBSET (1..lastId) /\ lastId \in 0..MaxIds /\ faults \in 0..MaxFaults
        /\ urlOf \in [Ids -> Urls] /\ by \in [Ids -> Actors]
    BY <1>1, SyncBounds DEF Init, Actors
  <2>4. /\ conn \in [Clients -> BOOLEAN] /\ cq \in [Clients -> Seq(Ids)]
        /\ heard \in [Clients -> 0..lastId]
    BY DEF Init
  <2>5. \A c \in Clients : Len(cq[c]) <= SseMax
    BY SseMaxAssumption DEF Init
  <2>6. QED
    BY <2>1, <2>2, <2>3, <2>4, <2>5 DEF TypeOK
<1>3. CopiesInv
  BY DEF Init, CopiesInv, MineIsOwn, OwnUrlsDiffer, LookupHolds
<1>4. QueuesInv
  BY DEF Init, QueuesInv
<1>5. QED
  BY <1>2, <1>3, <1>4 DEF IInv

(* A step that makes and commits no row keeps CopiesInv, if no sync comes  *)
(* to its insert by it; dropping flushed rows is harmless.                 *)
LEMMA QuietCopies ==
  ASSUME IInv, UNCHANGED <<stored, urlOf, by>>,
         \A b \in Actors : mine'[b] \subseteq mine[b],
         \A b \in Actors : pc'[b] = "analyze" => pc[b] = "analyze" /\ todo'[b] = todo[b]
  PROVE  CopiesInv'
<1>1. MineIsOwn'
  BY DEF IInv, CopiesInv, MineIsOwn
<1>2. OwnUrlsDiffer'
  BY DEF IInv, CopiesInv, OwnUrlsDiffer
<1>3. LookupHolds'
  BY DEF IInv, CopiesInv, LookupHolds
<1>4. QED
  BY <1>1, <1>2, <1>3 DEF CopiesInv

(* A step that announces nothing leaves the queues alone.                  *)
LEMMA QuietQueues == ASSUME IInv, UNCHANGED <<conn, cq, heard, lastId>> PROVE QueuesInv'
BY DEF IInv, QueuesInv

(* What actors share in their type: an actor is the job or a source.       *)
LEMMA ActorFacts ==
  ASSUME NEW a \in Actors
  PROVE  /\ a = Job \/ (a # Job /\ a \in Manual /\ a \in Sources)
         /\ Job \in Actors /\ Job \notin Sources
BY SourcesAssumption DEF Actors, Sources, Job

(* The bounds of TypeOK that depend on lastId, as an actor needs them.     *)
LEMMA IdFacts ==
  ASSUME TypeOK
  PROVE  /\ lastId \in Nat /\ MaxIds \in Nat /\ 1..lastId \subseteq Ids
         /\ lastId < MaxIds => lastId + 1 \in Ids /\ lastId + 1 \in 0..MaxIds
BY SyncBounds DEF TypeOK, Ids

-----------------------------------------------------------------------------
(* One lemma per action *)

LEMMA KeepJobTick == ASSUME IInv, NEW active \in SUBSET Sources, JobTick(active) PROVE IInv'
<1>1. TypeOK'
  BY ActorFacts DEF IInv, TypeOK, JobTick, SyncPc, tableVars, sseVars
<1>2. CopiesInv'
  BY QuietCopies DEF IInv, TypeOK, JobTick, tableVars
<1>3. QED
  BY <1>1, <1>2, QuietQueues DEF IInv, JobTick, tableVars, sseVars

LEMMA KeepJobNext == ASSUME IInv, NEW s \in Sources, JobNext(s) PROVE IInv'
<1>1. TypeOK'
  BY ActorFacts DEF IInv, TypeOK, JobNext, SyncPc, tableVars, sseVars
<1>2. CopiesInv'
  BY QuietCopies DEF IInv, TypeOK, JobNext, tableVars
<1>3. QED
  BY <1>1, <1>2, QuietQueues DEF IInv, JobNext, tableVars, sseVars

LEMMA KeepJobEnd == ASSUME IInv, JobExpired \/ JobDone PROVE IInv'
<1>1. TypeOK'
  <2>1. /\ pc' = [pc EXCEPT ![Job] = "idle"] /\ EndJob
        /\ UNCHANGED <<todo, mine, snap, err, tableVars, sseVars, faults>>
    BY DEF JobExpired, JobDone
  <2>2. pc' \in [Actors -> SyncPc]
    BY <2>1 DEF IInv, TypeOK, SyncPc
  <2>3. /\ src' \in Sources \union {Job} /\ listed' \in SUBSET Sources
        /\ open' \in BOOLEAN /\ expired' \in BOOLEAN
    BY <2>1 DEF EndJob
  <2>4. QED
    BY <2>1, <2>2, <2>3 DEF IInv, TypeOK, tableVars, sseVars
<1>2. CopiesInv'
  BY QuietCopies DEF IInv, TypeOK, JobExpired, JobDone, tableVars
<1>3. QED
  BY <1>1, <1>2, QuietQueues DEF IInv, JobExpired, JobDone, tableVars, sseVars

LEMMA KeepSyncStart == ASSUME IInv, NEW s \in Manual, SyncStart(s) PROVE IInv'
<1> s \in Actors /\ s \in Sources
  BY SourcesAssumption DEF Actors, Sources
<1>1. TypeOK'
  BY DEF IInv, TypeOK, SyncStart, SyncPc, jobVars, tableVars, sseVars
<1>2. CopiesInv'
  BY QuietCopies DEF IInv, TypeOK, SyncStart, tableVars
<1>3. QED
  BY <1>1, <1>2, QuietQueues DEF IInv, SyncStart, tableVars, sseVars

LEMMA KeepFetch == ASSUME IInv, NEW a \in Actors, NEW feed \in Feeds, Fetch(a, feed) PROVE IInv'
<1>1. TypeOK'
  BY FeedFacts DEF IInv, TypeOK, Fetch, SyncPc, jobVars, tableVars, sseVars
<1>2. CopiesInv'
  BY QuietCopies DEF IInv, TypeOK, Fetch, tableVars
<1>3. QED
  BY <1>1, <1>2, QuietQueues DEF IInv, Fetch, tableVars, sseVars

LEMMA KeepLookupFound == ASSUME IInv, NEW a \in Actors, LookupFound(a) PROVE IInv'
<1>1. Tail(todo[a]) \in Seq(Urls)
  BY TailFacts DEF IInv, TypeOK, LookupFound
<1>2. TypeOK'
  BY <1>1 DEF IInv, TypeOK, LookupFound, Begins, tableVars, sseVars
<1>3. CopiesInv'
  BY QuietCopies DEF IInv, TypeOK, LookupFound, tableVars
<1>4. QED
  BY <1>2, <1>3, QuietQueues DEF IInv, LookupFound, tableVars, sseVars

(* Its rows for the url are the ones it sees: there are none.              *)
LEMMA KeepLookupAbsent == ASSUME IInv, NEW a \in Actors, LookupAbsent(a) PROVE IInv'
<1>1. TypeOK'
  BY DEF IInv, TypeOK, LookupAbsent, Begins, SyncPc, tableVars, sseVars
<1>2. \A h \in stored \union mine[a] : urlOf[h] # Head(todo[a])
  BY DEF LookupAbsent, Rows
<1>3. MineIsOwn' /\ OwnUrlsDiffer'
  BY DEF IInv, CopiesInv, MineIsOwn, OwnUrlsDiffer, LookupAbsent, tableVars
<1>4. LookupHolds'
  BY <1>2 DEF IInv, TypeOK, CopiesInv, LookupHolds, LookupAbsent, tableVars
<1>5. QED
  BY <1>1, <1>3, <1>4, QuietQueues DEF IInv, CopiesInv, LookupAbsent, tableVars, sseVars

LEMMA KeepLookupMultiple == ASSUME IInv, NEW a \in Actors, LookupMultiple(a) PROVE IInv'
<1>1. TypeOK'
  BY DEF IInv, TypeOK, LookupMultiple, Begins, SyncPc, tableVars, sseVars
<1>2. CopiesInv'
  BY QuietCopies DEF IInv, TypeOK, LookupMultiple, tableVars
<1>3. QED
  BY <1>1, <1>2, QuietQueues DEF IInv, LookupMultiple, tableVars, sseVars

LEMMA KeepAnalyzeNotReal == ASSUME IInv, NEW a \in Actors, AnalyzeNotReal(a) PROVE IInv'
<1>1. Tail(todo[a]) \in Seq(Urls)
  BY TailFacts DEF IInv, CopiesInv, LookupHolds, TypeOK, AnalyzeNotReal
<1>2. TypeOK'
  BY <1>1 DEF IInv, TypeOK, AnalyzeNotReal, SyncPc, jobVars, tableVars, sseVars
<1>3. CopiesInv'
  BY QuietCopies DEF IInv, TypeOK, AnalyzeNotReal, tableVars
<1>4. QED
  BY <1>2, <1>3, QuietQueues DEF IInv, AnalyzeNotReal, tableVars, sseVars

(* The rows it commits are its own, so no other sync's rows grow.          *)
LEMMA KeepCommit == ASSUME IInv, NEW a \in Actors, Commit(a) PROVE IInv'
<1>1. TypeOK'
  BY DEF IInv, TypeOK, Commit, SyncPc, sseVars
<1>2. MineIsOwn'
  BY DEF IInv, TypeOK, CopiesInv, MineIsOwn, Commit
<1>3. \A b \in Actors : \A h \in stored' \union mine'[b] : by[h] = b => h \in stored \union mine[b]
  BY DEF IInv, TypeOK, CopiesInv, MineIsOwn, Commit
<1>4. OwnUrlsDiffer'
  BY <1>3 DEF IInv, CopiesInv, OwnUrlsDiffer, Commit
<1>5. LookupHolds'
  BY <1>3 DEF IInv, TypeOK, CopiesInv, LookupHolds, Commit
<1>6. QED
  BY <1>1, <1>2, <1>4, <1>5, QuietQueues DEF IInv, CopiesInv, Commit, sseVars


LEMMA KeepMark == ASSUME IInv, NEW s \in Manual, Mark(s) PROVE IInv'
<1> s \in Actors /\ s \in Sources
  BY SourcesAssumption DEF Actors, Sources
<1>1. TypeOK'
  BY DEF IInv, TypeOK, Mark, SyncPc, jobVars, tableVars, sseVars
<1>2. CopiesInv'
  BY QuietCopies DEF IInv, TypeOK, Mark, tableVars
<1>3. QED
  BY <1>1, <1>2, QuietQueues DEF IInv, Mark, tableVars, sseVars

LEMMA KeepRaises == ASSUME IInv, NEW a \in Actors, Raises(a) PROVE IInv'
<1>1. TypeOK'
  BY DEF IInv, TypeOK, Raises, SyncPc, tableVars, sseVars
<1>2. CopiesInv'
  BY QuietCopies DEF IInv, TypeOK, Raises, tableVars
<1>3. QED
  BY <1>1, <1>2, QuietQueues DEF IInv, Raises, tableVars, sseVars

LEMMA KeepRollback == ASSUME IInv, NEW a \in Actors, Rollback(a) PROVE IInv'
<1>1. TypeOK'
  BY DEF IInv, TypeOK, Rollback, SyncPc, tableVars, sseVars
<1>2. CopiesInv'
  BY QuietCopies DEF IInv, TypeOK, Rollback, tableVars
<1>3. QED
  BY <1>1, <1>2, QuietQueues DEF IInv, Rollback, tableVars, sseVars

(* Where the handler saves the error: the row of a source. *)
LEMMA KeepSaveError == ASSUME IInv, NEW a \in Actors, SaveError(a) PROVE IInv'
<1>1. TypeOK'
  BY ActorFacts DEF IInv, TypeOK, SaveError, SourceOf, SyncPc, tableVars, sseVars
<1>2. CopiesInv'
  BY QuietCopies DEF IInv, TypeOK, SaveError, tableVars
<1>3. QED
  BY <1>1, <1>2, QuietQueues DEF IInv, SaveError, tableVars, sseVars

LEMMA KeepSaveFails == ASSUME IInv, NEW a \in Actors, SaveFails(a) PROVE IInv'
<1>0. faults' \in 0..MaxFaults
  BY SyncBounds DEF IInv, TypeOK, SaveFails
<1>1. TypeOK'
  BY <1>0 DEF IInv, TypeOK, SaveFails, SyncPc, tableVars, sseVars
<1>2. CopiesInv'
  BY QuietCopies DEF IInv, TypeOK, SaveFails, tableVars
<1>3. QED
  BY <1>1, <1>2, QuietQueues DEF IInv, SaveFails, tableVars, sseVars

LEMMA KeepHandlerRaises == ASSUME IInv, NEW a \in Actors, HandlerRaises(a) PROVE IInv'
<1>0. faults' \in 0..MaxFaults
  BY SyncBounds DEF IInv, TypeOK, HandlerRaises
<1>1. TypeOK'
  <2>1. /\ src' \in Sources \union {Job} /\ listed' \in SUBSET Sources
        /\ open' \in BOOLEAN /\ expired' \in BOOLEAN
    <3>1. CASE a = Job
      BY <3>1 DEF HandlerRaises, EndJob
    <3>2. CASE a # Job
      BY <3>2 DEF IInv, TypeOK, HandlerRaises, jobVars
    <3>3. QED
      BY <3>1, <3>2
  <2>2. /\ pc' \in [Actors -> SyncPc] /\ todo' \in [Actors -> Seq(Urls)]
        /\ mine' \in [Actors -> SUBSET (1..lastId)]
    BY DEF IInv, TypeOK, HandlerRaises, SyncPc
  <2>3. QED
    BY <1>0, <2>1, <2>2 DEF IInv, TypeOK, HandlerRaises, tableVars, sseVars
<1>2. CopiesInv'
  BY QuietCopies DEF IInv, TypeOK, HandlerRaises, tableVars
<1>3. QED
  BY <1>1, <1>2, QuietQueues DEF IInv, HandlerRaises, tableVars, sseVars

LEMMA KeepCrash == ASSUME IInv, Crash PROVE IInv'
<1>0. faults' \in 0..MaxFaults
  BY SyncBounds DEF IInv, TypeOK, Crash
<1>1. TypeOK'
  <2>1. /\ pc' \in [Actors -> SyncPc] /\ todo' \in [Actors -> Seq(Urls)]
        /\ mine' \in [Actors -> SUBSET (1..lastId')]
        /\ conn' \in [Clients -> BOOLEAN] /\ cq' \in [Clients -> Seq(Ids)]
    BY DEF Crash, SyncPc
  <2>2. \A c \in Clients : Len(cq'[c]) <= SseMax
    BY SseMaxAssumption DEF Crash
  <2>3. heard' \in [Clients -> 0..lastId']
    BY IdFacts DEF IInv, TypeOK, Crash, tableVars
  <2>4. QED
    BY <1>0, <2>1, <2>2, <2>3 DEF IInv, TypeOK, Crash, EndJob, tableVars
<1>2. CopiesInv'
  BY QuietCopies DEF IInv, TypeOK, Crash, tableVars
<1>3. QueuesInv'
  BY DEF QueuesInv, Crash
<1>4. QED
  BY <1>1, <1>2, <1>3 DEF IInv

(* A dashboard comes: its queue is empty and it has found every hotspot.   *)
LEMMA KeepConnect == ASSUME IInv, NEW c \in Clients, Connect(c) PROVE IInv'
<1>1. TypeOK'
  <2>1. cq' \in [Clients -> Seq(Ids)] /\ heard' \in [Clients -> 0..lastId]
    BY IdFacts DEF IInv, TypeOK, Connect
  <2>2. \A d \in Clients : Len(cq'[d]) <= SseMax
    BY SseMaxAssumption DEF IInv, TypeOK, Connect
  <2>3. QED
    BY <2>1, <2>2 DEF IInv, TypeOK, Connect, jobVars, tableVars
<1>2. CopiesInv'
  BY QuietCopies DEF IInv, TypeOK, Connect, tableVars
<1>3. QueuesInv'
  <2>1. ASSUME NEW d \in Clients, conn'[d], d # c
        PROVE  Ascends(cq'[d], heard'[d], lastId') /\ EndsWith(cq'[d], heard'[d], lastId')
    BY <2>1 DEF IInv, TypeOK, QueuesInv, Connect, tableVars
  <2>2. Ascends(<< >>, lastId, lastId) /\ EndsWith(<< >>, lastId, lastId)
    BY DEF Ascends, EndsWith
  <2>3. cq'[c] = << >> /\ heard'[c] = lastId /\ lastId' = lastId
    BY DEF IInv, TypeOK, Connect, tableVars
  <2>4. QED
    BY <2>1, <2>2, <2>3 DEF QueuesInv
<1>4. QED
  BY <1>1, <1>2, <1>3 DEF IInv

LEMMA KeepDeliver == ASSUME IInv, NEW c \in Clients, Deliver(c) PROVE IInv'
<1>1. /\ cq[c] \in Seq(Ids) /\ cq[c] # << >> /\ heard[c] \in Nat /\ lastId \in Nat
      /\ Ascends(cq[c], heard[c], lastId) /\ EndsWith(cq[c], heard[c], lastId)
  BY IdFacts DEF IInv, TypeOK, QueuesInv, Deliver
<1>2. /\ Head(cq[c]) \in Ids /\ Tail(cq[c]) \in Seq(Ids) /\ Len(cq[c]) \in Nat \ {0}
      /\ Len(Tail(cq[c])) = Len(cq[c]) - 1 /\ Head(cq[c]) = cq[c][1]
  BY <1>1, TailFacts
<1>3. Head(cq[c]) \in 0..lastId
  <2>1. 1 \in 1..Len(cq[c])
    BY <1>2
  <2>2. QED
    BY <1>1, <1>2, <2>1 DEF Ascends, Ids
<1>4. TypeOK'
  <2>1. cq' \in [Clients -> Seq(Ids)] /\ heard' \in [Clients -> 0..lastId]
    BY <1>2, <1>3 DEF IInv, TypeOK, Deliver
  <2>2. \A d \in Clients : Len(cq'[d]) <= SseMax
    <3>1. Len(Tail(cq[c])) <= SseMax
      BY <1>2, SseMaxAssumption DEF IInv, TypeOK
    <3>2. QED
      BY <3>1 DEF IInv, TypeOK, Deliver
  <2>3. QED
    BY <2>1, <2>2 DEF IInv, TypeOK, Deliver, jobVars, tableVars
<1>5. CopiesInv'
  BY QuietCopies DEF IInv, TypeOK, Deliver, tableVars
<1>6. QueuesInv'
  <2>1. ASSUME NEW d \in Clients, conn'[d], d # c
        PROVE  Ascends(cq'[d], heard'[d], lastId') /\ EndsWith(cq'[d], heard'[d], lastId')
    BY <2>1 DEF IInv, TypeOK, QueuesInv, Deliver, tableVars
  <2>2. Ascends(Tail(cq[c]), Head(cq[c]), lastId) /\ EndsWith(Tail(cq[c]), Head(cq[c]), lastId)
    BY <1>1, AscendsTail
  <2>3. cq'[c] = Tail(cq[c]) /\ heard'[c] = Head(cq[c]) /\ lastId' = lastId
    BY DEF IInv, TypeOK, Deliver, tableVars
  <2>4. QED
    BY <2>1, <2>2, <2>3 DEF QueuesInv
<1>7. QED
  BY <1>4, <1>5, <1>6 DEF IInv

LEMMA KeepDisconnect == ASSUME IInv, NEW c \in Clients, Disconnect(c) PROVE IInv'
<1>1. TypeOK'
  <2>1. cq' \in [Clients -> Seq(Ids)] /\ heard' \in [Clients -> 0..lastId]
    BY IdFacts DEF IInv, TypeOK, Disconnect
  <2>2. \A d \in Clients : Len(cq'[d]) <= SseMax
    BY SseMaxAssumption DEF IInv, TypeOK, Disconnect
  <2>3. QED
    BY <2>1, <2>2 DEF IInv, TypeOK, Disconnect, jobVars, tableVars
<1>2. CopiesInv'
  BY QuietCopies DEF IInv, TypeOK, Disconnect, tableVars
<1>3. QueuesInv'
  BY DEF IInv, TypeOK, QueuesInv, Disconnect, tableVars
<1>4. QED
  BY <1>1, <1>2, <1>3 DEF IInv

-----------------------------------------------------------------------------
(* The insert: a fresh id, the url no row of a's own has, and an event to  *)
(* every dashboard                                                         *)

LEMMA InsertTypes == ASSUME IInv, NEW a \in Actors, Insert(a) PROVE TypeOK'
<1>1. todo[a] # << >> /\ todo[a] \in Seq(Urls)
  BY DEF IInv, TypeOK, CopiesInv, LookupHolds, Insert
<1>2. Head(todo[a]) \in Urls /\ Tail(todo[a]) \in Seq(Urls)
  BY <1>1, TailFacts
<1>3. lastId \in Nat /\ lastId + 1 \in Ids /\ lastId' = lastId + 1 /\ lastId' \in 0..MaxIds
  BY IdFacts DEF IInv, Insert
<1>4. /\ 1..lastId \subseteq 1..lastId' /\ 0..lastId \subseteq 0..lastId'
      /\ lastId + 1 \in 1..lastId'
  BY <1>3
<1>5. ASSUME NEW c \in Clients
      PROVE  cq'[c] \in Seq(Ids) /\ Len(cq'[c]) <= SseMax
  <2>0. cq[c] \in Seq(Ids) /\ Len(cq[c]) \in Nat /\ Len(cq[c]) <= SseMax /\ SseMax \in Nat \ {0}
    BY SseMaxAssumption, EmptyLen DEF IInv, TypeOK
  <2>1. CASE ~conn[c]
    BY <2>0, <2>1 DEF Insert, Broadcast
  <2>2. CASE conn[c] /\ Len(cq[c]) >= SseMax
    <3>1. cq[c] # << >>
      BY <2>0, <2>2, EmptyLen
    <3>2. Tail(cq[c]) \in Seq(Ids) /\ Len(Tail(cq[c])) = Len(cq[c]) - 1
      BY <2>0, <3>1, TailFacts
    <3>3. /\ Append(Tail(cq[c]), lastId + 1) \in Seq(Ids)
          /\ Len(Append(Tail(cq[c]), lastId + 1)) = Len(Tail(cq[c])) + 1
      BY <1>3, <3>2, AppendFacts
    <3>4. cq'[c] = Append(Tail(cq[c]), lastId + 1)
      BY <2>2 DEF Insert, Broadcast
    <3>5. QED
      BY <2>0, <3>2, <3>3, <3>4
  <2>3. CASE conn[c] /\ ~(Len(cq[c]) >= SseMax)
    <3>1. /\ Append(cq[c], lastId + 1) \in Seq(Ids)
          /\ Len(Append(cq[c], lastId + 1)) = Len(cq[c]) + 1
      BY <1>3, <2>0, AppendFacts
    <3>2. cq'[c] = Append(cq[c], lastId + 1)
      BY <2>3 DEF Insert, Broadcast
    <3>3. QED
      BY <2>0, <2>3, <3>1, <3>2
  <2>4. QED
    BY <2>1, <2>2, <2>3
<1>6. cq' \in [Clients -> Seq(Ids)] /\ \A c \in Clients : Len(cq'[c]) <= SseMax
  <2>1. cq' = [c \in Clients |-> cq'[c]]
    BY DEF Insert, Broadcast
  <2>2. QED
    BY <1>5, <2>1
<1>7. pc' \in [Actors -> SyncPc] /\ todo' \in [Actors -> Seq(Urls)]
  BY <1>2 DEF IInv, TypeOK, Insert, SyncPc
<1>8. mine' \in [Actors -> SUBSET (1..lastId')]
  BY <1>4 DEF IInv, TypeOK, Insert
<1>9. urlOf' \in [Ids -> Urls] /\ by' \in [Ids -> Actors]
  BY <1>2 DEF IInv, TypeOK, Insert
<1>10. stored' \in SUBSET (1..lastId') /\ heard' \in [Clients -> 0..lastId']
  BY <1>4 DEF IInv, TypeOK, Insert
<1>11. /\ src' \in Sources \union {Job} /\ listed' \in SUBSET Sources
       /\ open' \in BOOLEAN /\ expired' \in BOOLEAN
       /\ snap' \in [Manual -> BOOLEAN] /\ err' \in [Sources -> BOOLEAN]
       /\ conn' \in [Clients -> BOOLEAN] /\ faults' \in 0..MaxFaults
  BY DEF IInv, TypeOK, Insert, jobVars
<1>12. QED
  BY <1>3, <1>6, <1>7, <1>8, <1>9, <1>10, <1>11 DEF TypeOK

LEMMA InsertCopies == ASSUME IInv, NEW a \in Actors, Insert(a) PROVE CopiesInv'
<1>1. /\ lastId \in Nat /\ lastId + 1 \in Ids /\ 1..lastId \subseteq Ids
      /\ stored \subseteq 1..lastId /\ \A b \in Actors : mine[b] \subseteq 1..lastId
  BY IdFacts DEF IInv, TypeOK, Insert
<1>2. \A h \in 1..lastId : h # lastId + 1 /\ h \in Ids
  BY <1>1
<1>3. /\ urlOf'[lastId + 1] = Head(todo[a]) /\ by'[lastId + 1] = a
      /\ \A h \in 1..lastId : urlOf'[h] = urlOf[h] /\ by'[h] = by[h]
  BY <1>1, <1>2 DEF IInv, TypeOK, Insert
<1>4. /\ stored' = stored /\ mine'[a] = mine[a] \union {lastId + 1}
      /\ \A b \in Actors : b # a => mine'[b] = mine[b]
  BY DEF IInv, TypeOK, Insert
<1>5. \A h \in stored \union mine[a] : by[h] = a => urlOf[h] # Head(todo[a])
  BY DEF IInv, CopiesInv, LookupHolds, Insert
<1>6. MineIsOwn'
  BY <1>1, <1>3, <1>4 DEF IInv, CopiesInv, MineIsOwn
<1>7. OwnUrlsDiffer'
  <2>1. ASSUME NEW b \in Actors, b # a PROVE
          \A h, k \in stored' \union mine'[b] :
            by'[h] = b /\ by'[k] = b /\ urlOf'[h] = urlOf'[k] => h = k
    BY <1>1, <1>3, <1>4, <2>1 DEF IInv, CopiesInv, OwnUrlsDiffer
  <2>2. \A h, k \in stored' \union mine'[a] :
          by'[h] = a /\ by'[k] = a /\ urlOf'[h] = urlOf'[k] => h = k
    BY <1>1, <1>3, <1>4, <1>5 DEF IInv, CopiesInv, OwnUrlsDiffer
  <2>3. QED
    BY <2>1, <2>2 DEF OwnUrlsDiffer
<1>8. LookupHolds'
  <2>1. ASSUME NEW b \in Actors, pc'[b] = "analyze"
        PROVE  b # a /\ pc[b] = "analyze" /\ todo'[b] = todo[b]
    BY <2>1 DEF IInv, TypeOK, Insert
  <2>2. QED
    BY <1>1, <1>3, <1>4, <2>1 DEF IInv, CopiesInv, LookupHolds
<1>9. QED
  BY <1>6, <1>7, <1>8 DEF CopiesInv

LEMMA InsertQueues == ASSUME IInv, NEW a \in Actors, Insert(a) PROVE QueuesInv'
<1> SUFFICES ASSUME NEW c \in Clients, conn[c]
             PROVE  /\ Ascends(cq'[c], heard[c], lastId + 1)
                    /\ EndsWith(cq'[c], heard[c], lastId + 1)
  BY DEF Insert, QueuesInv
<1>1. /\ cq[c] \in Seq(Ids) /\ lastId \in Nat /\ lastId + 1 \in Ids
      /\ heard[c] \in Nat /\ heard[c] <= lastId
  BY IdFacts DEF IInv, TypeOK, Insert
<1>2. Ascends(cq[c], heard[c], lastId) /\ EndsWith(cq[c], heard[c], lastId)
  BY DEF IInv, QueuesInv
<1>3. CASE Len(cq[c]) >= SseMax
  <2>1. cq[c] # << >>
    BY <1>1, <1>3, SseMaxAssumption, EmptyLen
  <2>2. Tail(cq[c]) \in Seq(Ids)
    BY <1>1, <2>1, TailFacts
  <2>3. Ascends(Tail(cq[c]), heard[c], lastId)
    BY <1>1, <1>2, <2>1, AscendsTail
  <2>4. cq'[c] = Append(Tail(cq[c]), lastId + 1)
    BY <1>3 DEF Insert, Broadcast
  <2>5. QED
    BY <1>1, <2>2, <2>3, <2>4, AscendsAppend
<1>4. CASE ~(Len(cq[c]) >= SseMax)
  <2>1. cq'[c] = Append(cq[c], lastId + 1)
    BY <1>4 DEF Insert, Broadcast
  <2>2. QED
    BY <1>1, <1>2, <2>1, AscendsAppend
<1>5. QED
  BY <1>3, <1>4

LEMMA KeepInsert == ASSUME IInv, NEW a \in Actors, Insert(a) PROVE IInv'
BY InsertTypes, InsertCopies, InsertQueues DEF IInv

-----------------------------------------------------------------------------
LEMMA Inductive == IInv /\ [Next]_vars => IInv'
<1> SUFFICES ASSUME IInv, [Next]_vars PROVE IInv'
  OBVIOUS
<1>1. CASE UNCHANGED vars
  BY <1>1 DEF vars, jobVars, tableVars, sseVars, IInv, TypeOK, CopiesInv, MineIsOwn,
              OwnUrlsDiffer, LookupHolds, QueuesInv
<1>2. CASE \E active \in SUBSET Sources : JobTick(active)
  BY <1>2, KeepJobTick
<1>3. CASE JobStep
  BY <1>3, KeepJobNext, KeepJobEnd DEF JobStep
<1>4. CASE \E s \in Manual : SyncStart(s)
  BY <1>4, KeepSyncStart
<1>5. ASSUME NEW a \in Actors, SyncStep(a) PROVE IInv'
  BY <1>5, KeepFetch, KeepLookupFound, KeepLookupAbsent, KeepLookupMultiple, KeepInsert,
     KeepAnalyzeNotReal, KeepCommit, KeepMark, KeepRollback, KeepSaveError DEF SyncStep
<1>6. ASSUME NEW a \in Actors, Raises(a) \/ SaveFails(a) \/ HandlerRaises(a) PROVE IInv'
  BY <1>6, KeepRaises, KeepSaveFails, KeepHandlerRaises
<1>7. CASE Crash
  BY <1>7, KeepCrash
<1>8. ASSUME NEW c \in Clients, Connect(c) \/ Deliver(c) \/ Disconnect(c) PROVE IInv'
  BY <1>8, KeepConnect, KeepDeliver, KeepDisconnect
<1>9. QED
  BY <1>1, <1>2, <1>3, <1>4, <1>5, <1>6, <1>7, <1>8 DEF Next

LEMMA Invariance == Spec => []IInv
<1>1. QED
  BY InitIInv, Inductive, PTL DEF Spec

-----------------------------------------------------------------------------
(* Every variable of the sync keeps its type, and no dashboard's queue     *)
(* outgrows the maxsize it is made with (sse.py).                          *)
THEOREM SyncTypeCorrect == Spec => []TypeOK
<1>1. IInv => TypeOK
  BY DEF IInv
<1>2. QED
  BY <1>1, Invariance, PTL

(* process_candidates keeps the rows one sync makes apart by url: whatever *)
(* feeds repeat, whatever other syncs, rollbacks and process ends there    *)
(* are, a url stored twice was stored by two syncs that overlapped.        *)
THEOREM SyncStoresOnce == Spec => []OneCopyPerSync
<1>1. IInv => OneCopyPerSync
  <2> SUFFICES ASSUME IInv, NEW h \in stored, NEW k \in stored,
                      urlOf[h] = urlOf[k], by[h] = by[k]
               PROVE  h = k
    BY DEF OneCopyPerSync
  <2>1. by[h] \in Actors
    BY IdFacts DEF IInv, TypeOK
  <2>2. QED
    BY <2>1 DEF IInv, CopiesInv, OwnUrlsDiffer
<1>2. QED
  BY <1>1, Invariance, PTL

(* broadcast's way with a full queue, dropping its oldest event, never     *)
(* costs a dashboard the newest one, nor the order of those it gets.       *)
THEOREM EventsAreKept == Spec => []EventsKept
<1>1. IInv => EventsKept
  <2> SUFFICES ASSUME IInv, NEW c \in Clients, conn[c]
               PROVE  /\ \A i \in DOMAIN cq[c] : heard[c] < cq[c][i]
                      /\ \A i, k \in DOMAIN cq[c] : i < k => cq[c][i] < cq[c][k]
                      /\ IF cq[c] = << >> THEN heard[c] = lastId
                                          ELSE cq[c][Len(cq[c])] = lastId
    BY DEF EventsKept
  <2>1. DOMAIN cq[c] = 1..Len(cq[c])
    BY DEF IInv, TypeOK
  <2>2. QED
    BY <2>1 DEF IInv, QueuesInv, Ascends, EndsWith
<1>2. QED
  BY <1>1, Invariance, PTL

-----------------------------------------------------------------------------
(* The daily digest, made of the hotspots by a job of the same server:      *)
(* proofs about DigestJobs.                                                 *)

Switches == morning \in BOOLEAN /\ up \in BOOLEAN /\ ran \in BOOLEAN
            /\ held \in BOOLEAN /\ daily \in BOOLEAN

(* Before 08:00 the day counts for nothing yet, and no daily job runs. *)
DayBegins ==
  /\ \A d \in plain : d <= day /\ (d = day => ~morning)
  /\ daily => ~morning

(* What the scheduler holds: the job of a server nobody pressed a button of *)
(* has a next run, which is never due before 08:00, and a running job that  *)
(* the daily trigger did not fire was run by hand.                          *)
Scheduled ==
  /\ jpc = "idle" => ~daily
  /\ ~up => jpc = "idle"
  /\ up /\ ~ran /\ ~held => next # "none"
  /\ up /\ morning /\ trigger = "daily" => next \in {"later", "none"}
  /\ jpc # "idle" /\ ~daily => ran

(* The day's run is due and nothing is in its way, or it is under way with  *)
(* today's date.                                                            *)
OnItsWay == up /\ \/ next = "due" /\ trigger = "daily" /\ jpc = "idle"
                  \/ daily /\ (jpc # "read" => jday = day)

PlainDaysAreServed == \A d \in plain : digest[d] = "none" => d = day /\ OnItsWay

(* Who has made a digest is past its commit. *)
MakersCommitted ==
  /\ jpc = "refresh" => digest[jday] = "job"
  /\ \A r \in Requests, d \in Days :
        digest[d] = r => rpc[r] \in {"refresh", "made", "error", "gone"}

DigestInv == /\ DigestTypeOK /\ DayBegins /\ Scheduled /\ PlainDaysAreServed
             /\ MakersCommitted /\ ReportsAreTrue

(* A digest stays whoever's it is. *)
DigestsStay == \A d \in Days : digest[d] # "none" => digest'[d] = digest[d]

LEMMA DigestInitInv == DigestInit => DigestInv
<1> SUFFICES ASSUME DigestInit PROVE DigestInv
  OBVIOUS
<1> USE RequestsAssumption, DigestBounds DEF DigestInit, Days
<1>0. Switches
  BY DEF Switches
<1>1. DigestTypeOK
  BY <1>0 DEF DigestTypeOK, Switches
<1>2. DayBegins /\ Scheduled /\ PlainDaysAreServed
  BY DEF DayBegins, Scheduled, PlainDaysAreServed
<1>3. MakersCommitted
  BY DEF MakersCommitted
<1>4. ReportsAreTrue
  BY DEF ReportsAreTrue, AnswersAreTrue, LogsAreTrue
<1>5. QED
  BY <1>1, <1>2, <1>3, <1>4 DEF DigestInv

(* The steps by what they change: the clock and the scheduler, the job and  *)
(* its log rows, the requests.                                              *)
ServerStep == \/ Start \/ Stop \/ Morning \/ Midnight
              \/ Fire \/ Skip \/ WakeLate
              \/ RunNow \/ Pause \/ Resume

WorkStep == \/ DigestJobStep \/ JobRaises
            \/ \E e \in pending : Persist(e) \/ PersistRaises(e)

AskStep == \E r \in Requests : \/ \E d \in Days : Post(r, d)
                               \/ RequestStep(r) \/ RequestRaises(r)

LEMMA DigestSteps == DigestNext => ServerStep \/ WorkStep \/ AskStep
BY DEF DigestNext, ServerStep, WorkStep, AskStep

LEMMA ServerType ==
  ASSUME DigestInv, ServerStep
  PROVE  DigestTypeOK'
<1> USE RequestsAssumption, DigestBounds DEF DigestInv, DigestTypeOK, Days,
        clock, store, job, request, log, bounds
<1>1. CASE Start
  BY <1>1 DEF Start
<1>2. CASE Stop
  <2>1. Switches'
    BY <1>2 DEF Stop, Working, Answers, Switches
  <2>2. QED
    BY <1>2, <2>1 DEF Stop, Working, Answers, Switches
<1>3. CASE Morning
  BY <1>3 DEF Morning
<1>4. CASE Midnight
  BY <1>4 DEF Midnight
<1>5. CASE Fire
  BY <1>5 DEF Fire, Advance
<1>6. CASE Skip
  BY <1>6 DEF Skip, Advance
<1>7. CASE WakeLate
  BY <1>7 DEF WakeLate
<1>8. CASE RunNow
  BY <1>8 DEF RunNow, Button
<1>9. CASE Pause
  BY <1>9 DEF Pause, Button
<1>10. CASE Resume
  BY <1>10 DEF Resume, Button
<1>11. QED
  BY <1>1, <1>2, <1>3, <1>4, <1>5, <1>6, <1>7, <1>8, <1>9, <1>10 DEF ServerStep

LEMMA WorkType ==
  ASSUME DigestInv, WorkStep
  PROVE  DigestTypeOK'
<1> USE RequestsAssumption, DigestBounds DEF DigestInv, DigestTypeOK, Days,
        clock, store, job, request, log, bounds
<1>0. \A status \in {"success", "error"} : [status |-> status, day |-> jday] \in Entries
  BY DEF Entries
<1>1. CASE ReadHotspots
  BY <1>1 DEF ReadHotspots
<1>2. CASE CommitDigest
  BY <1>2 DEF CommitDigest
<1>3. CASE CommitRefused
  <2>1. Switches'
    BY <1>3, <1>0 DEF CommitRefused, JobEnds, Switches
  <2>2. QED
    BY <1>3, <1>0, <2>1 DEF CommitRefused, JobEnds, Switches
<1>4. CASE Finish
  <2>1. Switches'
    BY <1>4, <1>0 DEF Finish, JobEnds, Switches
  <2>2. QED
    BY <1>4, <1>0, <2>1 DEF Finish, JobEnds, Switches
<1>5. CASE JobRaises
  <2>1. Switches'
    BY <1>5, <1>0 DEF JobRaises, JobEnds, Switches
  <2>2. QED
    BY <1>5, <1>0, <2>1 DEF JobRaises, JobEnds, Switches
<1>6. ASSUME NEW e \in pending, Persist(e) \/ PersistRaises(e)
      PROVE  DigestTypeOK'
  <2>1. Switches'
    BY <1>6 DEF Persist, PersistRaises, Switches
  <2>2. pending' \subseteq Entries /\ logs' \subseteq Entries
    BY <1>6 DEF Persist, PersistRaises
  <2>3. CASE Persist(e)
    BY <2>1, <2>2, <2>3 DEF Persist, Switches
  <2>4. CASE PersistRaises(e)
    BY <2>1, <2>2, <2>4 DEF PersistRaises, Switches
  <2>5. QED
    BY <1>6, <2>3, <2>4
<1>7. QED
  BY <1>1, <1>2, <1>3, <1>4, <1>5, <1>6 DEF WorkStep, DigestJobStep

LEMMA AskType ==
  ASSUME DigestInv, AskStep
  PROVE  DigestTypeOK'
<1> USE RequestsAssumption, DigestBounds DEF DigestInv, DigestTypeOK, Days, RequestOnly,
   To,
        clock, store, job, log, Working, Answers
<1>1. ASSUME NEW r \in Requests, NEW d \in Days, Post(r, d) PROVE DigestTypeOK'
  BY <1>1 DEF Post
<1>2. ASSUME NEW r \in Requests, Check(r) PROVE DigestTypeOK'
  BY <1>2 DEF Check
<1>3. ASSUME NEW r \in Requests, CommitRequest(r) PROVE DigestTypeOK'
  BY <1>3 DEF CommitRequest
<1>4. ASSUME NEW r \in Requests, Answer(r) PROVE DigestTypeOK'
  BY <1>4 DEF Answer
<1>5. ASSUME NEW r \in Requests, RequestRaises(r) PROVE DigestTypeOK'
  BY <1>5 DEF RequestRaises
<1>6. QED
  BY <1>1, <1>2, <1>3, <1>4, <1>5 DEF AskStep, RequestStep

(* A step never takes a digest back, and never gives it another maker. *)
LEMMA DigestsAreKept ==
  ASSUME DigestInv, ServerStep \/ WorkStep \/ AskStep
  PROVE  DigestsStay
<1> USE DEF DigestsStay, Days
<1>0. digest \in [Days -> {"none", "job"} \cup Requests] /\ rday \in [Requests -> Days]
  BY DEF DigestInv, DigestTypeOK
<1>1. CASE digest' = digest
  BY <1>1
<1>2. CASE CommitDigest
  BY <1>0, <1>2 DEF CommitDigest
<1>3. ASSUME NEW r \in Requests, CommitRequest(r) PROVE DigestsStay
  BY <1>0, <1>3 DEF CommitRequest
<1>4. ServerStep => digest' = digest
  BY DEF ServerStep, Start, Stop, Morning, Midnight, Fire,
         Skip, WakeLate, RunNow, Pause, Resume, Button
<1>5. WorkStep => digest' = digest \/ CommitDigest
  BY DEF WorkStep, DigestJobStep, ReadHotspots, CommitRefused, Finish,
         JobRaises, Persist, PersistRaises
<1>6. AskStep => digest' = digest \/ \E r \in Requests : CommitRequest(r)
  BY DEF AskStep, RequestStep, Post, Check, Answer, RequestRaises
<1>7. QED
  BY <1>1, <1>2, <1>3, <1>4, <1>5, <1>6

(* The clock's marks and the scheduler's *)

LEMMA DayBeginsKept ==
  ASSUME DigestInv, ServerStep \/ WorkStep \/ AskStep
  PROVE  DayBegins'
<1> USE DEF DayBegins, DigestInv, clock, store, job, request, log
<1>0. day \in Nat /\ plain \subseteq Nat
  BY RequestsAssumption, DigestBounds DEF DigestTypeOK, Days
<1>1. CASE Midnight
  BY <1>0, <1>1 DEF Midnight, DigestTypeOK, Scheduled
<1>2. CASE Morning
  BY <1>0, <1>2 DEF Morning
<1>3. CASE Fire
  BY <1>3 DEF Fire, Advance, Scheduled
<1>4. CASE ServerStep /\ ~Midnight /\ ~Morning /\ ~Fire
  BY <1>4 DEF ServerStep, Start, Stop, Skip, WakeLate, Advance,
              RunNow, Pause, Resume, Button
<1>5. CASE WorkStep
  BY <1>5 DEF WorkStep, DigestJobStep, ReadHotspots, CommitDigest,
     CommitRefused,
              Finish, JobRaises, JobEnds, Persist, PersistRaises
<1>6. CASE AskStep
  BY <1>6 DEF AskStep, RequestStep, Post, Check, CommitRequest, Answer,
              RequestRaises, RequestOnly
<1>7. QED
  BY <1>1, <1>2, <1>3, <1>4, <1>5, <1>6

LEMMA ScheduledKept ==
  ASSUME DigestInv, ServerStep \/ WorkStep \/ AskStep
  PROVE  Scheduled'
<1> USE DEF Scheduled, DayBegins, DigestInv, DigestTypeOK, clock, store, job,
   request, log
<1>1. CASE Start
  BY <1>1 DEF Start
<1>2. CASE Stop
  BY <1>2 DEF Stop
<1>3. CASE Morning
  BY <1>3 DEF Morning
<1>4. CASE Midnight
  BY <1>4 DEF Midnight
<1>5. CASE Fire
  BY <1>5 DEF Fire, Advance
<1>6. CASE Skip
  BY <1>6 DEF Skip, Advance
<1>7. CASE WakeLate
  BY <1>7 DEF WakeLate
<1>8. CASE RunNow
  BY <1>8 DEF RunNow, Button
<1>9. CASE Pause
  BY <1>9 DEF Pause, Button
<1>10. CASE Resume
  BY <1>10 DEF Resume, Button
<1>11. CASE WorkStep
  BY <1>11 DEF WorkStep, DigestJobStep, ReadHotspots, CommitDigest,
     CommitRefused,
              Finish, JobRaises, JobEnds, Persist, PersistRaises
<1>12. CASE AskStep
  BY <1>12 DEF AskStep, RequestStep, Post, Check, CommitRequest, Answer,
              RequestRaises, RequestOnly
<1>13. QED
  BY <1>1, <1>2, <1>3, <1>4, <1>5, <1>6, <1>7, <1>8, <1>9, <1>10, <1>11, <1>12 DEF ServerStep

(* The days *)

LEMMA DaysServed ==
  ASSUME DigestInv, ServerStep \/ WorkStep \/ AskStep, DigestsStay
  PROVE  PlainDaysAreServed'
<1> SUFFICES ASSUME NEW d \in plain', digest'[d] = "none"
             PROVE  d = day' /\ OnItsWay'
  BY DEF PlainDaysAreServed
<1> USE DEF DigestInv, clock, store, job, request, log
<1>0. d \in Days => digest[d] = "none"
  BY DEF DigestsStay
<1>1. d \in plain => d = day /\ OnItsWay
  BY <1>0 DEF PlainDaysAreServed, DigestTypeOK
<1>2. CASE Morning
  <2>1. CASE d \in plain
    BY <1>1, <1>2, <2>1 DEF Morning, DayBegins
  <2>2. CASE d \notin plain
    <3>1. d = day /\ up /\ ~ran /\ ~held /\ morning /\ trigger = "daily"
      BY <1>2, <2>2 DEF Morning, DigestTypeOK
    <3>2. next = "later" /\ jpc = "idle"
      BY <3>1 DEF Scheduled, DayBegins
    <3>3. QED
      BY <1>2, <3>1, <3>2 DEF Morning, OnItsWay
  <2>3. QED
    BY <2>1, <2>2
<1>3. CASE Midnight
  <2>1. d \in plain
    BY <1>3 DEF Midnight
  <2>2. QED
    BY <1>1, <1>3, <2>1 DEF Midnight, OnItsWay
<1>4. CASE ServerStep /\ ~Morning /\ ~Midnight
  <2>1. d \in plain
    BY <1>4 DEF ServerStep, Start, Stop, Fire, Skip, WakeLate,
                RunNow, Pause, Resume, Button
  <2>2. d = day /\ OnItsWay
    BY <1>1, <2>1
  <2>3. CASE Fire \/ Skip
    BY <2>2, <2>3 DEF OnItsWay, Scheduled, Fire, Skip, Advance
  <2>4. CASE Start \/ Stop \/ WakeLate
    BY <2>2, <2>4 DEF OnItsWay, Start, Stop, WakeLate
  <2>5. CASE RunNow \/ Pause \/ Resume
    BY <2>2, <2>5 DEF OnItsWay, RunNow, Pause, Resume, Button
  <2>6. QED
    BY <1>4, <2>3, <2>4, <2>5 DEF ServerStep
<1>5. CASE WorkStep
  <2>1. d \in plain
    BY <1>5 DEF WorkStep, DigestJobStep, ReadHotspots, CommitDigest,
       CommitRefused,
                Finish, JobRaises, Persist, PersistRaises
  <2>2. d = day /\ OnItsWay /\ digest[d] = "none" /\ d \in Days
    BY <1>0, <1>1, <2>1 DEF DigestTypeOK
  <2>3. CASE ReadHotspots
    BY <2>2, <2>3 DEF OnItsWay, ReadHotspots
  <2>4. CASE CommitDigest
    BY <2>2, <2>4 DEF OnItsWay, CommitDigest, DigestTypeOK
  <2>5. CASE CommitRefused
    BY <2>2, <2>5 DEF OnItsWay, CommitRefused
  <2>6. CASE Finish
    BY <2>2, <2>6 DEF OnItsWay, Finish, MakersCommitted
  <2>7. CASE JobRaises
    BY <2>2, <2>7 DEF JobRaises
  <2>8. ASSUME NEW e \in pending, Persist(e) \/ PersistRaises(e)
        PROVE  d = day' /\ OnItsWay'
    BY <2>2, <2>8 DEF OnItsWay, Persist, PersistRaises
  <2>9. QED
    BY <1>5, <2>3, <2>4, <2>5, <2>6, <2>7, <2>8 DEF WorkStep, DigestJobStep
<1>6. CASE AskStep
  BY <1>1, <1>6 DEF OnItsWay, AskStep, RequestStep, Post, Check,
     CommitRequest, Answer,
                    RequestRaises, RequestOnly
<1>7. QED
  BY <1>2, <1>3, <1>4, <1>5, <1>6

(* The makers, the answers and the log *)

LEMMA MakersKept ==
  ASSUME DigestInv, ServerStep \/ WorkStep \/ AskStep, DigestsStay
  PROVE  MakersCommitted'
<1> USE DEF DigestInv, MakersCommitted, clock, store, job, request,
   log
<1>0. /\ digest \in [Days -> {"none", "job"} \cup Requests]
      /\ rpc \in [Requests -> {"idle"} \cup Working \cup Answers]
      /\ rday \in [Requests -> Days]
      /\ \A r \in Requests : r \notin {"none", "job"}
  BY RequestsAssumption, DigestBounds DEF DigestTypeOK
<1>1. CASE digest' = digest /\ rpc' = rpc /\ ~CommitDigest
  <2>1. \A r \in Requests, d \in Days : digest'[d] = r => rpc'[r] \in {"refresh", "made", "error", "gone"}
    BY <1>1
  <2>2. jpc' = "refresh" => digest'[jday'] = "job"
    <3>1. CASE ServerStep
      BY <1>1, <3>1 DEF ServerStep, Start, Stop, Morning, Midnight,
         Fire,
         Skip, WakeLate, RunNow, Pause, Resume, Button
    <3>2. CASE WorkStep
      BY <1>1, <3>2 DEF WorkStep, DigestJobStep, ReadHotspots, CommitRefused,
         Finish,
         JobRaises, JobEnds, Persist, PersistRaises
    <3>3. CASE AskStep
      BY <1>1, <3>3 DEF AskStep, RequestStep, Post, Check, CommitRequest,
         Answer,
         RequestRaises, RequestOnly
    <3>4. QED
      BY <3>1, <3>2, <3>3
  <2>3. QED
    BY <2>1, <2>2
<1>2. CASE CommitDigest
  <2>1. jday \in Days
    BY <1>2, RequestsAssumption, DigestBounds DEF CommitDigest, DigestTypeOK, Days
  <2>2. QED
    BY <1>0, <1>2, <2>1 DEF CommitDigest
<1>3. CASE Stop
  BY <1>0, <1>3 DEF Stop, Working
<1>4. CASE AskStep
  <2>1. jpc' = jpc /\ jday' = jday
    BY <1>4, RequestsAssumption, DigestBounds DEF AskStep, RequestStep, Post, Check, CommitRequest,
       Answer,
                RequestRaises, RequestOnly
  <2>2. jpc' = "refresh" => digest'[jday'] = "job"
    BY <2>1 DEF DigestsStay, DigestTypeOK, Days
  <2>3. ASSUME NEW r \in Requests, CommitRequest(r)
        PROVE  \A q \in Requests, d \in Days :
                  digest'[d] = q => rpc'[q] \in {"refresh", "made", "error", "gone"}
    BY <1>0, <2>3 DEF CommitRequest, To
  <2>4. ASSUME NEW r \in Requests, NEW x \in Days,
               Post(r, x) \/ Check(r) \/ Answer(r) \/ RequestRaises(r)
        PROVE  \A q \in Requests, d \in Days :
                  digest'[d] = q => rpc'[q] \in {"refresh", "made", "error", "gone"}
    BY <1>0, <2>4 DEF Post, Check, Answer, RequestRaises, To
  <2>5. 1 \in Days
    BY DigestBounds DEF Days
  <2>6. QED
    BY <1>4, <2>2, <2>3, <2>4, <2>5 DEF AskStep, RequestStep
<1>5. ServerStep => (digest' = digest /\ rpc' = rpc) \/ Stop
  BY DEF ServerStep, Start, Morning, Midnight, Fire,
         Skip, WakeLate, RunNow, Pause, Resume, Button
<1>6. WorkStep => (digest' = digest /\ rpc' = rpc) \/ CommitDigest
  BY DEF WorkStep, DigestJobStep, ReadHotspots, CommitRefused, Finish,
         JobRaises, JobEnds, Persist, PersistRaises
<1>7. QED
  BY <1>1, <1>2, <1>3, <1>4, <1>5, <1>6

LEMMA FaultsGrow ==
  ASSUME DigestInv, ServerStep \/ WorkStep \/ AskStep
  PROVE  dbFaults' = 0 => dbFaults = 0
<1>1. dbFaults \in Nat
  BY DigestBounds DEF DigestInv, DigestTypeOK
<1>2. dbFaults' = dbFaults \/ dbFaults' = dbFaults + 1
  BY DEF ServerStep, WorkStep, AskStep, Start, Stop, Morning, Midnight,
     Fire,
         Skip, WakeLate, RunNow, Pause, Resume, Button,
         DigestJobStep, ReadHotspots, CommitDigest, CommitRefused,
         Finish,
         JobRaises, JobEnds, Persist, PersistRaises,
         RequestStep, Post,
         Check, CommitRequest, Answer, RequestRaises, RequestOnly,
         bounds
<1>3. QED
  BY <1>1, <1>2

LEMMA AnswersKept ==
  ASSUME DigestInv, ServerStep \/ WorkStep \/ AskStep, DigestsStay
  PROVE  AnswersAreTrue'
<1> USE DEF DigestInv, ReportsAreTrue, AnswersAreTrue
<1>0. /\ digest \in [Days -> {"none", "job"} \cup Requests]
      /\ rpc \in [Requests -> {"idle"} \cup Working \cup Answers]
      /\ rday \in [Requests -> Days]
      /\ \A r \in Requests : r \notin {"none", "job"}
  BY RequestsAssumption, DigestBounds DEF DigestTypeOK
<1>1. dbFaults' = 0 => dbFaults = 0
  BY FaultsGrow
<1> SUFFICES ASSUME NEW r \in Requests
             PROVE  /\ rpc'[r] \in {"refresh", "made"} => digest'[rday'[r]] = r
                    /\ rpc'[r] = "exists" => digest'[rday'[r]] # "none"
                    /\ rpc'[r] = "error" /\ dbFaults' = 0 => digest'[rday'[r]] \notin {"none", r}
  OBVIOUS
<1>2. CASE rpc'[r] = rpc[r] /\ rday'[r] = rday[r]
  BY <1>0, <1>1, <1>2 DEF DigestsStay
<1>3. CASE Stop
  BY <1>0, <1>1, <1>3 DEF Stop, Working
<1>4. ASSUME NEW d \in Days, Post(r, d) PROVE rpc'[r] = "check"
  BY <1>0, <1>4 DEF Post, To
<1>5. CASE Check(r)
  BY <1>0, <1>5 DEF Check, To
<1>6. CASE CommitRequest(r)
  BY <1>0, <1>6 DEF CommitRequest, To, MakersCommitted
<1>7. CASE Answer(r)
  BY <1>0, <1>7 DEF Answer, To
<1>8. CASE RequestRaises(r)
  <2>1. dbFaults \in Nat
    BY DigestBounds DEF DigestTypeOK
  <2>2. QED
    BY <1>0, <1>1, <1>8, <2>1 DEF RequestRaises, To
<1>9. ServerStep => UNCHANGED <<rpc, rday>> \/ Stop
  BY DEF ServerStep, Start, Morning, Midnight, Fire, request,
         Skip, WakeLate, RunNow, Pause, Resume, Button
<1>10. WorkStep => UNCHANGED <<rpc, rday>>
  BY DEF WorkStep, DigestJobStep, ReadHotspots, CommitDigest, CommitRefused,
     Finish,
         JobRaises, JobEnds, Persist, PersistRaises, request
<1>11. ASSUME NEW q \in Requests, NEW d \in Days, q # r,
              Post(q, d) \/ RequestStep(q) \/ RequestRaises(q)
       PROVE  rpc'[r] = rpc[r] /\ rday'[r] = rday[r]
  BY <1>0, <1>11 DEF Post, RequestStep, Check, CommitRequest, Answer,
                     RequestRaises, To
<1>12. 1 \in Days
  BY RequestsAssumption, DigestBounds DEF Days
<1>13. CASE AskStep
  BY <1>2, <1>4, <1>5, <1>6, <1>7, <1>8, <1>11, <1>12, <1>13 DEF AskStep, RequestStep
<1>14. QED
  BY <1>2, <1>3, <1>9, <1>10, <1>13

LEMMA LogsKept ==
  ASSUME DigestInv, ServerStep \/ WorkStep \/ AskStep, DigestsStay
  PROVE  LogsAreTrue'
<1> DEFINE IsSo(e) == IF e.status = "success" THEN e.day \in Days /\ digest[e.day] = "job"
                      ELSE dbFaults = 0 => e.day \in Days /\ digest[e.day] # "none"
<1>0. LogsAreTrue <=> \A e \in pending \cup logs : IsSo(e)
  BY DEF LogsAreTrue
<1>1. \A e \in pending \cup logs : IsSo(e)'
  BY <1>0, FaultsGrow DEF DigestInv, ReportsAreTrue, DigestsStay
<1>2. CASE pending' \cup logs' \subseteq pending \cup logs
  BY <1>1, <1>2 DEF LogsAreTrue
<1>3. ASSUME NEW status \in {"success", "error"}, JobEnds(status),
             NEW j, j = jday, IsSo([status |-> status, day |-> j])'
      PROVE  LogsAreTrue'
  BY <1>1, <1>3 DEF LogsAreTrue, JobEnds
<1>4. CASE CommitRefused
  <2>1. jday \in Days /\ digest[jday] # "none"
    BY <1>4, RequestsAssumption, DigestBounds DEF CommitRefused, DigestInv, DigestTypeOK, Days
  <2>2. QED
    BY <1>3, <1>4, <2>1 DEF CommitRefused
<1>5. CASE Finish
  <2>1. jday \in Days /\ digest[jday] = "job"
    BY <1>5, RequestsAssumption, DigestBounds DEF Finish, DigestInv, MakersCommitted, DigestTypeOK, Days
  <2>2. QED
    BY <1>3, <1>5, <2>1 DEF Finish
<1>6. CASE JobRaises
  <2>1. dbFaults' # 0
    BY <1>6, DigestBounds DEF JobRaises, DigestInv, DigestTypeOK
  <2>2. QED
    BY <1>3, <1>6, <2>1 DEF JobRaises
<1>7. ServerStep => pending' \cup logs' \subseteq pending \cup logs
  BY DEF ServerStep, Start, Stop, Morning, Midnight, Fire,
     log,
         Skip, WakeLate, RunNow, Pause, Resume, Button
<1>8. WorkStep => \/ pending' \cup logs' \subseteq pending \cup logs
                  \/ CommitRefused \/ Finish \/ JobRaises
  BY DEF WorkStep, DigestJobStep, ReadHotspots, CommitDigest,
         Persist, PersistRaises, log
<1>9. AskStep => pending' \cup logs' \subseteq pending \cup logs
  BY DEF AskStep, RequestStep, Post, Check, CommitRequest, Answer,
         RequestRaises, RequestOnly, log
<1>10. QED
  BY <1>2, <1>4, <1>5, <1>6, <1>7, <1>8, <1>9

LEMMA DigestNextInv == DigestInv /\ [DigestNext]_digestVars => DigestInv'
<1> SUFFICES ASSUME DigestInv, [DigestNext]_digestVars PROVE DigestInv'
  OBVIOUS
<1>1. CASE DigestNext
  <2>1. ServerStep \/ WorkStep \/ AskStep
    BY <1>1, DigestSteps
  <2>2. DigestsStay
    BY <2>1, DigestsAreKept
  <2>3. DigestTypeOK'
    BY <2>1, ServerType, WorkType, AskType
  <2>4. DayBegins' /\ Scheduled' /\ PlainDaysAreServed' /\ MakersCommitted'
    BY <2>1, <2>2, DayBeginsKept, ScheduledKept, DaysServed, MakersKept
  <2>5. ReportsAreTrue'
    BY <2>1, <2>2, AnswersKept, LogsKept DEF ReportsAreTrue
  <2>6. QED
    BY <2>3, <2>4, <2>5 DEF DigestInv
<1>2. CASE UNCHANGED digestVars
  BY <1>2 DEF DigestInv, digestVars, clock, store, job, request,
     log,
              bounds, DigestTypeOK, DayBegins, Scheduled, PlainDaysAreServed, OnItsWay,
              MakersCommitted,
              ReportsAreTrue, AnswersAreTrue, LogsAreTrue
<1>3. QED
  BY <1>1, <1>2

(* The state of the scheduler, of the job and of the requests is as typed,  *)
(* for any number of days, requests, stops and faults.                      *)
THEOREM DigestTypeCorrect == DigestSpec => []DigestTypeOK
<1>1. DigestInv => DigestTypeOK
  BY DEF DigestInv
<1>2. QED
  BY <1>1, DigestInitInv, DigestNextInv, PTL DEF DigestSpec

(* A day is not over without a digest when the server was up at 08:00 and   *)
(* nobody and nothing came in the way of its job.                           *)
THEOREM PlainDaysAreDigested == DigestSpec => []PlainDaysHaveDigest
<1>1. DigestInv => PlainDaysHaveDigest
  BY RequestsAssumption, DigestBounds DEF DigestInv, PlainDaysAreServed, PlainDaysHaveDigest, DigestTypeOK, Days
<1>2. QED
  BY <1>1, DigestInitInv, DigestNextInv, PTL DEF DigestSpec

(* What a client is told of a digest, and what the log says of the job, is  *)
(* so, however the two raced.                                               *)
THEOREM DigestReportsAreTrue == DigestSpec => []ReportsAreTrue
<1>1. DigestInv => ReportsAreTrue
  BY DEF DigestInv
<1>2. QED
  BY <1>1, DigestInitInv, DigestNextInv, PTL DEF DigestSpec

=============================================================================
