----------------------------- MODULE HotspotSync -----------------------------
(***************************************************************************)
(* The hotspot sync (scheduler/jobs/hotspot_sync.py): the job that visits  *)
(* every active source in one session, manual syncs of single sources,     *)
(* the candidates they store (hotspot/service.py) and the events sent to   *)
(* the dashboards (web/sse.py).                                            *)
(*                                                                         *)
(* The scheduler runs one instance of a job id at a time: one actor for    *)
(* the job and one for the manual sync of each source.  A step is the code *)
(* between two awaits.  Rows that are flushed and not committed are in     *)
(* mine[a] and only a's own session sees them.                             *)
(***************************************************************************)
EXTENDS Integers, Sequences, FiniteSets

CONSTANTS
  NumSources,   (* sources 1..NumSources, in table order                   *)
  Manual,       (* the sources somebody syncs by hand                      *)
  Urls,         (* canonical urls                                          *)
  Clients,      (* dashboards                                              *)
  SseMax,       (* max_queue_size of a dashboard's queue (64 in the code)  *)
  MaxItems,     (* bound: items of a feed                                  *)
  MaxIds,       (* bound: hotspot ids ever made                            *)
  MaxFaults     (* bound: faults in an error handler and process ends      *)

ASSUME SourcesAssumption == NumSources \in Nat /\ Manual \subseteq 1..NumSources
ASSUME UrlsAssumption    == Urls # {}
ASSUME SseMaxAssumption  == SseMax \in Nat \ {0}
ASSUME SyncBounds        == /\ MaxItems \in Nat
                            /\ MaxIds \in Nat
                            /\ MaxFaults \in Nat

VARIABLES
  pc,       (* pc[a]: where actor a is                                     *)
  todo,     (* todo[a]: urls of the candidates a has yet to process        *)
  mine,     (* mine[a]: ids of the rows a has flushed                      *)
  src,      (* the source the job is at                                    *)
  listed,   (* the sources the job has yet to visit                        *)
  open,     (* the job's session is in a transaction                       *)
  expired,  (* the Source objects the job has yet to visit are expired     *)
  snap,     (* snap[s]: err[s] as the manual sync of s read it             *)
  err,      (* err[s]: last_error or failed_at of source s is set          *)
  stored,   (* ids of the committed hotspots                               *)
  urlOf,    (* urlOf[h]: canonical_url of hotspot h                        *)
  by,       (* by[h]: the actor that made hotspot h                        *)
  lastId,   (* hotspots 1..lastId were made, and announced, in this order  *)
  conn,     (* conn[c]: dashboard c is registered                          *)
  cq,       (* cq[c]: the queue of c, by hotspot id                        *)
  heard,    (* heard[c]: the newest id c received, or found when it came   *)
  faults

jobVars   == <<src, listed, open, expired>>
tableVars == <<stored, urlOf, by, lastId>>
sseVars   == <<conn, cq, heard>>
vars == <<pc, todo, mine, jobVars, snap, err, tableVars, sseVars, faults>>

Job     == 0
Sources == 1..NumSources
Actors  == Manual \union {Job}
Ids     == 1..MaxIds

(* What a fetch may return: collectors do not remove repeated urls.        *)
Feeds == UNION {[1..n -> Urls] : n \in 0..MaxItems}

Init ==
  /\ pc   = [a \in Actors |-> "idle"]
  /\ todo = [a \in Actors |-> << >>]
  /\ mine = [a \in Actors |-> {}]
  /\ src = Job /\ listed = {} /\ open = FALSE /\ expired = FALSE
  /\ snap = [s \in Manual |-> FALSE]
  /\ err  = [s \in Sources |-> FALSE]
  /\ stored = {} /\ lastId = 0
  /\ urlOf = [h \in Ids |-> CHOOSE u \in Urls : TRUE]
  /\ by    = [h \in Ids |-> Job]
  /\ conn  = [c \in Clients |-> FALSE]
  /\ cq    = [c \in Clients |-> << >>]
  /\ heard = [c \in Clients |-> 0]
  /\ faults = 0

SourceOf(a) == IF a = Job THEN src ELSE a

-----------------------------------------------------------------------------
(* sync_all_sources: the loop over the sources *)

(* The job's session is closed.                                            *)
EndJob == src' = Job /\ listed' = {} /\ open' = FALSE /\ expired' = FALSE

(* The job is due: one SELECT lists the active sources, whichever the      *)
(* users have switched on, and leaves the session in a transaction.        *)
JobTick(active) ==
  /\ pc[Job] = "idle"
  /\ pc' = [pc EXCEPT ![Job] = "next"]
  /\ listed' = active /\ open' = TRUE /\ expired' = FALSE
  /\ UNCHANGED <<todo, mine, src, snap, err, tableVars, sseVars, faults>>

JobNext(s) ==
  /\ pc[Job] = "next" /\ ~expired
  /\ s \in listed /\ \A t \in listed : s <= t
  /\ src' = s
  /\ listed' = listed \ {s}
  /\ pc' = [pc EXCEPT ![Job] = "fetch"]
  /\ UNCHANGED <<todo, mine, open, expired, snap, err, tableVars, sseVars, faults>>

(* source.id of an expired object needs a database call, which raises      *)
(* outside a greenlet; it is read before the try, so the job ends here.    *)
JobExpired ==
  /\ pc[Job] = "next" /\ expired /\ listed # {}
  /\ pc' = [pc EXCEPT ![Job] = "idle"]
  /\ EndJob
  /\ UNCHANGED <<todo, mine, snap, err, tableVars, sseVars, faults>>

JobDone ==
  /\ pc[Job] = "next" /\ listed = {}
  /\ pc' = [pc EXCEPT ![Job] = "idle"]
  /\ EndJob
  /\ UNCHANGED <<todo, mine, snap, err, tableVars, sseVars, faults>>

-----------------------------------------------------------------------------
(* sync_source_by_id: the manual sync of one source reads its row *)

SyncStart(s) ==
  /\ pc[s] = "idle"
  /\ pc'   = [pc EXCEPT ![s] = "fetch"]
  /\ snap' = [snap EXCEPT ![s] = err[s]]
  /\ UNCHANGED <<todo, mine, jobVars, err, tableVars, sseVars, faults>>

-----------------------------------------------------------------------------
(* What both do with a source: collector.fetch and process_candidates *)

Fetch(a, feed) ==
  /\ pc[a] = "fetch"
  /\ todo' = [todo EXCEPT ![a] = feed]
  /\ pc'   = [pc EXCEPT ![a] = "lookup"]
  /\ UNCHANGED <<mine, jobVars, snap, err, tableVars, sseVars, faults>>

(* Mutant: the lookup misses the rows of this batch. *)
MutRows(a, u) == {h \in stored : urlOf[h] = u}

(* The rows a's session sees for u: committed ones and its own.            *)
Rows(a, u) == {h \in stored \union mine[a] : urlOf[h] = u}

(* Every statement of the job begins a transaction if none is open.        *)
Begins(a) == open' = (open \/ a = Job)

LookupFound(a) ==
  /\ pc[a] = "lookup" /\ todo[a] # << >>
  /\ Cardinality(Rows(a, Head(todo[a]))) = 1
  /\ todo' = [todo EXCEPT ![a] = Tail(@)]
  /\ Begins(a)
  /\ UNCHANGED <<pc, mine, src, listed, expired, snap, err, tableVars, sseVars, faults>>

LookupAbsent(a) ==
  /\ pc[a] = "lookup" /\ todo[a] # << >>
  /\ Rows(a, Head(todo[a])) = {}
  /\ pc' = [pc EXCEPT ![a] = "analyze"]
  /\ Begins(a)
  /\ UNCHANGED <<todo, mine, src, listed, expired, snap, err, tableVars, sseVars, faults>>

(* Mutant: the candidate is looked up again. *)
MutLookupMultiple(a) ==
  /\ pc[a] = "lookup" /\ todo[a] # << >>
  /\ Cardinality(Rows(a, Head(todo[a]))) >= 2
  /\ Begins(a)
  /\ UNCHANGED <<pc, todo, mine, src, listed, expired, snap, err, tableVars, sseVars, faults>>

(* scalar_one_or_none raises MultipleResultsFound: the source has failed.  *)
LookupMultiple(a) ==
  /\ pc[a] = "lookup" /\ todo[a] # << >>
  /\ Cardinality(Rows(a, Head(todo[a]))) >= 2
  /\ pc' = [pc EXCEPT ![a] = "rollback"]
  /\ Begins(a)
  /\ UNCHANGED <<todo, mine, src, listed, expired, snap, err, tableVars, sseVars, faults>>

(* Mutant: a full queue drops the new event. *)
MutBroadcastNewest(h) ==
  cq' = [c \in Clients |->
           IF conn[c] /\ Len(cq[c]) < SseMax THEN Append(cq[c], h) ELSE cq[c]]

(* sse_manager.broadcast: a full queue drops its oldest event.             *)
Broadcast(h) ==
  cq' = [c \in Clients |->
           IF ~conn[c] THEN cq[c]
           ELSE IF Len(cq[c]) >= SseMax THEN Append(Tail(cq[c]), h)
           ELSE Append(cq[c], h)]

(* The analysis calls the candidate real: its row is flushed and announced *)
(* while nobody else can read it.                                          *)
Insert(a) ==
  /\ pc[a] = "analyze"
  /\ lastId < MaxIds
  /\ lastId' = lastId + 1
  /\ urlOf' = [urlOf EXCEPT ![lastId + 1] = Head(todo[a])]
  /\ by'    = [by EXCEPT ![lastId + 1] = a]
  /\ mine'  = [mine EXCEPT ![a] = @ \union {lastId + 1}]
  /\ todo'  = [todo EXCEPT ![a] = Tail(@)]
  /\ pc'    = [pc EXCEPT ![a] = "lookup"]
  /\ Broadcast(lastId + 1)
  /\ UNCHANGED <<jobVars, snap, err, stored, conn, heard, faults>>

AnalyzeNotReal(a) ==
  /\ pc[a] = "analyze"
  /\ todo' = [todo EXCEPT ![a] = Tail(@)]
  /\ pc'   = [pc EXCEPT ![a] = "lookup"]
  /\ UNCHANGED <<mine, jobVars, snap, err, tableVars, sseVars, faults>>

(* All candidates are done: the one commit of process_candidates.  The job *)
(* goes on to the next source and does not touch this one's row.           *)
Commit(a) ==
  /\ pc[a] = "lookup" /\ todo[a] = << >>
  /\ stored' = stored \union mine[a]
  /\ mine'   = [mine EXCEPT ![a] = {}]
  /\ open'   = (open /\ a # Job)
  /\ pc'     = [pc EXCEPT ![a] = IF a = Job THEN "next" ELSE "mark"]
  /\ UNCHANGED <<todo, src, listed, expired, snap, err, urlOf, by, lastId, sseVars, faults>>

(* A manual sync sets last_error and failed_at to None.  The session only  *)
(* writes a column whose value differs from the one it read.               *)
Mark(s) ==
  /\ pc[s] = "mark"
  /\ err' = [err EXCEPT ![s] = @ /\ ~snap[s]]
  /\ pc'  = [pc EXCEPT ![s] = "idle"]
  /\ UNCHANGED <<todo, mine, jobVars, snap, tableVars, sseVars, faults>>

-----------------------------------------------------------------------------
(* Failures *)

(* The collector, the analysis or a database call raises inside the try.   *)
Raises(a) ==
  /\ pc[a] \in {"fetch", "lookup", "analyze", "mark"}
  /\ pc' = [pc EXCEPT ![a] = "rollback"]
  /\ open' = (open \/ (a = Job /\ pc[a] = "lookup" /\ todo[a] # << >>))
  /\ UNCHANGED <<todo, mine, src, listed, expired, snap, err, tableVars, sseVars, faults>>

(* The handler rolls back, which expires every object of a session that is *)
(* in a transaction, and reads the failed source again.                    *)
Rollback(a) ==
  /\ pc[a] = "rollback"
  /\ mine' = [mine EXCEPT ![a] = {}]
  /\ todo' = [todo EXCEPT ![a] = << >>]
  /\ expired' = (expired \/ (a = Job /\ open))
  /\ pc' = [pc EXCEPT ![a] = "save"]
  /\ UNCHANGED <<src, listed, open, snap, err, tableVars, sseVars, faults>>

SaveError(a) ==
  /\ pc[a] = "save"
  /\ err'  = [err EXCEPT ![SourceOf(a)] = TRUE]
  /\ open' = (open /\ a # Job)
  /\ pc'   = [pc EXCEPT ![a] = IF a = Job THEN "next" ELSE "idle"]
  /\ UNCHANGED <<todo, mine, src, listed, expired, snap, tableVars, sseVars, faults>>

(* The commit of the error raises and is only logged.  If the UPDATE was   *)
(* what failed, the session has rolled back once more.                     *)
SaveFails(a) ==
  /\ pc[a] = "save" /\ faults < MaxFaults
  /\ faults' = faults + 1
  /\ open' = (open /\ a # Job)
  /\ expired' \in {expired, expired \/ a = Job}
  /\ pc' = [pc EXCEPT ![a] = IF a = Job THEN "next" ELSE "idle"]
  /\ UNCHANGED <<todo, mine, src, listed, snap, err, tableVars, sseVars>>

(* The rollback or the read raises inside the handler: the sync ends, and  *)
(* its session with it.                                                    *)
HandlerRaises(a) ==
  /\ pc[a] = "rollback" /\ faults < MaxFaults
  /\ faults' = faults + 1
  /\ mine' = [mine EXCEPT ![a] = {}]
  /\ todo' = [todo EXCEPT ![a] = << >>]
  /\ pc' = [pc EXCEPT ![a] = "idle"]
  /\ IF a = Job THEN EndJob ELSE UNCHANGED jobVars
  /\ UNCHANGED <<snap, err, tableVars, sseVars>>

(* The process ends: sessions and dashboards' queues are gone.             *)
Crash ==
  /\ faults < MaxFaults
  /\ faults' = faults + 1
  /\ pc'   = [a \in Actors |-> "idle"]
  /\ todo' = [a \in Actors |-> << >>]
  /\ mine' = [a \in Actors |-> {}]
  /\ EndJob
  /\ conn'  = [c \in Clients |-> FALSE]
  /\ cq'    = [c \in Clients |-> << >>]
  /\ heard' = [c \in Clients |-> 0]
  /\ UNCHANGED <<snap, err, tableVars>>

-----------------------------------------------------------------------------
(* GET /sse/hotspots: a dashboard registers, receives events and leaves *)

Connect(c) ==
  /\ ~conn[c]
  /\ conn'  = [conn EXCEPT ![c] = TRUE]
  /\ cq'    = [cq EXCEPT ![c] = << >>]
  /\ heard' = [heard EXCEPT ![c] = lastId]
  /\ UNCHANGED <<pc, todo, mine, jobVars, snap, err, tableVars, faults>>

Deliver(c) ==
  /\ conn[c] /\ cq[c] # << >>
  /\ heard' = [heard EXCEPT ![c] = Head(cq[c])]
  /\ cq'    = [cq EXCEPT ![c] = Tail(@)]
  /\ UNCHANGED <<pc, todo, mine, jobVars, snap, err, tableVars, conn, faults>>

Disconnect(c) ==
  /\ conn[c]
  /\ conn'  = [conn EXCEPT ![c] = FALSE]
  /\ cq'    = [cq EXCEPT ![c] = << >>]
  /\ heard' = [heard EXCEPT ![c] = 0]
  /\ UNCHANGED <<pc, todo, mine, jobVars, snap, err, tableVars, faults>>

-----------------------------------------------------------------------------
SyncStep(a) ==
  \/ \E feed \in Feeds : Fetch(a, feed)
  \/ LookupFound(a) \/ LookupAbsent(a) \/ LookupMultiple(a)
  \/ Insert(a) \/ AnalyzeNotReal(a) \/ Commit(a)
  \/ (a \in Manual /\ Mark(a))
  \/ Rollback(a) \/ SaveError(a)

JobStep == (\E s \in Sources : JobNext(s)) \/ JobExpired \/ JobDone

Next ==
  \/ \E active \in SUBSET Sources : JobTick(active)
  \/ JobStep
  \/ \E s \in Manual : SyncStart(s)
  \/ \E a \in Actors : SyncStep(a) \/ Raises(a) \/ SaveFails(a) \/ HandlerRaises(a)
  \/ Crash
  \/ \E c \in Clients : Connect(c) \/ Deliver(c) \/ Disconnect(c)

Spec == Init /\ [][Next]_vars

(* The event loop resumes a sync whose fetch, analysis or database call    *)
(* has ended, and a dashboard's generator that has an event.               *)
Fairness == /\ WF_vars(JobStep)
            /\ \A a \in Actors : WF_vars(SyncStep(a))
            /\ \A c \in Clients : WF_vars(Deliver(c))

FairSpec == Spec /\ Fairness

-----------------------------------------------------------------------------
(* Type invariant *)

SyncPc == {"idle", "next", "fetch", "lookup", "analyze", "mark", "rollback", "save"}

(* Every variable has its type; no dashboard's queue outgrows its maxsize. *)
TypeOK ==
  /\ pc   \in [Actors -> SyncPc]
  /\ todo \in [Actors -> Seq(Urls)]
  /\ mine \in [Actors -> SUBSET (1..lastId)]
  /\ src \in Sources \union {Job} /\ listed \in SUBSET Sources
  /\ open \in BOOLEAN /\ expired \in BOOLEAN
  /\ snap \in [Manual -> BOOLEAN]
  /\ err  \in [Sources -> BOOLEAN]
  /\ stored \in SUBSET (1..lastId)
  /\ urlOf \in [Ids -> Urls]
  /\ by    \in [Ids -> Actors]
  /\ lastId \in 0..MaxIds
  /\ conn  \in [Clients -> BOOLEAN]
  /\ cq    \in [Clients -> Seq(Ids)]
  /\ \A c \in Clients : Len(cq[c]) <= SseMax
  /\ heard \in [Clients -> 0..lastId]
  /\ faults \in 0..MaxFaults

-----------------------------------------------------------------------------
(* Safety *)

(* A url is stored twice only by two syncs that overlap: neither the job,  *)
(* over all its runs and sources, nor the manual sync of a source ever     *)
(* stores a url it has stored before, also when its feed repeats it.       *)
OneCopyPerSync ==
  \A h, k \in stored : urlOf[h] = urlOf[k] /\ by[h] = by[k] => h = k

(* Dropping the oldest event costs a dashboard nothing that matters: what  *)
(* it has not heard is in its queue in order, and the queue ends with the  *)
(* newest hotspot, so it fetches again after every change it was told of.  *)
EventsKept ==
  \A c \in Clients : conn[c] =>
    /\ \A i \in DOMAIN cq[c] : heard[c] < cq[c][i]
    /\ \A i, k \in DOMAIN cq[c] : i < k => cq[c][i] < cq[c][k]
    /\ IF cq[c] = << >> THEN heard[c] = lastId ELSE cq[c][Len(cq[c])] = lastId

-----------------------------------------------------------------------------
(* Liveness, under FairSpec *)

(* A sync that runs ends, whatever its source serves and whatever other    *)
(* syncs have stored: no run of the job keeps the next one from starting.  *)
SyncsEnd == \A a \in Actors : pc[a] # "idle" ~> pc[a] = "idle"

=============================================================================
