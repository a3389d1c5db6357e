----------------------------- MODULE TaskPipeline -----------------------------
(***************************************************************************)
(* What one pipeline run of a task does between its first and its last     *)
(* status write: it chooses a pipeline and a parser for the URL, fetches   *)
(* the medium or the article, extracts the text, has it summarised, writes *)
(* two notes into the Obsidian vault and pushes to the channels            *)
(* (core/pipeline.py and the classes it calls).  The rows of the tasks     *)
(* table are the business of SidecarTasks, whose names this module leaves  *)
(* alone: the proofs of both stand in one module.                          *)
(*                                                                         *)
(* The runs of one process are coroutines.  A step of this module is what  *)
(* a run does between two awaits that can suspend it: yt-dlp, whisper and  *)
(* both note writes block the event loop, so other runs of the process do  *)
(* not move inside them.  Several sidecar processes (the application and   *)
(* the extension's native host start one each) share the download          *)
(* directory and the vault.                                                *)
(***************************************************************************)
EXTENDS Naturals, Sequences, FiniteSets

CONSTANTS
  Links,      (* tasks of the store, each of a link that was submitted     *)
  Procs,      (* sidecar processes                                         *)
  Urls,       (* URLs, each as the set of domain markers found in it       *)
  Slugs,      (* file names the titles of summaries are reduced to         *)
  Channels,   (* push strategies that are configured                       *)
  MaxSpawned, (* bound: pipeline runs ever spawned                         *)
  MaxDeaths   (* bound: deaths of a process                                *)

(* The markers in the order in which the chain of handlers asks for them.  *)
Handlers == << "youtube", "bilibili", "douyin", "xiaohongshu", "weixin", "rss" >>

(* The domain parsers in the order in which they are registered.           *)
Parsers == << "bilibili", "youtube", "douyin", "xiaohongshu" >>

Markers   == {Handlers[i] : i \in DOMAIN Handlers}
Platforms == {Parsers[i] : i \in DOMAIN Parsers}

ASSUME UrlsAssumption  == Urls \subseteq SUBSET Markers
ASSUME PipelineBounds  == MaxSpawned \in Nat /\ MaxDeaths \in Nat

VARIABLES
  url,        (* url[t]: the markers of the task's URL, NoUrl at first     *)
  link, home, (* task and process of a run                                 *)
  place,      (* where a run is                                            *)
  part, media,(* the task's .part file and its medium: an inode or NoFile  *)
  fd,         (* the inode a run is downloading into                       *)
  bytes,      (* bytes[i]: the runs whose bytes inode i holds              *)
  text,       (* text[r]: the transcript of a run                          *)
  slug,       (* slug[r]: the file name of its notes                       *)
  source,     (* source[f][s]: the run whose source note is in folder f    *)
  summary,    (* summary[s]: the run whose summary note has slug s         *)
  archived,   (* history: the notes a run wrote                            *)
  todo, sent, (* channels a run has still to push to, and has pushed to    *)
  shared,     (* history: tasks that had two runs at once                  *)
  spawned,    (* runs 1..spawned were spawned                              *)
  deaths

fileVars  == <<part, media, fd, bytes>>
vaultVars == <<source, summary, archived>>
pushVars  == <<todo, sent>>
spawnVars == <<url, link, home, shared, spawned>>
pipelineVars ==
  <<fileVars, vaultVars, pushVars, spawnVars, place, text, slug, deaths>>

PipelineRuns == 1..MaxSpawned
NoRun   == 0
NoFile  == 0
NoUrl   == {"no url"}
NoSlug  == "no slug"
NoLink  == "no task"
NoProc  == "no process"
Stopped == {"done", "failed", "killed"}
Working == {"new", "share", "download", "stream", "parse", "fetch", "extract",
            "summarize", "archive", "between", "notify"}
Folders == Platforms \union {"generic_video", "unknown"}

(* A URL is tested for the markers of each handler in turn; a URL that has *)
(* none is a generic article.                                              *)
FirstOf(order, u, none) ==
  LET hits == {i \in DOMAIN order : order[i] \in u}
  IN  IF hits = {} THEN none
      ELSE order[CHOOSE i \in hits : \A j \in hits : i <= j]

ContentType(u) == FirstOf(Handlers, u, "article")

(* The parser of a URL: a second test, in another order.                   *)
MutParserOf(u) == FirstOf(SelectSeq(Parsers, LAMBDA m : m # "bilibili"), u, "generic_video")

ParserOf(u) == FirstOf(Parsers, u, "generic_video")

(* Which pipeline a run uses.                                              *)
IsVideo(u) == ContentType(u) \in Platforms

(* The folder of the source note is named after the parser.  An extracted  *)
(* article has no platform.                                                *)
FolderOf(u) == IF IsVideo(u) THEN ParserOf(u) ELSE "unknown"

Url(r)    == url[link[r]]
Folder(r) == FolderOf(Url(r))
Live(r)   == place[r] \in Working

(* A run that is between its two note writes does not suspend.             *)
HasTurn(r) == \A q \in PipelineRuns \ {r} : home[q] = home[r] => place[q] # "between"

(* Where a run downloads to: a directory of the task, in which the file is *)
(* named after the title, so that the runs of a task share it.             *)
Dir(r) == link[r]

PipelineInit ==
  /\ url = [t \in Links |-> NoUrl]
  /\ link = [r \in PipelineRuns |-> NoLink] /\ home = [r \in PipelineRuns |-> NoProc]
  /\ place = [r \in PipelineRuns |-> "absent"]
  /\ part = [t \in Links |-> NoFile] /\ media = [t \in Links |-> NoFile]
  /\ fd = [r \in PipelineRuns |-> NoFile] /\ bytes = [i \in PipelineRuns |-> {}]
  /\ text = [r \in PipelineRuns |-> "none"] /\ slug = [r \in PipelineRuns |-> NoSlug]
  /\ source = [f \in Folders |-> [s \in Slugs |-> NoRun]]
  /\ summary = [s \in Slugs |-> NoRun]
  /\ archived = [r \in PipelineRuns |-> {}]
  /\ todo = [r \in PipelineRuns |-> {}] /\ sent = [r \in PipelineRuns |-> {}]
  /\ shared = [t \in Links |-> FALSE]
  /\ spawned = 0 /\ deaths = 0

-----------------------------------------------------------------------------
(* Spawning and routing *)

SpawnRun(t, p) ==
  /\ spawned < MaxSpawned
  /\ \A q \in PipelineRuns : home[q] = p => place[q] # "between"
  /\ spawned' = spawned + 1
  /\ link' = [link EXCEPT ![spawned + 1] = t]
  /\ home' = [home EXCEPT ![spawned + 1] = p]
  /\ place'   = [place EXCEPT ![spawned + 1] = "new"]
  /\ shared' = IF \E q \in PipelineRuns : link[q] = t /\ Live(q)
               THEN [shared EXCEPT ![t] = TRUE] ELSE shared
  /\ UNCHANGED <<fileVars, vaultVars, pushVars, text, slug, deaths>>

(* submit_url stores a task and spawns its first run.                      *)
SubmitUrl(t, p, u) ==
  /\ url[t] = NoUrl
  /\ url' = [url EXCEPT ![t] = u]
  /\ SpawnRun(t, p)

(* retry_task spawns another run whatever the task is doing.               *)
MutRetryTask(t, p) ==
  /\ SpawnRun(t, p)
  /\ UNCHANGED url

RetryTask(t, p) ==
  /\ url[t] # NoUrl
  /\ SpawnRun(t, p)
  /\ UNCHANGED url

(* The run is classified and enters the fetch stage of its pipeline.  Only *)
(* the Douyin parser brings a download of its own.                         *)
Classify(r) ==
  /\ place[r] = "new" /\ HasTurn(r)
  /\ place' = [place EXCEPT ![r] = IF IsVideo(Url(r)) /\ ParserOf(Url(r)) = "douyin"
                             THEN "share" ELSE "fetch"]
  /\ UNCHANGED <<fileVars, vaultVars, pushVars, spawnVars, text, slug, deaths>>

-----------------------------------------------------------------------------
(* Fetch *)

(* The share link is resolved, by the API or from the share page, to the   *)
(* item with the address of its video.                                     *)
ShareLink(r) ==
  /\ place[r] = "share" /\ HasTurn(r)
  /\ place' = [place EXCEPT ![r] = "download"]
  /\ UNCHANGED <<fileVars, vaultVars, pushVars, spawnVars, text, slug, deaths>>

(* The .part file of the task is opened for writing: an existing one is    *)
(* truncated, also under a run that is writing to it.                      *)
MutOpenPart(r) ==
  LET t == Dir(r)
      i == IF part[t] = NoFile THEN r ELSE part[t] IN
  /\ place[r] = "download" /\ HasTurn(r)
  /\ part'  = [part EXCEPT ![t] = i]
  /\ fd'    = [fd EXCEPT ![r] = i]
  /\ bytes' = [bytes EXCEPT ![i] = @ \union {r}]
  /\ place'    = [place EXCEPT ![r] = "stream"]
  /\ UNCHANGED <<media, vaultVars, pushVars, spawnVars, text, slug, deaths>>

OpenPart(r) ==
  LET t == Dir(r)
      i == IF part[t] = NoFile THEN r ELSE part[t] IN
  /\ place[r] = "download" /\ HasTurn(r)
  /\ part'  = [part EXCEPT ![t] = i]
  /\ fd'    = [fd EXCEPT ![r] = i]
  /\ bytes' = [bytes EXCEPT ![i] = {r}]
  /\ place'    = [place EXCEPT ![r] = "stream"]
  /\ UNCHANGED <<media, vaultVars, pushVars, spawnVars, text, slug, deaths>>

(* A chunk arrives.                                                        *)
WriteChunk(r) ==
  /\ place[r] = "stream" /\ HasTurn(r)
  /\ r \notin bytes[fd[r]]
  /\ bytes' = [bytes EXCEPT ![fd[r]] = @ \union {r}]
  /\ UNCHANGED <<part, media, fd, vaultVars, pushVars, spawnVars, place, text, slug, deaths>>

(* The stream is at its end: whatever file is at the .part path gets the   *)
(* final name.  If another run took it away, rename raises.                *)
RenamePart(r) ==
  LET t == Dir(r) IN
  /\ place[r] = "stream" /\ HasTurn(r)
  /\ part[t] # NoFile
  /\ media' = [media EXCEPT ![t] = part[t]]
  /\ part'  = [part EXCEPT ![t] = NoFile]
  /\ fd'    = [fd EXCEPT ![r] = NoFile]
  /\ place'    = [place EXCEPT ![r] = "parse"]
  /\ UNCHANGED <<bytes, vaultVars, pushVars, spawnVars, text, slug, deaths>>

(* yt-dlp downloads the medium.                                            *)
DownloadVideo(r) ==
  /\ place[r] = "fetch" /\ HasTurn(r) /\ IsVideo(Url(r))
  /\ place' = [place EXCEPT ![r] = "parse"]
  /\ UNCHANGED <<fileVars, vaultVars, pushVars, spawnVars, text, slug, deaths>>

(* The metadata: of the share link, resolved once more, or from yt-dlp.    *)
ParseMetadata(r) ==
  /\ place[r] = "parse" /\ HasTurn(r)
  /\ place' = [place EXCEPT ![r] = "extract"]
  /\ UNCHANGED <<fileVars, vaultVars, pushVars, spawnVars, text, slug, deaths>>

(* The page is requested and its text extracted.  A page that cannot be    *)
(* had is an article without text, not an error.                           *)
FetchArticle(r) ==
  /\ place[r] = "fetch" /\ HasTurn(r) /\ ~IsVideo(Url(r))
  /\ \E found \in {"text", "empty"} : text' = [text EXCEPT ![r] = found]
  /\ place' = [place EXCEPT ![r] = "extract"]
  /\ UNCHANGED <<fileVars, vaultVars, pushVars, spawnVars, slug, deaths>>

-----------------------------------------------------------------------------
(* Extraction and summary *)

(* The first strategy that is available for the platform, and the only one *)
(* that is asked.                                                          *)
Strategy(platform) ==
  IF platform = "bilibili" THEN "cc"
  ELSE IF platform \in {"youtube", "generic_video"} THEN "embedded" ELSE "whisper"

(* Subtitles that cannot be had are no text, not an error.                 *)
CcSubtitles       == {"text", "empty"}

EmbeddedSubtitles == {"text", "empty"}

(* What whisper hears: speech, if any, of the file at the final name.  A   *)
(* file of yt-dlp counts as whole.                                         *)
Heard(r) ==
  LET i == media[Dir(r)] IN
  {"empty", IF i = NoFile \/ bytes[i] = {r} THEN "text" ELSE "garbled"}

Found(r) ==
  LET strategy == Strategy(ParserOf(Url(r))) IN
  IF strategy = "cc" THEN CcSubtitles
  ELSE IF strategy = "embedded" THEN EmbeddedSubtitles ELSE Heard(r)

(* A strategy without a result is followed by a transcription, which is    *)
(* the second one if the strategy was whisper.                             *)
Transcripts(r) == (Found(r) \ {"empty"}) \union Heard(r)

ExtractText(r) ==
  /\ place[r] = "extract" /\ HasTurn(r) /\ IsVideo(Url(r))
  /\ \E found \in Transcripts(r) : text' = [text EXCEPT ![r] = found]
  /\ place' = [place EXCEPT ![r] = "summarize"]
  /\ UNCHANGED <<fileVars, vaultVars, pushVars, spawnVars, slug, deaths>>

(* The text of an article came with its page.                              *)
TakeText(r) ==
  /\ place[r] = "extract" /\ HasTurn(r) /\ ~IsVideo(Url(r))
  /\ place' = [place EXCEPT ![r] = "summarize"]
  /\ UNCHANGED <<fileVars, vaultVars, pushVars, spawnVars, text, slug, deaths>>

(* The model answers: the title of the summary becomes the file name of    *)
(* the notes.  A run without text is refused.                              *)
Summarize(r) ==
  /\ place[r] = "summarize" /\ HasTurn(r)
  /\ text[r] \notin {"none", "empty"}
  /\ \E s \in Slugs : slug' = [slug EXCEPT ![r] = s]
  /\ place' = [place EXCEPT ![r] = "archive"]
  /\ UNCHANGED <<fileVars, vaultVars, pushVars, spawnVars, text, deaths>>

-----------------------------------------------------------------------------
(* Archive and notification *)

(* The source note, then the summary note.  Both replace a note of the     *)
(* same name; the folder of summary notes is one for all platforms.        *)
MutWriteSource(r) ==
  /\ place[r] = "archive" /\ HasTurn(r)
  /\ IF source[Folder(r)][slug[r]] = NoRun
     THEN /\ source' = [source EXCEPT ![Folder(r)][slug[r]] = r]
          /\ archived' = [archived EXCEPT ![r] = @ \union {"source"}]
     ELSE UNCHANGED <<source, archived>>
  /\ place' = [place EXCEPT ![r] = "between"]
  /\ UNCHANGED <<summary, fileVars, pushVars, spawnVars, text, slug, deaths>>

WriteSource(r) ==
  /\ place[r] = "archive" /\ HasTurn(r)
  /\ source' = [source EXCEPT ![Folder(r)][slug[r]] = r]
  /\ archived' = [archived EXCEPT ![r] = @ \union {"source"}]
  /\ place' = [place EXCEPT ![r] = "between"]
  /\ UNCHANGED <<summary, fileVars, pushVars, spawnVars, text, slug, deaths>>

MutWriteSummary(r) ==
  /\ place[r] = "between" /\ HasTurn(r)
  /\ \/ /\ summary' = [summary EXCEPT ![slug[r]] = r]
        /\ archived' = [archived EXCEPT ![r] = @ \union {"summary"}]
     \/ UNCHANGED <<summary, archived>>
  /\ todo' = [todo EXCEPT ![r] = Channels]
  /\ place' = [place EXCEPT ![r] = "notify"]
  /\ UNCHANGED <<source, sent, fileVars, spawnVars, text, slug, deaths>>

WriteSummary(r) ==
  /\ place[r] = "between" /\ HasTurn(r)
  /\ summary' = [summary EXCEPT ![slug[r]] = r]
  /\ archived' = [archived EXCEPT ![r] = @ \union {"summary"}]
  /\ todo' = [todo EXCEPT ![r] = Channels]
  /\ place' = [place EXCEPT ![r] = "notify"]
  /\ UNCHANGED <<source, sent, fileVars, spawnVars, text, slug, deaths>>

(* write_text empties the file before it writes to it: a run stopped in    *)
(* the middle leaves a note of nobody's, whoever wrote the one before.     *)
BreakNote(r) ==
  \/ /\ place[r] = "archive"
     /\ source' = [source EXCEPT ![Folder(r)][slug[r]] = NoRun]
     /\ UNCHANGED <<summary, archived>>
  \/ /\ place[r] = "between"
     /\ summary' = [summary EXCEPT ![slug[r]] = NoRun]
     /\ UNCHANGED <<source, archived>>

(* A channel that fails is logged and passed over.                         *)
Push(r, c) ==
  /\ place[r] = "notify" /\ HasTurn(r)
  /\ c \in todo[r]
  /\ todo' = [todo EXCEPT ![r] = @ \ {c}]
  /\ sent' \in {sent, [sent EXCEPT ![r] = @ \union {c}]}
  /\ UNCHANGED <<fileVars, vaultVars, spawnVars, place, text, slug, deaths>>

(* The last events, success among them.                                    *)
Succeed(r) ==
  /\ place[r] = "notify" /\ HasTurn(r)
  /\ todo[r] = {}
  /\ place' = [place EXCEPT ![r] = "done"]
  /\ UNCHANGED <<fileVars, vaultVars, pushVars, spawnVars, text, slug, deaths>>

(* A stage raises, or a progress event around it does: the run announces   *)
(* its failure.  What it wrote stays; a note it was writing may be broken. *)
(* The pushes themselves do not raise.                                     *)
Raise(r) ==
  /\ place[r] \in Working /\ HasTurn(r)
  /\ place[r] = "notify" => todo[r] = {}
  /\ place' = [place EXCEPT ![r] = "failed"]
  /\ fd' = [fd EXCEPT ![r] = NoFile]
  /\ BreakNote(r) \/ UNCHANGED vaultVars
  /\ UNCHANGED <<part, media, bytes, pushVars, spawnVars, text, slug, deaths>>

(* A process dies with its runs, one of which may have been writing a      *)
(* note, and is started again.                                             *)
KillProcess(p) ==
  /\ deaths < MaxDeaths
  /\ deaths' = deaths + 1
  /\ place' = [r \in PipelineRuns |-> IF home[r] = p /\ Live(r) THEN "killed" ELSE place[r]]
  /\ fd' = [r \in PipelineRuns |-> IF home[r] = p THEN NoFile ELSE fd[r]]
  /\ \/ \E r \in PipelineRuns : home[r] = p /\ HasTurn(r) /\ BreakNote(r)
     \/ UNCHANGED vaultVars
  /\ UNCHANGED <<part, media, bytes, pushVars, spawnVars, text, slug>>

-----------------------------------------------------------------------------

(* The stages of a run, in the order of the template method.               *)
StageStep(r) ==
  \/ Classify(r)
  \/ ShareLink(r) \/ OpenPart(r) \/ WriteChunk(r) \/ RenamePart(r) \/ ParseMetadata(r)
  \/ DownloadVideo(r) \/ FetchArticle(r)
  \/ ExtractText(r) \/ TakeText(r) \/ Summarize(r)
  \/ WriteSource(r) \/ WriteSummary(r)
  \/ \E c \in Channels : Push(r, c)
  \/ Succeed(r) \/ Raise(r)

PipelineNext ==
  \/ \E t \in Links, p \in Procs : \/ RetryTask(t, p)
                                   \/ \E u \in Urls : SubmitUrl(t, p, u)
  \/ \E r \in PipelineRuns : StageStep(r)
  \/ \E p \in Procs : KillProcess(p)

PipelineSpec == PipelineInit /\ [][PipelineNext]_pipelineVars

-----------------------------------------------------------------------------
(* Type invariant: runs, files and notes refer to runs that were spawned.  *)
PipelineTypeOK ==
  /\ url \in [Links -> Urls \union {NoUrl}]
  /\ link \in [PipelineRuns -> Links \union {NoLink}] /\ home \in [PipelineRuns -> Procs \union {NoProc}]
  /\ place \in [PipelineRuns -> Working \union Stopped \union {"absent"}]
  /\ part \in [Links -> PipelineRuns \union {NoFile}] /\ media \in [Links -> PipelineRuns \union {NoFile}]
  /\ fd \in [PipelineRuns -> PipelineRuns \union {NoFile}] /\ bytes \in [PipelineRuns -> SUBSET PipelineRuns]
  /\ text \in [PipelineRuns -> {"none", "empty", "text", "garbled"}]
  /\ slug \in [PipelineRuns -> Slugs \union {NoSlug}]
  /\ source \in [Folders -> [Slugs -> PipelineRuns \union {NoRun}]]
  /\ summary \in [Slugs -> PipelineRuns \union {NoRun}]
  /\ archived \in [PipelineRuns -> SUBSET {"source", "summary"}]
  /\ todo \in [PipelineRuns -> SUBSET Channels] /\ sent \in [PipelineRuns -> SUBSET Channels]
  /\ shared \in [Links -> BOOLEAN]
  /\ spawned \in 0..MaxSpawned /\ deaths \in 0..MaxDeaths
  /\ \A r \in PipelineRuns : place[r] = "absent" <=> r > spawned
  /\ \A r \in PipelineRuns : place[r] # "absent" => link[r] \in Links /\ Url(r) # NoUrl
  /\ \A r \in PipelineRuns : fd[r] # NoFile <=> place[r] = "stream"

(* The two tables a URL is looked up in agree: a URL that names one video  *)
(* platform is classified as video and parsed by that platform's parser,   *)
(* and no video URL falls to the generic parser.                           *)
RouteAgrees ==
  \A r \in PipelineRuns : Live(r) =>
    /\ IsVideo(Url(r)) => ParserOf(Url(r)) # "generic_video"
    /\ \A m \in Platforms : Url(r) = {m} => FolderOf(Url(r)) = m

(* A run transcribes a file that also holds bytes of another download, or  *)
(* only of another one, only if two runs of the task were alive at once:   *)
(* what a dead run left behind is never part of a later transcript.        *)
GarbledNeedsOverlap ==
  \A r \in PipelineRuns : text[r] = "garbled" => shared[link[r]]

(* The note of a run in a place of the vault, or one that replaced it: of  *)
(* a run with the same file name that wrote it, or, if the note is broken, *)
(* such a run stopped before it had written it.                            *)
Kept(note, r, kind) ==
  \/ note = r
  \/ note \in PipelineRuns /\ slug[note] = slug[r] /\ kind \in archived[note]
  \/ /\ note = NoRun
     /\ \E q \in PipelineRuns \ {r} :
          /\ place[q] \in {"failed", "killed"} /\ kind \notin archived[q]
          /\ slug[q] = slug[r]
          /\ kind = "source" => Folder(q) = Folder(r)

(* A run that announced success or pushed a message had a text to work on  *)
(* (a page or a subtitle that cannot be had is not an error in itself),    *)
(* wrote both its notes, and its notes are lost only to a run of the same  *)
(* file name that replaced them or was stopped while it was replacing      *)
(* them.  A run that is refused or fails before that harms no note.        *)
AnnouncedIsArchived ==
  \A r \in PipelineRuns : place[r] = "done" \/ sent[r] # {} =>
    /\ text[r] \in {"text", "garbled"}
    /\ archived[r] = {"source", "summary"}
    /\ Kept(source[Folder(r)][slug[r]], r, "source")
    /\ Kept(summary[slug[r]], r, "summary")

(* A source note and a summary note of the same name and platform that     *)
(* come from two runs of one process betray a run that stopped between     *)
(* its two writes: never a run that went on to announce itself.            *)
TornPairIsUnannounced ==
  \A f \in Folders, s \in Slugs :
    LET a == source[f][s]
        b == summary[s] IN
    (a # NoRun /\ b # NoRun /\ a # b) =>
      ((Folder(b) = f /\ home[a] = home[b]) => (place[a] \notin {"notify", "done"} /\ sent[a] = {}))

=============================================================================
