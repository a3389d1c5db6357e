------------------------------- MODULE Settings -------------------------------
(***************************************************************************)
(* The settings of core/config.py: an object in each process and one file, *)
(* data/settings.json, that the server and the desktop sidecar share.      *)
(*                                                                         *)
(* A process reads the file when it builds its settings and at once writes *)
(* it back (the migration of old keys); a change is made in memory and     *)
(* then saved.  Both writes truncate the file first.  Secrets are masked   *)
(* on file and a masked value is never taken back, so a secret entered at  *)
(* run time lasts as long as the process.                                  *)
(***************************************************************************)
EXTENDS Naturals, FiniteSets

CONSTANTS
    Procs,    \* processes that share the file
    Desktop,  \* the sidecars among them: they rebuild the cached settings after a save
    Values,   \* contents of the fields that are not secret
    Default,  \* that of the environment and the built-in defaults
    MaxStops  \* times a process may end or be killed

ASSUME ProcsAssumption  == IsFiniteSet(Procs) /\ Desktop \subseteq Procs
ASSUME ValuesAssumption == Default \in Values
ASSUME StopsAssumption  == MaxStops \in Nat

VARIABLES
    file,    \* settings.json: there or not, or truncated; its fields
    mem,     \* mem[p]: the settings object that p edits
    raw,     \* raw[p]: what p read and will write back
    pc,      \* pc[p]: down, idle, or a step of building or saving the settings
    booted,  \* booted[p]: p has built its settings since it started
    cached,  \* cached[p]: get_settings has an object
    script,  \* the push script that settings may name is in place
    apart,   \* processes whose last write failed, or that refused the file (auxiliary)
    met,     \* processes that were ever up (auxiliary)
    stops

vars == <<file, mem, raw, pc, booted, cached, script, apart, met, stops>>

Fields  == [plain : Values, named : BOOLEAN]   \* named: wechat_send_script is set
OnFile  == {"absent", "masked", "clear"}       \* clear: a key from before the migration
Secrets == {"environment", "entered", "masked"}
Content == [state : {"none", "torn", "whole"}, fields : Fields, secret : OnFile]
Own     == [fields : Fields, secret : Secrets]
Env     == [fields |-> [plain |-> Default, named |-> FALSE], secret |-> "environment"]
Torn    == [state |-> "torn", fields |-> Env.fields, secret |-> "absent"]

\* Without a file, or with one of an earlier version, and nothing running.
Init ==
    /\ file \in {[state |-> "none",  fields |-> Env.fields, secret |-> "absent"]}
                \union [state : {"whole"}, fields : Fields, secret : {"clear"}]
    /\ mem = [p \in Procs |-> Env]
    /\ raw = [p \in Procs |-> Torn]
    /\ pc = [p \in Procs |-> "down"]
    /\ booted = [p \in Procs |-> FALSE]
    /\ cached = [p \in Procs |-> FALSE]
    /\ script = TRUE
    /\ apart = {}
    /\ met = {}
    /\ stops = 0

Go(p, to) == pc' = [pc EXCEPT ![p] = to]

(* ------------------------- building the settings ----------------------- *)

Start(p) ==
    /\ pc[p] = "down"
    /\ Go(p, "read")
    /\ met' = met \union {p}
    /\ UNCHANGED <<file, mem, raw, booted, cached, script, apart, stops>>

\* The sidecar dropped the cached object; the next pipeline asks for it.  It is
\* built anew beside the one the sidecar goes on editing.
Rebuild(p) ==
    /\ pc[p] = "idle" /\ ~cached[p]
    /\ Go(p, "read")
    /\ UNCHANGED <<file, mem, raw, booted, cached, script, apart, met, stops>>

\* model_post_init merges what was read into the defaults.  A script that is not
\* there makes update raise before it changes anything, and the error is logged.
Accepted(r) == ~r.fields.named \/ script

Merged(r) == [fields |-> r.fields,
              secret |-> IF r.secret = "clear" THEN "entered" ELSE "environment"]

\* The object is there: p edits the first one it built.
Built(p, own) ==
    /\ Go(p, "idle")
    /\ mem' = IF booted[p] THEN mem ELSE [mem EXCEPT ![p] = own]
    /\ booted' = [booted EXCEPT ![p] = TRUE]
    /\ cached' = [cached EXCEPT ![p] = TRUE]

\* No file, or one that is no JSON: the defaults, and the file stays as it is.
ReadNothing(p) ==
    /\ pc[p] = "read" /\ file.state # "whole"
    /\ Built(p, Env)
    /\ UNCHANGED <<file, raw, script, apart, met, stops>>

ReadFile(p) ==
    /\ pc[p] = "read" /\ file.state = "whole"
    /\ raw' = [raw EXCEPT ![p] = file]
    /\ Go(p, "write back")
    /\ UNCHANGED <<file, mem, booted, cached, script, apart, met, stops>>

\* _write_persisted opens the file, which truncates it.
OpenBack(p) ==
    /\ pc[p] = "write back"
    /\ file' = Torn
    /\ Go(p, "merge")
    /\ UNCHANGED <<mem, raw, booted, cached, script, apart, met, stops>>

\* With or without the write back, the settings are built from what was read.
BuiltFromRaw(p, kept) ==
    /\ Built(p, IF Accepted(raw[p]) THEN Merged(raw[p]) ELSE Env)
    /\ raw' = [raw EXCEPT ![p] = Torn]
    /\ apart' = IF kept /\ (Accepted(raw[p]) \/ booted[p]) THEN apart ELSE apart \union {p}

\* The file cannot be opened, and stays, or not be written, and stays truncated:
\* the error is logged.
WriteBackFails(p) ==
    /\ pc[p] \in {"write back", "merge"}
    /\ BuiltFromRaw(p, pc[p] = "write back")
    /\ UNCHANGED <<file, script, met, stops>>

MutWriteBack(p) ==
    /\ pc[p] = "merge"
    /\ file' = [raw[p] EXCEPT !.fields.named = FALSE]
    /\ BuiltFromRaw(p, TRUE)
    /\ UNCHANGED <<script, met, stops>>

\* What was read is written, but for masked secrets; then it is merged.
WriteBack(p) ==
    /\ pc[p] = "merge"
    /\ file' = [raw[p] EXCEPT !.secret = IF @ = "masked" THEN "absent" ELSE @]
    /\ BuiltFromRaw(p, TRUE)
    /\ UNCHANGED <<script, met, stops>>

(* -------------------------- change and save ---------------------------- *)

\* update: a script that is not there is refused, with nothing changed; an empty
\* or masked secret leaves the one in memory.
Update(p, f, s) ==
    /\ pc[p] = "idle"
    /\ f.named => script
    /\ mem' = [mem EXCEPT ![p] = [fields |-> f, secret |-> IF s = "masked" THEN @.secret ELSE s]]
    /\ Go(p, "save")
    /\ UNCHANGED <<file, raw, booted, cached, script, apart, met, stops>>

\* save opens the file, which truncates it.
OpenSave(p) ==
    /\ pc[p] = "save"
    /\ file' = Torn
    /\ Go(p, "saving")
    /\ UNCHANGED <<mem, raw, booted, cached, script, apart, met, stops>>

\* It cannot be opened or written: the request fails, the change stays in memory.
SaveFails(p) ==
    /\ pc[p] \in {"save", "saving"}
    /\ Go(p, "idle")
    /\ apart' = apart \union {p}
    /\ UNCHANGED <<file, mem, raw, booted, cached, script, met, stops>>

MutSave(p) ==
    /\ pc[p] = "saving"
    /\ file' = [state |-> "whole", fields |-> mem[p].fields,
                secret |-> IF mem[p].secret = "entered" THEN "clear" ELSE "masked"]
    /\ Go(p, "idle")
    /\ cached' = [cached EXCEPT ![p] = p \notin Desktop]
    /\ apart' = apart \ {p}
    /\ UNCHANGED <<mem, raw, booted, script, met, stops>>

\* Every field is written, secrets masked; an empty secret is left out.  The
\* sidecar then drops the cached object.
Save(p) ==
    /\ pc[p] = "saving"
    /\ \E s \in {"absent", "masked"} :
          /\ mem[p].secret = "entered" => s = "masked"
          /\ file' = [state |-> "whole", fields |-> mem[p].fields, secret |-> s]
    /\ Go(p, "idle")
    /\ cached' = [cached EXCEPT ![p] = p \notin Desktop]
    /\ apart' = apart \ {p}
    /\ UNCHANGED <<mem, raw, booted, script, met, stops>>

(* ----------------------------- environment ----------------------------- *)

\* p is stopped or killed, also between the truncation and the write.
Stop(p) ==
    /\ pc[p] # "down" /\ stops < MaxStops
    /\ Go(p, "down")
    /\ stops' = stops + 1
    /\ mem' = [mem EXCEPT ![p] = Env]
    /\ raw' = [raw EXCEPT ![p] = Torn]
    /\ booted' = [booted EXCEPT ![p] = FALSE]
    /\ cached' = [cached EXCEPT ![p] = FALSE]
    /\ apart' = apart \ {p}
    /\ UNCHANGED <<file, script, met>>

\* The user installs or removes the push script.
MoveScript ==
    /\ script' = ~script
    /\ UNCHANGED <<file, mem, raw, pc, booted, cached, apart, met, stops>>

(* ---------------------------- specification ---------------------------- *)

Build(p) ==
    \/ Start(p) \/ Rebuild(p) \/ ReadNothing(p) \/ ReadFile(p)
    \/ OpenBack(p) \/ WriteBackFails(p) \/ WriteBack(p)

Change(p) ==
    \/ \E f \in Fields, s \in {"entered", "masked"} : Update(p, f, s)
    \/ OpenSave(p) \/ SaveFails(p) \/ Save(p)

Next ==
    \/ \E p \in Procs : Build(p) \/ Change(p) \/ Stop(p)
    \/ MoveScript

Spec == Init /\ [][Next]_vars

(* ------------------------------ properties ----------------------------- *)

\* Types.
TypeOK ==
    /\ file \in Content
    /\ mem \in [Procs -> Own]
    /\ raw \in [Procs -> Content]
    /\ pc \in [Procs -> {"down", "read", "write back", "merge", "idle", "save", "saving"}]
    /\ booted \in [Procs -> BOOLEAN]
    /\ cached \in [Procs -> BOOLEAN]
    /\ script \in BOOLEAN
    /\ apart \subseteq Procs
    /\ met \subseteq Procs
    /\ stops \in 0..MaxStops

\* No process ever works with a masked secret, although every save puts one on
\* file and every start reads it back.
SecretsStayReal == \A p \in Procs : mem[p].secret # "masked"

\* A secret that once stood on file in clear, from before the migration, does not
\* come back there when it is gone and no process that read it has yet to write:
\* no save and no write-back puts one there.
Exposed == file.secret = "clear" \/ \E p \in Procs : raw[p].secret = "clear"

ClearNeverReturns == [][Exposed' => Exposed]_vars

\* As long as one process uses the file, it has in memory what is on file however
\* often it was killed and started again: a save that finished is what the next
\* start loads.  Apart from that are a write that failed, and a file that names a
\* script that is gone, which is refused as a whole; a file that was truncated
\* when the process was killed leaves the defaults.
AloneIsDurable ==
    Cardinality(met) <= 1 =>
        \A p \in Procs : pc[p] = "idle" /\ p \notin apart =>
            mem[p].fields = IF file.state = "whole" THEN file.fields ELSE Env.fields

=============================================================================
