---------------------------- MODULE SettingsProofs ----------------------------
(***************************************************************************)
(* Proofs about Settings, for any number of processes, values and stops:   *)
(* TypeOK, SecretsStayReal, ClearNeverReturns and AloneIsDurable.          *)
(*                                                                         *)
(* The first three hold step by step.  AloneIsDurable needs what a process *)
(* that is alone knows at every step of building its settings: what it     *)
(* read is what was on file, and an object built earlier agrees with it.   *)
(***************************************************************************)
EXTENDS Settings, FiniteSetTheorems, TLAPS

Steps == {"down", "read", "write back", "merge", "idle", "save", "saving"}

(* Only processes that were up are, and only those up have built anything. *)
Known == \A p \in Procs : /\ p \notin met => pc[p] = "down"
                          /\ pc[p] = "down" => ~booted[p]
                          /\ pc[p] \in {"idle", "save", "saving"} => booted[p]

Alone == \A p, q \in met : p = q

Loaded == IF file.state = "whole" THEN file.fields ELSE Env.fields

(* What p, alone and with no failed write behind it, has read and built. *)
InStep(p) ==
    /\ booted[p] /\ pc[p] \in {"idle", "read"} => mem[p].fields = Loaded
    /\ pc[p] = "write back" => raw[p] = file
    /\ pc[p] \in {"write back", "merge"} =>
          raw[p].state = "whole" /\ (booted[p] => mem[p].fields = raw[p].fields)

Solo == Alone => \A p \in Procs \ apart : InStep(p)

IInv == TypeOK /\ SecretsStayReal /\ Known /\ Solo

-----------------------------------------------------------------------------
LEMMA Records ==
  /\ Env \in Own /\ Torn \in Content
  /\ Env.secret # "masked"
  /\ \A r \in Content : Merged(r) \in Own /\ Merged(r).secret # "masked"
                        /\ Merged(r).fields = r.fields
BY ValuesAssumption DEF Env, Torn, Own, Content, Fields, OnFile, Secrets, Merged

LEMMA InitIInv == Init => IInv
<1> SUFFICES ASSUME Init PROVE IInv
  OBVIOUS
<1>1. file \in Content
  <2>1. CASE file = [state |-> "none", fields |-> Env.fields, secret |-> "absent"]
    BY <2>1, ValuesAssumption DEF Content, Env, Fields, OnFile
  <2>2. CASE file \in [state : {"whole"}, fields : Fields, secret : {"clear"}]
    BY <2>2 DEF Content, OnFile
  <2>3. QED
    BY <2>1, <2>2 DEF Init
<1>2. TypeOK
  BY <1>1, Records, StopsAssumption DEF Init, TypeOK
<1>3. SecretsStayReal /\ Known
  BY Records DEF Init, SecretsStayReal, Known
<1>4. Solo
  BY DEF Init, Solo, InStep
<1>5. QED
  BY <1>2, <1>3, <1>4 DEF IInv

-----------------------------------------------------------------------------
(* Types, and real secrets *)

(* Building an object from a real one keeps both. *)
LEMMA BuiltType ==
  ASSUME TypeOK, SecretsStayReal, NEW p \in Procs, NEW own \in Own,
         own.secret # "masked", Built(p, own)
  PROVE  /\ pc' \in [Procs -> Steps]
         /\ mem' \in [Procs -> Own]
         /\ booted' \in [Procs -> BOOLEAN] /\ cached' \in [Procs -> BOOLEAN]
         /\ SecretsStayReal'
BY DEF TypeOK, SecretsStayReal, Built, Go, Steps

LEMMA RawType ==
  ASSUME TypeOK, SecretsStayReal, NEW p \in Procs, NEW kept \in BOOLEAN, BuiltFromRaw(p, kept)
  PROVE  /\ pc' \in [Procs -> Steps]
         /\ mem' \in [Procs -> Own]
         /\ booted' \in [Procs -> BOOLEAN] /\ cached' \in [Procs -> BOOLEAN]
         /\ raw' \in [Procs -> Content] /\ apart' \subseteq Procs
         /\ SecretsStayReal'
<1>1. PICK own : own \in Own /\ own.secret # "masked" /\ Built(p, own)
  BY Records DEF BuiltFromRaw, TypeOK
<1>2. raw' \in [Procs -> Content] /\ apart' \subseteq Procs
  BY Records DEF BuiltFromRaw, TypeOK
<1>3. QED
  BY <1>1, <1>2, BuiltType

LEMMA BuildType ==
  ASSUME TypeOK, SecretsStayReal, NEW p \in Procs, Build(p)
  PROVE  TypeOK' /\ SecretsStayReal'
<1>1. CASE Start(p) \/ Rebuild(p) \/ ReadFile(p) \/ OpenBack(p)
  BY <1>1, Records DEF Start, Rebuild, ReadFile, OpenBack, Go, TypeOK, SecretsStayReal
<1>2. CASE ReadNothing(p)
  <2>1. Built(p, Env)
    BY <1>2 DEF ReadNothing
  <2>2. QED
    BY <1>2, <2>1, BuiltType, Records DEF ReadNothing, TypeOK, Steps
<1>3. CASE WriteBackFails(p)
  <2>1. PICK kept \in BOOLEAN : BuiltFromRaw(p, kept)
    BY <1>3 DEF WriteBackFails
  <2>2. QED
    BY <1>3, <2>1, RawType DEF WriteBackFails, TypeOK, Steps
<1>4. CASE WriteBack(p)
  <2>1. file' \in Content
    BY <1>4 DEF WriteBack, TypeOK, Content, OnFile
  <2>2. BuiltFromRaw(p, TRUE)
    BY <1>4 DEF WriteBack
  <2>3. QED
    BY <1>4, <2>1, <2>2, RawType DEF WriteBack, TypeOK, Steps
<1>5. QED
  BY <1>1, <1>2, <1>3, <1>4 DEF Build

LEMMA ChangeType ==
  ASSUME TypeOK, SecretsStayReal, NEW p \in Procs, Change(p)
  PROVE  TypeOK' /\ SecretsStayReal'
<1>1. ASSUME NEW f \in Fields, NEW s \in {"entered", "masked"}, Update(p, f, s)
      PROVE  TypeOK' /\ SecretsStayReal'
  <2>1. [fields |-> f, secret |-> IF s = "masked" THEN mem[p].secret ELSE s] \in Own
    BY DEF TypeOK, Own, Secrets
  <2>2. QED
    BY <1>1, <2>1 DEF Update, Go, TypeOK, SecretsStayReal
<1>2. CASE OpenSave(p) \/ SaveFails(p)
  BY <1>2, Records DEF OpenSave, SaveFails, Go, TypeOK, SecretsStayReal
<1>3. CASE Save(p)
  <2>1. file' \in Content
    <3>1. PICK s \in {"absent", "masked"} :
                file' = [state |-> "whole", fields |-> mem[p].fields, secret |-> s]
      BY <1>3 DEF Save
    <3>2. mem[p].fields \in Fields
      BY DEF TypeOK, Own
    <3>3. QED
      BY <3>1, <3>2 DEF Content, OnFile
  <2>2. QED
    BY <1>3, <2>1 DEF Save, Go, TypeOK, SecretsStayReal
<1>4. QED
  BY <1>1, <1>2, <1>3 DEF Change

LEMMA OutsideType ==
  ASSUME TypeOK, SecretsStayReal, MoveScript \/ \E p \in Procs : Stop(p)
  PROVE  TypeOK' /\ SecretsStayReal'
<1>1. CASE MoveScript
  BY <1>1 DEF MoveScript, TypeOK, SecretsStayReal
<1>2. ASSUME NEW p \in Procs, Stop(p) PROVE TypeOK' /\ SecretsStayReal'
  <2>1. stops' \in 0..MaxStops
    <3>1. stops \in 0..MaxStops
      BY DEF TypeOK
    <3>2. stops < MaxStops /\ stops' = stops + 1
      BY <1>2 DEF Stop
    <3>3. QED
      BY <3>1, <3>2, StopsAssumption
  <2>2. QED
    BY <1>2, <2>1, Records DEF Stop, Go, TypeOK, SecretsStayReal
<1>3. QED
  BY <1>1, <1>2

-----------------------------------------------------------------------------
(* One process alone *)

LEMMA KnownKept ==
  ASSUME TypeOK, Known, [Next]_vars
  PROVE  Known'
<1>1. ASSUME NEW p \in Procs, Build(p) PROVE Known'
  <2>1. CASE Start(p)
    BY <2>1 DEF Start, Go, TypeOK, Known
  <2>2. CASE Rebuild(p) \/ ReadFile(p) \/ OpenBack(p)
    BY <2>2 DEF Rebuild, ReadFile, OpenBack, Go, TypeOK, Known
  <2>3. CASE ReadNothing(p) \/ WriteBackFails(p) \/ WriteBack(p)
    <3>1. /\ Go(p, "idle") /\ booted' = [booted EXCEPT ![p] = TRUE]
          /\ UNCHANGED met /\ pc[p] # "down"
      BY <2>3 DEF ReadNothing, WriteBackFails, WriteBack, BuiltFromRaw, Built
    <3>2. QED
      BY <3>1 DEF Go, TypeOK, Known
  <2>4. QED
    BY <1>1, <2>1, <2>2, <2>3 DEF Build
<1>2. ASSUME NEW p \in Procs, Change(p) PROVE Known'
  <2>1. pc[p] # "down" /\ UNCHANGED <<met, booted>>
    BY <1>2 DEF Change, Update, OpenSave, SaveFails, Save
  <2>2. PICK to \in {"save", "saving", "idle"} : Go(p, to)
    BY <1>2 DEF Change, Update, OpenSave, SaveFails, Save
  <2>3. pc[p] \in {"idle", "save", "saving"}
    BY <1>2 DEF Change, Update, OpenSave, SaveFails, Save
  <2>4. booted[p]
    BY <2>3 DEF Known
  <2>5. QED
    BY <2>1, <2>2, <2>4 DEF Go, TypeOK, Known
<1>3. ASSUME NEW p \in Procs, Stop(p) PROVE Known'
  BY <1>3 DEF Stop, Go, TypeOK, Known
<1>4. CASE MoveScript \/ UNCHANGED vars
  BY <1>4 DEF MoveScript, vars, Known
<1>5. QED
  BY <1>1, <1>2, <1>3, <1>4 DEF Next

(* If p steps and is still alone, then it was, and no other process is up:  *)
(* it is enough to look at p itself.                                        *)
LEMMA SoloStep ==
  ASSUME TypeOK, Known', NEW p \in Procs, p \in met', met \subseteq met',
         (p \notin apart' /\ (p \in apart \/ InStep(p))) => InStep(p)',
         Solo
  PROVE  Solo'
<1> SUFFICES ASSUME Alone', NEW q \in Procs, q \notin apart' PROVE InStep(q)'
  BY DEF Solo
<1>1. Alone
  BY DEF Alone
<1>2. CASE q = p
  BY <1>1, <1>2 DEF Solo
<1>3. CASE q # p
  <2>1. q \notin met'
    BY <1>3 DEF Alone
  <2>2. pc'[q] = "down" /\ ~booted'[q]
    BY <2>1 DEF Known
  <2>3. QED
    BY <2>2 DEF InStep
<1>4. QED
  BY <1>2, <1>3

LEMMA BuildSolo ==
  ASSUME TypeOK, Known, Known', Solo, NEW p \in Procs, Build(p)
  PROVE  Solo'
<1>1. p \in met' /\ met \subseteq met'
  BY DEF Build, Start, Rebuild, ReadNothing, ReadFile, OpenBack, WriteBackFails, WriteBack, Known
<1>2. ASSUME p \notin apart', p \in apart \/ InStep(p) PROVE InStep(p)'
  <2>1. CASE Start(p)
    BY <2>1 DEF Start, Go, TypeOK, Known, InStep
  <2>2. CASE Rebuild(p)
    BY <1>2, <2>2 DEF Rebuild, Go, TypeOK, InStep, Loaded
  <2>3. CASE ReadNothing(p)
    <3>1. Loaded' = Env.fields /\ Loaded = Env.fields
      BY <2>3 DEF ReadNothing, Loaded
    <3>2. mem'[p].fields = Env.fields
      BY <1>2, <2>3, <3>1 DEF ReadNothing, Built, TypeOK, InStep
    <3>3. pc'[p] = "idle"
      BY <2>3 DEF ReadNothing, Built, Go, TypeOK
    <3>4. QED
      BY <3>1, <3>2, <3>3 DEF InStep
  <2>4. CASE ReadFile(p)
    BY <1>2, <2>4 DEF ReadFile, Go, TypeOK, InStep, Loaded
  <2>5. CASE OpenBack(p)
    BY <1>2, <2>5 DEF OpenBack, Go, TypeOK, InStep
  <2>6. ASSUME NEW kept \in BOOLEAN, BuiltFromRaw(p, kept), pc[p] \in {"write back", "merge"},
               file'.state = "whole", file'.fields = raw[p].fields
        PROVE  InStep(p)'
    <3>1. pc'[p] = "idle"
      BY <2>6 DEF BuiltFromRaw, Built, Go, TypeOK
    <3>2. p \notin apart /\ InStep(p) /\ (booted[p] \/ Accepted(raw[p]))
      BY <1>2, <2>6 DEF BuiltFromRaw
    <3>3. CASE booted[p]
      <4>1. mem'[p].fields = raw[p].fields
        BY <2>6, <3>2, <3>3 DEF BuiltFromRaw, Built, InStep
      <4>2. QED
        BY <2>6, <3>1, <4>1 DEF InStep, Loaded
    <3>4. CASE ~booted[p]
      <4>1. mem'[p] = Merged(raw[p]) /\ raw[p] \in Content
        BY <2>6, <3>2, <3>4 DEF BuiltFromRaw, Built, TypeOK
      <4>2. QED
        BY <2>6, <3>1, <4>1, Records DEF InStep, Loaded
    <3>5. QED
      BY <3>3, <3>4
  <2>7. CASE WriteBackFails(p)
    <3>1. pc[p] = "write back" /\ p \notin apart
      BY <1>2, <2>7 DEF WriteBackFails, BuiltFromRaw
    <3>2. raw[p] = file /\ file' = file /\ raw[p].state = "whole"
      BY <1>2, <2>7, <3>1 DEF WriteBackFails, InStep
    <3>3. BuiltFromRaw(p, TRUE)
      BY <2>7, <3>1 DEF WriteBackFails
    <3>4. QED
      BY <2>6, <3>1, <3>2, <3>3
  <2>8. CASE WriteBack(p)
    <3>1. BuiltFromRaw(p, TRUE) /\ pc[p] = "merge"
      BY <2>8 DEF WriteBack
    <3>2. p \notin apart
      BY <1>2, <3>1 DEF BuiltFromRaw
    <3>3. raw[p].state = "whole" /\ raw[p] \in Content
      BY <1>2, <3>1, <3>2 DEF InStep, TypeOK
    <3>4. file'.state = "whole" /\ file'.fields = raw[p].fields
      BY <2>8, <3>3 DEF WriteBack, Content
    <3>5. QED
      BY <2>6, <3>1, <3>4
  <2>9. QED
    BY <2>1, <2>2, <2>3, <2>4, <2>5, <2>7, <2>8 DEF Build
<1>3. QED
  BY <1>1, <1>2, SoloStep

LEMMA ChangeSolo ==
  ASSUME TypeOK, Known, Known', Solo, NEW p \in Procs, Change(p)
  PROVE  Solo'
<1>1. p \in met' /\ met \subseteq met'
  BY DEF Change, Update, OpenSave, SaveFails, Save, Known
<1>2. ASSUME p \notin apart' PROVE InStep(p)'
  <2>1. CASE \E f \in Fields, s \in {"entered", "masked"} : Update(p, f, s)
    BY <2>1 DEF Update, Go, TypeOK, InStep
  <2>2. CASE OpenSave(p) \/ SaveFails(p)
    BY <1>2, <2>2 DEF OpenSave, SaveFails, Go, TypeOK, InStep
  <2>3. CASE Save(p)
    <3>1. pc'[p] = "idle" /\ mem' = mem
      BY <2>3 DEF Save, Go, TypeOK
    <3>2. PICK s \in {"absent", "masked"} :
                file' = [state |-> "whole", fields |-> mem[p].fields, secret |-> s]
      BY <2>3 DEF Save
    <3>3. file'.state = "whole" /\ file'.fields = mem[p].fields
      BY <3>2
    <3>4. QED
      BY <3>1, <3>3 DEF InStep, Loaded
  <2>4. QED
    BY <2>1, <2>2, <2>3 DEF Change
<1>3. QED
  BY <1>1, <1>2, SoloStep

LEMMA StopSolo ==
  ASSUME TypeOK, Known, Known', Solo, NEW p \in Procs, Stop(p)
  PROVE  Solo'
<1>1. p \in met' /\ met \subseteq met'
  BY DEF Stop, Known
<1>2. InStep(p)'
  BY DEF Stop, Go, TypeOK, InStep
<1>3. QED
  BY <1>1, <1>2, SoloStep

LEMMA NextIInv == IInv /\ [Next]_vars => IInv'
<1> SUFFICES ASSUME IInv, [Next]_vars PROVE IInv'
  OBVIOUS
<1>1. Known'
  BY KnownKept DEF IInv
<1>2. ASSUME NEW p \in Procs, Build(p) PROVE IInv'
  BY <1>1, <1>2, BuildType, BuildSolo DEF IInv
<1>3. ASSUME NEW p \in Procs, Change(p) PROVE IInv'
  BY <1>1, <1>3, ChangeType, ChangeSolo DEF IInv
<1>4. ASSUME NEW p \in Procs, Stop(p) PROVE IInv'
  BY <1>1, <1>4, OutsideType, StopSolo DEF IInv
<1>5. CASE MoveScript
  <2>1. Solo'
    BY <1>5 DEF IInv, MoveScript, Solo, Alone, InStep, Loaded
  <2>2. QED
    BY <1>1, <1>5, <2>1, OutsideType DEF IInv
<1>6. CASE UNCHANGED vars
  BY <1>6 DEF vars, IInv, TypeOK, SecretsStayReal, Known, Solo, Alone, InStep, Loaded
<1>7. QED
  BY <1>2, <1>3, <1>4, <1>5, <1>6 DEF Next

LEMMA Inductive == Spec => []IInv
<1>1. Init => IInv
  BY InitIInv
<1>2. IInv /\ [Next]_vars => IInv'
  BY NextIInv
<1>3. QED
  BY <1>1, <1>2, PTL DEF Spec

-----------------------------------------------------------------------------
(* Every reachable state has the stated types. *)
THEOREM TypeCorrect == Spec => []TypeOK
<1>1. IInv => TypeOK
  BY DEF IInv
<1>2. QED
  BY <1>1, Inductive, PTL

(* No process ever works with a masked secret, however often settings are *)
(* saved, read back and written back.                                     *)
THEOREM SecretsAreReal == Spec => []SecretsStayReal
<1>1. IInv => SecretsStayReal
  BY DEF IInv
<1>2. QED
  BY <1>1, Inductive, PTL

(* A start finds what the last finished save of its own process wrote, as  *)
(* long as no other process uses the file and no write failed.             *)
THEOREM SavedIsFound == Spec => []AloneIsDurable
<1>1. IInv => AloneIsDurable
  <2> SUFFICES ASSUME IInv, Cardinality(met) <= 1,
                      NEW p \in Procs, pc[p] = "idle", p \notin apart
               PROVE  mem[p].fields = Loaded
    BY DEF AloneIsDurable, Loaded
  <2>1. IsFiniteSet(met) /\ Cardinality(met) \in Nat
    BY ProcsAssumption, FS_Subset, FS_CardinalityType DEF IInv, TypeOK
  <2>2. Cardinality(met) = 0 \/ Cardinality(met) = 1
    BY <2>1
  <2>3. met = {} \/ \E x : met = {x}
    BY <2>1, <2>2, FS_EmptySet, FS_Singleton
  <2>4. Alone
    BY <2>3 DEF Alone
  <2>5. QED
    BY <2>4 DEF IInv, Known, Solo, InStep
<1>2. QED
  BY <1>1, Inductive, PTL

(* A secret in clear that has left the file and every process that read it *)
(* does not return to the file.                                            *)
THEOREM ClearStaysGone == Spec => ClearNeverReturns
<1>1. TypeOK /\ [Next]_vars => [Exposed' => Exposed]_vars
  <2> SUFFICES ASSUME TypeOK, Next, Exposed' PROVE Exposed
    OBVIOUS
  <2>1. ASSUME NEW p \in Procs, Build(p) PROVE Exposed
    <3>1. CASE Start(p) \/ Rebuild(p) \/ ReadNothing(p)
      BY <3>1 DEF Start, Rebuild, ReadNothing, Exposed
    <3>2. CASE ReadFile(p)
      BY <3>2 DEF ReadFile, Exposed, TypeOK
    <3>3. CASE OpenBack(p)
      BY <3>3 DEF OpenBack, Exposed, Torn
    <3>4. ASSUME NEW kept \in BOOLEAN, BuiltFromRaw(p, kept),
                 file'.secret = "clear" => file.secret = "clear" \/ raw[p].secret = "clear"
          PROVE  Exposed
      <4>1. \A q \in Procs : raw'[q].secret = "clear" => raw[q].secret = "clear"
        BY <3>4 DEF BuiltFromRaw, TypeOK, Torn
      <4>2. QED
        BY <3>4, <4>1 DEF Exposed
    <3>5. CASE WriteBackFails(p)
      BY <3>4, <3>5 DEF WriteBackFails
    <3>6. CASE WriteBack(p)
      <4>1. file'.secret = "clear" => raw[p].secret = "clear"
        BY <3>6 DEF WriteBack, TypeOK, Content
      <4>2. QED
        BY <3>4, <3>6, <4>1 DEF WriteBack
    <3>7. QED
      BY <2>1, <3>1, <3>2, <3>3, <3>5, <3>6 DEF Build
  <2>2. ASSUME NEW p \in Procs, Change(p) PROVE Exposed
    BY <2>2 DEF Change, Update, OpenSave, SaveFails, Save, Exposed, Torn
  <2>3. ASSUME NEW p \in Procs, Stop(p) PROVE Exposed
    BY <2>3 DEF Stop, Exposed, TypeOK, Torn
  <2>4. CASE MoveScript
    BY <2>4 DEF MoveScript, Exposed
  <2>5. QED
    BY <2>1, <2>2, <2>3, <2>4 DEF Next
<1>2. QED
  BY <1>1, TypeCorrect, PTL DEF Spec, ClearNeverReturns

=============================================================================
