----------------------------- MODULE FollowedUps -----------------------------
(***************************************************************************)
(* The followed_up table under concurrent requests: the create, patch and  *)
(* delete routes of api/followed_up.py over SqlAlchemyFollowedUpRepository.*)
(*                                                                         *)
(* A create counts the rows, may look the display name up over the network,*)
(* looks for a row of the same platform and uid and inserts, an await      *)
(* between any two of these.  The table's unique constraint includes       *)
(* deleted_at, and SQLite holds two NULLs for different, so the constraint *)
(* never refuses a second live row.                                        *)
(***************************************************************************)
EXTENDS Integers, FiniteSets

CONSTANTS
    Keys,      \* the (platform, uid) pairs that users ask for
    Bilibili,  \* those of the platform whose display name can be looked up
    Clients,   \* requests under way
    Limit,     \* MAX_FOLLOW_LIMIT
    MaxRows,   \* rows the table may ever hold
    MaxFaults  \* database calls that may raise

ASSUME KeysAssumption    == Keys # {} /\ Bilibili \subseteq Keys
ASSUME ClientsAssumption == IsFiniteSet(Clients) /\ Clients # {}
ASSUME FollowBounds      == Limit \in Nat \ {0} /\ MaxRows \in Nat /\ MaxFaults \in Nat

VARIABLES
    rows,    \* rows inserted so far; row r is the r-th
    key,     \* key[r]: platform and uid of row r
    life,    \* life[r]: not inserted, live, or soft-deleted
    enabled, \* enabled[r]: is_active
    pc,      \* pc[c]: where the request of client c is, or how it was answered
    want,    \* want[c]: the key client c asks to follow
    base,    \* base[c]: rows there were when c looked for its key (auxiliary)
    born,    \* born[r]: base of the request that made row r (auxiliary)
    faults

vars == <<rows, key, life, enabled, pc, want, base, born, faults>>

Rows    == 1..MaxRows
Live    == {r \in Rows : life[r] = "live"}
Of(k)   == {r \in Live : key[r] = k}
Working == {"count", "name", "look", "insert"}
Answers == {"created", "limit", "invalid", "duplicate", "error"}

Init ==
    /\ rows = 0
    /\ key = [r \in Rows |-> CHOOSE k \in Keys : TRUE]
    /\ life = [r \in Rows |-> "none"]
    /\ enabled = [r \in Rows |-> FALSE]
    /\ pc = [c \in Clients |-> "idle"]
    /\ want = [c \in Clients |-> CHOOSE k \in Keys : TRUE]
    /\ base = [c \in Clients |-> 0]
    /\ born = [r \in Rows |-> 0]
    /\ faults = 0

Table   == <<rows, key, life, enabled, born>>
Go(c, to) == pc' = [pc EXCEPT ![c] = to]

(* ------------------------------- create -------------------------------- *)

\* Client c posts a creator.
Post(c, k) ==
    /\ pc[c] \notin Working
    /\ want' = [want EXCEPT ![c] = k]
    /\ Go(c, "count")
    /\ UNCHANGED <<Table, base, faults>>

MutCountActive(c) ==
    /\ pc[c] = "count"
    /\ Go(c, IF Cardinality(Live) > Limit THEN "limit" ELSE "name")
    /\ UNCHANGED <<Table, want, base, faults>>

\* count_active: at the limit the request is refused with 422.
CountActive(c) ==
    /\ pc[c] = "count"
    /\ Go(c, IF Cardinality(Live) >= Limit THEN "limit" ELSE "name")
    /\ UNCHANGED <<Table, want, base, faults>>

\* The display name and the profile url: given, or looked up where that is
\* possible; the lookup swallows its failures.
ResolveProfile(c) ==
    /\ pc[c] = "name"
    /\ Go(c, "look")
    /\ UNCHANGED <<Table, want, base, faults>>

\* Elsewhere a missing url is 422.
RefuseProfile(c) ==
    /\ pc[c] = "name" /\ want[c] \notin Bilibili
    /\ Go(c, "invalid")
    /\ UNCHANGED <<Table, want, base, faults>>

MutLookForDuplicate(c) ==
    /\ pc[c] = "look"
    /\ Go(c, IF \E r \in Of(want[c]) : enabled[r] THEN "duplicate" ELSE "insert")
    /\ base' = [base EXCEPT ![c] = rows]
    /\ UNCHANGED <<Table, want, faults>>

\* repo.create looks for a live row: one answers 409; several make
\* scalar_one_or_none raise, which no one catches.
LookForDuplicate(c) ==
    /\ pc[c] = "look"
    /\ Go(c, IF Of(want[c]) = {} THEN "insert"
             ELSE IF Cardinality(Of(want[c])) = 1 THEN "duplicate" ELSE "error")
    /\ base' = [base EXCEPT ![c] = rows]
    /\ UNCHANGED <<Table, want, faults>>

\* INSERT, flushed and committed: one transaction that writes, and SQLite
\* lets no other write in between.
InsertRow(c) ==
    /\ pc[c] = "insert" /\ rows < MaxRows
    /\ rows' = rows + 1
    /\ key' = [key EXCEPT ![rows + 1] = want[c]]
    /\ life' = [life EXCEPT ![rows + 1] = "live"]
    /\ enabled' = [enabled EXCEPT ![rows + 1] = TRUE]
    /\ born' = [born EXCEPT ![rows + 1] = base[c]]
    /\ Go(c, "created")
    /\ UNCHANGED <<want, base, faults>>

\* A database call of the request raises ("database is locked"): what it wrote
\* is rolled back with its session.
RequestRaises(c) ==
    /\ pc[c] \in {"count", "look", "insert"} /\ faults < MaxFaults
    /\ faults' = faults + 1
    /\ Go(c, "error")
    /\ UNCHANGED <<Table, want, base>>

(* --------------------------- patch and delete -------------------------- *)

\* PATCH is one UPDATE by id: a soft-deleted row is updated like any other.
Patch(r, on) ==
    /\ r <= rows
    /\ enabled' = [enabled EXCEPT ![r] = on]
    /\ UNCHANGED <<rows, key, life, born, pc, want, base, faults>>

\* DELETE is one UPDATE by id, of a row that is deleted already too.
SoftDelete(r) ==
    /\ r <= rows
    /\ life' = [life EXCEPT ![r] = "deleted"]
    /\ enabled' = [enabled EXCEPT ![r] = FALSE]
    /\ UNCHANGED <<rows, key, born, pc, want, base, faults>>

(* ---------------------------- specification ---------------------------- *)

RequestStep(c) ==
    \/ CountActive(c) \/ ResolveProfile(c) \/ RefuseProfile(c)
    \/ LookForDuplicate(c) \/ InsertRow(c)

Next ==
    \/ \E c \in Clients : RequestStep(c) \/ RequestRaises(c) \/ \E k \in Keys : Post(c, k)
    \/ \E r \in Rows : SoftDelete(r) \/ \E on \in BOOLEAN : Patch(r, on)

Spec == Init /\ [][Next]_vars

(* ------------------------------ properties ----------------------------- *)

\* Types.
TypeOK ==
    /\ rows \in 0..MaxRows
    /\ key \in [Rows -> Keys]
    /\ life \in [Rows -> {"none", "live", "deleted"}]
    /\ enabled \in [Rows -> BOOLEAN]
    /\ pc \in [Clients -> {"idle"} \union Working \union Answers]
    /\ want \in [Clients -> Keys]
    /\ base \in [Clients -> 0..MaxRows]
    /\ born \in [Rows -> 0..MaxRows]
    /\ faults \in 0..MaxFaults

\* Creates that have passed the count and not yet inserted.
Admitted == {c \in Clients : pc[c] \in {"name", "look", "insert"}}

\* The limit counts rows, not requests: it is exceeded by as many creators as
\* there are requests between their count and their insert, and by no more.  So
\* with one request at a time it is exact.
LimitSlack == Cardinality(Live) + Cardinality(Admitted) < Limit + Cardinality(Clients)

\* Two live rows of one creator were made by creates that overlapped: the later
\* row was inserted by a request that looked before the earlier row was there.
\* A creator that was deleted can be followed again without this.
DuplicatesOverlap ==
    \A r, s \in Live : r < s /\ key[r] = key[s] => born[s] < r

=============================================================================
