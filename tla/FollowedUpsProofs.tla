-------------------------- MODULE FollowedUpsProofs ---------------------------
(***************************************************************************)
(* Proofs about FollowedUps, for any number of keys, clients, rows and     *)
(* faults and any limit: TypeOK, LimitSlack and DuplicatesOverlap.         *)
(*                                                                         *)
(* LimitSlack is inductive with the types: only CountActive makes the sum  *)
(* of live rows and admitted requests larger, and it does so below the     *)
(* limit with one client more to admit.  DuplicatesOverlap is not: the     *)
(* invariant adds what a request that is about to insert knows of the      *)
(* table, that the rows of its key came after it looked.                   *)
(***************************************************************************)
EXTENDS FollowedUps, FiniteSetTheorems, TLAPS

(* Rows are numbered from 1 without a gap. *)
RowsInOrder == \A r \in Rows : r > rows => life[r] = "none"

(* A live row of the key that c is about to insert came after c looked. *)
LookedBefore ==
  \A c \in Clients : pc[c] = "insert" =>
      base[c] <= rows /\ \A r \in Live : key[r] = want[c] => base[c] < r

IInv == TypeOK /\ RowsInOrder /\ LookedBefore /\ DuplicatesOverlap

-----------------------------------------------------------------------------
LEMMA InitIInv == Init => IInv
<1> SUFFICES ASSUME Init PROVE IInv
  OBVIOUS
<1>1. TypeOK
  BY KeysAssumption, FollowBounds DEF Init, TypeOK, Working, Answers
<1>2. RowsInOrder /\ LookedBefore /\ DuplicatesOverlap
  BY DEF Init, RowsInOrder, LookedBefore, DuplicatesOverlap, Live
<1>3. QED
  BY <1>1, <1>2 DEF IInv

-----------------------------------------------------------------------------
(* Type correctness *)

LEMMA RequestType ==
  ASSUME TypeOK, NEW c \in Clients,
         RequestStep(c) \/ RequestRaises(c) \/ \E k \in Keys : Post(c, k)
  PROVE  TypeOK'
<1> USE FollowBounds DEF TypeOK, Table, Go, Working, Answers
<1>1. ASSUME NEW k \in Keys, Post(c, k) PROVE TypeOK'
  BY <1>1 DEF Post
<1>2. CASE CountActive(c)
  BY <1>2 DEF CountActive
<1>3. CASE ResolveProfile(c)
  BY <1>3 DEF ResolveProfile
<1>4. CASE RefuseProfile(c)
  BY <1>4 DEF RefuseProfile
<1>5. CASE LookForDuplicate(c)
  BY <1>5 DEF LookForDuplicate
<1>6. CASE InsertRow(c)
  <2>1. rows + 1 \in Rows /\ rows' \in 0..MaxRows
    BY <1>6 DEF InsertRow, Rows
  <2>2. QED
    BY <1>6, <2>1 DEF InsertRow
<1>7. CASE RequestRaises(c)
  <2>1. faults' \in 0..MaxFaults
    BY <1>7 DEF RequestRaises
  <2>2. QED
    BY <1>7, <2>1 DEF RequestRaises
<1>8. QED
  BY <1>1, <1>2, <1>3, <1>4, <1>5, <1>6, <1>7 DEF RequestStep

LEMMA EditType ==
  ASSUME TypeOK, NEW r \in Rows, SoftDelete(r) \/ \E on \in BOOLEAN : Patch(r, on)
  PROVE  TypeOK'
BY DEF TypeOK, SoftDelete, Patch

-----------------------------------------------------------------------------
(* What is known of the rows *)

(* A request that does not insert leaves the table alone. *)
LEMMA TableKept ==
  ASSUME IInv, UNCHANGED Table
  PROVE  RowsInOrder' /\ DuplicatesOverlap'
BY DEF IInv, Table, RowsInOrder, DuplicatesOverlap, Live

(* One that does not reach "insert" leaves the others' knowledge alone. *)
LEMMA NoLook ==
  ASSUME IInv, UNCHANGED Table, NEW c \in Clients, NEW to, to # "insert", Go(c, to),
         \A d \in Clients : d # c => want'[d] = want[d] /\ base'[d] = base[d]
  PROVE  LookedBefore'
BY DEF IInv, TypeOK, Table, Go, LookedBefore, Live

LEMMA LookKeeps ==
  ASSUME IInv, NEW c \in Clients, LookForDuplicate(c)
  PROVE  LookedBefore'
<1> USE DEF IInv, TypeOK, Table, Go
<1>1. UNCHANGED <<Live, rows, key, want>>
  BY DEF LookForDuplicate, Live
<1>2. ASSUME NEW d \in Clients, d # c, pc'[d] = "insert"
      PROVE  base'[d] <= rows' /\ \A r \in Live' : key'[r] = want'[d] => base'[d] < r
  BY <1>1, <1>2 DEF LookForDuplicate, LookedBefore
<1>3. ASSUME pc'[c] = "insert"
      PROVE  base'[c] <= rows' /\ \A r \in Live' : key'[r] = want'[c] => base'[c] < r
  <2>1. Of(want[c]) = {} /\ base'[c] = rows
    BY <1>3 DEF LookForDuplicate
  <2>2. QED
    BY <1>1, <2>1 DEF Of
<1>4. QED
  BY <1>2, <1>3 DEF LookedBefore

LEMMA InsertKeeps ==
  ASSUME IInv, NEW c \in Clients, InsertRow(c)
  PROVE  RowsInOrder' /\ LookedBefore' /\ DuplicatesOverlap'
<1> USE FollowBounds DEF IInv, TypeOK, Table, Go
<1>1. /\ rows + 1 \in Rows /\ rows' = rows + 1 /\ rows \in Nat
      /\ \A r \in Live : r <= rows /\ r \in Nat
  BY DEF InsertRow, Rows, Live, RowsInOrder
<1>2. Live' = Live \union {rows + 1}
  BY <1>1 DEF InsertRow, Live
<1>3. /\ \A r \in Live : key'[r] = key[r] /\ born'[r] = born[r]
      /\ key'[rows + 1] = want[c] /\ born'[rows + 1] = base[c]
  BY <1>1 DEF InsertRow, Live
<1>4. RowsInOrder'
  <2> SUFFICES ASSUME NEW r \in Rows, r > rows + 1 PROVE life'[r] = "none"
    BY <1>1 DEF RowsInOrder, Rows
  <2>1. life[r] = "none" /\ r # rows + 1
    BY <1>1 DEF RowsInOrder, Rows
  <2>2. QED
    BY <2>1, <1>1 DEF InsertRow
<1>5. LookedBefore'
  <2> SUFFICES ASSUME NEW d \in Clients, pc'[d] = "insert"
               PROVE  base'[d] <= rows' /\ \A r \in Live' : key'[r] = want'[d] => base'[d] < r
    BY DEF LookedBefore
  <2>1. pc[d] = "insert" /\ base'[d] = base[d] /\ want'[d] = want[d]
    BY DEF InsertRow
  <2>2. base[d] <= rows /\ base[d] \in Nat /\ \A r \in Live : key[r] = want[d] => base[d] < r
    BY <2>1 DEF LookedBefore
  <2>3. QED
    BY <1>1, <1>2, <1>3, <2>1, <2>2
<1>6. DuplicatesOverlap'
  <2> SUFFICES ASSUME NEW r \in Live', NEW s \in Live', r < s, key'[r] = key'[s]
               PROVE  born'[s] < r
    BY DEF DuplicatesOverlap
  <2>1. CASE s \in Live
    <3>1. r \in Live
      BY <1>1, <1>2, <2>1
    <3>2. QED
      BY <1>3, <2>1, <3>1 DEF DuplicatesOverlap
  <2>2. CASE s = rows + 1
    <3>1. r \in Live
      BY <1>1, <1>2, <2>2
    <3>2. base[c] < r
      BY <1>3, <2>2, <3>1 DEF InsertRow, LookedBefore
    <3>3. QED
      BY <1>3, <2>2, <3>2
  <2>3. QED
    BY <1>2, <2>1, <2>2
<1>7. QED
  BY <1>4, <1>5, <1>6

LEMMA DeleteKeeps ==
  ASSUME IInv, NEW r \in Rows, SoftDelete(r)
  PROVE  RowsInOrder' /\ LookedBefore' /\ DuplicatesOverlap'
<1> USE DEF IInv, TypeOK
<1>1. Live' \subseteq Live
  BY DEF SoftDelete, Live
<1>2. RowsInOrder'
  BY DEF SoftDelete, RowsInOrder, Rows
<1>3. LookedBefore' /\ DuplicatesOverlap'
  BY <1>1 DEF SoftDelete, LookedBefore, DuplicatesOverlap
<1>4. QED
  BY <1>2, <1>3

LEMMA PatchKeeps ==
  ASSUME IInv, NEW r \in Rows, NEW on \in BOOLEAN, Patch(r, on)
  PROVE  RowsInOrder' /\ LookedBefore' /\ DuplicatesOverlap'
BY DEF IInv, Patch, RowsInOrder, LookedBefore, DuplicatesOverlap, Live

-----------------------------------------------------------------------------
LEMMA NextIInv == IInv /\ [Next]_vars => IInv'
<1> SUFFICES ASSUME IInv, [Next]_vars PROVE IInv'
  OBVIOUS
<1>1. ASSUME NEW c \in Clients, RequestStep(c) \/ RequestRaises(c) \/ \E k \in Keys : Post(c, k)
      PROVE  IInv'
  <2>1. TypeOK'
    BY <1>1, RequestType DEF IInv
  <2>2. CASE InsertRow(c)
    BY <2>1, <2>2, InsertKeeps DEF IInv
  <2>3. CASE LookForDuplicate(c)
    BY <2>1, <2>3, LookKeeps, TableKept DEF LookForDuplicate, IInv
  <2>4. CASE CountActive(c) \/ ResolveProfile(c) \/ RefuseProfile(c) \/ RequestRaises(c)
    <3>1. PICK to : to # "insert" /\ Go(c, to)
      BY <2>4 DEF CountActive, ResolveProfile, RefuseProfile, RequestRaises
    <3>2. UNCHANGED <<Table, want, base>>
      BY <2>4 DEF CountActive, ResolveProfile, RefuseProfile, RequestRaises
    <3>3. QED
      BY <2>1, <3>1, <3>2, NoLook, TableKept DEF IInv
  <2>5. ASSUME NEW k \in Keys, Post(c, k) PROVE IInv'
    <3>1. /\ Go(c, "count")
          /\ UNCHANGED Table
          /\ \A d \in Clients : d # c => want'[d] = want[d] /\ base'[d] = base[d]
      BY <2>5 DEF Post, IInv, TypeOK
    <3>2. QED
      BY <2>1, <3>1, NoLook, TableKept DEF IInv
  <2>6. QED
    BY <1>1, <2>2, <2>3, <2>4, <2>5 DEF RequestStep
<1>2. ASSUME NEW r \in Rows, SoftDelete(r) PROVE IInv'
  BY <1>2, EditType, DeleteKeeps DEF IInv
<1>3. ASSUME NEW r \in Rows, NEW on \in BOOLEAN, Patch(r, on) PROVE IInv'
  BY <1>3, EditType, PatchKeeps DEF IInv
<1>4. CASE UNCHANGED vars
  BY <1>4 DEF vars, IInv, TypeOK, RowsInOrder, LookedBefore, DuplicatesOverlap, Live
<1>5. QED
  BY <1>1, <1>2, <1>3, <1>4 DEF Next

LEMMA Inductive == Spec => []IInv
<1>1. Init => IInv
  BY InitIInv
<1>2. IInv /\ [Next]_vars => IInv'
  BY NextIInv
<1>3. QED
  BY <1>1, <1>2, PTL DEF Spec

(* Every reachable state has the stated types: the table never holds more *)
(* rows than numbers were given out.                                      *)
THEOREM TypeCorrect == Spec => []TypeOK
<1>1. IInv => TypeOK
  BY DEF IInv
<1>2. QED
  BY <1>1, Inductive, PTL

(* Two live rows of one creator come from creates that overlapped: the look *)
(* of repo.create is enough for requests that do not.                       *)
THEOREM DuplicatesNeedOverlap == Spec => []DuplicatesOverlap
<1>1. IInv => DuplicatesOverlap
  BY DEF IInv
<1>2. QED
  BY <1>1, Inductive, PTL

-----------------------------------------------------------------------------
(* The limit *)

LEMMA Counts ==
  ASSUME TypeOK
  PROVE  /\ IsFiniteSet(Live) /\ Cardinality(Live) \in Nat
         /\ IsFiniteSet(Admitted) /\ Cardinality(Admitted) \in Nat
         /\ IsFiniteSet(Clients) /\ Cardinality(Clients) \in Nat
<1>1. IsFiniteSet(Rows)
  BY FS_Interval, FollowBounds DEF Rows
<1>2. Live \in SUBSET Rows /\ Admitted \in SUBSET Clients
  BY DEF Live, Admitted
<1>3. IsFiniteSet(Live) /\ IsFiniteSet(Admitted) /\ IsFiniteSet(Clients)
  BY <1>1, <1>2, FS_Subset, ClientsAssumption
<1>4. QED
  BY <1>3, FS_CardinalityType

(* A smaller set of rows and of requests keeps the bound. *)
LEMMA Fewer ==
  ASSUME TypeOK, LimitSlack, TypeOK', Live' \subseteq Live, Admitted' \subseteq Admitted
  PROVE  LimitSlack'
<1>1. Cardinality(Live') <= Cardinality(Live) /\ Cardinality(Admitted') <= Cardinality(Admitted)
  BY Counts, FS_Subset
<1>2. Cardinality(Live') \in Nat /\ Cardinality(Admitted') \in Nat
  BY Counts, <1>1, FS_Subset, FS_CardinalityType
<1>3. QED
  BY <1>1, <1>2, Counts, FollowBounds DEF LimitSlack

LEMMA CountSlack ==
  ASSUME TypeOK, LimitSlack, NEW c \in Clients, CountActive(c)
  PROVE  LimitSlack'
<1> USE DEF TypeOK, Table, Go
<1>1. Live' = Live
  BY DEF CountActive, Live
<1>2. CASE Cardinality(Live) >= Limit
  <2>1. Admitted' = Admitted
    BY <1>2 DEF CountActive, Admitted
  <2>2. QED
    BY <1>1, <2>1 DEF LimitSlack
<1>3. CASE ~(Cardinality(Live) >= Limit)
  <2>1. Admitted' = Admitted \union {c} /\ c \notin Admitted
    BY <1>3 DEF CountActive, Admitted
  <2>2. Cardinality(Admitted') = Cardinality(Admitted) + 1
    BY <2>1, Counts, FS_AddElement
  <2>3. Admitted' \in SUBSET Clients
    BY <2>1 DEF Admitted
  <2>4. Cardinality(Admitted') <= Cardinality(Clients)
    BY <2>3, ClientsAssumption, FS_Subset
  <2>5. QED
    BY <1>1, <1>3, <2>2, <2>4, Counts, FollowBounds DEF LimitSlack
<1>4. QED
  BY <1>2, <1>3

LEMMA InsertSlack ==
  ASSUME TypeOK, LimitSlack, NEW c \in Clients, InsertRow(c)
  PROVE  LimitSlack'
<1> USE DEF TypeOK, Table, Go
<1>1. rows + 1 \in Rows
  BY FollowBounds DEF InsertRow, Rows
<1>2. Live' = Live \union {rows + 1}
  BY <1>1 DEF InsertRow, Live
<1>3. Admitted' = Admitted \ {c} /\ c \in Admitted
  BY DEF InsertRow, Admitted
<1>4. Cardinality(Live') <= Cardinality(Live) + 1 /\ Cardinality(Live') \in Nat
  <2>1. Cardinality(Live \union {rows + 1}) =
            IF rows + 1 \in Live THEN Cardinality(Live) ELSE Cardinality(Live) + 1
    BY Counts, FS_AddElement
  <2>2. QED
    BY <1>2, <2>1, Counts
<1>5. Cardinality(Admitted') = Cardinality(Admitted) - 1
  BY <1>3, Counts, FS_RemoveElement
<1>6. QED
  BY <1>4, <1>5, Counts, FollowBounds DEF LimitSlack

LEMMA NextSlack == TypeOK /\ TypeOK' /\ LimitSlack /\ [Next]_vars => LimitSlack'
<1> SUFFICES ASSUME TypeOK, TypeOK', LimitSlack, [Next]_vars PROVE LimitSlack'
  OBVIOUS
<1>1. ASSUME NEW c \in Clients, CountActive(c) PROVE LimitSlack'
  BY <1>1, CountSlack
<1>2. ASSUME NEW c \in Clients, InsertRow(c) PROVE LimitSlack'
  BY <1>2, InsertSlack
<1>3. ASSUME NEW c \in Clients,
             \/ ResolveProfile(c) \/ RefuseProfile(c) \/ LookForDuplicate(c) \/ RequestRaises(c)
             \/ \E k \in Keys : Post(c, k)
      PROVE  Live' \subseteq Live /\ Admitted' \subseteq Admitted
  BY <1>3 DEF ResolveProfile, RefuseProfile, LookForDuplicate, RequestRaises, Post,
     Live, Admitted, Table, Go, TypeOK, Working
<1>4. ASSUME NEW r \in Rows, SoftDelete(r) \/ \E on \in BOOLEAN : Patch(r, on)
      PROVE  Live' \subseteq Live /\ Admitted' \subseteq Admitted
  BY <1>4 DEF SoftDelete, Patch, Live, Admitted, TypeOK
<1>5. CASE UNCHANGED vars
  BY <1>5 DEF vars, LimitSlack, Live, Admitted
<1>6. QED
  BY <1>1, <1>2, <1>3, <1>4, <1>5, Fewer DEF Next, RequestStep

(* The limit of creators is exceeded by no more than the requests there are *)
(* between their count and their insert.                                    *)
THEOREM LimitHolds == Spec => []LimitSlack
<1>1. Init => LimitSlack
  <2> SUFFICES ASSUME Init PROVE LimitSlack
    OBVIOUS
  <2>1. Live = {} /\ Admitted = {}
    BY DEF Init, Live, Admitted
  <2>2. Cardinality(Clients) \in Nat
    BY ClientsAssumption, FS_CardinalityType
  <2>3. Cardinality(Clients) > 0
    BY ClientsAssumption, <2>2, FS_EmptySet
  <2>4. QED
    BY <2>1, <2>2, <2>3, FS_EmptySet, FollowBounds DEF LimitSlack
<1>2. QED
  BY <1>1, TypeCorrect, NextSlack, PTL DEF Spec

=============================================================================
