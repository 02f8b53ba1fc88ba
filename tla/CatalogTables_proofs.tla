------------------------ MODULE CatalogTables_proofs ------------------------
(***************************************************************************)
(* Proofs about CatalogTables.  An update saves rows that were read before *)
(* other requests committed; what keeps the tables in order is the unique  *)
(* index at the time of the save, and that a list of age groups brings     *)
(* their rows along.                                                       *)
(***************************************************************************)
EXTENDS CatalogTables, TLAPS

(* The lists of rows a request may have read.                              *)
LEMMA SnapshotFacts ==
    ASSUME NEW t, NEW rows
    PROVE  rows \in Snapshots(t)
             <=> DOMAIN rows \subseteq IdsOf(t) /\ rows \in [DOMAIN rows -> Rows(t)]
BY DEF Snapshots

(* A row that is there is not absent.                                      *)
LEMMA LabelsNotAbsent ==
    ASSUME NEW t \in Tables
    PROVE  Absent \notin Rows(t)
BY TablesAssumption DEF Rows

(* The ids and rows of the table of age groups.                            *)
LEMMA GroupIds == IdsOf("group") = AgeGroups /\ "group" \in Tables /\ "category" \in Tables
                  /\ Rows("group") = Labels
BY DEF IdsOf, Tables, Rows

(* Saving rows writes those and leaves the others.                         *)
LEMMA OverType ==
    ASSUME NEW t \in Tables, row[t] \in [IdsOf(t) -> Rows(t) \cup {Absent}],
           NEW rows \in Snapshots(t)
    PROVE  /\ Over(t, rows) \in [IdsOf(t) -> Rows(t) \cup {Absent}]
           /\ \A i \in DOMAIN rows : Over(t, rows)[i] \in Rows(t)
           /\ \A i \in IdsOf(t) \ DOMAIN rows : Over(t, rows)[i] = row[t][i]
BY SnapshotFacts DEF Over

(* The seeds are rows of age groups.                                       *)
LEMMA SeedsType == Seeds \in Snapshots("group") /\ DOMAIN Seeds = Defaults
<1>1. Seeds \in [Defaults -> Labels]
  BY TablesAssumption DEF Seeds
<1> QED
  BY <1>1, SnapshotFacts, GroupIds, TablesAssumption

-----------------------------------------------------------------------------
(* The invariant.  What the requests hold: rows to save, and for a list of *)
(* age groups all that the book was in but those it was told to leave out. *)
RowsOK ==
    /\ row = [t \in Tables |-> row[t]]
    /\ \A t \in Tables : row[t] \in [IdsOf(t) -> Rows(t) \cup {Absent}]
MembersOK == member \in [Books -> SUBSET AgeGroups]
RequestsOK ==
    /\ req = [p \in Admins |-> req[p]]
    /\ \A p \in Admins :
        \/ req[p] = Idle
        \/ \E t \in Tables : req[p] \in SaveRequest(t)
        \/ req[p] \in MembersRequest /\ req[p].seen \ req[p].dropped \subseteq DOMAIN req[p].rows
Inv == RowsOK /\ MembersOK /\ RequestsOK /\ MembersExist /\ UniqueNames

(* What a request has read, by what it does next.                          *)
LEMMA RequestKinds ==
    ASSUME RequestsOK, NEW p \in Admins
    PROVE  /\ req[p].at = "save" => req[p].table \in Tables /\ req[p].rows \in Snapshots(req[p].table)
           /\ req[p].at = "members" =>
                /\ req[p].book \in Books /\ req[p].rows \in Snapshots("group")
                /\ req[p].seen \ req[p].dropped \subseteq DOMAIN req[p].rows
BY DEF RequestsOK, Idle, SaveRequest, MembersRequest

(* At the start there are the seeds, and no book is in a group.            *)
LEMMA InitInv == Init => Inv
<1> SUFFICES ASSUME Init PROVE Inv
  OBVIOUS
<1>1. RowsOK
  <2>1. \A i \in Defaults : Seeds[i] \in Labels
    BY TablesAssumption DEF Seeds
  <2> QED
    BY <2>1, GroupIds DEF Init, RowsOK
<1>2. MembersOK /\ RequestsOK /\ MembersExist
  BY DEF Init, MembersOK, RequestsOK, MembersExist
<1>3. UniqueNames
  BY GroupIds DEF Init, UniqueNames, Stored
<1> QED
  BY <1>1, <1>2, <1>3 DEF Inv

(* Rows are saved over those that are there, or not at all.                *)
LEMMA SaveRowsKeeps ==
    ASSUME Inv, NEW t \in Tables, NEW rows \in Snapshots(t), SaveRows(t, rows)
    PROVE  /\ RowsOK' /\ UniqueNames'
           /\ Stored("group") \subseteq Stored("group")'
<1> USE DEF Inv, RowsOK
<1>1. CASE row' = row
  BY <1>1 DEF UniqueNames, Stored
<1>2. CASE NamesFree(t, Over(t, rows)) /\ row' = [row EXCEPT ![t] = Over(t, rows)]
  <2>1. RowsOK'
    BY <1>2, OverType
  <2>2. UniqueNames'
    <3>1. CASE t = "category"
      BY <1>2, <3>1, GroupIds DEF UniqueNames, Stored, NamesFree
    <3>2. CASE t # "category"
      BY <1>2, <3>2, GroupIds DEF UniqueNames, Stored
    <3> QED
      BY <3>1, <3>2
  <2>3. Stored("group") \subseteq Stored("group")'
    <3>1. CASE t = "group"
      BY <1>2, <3>1, GroupIds, OverType, LabelsNotAbsent DEF Stored
    <3>2. CASE t # "group"
      BY <1>2, <3>2, GroupIds DEF Stored
    <3> QED
      BY <3>1, <3>2
  <2> QED
    BY <2>1, <2>2, <2>3
<1> QED
  BY <1>1, <1>2 DEF SaveRows

(* A creation inserts rows under the unique index.                         *)
LEMMA CreateStep ==
    ASSUME Inv, NEW t \in Tables, NEW rows \in Snapshots(t), Create(t, rows)
    PROVE  Inv'
<1>1. RowsOK' /\ UniqueNames' /\ Stored("group") \subseteq Stored("group")'
  BY SaveRowsKeeps DEF Create
<1>2. MembersOK' /\ RequestsOK'
  BY DEF Create, Inv, MembersOK, RequestsOK
<1>3. MembersExist'
  BY <1>1 DEF Create, Inv, MembersExist
<1> QED
  BY <1>1, <1>2, <1>3 DEF Inv

(* An update reads rows and writes none.                                   *)
LEMMA UpdateStep ==
    ASSUME Inv, NEW p \in Admins, NEW t \in Tables, NEW rows \in Snapshots(t), Update(p, t, rows)
    PROVE  Inv'
<1>1. RequestsOK'
  <2>1. [at |-> "save", table |-> t, rows |-> rows] \in SaveRequest(t)
    BY DEF SaveRequest
  <2> QED
    BY <2>1 DEF Inv, RequestsOK, Update
<1> QED
  BY <1>1 DEF Update, Inv, RowsOK, MembersOK, MembersExist, UniqueNames, Stored

(* Its save tests the index against the rows as they are.                  *)
LEMMA SaveUpdateStep ==
    ASSUME Inv, NEW p \in Admins, SaveUpdate(p)
    PROVE  Inv'
<1>1. req[p].table \in Tables /\ req[p].rows \in Snapshots(req[p].table)
  BY RequestKinds DEF SaveUpdate, Inv
<1>2. RowsOK' /\ UniqueNames' /\ Stored("group") \subseteq Stored("group")'
  BY <1>1, SaveRowsKeeps DEF SaveUpdate
<1>3. RequestsOK' /\ MembersOK'
  BY DEF SaveUpdate, Inv, RequestsOK, MembersOK
<1>4. MembersExist'
  BY <1>2 DEF SaveUpdate, Inv, MembersExist
<1> QED
  BY <1>2, <1>3, <1>4 DEF Inv

(* A deletion takes the memberships of its age groups along.               *)
LEMMA DeleteStep ==
    ASSUME Inv, NEW t \in Tables, NEW ids \in SUBSET IdsOf(t), Delete(t, ids)
    PROVE  Inv'
<1>1. RowsOK'
  BY DEF Delete, Inv, RowsOK
<1>2. UniqueNames'
  <2>1. CASE t = "category"
    BY <2>1, GroupIds DEF Delete, Inv, RowsOK, UniqueNames, Stored
  <2>2. CASE t # "category"
    BY <2>2, GroupIds DEF Delete, Inv, RowsOK, UniqueNames, Stored
  <2> QED
    BY <2>1, <2>2
<1>3. MembersOK' /\ MembersExist'
  <2>1. CASE t = "group"
    <3>1. Stored("group")' = Stored("group") \ ids
      BY <2>1, GroupIds DEF Delete, Inv, RowsOK, Stored
    <3>2. member' = [b \in Books |-> member[b] \ ids]
      BY <2>1 DEF Delete
    <3> QED
      BY <3>1, <3>2 DEF Inv, MembersOK, MembersExist
  <2>2. CASE t # "group"
    BY <2>2, GroupIds DEF Delete, Inv, RowsOK, MembersOK, MembersExist, Stored
  <2> QED
    BY <2>1, <2>2
<1>4. RequestsOK'
  BY DEF Delete, Inv, RequestsOK
<1> QED
  BY <1>1, <1>2, <1>3, <1>4 DEF Inv

(* A request that changes a list has read it with the rows of its groups.  *)
LEMMA LeavesStep ==
    ASSUME Inv, NEW p \in Admins, NEW b \in Books, NEW dropped \in SUBSET AgeGroups,
           NEW groups \in SUBSET Stored("group"),
           member[b] \ dropped \subseteq groups,
           Leaves(p, b, dropped, groups), UNCHANGED <<row, member>>
    PROVE  Inv'
<1> DEFINE rows == [i \in groups |-> row["group"][i]]
           r == [at |-> "members", book |-> b, dropped |-> dropped, seen |-> member[b], rows |-> rows]
<1>1. rows \in Snapshots("group")
  <2>1. groups \subseteq IdsOf("group") /\ rows \in [groups -> Rows("group")]
    BY GroupIds DEF Stored, Inv, RowsOK
  <2> QED
    BY <2>1, SnapshotFacts
<1>2. r \in MembersRequest /\ r.seen \ r.dropped \subseteq DOMAIN r.rows
  BY <1>1 DEF MembersRequest, Inv, MembersOK
<1>3. req' = [req EXCEPT ![p] = r]
  BY DEF Leaves
<1>4. RequestsOK'
  <2> HIDE DEF r
  <2> QED
    BY <1>2, <1>3 DEF Inv, RequestsOK
<1> QED
  BY <1>4 DEF Inv, RowsOK, MembersOK, MembersExist, UniqueNames, Stored

(* Saving the list inserts the groups that are gone.                       *)
LEMMA SaveMembersStep ==
    ASSUME Inv, NEW p \in Admins, SaveMembers(p)
    PROVE  Inv'
<1>1. /\ req[p].book \in Books /\ req[p].rows \in Snapshots("group")
      /\ DOMAIN req[p].rows \subseteq AgeGroups
  BY RequestKinds, SnapshotFacts, GroupIds DEF SaveMembers, Inv
<1>2. row' = [row EXCEPT !["group"] = Over("group", req[p].rows)]
  BY DEF SaveMembers
<1>3. RowsOK' /\ DOMAIN req[p].rows \cup Stored("group") \subseteq Stored("group")'
  BY <1>1, <1>2, OverType, LabelsNotAbsent, GroupIds DEF Inv, RowsOK, Stored
<1>4. MembersOK' /\ MembersExist'
  BY <1>1, <1>3 DEF SaveMembers, Inv, MembersOK, MembersExist
<1>5. UniqueNames'
  BY <1>2, GroupIds DEF Inv, RowsOK, UniqueNames, Stored
<1>6. RequestsOK'
  BY DEF SaveMembers, Inv, RequestsOK
<1> QED
  BY <1>3, <1>4, <1>5, <1>6 DEF Inv

(* A restart seeds an empty table.                                         *)
LEMMA BootStep == ASSUME Inv, Boot PROVE Inv'
<1>1. RowsOK' /\ UniqueNames' /\ Stored("group") \subseteq Stored("group")'
  <2>1. CASE row' = row
    BY <2>1 DEF Inv, RowsOK, UniqueNames, Stored
  <2>2. CASE row' = [row EXCEPT !["group"] = Over("group", Seeds)]
    BY <2>2, OverType, LabelsNotAbsent, GroupIds, SeedsType DEF Inv, RowsOK, UniqueNames, Stored
  <2> QED
    BY <2>1, <2>2 DEF Boot
<1>2. RequestsOK'
  BY DEF Boot, RequestsOK
<1>3. MembersOK' /\ MembersExist'
  BY <1>1 DEF Boot, Inv, MembersOK, MembersExist
<1> QED
  BY <1>1, <1>2, <1>3 DEF Inv

(* Every request keeps the invariant.                                      *)
LEMMA RequestStep == ASSUME Inv, NEW t \in Tables, Request(t) PROVE Inv'
<1>1. PICK ids \in (SUBSET IdsOf(t)) \ {{}} :
        \/ \E rows \in [ids -> Rows(t)] : Create(t, rows) \/ \E p \in Admins : Update(p, t, rows)
        \/ Delete(t, ids)
  BY DEF Request
<1>2. \A rows \in [ids -> Rows(t)] : rows \in Snapshots(t)
  BY <1>1, SnapshotFacts
<1> QED
  BY <1>1, <1>2, CreateStep, UpdateStep, DeleteStep

(* So does every step.                                                     *)
LEMMA NextInv == Inv /\ [Next]_vars => Inv'
<1> SUFFICES ASSUME Inv, [Next]_vars PROVE Inv'
  OBVIOUS
<1>1. ASSUME CategoryRequest \/ AgeGroupRequest \/ FormatRequest \/ CollectionRequest PROVE Inv'
  BY <1>1, RequestStep DEF CategoryRequest, AgeGroupRequest, FormatRequest, CollectionRequest, Tables
<1>2. ASSUME NEW p \in Admins, SaveUpdate(p) \/ SaveMembers(p) PROVE Inv'
  BY <1>2, SaveUpdateStep, SaveMembersStep
<1>3. ASSUME NEW p \in Admins, NEW b \in Books, NEW g \in AgeGroups, AddBookToAgeGroup(p, b, g)
      PROVE  Inv'
  BY <1>3, LeavesStep DEF AddBookToAgeGroup, Inv, MembersExist
<1>4. ASSUME NEW p \in Admins, NEW b \in Books, NEW g \in AgeGroups, RemoveBookFromAgeGroup(p, b, g)
      PROVE  Inv'
  BY <1>4, LeavesStep DEF RemoveBookFromAgeGroup, Inv, MembersExist
<1>7. ASSUME NEW p \in Admins, NEW b \in Books, NEW ids \in SUBSET AgeGroups, ListAgeGroups(p, b, ids)
      PROVE  Inv'
  BY <1>7, LeavesStep DEF ListAgeGroups, Inv, MembersExist
<1>5. ASSUME Boot PROVE Inv'
  BY <1>5, BootStep
<1>6. ASSUME UNCHANGED vars PROVE Inv'
  BY <1>6 DEF vars, Inv, RowsOK, MembersOK, RequestsOK, MembersExist, UniqueNames, Stored
<1> QED
  BY <1>1, <1>2, <1>3, <1>4, <1>5, <1>6, <1>7 DEF Next, BrowseRequest

(* The invariant holds in every state.                                     *)
LEMMA InvCorrect == Spec => []Inv
BY InitInv, NextInv, PTL DEF Spec

(* Rows, memberships and the requests that hold copies of them have the    *)
(* types the columns and the code give them.                               *)
THEOREM Typing == Spec => []TablesTypeOK
<1>1. ASSUME Inv PROVE TablesTypeOK
  <2>1. (\A t \in Tables : row[t] \in [IdsOf(t) -> Rows(t) \cup {Absent}]) /\ DOMAIN row = Tables
    <3>1. row = [t \in Tables |-> row[t]]
      BY <1>1 DEF Inv, RowsOK
    <3>2. DOMAIN row = Tables
      BY <3>1
    <3> QED
      BY <1>1, <3>2 DEF Inv, RowsOK
  <2>2. req \in [Admins -> {Idle} \cup MembersRequest \cup UNION {SaveRequest(t) : t \in Tables}]
    BY <1>1 DEF Inv, RequestsOK
  <2> QED
    BY <1>1, <2>1, <2>2 DEF TablesTypeOK, Inv, MembersOK
<1> QED
  BY <1>1, InvCorrect, PTL

(* No two categories ever have one name, whatever rows wait to be saved    *)
(* over the table.                                                         *)
THEOREM NamesStayUnique == Spec => []UniqueNames
BY InvCorrect, PTL DEF Inv

(* No book is ever in an age group that is gone, also when the list of its *)
(* age groups was read before the group was deleted.                       *)
THEOREM MembersStayExisting == Spec => []MembersExist
BY InvCorrect, PTL DEF Inv

(* A book leaves an age group only when that is asked, when the age group  *)
(* is deleted, or by a list that is older than its membership.             *)
THEOREM RemovalsAreAsked == Spec => NoSilentRemoval
<1> DEFINE Asked ==
      \A b \in Books : \A g \in member[b] \ member'[b] :
          \/ row'["group"][g] = Absent
          \/ \E p \in Admins : /\ req[p].at = "members" /\ req[p].book = b
                               /\ g \in req[p].dropped \/ g \notin req[p].seen
<1>1. Inv /\ [Next]_vars => [Asked]_vars
  <2> SUFFICES ASSUME Inv, Next, NEW b \in Books, NEW g \in member[b], g \notin member'[b]
               PROVE  \/ row'["group"][g] = Absent
                      \/ \E p \in Admins : /\ req[p].at = "members" /\ req[p].book = b
                                           /\ g \in req[p].dropped \/ g \notin req[p].seen
    OBVIOUS
  <2>1. ASSUME NEW t \in Tables, Request(t) PROVE row'["group"][g] = Absent
    <3>1. PICK ids \in SUBSET IdsOf(t) : Delete(t, ids)
      BY <2>1 DEF Request, Create, Update
    <3>2. t = "group" /\ g \in ids
      BY <3>1 DEF Delete, Inv, MembersOK
    <3> QED
      BY <3>1, <3>2, GroupIds DEF Delete, Inv, RowsOK
  <2>2. ASSUME NEW p \in Admins, SaveMembers(p)
        PROVE  /\ req[p].at = "members" /\ req[p].book = b
               /\ g \in req[p].dropped \/ g \notin req[p].seen
    BY <2>2, RequestKinds DEF SaveMembers, Inv, MembersOK
  <2>3. ASSUME member' = member PROVE FALSE
    BY <2>3
  <2>4. ASSUME NEW p \in Admins, SaveUpdate(p) PROVE member' = member
    BY <2>4 DEF SaveUpdate
  <2>5. ASSUME NEW p \in Admins, NEW c \in Books, NEW h \in AgeGroups,
               AddBookToAgeGroup(p, c, h) \/ RemoveBookFromAgeGroup(p, c, h)
        PROVE  member' = member
    BY <2>5 DEF AddBookToAgeGroup, RemoveBookFromAgeGroup
  <2>7. ASSUME NEW p \in Admins, NEW c \in Books, NEW ids \in SUBSET AgeGroups, ListAgeGroups(p, c, ids)
        PROVE  member' = member
    BY <2>7 DEF ListAgeGroups
  <2>6. ASSUME Boot PROVE member' = member
    BY <2>6 DEF Boot
  <2> QED
    BY <2>1, <2>2, <2>3, <2>4, <2>5, <2>6, <2>7
    DEF Next, CategoryRequest, AgeGroupRequest, BrowseRequest, FormatRequest, CollectionRequest, Tables
<1>2. NoSilentRemoval <=> [][Asked]_vars
  BY DEF NoSilentRemoval
<1> HIDE DEF Asked
<1> QED
  BY <1>1, <1>2, InvCorrect, PTL DEF Spec

=============================================================================
