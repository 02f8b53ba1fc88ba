---------------------------- MODULE CatalogTables ----------------------------
(***************************************************************************)
(* The tables the administrators keep: categories, age groups, the formats *)
(* and collections of the browse page, and which books are in which age    *)
(* group.  The four services have the same operations.  An update reads    *)
(* rows, copies the request over them and saves them; save writes every    *)
(* column back as it was read and inserts a row that is gone.  Of a row    *)
(* the name of a category or the label of the others is kept.              *)
(***************************************************************************)
EXTENDS Integers, FiniteSets

CONSTANTS
    Categories, AgeGroups, Formats, Collections,    \* ids
    Names, Labels,  \* names of categories, labels of the others
    Defaults,       \* ids of the age groups that are seeded
    Books,          \* books, from their creation on or not yet created
    Admins,         \* requests of administrators in flight
    Absent

ASSUME TablesAssumption ==
    /\ Defaults # {} /\ Defaults \subseteq AgeGroups
    /\ Labels # {} /\ Absent \notin Names \cup Labels

Tables == {"category", "group", "format", "collection"}
IdsOf(t) == CASE t = "category" -> Categories [] t = "group" -> AgeGroups
              [] t = "format" -> Formats [] t = "collection" -> Collections
Rows(t) == IF t = "category" THEN Names ELSE Labels
(* MUTANT: the seeds have no label of their own.                           *)
SeedsUnlabelled == [i \in Defaults |-> i]
(* The default age groups.                                                 *)
Seeds == [i \in Defaults |-> CHOOSE l \in Labels : TRUE]

VARIABLES
    row,            \* table -> id -> row, or Absent
    member,         \* Books -> age groups, by book_age_groups
    req             \* Admins -> request between its read and its save

vars == <<row, member, req>>

Idle == [at |-> "idle"]

Stored(t) == {i \in IdsOf(t) : row[t][i] # Absent}

(* What a request has read: the rows it will save.                         *)
Snapshots(t) == UNION {[ids -> Rows(t)] : ids \in SUBSET IdsOf(t)}

SaveRequest(t) == [at : {"save"}, table : {t}, rows : Snapshots(t)]
MembersRequest == [at : {"members"}, book : Books, dropped : SUBSET AgeGroups,
                   seen : SUBSET AgeGroups, rows : Snapshots("group")]

TablesTypeOK ==
    /\ \A t \in Tables : row[t] \in [IdsOf(t) -> Rows(t) \cup {Absent}]
    /\ DOMAIN row = Tables
    /\ member \in [Books -> SUBSET AgeGroups]
    /\ req \in [Admins -> {Idle} \cup MembersRequest \cup UNION {SaveRequest(t) : t \in Tables}]

Init ==
    /\ row = [t \in Tables |-> [i \in IdsOf(t) |->
                IF t = "group" /\ i \in Defaults THEN Seeds[i] ELSE Absent]]
    /\ member = [b \in Books |-> {}]
    /\ req = [p \in Admins |-> Idle]

(* The table after save: the given rows over what is there.                *)
Over(t, rows) == [i \in IdsOf(t) |-> IF i \in DOMAIN rows THEN rows[i] ELSE row[t][i]]

(* The unique index on the names of categories.                            *)
(* MUTANT: there is none.                                                  *)
NamesFreeAlways(t, new) == t \in Tables
NamesFree(t, new) ==
    t = "category" =>
        \A i, j \in IdsOf(t) : i # j /\ new[i] # Absent /\ new[j] # Absent => new[i] # new[j]

(* save, in a transaction: all rows or, by the index, none.                *)
SaveRows(t, rows) ==
    row' = IF NamesFree(t, Over(t, rows)) THEN [row EXCEPT ![t] = Over(t, rows)] ELSE row

(* create and bulkCreate.  The database gives the ids, but for age groups, *)
(* whose ids the administrator gives: a row with that id is overwritten.   *)
Create(t, rows) ==
    /\ t # "group" => DOMAIN rows \cap Stored(t) = {}
    /\ SaveRows(t, rows)
    /\ UNCHANGED <<member, req>>

(* update and bulkUpdate: every row must be there (404), then the request  *)
(* is copied over the rows.                                                *)
Update(p, t, rows) ==
    /\ req[p] = Idle
    /\ DOMAIN rows \subseteq Stored(t)
    /\ req' = [req EXCEPT ![p] = [at |-> "save", table |-> t, rows |-> rows]]
    /\ UNCHANGED <<row, member>>

SaveUpdate(p) ==
    /\ req[p].at = "save"
    /\ SaveRows(req[p].table, req[p].rows)
    /\ req' = [req EXCEPT ![p] = Idle]
    /\ UNCHANGED member

(* delete (404 when there is no row) and bulkDelete.  The rows of          *)
(* book_age_groups go with their age group.                                *)
(* MUTANT: memberships stay.                                               *)
DeleteRowsOnly(t, ids) ==
    /\ ids \cap Stored(t) # {}
    /\ row' = [row EXCEPT ![t] = [i \in IdsOf(t) |-> IF i \in ids THEN Absent ELSE row[t][i]]]
    /\ UNCHANGED <<member, req>>
Delete(t, ids) ==
    /\ ids \cap Stored(t) # {}
    /\ row' = [row EXCEPT ![t] = [i \in IdsOf(t) |-> IF i \in ids THEN Absent ELSE row[t][i]]]
    /\ member' = IF t = "group" THEN [b \in Books |-> member[b] \ ids] ELSE member
    /\ UNCHANGED req

(* A request on one row, or in bulk.                                       *)
Request(t) ==
    \E ids \in (SUBSET IdsOf(t)) \ {{}} :
        \/ \E rows \in [ids -> Rows(t)] : Create(t, rows) \/ \E p \in Admins : Update(p, t, rows)
        \/ Delete(t, ids)
CategoryRequest == Request("category")
AgeGroupRequest == Request("group")
FormatRequest == Request("format")
CollectionRequest == Request("collection")
BrowseRequest == FormatRequest \/ CollectionRequest

(* A request for a book's age groups saves the list it leaves, and by      *)
(* cascade the rows of these age groups as it read them; dropped are those *)
(* it was told to leave out.                                               *)
Leaves(p, b, dropped, groups) ==
    req' = [req EXCEPT ![p] = [at |-> "members", book |-> b, dropped |-> dropped, seen |-> member[b],
                               rows |-> [i \in groups |-> row["group"][i]]]]

(* addBookToAgeGroup and removeBookFromAgeGroup read the book's list first. *)
AddBookToAgeGroup(p, b, g) ==
    /\ req[p] = Idle
    /\ g \in Stored("group") \ member[b]
    /\ Leaves(p, b, {}, member[b] \cup {g})
    /\ UNCHANGED <<row, member>>

(* MUTANT: the removal leaves what it should take away.                    *)
KeepOnly(p, b, g) ==
    /\ req[p] = Idle
    /\ g \in member[b]
    /\ Leaves(p, b, {g}, {g})
    /\ UNCHANGED <<row, member>>
RemoveBookFromAgeGroup(p, b, g) ==
    /\ req[p] = Idle
    /\ g \in member[b]
    /\ Leaves(p, b, {g}, member[b] \ {g})
    /\ UNCHANGED <<row, member>>

(* create and updateBook of books: the list is that of the request, of the *)
(* age groups that are there; what the book was in is not looked at.       *)
ListAgeGroups(p, b, ageGroupIds) ==
    /\ req[p] = Idle
    /\ Leaves(p, b, AgeGroups \ ageGroupIds, ageGroupIds \cap Stored("group"))
    /\ UNCHANGED <<row, member>>

SaveMembers(p) ==
    /\ req[p].at = "members"
    /\ row' = [row EXCEPT !["group"] = Over("group", req[p].rows)]
    /\ member' = [member EXCEPT ![req[p].book] = DOMAIN req[p].rows]
    /\ req' = [req EXCEPT ![p] = Idle]

(* A new process; onModuleInit fills an empty table before it listens.     *)
Boot ==
    /\ row' = IF Stored("group") = {} THEN [row EXCEPT !["group"] = Over("group", Seeds)] ELSE row
    /\ req' = [p \in Admins |-> Idle]
    /\ UNCHANGED member

Next ==
    \/ CategoryRequest \/ AgeGroupRequest \/ BrowseRequest
    \/ \E p \in Admins :
        \/ SaveUpdate(p) \/ SaveMembers(p)
        \/ \E b \in Books, g \in AgeGroups : AddBookToAgeGroup(p, b, g) \/ RemoveBookFromAgeGroup(p, b, g)
        \/ \E b \in Books, ageGroupIds \in SUBSET AgeGroups : ListAgeGroups(p, b, ageGroupIds)
    \/ Boot

Spec == Init /\ [][Next]_vars

-----------------------------------------------------------------------------
(* No two categories have one name, whatever is saved late or in bulk.     *)
UniqueNames ==
    \A c, d \in Stored("category") : row["category"][c] = row["category"][d] => c = d

(* A book is only in age groups that exist, also when one is deleted while *)
(* a list that holds it waits to be saved.                                 *)
MembersExist == \A b \in Books : member[b] \subseteq Stored("group")

(* A book leaves an age group only when this is asked, when the age group  *)
(* is deleted, or by a list that was read before the book was added.       *)
NoSilentRemoval ==
    [][\A b \in Books : \A g \in member[b] \ member'[b] :
          \/ row'["group"][g] = Absent
          \/ \E p \in Admins : /\ req[p].at = "members" /\ req[p].book = b
                               /\ g \in req[p].dropped \/ g \notin req[p].seen]_vars

=============================================================================
