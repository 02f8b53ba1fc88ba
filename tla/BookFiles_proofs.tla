-------------------------- MODULE BookFiles_proofs --------------------------
(***************************************************************************)
(* Proofs about BookFiles and BookQueries.  A request of an administrator  *)
(* works from rows it read before others committed; the unique index is    *)
(* looked at when it saves, and of a variant it saves the columns the      *)
(* request names.                                                          *)
(***************************************************************************)
EXTENDS BookQueries, FiniteSetTheorems, SequenceTheorems, TLAPS

(* The invariant: what is a row has its columns.                           *)
BooksOK ==
    /\ books = [b \in BookIds |-> books[b]]
    /\ \A b \in Rows(books) : DOMAIN books[b] = {"title", "visibility", "isArchived", "image"}
VariantsOK ==
    /\ variants = [v \in VariantIds |-> variants[v]]
    /\ \A v \in Rows(variants) : DOMAIN variants[v] = {"book", "format", "stock", "reserved", "file"}

(* Rows that are there, and rows not yet inserted.                         *)
LEMMA RowsFacts ==
    /\ \A table : \A k \in Rows(table) : k \in DOMAIN table /\ table[k] \notin {NoRow, Gone}
    /\ \A table : Rows(table) \cap Fresh(table) = {}
BY DEF Rows, Fresh

-----------------------------------------------------------------------------
(* Books. *)

(* A creation tests the index in the step that inserts.                    *)
LEMMA CreateTitles ==
    ASSUME NEW p \in Admins, BooksOK, UniqueTitles, Create(p)
    PROVE  BooksOK' /\ UniqueTitles'
<1> DEFINE drafts == req[p].drafts
<1>1. PICK id \in Injection(DOMAIN drafts, Fresh(books)) :
        /\ \A n \in DOMAIN drafts : TitleFree(id[n], drafts[n].title)
        /\ \A m, n \in DOMAIN drafts : m # n => drafts[m].title # drafts[n].title
        /\ books' = [b \in BookIds |->
                IF b \notin Range(id) THEN books[b]
                ELSE NewBook(req[p], CHOOSE n \in DOMAIN id : id[n] = b)]
  BY DEF Create
<1>2. id \in [DOMAIN drafts -> Fresh(books)]
  BY <1>1 DEF Injection
<1>3. ASSUME NEW b \in BookIds, b \in Range(id)
      PROVE  \E n \in DOMAIN drafts : id[n] = b /\ books'[b] = NewBook(req[p], n)
  BY <1>1, <1>2, <1>3, Zenon DEF Range
<1>4. ASSUME NEW b \in BookIds, b \notin Range(id) PROVE books'[b] = books[b]
  BY <1>1, <1>4
<1>5. BooksOK'
  BY <1>1, <1>3, <1>4 DEF BooksOK, Rows, NewBook
<1>6. ASSUME NEW b \in BookIds, b \in Range(id)
      PROVE  \E n \in DOMAIN drafts : /\ id[n] = b /\ books'[b].title = drafts[n].title
                                      /\ TitleFree(b, drafts[n].title)
  <2>1. PICK n \in DOMAIN drafts : id[n] = b /\ books'[b] = NewBook(req[p], n)
    BY <1>3, <1>6
  <2>2. NewBook(req[p], n).title = drafts[n].title
    BY DEF NewBook
  <2>3. TitleFree(id[n], drafts[n].title)
    BY <1>1
  <2> HIDE DEF drafts
  <2> QED
    BY <2>1, <2>2, <2>3
<1> HIDE DEF drafts
<1>7. ASSUME NEW b \in BookIds, NEW c \in BookIds, b \in Range(id), c \in Range(id), b # c
      PROVE  books'[b].title # books'[c].title
  BY <1>1, <1>6, <1>7
<1>8. ASSUME NEW b \in BookIds, NEW c \in BookIds, b \in Range(id), c \notin Range(id),
             c \in Rows(books')
      PROVE  books'[b].title # books'[c].title
  <2>1. books'[c] = books[c]
    BY <1>4, <1>8
  <2>2. c \in Rows(books)
    BY <1>8, <2>1 DEF Rows, BooksOK
  <2>3. b # c
    BY <1>8
  <2>4. PICK n \in DOMAIN drafts : books'[b].title = drafts[n].title /\ TitleFree(b, drafts[n].title)
    BY <1>6, <1>8
  <2> QED
    BY <2>1, <2>2, <2>3, <2>4 DEF TitleFree
<1>9. ASSUME NEW b \in Rows(books'), NEW c \in Rows(books'), b # c
      PROVE  books'[b].title # books'[c].title
  <2>1. b \in BookIds /\ c \in BookIds
    BY <1>1 DEF Rows
  <2>2. CASE b \notin Range(id) /\ c \notin Range(id)
    <3>1. books'[b] = books[b] /\ books'[c] = books[c]
      BY <1>4, <2>1, <2>2
    <3>2. b \in Rows(books) /\ c \in Rows(books)
      BY <2>1, <3>1 DEF Rows, BooksOK
    <3> QED
      BY <1>9, <3>1, <3>2 DEF UniqueTitles
  <2> QED
    BY <1>7, <1>8, <1>9, <2>1, <2>2
<1> QED
  BY <1>5, <1>9 DEF UniqueTitles

(* An update tests it in the step that saves, also when it puts back a     *)
(* deleted book.                                                           *)
LEMMA UpdateTitles ==
    ASSUME NEW p \in Admins, BooksOK, UniqueTitles, UpdateBook(p)
    PROVE  BooksOK' /\ UniqueTitles'
<1> DEFINE b == req[p].book
           title == Overlaid(req[p].drafts[1].title, req[p].row.title)
           saved == [title |-> title,
                     visibility |-> Overlaid(req[p].drafts[1].visibility, req[p].row.visibility),
                     isArchived |-> FALSE, image |-> Url(req[p], <<1, 0>>, req[p].row.image)]
<1>1. TitleFree(b, title) /\ books' = [books EXCEPT ![b] = saved]
  BY DEF UpdateBook
<1>2. saved.title = title /\ DOMAIN saved = {"title", "visibility", "isArchived", "image"}
  OBVIOUS
<1> HIDE DEF b, title, saved
<1>3. BooksOK'
  BY <1>1, <1>2 DEF BooksOK, Rows
<1> QED
  BY <1>1, <1>2, <1>3 DEF UniqueTitles, TitleFree, Rows, BooksOK

(* Archiving and deleting free a title or leave it.                        *)
LEMMA DeleteTitles ==
    ASSUME NEW p \in Admins, BooksOK, UniqueTitles, MarkBookArchived(p) \/ DeleteBookRecord(p)
    PROVE  BooksOK' /\ UniqueTitles'
<1>1. CASE books' = books
  BY <1>1 DEF BooksOK, UniqueTitles, Rows
<1>2. ASSUME NEW b \in Rows(books), books' = [books EXCEPT ![b].isArchived = TRUE]
      PROVE  BooksOK' /\ UniqueTitles'
  <2>1. books'[b].title = books[b].title /\ DOMAIN books'[b] = DOMAIN books[b]
    BY <1>2 DEF BooksOK, Rows
  <2>2. b \in BookIds /\ \A c \in BookIds \ {b} : books'[c] = books[c]
    BY <1>2 DEF BooksOK, Rows
  <2>3. DOMAIN books' = BookIds /\ books' = [c \in BookIds |-> books'[c]]
    BY <1>2 DEF BooksOK
  <2>4. Rows(books') \subseteq Rows(books)
    BY <1>2, <2>2, <2>3 DEF BooksOK, Rows
  <2>5. \A c \in Rows(books') : books'[c].title = books[c].title /\ DOMAIN books'[c] = DOMAIN books[c]
    BY <2>1, <2>2, <2>3 DEF Rows
  <2> QED
    BY <2>3, <2>4, <2>5 DEF BooksOK, UniqueTitles
<1>3. ASSUME NEW b, books' = [books EXCEPT ![b] = Gone] PROVE BooksOK' /\ UniqueTitles'
  BY <1>3 DEF BooksOK, UniqueTitles, Rows
<1> QED
  BY <1>1, <1>2, <1>3 DEF MarkBookArchived, DeleteBookRecord

(* A book saved as it was read tests the index too.                        *)
LEMMA AgeGroupTitles ==
    ASSUME NEW p \in Admins, BooksOK, UniqueTitles, SaveAgeGroup(p),
           DOMAIN req[p].row = {"title", "visibility", "isArchived", "image"}
    PROVE  BooksOK' /\ UniqueTitles'
<1> DEFINE b == req[p].book row == req[p].row
<1>1. TitleFree(b, row.title) /\ books' = [books EXCEPT ![b] = row]
  BY DEF SaveAgeGroup
<1>2. DOMAIN row = {"title", "visibility", "isArchived", "image"}
  OBVIOUS
<1> HIDE DEF b, row
<1>3. BooksOK'
  BY <1>1, <1>2 DEF BooksOK, Rows
<1> QED
  BY <1>1, <1>2, <1>3 DEF UniqueTitles, TitleFree, Rows, BooksOK

-----------------------------------------------------------------------------
(* Variants.  One that a cart or an order names is not deleted, and what   *)
(* is saved of a variant are other columns than what is reserved of it.    *)

Columns == {"book", "format", "stock", "reserved", "file"}
KeepsReserved ==
    \A v \in Rows(variants) :
        \/ variants'[v] = Gone /\ v \notin inUse
        \/ variants'[v].reserved = variants[v].reserved

(* A new variant has all the columns.                                      *)
LEMMA NewVariantColumns ==
    ASSUME NEW op, NEW b, NEW line, NEW file
    PROVE  DOMAIN NewVariant(op, b, line, file) = Columns
BY DEF NewVariant, Columns

(* An edited variant keeps what is reserved.                               *)
LEMMA EditedColumns ==
    ASSUME NEW r, NEW v, NEW i, DOMAIN variants[v] = Columns
    PROVE  /\ DOMAIN Edited(r, v, i) = Columns
           /\ Edited(r, v, i).reserved = variants[v].reserved
BY DEF Edited, Columns

(* Moving a variant to a book changes nothing else.                        *)
LEMMA BookColumn ==
    ASSUME NEW row, NEW b, DOMAIN row = Columns
    PROVE  /\ DOMAIN [row EXCEPT !.book = b] = Columns
           /\ [row EXCEPT !.book = b].reserved = row.reserved
BY DEF Columns

(* A creation adds variants and touches none.                              *)
LEMMA CreateVariants ==
    ASSUME NEW p \in Admins, VariantsOK, Create(p)
    PROVE  VariantsOK' /\ KeepsReserved
<1> DEFINE r == req[p]
           lines == {slot \in Slots(r.drafts) : slot[2] # 0}
           free == NextVariants(Cardinality(lines))
<1>1. PICK id \in Injection(DOMAIN r.drafts, Fresh(books)), row \in Injection(lines, free) :
        variants' = [v \in VariantIds |->
                IF v \notin Range(row) THEN variants[v]
                ELSE LET s == CHOOSE s \in lines : row[s] = v
                     IN NewVariant(r.op, id[s[1]], r.drafts[s[1]].variants[s[2]], Url(r, s, NoFile))]
  BY DEF Create
<1>2. Range(row) \subseteq Fresh(variants)
  BY <1>1 DEF Injection, Range, NextVariants
<1> HIDE DEF lines, free
<1>3. \A v \in VariantIds : v \in Range(row) => DOMAIN variants'[v] = Columns
  BY <1>1, NewVariantColumns
<1>4. \A v \in VariantIds : v \notin Range(row) => variants'[v] = variants[v]
  BY <1>1
<1>5. VariantsOK'
  <2>1. variants' = [v \in VariantIds |-> variants'[v]]
    BY <1>1
  <2>2. ASSUME NEW v \in Rows(variants') PROVE DOMAIN variants'[v] = Columns
    <3>1. v \in VariantIds
      BY <2>1 DEF Rows
    <3>2. v \notin Range(row) => v \in Rows(variants)
      BY <1>4, <3>1 DEF Rows, VariantsOK
    <3> QED
      BY <1>3, <1>4, <3>1, <3>2 DEF VariantsOK, Columns
  <2> QED
    BY <2>1, <2>2 DEF VariantsOK, Columns
<1>6. KeepsReserved
  BY <1>2, <1>4 DEF KeepsReserved, VariantsOK, Rows, Fresh
<1> QED
  BY <1>5, <1>6

(* An update writes variants it read long ago, but not what is reserved of *)
(* them.                                                                   *)
LEMMA UpdateVariants ==
    ASSUME NEW p \in Admins, VariantsOK, UpdateBook(p)
    PROVE  VariantsOK' /\ KeepsReserved
<1> DEFINE r == req[p] e == r.drafts[1] b == r.book seen == Rows(r.formats)
           Added(m) == {i \in DOMAIN m : m[i] = NoId}
           Deleted(m) == IF e.replaceVariants THEN seen \ Range(m) ELSE {}
<1>1. PICK m \in Claims(r) :
        /\ Deleted(m) \cap inUse = {}
        /\ \E row \in Injection(Added(m), NextVariants(Cardinality(Added(m)))) :
            variants' = [v \in VariantIds |->
                IF v \in Range(row)
                THEN LET i == CHOOSE i \in Added(m) : row[i] = v
                     IN NewVariant("update", b, e.variants[i], Url(r, <<1, i>>, NoFile))
                ELSE IF v \notin Rows(variants) THEN variants[v]
                ELSE IF v \in Deleted(m) THEN Gone
                ELSE IF v \in Range(m)
                THEN [Edited(r, v, CHOOSE i \in DOMAIN m : m[i] = v) EXCEPT !.book = b]
                ELSE IF v \in seen THEN [variants[v] EXCEPT !.book = b]
                ELSE IF variants[v].book = b THEN [variants[v] EXCEPT !.book = NoId]
                ELSE variants[v]]
  BY DEF UpdateBook
<1> DEFINE added == Added(m) deleted == Deleted(m)
<1>2. PICK row \in Injection(added, NextVariants(Cardinality(added))) :
            variants' = [v \in VariantIds |->
                IF v \in Range(row)
                THEN LET i == CHOOSE i \in added : row[i] = v
                     IN NewVariant("update", b, e.variants[i], Url(r, <<1, i>>, NoFile))
                ELSE IF v \notin Rows(variants) THEN variants[v]
                ELSE IF v \in deleted THEN Gone
                ELSE IF v \in Range(m)
                THEN [Edited(r, v, CHOOSE i \in DOMAIN m : m[i] = v) EXCEPT !.book = b]
                ELSE IF v \in seen THEN [variants[v] EXCEPT !.book = b]
                ELSE IF variants[v].book = b THEN [variants[v] EXCEPT !.book = NoId]
                ELSE variants[v]]
  BY <1>1
<1>3. Range(row) \subseteq Fresh(variants)
  BY <1>2 DEF Injection, Range, NextVariants
<1> HIDE DEF r, e, b, seen, Added, Deleted, added, deleted
<1>4. \A v \in VariantIds : v \in Range(row) => DOMAIN variants'[v] = Columns
  BY <1>2, NewVariantColumns
<1>5. ASSUME NEW v \in VariantIds, v \notin Range(row), v \in Rows(variants), v \notin deleted
      PROVE  DOMAIN variants'[v] = Columns /\ variants'[v].reserved = variants[v].reserved
  <2>1. DOMAIN variants[v] = Columns
    BY <1>5 DEF VariantsOK, Columns
  <2>2. CASE v \in Range(m)
    <3> DEFINE i == CHOOSE i \in DOMAIN m : m[i] = v
    <3>1. variants'[v] = [Edited(r, v, i) EXCEPT !.book = b]
      BY <1>2, <1>5, <2>2
    <3>2. DOMAIN Edited(r, v, i) = Columns /\ Edited(r, v, i).reserved = variants[v].reserved
      BY <2>1, EditedColumns
    <3> HIDE DEF i
    <3> QED
      BY <3>1, <3>2, BookColumn
  <2>3. CASE v \notin Range(m)
    <3>1. \/ variants'[v] = [variants[v] EXCEPT !.book = b]
          \/ variants'[v] = [variants[v] EXCEPT !.book = NoId]
          \/ variants'[v] = variants[v]
      BY <1>2, <1>5, <2>3
    <3> QED
      BY <2>1, <3>1, BookColumn
  <2> QED
    BY <2>2, <2>3
<1>6. \A v \in VariantIds : v \notin Range(row) /\ v \notin Rows(variants) => variants'[v] = variants[v]
  BY <1>2
<1>7. \A v \in VariantIds :
        v \notin Range(row) /\ v \in Rows(variants) /\ v \in deleted => variants'[v] = Gone
  BY <1>2
<1>8. VariantsOK'
  <2>1. variants' = [v \in VariantIds |-> variants'[v]]
    BY <1>2
  <2>2. ASSUME NEW v \in Rows(variants') PROVE DOMAIN variants'[v] = Columns
    <3>1. v \in VariantIds /\ variants'[v] \notin {NoRow, Gone}
      BY <2>1 DEF Rows
    <3>2. v \notin Range(row) => v \in Rows(variants)
      BY <1>6, <3>1 DEF Rows, VariantsOK
    <3> QED
      BY <1>4, <1>5, <1>7, <3>1, <3>2
  <2> QED
    BY <2>1, <2>2 DEF VariantsOK, Columns
<1>9. KeepsReserved
  <2> SUFFICES ASSUME NEW v \in Rows(variants)
               PROVE  \/ variants'[v] = Gone /\ v \notin inUse
                      \/ variants'[v].reserved = variants[v].reserved
    BY DEF KeepsReserved
  <2>1. v \in VariantIds /\ v \notin Range(row)
    BY <1>3 DEF VariantsOK, Rows, Fresh
  <2>2. CASE v \in deleted
    BY <1>1, <1>7, <2>1, <2>2 DEF deleted
  <2> QED
    BY <1>5, <2>1, <2>2
<1> QED
  BY <1>8, <1>9

(* Deleting a book takes its variants with it.                             *)
LEMMA OtherVariants ==
    ASSUME NEW p \in Admins, VariantsOK, DeleteBookRecord(p)
    PROVE  VariantsOK' /\ KeepsReserved
<1>1. variants' = [v \in VariantIds |-> IF v \in VariantsOf(req[p].book) THEN Gone ELSE variants[v]]
  BY DEF DeleteBookRecord
<1>2. VariantsOf(req[p].book) \cap inUse = {}
  BY DEF DeleteBookRecord
<1> QED
  BY <1>1, <1>2 DEF VariantsOK, KeepsReserved, Rows

(* Carts change what is reserved and are no request of an administrator.   *)
LEMMA CountedVariants ==
    ASSUME NEW v \in VariantIds, VariantsOK, Reserve(v) \/ Release(v)
    PROVE  VariantsOK' /\ req' = req
<1>1. PICK n : variants' = [variants EXCEPT ![v].reserved = n]
  BY DEF Reserve, Release
<1>2. v \in Rows(variants)
  BY DEF Reserve, Release
<1>3. DOMAIN variants'[v] = DOMAIN variants[v]
  BY <1>1, <1>2 DEF VariantsOK
<1>4. \A w \in VariantIds \ {v} : variants'[w] = variants[w]
  BY <1>1 DEF VariantsOK
<1>5. variants' = [w \in VariantIds |-> variants'[w]]
  BY <1>1 DEF VariantsOK
<1>6. \A w \in Rows(variants') : w \in Rows(variants) /\ DOMAIN variants'[w] = DOMAIN variants[w]
  BY <1>2, <1>3, <1>4, <1>5 DEF Rows, VariantsOK
<1>7. req' = req
  BY DEF Reserve, Release
<1> QED
  BY <1>5, <1>6, <1>7 DEF VariantsOK

(* Whatever an administrator read before, what carts have reserved since   *)
(* then survives his request.                                              *)
THEOREM ReservedSurvives == Spec => AdminsKeepReserved
<1> DEFINE Survives ==
      \A v \in Rows(variants) : req' # req =>
          \/ variants'[v] = Gone /\ v \notin inUse
          \/ variants'[v].reserved = variants[v].reserved
<1>1. Init => VariantsOK
  BY DEF Init, VariantsOK, Rows
<1>2. VariantsOK /\ [Next]_vars => VariantsOK' /\ [Survives]_vars
  <2> SUFFICES ASSUME VariantsOK, [Next]_vars PROVE VariantsOK' /\ Survives
    OBVIOUS
  <2>1. ASSUME variants' = variants PROVE VariantsOK' /\ Survives
    BY <2>1 DEF VariantsOK, Rows
  <2>2. ASSUME NEW p \in Admins, Begin(p) PROVE variants' = variants
    BY <2>2 DEF Begin, CreateRequest, UpdateRequest, DeleteRequest, AgeGroupRequest,
               CreateBegin, UpdateBegin, DeleteBegin, AgeGroupBegin
  <2>3. ASSUME NEW p \in Admins, UploadAssets(p) \/ DeleteOldKeys(p) \/ DeleteStorage(p)
                                \/ MarkBookArchived(p) \/ SaveAgeGroup(p) \/ Abort(p)
        PROVE  variants' = variants
    BY <2>3 DEF UploadAssets, DeleteOldKeys, DeleteStorage, MarkBookArchived, SaveAgeGroup, Abort
  <2>4. ASSUME NEW f \in Hosted, AdminUpload(f) PROVE variants' = variants
    BY <2>4 DEF AdminUpload
  <2>5. ASSUME NEW v \in VariantIds, Reserve(v) \/ Release(v) PROVE VariantsOK' /\ Survives
    BY <2>5, CountedVariants
  <2>8. ASSUME NEW v \in VariantIds, NameVariant(v) \/ LastRowGoes(v) PROVE variants' = variants
    BY <2>8 DEF NameVariant, LastRowGoes
  <2>6. ASSUME UNCHANGED vars PROVE variants' = variants
    BY <2>6 DEF vars
  <2>7. ASSUME NEW p \in Admins, Create(p) \/ UpdateBook(p) \/ DeleteBookRecord(p)
        PROVE  VariantsOK' /\ Survives
    BY <2>7, CreateVariants, UpdateVariants, OtherVariants DEF KeepsReserved
  <2> QED
    BY <2>1, <2>2, <2>3, <2>4, <2>5, <2>6, <2>7, <2>8 DEF Next, Finish
<1>3. AdminsKeepReserved <=> [][Survives]_vars
  BY DEF AdminsKeepReserved
<1> HIDE DEF Survives
<1> QED
  BY <1>1, <1>2, <1>3, PTL DEF Spec

-----------------------------------------------------------------------------
(* Files.  The keys the clean-ups derive are never those of files uploaded *)
(* through the endpoints of books, so such a file stays once it is stored; *)
(* and a name of one gets into a request, and from it into a row, only     *)
(* when the file is stored.  S stands for the uploads stored so far.       *)

StoredUploads == {f \in Uploads : object[f] = "stored"}
Names(S) == Hosted \cup S \cup {NoFile}
BookRow(S) == [title : Titles, visibility : Visibilities, isArchived : BOOLEAN, image : Names(S)]
VariantRow(S) == [book : BookIds \cup {NoId}, format : Formats, stock : Nat,
                  reserved : Nat, file : Names(S)]
BookTable(S) == [BookIds -> BookRow(S) \cup {NoRow, Gone}]
VariantTable(S) == [VariantIds -> VariantRow(S) \cup {NoRow, Gone}]

(* The files a request names are there, and those it uploaded.             *)
Supplied(r, S) ==
    /\ \A slot \in Slots(r.drafts) :
        Asked(r.drafts, slot) \in Names(S) \/ Asked(r.drafts, slot) \in {Upload, Keep}
    /\ r.phase = "save" => r.files \in [ToUpload(r.drafts) -> S]
Creating(r, S) ==
    /\ DOMAIN r = {"op", "phase", "drafts", "files"}
    /\ r.op \in {"create", "bulkCreate"} /\ r.phase \in {"upload", "save"}
    /\ r.drafts \in Drafts /\ Supplied(r, S)
Updating(r, S) ==
    /\ DOMAIN r = {"op", "phase", "drafts", "files", "book", "row", "formats"}
    /\ r.op = "update" /\ r.phase \in {"upload", "save"}
    /\ r.drafts \in {<<e>> : e \in Edits} /\ Supplied(r, S)
    /\ r.book \in BookIds /\ r.row \in BookRow(S) /\ r.formats \in VariantTable(S)
Deleting(r) ==
    /\ DOMAIN r = {"op", "phase", "book", "force", "keys"}
    /\ r.op = "delete" /\ r.phase \in {"storage", "row"}
    /\ r.book \in BookIds /\ r.keys \subseteq Hosted
Sweeping(r) ==
    /\ DOMAIN r = {"op", "phase", "keys"}
    /\ r.op = "sweep" /\ r.phase = "sweep" /\ r.keys \subseteq Hosted
Saving(r, S) ==
    /\ DOMAIN r = {"op", "phase", "book", "row"}
    /\ r.op = "ageGroup" /\ r.phase = "save" /\ r.book \in BookIds /\ r.row \in BookRow(S)
RequestOK(r, S) ==
    r = Idle \/ Creating(r, S) \/ Updating(r, S) \/ Deleting(r) \/ Sweeping(r) \/ Saving(r, S)

FilesInv ==
    /\ books \in BookTable(StoredUploads)
    /\ variants \in VariantTable(StoredUploads)
    /\ object \in [Files -> {"absent", "stored", "archived"}]
    /\ inUse \subseteq VariantIds
    /\ req = [p \in Admins |-> req[p]]
    /\ \A p \in Admins : RequestOK(req[p], StoredUploads)

(* The invariant has what the runs check.                                  *)
LEMMA FilesInvIsEnough == FilesInv => BooksTypeOK /\ UploadedStored
<1> SUFFICES ASSUME FilesInv PROVE BooksTypeOK /\ UploadedStored
  OBVIOUS
<1>1. BookRow(StoredUploads) \subseteq Book /\ VariantRow(StoredUploads) \subseteq Variant
  BY DEF BookRow, VariantRow, Book, Variant, Names, StoredUploads, Files
<1>2. BooksTypeOK
  BY <1>1 DEF FilesInv, BooksTypeOK, BookTable, VariantTable
<1>3. Referenced \subseteq Names(StoredUploads)
  BY DEF FilesInv, Referenced, BookTable, VariantTable, BookRow, VariantRow, Rows
<1>4. UploadedStored
  BY <1>3, FilesAssumption DEF UploadedStored, Names, StoredUploads, Files
<1> QED
  BY <1>2, <1>4

(* What is known of a request stays so as more uploads are stored.         *)
LEMMA MoreStored ==
    ASSUME NEW S, NEW T, S \subseteq T
    PROVE  /\ BookTable(S) \subseteq BookTable(T) /\ VariantTable(S) \subseteq VariantTable(T)
           /\ \A r : RequestOK(r, S) => RequestOK(r, T)
<1>1. Names(S) \subseteq Names(T)
  BY DEF Names
<1>2. BookRow(S) \subseteq BookRow(T) /\ VariantRow(S) \subseteq VariantRow(T)
  BY <1>1 DEF BookRow, VariantRow
<1>3. BookTable(S) \subseteq BookTable(T) /\ VariantTable(S) \subseteq VariantTable(T)
  BY <1>2 DEF BookTable, VariantTable
<1>4. ASSUME NEW r, Supplied(r, S) PROVE Supplied(r, T)
  BY <1>1, <1>4 DEF Supplied
<1> QED
  BY <1>2, <1>3, <1>4 DEF RequestOK, Creating, Updating, Saving

(* An upload that is stored stays, whatever keys are deleted or moved.     *)
LEMMA ServiceKeys ==
    /\ \A f : ServiceKey(f) \subseteq Hosted /\ DeleteKey(f) \subseteq Hosted
    /\ \A f \in Uploads : ServiceKey(f) = {}
BY FilesAssumption DEF ServiceKey, DeleteKey

(* The services only ever derive the keys of hosted files, so deleting     *)
(* spares the uploaded ones.                                               *)
LEMMA DeletionsSpareUploads ==
    ASSUME object \in [Files -> {"absent", "stored", "archived"}], NEW keys \in SUBSET Hosted,
           DeleteFiles(keys) \/ HandleMoveFiles(keys)
    PROVE  /\ object' \in [Files -> {"absent", "stored", "archived"}]
           /\ StoredUploads \subseteq StoredUploads'
<1>1. PICK done \in SUBSET keys :
        \/ object' = [f \in Files |-> IF f \in done THEN "absent" ELSE object[f]]
        \/ object' = [f \in Files |-> IF f \in done THEN "archived" ELSE object[f]]
  BY DEF DeleteFiles, HandleMoveFiles
<1>2. \A f \in Uploads : f \in Files /\ f \notin done
  BY FilesAssumption DEF Files
<1> QED
  BY <1>1, <1>2 DEF StoredUploads

(* A step that only adds to the stored uploads keeps what it leaves alone. *)
LEMMA OthersKeep ==
    ASSUME FilesInv, NEW p \in Admins, NEW r, req' = [req EXCEPT ![p] = r],
           RequestOK(r, StoredUploads'),
           StoredUploads \subseteq StoredUploads',
           object' \in [Files -> {"absent", "stored", "archived"}], inUse' \subseteq VariantIds,
           books' \in BookTable(StoredUploads'), variants' \in VariantTable(StoredUploads')
    PROVE  FilesInv'
<1>1. \A q \in Admins : RequestOK(req[q], StoredUploads')
  BY MoreStored DEF FilesInv
<1>2. \A q \in Admins : RequestOK(req'[q], StoredUploads')
  BY <1>1 DEF FilesInv
<1>3. req' = [q \in Admins |-> req'[q]]
  BY DEF FilesInv
<1> QED
  BY <1>2, <1>3 DEF FilesInv

(* An administrator without a request refers to no file.                   *)
LEMMA IdleOK == \A S : RequestOK(Idle, S)
BY DEF RequestOK

(* The places of a request at which a file may stand.                      *)
LEMMA SlotFacts ==
    ASSUME NEW drafts, drafts \in Seq(Draft) \/ \E e \in Edit : drafts = <<e>>,
           NEW slot \in Slots(drafts)
    PROVE  /\ slot[1] \in DOMAIN drafts /\ slot[2] \in 0..Len(drafts[slot[1]].variants)
           /\ Asked(drafts, slot) \in Input
           /\ slot[2] # 0 => drafts[slot[1]].variants[slot[2]] \in Line
<1>1. PICK n \in DOMAIN drafts : slot \in {n} \X (0..Len(drafts[n].variants))
  BY DEF Slots
<1>2. slot[1] = n /\ slot[2] \in 0..Len(drafts[n].variants)
  BY <1>1
<1>3. drafts[n] \in Draft \/ drafts[n] \in Edit
  <2>1. CASE drafts \in Seq(Draft)
    BY <1>1, <2>1
  <2>2. ASSUME NEW e \in Edit, drafts = <<e>> PROVE drafts[n] \in Edit
    <3>1. n = 1
      BY <1>1, <2>2
    <3> QED
      BY <2>2, <3>1
  <2> QED
    BY <2>1, <2>2
<1>4. drafts[n].image \in Input /\ drafts[n].variants \in Seq(Line)
  BY <1>3 DEF Draft, Edit
<1>5. \A i \in 1..Len(drafts[n].variants) :
        drafts[n].variants[i] \in Line /\ drafts[n].variants[i].file \in Input
  <2>1. \A i \in 1..Len(drafts[n].variants) : drafts[n].variants[i] \in Line
    BY <1>4
  <2>2. \A line \in Line : line.file \in Input
    BY DEF Line
  <2> QED
    BY <2>1, <2>2
<1>6. slot[2] # 0 => slot[2] \in 1..Len(drafts[n].variants)
  BY <1>2, <1>4
<1>7. Asked(drafts, slot) = IF slot[2] = 0 THEN drafts[n].image ELSE drafts[n].variants[slot[2]].file
  BY <1>2 DEF Asked
<1> QED
  BY <1>1, <1>2, <1>4, <1>5, <1>6, <1>7

(* The name a request saves is one of a file that is there.                *)
LEMMA UrlNames ==
    ASSUME NEW r, NEW S, Supplied(r, S), r.phase = "save",
           NEW slot \in Slots(r.drafts), NEW old \in Names(S)
    PROVE  Url(r, slot, old) \in Names(S)
BY DEF Supplied, ToUpload, Url, Names

(* A request that begins has read rows whose uploaded files are there.     *)
LEMMA BeginFiles ==
    ASSUME FilesInv, NEW p \in Admins, Begin(p)
    PROVE  FilesInv'
<1>1. books' = books /\ variants' = variants /\ object' = object /\ inUse' = inUse
  BY DEF Begin, CreateRequest, UpdateRequest, DeleteRequest, AgeGroupRequest,
         CreateBegin, UpdateBegin, DeleteBegin, AgeGroupBegin
<1>2. StoredUploads' = StoredUploads
  BY <1>1 DEF StoredUploads
<1>3. ASSUME NEW drafts, drafts \in Seq(Draft) \/ \E e \in Edit : drafts = <<e>>,
             NEW r, r.drafts = drafts, r.phase = "upload"
      PROVE  Supplied(r, StoredUploads)
  <2> SUFFICES ASSUME NEW slot \in Slots(drafts), Asked(drafts, slot) \notin {Upload, Keep}
               PROVE  Asked(drafts, slot) \in Names(StoredUploads)
    BY <1>3 DEF Supplied
  <2>1. Asked(drafts, slot) \in Hosted \cup {NoFile}
    BY <1>3, SlotFacts DEF Input
  <2> QED
    BY <2>1 DEF Names
<1>4. ASSUME NEW r, req' = [req EXCEPT ![p] = r], RequestOK(r, StoredUploads) PROVE FilesInv'
  BY <1>1, <1>2, <1>4, OthersKeep DEF FilesInv
<1>5. CASE CreateRequest(p)
  <2>1. PICK op \in {"create", "bulkCreate"}, drafts \in Drafts : CreateBegin(p, op, drafts)
    BY <1>5 DEF CreateRequest
  <2> DEFINE r == [op |-> op, phase |-> "upload", drafts |-> drafts, files |-> <<>>]
  <2>2. Supplied(r, StoredUploads)
    BY <1>3, <2>1, FilesAssumption DEF CreateBegin
  <2>3. Creating(r, StoredUploads)
    BY <2>2 DEF Creating
  <2> QED
    BY <1>4, <2>1, <2>3 DEF CreateBegin, Start, RequestOK
<1>6. CASE UpdateRequest(p)
  <2>1. PICK b \in BookIds, edit \in Edits : UpdateBegin(p, b, edit)
    BY <1>6 DEF UpdateRequest
  <2> DEFINE formats == [v \in VariantIds |-> IF v \in VariantsOf(b) THEN variants[v] ELSE NoRow]
             r == [op |-> "update", phase |-> "upload", drafts |-> <<edit>>, files |-> <<>>, book |-> b,
                   row |-> books[b], formats |-> formats]
  <2>2. Supplied(r, StoredUploads)
    BY <1>3, <2>1, FilesAssumption DEF UpdateBegin
  <2>3. books[b] \in BookRow(StoredUploads) /\ formats \in VariantTable(StoredUploads)
    BY <2>1 DEF UpdateBegin, LiveBooks, Rows, FilesInv, BookTable, VariantTable
  <2>4. Updating(r, StoredUploads)
    BY <2>2, <2>3 DEF Updating
  <2>5. req' = [req EXCEPT ![p] = r]
    BY <2>1 DEF UpdateBegin, Start
  <2> HIDE DEF r
  <2> QED
    BY <1>4, <2>4, <2>5 DEF RequestOK
<1>7. CASE DeleteRequest(p)
  <2>1. PICK b \in BookIds, force \in BOOLEAN : DeleteBegin(p, b, force)
    BY <1>7 DEF DeleteRequest
  <2> DEFINE r == [op |-> "delete", phase |-> "storage", book |-> b, force |-> force,
                   keys |-> DeleteKey(books[b].image)]
  <2>2. Deleting(r)
    BY ServiceKeys DEF Deleting
  <2> QED
    BY <1>4, <2>1, <2>2 DEF DeleteBegin, Start, RequestOK
<1>8. CASE AgeGroupRequest(p)
  <2>1. PICK b \in BookIds : AgeGroupBegin(p, b)
    BY <1>8 DEF AgeGroupRequest
  <2> DEFINE r == [op |-> "ageGroup", phase |-> "save", book |-> b, row |-> books[b]]
  <2>2. books[b] \in BookRow(StoredUploads)
    BY <2>1 DEF AgeGroupBegin, LiveBooks, Rows, FilesInv, BookTable
  <2>3. Saving(r, StoredUploads)
    BY <2>2 DEF Saving
  <2> QED
    BY <1>4, <2>1, <2>3 DEF AgeGroupBegin, Start, RequestOK
<1> QED
  BY <1>5, <1>6, <1>7, <1>8 DEF Begin

(* Uploaded files are there before a row refers to them.                   *)
LEMMA UploadFiles ==
    ASSUME FilesInv, NEW p \in Admins, UploadAssets(p)
    PROVE  FilesInv'
<1> DEFINE r == req[p] slots == ToUpload(r.drafts)
<1>0. PICK stored \in SUBSET slots : \E f \in Keys(stored) :
        /\ object' = AfterUploads(Range(f), stored = slots)
        /\ IF stored = slots THEN Goto(p, [r EXCEPT !.phase = "save", !.files = f]) ELSE Done(p)
  BY DEF UploadAssets
<1>1. PICK f \in Keys(stored) :
        /\ object' = AfterUploads(Range(f), stored = slots)
        /\ IF stored = slots THEN Goto(p, [r EXCEPT !.phase = "save", !.files = f]) ELSE Done(p)
  BY <1>0
<1>2. f \in [stored -> Uploads] /\ Range(f) \subseteq Uploads
  BY <1>1 DEF Keys, Range
<1>3. \A g \in Range(f) : object'[g] = "stored"
  BY <1>1, <1>2, ServiceKeys DEF AfterUploads, Files
<1>4. \A g \in Files \ Range(f) : object'[g] = object[g]
  BY <1>1 DEF AfterUploads
<1>5. object' \in [Files -> {"absent", "stored", "archived"}]
  BY <1>1, <1>3, <1>4 DEF AfterUploads, FilesInv
<1>6. StoredUploads \subseteq StoredUploads' /\ Range(f) \subseteq StoredUploads'
  BY <1>2, <1>3, <1>4 DEF StoredUploads, Files
<1>7. books' \in BookTable(StoredUploads') /\ variants' \in VariantTable(StoredUploads')
  BY <1>6, MoreStored DEF FilesInv, UploadAssets
<1>8. r.phase = "upload" /\ inUse' \subseteq VariantIds
  BY DEF UploadAssets, FilesInv
<1>9. CASE stored = slots
  <2> DEFINE next == [r EXCEPT !.phase = "save", !.files = f]
  <2>1. RequestOK(r, StoredUploads')
    BY <1>6, MoreStored DEF FilesInv
  <2>2. Creating(r, StoredUploads') \/ Updating(r, StoredUploads')
    BY <1>8, <2>1 DEF RequestOK, Idle, Deleting, Sweeping, Saving
  <2> HIDE DEF r
  <2>3. {"op", "phase", "drafts", "files"} \subseteq DOMAIN r
    BY <2>2 DEF Creating, Updating
  <2>4. /\ DOMAIN next = DOMAIN r /\ next.phase = "save" /\ next.files = f
        /\ next.op = r.op /\ next.drafts = r.drafts
    BY <2>3
  <2>5. f \in [ToUpload(next.drafts) -> StoredUploads']
    BY <1>2, <1>6, <1>9, <2>4 DEF Range
  <2>6. Supplied(next, StoredUploads')
    BY <2>2, <2>4, <2>5 DEF Creating, Updating, Supplied
  <2>7. ASSUME Creating(r, StoredUploads') PROVE RequestOK(next, StoredUploads')
    BY <2>4, <2>6, <2>7 DEF Creating, RequestOK
  <2>8. ASSUME Updating(r, StoredUploads') PROVE RequestOK(next, StoredUploads')
    <3>1. next.book = r.book /\ next.row = r.row /\ next.formats = r.formats
      BY <2>8 DEF Updating
    <3> QED
      BY <2>4, <2>6, <2>8, <3>1 DEF Updating, RequestOK
  <2>9. RequestOK(next, StoredUploads')
    BY <2>2, <2>7, <2>8
  <2>10. req' = [req EXCEPT ![p] = next]
    BY <1>1, <1>9 DEF Goto, r
  <2> QED
    BY <1>5, <1>6, <1>7, <1>8, <2>9, <2>10, OthersKeep
<1>10. CASE stored # slots
  BY <1>1, <1>5, <1>6, <1>7, <1>8, <1>10, OthersKeep, IdleOK DEF Done, Goto
<1> QED
  BY <1>9, <1>10

(* Clean-ups have keys of hosted files only.                               *)
LEMMA DeletingFiles ==
    ASSUME FilesInv, NEW p \in Admins, DeleteOldKeys(p) \/ DeleteStorage(p) \/ Abort(p)
    PROVE  FilesInv'
<1>1. RequestOK(req[p], StoredUploads)
  BY DEF FilesInv
<1>2. \E keys \in SUBSET Hosted : DeleteFiles(keys) \/ HandleMoveFiles(keys)
  <2>1. CASE DeleteOldKeys(p)
    BY <1>1, <2>1 DEF DeleteOldKeys, RequestOK, Idle, Creating, Updating, Deleting, Sweeping, Saving
  <2>2. CASE DeleteStorage(p)
    BY <1>1, <2>2 DEF DeleteStorage, RequestOK, Idle, Creating, Updating, Deleting, Sweeping, Saving
  <2>3. CASE Abort(p)
    BY <2>3, ServiceKeys DEF Abort, CleanUp
  <2> QED
    BY <2>1, <2>2, <2>3
<1>3. /\ object' \in [Files -> {"absent", "stored", "archived"}]
      /\ StoredUploads \subseteq StoredUploads'
  BY <1>2, DeletionsSpareUploads DEF FilesInv
<1>4. books' = books /\ variants' = variants /\ inUse' \subseteq VariantIds
  BY DEF DeleteOldKeys, DeleteStorage, Abort, FilesInv
<1>5. books' \in BookTable(StoredUploads') /\ variants' \in VariantTable(StoredUploads')
  BY <1>3, <1>4, MoreStored DEF FilesInv
<1>6. CASE DeleteOldKeys(p) \/ Abort(p)
  BY <1>3, <1>4, <1>5, <1>6, OthersKeep, IdleOK DEF DeleteOldKeys, Abort, Done, Goto
<1>7. CASE DeleteStorage(p)
  <2> DEFINE next == [req[p] EXCEPT !.phase = "row"]
  <2>1. Deleting(req[p])
    BY <1>1, <1>7 DEF DeleteStorage, RequestOK, Idle, Creating, Updating, Sweeping, Saving
  <2>2. Deleting(next)
    BY <2>1 DEF Deleting
  <2>3. RequestOK(next, StoredUploads') /\ req' = [req EXCEPT ![p] = next]
    BY <1>7, <2>2 DEF RequestOK, DeleteStorage, Goto
  <2> HIDE DEF next
  <2> QED
    BY <1>3, <1>4, <1>5, <2>3, OthersKeep
<1> QED
  BY <1>6, <1>7

(* The row of a new book refers to files that are there.                   *)
LEMMA NewBookRow ==
    ASSUME NEW r, NEW S, Creating(r, S), r.phase = "save", NEW n \in DOMAIN r.drafts
    PROVE  NewBook(r, n) \in BookRow(S)
<1>1. r.drafts \in Seq(Draft)
  BY FilesAssumption DEF Creating
<1>2. r.drafts[n] \in Draft
  BY <1>1
<1>3. <<n, 0>> \in Slots(r.drafts)
  <2>1. Len(r.drafts[n].variants) \in Nat
    BY <1>2 DEF Draft
  <2>2. <<n, 0>> \in {n} \X (0..Len(r.drafts[n].variants))
    BY <2>1
  <2> QED
    BY <2>2 DEF Slots
<1>4. Url(r, <<n, 0>>, NoFile) \in Names(S)
  BY <1>3, UrlNames DEF Creating, Names
<1> QED
  BY <1>2, <1>4 DEF NewBook, BookRow, Draft

(* So does the row of a new variant.                                       *)
LEMMA NewVariantRow ==
    ASSUME NEW S, NEW op, NEW b \in BookIds, NEW line \in Line, NEW file \in Names(S)
    PROVE  NewVariant(op, b, line, file) \in VariantRow(S)
<1>1. InitialStock(op, line) \in Nat /\ line.format \in Formats
  BY DEF InitialStock, Line
<1> QED
  BY <1>1 DEF NewVariant, VariantRow

(* The transaction of a creation keeps the invariant.                      *)
LEMMA CreateFiles ==
    ASSUME FilesInv, NEW p \in Admins, Create(p)
    PROVE  FilesInv'
<1> DEFINE r == req[p]
           lines == {slot \in Slots(r.drafts) : slot[2] # 0}
           free == NextVariants(Cardinality(lines))
           S == StoredUploads
<1>1. Creating(r, S) /\ r.phase = "save"
  BY DEF Create, FilesInv, RequestOK, Idle, Updating, Deleting, Sweeping, Saving
<1>2. PICK id \in Injection(DOMAIN r.drafts, Fresh(books)), row \in Injection(lines, free) :
        /\ books' = [b \in BookIds |->
                IF b \notin Range(id) THEN books[b]
                ELSE NewBook(r, CHOOSE n \in DOMAIN id : id[n] = b)]
        /\ variants' = [v \in VariantIds |->
                IF v \notin Range(row) THEN variants[v]
                ELSE LET s == CHOOSE s \in lines : row[s] = v
                     IN NewVariant(r.op, id[s[1]], r.drafts[s[1]].variants[s[2]], Url(r, s, NoFile))]
  BY DEF Create
<1>3. id \in [DOMAIN r.drafts -> BookIds] /\ row \in [lines -> free]
  BY <1>2 DEF Injection, Fresh, FilesInv, BookTable
<1>4. object' = object /\ S' = S /\ req' = [req EXCEPT ![p] = Idle]
  BY DEF Create, Done, Goto, StoredUploads
<1>5. r.drafts \in Seq(Draft)
  BY <1>1, FilesAssumption DEF Creating
<1>6. NoFile \in Names(S)
  BY DEF Names
<1>7. ASSUME NEW slot \in lines
      PROVE  NewVariant(r.op, id[slot[1]], r.drafts[slot[1]].variants[slot[2]], Url(r, slot, NoFile))
                 \in VariantRow(S)
  <2>1. slot \in Slots(r.drafts) /\ slot[2] # 0
    OBVIOUS
  <2>2. id[slot[1]] \in BookIds /\ r.drafts[slot[1]].variants[slot[2]] \in Line
    BY <1>3, <1>5, <2>1, SlotFacts
  <2>3. Url(r, slot, NoFile) \in Names(S)
    BY <1>1, <1>6, <2>1, UrlNames DEF Creating
  <2> QED
    BY <2>2, <2>3, NewVariantRow
<1>8. \A n \in DOMAIN id : NewBook(r, n) \in BookRow(S)
  BY <1>1, <1>3, NewBookRow
<1> HIDE DEF r, lines, free, S
<1>9. books' \in BookTable(S)
  <2>1. ASSUME NEW b \in BookIds, b \in Range(id) PROVE books'[b] \in BookRow(S)
    <3>1. (CHOOSE n \in DOMAIN id : id[n] = b) \in DOMAIN id
      BY <2>1 DEF Range
    <3> QED
      BY <1>2, <1>8, <2>1, <3>1
  <2>2. \A b \in BookIds : b \notin Range(id) => books'[b] \in BookRow(S) \cup {NoRow, Gone}
    BY <1>2 DEF FilesInv, BookTable, S
  <2>3. books' = [b \in BookIds |-> books'[b]]
    BY <1>2
  <2> QED
    BY <2>1, <2>2, <2>3 DEF BookTable
<1>10. variants' \in VariantTable(S)
  <2>1. ASSUME NEW v \in VariantIds, v \in Range(row) PROVE variants'[v] \in VariantRow(S)
    <3> DEFINE s == CHOOSE s \in lines : row[s] = v
    <3>1. s \in lines
      BY <1>3, <2>1 DEF Range
    <3>2. variants'[v] = NewVariant(r.op, id[s[1]], r.drafts[s[1]].variants[s[2]], Url(r, s, NoFile))
      BY <1>2, <2>1
    <3> QED
      BY <1>7, <3>1, <3>2
  <2>2. \A v \in VariantIds : v \notin Range(row) => variants'[v] \in VariantRow(S) \cup {NoRow, Gone}
    BY <1>2 DEF FilesInv, VariantTable, S
  <2>3. variants' = [v \in VariantIds |-> variants'[v]]
    BY <1>2
  <2> QED
    BY <2>1, <2>2, <2>3 DEF VariantTable
<1> QED
  BY <1>4, <1>9, <1>10, OthersKeep, IdleOK DEF FilesInv, S, Create

(* An edit is one draft, whose slots are the image and its lines.          *)
LEMMA EditFacts ==
    ASSUME NEW r, NEW S, Updating(r, S), r.phase = "save"
    PROVE  /\ r.drafts[1] \in Edit
           /\ \A i \in DOMAIN r.drafts[1].variants : r.drafts[1].variants[i] \in Line
           /\ \A old \in Names(S) : /\ Url(r, <<1, 0>>, old) \in Names(S)
                                    /\ \A i \in DOMAIN r.drafts[1].variants : Url(r, <<1, i>>, old) \in Names(S)
<1>1. PICK e \in Edit : r.drafts = <<e>>
  BY FilesAssumption DEF Updating
<1>2. e.variants \in Seq(Line) /\ DOMAIN e.variants = 1..Len(e.variants) /\ Len(e.variants) \in Nat
  BY DEF Edit
<1>3. r.drafts[1] = e /\ DOMAIN r.drafts = {1}
  BY <1>1
<1>4. \A i \in DOMAIN e.variants : e.variants[i] \in Line
  BY <1>2
<1>5. ASSUME NEW i \in 0..Len(e.variants), NEW old \in Names(S)
      PROVE  Url(r, <<1, i>>, old) \in Names(S)
  <2>1. <<1, i>> \in {1} \X (0..Len(r.drafts[1].variants))
    BY <1>3
  <2>2. <<1, i>> \in Slots(r.drafts)
    BY <1>3, <2>1 DEF Slots
  <2>3. Supplied(r, S)
    BY DEF Updating
  <2> QED
    BY <2>2, <2>3, UrlNames
<1> QED
  BY <1>2, <1>3, <1>4, <1>5

(* An edited variant refers to its old file, or to one the request         *)
(* brought.                                                                *)
LEMMA EditedRow ==
    ASSUME NEW r, NEW S, Updating(r, S), r.phase = "save",
           NEW v, variants[v] \in VariantRow(S),
           NEW i \in DOMAIN r.drafts[1].variants
    PROVE  Edited(r, v, i) \in VariantRow(S)
<1> DEFINE line == r.drafts[1].variants[i]
           stock == IF line.stock = Keep THEN variants[v].stock
                    ELSE IF line.format \in Physical THEN line.stock ELSE 0
           file == Url(r, <<1, i>>, variants[v].file)
<1>1. line \in Line
  BY EditFacts
<1>2. line.format \in Formats /\ stock \in Nat
  BY <1>1 DEF Line, VariantRow
<1>3. file \in Names(S)
  BY EditFacts DEF VariantRow
<1>4. Edited(r, v, i) = [variants[v] EXCEPT !.format = line.format, !.stock = stock, !.file = file]
  BY DEF Edited, VariantRow
<1> HIDE DEF line, stock, file
<1> QED
  BY <1>2, <1>3, <1>4 DEF VariantRow

(* Moving a variant to a book changes no file.                             *)
LEMMA BookRowOfVariant ==
    ASSUME NEW S, NEW row \in VariantRow(S), NEW b \in BookIds \cup {NoId}
    PROVE  [row EXCEPT !.book = b] \in VariantRow(S)
BY DEF VariantRow

(* The transaction of an update keeps the invariant.                       *)
LEMMA UpdateFiles ==
    ASSUME FilesInv, NEW p \in Admins, UpdateBook(p)
    PROVE  FilesInv'
<1> DEFINE r == req[p] e == r.drafts[1] b == r.book seen == Rows(r.formats) S == StoredUploads
           Deleted(m) == IF e.replaceVariants THEN seen \ Range(m) ELSE {}
           Added(m) == {i \in DOMAIN m : m[i] = NoId}
           title == Overlaid(e.title, r.row.title)
           visibility == Overlaid(e.visibility, r.row.visibility)
           image == Url(r, <<1, 0>>, r.row.image)
<1>1. Updating(r, S) /\ r.phase = "save"
  BY DEF UpdateBook, FilesInv, RequestOK, Idle, Creating, Deleting, Sweeping, Saving
<1>2. books' = [books EXCEPT ![b] =
            [title |-> title, visibility |-> visibility, isArchived |-> FALSE, image |-> image]]
  BY DEF UpdateBook
<1>3. title \in Titles /\ visibility \in Visibilities /\ image \in Names(S)
  <2>1. e \in Edit /\ r.row \in BookRow(S)
    BY <1>1, EditFacts DEF Updating
  <2>2. title \in Titles /\ visibility \in Visibilities
    BY <2>1 DEF Overlaid, Edit, BookRow
  <2>3. image \in Names(S)
    BY <1>1, <2>1, EditFacts DEF BookRow
  <2> QED
    BY <2>2, <2>3
<1>4. PICK m \in Claims(r) :
        /\ \E row \in Injection(Added(m), NextVariants(Cardinality(Added(m)))) :
            variants' = [v \in VariantIds |->
                IF v \in Range(row)
                THEN LET i == CHOOSE i \in Added(m) : row[i] = v
                     IN NewVariant("update", b, e.variants[i], Url(r, <<1, i>>, NoFile))
                ELSE IF v \notin Rows(variants) THEN variants[v]
                ELSE IF v \in Deleted(m) THEN Gone
                ELSE IF v \in Range(m)
                THEN [Edited(r, v, CHOOSE i \in DOMAIN m : m[i] = v) EXCEPT !.book = b]
                ELSE IF v \in seen THEN [variants[v] EXCEPT !.book = b]
                ELSE IF variants[v].book = b THEN [variants[v] EXCEPT !.book = NoId]
                ELSE variants[v]]
        /\ Goto(p, [op |-> "sweep", phase |-> "sweep",
                    keys |-> UNION {ServiceKey(f) : f \in Replaced(r, m, Deleted(m))}])
  BY DEF UpdateBook
<1> DEFINE added == Added(m) deleted == Deleted(m)
           keys == UNION {ServiceKey(f) : f \in Replaced(r, m, deleted)}
<1>5. PICK row \in Injection(added, NextVariants(Cardinality(added))) :
            variants' = [v \in VariantIds |->
                IF v \in Range(row)
                THEN LET i == CHOOSE i \in added : row[i] = v
                     IN NewVariant("update", b, e.variants[i], Url(r, <<1, i>>, NoFile))
                ELSE IF v \notin Rows(variants) THEN variants[v]
                ELSE IF v \in deleted THEN Gone
                ELSE IF v \in Range(m)
                THEN [Edited(r, v, CHOOSE i \in DOMAIN m : m[i] = v) EXCEPT !.book = b]
                ELSE IF v \in seen THEN [variants[v] EXCEPT !.book = b]
                ELSE IF variants[v].book = b THEN [variants[v] EXCEPT !.book = NoId]
                ELSE variants[v]]
  BY <1>4
<1>6. DOMAIN m = DOMAIN e.variants /\ added \subseteq DOMAIN m
  BY DEF Claims
<1>7. /\ b \in BookIds /\ NoFile \in Names(S)
      /\ \A v \in Rows(variants) : variants[v] \in VariantRow(S)
  BY <1>1 DEF Updating, Names, FilesInv, VariantTable, Rows
<1>8. ASSUME NEW i \in DOMAIN m
      PROVE  NewVariant("update", b, e.variants[i], Url(r, <<1, i>>, NoFile)) \in VariantRow(S)
  BY <1>1, <1>6, <1>7, EditFacts, NewVariantRow
<1>9. ASSUME NEW v \in Rows(variants), NEW i \in DOMAIN m PROVE Edited(r, v, i) \in VariantRow(S)
  BY <1>1, <1>6, <1>7, EditedRow
<1>10. object' = object /\ inUse' = inUse /\ S' = S /\ req' = [req EXCEPT ![p] = [op |-> "sweep", phase |-> "sweep", keys |-> keys]]
  BY <1>4 DEF UpdateBook, Goto, StoredUploads
<1>11. RequestOK([op |-> "sweep", phase |-> "sweep", keys |-> keys], S)
  <2>1. keys \subseteq Hosted
    BY ServiceKeys
  <2> HIDE DEF keys
  <2> QED
    BY <2>1 DEF RequestOK, Sweeping
<1> HIDE DEF r, e, b, seen, S, Deleted, Added, title, visibility, image, added, deleted, keys
<1>12. books' \in BookTable(S)
  BY <1>2, <1>3, <1>7 DEF FilesInv, BookTable, BookRow, S
<1>13. ASSUME NEW v \in VariantIds PROVE variants'[v] \in VariantRow(S) \cup {NoRow, Gone}
  <2>1. CASE v \in Range(row)
    <3> DEFINE i == CHOOSE i \in added : row[i] = v
    <3>1. DOMAIN row = added
      BY <1>5 DEF Injection
    <3>2. i \in added
      BY <2>1, <3>1 DEF Range
    <3>3. variants'[v] = NewVariant("update", b, e.variants[i], Url(r, <<1, i>>, NoFile))
      BY <1>5, <2>1
    <3> QED
      BY <1>6, <1>8, <3>2, <3>3
  <2>2. CASE v \notin Range(row) /\ v \notin Rows(variants)
    BY <1>5, <2>2 DEF FilesInv, VariantTable, S
  <2>3. CASE v \notin Range(row) /\ v \in Rows(variants) /\ v \in deleted
    BY <1>5, <2>3
  <2>4. CASE v \notin Range(row) /\ v \in Rows(variants) /\ v \notin deleted /\ v \in Range(m)
    <3> DEFINE i == CHOOSE i \in DOMAIN m : m[i] = v
    <3>1. i \in DOMAIN m
      BY <2>4 DEF Range
    <3>2. variants'[v] = [Edited(r, v, i) EXCEPT !.book = b]
      BY <1>5, <2>4
    <3>3. Edited(r, v, i) \in VariantRow(S)
      BY <1>9, <2>4, <3>1
    <3> HIDE DEF i
    <3> QED
      BY <1>7, <3>2, <3>3, BookRowOfVariant
  <2>5. CASE v \notin Range(row) /\ v \in Rows(variants) /\ v \notin deleted /\ v \notin Range(m)
    <3>1. \/ variants'[v] = [variants[v] EXCEPT !.book = b]
          \/ variants'[v] = [variants[v] EXCEPT !.book = NoId]
          \/ variants'[v] = variants[v]
      BY <1>5, <2>5
    <3> QED
      BY <1>7, <2>5, <3>1, BookRowOfVariant
  <2> QED
    BY <2>1, <2>2, <2>3, <2>4, <2>5
<1>14. variants' \in VariantTable(S)
  <2>1. variants' = [v \in VariantIds |-> variants'[v]]
    BY <1>5
  <2> QED
    BY <1>13, <2>1 DEF VariantTable
<1> QED
  BY <1>10, <1>11, <1>12, <1>14, OthersKeep DEF FilesInv, S

(* So do archiving and deleting a book.                                    *)
LEMMA DeleteRowFiles ==
    ASSUME FilesInv, NEW p \in Admins, MarkBookArchived(p) \/ DeleteBookRecord(p)
    PROVE  FilesInv'
<1>1. object' = object /\ inUse' = inUse /\ StoredUploads' = StoredUploads /\ req' = [req EXCEPT ![p] = Idle]
  BY DEF MarkBookArchived, DeleteBookRecord, Done, Goto, StoredUploads
<1>2. books' \in BookTable(StoredUploads)
  <2>1. ASSUME NEW b \in Rows(books)
        PROVE  [books[b] EXCEPT !.isArchived = TRUE] \in BookRow(StoredUploads)
    BY <2>1 DEF FilesInv, BookTable, Rows, BookRow
  <2> QED
    BY <2>1 DEF MarkBookArchived, DeleteBookRecord, FilesInv, BookTable
<1>3. variants' \in VariantTable(StoredUploads)
  BY DEF MarkBookArchived, DeleteBookRecord, FilesInv, VariantTable
<1> QED
  BY <1>1, <1>2, <1>3, OthersKeep, IdleOK DEF FilesInv

(* So does saving a book as it was read.                                   *)
LEMMA SaveFiles ==
    ASSUME FilesInv, NEW p \in Admins, SaveAgeGroup(p)
    PROVE  FilesInv'
<1>1. /\ object' = object /\ variants' = variants /\ inUse' = inUse
      /\ StoredUploads' = StoredUploads /\ req' = [req EXCEPT ![p] = Idle]
  BY DEF SaveAgeGroup, Done, Goto, StoredUploads
<1>2. Saving(req[p], StoredUploads)
  BY DEF SaveAgeGroup, FilesInv, RequestOK, Idle, Creating, Updating, Deleting, Sweeping
<1>3. books' \in BookTable(StoredUploads)
  BY <1>2 DEF SaveAgeGroup, Saving, FilesInv, BookTable
<1> QED
  BY <1>1, <1>3, OthersKeep, IdleOK DEF FilesInv

(* What carts and the administrators' own uploads do.                      *)
LEMMA CartFiles ==
    ASSUME FilesInv, NEW v \in VariantIds, Reserve(v) \/ Release(v)
    PROVE  FilesInv'
<1>1. variants[v] \in VariantRow(StoredUploads)
  BY DEF Reserve, Release, Rows, FilesInv, VariantTable
<1>2. PICK n \in Nat : variants' = [variants EXCEPT ![v].reserved = n]
  <2>1. variants[v].reserved \in Nat
    BY <1>1 DEF VariantRow
  <2> DEFINE n == variants[v].reserved
  <2>2. \/ variants' = [variants EXCEPT ![v].reserved = n + 1]
        \/ n > 0 /\ variants' = [variants EXCEPT ![v].reserved = n - 1]
    BY DEF Reserve, Release
  <2> HIDE DEF n
  <2>3. n \in Nat
    BY <2>1 DEF n
  <2>4. n + 1 \in Nat /\ (n > 0 => n - 1 \in Nat)
    BY <2>3
  <2> QED
    BY <2>2, <2>4
<1>3. [variants[v] EXCEPT !.reserved = n] \in VariantRow(StoredUploads)
  BY <1>1 DEF VariantRow
<1>4. variants' \in VariantTable(StoredUploads)
  BY <1>2, <1>3 DEF FilesInv, VariantTable
<1>5. UNCHANGED <<books, object, req>> /\ inUse' \subseteq VariantIds
  BY DEF Reserve, Release, FilesInv
<1> QED
  BY <1>4, <1>5 DEF FilesInv, StoredUploads

(* Rows of carts and orders come and go.                                   *)
LEMMA NamedFiles ==
    ASSUME FilesInv, NEW v \in VariantIds, NameVariant(v) \/ LastRowGoes(v)
    PROVE  FilesInv'
BY DEF NameVariant, LastRowGoes, FilesInv, StoredUploads

(* An upload beside the books adds a file.                                 *)
LEMMA AdminUploadFiles ==
    ASSUME FilesInv, NEW f \in Hosted, AdminUpload(f)
    PROVE  FilesInv'
<1>1. /\ object' \in [Files -> {"absent", "stored", "archived"}]
      /\ StoredUploads' = StoredUploads
  BY FilesAssumption DEF AdminUpload, FilesInv, StoredUploads, Files
<1> QED
  BY <1>1 DEF AdminUpload, FilesInv

(* Hence every step keeps it.                                              *)
LEMMA FilesStep == FilesInv /\ [Next]_vars => FilesInv'
<1> SUFFICES ASSUME FilesInv, [Next]_vars PROVE FilesInv'
  OBVIOUS
<1>1. ASSUME NEW p \in Admins, Finish(p) PROVE FilesInv'
  BY <1>1, UploadFiles, CreateFiles, UpdateFiles, DeletingFiles, DeleteRowFiles, SaveFiles DEF Finish
<1>2. ASSUME UNCHANGED vars PROVE FilesInv'
  BY <1>2 DEF vars, FilesInv, StoredUploads
<1> QED
  BY <1>1, <1>2, BeginFiles, DeletingFiles, CartFiles, NamedFiles, AdminUploadFiles DEF Next

(* The invariant holds in every state.                                     *)
LEMMA FilesInvCorrect == Spec => []FilesInv
<1>1. Init => FilesInv
  BY DEF Init, FilesInv, BookTable, VariantTable, RequestOK
<1> QED
  BY <1>1, FilesStep, PTL DEF Spec

(* Hence no step makes two books of one title.                             *)
LEMMA TitlesStep ==
    FilesInv /\ BooksOK /\ UniqueTitles /\ [Next]_vars => BooksOK' /\ UniqueTitles'
<1> SUFFICES ASSUME FilesInv, BooksOK, UniqueTitles, [Next]_vars PROVE BooksOK' /\ UniqueTitles'
  OBVIOUS
<1>1. CASE books' = books
  BY <1>1 DEF BooksOK, UniqueTitles, Rows
<1>2. ASSUME NEW p \in Admins, Begin(p) PROVE books' = books
  BY <1>2 DEF Begin, CreateRequest, UpdateRequest, DeleteRequest, AgeGroupRequest,
             CreateBegin, UpdateBegin, DeleteBegin, AgeGroupBegin
<1>3. ASSUME NEW p \in Admins, UploadAssets(p) \/ DeleteOldKeys(p) \/ DeleteStorage(p) \/ Abort(p)
      PROVE  books' = books
  BY <1>3 DEF UploadAssets, DeleteOldKeys, DeleteStorage, Abort
<1>4. ASSUME NEW f \in Hosted, AdminUpload(f) PROVE books' = books
  BY <1>4 DEF AdminUpload
<1>5. ASSUME NEW v \in VariantIds, Reserve(v) \/ Release(v) \/ NameVariant(v) \/ LastRowGoes(v)
      PROVE  books' = books
  BY <1>5 DEF Reserve, Release, NameVariant, LastRowGoes
<1>6. ASSUME UNCHANGED vars PROVE books' = books
  BY <1>6 DEF vars
<1>7. ASSUME NEW p \in Admins, SaveAgeGroup(p) PROVE BooksOK' /\ UniqueTitles'
  <2>1. Saving(req[p], StoredUploads)
    BY <1>7 DEF SaveAgeGroup, FilesInv, RequestOK, Idle, Creating, Updating, Deleting, Sweeping, Saving
  <2>2. DOMAIN req[p].row = {"title", "visibility", "isArchived", "image"}
    BY <2>1 DEF Saving, BookRow
  <2> QED
    BY <1>7, <2>2, AgeGroupTitles
<1> QED
  BY <1>1, <1>2, <1>3, <1>4, <1>5, <1>6, <1>7, CreateTitles, UpdateTitles, DeleteTitles DEF Next, Finish

(* Whatever was read before, no two books ever have one title.             *)
THEOREM TitlesStayUnique == Spec => []UniqueTitles
<1>1. Init => BooksOK /\ UniqueTitles
  BY DEF Init, BooksOK, UniqueTitles, Rows
<1> QED
  BY <1>1, TitlesStep, FilesInvCorrect, PTL DEF Spec

(* Books, variants and objects keep their types, for any requests the DTOs *)
(* admit.                                                                  *)
THEOREM BooksTypeCorrect == Spec => []BooksTypeOK
BY FilesInvCorrect, FilesInvIsEnough, PTL

(* Whatever uploads, transactions and clean-ups fail or overlap, a URL     *)
(* that an endpoint of books saved names a file that is there.             *)
THEOREM UploadsStayStored == Spec => []UploadedStored
BY FilesInvCorrect, FilesInvIsEnough, PTL

-----------------------------------------------------------------------------
(* What the queries answer. *)

(* The filters are laid over the books that are searched, so a filter more *)
(* is the filter of the facet.                                             *)
LEMMA OneFormatMore ==
    ASSUME NEW q \in PublicQueries, q.formats = {}, NEW f
    PROVE  Filtered(books, [q EXCEPT !.formats = {f}]) = {b \in Filtered(books, q) : HasFormat(b, {f})}
<1> DEFINE more == [q EXCEPT !.formats = {f}]
<1>1. /\ more.formats = {f} /\ more.isAdmin = q.isAdmin /\ more.visibility = q.visibility
      /\ more.includeArchived = q.includeArchived /\ more.term = q.term
      /\ more.genre = q.genre /\ more.groups = q.groups
  BY DEF PublicQueries
<1> HIDE DEF more
<1>2. Searched(books, more) = Searched(books, q)
  BY <1>1 DEF Searched, Base
<1> QED
  BY <1>1, <1>2 DEF Filtered, more

(* The same for an age group.                                              *)
LEMMA OneGroupMore ==
    ASSUME NEW q \in PublicQueries, q.groups = {}, NEW g
    PROVE  Filtered(books, [q EXCEPT !.groups = {g}]) = {b \in Filtered(books, q) : InGroup(books, b, {g})}
<1> DEFINE more == [q EXCEPT !.groups = {g}]
<1>1. /\ more.groups = {g} /\ more.isAdmin = q.isAdmin /\ more.visibility = q.visibility
      /\ more.includeArchived = q.includeArchived /\ more.term = q.term
      /\ more.genre = q.genre /\ more.formats = q.formats
  BY DEF PublicQueries
<1> HIDE DEF more
<1>2. Searched(books, more) = Searched(books, q)
  BY <1>1 DEF Searched, Base
<1> QED
  BY <1>1, <1>2 DEF Filtered, more

(* Whatever the books and the query, the count beside a format or an age   *)
(* group is the number of books the same query finds with that filter.     *)
THEOREM FacetsCount == Spec => []FacetsDrillDown
<1>1. FacetsDrillDown
  BY OneFormatMore, OneGroupMore DEF FacetsDrillDown, FormatFacet, GroupFacet, Total
<1> QED
  BY <1>1, PTL

(* A public query finds what the public may see, and of nothing else does  *)
(* its answer depend: the search looks at visible books before it decides  *)
(* between full text and similarity.                                       *)
LEMMA PublicSeesPublic ==
    ASSUME NEW q \in PublicQueries
    PROVE  /\ \A table : Base(table, q) = {b \in BookIds : Visible(table, b, FALSE, FALSE)}
           /\ \A table : Filtered(table, q) \subseteq Searched(table, q)
           /\ \A table : Searched(table, q) \subseteq Base(table, q)
<1>1. q.isAdmin = FALSE
  BY DEF PublicQueries
<1>2. \A table : Base(table, q) = {b \in BookIds : Visible(table, b, FALSE, FALSE)}
  BY <1>1 DEF Base, Visible
<1>3. \A table : Filtered(table, q) \subseteq Searched(table, q)
  BY DEF Filtered
<1>4. \A table : Searched(table, q) \subseteq Base(table, q)
  BY DEF Searched, Titled
<1> QED
  BY <1>2, <1>3, <1>4

(* The table without its hidden rows shows the public what the table does. *)
LEMMA PublicTableFacts ==
    ASSUME BooksTypeOK
    PROVE  /\ \A b \in BookIds : Visible(PublicTable, b, FALSE, FALSE) <=> Visible(books, b, FALSE, FALSE)
           /\ \A b \in BookIds : Visible(books, b, FALSE, FALSE) => PublicTable[b] = books[b]
<1>1. DOMAIN books = BookIds /\ DOMAIN PublicTable = BookIds
  BY DEF BooksTypeOK, PublicTable
<1>2. \A b \in BookIds : Visible(books, b, FALSE, FALSE) => PublicTable[b] = books[b]
  BY DEF PublicTable
<1>3. \A b \in BookIds : ~Visible(books, b, FALSE, FALSE) => PublicTable[b] = NoRow
  BY DEF PublicTable
<1> QED
  BY <1>1, <1>2, <1>3 DEF Visible, Rows

(* So the public finds the same books in both.                             *)
LEMMA SameAnswers ==
    ASSUME BooksTypeOK, NEW q \in PublicQueries
    PROVE  Filtered(books, q) = Filtered(PublicTable, q)
<1> DEFINE seen == Base(books, q)
<1>1. Base(PublicTable, q) = seen
  BY PublicSeesPublic, PublicTableFacts
<1>2. \A b \in seen : PublicTable[b] = books[b]
  BY PublicSeesPublic, PublicTableFacts
<1> HIDE DEF seen
<1>3. \A titles : Titled(PublicTable, seen, titles) = Titled(books, seen, titles)
  BY <1>2 DEF Titled
<1>4. Searched(PublicTable, q) = Searched(books, q)
  BY <1>1, <1>3 DEF Searched, seen
<1>5. \A b \in Searched(books, q) : PublicTable[b] = books[b]
  BY <1>2, PublicSeesPublic DEF seen
<1> QED
  BY <1>4, <1>5 DEF Filtered, InGroup

(* No answer to the public but the counts of genres depends on a book that *)
(* is private, a draft or archived.                                        *)
THEOREM HiddenStaysHidden == Spec => []HiddenLeavesNoTrace
<1>1. ASSUME BooksTypeOK PROVE HiddenLeavesNoTrace
  <2> SUFFICES ASSUME NEW q \in PublicQueries
      PROVE  /\ Filtered(books, q) = Filtered(PublicTable, q)
             /\ \A f \in Formats : FormatFacet(books, q, f) = FormatFacet(PublicTable, q, f)
             /\ \A b \in Filtered(books, q) :
                 /\ FindOne(books, b) = {b}
                 /\ \A related \in FindRelated(books, b) : \A c \in related : FindOne(books, c) = {c}
    BY DEF HiddenLeavesNoTrace
  <2>1. Filtered(books, q) = Filtered(PublicTable, q)
    BY <1>1, SameAnswers
  <2>2. \A f \in Formats : FormatFacet(books, q, f) = FormatFacet(PublicTable, q, f)
    BY <2>1 DEF FormatFacet
  <2>3. ASSUME NEW r \in PublicQueries, NEW b \in Filtered(books, r) PROVE FindOne(books, b) = {b}
    <3>1. b \in Base(books, r)
      BY PublicSeesPublic
    <3>2. Visible(books, b, FALSE, FALSE)
      BY <3>1, PublicSeesPublic
    <3> QED
      BY <3>2 DEF FindOne
  <2>4. ASSUME NEW b \in Filtered(books, q), NEW related \in FindRelated(books, b), NEW c \in related
        PROVE  FindOne(books, c) = {c}
    <3> DEFINE r == [PublicQuery EXCEPT !.genre = Genre[books[b].title]]
    <3>1. c \in Filtered(books, r)
      BY <2>4 DEF FindRelated
    <3>2. Base(books, r) = {d \in BookIds : Visible(books, d, FALSE, FALSE)}
      BY DEF PublicQuery, Base, Visible
    <3>3. Filtered(books, r) \subseteq Base(books, r)
      BY DEF Filtered, Searched, Titled
    <3> HIDE DEF r
    <3> QED
      BY <3>1, <3>2, <3>3 DEF FindOne
  <2> QED
    BY <2>1, <2>2, <2>3, <2>4
<1> QED
  BY <1>1, BooksTypeCorrect, PTL

-----------------------------------------------------------------------------
(* The pages of a list. *)

(* FlattenSeq is defined by a recursive function: any function that grows  *)
(* by one sequence after the other is that one, and ends in the result.    *)
Grows(f, seqs) == f = [i \in 1..Len(seqs) |-> IF i = 1 THEN seqs[i] ELSE f[i-1] \o seqs[i]]

(* The least-number principle, for a set of numbers. *)
LEMMA LeastOf ==
    ASSUME NEW T, T \subseteq Nat, T # {}
    PROVE  \E x \in T : \A y \in T : ~(y < x)
<1>1. \E x \in T : \A y \in T : <<y, x>> \notin OpToRel(<, Nat)
  BY NatLessThanWellFounded, WFMin, Zenon
<1> QED
  BY <1>1 DEF OpToRel

(* No two functions grow by the same sequences: consider the first place   *)
(* where they differ.                                                      *)
LEMMA GrowsOneWay ==
    ASSUME NEW seqs, Len(seqs) \in Nat \ {0}, NEW f, NEW g, Grows(f, seqs), Grows(g, seqs)
    PROVE  f = g
<1> DEFINE T == {i \in 1..Len(seqs) : f[i] # g[i]}
<1>1. /\ DOMAIN f = 1..Len(seqs) /\ DOMAIN g = 1..Len(seqs)
      /\ f = [i \in 1..Len(seqs) |-> f[i]] /\ g = [i \in 1..Len(seqs) |-> g[i]]
  BY DEF Grows
<1>2. \A i \in 1..Len(seqs) : /\ f[i] = IF i = 1 THEN seqs[i] ELSE f[i-1] \o seqs[i]
                              /\ g[i] = IF i = 1 THEN seqs[i] ELSE g[i-1] \o seqs[i]
  BY DEF Grows
<1>3. ASSUME T # {} PROVE FALSE
  <2>1. PICK x \in T : \A y \in T : ~(y < x)
    <3>1. T \subseteq Nat
      OBVIOUS
    <3> HIDE DEF T
    <3> QED
      BY <1>3, <3>1, LeastOf
  <2>2. x # 1
    BY <1>2, <2>1
  <2>3. x - 1 \in 1..Len(seqs) /\ x - 1 < x
    BY <2>1, <2>2
  <2>4. f[x-1] = g[x-1]
    BY <2>1, <2>3
  <2> QED
    BY <1>2, <2>1, <2>2, <2>4
<1> QED
  BY <1>1, <1>3

(* What FlattenSeq returns. *)
LEMMA Flattened ==
    ASSUME NEW seqs, Len(seqs) \in Nat \ {0}, NEW g, Grows(g, seqs)
    PROVE  FlattenSeq(seqs) = g[Len(seqs)]
<1> DEFINE made == CHOOSE f : Grows(f, seqs)
<1>1. Grows(made, seqs)
  OBVIOUS
<1>2. made = g
  <2> HIDE DEF made
  <2> QED BY <1>1, GrowsOneWay
<1>3. FlattenSeq(seqs) = made[Len(seqs)]
  BY DEF FlattenSeq, Grows
<1> QED
  BY <1>2, <1>3

(* TotalPages rounds up: page p + 1 is one of the list's if the p pages    *)
(* before it do not hold the list.                                         *)
LEMMA RoundsUp ==
    ASSUME NEW len \in Nat, NEW L \in Nat \ {0}
    PROVE  LET n == (len + L - 1) \div L IN
           /\ n \in Nat
           /\ \A p \in Nat : p < n <=> p * L < len
<1> DEFINE n == (len + L - 1) \div L
<1>1. n \in Int /\ n * L <= len + L - 1 /\ len + L - 1 < n * L + L
  BY SMTT(30)
<1> HIDE DEF n
<1>2. n >= 0
  <2>1. ASSUME n <= -1 PROVE FALSE
    <3>1. n * L <= -L
      BY <1>1, <2>1
    <3> QED BY <1>1, <3>1
  <2> QED BY <1>1, <2>1
<1>3. ASSUME NEW p \in Nat, p < n PROVE p * L < len
  <2>1. (p + 1) * L <= n * L
    BY <1>1, <1>3
  <2>2. (p + 1) * L = p * L + L
    OBVIOUS
  <2>3. p * L \in Nat /\ n * L \in Int
    BY <1>1
  <2> QED BY <1>1, <2>1, <2>2, <2>3
<1>4. ASSUME NEW p \in Nat, n <= p PROVE len <= p * L
  <2>1. n * L <= p * L
    BY <1>1, <1>4
  <2>3. p * L \in Nat /\ n * L \in Int
    BY <1>1
  <2> QED BY <1>1, <2>1, <2>3
<1> QED
  BY <1>1, <1>2, <1>3, <1>4 DEF n

(* The pages of length L are the pieces of the list between the multiples  *)
(* of L: the first i of them make the list up to there.                    *)
LEMMA PagesInOrder ==
    ASSUME NEW S, NEW list \in Seq(S), NEW L \in Nat \ {0}, NEW n \in Nat,
           \A p \in Nat : p < n <=> p * L < Len(list), NEW seqs,
           seqs = [i \in 1..n |-> SubSeq(list, (i - 1) * L + 1,
                                         IF (i - 1) * L + L < Len(list) THEN (i - 1) * L + L ELSE Len(list))]
    PROVE  FlattenSeq(seqs) = list
<1> DEFINE End(i) == IF i * L < Len(list) THEN i * L ELSE Len(list)
           g == [i \in 1..n |-> SubSeq(list, 1, End(i))]
<1>1. Len(list) \in Nat /\ Len(seqs) = n /\ DOMAIN seqs = 1..n
  BY LenProperties
<1>2. CASE n = 0
  <2>1. Len(list) <= 0
    BY <1>2, <1>1
  <2>2. seqs = <<>> /\ list = <<>>
    BY <1>1, <1>2, <2>1
  <2> QED
    BY <2>2, <1>1, <1>2 DEF FlattenSeq
<1>3. CASE n # 0
  <2>1. \A i \in Nat : /\ i * L \in Nat /\ (i + 1 - 1) * L = i * L
                       /\ (i + 1) * L = i * L + L
    OBVIOUS
  <2>2. \A i \in 1..n : i - 1 \in Nat /\ (i - 1) * L \in Nat /\ i * L \in Nat /\ (i - 1) * L + L = i * L
    BY <2>1
  <2>3. ASSUME NEW i \in 1..n PROVE (i - 1) * L < Len(list)
    <3>1. i - 1 \in Nat /\ i - 1 < n
      OBVIOUS
    <3> HIDE DEF End
    <3> QED
      BY <3>1
  <2>4. End(n) = Len(list)
    BY <1>1, <2>1
  <2>5. \A i \in 1..n : End(i) \in Nat /\ (i-1) * L <= End(i) /\ End(i) <= Len(list)
    BY <1>1, <2>2, <2>3
  <2>6. \A i \in 1..n : seqs[i] = SubSeq(list, (i - 1) * L + 1, End(i))
    BY <2>2
  <2>7. \A i \in 1..n : i # 1 => i - 1 \in 1..n /\ End(i - 1) = (i - 1) * L
    BY <2>2, <2>3
  <2>8. ASSUME NEW i \in 1..n PROVE g[i] = IF i = 1 THEN seqs[i] ELSE g[i-1] \o seqs[i]
    <3>1. CASE i = 1
      <4>1. (i - 1) * L + 1 = 1
        BY <3>1
      <4> QED
        BY <4>1, <2>6, <3>1
    <3>2. CASE i # 1
      <4> DEFINE k == (i - 1) * L
      <4>1. k \in Nat /\ k <= End(i) /\ End(i) \in Nat /\ End(i) <= Len(list)
        BY <2>2, <2>5
      <4>2. g[i-1] = SubSeq(list, 1, k) /\ seqs[i] = SubSeq(list, k + 1, End(i)) /\ g[i] = SubSeq(list, 1, End(i))
        BY <2>6, <2>7, <3>2
      <4> HIDE DEF k, g, End
      <4>3. SubSeq(list, 1, k) \o SubSeq(list, k + 1, End(i)) = SubSeq(list, 1, End(i))
        <5>1. 1 \in 1..(Len(list) + 1) /\ k \in (1-1)..Len(list) /\ End(i) \in k..Len(list)
          BY <4>1, <1>1
        <5> QED
          BY <5>1, ConcatAdjacentSubSeq
      <4> QED
        BY <4>2, <4>3, <3>2
    <3> QED
      BY <3>1, <3>2
  <2>9. Grows(g, seqs)
    BY <2>8, <1>1 DEF Grows
  <2>10. g[n] = list
    BY <2>4, <1>3, SubSeqFull
  <2> HIDE DEF g
  <2> QED
    BY <2>9, <2>10, <1>1, <1>3, Flattened
<1> QED
  BY <1>2, <1>3

(* A page has books if it begins before the end of the list. *)
LEMMA PageEmpty ==
    ASSUME NEW S, NEW list \in Seq(S), NEW L \in Nat \ {0}, NEW k \in Nat
    PROVE  SubSeq(list, k + 1, IF k + L < Len(list) THEN k + L ELSE Len(list)) # <<>> <=> k < Len(list)
<1> DEFINE end == IF k + L < Len(list) THEN k + L ELSE Len(list)
<1>1. Len(list) \in Nat /\ end \in Nat /\ (k < Len(list) => k < end) /\ end <= Len(list)
  BY LenProperties
<1>2. k < Len(list) => Len(SubSeq(list, k + 1, end)) = end - k
  <2>1. \A i \in (k + 1)..end : list[i] \in S
    BY <1>1, ElementOfSeq
  <2> HIDE DEF end
  <2> QED
    BY <1>1, <2>1, SubSeqProperties
<1>3. k >= Len(list) => SubSeq(list, k + 1, end) = <<>>
  <2> HIDE DEF end
  <2> QED
    BY <1>1, SubSeqEmpty
<1> HIDE DEF end
<1>4. k < Len(list) => SubSeq(list, k + 1, end) # <<>>
  BY <1>1, <1>2
<1> QED
  BY <1>1, <1>3, <1>4 DEF end

(* A finite set can be listed. *)
LEMMA ListOfSet ==
    ASSUME NEW S, IsFiniteSet(S)
    PROVE  SetToSeq(S) \in Seq(S)
<1>1. Cardinality(S) \in Nat /\ ExistsBijection(1..Cardinality(S), S)
  BY FS_CardinalityType
<1>2. \E f \in [1..Cardinality(S) -> S] : IsInjective(f)
  BY <1>1 DEF ExistsBijection, Bijection, Injection
<1>3. SetToSeq(S) \in [1..Cardinality(S) -> S]
  BY <1>2 DEF SetToSeq
<1> QED
  BY <1>1, <1>3

(* Whatever limit is asked for, a page has at least one place.             *)
LEMMA LimitIsSafe ==
    ASSUME NEW limit \in Int
    PROVE  SafeLimit(limit) \in Nat \ {0}
BY QueriesAssumption DEF SafeLimit

(* For lists of any length, whatever page and limit are asked for, the     *)
(* pages put one after the other are the list, no book missing or twice,   *)
(* and a page says that there is a next one if there is.                   *)
THEOREM PagesMakeTheList == Spec => []PagesPartition
<1>1. ASSUME BooksTypeOK PROVE PagesPartition
  <2> DEFINE list == SetToSeq(LiveBooks)
             total == Len(list)
  <2>1. list \in Seq(LiveBooks)
    <3>1. LiveBooks \subseteq BookIds
      BY <1>1 DEF LiveBooks, Rows, BooksTypeOK
    <3>2. IsFiniteSet(LiveBooks)
      BY <3>1, QueriesAssumption, FS_Subset
    <3> QED
      BY <3>2, ListOfSet
  <2> HIDE DEF list
  <2>2. total \in Nat
    BY <2>1, LenProperties
  <2>3. ASSUME NEW limit \in -1..(MaxLimit + 1)
        PROVE  LET pages == TotalPages(total, limit) IN
               /\ FlattenSeq([n \in 1..pages |-> Page(list, n, limit)]) = list
               /\ \A page \in -1..(pages + 1) :
                   HasNextPage(total, page, limit) <=> Page(list, SafePage(page) + 1, limit) # <<>>
    <3> DEFINE L == SafeLimit(limit)
               pages == TotalPages(total, limit)
               seqs == [n \in 1..pages |-> Page(list, n, limit)]
    <3>1. limit \in Int
      BY QueriesAssumption
    <3>2. L \in Nat \ {0}
      BY <3>1, LimitIsSafe
    <3>3. pages \in Nat /\ \A p \in Nat : p < pages <=> p * L < total
      <4>1. pages = (total + L - 1) \div L
        BY DEF TotalPages
      <4> HIDE DEF L, pages, total
      <4> QED
        BY <4>1, <3>2, <2>2, RoundsUp
    <3>4. ASSUME NEW n \in Nat \ {0}
          PROVE  Page(list, n, limit) = SubSeq(list, (n - 1) * L + 1,
                                               IF (n - 1) * L + L < total THEN (n - 1) * L + L ELSE total)
      <4>1. SafePage(n) = n
        BY DEF SafePage
      <4> QED
        BY <4>1 DEF Page, Skip
    <3> HIDE DEF L, pages
    <3>5. FlattenSeq(seqs) = list
      <4>1. seqs = [i \in 1..pages |-> SubSeq(list, (i - 1) * L + 1,
                                              IF (i - 1) * L + L < Len(list) THEN (i - 1) * L + L ELSE Len(list))]
        BY <3>3, <3>4
      <4> HIDE DEF seqs
      <4> QED
        BY <4>1, <2>1, <3>2, <3>3, PagesInOrder
    <3>6. ASSUME NEW page \in -1..(pages + 1)
          PROVE  HasNextPage(total, page, limit) <=> Page(list, SafePage(page) + 1, limit) # <<>>
      <4> DEFINE p == SafePage(page)
                 k == p * L
      <4>1. p \in Nat \ {0} /\ p + 1 \in Nat \ {0} /\ p + 1 - 1 = p
        BY <3>3 DEF SafePage
      <4>2. HasNextPage(total, page, limit) <=> p < pages
        BY DEF HasNextPage, pages
      <4> HIDE DEF p
      <4>3. k \in Nat
        BY <4>1, <3>2
      <4>4. Page(list, p + 1, limit) = SubSeq(list, k + 1, IF k + L < total THEN k + L ELSE total)
        BY <4>1, <3>4
      <4>5. p < pages <=> k < total
        BY <4>1, <3>3
      <4> HIDE DEF k
      <4>6. Page(list, p + 1, limit) # <<>> <=> k < total
        BY <4>3, <4>4, <2>1, <3>2, PageEmpty
      <4> QED
        BY <4>2, <4>5, <4>6 DEF p
    <3> QED
      BY <3>5, <3>6 DEF pages
  <2> QED
    BY <2>3 DEF PagesPartition, list
<1> QED
  BY <1>1, BooksTypeCorrect, PTL

=============================================================================
