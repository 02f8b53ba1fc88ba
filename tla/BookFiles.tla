------------------------------ MODULE BookFiles ------------------------------
(***************************************************************************)
(* Books, their variants and the objects in MinIO: BooksService,           *)
(* CreateBookProvider, DeleteBookProvider, UploadBookFilesProvider, the    *)
(* storage service, and BookAgeGroupsService as far as it saves books.     *)
(*                                                                         *)
(* A request of an administrator spans two stores.  It reads rows without  *)
(* a lock, uploads files, writes all its rows in one transaction, and      *)
(* deletes files before or after it; each of these is a step, and a crash  *)
(* or an error may end it between any two (Abort).                         *)
(*                                                                         *)
(* The image of a book stands for its cover and its snapshots, which are   *)
(* handled alike.  A file is known by its object; its URL is of one of two *)
(* kinds: endpoint/bucket/key for Uploads, bucket.endpoint/key for Hosted. *)
(***************************************************************************)
EXTENDS Integers, FiniteSets, FiniteSetsExt, Functions, Sequences

CONSTANTS
    BookIds,        \* bound: rows of books ever inserted
    MaxVariants,    \* bound: rows of book_format_varients ever inserted
    Titles,         \* titles of books
    Formats,        \* formats of variants
    Physical,       \* the formats isPhysicalFormat accepts
    Uploads,        \* bound: files uploaded through the endpoints of books
    Hosted,         \* files uploaded through admin/upload in production
    AwsHost,        \* the storage host looks like the one of AWS, Spaces or R2
    Admins,         \* requests of administrators in flight at the same time
    Drafts,         \* the lists of books the workload creates
    Edits,          \* the changes the workload makes
    NoRow, Gone,    \* a row not yet inserted, and one that was deleted
    NoId, NoFile,   \* null in a foreign key, and in the URL of a file
    Upload, Keep    \* what a field of a request says: a file follows; unchanged

VariantIds == 1..MaxVariants
Files == Uploads \cup Hosted
Visibilities == {"public", "private", "draft"}
Book == [title : Titles, visibility : Visibilities, isArchived : BOOLEAN, image : Files \cup {NoFile}]
Variant == [book : BookIds \cup {NoId}, format : Formats, stock : Nat,
            reserved : Nat, file : Files \cup {NoFile}]

(* What a request may say; Keep is a field it leaves out.  The workload    *)
(* names files of admin/upload only, stored or not: the code tests no URL. *)
Input == Hosted \cup {NoFile, Upload, Keep}
Line == [id : VariantIds \cup {NoId}, format : Formats, stock : Nat \cup {Keep}, file : Input]
Draft == [title : Titles, visibility : Visibilities, image : Input, variants : Seq(Line)]
Edit == [title : Titles \cup {Keep}, visibility : Visibilities \cup {Keep}, image : Input,
         variants : Seq(Line), replaceVariants : BOOLEAN]

ASSUME FilesAssumption ==
    /\ Uploads \cap Hosted = {} /\ NoFile \notin Files
    /\ Drafts \subseteq Seq(Draft) /\ Edits \subseteq Edit

VARIABLES
    books,      \* books
    variants,   \* book_format_varients
    object,     \* the objects of the bucket, and those moved under archive/
    inUse,      \* the variants that rows of cart_items or order_items name
    req         \* the requests in flight

vars == <<books, variants, object, inUse, req>>

Idle == [op |-> "idle", phase |-> "idle"]
Quiet == \A p \in Admins : req[p] = Idle
Start(p, r) == req[p] = Idle /\ req' = [req EXCEPT ![p] = r]
Goto(p, r) == req' = [req EXCEPT ![p] = r]
Done(p) == Goto(p, Idle)

BooksTypeOK ==
    /\ books \in [BookIds -> Book \cup {NoRow, Gone}]
    /\ variants \in [VariantIds -> Variant \cup {NoRow, Gone}]
    /\ object \in [Files -> {"absent", "stored", "archived"}]
    /\ inUse \subseteq VariantIds
    /\ DOMAIN req = Admins

Init ==
    /\ books = [b \in BookIds |-> NoRow]
    /\ variants = [v \in VariantIds |-> NoRow]
    /\ object = [f \in Files |-> "absent"]
    /\ inUse = {}
    /\ req = [p \in Admins |-> Idle]

-----------------------------------------------------------------------------
Rows(table) == {k \in DOMAIN table : table[k] \notin {NoRow, Gone}}
Fresh(table) == {k \in DOMAIN table : table[k] = NoRow}
(* Variants are numbered as they are inserted.                             *)
NextVariants(n) ==
    {v \in Fresh(variants) : Cardinality({w \in Fresh(variants) : w < v}) < n}
(* Rows TypeORM finds: isArchived and deletedAt are set together.          *)
LiveBooks == {b \in Rows(books) : ~books[b].isArchived}
VariantsOf(b) == {v \in Rows(variants) : variants[v].book = b}

(* The key a service derives from a URL names an object of the bucket only *)
(* when the name of the bucket is not part of the path.                    *)
ServiceKey(f) == IF f \in Hosted /\ ~AwsHost THEN {f} ELSE {}
DeleteKey(f) == IF f \in Hosted THEN {f} ELSE {}

(* deleteFiles and handleMoveFiles try each key, and report failures that  *)
(* the caller only logs; copy and delete of a key that names no object     *)
(* change nothing.                                                         *)
DeleteFiles(keys) ==
    \E done \in SUBSET keys :
        object' = [f \in Files |-> IF f \in done THEN "absent" ELSE object[f]]
HandleMoveFiles(keys) ==
    \E done \in SUBSET {f \in keys : object[f] = "stored"} :
        object' = [f \in Files |-> IF f \in done THEN "archived" ELSE object[f]]

-----------------------------------------------------------------------------
(* The files of a request.  Slot <<n, 0>> is the image of its n-th book,   *)
(* <<n, i>> the file of that book's i-th variant.                          *)

Asked(drafts, slot) ==
    IF slot[2] = 0 THEN drafts[slot[1]].image ELSE drafts[slot[1]].variants[slot[2]].file
Slots(drafts) == UNION {{n} \X (0..Len(drafts[n].variants)) : n \in DOMAIN drafts}
ToUpload(drafts) == {slot \in Slots(drafts) : Asked(drafts, slot) = Upload}
(* The URL that is saved: of the uploaded file, or the one in the request. *)
Url(r, slot, old) ==
    IF slot \in DOMAIN r.files THEN r.files[slot]
    ELSE IF Asked(r.drafts, slot) = Keep THEN old ELSE Asked(r.drafts, slot)

(* The key of a file is the time and its name; create leaves the name of   *)
(* an image out.  Images of the same millisecond may thus share an object, *)
(* and so may variants' files of one name, in one request or in two.       *)
Kind(slot) == IF slot[2] = 0 THEN "image" ELSE "pdf"
JustUploaded(p, kind) ==
    IF req[p].phase = "save" /\ "files" \in DOMAIN req[p]
    THEN {req[p].files[s] : s \in {t \in DOMAIN req[p].files : Kind(t) = kind}} ELSE {}
Keys(slots) ==
    {f \in [slots -> Uploads] : \A s \in slots :
        /\ object[f[s]] = "absent" \/ \E q \in Admins : f[s] \in JustUploaded(q, Kind(s))
        /\ \A t \in slots : f[s] = f[t] => Kind(s) = Kind(t)}
(* The bucket after uploads of which these were stored; those the workers  *)
(* of a bulk creation still store after one of them failed are among them. *)
(* A failure deletes what was stored, by the service's keys.               *)
AfterUploads(stored, all) ==
    [f \in Files |-> IF f \notin stored THEN object[f]
                     ELSE IF ~all /\ ServiceKey(f) # {} THEN "absent" ELSE "stored"]

(* MUTANT: files that fail are skipped.                                    *)
UploadAssetsSettled(p) ==
    LET r == req[p] slots == ToUpload(r.drafts) IN
    /\ r.phase = "upload"
    /\ \E stored \in SUBSET slots, f \in Keys(slots) :
        /\ object' = [g \in Files |-> IF \E s \in stored : f[s] = g THEN "stored" ELSE object[g]]
        /\ Goto(p, [r EXCEPT !.phase = "save", !.files = f])
    /\ UNCHANGED <<books, variants, inUse>>

UploadAssets(p) ==
    LET r == req[p] slots == ToUpload(r.drafts) IN
    /\ r.phase = "upload"
    /\ \E stored \in SUBSET slots : \E f \in Keys(stored) :
        /\ object' = AfterUploads(Range(f), stored = slots)
        /\ IF stored = slots THEN Goto(p, [r EXCEPT !.phase = "save", !.files = f]) ELSE Done(p)
    /\ UNCHANGED <<books, variants, inUse>>

-----------------------------------------------------------------------------
(* BooksService.create and CreateBookProvider.bulkCreate *)

(* What findByTitle or findByTitles may answer: the live books with these  *)
(* titles, or nothing, which is also their answer when the query fails.    *)
FindByTitles(titles) == {{b \in LiveBooks : books[b].title \in titles}, {}}

CreateBegin(p, op, drafts) ==
    /\ \E found \in FindByTitles({drafts[n].title : n \in DOMAIN drafts}) : found = {}
    /\ Start(p, [op |-> op, phase |-> "upload", drafts |-> drafts, files |-> <<>>])
    /\ UNCHANGED <<books, variants, object, inUse>>

(* The unique index on the title covers archived rows.                     *)
(* MUTANT: no unique index.                                                *)
TitleFreeUnindexed(b, title) == TRUE
TitleFree(b, title) == \A c \in Rows(books) \ {b} : books[c].title # title

(* create stores no stock of a digital variant, bulkCreate what it is told; *)
(* one that is left out is 0.                                              *)
InitialStock(op, v) ==
    IF v.stock = Keep \/ (op # "bulkCreate" /\ v.format \notin Physical) THEN 0 ELSE v.stock
NewVariant(op, b, v, file) ==
    [book |-> b, format |-> v.format, stock |-> InitialStock(op, v), reserved |-> 0, file |-> file]

NewBook(r, n) ==
    [title |-> r.drafts[n].title, visibility |-> r.drafts[n].visibility,
     isArchived |-> FALSE, image |-> Url(r, <<n, 0>>, NoFile)]

Create(p) ==
    LET r == req[p]
        lines == {slot \in Slots(r.drafts) : slot[2] # 0} IN
    /\ r.op \in {"create", "bulkCreate"} /\ r.phase = "save"
    /\ \E id \in Injection(DOMAIN r.drafts, Fresh(books)),
          row \in Injection(lines, NextVariants(Cardinality(lines))) :
        /\ \A n \in DOMAIN r.drafts : TitleFree(id[n], r.drafts[n].title)
        /\ \A m, n \in DOMAIN r.drafts : m # n => r.drafts[m].title # r.drafts[n].title
        /\ books' = [b \in BookIds |->
                IF b \notin Range(id) THEN books[b]
                ELSE NewBook(r, CHOOSE n \in DOMAIN id : id[n] = b)]
        /\ variants' = [v \in VariantIds |->
                IF v \notin Range(row) THEN variants[v]
                ELSE LET s == CHOOSE s \in lines : row[s] = v
                     IN NewVariant(r.op, id[s[1]], r.drafts[s[1]].variants[s[2]], Url(r, s, NoFile))]
    /\ Done(p)
    /\ UNCHANGED <<object, inUse>>

-----------------------------------------------------------------------------
(* BooksService.updateBook.  An edit says Keep for a field it leaves out;  *)
(* replaceVariants tells an edit that lists the variants from one without. *)

UpdateBegin(p, b, edit) ==
    /\ b \in LiveBooks
    /\ Start(p, [op |-> "update", phase |-> "upload", drafts |-> <<edit>>, files |-> <<>>, book |-> b,
                 row |-> books[b],
                 formats |-> [v \in VariantIds |-> IF v \in VariantsOf(b) THEN variants[v] ELSE NoRow]])
    /\ UNCHANGED <<books, variants, object, inUse>>

(* MUTANT: a field that is left out is saved as such.                      *)
OverlaidBlindly(new, old) == new
Overlaid(new, old) == IF new = Keep THEN old ELSE new

(* Each variant of the edit claims, of the variants that were read, the    *)
(* one with its id, else one of its format that no earlier one has claimed. *)
Claims(r) ==
    LET lines == r.drafts[1].variants IN
    {m \in [DOMAIN lines -> Rows(r.formats) \cup {NoId}] :
        \A i \in DOMAIN lines :
            LET alike == {v \in Rows(r.formats) : r.formats[v].format = lines[i].format}
                             \ {m[j] : j \in 1..(i - 1)} IN
            IF lines[i].id \in Rows(r.formats) THEN m[i] = lines[i].id
            ELSE m[i] \in (IF alike = {} THEN {NoId} ELSE alike)}

(* MUTANT: the whole entity that was read is saved, not the columns sent.  *)
EditedWhole(r, v, i) ==
    LET line == r.drafts[1].variants[i] IN
    [r.formats[v] EXCEPT
        !.format = line.format,
        !.stock = IF line.stock = Keep THEN @ ELSE IF line.format \in Physical THEN line.stock ELSE 0,
        !.file = Url(r, <<1, i>>, @)]
(* The columns the edit sends are updated, those it leaves out are not.    *)
Edited(r, v, i) ==
    LET line == r.drafts[1].variants[i] IN
    [variants[v] EXCEPT
        !.format = line.format,
        !.stock = IF line.stock = Keep THEN @ ELSE IF line.format \in Physical THEN line.stock ELSE 0,
        !.file = Url(r, <<1, i>>, @)]

(* The files a commit leaves behind: those an upload replaced and those of *)
(* deleted variants, as they were read.  A URL sent instead of a file      *)
(* replaces the old one without deleting it.                               *)
Replaced(r, m, deleted) ==
    (IF <<1, 0>> \in DOMAIN r.files THEN {r.row.image} ELSE {})
    \cup {r.formats[m[i]].file : i \in {j \in DOMAIN m : m[j] # NoId /\ <<1, j>> \in DOMAIN r.files}}
    \cup {r.formats[v].file : v \in deleted}

(* The book is saved as it was read with the edit laid over it, inserted   *)
(* again if it was deleted meanwhile.  The variants that were read belong  *)
(* to it; one it has got since loses its book.                             *)
UpdateBook(p) ==
    LET r == req[p] e == r.drafts[1] b == r.book seen == Rows(r.formats)
        title == Overlaid(e.title, r.row.title) IN
    /\ r.op = "update" /\ r.phase = "save"
    /\ TitleFree(b, title)
    /\ books' = [books EXCEPT ![b] =
            [title |-> title, visibility |-> Overlaid(e.visibility, r.row.visibility),
             isArchived |-> FALSE, image |-> Url(r, <<1, 0>>, r.row.image)]]
    /\ \E m \in Claims(r) :
        LET added == {i \in DOMAIN m : m[i] = NoId}
            deleted == IF e.replaceVariants THEN seen \ Range(m) ELSE {} IN
        /\ deleted \cap inUse = {}
        /\ \E row \in Injection(added, NextVariants(Cardinality(added))) :
            variants' = [v \in VariantIds |->
                IF v \in Range(row)
                THEN LET i == CHOOSE i \in added : row[i] = v
                     IN NewVariant("update", b, e.variants[i], Url(r, <<1, i>>, NoFile))
                ELSE IF v \notin Rows(variants) THEN variants[v]
                ELSE IF v \in deleted THEN Gone
                ELSE IF v \in Range(m)
                THEN [Edited(r, v, CHOOSE i \in DOMAIN m : m[i] = v) EXCEPT !.book = b]
                ELSE IF v \in seen THEN [variants[v] EXCEPT !.book = b]
                ELSE IF variants[v].book = b THEN [variants[v] EXCEPT !.book = NoId]
                ELSE variants[v]]
        /\ Goto(p, [op |-> "sweep", phase |-> "sweep",
                    keys |-> UNION {ServiceKey(f) : f \in Replaced(r, m, deleted)}])
    /\ UNCHANGED <<object, inUse>>

(* Deleting the replaced files after the commit, as far as it succeeds.    *)
DeleteOldKeys(p) ==
    /\ req[p].op = "sweep"
    /\ DeleteFiles(req[p].keys)
    /\ Done(p)
    /\ UNCHANGED <<books, variants, inUse>>

-----------------------------------------------------------------------------
(* DeleteBookProvider: the objects first, the row after.  The variants are *)
(* not loaded, so their files are not among the keys.                      *)

DeleteBegin(p, b, force) ==
    /\ b \in LiveBooks
    /\ Start(p, [op |-> "delete", phase |-> "storage", book |-> b, force |-> force,
                 keys |-> DeleteKey(books[b].image)])
    /\ UNCHANGED <<books, variants, object, inUse>>

DeleteStorage(p) ==
    LET r == req[p] IN
    /\ r.op = "delete" /\ r.phase = "storage"
    /\ IF r.force THEN DeleteFiles(r.keys) ELSE HandleMoveFiles(r.keys)
    /\ Goto(p, [r EXCEPT !.phase = "row"])
    /\ UNCHANGED <<books, variants, inUse>>

MarkBookArchived(p) ==
    LET r == req[p] IN
    /\ r.op = "delete" /\ r.phase = "row" /\ ~r.force
    /\ books' = IF r.book \in Rows(books) THEN [books EXCEPT ![r.book].isArchived = TRUE] ELSE books
    /\ Done(p)
    /\ UNCHANGED <<variants, object, inUse>>

(* The variants go with the book, unless a cart or an order names one.     *)
DeleteBookRecord(p) ==
    LET r == req[p] IN
    /\ r.op = "delete" /\ r.phase = "row" /\ r.force
    /\ VariantsOf(r.book) \cap inUse = {}
    /\ books' = [books EXCEPT ![r.book] = Gone]
    /\ variants' = [v \in VariantIds |-> IF v \in VariantsOf(r.book) THEN Gone ELSE variants[v]]
    /\ Done(p)
    /\ UNCHANGED <<object, inUse>>

-----------------------------------------------------------------------------
(* BookAgeGroupsService, of whose requests the memberships are the concern *)
(* of CatalogTables.  It saves the book it read, every column of it, and   *)
(* inserts it again if it was deleted meanwhile.                           *)
AgeGroupBegin(p, b) ==
    /\ b \in LiveBooks
    /\ Start(p, [op |-> "ageGroup", phase |-> "save", book |-> b, row |-> books[b]])
    /\ UNCHANGED <<books, variants, object, inUse>>

SaveAgeGroup(p) ==
    LET r == req[p] IN
    /\ r.op = "ageGroup" /\ TitleFree(r.book, r.row.title)
    /\ books' = [books EXCEPT ![r.book] = r.row]
    /\ Done(p)
    /\ UNCHANGED <<variants, object, inUse>>

-----------------------------------------------------------------------------
(* After a rollback the uploaded files are deleted, as far as the service  *)
(* knows their keys.                                                       *)
CleanUp(r) ==
    LET uploaded == IF "files" \in DOMAIN r THEN Range(r.files) ELSE {} IN
    DeleteFiles(UNION {ServiceKey(f) : f \in uploaded})
(* An error or a crash ends the request.                                   *)
Abort(p) ==
    /\ req[p] # Idle
    /\ CleanUp(req[p])
    /\ Done(p)
    /\ UNCHANGED <<books, variants, inUse>>

-----------------------------------------------------------------------------
(* UploadController, and what carts and orders do to a variant.            *)
AdminUpload(f) ==
    /\ object[f] = "absent" /\ f \in Hosted
    /\ object' = [object EXCEPT ![f] = "stored"]
    /\ UNCHANGED <<books, variants, inUse, req>>

Reserve(v) ==
    /\ v \in Rows(variants) /\ variants[v].format \in Physical
    /\ variants[v].reserved < variants[v].stock
    /\ variants' = [variants EXCEPT ![v].reserved = @ + 1]
    /\ inUse' = inUse \cup {v}
    /\ UNCHANGED <<books, object, req>>
Release(v) ==
    /\ v \in Rows(variants) /\ variants[v].reserved > 0
    /\ variants' = [variants EXCEPT ![v].reserved = @ - 1]
    /\ UNCHANGED <<books, object, inUse, req>>
(* A row that holds nothing, of a digital variant or an expired cart, and  *)
(* an order keep a variant from being deleted too; and a row goes.         *)
NameVariant(v) ==
    /\ v \in Rows(variants)
    /\ inUse' = inUse \cup {v}
    /\ UNCHANGED <<books, variants, object, req>>
LastRowGoes(v) ==
    /\ inUse' = inUse \ {v}
    /\ UNCHANGED <<books, variants, object, req>>

CreateRequest(p) ==
    \E op \in {"create", "bulkCreate"}, drafts \in Drafts :
        (op = "create" => Len(drafts) = 1) /\ CreateBegin(p, op, drafts)
UpdateRequest(p) == \E b \in BookIds, edit \in Edits : UpdateBegin(p, b, edit)
DeleteRequest(p) == \E b \in BookIds, force \in BOOLEAN : DeleteBegin(p, b, force)
AgeGroupRequest(p) == \E b \in BookIds : AgeGroupBegin(p, b)
Begin(p) == CreateRequest(p) \/ UpdateRequest(p) \/ DeleteRequest(p) \/ AgeGroupRequest(p)

Finish(p) ==
    \/ UploadAssets(p) \/ Create(p) \/ UpdateBook(p) \/ DeleteOldKeys(p)
    \/ DeleteStorage(p) \/ MarkBookArchived(p) \/ DeleteBookRecord(p) \/ SaveAgeGroup(p)

Next ==
    \/ \E p \in Admins : Begin(p) \/ Finish(p) \/ Abort(p)
    \/ \E f \in Hosted : AdminUpload(f)
    \/ \E v \in VariantIds : Reserve(v) \/ Release(v) \/ NameVariant(v) \/ LastRowGoes(v)

Spec == Init /\ [][Next]_vars

-----------------------------------------------------------------------------
(* UniqueTitles: two books never have the same title, though create and    *)
(* bulkCreate test it long before they insert and a rename not at all.     *)
UniqueTitles == \A b, c \in Rows(books) : books[b].title = books[c].title => b = c

(* UploadedStored: a URL saved by an endpoint of books names an object,    *)
(* whichever upload, transaction or clean-up of it or another failed.      *)
Referenced == {books[b].image : b \in Rows(books)} \cup {variants[v].file : v \in Rows(variants)}
UploadedStored == \A f \in Referenced \cap Uploads : object[f] = "stored"

(* AdminsKeepReserved: what carts have reserved meanwhile survives every   *)
(* request of an administrator, however long ago it read the variant; one  *)
(* that a cart or an order names is not deleted.                           *)
AdminsKeepReserved ==
    [][\A v \in Rows(variants) : req' # req =>
        \/ variants'[v] = Gone /\ v \notin inUse
        \/ variants'[v].reserved = variants[v].reserved]_vars

=============================================================================
