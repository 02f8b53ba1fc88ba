----------------------------- MODULE BookQueries -----------------------------
(***************************************************************************)
(* What FindBookProvider and BooksService answer about the books of        *)
(* BookFiles: findAll with its filters, search, pages and facets, findOne, *)
(* and the related books.  The queries change nothing: they are operators  *)
(* of the table of books they are asked of.                                *)
(***************************************************************************)
EXTENDS BookFiles, SequencesExt

CONSTANTS
    Genre,          \* the genre of the book with a title
    AgeGroups,      \* the age groups of the book with a title
    FullText,       \* the titles a search term matches by full text
    Similar,        \* the titles a search term is similar to
    MaxLimit,       \* the largest page, 50 in the code
    MaxRelated,     \* the related books looked at, 5 in the code
    NoTerm          \* a query without search term or genre

ASSUME QueriesAssumption ==
    MaxLimit \in Nat \ {0} /\ MaxRelated \in Nat \ {0} /\ IsFiniteSet(BookIds)

Terms == DOMAIN FullText
Genres == Range(Genre)
Groups == UNION Range(AgeGroups)

(* baseQb.  Archiving sets deletedAt, so an archived book is never found.  *)
Visible(table, b, includeArchived, includePrivate) ==
    /\ b \in Rows(table) /\ ~table[b].isArchived
    /\ includeArchived \/ ~table[b].isArchived
    /\ includePrivate \/ table[b].visibility = "public"

(* Only an administrator sees more than the public, by what he asks for.   *)
Base(table, q) ==
    {b \in BookIds : Visible(table, b, q.isAdmin /\ q.includeArchived,
                             q.isAdmin /\ q.visibility \in {"private", "draft", "all"})}

Titled(table, found, titles) == {b \in found : table[b].title \in titles}

(* Full text when it finds anything among the visible books, before the    *)
(* other filters; else similarity.                                         *)
(* MUTANT: any book decides, visible or not.                               *)
SearchedAnywhere(table, q) ==
    LET found == Base(table, q) IN
    IF q.term = NoTerm THEN found
    ELSE IF Titled(table, Rows(table), FullText[q.term]) # {} THEN Titled(table, found, FullText[q.term])
    ELSE Titled(table, found, Similar[q.term])
Searched(table, q) ==
    LET found == Base(table, q) IN
    IF q.term = NoTerm THEN found
    ELSE IF Titled(table, found, FullText[q.term]) # {} THEN Titled(table, found, FullText[q.term])
    ELSE Titled(table, found, Similar[q.term])

HasFormat(b, formats) == \E v \in VariantsOf(b) : variants[v].format \in formats
InGroup(table, b, groups) == AgeGroups[table[b].title] \cap groups # {}

Filtered(table, q) ==
    {b \in Searched(table, q) :
        /\ q.groups # {} => InGroup(table, b, q.groups)
        /\ q.genre # NoTerm => Genre[table[b].title] = q.genre
        /\ q.formats # {} => HasFormat(b, q.formats)}
Total(table, q) == Cardinality(Filtered(table, q))

(* The facets join the filtered books once more and count each book once.  *)
(* MUTANT: COUNT instead of COUNT(DISTINCT book.id).                       *)
FormatFacetRows(table, q, f) ==
    Cardinality({v \in Rows(variants) : variants[v].book \in Filtered(table, q) /\ variants[v].format = f})
FormatFacet(table, q, f) == Cardinality({b \in Filtered(table, q) : HasFormat(b, {f})})
GroupFacet(table, q, g) == Cardinality({b \in Filtered(table, q) : InGroup(table, b, {g})})
(* The genres are counted with where(), which replaces every condition and *)
(* leaves the joins; as counted for the first page of a list.              *)
GenreFacet(table, q, g) ==
    Cardinality({b \in Rows(table) : /\ Genre[table[b].title] = g
                                     /\ q.groups # {} => InGroup(table, b, q.groups)
                                     /\ q.formats # {} => HasFormat(b, q.formats)})

(* Pages of a list in one order.  The query sorts by one column, createdAt *)
(* by default, which the books of a bulk creation share.  Two queries may  *)
(* put such books in different orders; of pages taken from both nothing is *)
(* said here.                                                              *)
SafeLimit(limit) == IF limit < 1 THEN 1 ELSE IF limit > MaxLimit THEN MaxLimit ELSE limit
SafePage(page) == IF page < 1 THEN 1 ELSE page
(* MUTANT: skip = page * limit.                                            *)
SkipOnePage(page, limit) == SafePage(page) * SafeLimit(limit)
Skip(page, limit) == (SafePage(page) - 1) * SafeLimit(limit)
Page(list, page, limit) ==
    SubSeq(list, Skip(page, limit) + 1,
           IF Skip(page, limit) + SafeLimit(limit) < Len(list)
           THEN Skip(page, limit) + SafeLimit(limit) ELSE Len(list))
TotalPages(total, limit) == (total + SafeLimit(limit) - 1) \div SafeLimit(limit)
HasNextPage(total, page, limit) == SafePage(page) < TotalPages(total, limit)

(* findOne of the public, and findRelated: of the first books of    *)
(* the genre those that are not the book itself.                           *)
FindOne(table, id) == IF Visible(table, id, FALSE, FALSE) THEN {id} ELSE {}

PublicQuery == [isAdmin |-> FALSE, includeArchived |-> FALSE, visibility |-> "all",
                term |-> NoTerm, genre |-> NoTerm, formats |-> {}, groups |-> {}]
FindRelated(table, id) ==
    LET same == Filtered(table, [PublicQuery EXCEPT !.genre = Genre[table[id].title]]) IN
    {first \ {id} : first \in {s \in SUBSET same : Cardinality(s) = Min({MaxRelated, Cardinality(same)})}}

-----------------------------------------------------------------------------
(* Queries are asked when no request is in flight: Abort leads from every  *)
(* state to such a one with the same books.                                *)
PublicQueries ==
    [isAdmin : {FALSE}, includeArchived : BOOLEAN, visibility : {"all"}, term : Terms \cup {NoTerm},
     genre : Genres \cup {NoTerm}, formats : {{}, Physical}, groups : {{}} \cup {{g} : g \in Groups}]

(* FacetsDrillDown: the number beside a format or an age group is the      *)
(* number of books the same query finds with that filter added.            *)
FacetsDrillDown ==
    Quiet => \A q \in PublicQueries :
        /\ q.formats = {} => \A f \in Formats :
                FormatFacet(books, q, f) = Total(books, [q EXCEPT !.formats = {f}])
        /\ q.groups = {} => \A g \in Groups :
                GroupFacet(books, q, g) = Total(books, [q EXCEPT !.groups = {g}])

(* HiddenLeavesNoTrace: no answer to the public, but the counts of genres, *)
(* depends on books that are private, drafts or archived.                  *)
PublicTable == [b \in BookIds |-> IF Visible(books, b, FALSE, FALSE) THEN books[b] ELSE NoRow]
HiddenLeavesNoTrace ==
    Quiet => \A q \in PublicQueries :
        /\ Filtered(books, q) = Filtered(PublicTable, q)
        /\ \A f \in Formats : FormatFacet(books, q, f) = FormatFacet(PublicTable, q, f)
        /\ \A b \in Filtered(books, q) :
            /\ FindOne(books, b) = {b}
            /\ \A related \in FindRelated(books, b) : \A c \in related : FindOne(books, c) = {c}

(* PagesPartition: whatever page and limit are asked for, the pages of a   *)
(* list in one order put one after the other are the list, and each but    *)
(* the last says that there is a next one.                                 *)
PagesPartition ==
    Quiet => LET list == SetToSeq(LiveBooks) total == Len(list) IN
    \A limit \in -1..(MaxLimit + 1) :
        LET pages == TotalPages(total, limit) IN
        /\ FlattenSeq([n \in 1..pages |-> Page(list, n, limit)]) = list
        /\ \A page \in -1..(pages + 1) :
            HasNextPage(total, page, limit) <=> Page(list, SafePage(page) + 1, limit) # <<>>

=============================================================================
