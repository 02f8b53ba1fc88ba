------------------------------- MODULE MCBooks -------------------------------
(* Instances of BookQueries for TLC: a few books, and the changes that are  *)
(* made to them.                                                            *)
EXTENDS BookQueries, TLC

CONSTANTS b1, b2, t1, t2, t3, f1, f2, h1, a1, a2, fairy, space, young

LineOf(id, format, stock, file) == [id |-> id, format |-> format, stock |-> stock, file |-> file]
DraftOf(title, visibility, image, lines) ==
    [title |-> title, visibility |-> visibility, image |-> image, variants |-> lines]
EditOf(title, visibility, image, replace, lines) ==
    [title |-> title, visibility |-> visibility, image |-> image, variants |-> lines,
     replaceVariants |-> replace]

Paper(file) == LineOf(NoId, "paperback", 1, file)
Pdf(file) == LineOf(NoId, "pdf", 1, file)

PublicBook == <<DraftOf(t3, "public", Upload, <<Paper(NoFile)>>)>>
TwoBooks == <<DraftOf(t1, "public", Upload, <<Pdf(NoFile)>>), DraftOf(t2, "private", Upload, <<Pdf(h1)>>)>>

AllDrafts == {PublicBook, TwoBooks}
AllEdits == {EditOf(t2, "public", Upload, FALSE, <<>>),
             EditOf(Keep, "draft", h1, TRUE, <<LineOf(1, "paperback", 0, Keep), LineOf(NoId, "paperback", Keep, Upload)>>)}

GenreOf == [t \in Titles |-> IF t = t3 THEN space ELSE fairy]
AgeGroupsOf == [t \in Titles |-> IF t = t2 THEN {} ELSE {young}]
FullTextOf == [w \in {"word"} |-> {t2}]
SimilarTo == [w \in {"word"} |-> {t1, t2}]

Symmetry == Permutations(Admins) \cup Permutations(BookIds) \cup Permutations(Uploads)
=============================================================================
