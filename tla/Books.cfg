SPECIFICATION Spec
CONSTANTS
  b1 = b1 b2 = b2 t1 = t1 t2 = t2 t3 = t3 f1 = f1 f2 = f2 h1 = h1 a1 = a1 a2 = a2
  fairy = fairy space = space young = young
  BookIds = {b1, b2}
  MaxVariants = 2
  Titles = {t1, t2, t3}
  Formats = {"paperback", "pdf"}
  Physical = {"paperback"}
  Uploads = {f1, f2}
  Hosted = {h1}
  AwsHost = FALSE
  Admins = {a1, a2}
  Drafts <- AllDrafts
  Edits <- AllEdits
  NoRow = NoRow
  Gone = Gone
  NoId = NoId
  NoFile = NoFile
  Upload = Upload
  Keep = Keep
  Genre <- GenreOf
  AgeGroups <- AgeGroupsOf
  FullText <- FullTextOf
  Similar <- SimilarTo
  MaxLimit = 2
  MaxRelated = 1
  NoTerm = NoTerm
SYMMETRY Symmetry
CHECK_DEADLOCK FALSE
INVARIANTS BooksTypeOK UniqueTitles UploadedStored FacetsDrillDown HiddenLeavesNoTrace PagesPartition
PROPERTY AdminsKeepReserved
