\* One upload of one or two lines while one request changes the categories.
CONSTANTS
  Category = {c1, c2}
  Name = {n1, n2}
  Slug = {s1, s2}
  Request = {r1}
  Failures = FALSE
  File <- MCFile
  All = All
  MaxPrice = 9
  MaxStock = 2
  UploadFailures = TRUE
  Nil = Nil
SPECIFICATION BulkSpec
INVARIANTS ReportExact ReportedDone FiledUnderSlug ListsAccounted
SYMMETRY Symmetry
