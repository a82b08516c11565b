SPECIFICATION FairSpec
CONSTANTS
  Batch = Batch
  Scan = Scan
  Letter = Letter
  Poster = Poster
  Docs = {Batch, Scan, Letter, Poster}
  Images = {Poster}
  Oversized = {Batch, Scan, Poster}
  Pages <- PagesOf
  Uncounted = {Scan}
  Fit <- FitOf
  Steps = {3, 2}
  Readings <- ReadingsOf
  PastEnd = {"throws", "empty"}
  CallCost = 2
  Cap = 3
  MaxErrors = 1
  MaxStart = 7
  Dates = {1, 2}
  PreFloor = {1}
  Null = Null
INVARIANTS WholeMeansEveryPage NoPagePaidTwice OvershootIsBounded DatesAreSound
PROPERTIES CountedDocumentsSettle
CHECK_DEADLOCK FALSE
