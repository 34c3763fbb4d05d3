CONSTANTS
  Parts = {"hierarchy", "crawl", "dedup", "retrieval", "overrides"}
  u1 = u1
  u2 = u2
  u3 = u3
  u4 = u4
  s1 = s1
  s2 = s2
  Trees <- SmallTrees
  Versions <- SomeVersions
  Depths <- SomeDepths
  Plain <- OtherDocument
  Thresholds <- SomeThresholds
  Urls = {u1, u2, u3, u4}
  Seeds <- SomeSeeds
  Sites <- SomeSites
  Docs = {1, 2, 3}
  Texts <- SomeTexts
  Created <- Dates
  NumBits = 6
  NumBands = 2
  IdenticalDistance = 1
  SimilarDistance = 2
  RowsPerBand = 2
  LshBands = 2
  JaccardMin = 2
  TitleFloor = 1
  SimilarScore = 50
  IdenticalScore = 90
  CompareAll = TRUE
  Chunks <- SomeChunks
  KbLists <- SomeKbLists
  Scores = {1, 2}
  TopK = 3
  TopN = 2
  RrfK = 2
  Unit = 60
  Servers = {s1, s2}
  Globals <- SomeGlobals
  Bodies <- SomeBodies
  Missing = Missing
  Null = Null
SPECIFICATION Spec
CONSTRAINT FewExemptions
VIEW Read
CHECK_DEADLOCK FALSE
INVARIANTS
  RowsClosed
  HitsKept
  MergesToWhole
  FetchedOnceAtDistance
  CrawlComplete
  CloseShareBand
  TwinsLeftIndex
  RetiredForLiving
  FusionTakesTurns
  LeftOutIsOutranked
  FallbackIsPrefix
  AcceptedTogetherResolve
