CONSTANTS
  s1 = s1
  s2 = s2
  d1 = d1
  d2 = d2
  j1 = j1
  j2 = j2
  j3 = j3
  NoDoc = NoDoc
  Sources = {s1}
  DocIds = {d1, d2}
  SourceOf <- OneSource
  Jobs = {j1, j2, j3}
  MaxWorkers = 2
  MaxPerPoll = 1
  DedupOn = FALSE
  QdrantFails = TRUE
  Clients = {"upload", "delete", "reindex", "reindexKb", "fail", "recover"}
  MaxUploads = 3
  MaxCrashes = 2
  MaxOverrides = 0
SPECIFICATION Spec
SYMMETRY JobSymmetry
INVARIANTS
  TypeOK
  OneWorkItem
  LastRequestWins
  IndexedServesFile
  WorkIsAsked
PROPERTIES
  ImplementsFlow
