CONSTANTS
  s1 = s1
  s2 = s2
  d1 = d1
  d2 = d2
  j1 = j1
  j2 = j2
  j3 = j3
  NoDoc = NoDoc
  Sources = {s1, s2}
  DocIds = {d1, d2}
  SourceOf <- TwoSources
  Jobs = {j1, j2, j3}
  MaxWorkers = 2
  MaxPerPoll = 1
  DedupOn = TRUE
  QdrantFails = FALSE
  Clients = {"upload", "delete", "fail"}
  MaxUploads = 2
  MaxCrashes = 0
  MaxOverrides = 0
SPECIFICATION Spec
SYMMETRY JobSymmetry
INVARIANTS
  OwnershipInv
  GoneServesNothing
PROPERTIES
  ImplementsFlow
