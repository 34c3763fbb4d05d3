CONSTANTS
  d1 = d1
  d2 = d2
  j1 = j1
  j2 = j2
  t1 = t1
  t2 = t2
  s1 = s1
  s2 = s2
  NoDoc = NoDoc
  Sources = {s1, s2}
  DocIds = {d1, d2}
  SourceOf <- TwoSources
  AttachedTo <- PageAndAttachment
  Jobs = {j1, j2}
  MaxWorkers = 1
  MaxPerPoll = 2
  DedupOn = FALSE
  QdrantFails = TRUE
  Clients = {}
  MaxUploads = 0
  MaxCrashes = 1
  MaxOverrides = 0
  Conns = {c1}
  NoConn = NoConn
  Threads = {t1}
  Api = Api
  Types = {"confluence", "github"}
  MaxSyncs = 1
  MaxAdmin = 1
  MaxEdits = 1
SPECIFICATION SysSpec
SYMMETRY Symmetry
INVARIANTS
  SyncedServesOrigin
  DeletedStaysDeleted
