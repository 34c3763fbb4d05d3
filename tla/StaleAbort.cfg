CONSTANTS
  d1 = d1
  d2 = d2
  j1 = j1
  j2 = j2
  t1 = t1
  t2 = t2
  s1 = s1
  s2 = s2
  NoDoc = NoDoc
  Sources = {s1}
  DocIds = {d1}
  SourceOf <- OneSource
  AttachedTo <- Alone
  Jobs = {j1, j2}
  MaxWorkers = 1
  MaxPerPoll = 2
  DedupOn = FALSE
  QdrantFails = FALSE
  Clients = {}
  MaxUploads = 0
  MaxCrashes = 1
  MaxOverrides = 0
  Conns = {c1}
  NoConn = NoConn
  Threads = {t1}
  Api = Api
  Types = {"web"}
  MaxSyncs = 2
  MaxAdmin = 1
  MaxEdits = 0
SPECIFICATION SysSpec
INVARIANTS
  OnlyAskedSyncsStop
