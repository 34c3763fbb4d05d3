CONSTANTS
  s1 = s1
  d1 = d1
  j1 = j1
  j2 = j2
  j3 = j3
  NoDoc = NoDoc
  NoRun = NoRun
  OldRun = OldRun
  Sources = {s1}
  DocIds = {d1}
  SourceOf <- OneSource
  Jobs = {j1, j2}
  MaxWorkers = 1
  MaxPerPoll = 2
  DedupOn = FALSE
  QdrantFails = FALSE
  MaxQueued = 2
  Forces = {FALSE}
  Aborts = TRUE
  Clients = {"upload", "delete", "fail", "recover"}
  MaxUploads = 1
  MaxCrashes = 1
  MaxOverrides = 1
SPECIFICATION DagSpec
CONSTRAINT FewFaults
VIEW NoHistory
SYMMETRY RunSymmetry
INVARIANTS
  SensorTypeOK
  OneDispatch
  DropIsCovered
  DagsterOwned
PROPERTIES
  ZombieWasTerminated
