SPECIFICATION Spec
CONSTANTS
  Source = {s1}
  Bytes = {b1, b2}
  Null = Null
  Request = {r1}
  MaxStamp = 2
  MaxGen = 2
  Env = {"scan", "upload", "replace", "delete", "edit", "download", "requestfail", "dberror", "workercrash"}
INVARIANTS
  TypeOK
  LiveGenerationIsWhole
  IndexedIsContained
  CardDescribesArtifact
PROPERTIES
  PointerStaysWithTable
  RetiredOnlyBySuccessor
  LiveIndexIsARegister
  
SYMMETRY ContentSymmetry
CHECK_DEADLOCK FALSE
