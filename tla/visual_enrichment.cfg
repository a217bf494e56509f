SPECIFICATION Spec
CONSTANTS
  i1 = i1
  i2 = i2
  Image <- MCImage
  Prompt = {p1, p2}
  Format <- MCFormat
  File <- MCFile
  Width = {1, 2}
  MaxAttempts = 3
  Env = {"prompt", "unresolved", "dberror", "workercrash"}
INVARIANTS
  EveryVisualHasItsText
  TextsAreOfThePrompt
  NothingIsAskedTwice
  SomeEvidenceIsKept
  InterruptedIsNotConverted
PROPERTIES
  EveryConversionEnds
CHECK_DEADLOCK FALSE
