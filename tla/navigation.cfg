SPECIFICATION Spec
CONSTANTS
  f1 = f1
  f2 = f2
  f3 = f3
  d1 = d1
  d2 = d2
  d3 = d3
  Folder <- MCFolder
  Document <- MCDocument
  FolderOf <- MCFolderOf
  StartParts <- MCStartParts
  Limits <- MCLimits
  MaxPart = 2
  MaxVersion = 2
  MaxGen = 2
  Intent = {"answer", "download", "small_talk"}
  MaxBatches = 2
  MaxRows = 2
  Window = {0, 12}
  MaxOutput = {0, 1}
  PartTokens = {4, 6}
  Reconverted <- MCReconverted
INVARIANTS
  TypeOK
  SelectionIsListed
  SelectionKeepsLimits
  CapSharesEvidence
  FallbackIsBestFirst
  EvidenceFitsTheModel
  AnswerQuotesEvidence
CHECK_DEADLOCK FALSE
