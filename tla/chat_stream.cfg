SPECIFICATION Spec
CONSTANTS
  Preference <- Protocols
  Text <- Texts
  Piece = {2, 5}
  MaxSummaries = 1
  ReportEvery = 12
  FlushAt = 2
INVARIANTS
  SessionOutlivesTasks
  StreamedTextIsTheAnswer
  RequestsAreBounded
PROPERTIES
  
  EveryQuestionEnds
  ListenerIsAnswered
CHECK_DEADLOCK FALSE
