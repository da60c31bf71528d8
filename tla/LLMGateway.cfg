SPECIFICATION Spec
CONSTANTS
  Models = 2
  Timeout = 14
  Overrun = 2
INVARIANTS
  TypeOK
  ReportedCostIsBilled
  FallbackIsEarned
  OneRequestOutlastsTheCap
  RequestsAreBounded
PROPERTIES
  CompletionEnds
