SPECIFICATION Spec
CONSTANTS
  r1 = r1
  r2 = r2
  Run <- TwoRuns
  ContinueOnError <- OneKeepsGoing
  Brands = 2
  Lease = 1
  MaxTime = 4
  MaxKills = 1
INVARIANTS
  TypeOK
  DisplacedRunStops
  SummaryMeansUnbrokenLease
  CompletedMeansEveryBrand
  EndedRunsLeaveNoLease
PROPERTIES
  ImplementsLease
