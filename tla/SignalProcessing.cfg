\* Three workers racing on one key (a late event included), one crash, one fatal.
SPECIFICATION Spec
CONSTANTS
  k1 = k1
  k2 = k2
  w1 = w1
  w2 = w2
  w3 = w3
  Key <- OneKey
  Worker <- ThreeWorkers
  DemoProfile = TRUE
  MaxCrashes = 1
  MaxFatals = 1
INVARIANTS
  TypeOK
  RoutesFollowTheirClassification
  RouteWriteNeverConflicts
  OnlyErrorsEscapeTheLedger
  AnswersAreDurable
  OnlyCutOffSignalsLackRoutes
  ChargesAreBounded
PROPERTIES
  ImplementsLedger
SYMMETRY Symmetry
