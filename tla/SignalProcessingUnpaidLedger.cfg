\* One configuration error of the route stage, no crash.
SPECIFICATION Spec
CONSTANTS
  k1 = k1
  k2 = k2
  w1 = w1
  w2 = w2
  w3 = w3
  Key <- OneKey
  Worker <- TwoWorkers
  DemoProfile = FALSE
  MaxCrashes = 0
  MaxFatals = 1
INVARIANTS
  PaidCallsAreInTheLedger
