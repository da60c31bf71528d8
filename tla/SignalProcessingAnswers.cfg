\* Retries and liveness: two workers over two keys, every kind of fault once.
SPECIFICATION Spec
CONSTANTS
  k1 = k1
  k2 = k2
  w1 = w1
  w2 = w2
  w3 = w3
  Key <- TwoKeys
  Worker <- TwoWorkers
  DemoProfile = FALSE
  MaxCrashes = 1
  MaxFatals = 1
PROPERTIES
  EveryEventIsAnswered RetriesRunOut
