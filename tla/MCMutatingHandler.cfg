SPECIFICATION Spec
CONSTANTS
  Requests = {r1, r2, r3}
  Responses = {r1, r2, r3}
  Keys = {k1, k2}
  Digests = {d1, d2}
  NoDigest = NoDigest
  NoResponse = NoResponse
  Retention = 1
  MaxTime = 3
  BackendFaults = TRUE
SYMMETRY Symmetry
CHECK_DEADLOCK FALSE
INVARIANTS
  OneRunnerPerKey
  RunnerHoldsItsClaim
  OneEffectPerRetention
  ReplayIsOfTheSameRequest
PROPERTIES
  ClaimSurvivesItsEffect
