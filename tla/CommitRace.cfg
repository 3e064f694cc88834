SPECIFICATION FairCommitSpec
CONSTANTS
  r1 = r1
  r2 = r2
  r3 = r3
  r4 = r4
  k1 = k1
  k2 = k2
  k3 = k3
  k4 = k4
  d1 = d1
  d2 = d2
  q1 = q1
  q2 = q2
  m1 = m1
  NoDigest = NoDigest
  NoResponse = NoResponse
  None = None
  Requests = {r1, r3, r4}
  Responses = {r1, r3, r4}
  Commits = {r1}
  Cancels = {r3, r4}
  Holds = {r1}
  SettleRefs = {r1}
  Keys = {k1, k3, k4}
  BillKeys = {k1, k3, k4}
  Contracts = {q1}
  Bindings = {q1}
  Commit <- OneCommit
  Cancel <- TwoCancels
  Quote <- VariableQuote
  Digests = {d1}
  Mandates = {}
  MaxAmount = 2
  Retention = 1
  MaxTime = 0
  CancellableIn = {"accepted", "running", "waiting_input", "disputed"}
  EffectNamesTask = TRUE
  StoreFaults = FALSE
  BillingFaults = TRUE
  SignerFaults = FALSE
  BackendFaults = FALSE
  ProviderUncertain = FALSE
  Panics = FALSE
CHECK_DEADLOCK FALSE
INVARIANTS
  ChargedOnlyForAnEffect
PROPERTIES
  EffectIsAccountedFor
  ReservationIsResolved
