SPECIFICATION CommitSpec
CONSTANTS
  r1 = r1
  r2 = r2
  r3 = r3
  r4 = r4
  k1 = k1
  k2 = k2
  k3 = k3
  k4 = k4
  d1 = d1
  d2 = d2
  q1 = q1
  q2 = q2
  m1 = m1
  NoDigest = NoDigest
  NoResponse = NoResponse
  None = None
  Requests = {r1}
  Responses = {r1}
  Commits = {r1}
  Cancels = {}
  Holds = {r1}
  SettleRefs = {r1}
  Keys = {k1}
  BillKeys = {k1}
  Contracts = {q1}
  Bindings = {q1}
  Commit <- OneCommit
  Cancel <- NoCancel
  Quote <- FixedQuote
  Digests = {d1}
  Mandates = {}
  MaxAmount = 2
  Retention = 1
  MaxTime = 0
  CancellableIn = {"accepted", "waiting_input", "disputed"}
  EffectNamesTask = FALSE
  StoreFaults = FALSE
  BillingFaults = TRUE
  SignerFaults = FALSE
  BackendFaults = FALSE
  ProviderUncertain = FALSE
  Panics = FALSE
CHECK_DEADLOCK FALSE
INVARIANTS
  UnknownKeepsItsClaim
