SPECIFICATION CommitSpec
CONSTANTS
  r1 = r1
  r2 = r2
  r3 = r3
  r4 = r4
  k1 = k1
  k2 = k2
  k3 = k3
  k4 = k4
  d1 = d1
  d2 = d2
  q1 = q1
  q2 = q2
  m1 = m1
  NoDigest = NoDigest
  NoResponse = NoResponse
  None = None
  Requests = {r1, r2, r3}
  Responses = {r1, r2, r3}
  Commits = {r1, r2, r3}
  Cancels = {}
  Holds = {r1, r2, r3}
  SettleRefs = {r1, r2, r3}
  Keys = {k1}
  BillKeys = {k1}
  Contracts = {q1, q2}
  Bindings = {q1, q2}
  Commit <- RetryAndOther
  Cancel <- NoCancel
  Quote <- FixedAndFree
  Digests = {d1, d2}
  Mandates = {}
  MaxAmount = 2
  Retention = 1
  MaxTime = 3
  CancellableIn = {"accepted", "waiting_input", "disputed"}
  EffectNamesTask = FALSE
  StoreFaults = TRUE
  BillingFaults = TRUE
  SignerFaults = FALSE
  BackendFaults = TRUE
  ProviderUncertain = TRUE
  Panics = TRUE
CHECK_DEADLOCK FALSE
INVARIANTS
  OneEffectPerKey
