SPECIFICATION DirectSpec
CONSTANTS
  i1 = i1
  i2 = i2
  k1 = k1
  d1 = d1
  d2 = d2
  m1 = m1
  NoDigest = NoDigest
  NoResponse = NoResponse
  NoKey = NoKey
  None = None
  Invocations = {i1}
  Responses = {i1}
  Contracts = {i1}
  Holds = {i1}
  SettleRefs = {i1}
  Keys = {k1}
  BillKeys = {k1, i1}
  Digests = {d1, d2}
  Bindings = {d1, d2}
  Mandates = {m1}
  Invoke <- OneInvoke
  Body <- MCBody
  Plans <- FixedPlan
  MaxAmount = 1
  Retention = 1
  MaxTime = 3
  BackendFaults = {}
  StoreFaults = {}
  BillingFaults = {i1}
  SignerFaults = {}
  ProviderUncertain = {}
  Panics = {}
CHECK_DEADLOCK FALSE
INVARIANT
  FailedIsDefinitive
