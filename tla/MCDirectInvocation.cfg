SPECIFICATION FairDirectSpec
CONSTANTS
  i1 = i1
  i2 = i2
  k1 = k1
  d1 = d1
  d2 = d2
  m1 = m1
  NoDigest = NoDigest
  NoResponse = NoResponse
  NoKey = NoKey
  None = None
  Invocations = {i1, i2}
  Responses = {i1, i2}
  Contracts = {i1, i2}
  Holds = {i1, i2}
  SettleRefs = {i1, i2}
  Keys = {k1}
  BillKeys = {k1, i1, i2}
  Digests = {d1, d2}
  Bindings = {d1, d2}
  Mandates = {m1}
  Invoke <- MCInvoke
  Body <- MCBody
  Plans <- MCPlans
  MaxAmount = 1
  Retention = 1
  MaxTime = 2
  BackendFaults = {i1}
  StoreFaults = {i2}
  BillingFaults = {i1}
  SignerFaults = {i2}
  ProviderUncertain = {i2}
  Panics = {i1}
CHECK_DEADLOCK FALSE
INVARIANTS
  SucceededIsCharged
  ChargedOnlyForAnEffect
  OneHoldPerMandate
  AuditTellsTheTruth
PROPERTIES
  ImplementsHandler
  ReservationIsReported
