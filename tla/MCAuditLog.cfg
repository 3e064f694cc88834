SPECIFICATION FairAuditSpec
CONSTANTS
  t1 = t1
  t2 = t2
  w1 = w1
  w2 = w2
  rcp1 = rcp1
  rcp2 = rcp2
  get1 = get1
  sse1 = sse1
  NoReceipt = NoReceipt
  Chains = {t1, t2}
  Writers = {w1, w2}
  Issuers = {rcp1, rcp2}
  Readers = {get1}
  Streams = {sse1}
  ChainOf <- MCChainOf
  SignerFaults = {w1, rcp1}
  MaxBreaks = 2
CHECK_DEADLOCK FALSE
INVARIANTS
  ChainVerifies
  ListingIsCovered
  AnchorIsExact
PROPERTIES
  ImplementsLedger
  EverythingIsStreamed
