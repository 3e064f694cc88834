SPECIFICATION QuotesSpec
CONSTANTS
  f1 = f1
  u1 = u1
  u2 = u2
  get1 = get1
  neg1 = neg1
  pre1 = pre1
  com1 = com1
  ann = ann
  bob = bob
  right = right
  wrong = wrong
  USD = USD
  NoContent = NoContent
  Files = {f1}
  Puts = {u1, u2}
  Downloads = {get1}
  Identities = {ann, bob}
  Contents = {right, wrong}
  Declared <- MCDeclared
  PutRequests <- MCPutRequests
  Asked <- MCAsked
  UploadTTL = 1
  FileTTL = 3
  MaxTime = 4
  Negotiations = {neg1}
  Prepares = {pre1}
  Commits = {com1}
  NegotiationOf <- MCNegotiationOf
  PrepareRequests <- MCPrepareRequests
  Contracts <- MCContracts
  CommitOf <- MCCommitOf
  OfferLife = 2
  StoreFaults = {neg1, pre1}
  Currencies = {USD}
  Precision = 2
SYMMETRY PutsAreAlike
CHECK_DEADLOCK FALSE
INVARIANTS
  QuoteWithinBudget
  PriceIsTheSumOfItsParts
  QuotedFilesAreSound
  CommitFindsItsFiles
PROPERTIES
  ReadyIsFinal
