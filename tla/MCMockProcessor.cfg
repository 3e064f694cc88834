SPECIFICATION BillSpec
CONSTANTS
  Contracts = {c1, c2}
  Bindings = {b1, b2}
  BillKeys = {k1, k2}
  Holds = {h1, h2}
  SettleRefs = {s1, s2}
  Mandates = {m1}
  MaxAmount = 1
  None = None
SYMMETRY Symmetry
INVARIANTS
  SettledXorReleased
  OneSettlementPerHold
  MandateConsumedOnce
  RefundsWithinSettlement
