CONSTANTS
  cash = cash
  fund = fund
  gold = gold
  shares = shares
  k1 = k1
  k2 = k2
  None = None
  Items = {cash, fund}
  Rank <- Order
  Holdings = {fund}
  Lines = {shares}
  Names <- Shown
  Rules <- Defaults
  Keys = {k1, k2}
  Inputs <- Said
  Earlier <- Learnt
  Requests = {r1, r2}
  Regimes <- AllRegimes
  MaxScore = 20
SYMMETRY Alike
SPECIFICATION Spec
INVARIANTS
  RunsAreRepeatable
PROPERTIES
  LocksStand
  MappingsAreKept
CHECK_DEADLOCK FALSE
