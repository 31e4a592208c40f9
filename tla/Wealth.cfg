SPECIFICATION WSpec
INVARIANTS
  HoldingsStand
  SnapshotCurrent
PROPERTIES
  CopiesYield
CHECK_DEADLOCK FALSE
CONSTANTS
  Nothing = Nothing
  Now = 3
  Assets = {"gold", "plot", "s1", "s2", "b1", "f1"}
  Bonds = {"b1"}
  Funds = {"f1"}
  Stable = {"gold", "plot"}
  Synced = "plot"
  Listed = {"s1", "s2"}
  Statements <- MCStatements
  Worths = {1, 2}
  Handlers = {1, 2}
  WealthRegimes <- MCRegimes
