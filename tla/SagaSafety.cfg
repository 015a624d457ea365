SPECIFICATION Safety
CONSTANTS
  u1 = u1  u2 = u2  c1 = c1  c2 = c2  o1 = o1  o2 = o2
  NoRow = NoRow
  ProductUuids = {u1, u2}
  Codes = {c1, c2}
  Prices <- MCPrices
  OrderUuids = {o1, o2}
  Sagas = {o1}
  Carts <- MCCarts
  CostLimit = 9
  MaxAmount = 1
  Drifting <- MCDrifting
  Faults = {"statement", "readBack", "commitAck", "transport", "crash"}
SYMMETRY MCSymmetry
INVARIANTS TypeOK Phases Assembly ReturnedOnlyTaken NoStranding NoGiveAway CompleteOrders CostMatchesLines
PROPERTY PromiseSafe
CHECK_DEADLOCK FALSE
