SPECIFICATION Safety
CONSTANTS
  u1 = u1  u2 = u2  c1 = c1  o1 = o1  o2 = o2  r1 = r1  r2 = r2  r3 = r3
  NoRow = NoRow
  None = None
  ProductUuids = {u1, u2}
  Codes = {c1}
  Prices <- MCPrices
  OrderUuids = {o1}
  Requests = {r1}
  Faults = {}
INVARIANT OrdersKeepOwner
CHECK_DEADLOCK FALSE
