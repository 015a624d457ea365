SPECIFICATION Spec
CONSTANTS
  u1 = u1  u2 = u2  c1 = c1  c2 = c2  o1 = o1  o2 = o2  o3 = o3
  NoRow = NoRow
  NoOne = NoOne
  ProductUuids = {u1, u2}
  Codes = {c1, c2}
  Prices <- MCPrices
  OrderUuids = {o1, o2}
  Carts <- FewCarts
  Faults = {"statement", "ackLost", "transport", "cancel"}
PROPERTIES PromiseSafe PromiseKept EveryCreationEnds
CHECK_DEADLOCK FALSE
