SPECIFICATION Safety
CONSTANTS
  u1 = u1  u2 = u2  u3 = u3  c1 = c1  c2 = c2  o1 = o1  r1 = r1  r2 = r2
  NoRow = NoRow
  None = None
  ProductUuids = {u1, u2, u3}
  Codes = {c1, c2}
  Prices <- MCPrices
  OrderUuids = {o1}
  Names = {1, 2}
  Limits = {1, 2}
  MaxLines = 1
  Requests = {r1, r2}
  Faults = {"statement", "ackLost", "crash"}
SYMMETRY MCSymmetry
INVARIANTS TypeOK LinesKeepProduct DeletedForGood OnlyNamedVanish PagesComplete
CHECK_DEADLOCK FALSE
