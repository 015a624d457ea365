SPECIFICATION LifecycleSpec
CONSTANTS
  u1 = u1  c1 = c1  o1 = o1  o2 = o2
  NoRow = NoRow
  NoOne = NoOne
  ProductUuids = {u1}
  Codes = {c1}
  Prices <- MCPrices
  OrderUuids = {o1, o2}
  Carts <- MCCarts
  Faults = {"ackLost", "transport", "cancel"}
  ServerFaults = {"grpcPort", "grpcAccept", "malformed", "http"}
INVARIANTS LifecycleTypeOK NoStreamCutOff DrainedStreamsSettled
PROPERTIES ShutdownEnds
CHECK_DEADLOCK FALSE
