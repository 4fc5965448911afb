SPECIFICATION Spec
CONSTANTS
  o1 = o1
  o2 = o2
  m1 = m1
  Order <- MCOrder
  SideOf <- MCSideOf
  Market = {m1}
  MarketOf <- MCMarketOf
  NoOrder = NoOrder
  NoMarket = NoMarket
  Price = {4, 5, 6}
  Distance = {0, 1, 3}
  MaxBookings = 2
INVARIANTS
  FillsBooked
PROPERTIES
  StopNeverMovesBack
