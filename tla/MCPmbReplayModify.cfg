\* Rewinding a session with modified orders.
CONSTANTS
  LastBar = 2
  TradingDate <- MCTradingDate
  Segment <- MCSegment
  Instruments = {stk, opt}
  Kind <- MCKind
  Expiry <- MCExpiry
  SpreadIds = {}
  Inputs <- MCInputs
  EnforceHours = TRUE
  MinQty <- MCMinQty
  MaxQty = 2
  NoSpread = NoSpread
  Clients = {c1}
  NoClient = NoClient
  Liquidity <- MCLiquidity
  LoadedFirst = {stk, opt}
  Streams = {1}
  MaxOrders = 2
  MaxLog = 3
  MaxDetours = 1
  stk = stk
  opt = opt
  c1 = c1
CHECK_DEADLOCK FALSE
SPECIFICATION Spec
PROPERTY RewindIsDeterministic
