\* A calendar spread in a daily session.
CONSTANTS
  LastBar = 2
  TradingDate <- DailyTradingDate
  Segment <- DailySegment
  Instruments = {stk, fut, near, far}
  Kind <- MCKind
  Expiry <- MCExpiry
  SpreadIds = {sp}
  Inputs <- SpreadOrders
  EnforceHours = TRUE
  OrderIds = {o1, o2}
  MinQty <- MCMinQty
  MaxQty = 2
  NoSpread = NoSpread
  stk = stk
  fut = fut
  near = near
  far = far
  sp = sp
  o1 = o1
  o2 = o2
CHECK_DEADLOCK FALSE
SPECIFICATION Spec
SYMMETRY Symmetry
PROPERTY SpreadLegsFillTogether
