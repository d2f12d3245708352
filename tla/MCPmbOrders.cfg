\* Orders of one session: single orders and a calendar spread.
CONSTANTS
  LastBar = 4
  TradingDate <- MCTradingDate
  Segment <- MCSegment
  Instruments = {stk, fut, near, far}
  Kind <- MCKind
  Expiry <- MCExpiry
  SpreadIds = {sp}
  Inputs <- AllOrders
  EnforceHours = TRUE
  OrderIds = {o1, o2}
  MinQty <- MCMinQty
  MaxQty = 2
  NoSpread = NoSpread
  stk = stk
  fut = fut
  near = near
  far = far
  sp = sp
  o1 = o1
  o2 = o2
CHECK_DEADLOCK FALSE
SPECIFICATION Spec
SYMMETRY Symmetry
INVARIANTS
  TypeOK
  DayOrdersHaveBarLeft
  DayFillsOnOneDate
  ExpiredContractsNotWorked
  GtdOrdersLapse
  FillAccounting
PROPERTY KeepsPromise
