\* Prices that arrive late.
CONSTANTS
  Clients = {c1, c2}
  Symbols = {stk}
  Dates = {0, 1, 2}
  Price <- MCPrice
  AgentPrices = {180}
  Quantities = {1, 2}
  Fee = 1
  InitialCash = 1000
  MaxDay = 2
  MaxTrades = 3
  stk = stk
  c1 = c1
  c2 = c2
CHECK_DEADLOCK FALSE
SPECIFICATION Spec
SYMMETRY Symmetry
INVARIANT PricedOnItsDay
