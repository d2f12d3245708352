\* An order that flips a position in a margin call.
CONSTANTS
  LastBar = 4
  SessionDate <- MCSessionDate
  Daily = FALSE
  Symbols = {cl}
  ContractAt <- MCContractAt
  Prices = {25200, 50400}
  MaxQty = 2
  MaxOrders = 1
  Mult = 1
  Maintenance = 20000
  Initial = 25000
  Fee = 1
  CallLimit = 1
  InitialCash = 50100
  NoContract = noContract
  cl = cl
  noContract = noContract
CHECK_DEADLOCK FALSE
SPECIFICATION Spec
PROPERTY NewPositionsRefused
