\* Two orders on two pages, one transfer that may be offered for both, a cap
\* for one of them, one fault anywhere.
SPECIFICATION ShopSpec
CONSTANTS
  Orders = {o1, o2}
  Txs = {t1}
  PageSize = 1
  Cap = 1
  MaxFaults = 1
  MaxMarks = 1
  MaxRequests = 3
  NoTx = NoTx
  NoJob = NoJob
  NoOrder = NoOrder
SYMMETRY Symmetry
INVARIANTS
  PaidByItsOwn
  
  OrdersKept
CHECK_DEADLOCK FALSE
