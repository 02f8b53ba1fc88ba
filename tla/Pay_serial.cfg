SPECIFICATION PaySpec
CONSTANTS
  u1 = u1 u2 = u2 paper = paper pdf = pdf p1 = p1 p2 = p2 i1 = i1 i2 = i2 i3 = i3 w1 = w1 w2 = w2 k1 = k1
  Users = {u1, u2}
  Sessions = {}
  Variants = {paper}
  Physical = {paper}
  InitialStock <- TwoCopies
  Procs = {p1}
  ItemIds = {i1, i2}
  MaxCarts = 1
  MaxQty = 1
  MaxDebt = 1
  MaxGuestItems = 1
  Handlers <- WebhookHandlers
  NoCart = NoCart
  NoItem = NoItem
  Workers = {w1}
  MaxOrders = 2
  Providers = {"PHONEPE", "RAZORPAY"}
  Keys = {k1}
  NoKey = NoKey
  NoOrder = NoOrder
  NoTransaction = NoTransaction
SYMMETRY Symmetry
CHECK_DEADLOCK FALSE
INVARIANTS StockIsSold KeyUsedOnce
