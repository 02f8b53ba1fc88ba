SPECIFICATION Spec
CONSTANTS
  u1 = u1 u2 = u2 s1 = s1 paper = paper pdf = pdf mp3 = mp3 p1 = p1 p2 = p2 p3 = p3 i1 = i1 i2 = i2 i3 = i3
  Users = {u1}
  Sessions = {s1}
  Variants = {paper}
  Physical = {paper}
  InitialStock <- TwoCopies
  Procs = {p1, p2}
  ItemIds = {i1, i2}
  MaxCarts = 2
  MaxQty = 2
  MaxDebt = 1
  MaxGuestItems = 1
  Handlers <- OneRowHandlers
  NoCart = NoCart
  NoItem = NoItem
SYMMETRY Symmetry
CHECK_DEADLOCK FALSE
INVARIANTS Capacity OneActiveCart
PROPERTIES CoveredKept BalanceKept
