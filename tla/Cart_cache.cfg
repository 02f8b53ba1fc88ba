SPECIFICATION FairCacheSpec
CONSTANTS
  Users = {u1}
  Sessions = {s1}
  Variants = {paper}
  Physical = {paper}
  InitialStock <- TwoCopies
  Procs = {p1}
  ItemIds = {i1, i2}
  MaxCarts = 1
  MaxQty = 1
  MaxDebt = 2
  MaxGuestItems = 1
  Handlers <- CachedHandlers
  NoCart = NoCart
  NoItem = NoItem
  Readers = {r1}
  NoEntry = NoEntry
  NoRead = NoRead
INVARIANTS CacheTypeOK OldForAReason
PROPERTY StaleLeaves
CHECK_DEADLOCK FALSE
