SPECIFICATION Spec
CONSTANTS
  b1 = b1
  r1 = r1
  p1 = p1
  o1 = o1
  None = None
  NoKey = NoKey
  Loading = Loading
  IdempotencyKeys = {k1}
  Brands = {b1, b2}
  Routes = {r1}
  Patterns = {p1}
  Owners = {o1, o2, oBad}
  ValidOwners = {o1, o2}
  Configured = {r1}
  Marks = {"right", "wrong"}
  Labels = {"7d", "QTD"}
  Filters <- McFilters
  FirstOwner <- McFirstOwner
  FirstBrand = b1
  BrandRoutes <- McBrandRoutes
  PaneRoutes <- McPanes
  FilterRoutes <- McFilterRoutes
  PatternRoutes <- McPatternRoutes
  BrandPattern <- McBrandPattern
  Faults <- McFaults
  FirstPages = {"dashboard", "signals", "memory", "patterns"}
  WebSlots = {w1}
  OtherSlots = {c1}
  Slots = {w1, c1}
  MaxMoves = 1
INVARIANT TypeOK
INVARIANT CachedDataAnswersItsKey
INVARIANT ReadYourWrites
INVARIANT SettledRow
CHECK_DEADLOCK FALSE
