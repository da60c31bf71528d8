SPECIFICATION HandoffSpec
CONSTANTS
  o1 = o1
  oBad = oBad
  r1 = r1
  s1 = s1
  s2 = s2
  s3 = s3
  None = None
  NoKey = NoKey
  Loading = Loading
  IdempotencyKeys = {k1}
  Brands = {b1}
  Routes = {r1, r2}
  Patterns = {p1}
  Owners = {o1, oBad}
  Configured = {r1}
  ValidOwners = {o1}
  Labels = {"QTD"}
  Filters = {}
  FirstOwner <- McFirstOwner
  Marks = {"wrong"}
  Slots = {s1, s2, s3}
SYMMETRY AnySlot
INVARIANT AcceptedCommandIsRecorded
INVARIANT HandoffChain
PROPERTY ImplementsOwnership
CHECK_DEADLOCK FALSE
