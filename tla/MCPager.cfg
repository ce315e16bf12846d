CONSTANTS
  MaxPages = 4
  Zero = Zero
  Hole = Hole
  NotCached = NotCached
  a = a
  b = b
  Data = {Zero, a, b}
  MaxIOErrors = 2
SPECIFICATION Spec
INVARIANTS
  TypeOK
  OwnedPagesAddressable
  FreePagesClean
  CacheCoherent
PROPERTIES
  HeaderNeverShrinks
  ImplementsPageStore
