SPECIFICATION Spec
CONSTANTS
  None = None
  Menus <- MCMenus
  LocalType <- MCLocalType
  CacheSlots = 2
  MaxCrefs = 2
  MaxBranches = 2
  Uses = {}
INVARIANTS TypeOK Faithful DepthExact CacheCoherent
