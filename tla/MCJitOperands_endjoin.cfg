SPECIFICATION Spec
CONSTANTS
  None = None
  Menus <- AssignMenu
  LocalType <- MCLocalType
  CacheSlots = 2
  MaxCrefs = 2
  MaxBranches = 2
  Uses = {"endjoin"}
INVARIANT Faithful
