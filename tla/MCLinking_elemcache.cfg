CONSTANTS
  N32 = 8
  M64 = 64
  Mods <- Chain
  Names = {"a", "b"}
  Page = 2
  PageLimit = 2
  Reserve = 3
  Idx = {0, 2}
  Lens = {2}
  Deltas = {1, 3}
  GrowShared = FALSE
  Frees = {"d"}
  Once = {}
  MaxInst = 3
  MaxOps = 2
SPECIFICATION Spec
INVARIANT TablesExact
CHECK_DEADLOCK FALSE
