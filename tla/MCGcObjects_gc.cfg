SPECIFICATION Spec
CONSTANTS
  CanonDepth = 12
  Shapes <- RunShapes
  MaxTypes = 4
  MaxGroup = 2
  EdgesChecked = TRUE
  Runnable <- RunMenu
  LabelTypes <- Labels
  LabelArity = {1}
  Targets <- Tests
  NullTypes <- Nulls
  Exporters <- Sections
  HostTags = {1}
  Nums = {0, 1}
  Width = 4
  DataLen = 4
  ElemLen = 1
  N32 = 16
  MaxObjs = 2
  MaxStack = 2
  Uses = {}
INVARIANTS TypesExact TypeSound MatchExact AccessSafe
PROPERTY ImmutableKept
CHECK_DEADLOCK FALSE
