CONSTANTS
  NFuncs = 1
  Sig <- Nil1
  Tags = {"a"}
  TagTys <- NoPayload
  Instrs <- StaleInstrs
  MaxLen <- Len8
  MaxNest = 2
  JitChoices <- AnyMix
  Shapes = {"stale_try"}
  MaxDepth = 3
  MaxFrames = 4
  MaxInvoke = 1
  Ctl0Garbage = {FALSE}
SPECIFICATION Spec
INVARIANT HandlersExact
