CONSTANTS
  NFuncs = 1
  Sig <- Nil1
  Tags = {"a", "b"}
  TagTys <- NoPayload
  Instrs <- CrossInstrs
  MaxLen <- Len8
  MaxNest = 3
  JitChoices <- AnyMix
  Shapes = {"crosses_try"}
  MaxDepth = 3
  MaxFrames = 4
  MaxInvoke = 1
  Ctl0Garbage = {FALSE}
SPECIFICATION Spec
INVARIANT HandlersExact
