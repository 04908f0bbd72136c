CONSTANTS
  NFuncs = 1
  Sig <- Nil1
  Tags = {"a"}
  TagTys <- OneValue
  Instrs <- AllRefInstrs
  MaxLen <- Len8
  MaxNest = 2
  JitChoices <- AnyMix
  Shapes = {"all_payload"}
  MaxDepth = 3
  MaxFrames = 4
  MaxInvoke = 1
  Ctl0Garbage = {FALSE}
SPECIFICATION Spec
INVARIANT OperandsExact
