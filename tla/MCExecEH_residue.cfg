CONSTANTS
  NFuncs = 3
  Sig <- ResidueSig
  Tags = {"a"}
  TagTys <- NoPayload
  Instrs <- ResidueInstrs
  MaxLen <- Len242
  MaxNest = 1
  JitChoices <- AnyMix
  Shapes = {}
  MaxDepth = 3
  MaxFrames = 4
  MaxInvoke = 1
  Ctl0Garbage = {FALSE}
SPECIFICATION Spec
INVARIANT OperandsExact
