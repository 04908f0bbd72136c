CONSTANTS
  NFuncs = 1
  Sig <- WideSig
  Tags = {"a"}
  TagTys <- OneValue
  Instrs <- WideInstrs
  MaxLen <- Len6
  MaxNest = 2
  JitChoices <- AnyMix
  Shapes = {"wide_label"}
  MaxDepth = 3
  MaxFrames = 4
  MaxInvoke = 1
  Ctl0Garbage = {FALSE}
SPECIFICATION Spec
INVARIANT OperandsExact
