CONSTANTS
  NFuncs = 2
  Sig <- Nil2
  Tags = {"a"}
  TagTys <- OneValue
  Instrs <- AllInstrs
  MaxLen <- Len43
  MaxNest = 1
  JitChoices <- AnyMix
  Shapes = {"all_payload"}
  MaxDepth = 3
  MaxFrames = 4
  MaxInvoke = 1
  Ctl0Garbage = {FALSE}
SPECIFICATION Spec
INVARIANT NoCrash
