CONSTANTS
  NFuncs = 2
  Sig <- Ops2
  Tags = {"a"}
  TagTys <- OneValue
  Instrs <- OperandsInstrs
  MaxLen <- Len84
  MaxNest = 2
  JitChoices <- OneEngine
  Shapes = {}
  MaxDepth = 3
  MaxFrames = 4
  MaxInvoke = 1
  Ctl0Garbage = {FALSE}
SPECIFICATION Spec
INVARIANTS TypeOK OperandsExact NoCrash
