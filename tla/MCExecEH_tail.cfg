CONSTANTS
  NFuncs = 2
  Sig <- Nil2
  Tags = {"a"}
  TagTys <- NoPayload
  Instrs <- TailInstrs
  MaxLen <- Len43
  MaxNest = 1
  JitChoices <- AnyMix
  Shapes = {}
  MaxDepth = 3
  MaxFrames = 4
  MaxInvoke = 1
  Ctl0Garbage = {FALSE}
SPECIFICATION Spec
PROPERTY ImplementsControl
