CONSTANTS
  NFuncs = 1
  Sig <- Nil1
  Tags = {"a"}
  TagTys <- NoPayload
  Instrs <- HostInstrs
  MaxLen <- Len4
  MaxNest = 1
  JitChoices <- AnyMix
  Shapes = {}
  MaxDepth = 3
  MaxFrames = 4
  MaxInvoke = 1
  Ctl0Garbage = {FALSE}
SPECIFICATION Spec
PROPERTY ImplementsControl
