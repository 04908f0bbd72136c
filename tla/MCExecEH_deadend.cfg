CONSTANTS
  NFuncs = 1
  Sig <- Nil1
  Tags = {"a"}
  TagTys <- NoPayload
  Instrs <- DeadEndInstrs
  MaxLen <- Len6
  MaxNest = 2
  JitChoices <- AnyMix
  Shapes = {"dead_try_end"}
  MaxDepth = 3
  MaxFrames = 4
  MaxInvoke = 1
  Ctl0Garbage = {FALSE}
SPECIFICATION Spec
INVARIANT HandlersExact
