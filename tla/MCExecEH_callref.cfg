CONSTANTS
  NFuncs = 2
  Sig <- Nil2
  Tags = {"a"}
  TagTys <- NoPayload
  Instrs <- CallRefInstrs
  MaxLen <- Len62
  MaxNest = 2
  JitChoices <- AnyMix
  Shapes = {}
  MaxDepth = 3
  MaxFrames = 4
  MaxInvoke = 1
  Ctl0Garbage = {FALSE}
SPECIFICATION Spec
INVARIANT CtlExact
