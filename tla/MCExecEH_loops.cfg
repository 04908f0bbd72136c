CONSTANTS
  NFuncs = 1
  Sig <- Nil1
  Tags = {"a"}
  TagTys <- NoPayload
  Instrs <- LoopsInstrs
  MaxLen <- Len8
  MaxNest = 3
  JitChoices <- AnyMix
  Shapes = {}
  MaxDepth = 3
  MaxFrames = 4
  MaxInvoke = 1
  Ctl0Garbage = {FALSE}
SPECIFICATION Spec
INVARIANTS HandlersExact CtlExact
PROPERTY ImplementsControl
