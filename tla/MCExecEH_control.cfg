CONSTANTS
  NFuncs = 2
  Sig <- Nil2
  Tags = {"a", "b"}
  TagTys <- NoPayload
  Instrs <- ControlInstrs
  MaxLen <- Len73
  MaxNest = 2
  JitChoices <- AnyMix
  Shapes = {}
  MaxDepth = 3
  MaxFrames = 3
  MaxInvoke = 1
  Ctl0Garbage = {FALSE}
SPECIFICATION Spec
INVARIANTS HandlersExact CtlExact
PROPERTY ImplementsControl
