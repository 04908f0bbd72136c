CONSTANTS
  NFuncs = 3
  Sig <- Nil3
  Tags = {"a", "b"}
  TagTys <- NoPayload
  Instrs <- ChainInstrs
  MaxLen <- Len442
  MaxNest = 2
  JitChoices <- AnyMix
  Shapes = {}
  MaxDepth = 3
  MaxFrames = 4
  MaxInvoke = 2
  Ctl0Garbage = {FALSE}
SPECIFICATION FairSpec
INVARIANTS HandlersExact NoHandlersAtIdle PendingExact
PROPERTIES ImplementsControl InvokeReturns
