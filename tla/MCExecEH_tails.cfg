CONSTANTS
  NFuncs = 4
  Sig <- Nil4
  Tags = {"a", "b"}
  TagTys <- NoPayload
  Instrs <- TailsInstrs
  MaxLen <- Len2222
  MaxNest = 2
  JitChoices <- AnyMix
  Shapes = {}
  MaxDepth = 6
  MaxFrames = 6
  MaxInvoke = 2
  Ctl0Garbage = {FALSE}
SPECIFICATION FairSpec
INVARIANTS HandlersExact NoHandlersAtIdle PendingExact
PROPERTIES ImplementsControl InvokeReturns
