CONSTANTS
  NFuncs = 2
  Sig <- PopcntSig
  Tags = {"a"}
  TagTys <- NoPayload
  Instrs <- PopcntInstrs
  MaxLen <- Len33
  MaxNest = 1
  JitChoices <- AnyMix
  Shapes = {"popcnt"}
  MaxDepth = 3
  MaxFrames = 4
  MaxInvoke = 1
  Ctl0Garbage = {FALSE}
SPECIFICATION Spec
INVARIANT PendingExact
