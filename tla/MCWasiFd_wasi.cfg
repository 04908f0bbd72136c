SPECIFICATION Spec
CONSTANT Setup <- DirFb
CONSTANT Cap0 = 5
CONSTANT FbCap = 1
CONSTANT Paths = {"f","g","up"}
CONSTANT Cut <- Same
CONSTANT Escapes = {"up"}
CONSTANT Outside = {"up"}
CONSTANT Flags <- Plain
CONSTANT Bufs <- Iovs
CONSTANT MaxIovs = 3
CONSTANT Offs <- Near
CONSTANT Whences = {"set","cur","end"}
CONSTANT Word = 4
CONSTANT ArgLens <- Args
CONSTANT MemSize = 14
CONSTANT Subs <- Polls
CONSTANT Range64 = 100
CONSTANT MaxClock = 7
CONSTANT MaxNs = 2
CONSTANT MaxSubs = 2
CONSTANT Ptrs = {0, 8, 10}
CONSTANT MaxFd = 5
CONSTANT GuestFds = {1, 3, 4, 5}
CONSTANT Uses = {}
CONSTANT MaxFiles = 2
CONSTANT MaxSize = 2
CONSTANT Bad = Bad
CONSTANT None = None
INVARIANTS TypeOK DescriptorsExact ContentExact ResultExact Sandbox SleptEnough
PROPERTIES CallReturns
