--------------------------- MODULE MCJitOperands ---------------------------
EXTENDS JitOperandsProps

I(op, k) == [op |-> op, n |-> k]
One(S) == {<<i>> : i \in S}
MCLocalType == (0 :> "i") @@ (1 :> "i") @@ (2 :> "i") @@ (3 :> "f")

\* locals 0 and 1 are cached from the start
SetUp == <<I("const", 1), I("set", 0), I("const", 2), I("set", 1)>>
ReadAll == <<I("get", 0), I("get", 1)>>

\* the window, references and in-place operations
Window ==
  [pre |-> SetUp, post |-> ReadAll, len |-> 5, cache |-> TRUE,
   items |-> One({I("get", 0), I("get", 1), I("const", 3), I("sub", 0), I("cmp", 0),
                  I("load", 0), I("set", 0), I("tee", 1)})]

\* more locals than cache registers
Evict ==
  [pre |-> SetUp, post |-> ReadAll, len |-> 6, cache |-> TRUE,
   items |-> One({I("get", 0), I("get", 2), I("sub", 0), I("set", 1), I("set", 2), I("tee", 2)})]

\* float results and the references below them
Floats ==
  [pre |-> SetUp, post |-> ReadAll, len |-> 5, cache |-> TRUE,
   items |-> One({I("get", 0), I("get", 3), I("set", 3), I("tee", 3), I("fsub", 0), I("fstore", 0)})
             \cup {<<I("get", 1), I("fload", 0)>>,
                   <<I("get", 1), I("get", 0), I("sub", 0), I("fload", 0)>>}]

\* instructions that flush, and the helpers
Flushing ==
  [pre |-> SetUp, post |-> ReadAll, len |-> 6, cache |-> TRUE,
   items |-> One({I("get", 0), I("sub", 0), I("set", 1), I("store", 0), I("sel", 0),
                  I("drop", 0), I("call", 0), I("grow", 0)})]

\* joins: blocks with and without a result, branches, warm loops
Count == <<I("get", 0), I("const", 1), I("sub", 0), I("set", 0)>>
Joined ==
  [pre |-> SetUp, post |-> ReadAll, len |-> 6, cache |-> TRUE,
   items |-> One({I("block", 0), I("block", 1), I("loop", 0), I("else", 0), I("end", 0),
                  I("get", 1), I("set", 1)})
             \cup {<<I("get", 0), I("if", 0)>>, <<I("get", 0), I("if", 1)>>, Count,
                   <<I("get", 0), I("get", 1), I("cmp", 0), I("brif", 0)>>,
                   <<I("get", 0), I("brif", 1)>>}]

\* the body of a warm loop
Warm ==
  [pre |-> SetUp \o <<I("loop", 0)>>, cache |-> TRUE, len |-> 5,
   post |-> <<I("get", 0), I("brif", 0), I("end", 0)>> \o ReadAll,
   items |-> One({I("block", 0), I("end", 0), I("else", 0), I("set", 1), I("call", 0)})
             \cup {<<I("get", 0), I("if", 0)>>, Count, <<I("get", 1), I("tee", 2)>>,
                   <<I("get", 1), I("get", 2)>>, <<I("sub", 0), I("set", 1)>>,
                   <<I("get", 1), I("brif", 0)>>, <<I("get", 1), I("brif", 1)>>}]

\* operations that never find their operands in the window
Unfused ==
  [pre |-> <<I("block", 0)>> \o SetUp, post |-> <<I("end", 0)>> \o ReadAll, len |-> 6, cache |-> TRUE,
   items |-> One({I("get", 0), I("rot", 0), I("ext", 0), I("eqz", 0), I("conv", 0), I("fneg", 0),
                  I("trunc", 0), I("fcmp", 0), I("brif", 0), I("set", 1)})
             \cup {<<I("get", 1), I("conv", 0)>>}]

\* without the cache a third value waits in x19
NoCache ==
  [pre |-> <<>>, post |-> ReadAll, len |-> 6, cache |-> FALSE,
   items |-> One({I("get", 0), I("const", 3), I("sub", 0), I("cmp", 0), I("load", 0), I("set", 1)})]

MCMenus == {Window, Evict, Floats, Flushing, Joined, Warm, Unfused, NoCache}

\* a conditional assignment, a call of memory.fill
Assign ==
  [pre |-> SetUp \o <<I("get", 0), I("if", 0)>>, post |-> <<I("end", 0)>> \o ReadAll,
   len |-> 4, cache |-> TRUE,
   items |-> One({I("const", 3), I("get", 0), I("sub", 0), I("set", 1)})]
Bulk ==
  [pre |-> <<I("get", 0), I("get", 1), I("get", 2), I("fill", 0)>>, post |-> ReadAll,
   len |-> 0, cache |-> TRUE, items |-> {}]
AssignMenu == {Assign}
BulkMenu == {Bulk}
FloatMenu == {Floats}
WarmMenu == {Warm}
=============================================================================
