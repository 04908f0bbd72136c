------------------------------- MODULE ExecEH -------------------------------
(***************************************************************************)
(* Execution of validated functions by easm: the interpreter (interp.c),   *)
(* the machine code the AArch64 JIT emits (jit_a64.c), the run-time bridge *)
(* between them (jit_a64_rt.c) and the invoke boundary (runtime.c).  Any   *)
(* subset of the functions may be compiled, so calls, exceptions and traps *)
(* cross interpreter and JIT frames in every order.                        *)
(*                                                                         *)
(* One step is one wasm instruction, or the unwinding of one frame.  An    *)
(* interpreter frame keeps its operands on the shared value stack, a JIT   *)
(* frame on the native stack.  An interpreter frame finds handlers in its  *)
(* own control stack; JIT frames share the handler stack eh.               *)
(***************************************************************************)
EXTENDS WasmProgram

CONSTANTS
  MaxDepth,    \* ex->max_depth: interpreter recursion limit
  MaxFrames,   \* native stack limit, in frames
  MaxInvoke,   \* bound: invokes in a behaviour
  Ctl0Garbage  \* values the uninitialised ctl[0].is_try may hold

VARIABLES
  mode,        \* "idle", "run", "exn" (top frame's callee threw), "crash"
  frames,      \* active frames, innermost last
  stack,       \* ex->stack[0 .. sp): interpreter operands and locals
  eh,          \* ex->eh[0 .. eh_top): handler entries of JIT frames
  eh_base,     \* eh_top at the invoke boundary
  pending,     \* ex->pending_exn
  x0,          \* register x0 holds 1
  last,        \* how the last invoke ended
  ninv         \* number of invokes started

execvars == <<mode, frames, stack, eh, eh_base, pending, x0, last, ninv>>
vars == <<code, end_idx, snap, jit, built, mode, frames, stack, eh, eh_base,
          pending, x0, last, ninv>>

ASSUME BoundsAssumption ==
  /\ MaxDepth \in Nat \ {0} /\ MaxFrames \in Nat \ {0} /\ MaxInvoke \in Nat
  /\ Ctl0Garbage \subseteq BOOLEAN /\ Ctl0Garbage # {}

NoExn == NoTag
Vals == Tags \cup {"v"}              \* an exnref is the tag of its exception
TyOf(x) == IF x \in Tags THEN "exn" ELSE "v"
Payload(t) == [q \in 1 .. Len(TagTys[t]) |-> "v"]
Fill(n) == [q \in 1 .. n |-> "v"]
NArgs(f) == Len(Sig[f].ps)
NRes(f) == Len(Sig[f].rs)

\* S[0..n) when the stack pointer is set to n; slots above the old top hold
\* leftovers
Resize(s, n) == IF n <= Len(s) THEN SubSeq(s, 1, n) ELSE s \o Fill(n - Len(s))

Top    == frames[Len(frames)]
At     == code[Top.fn][Top.pc]       \* instruction the top frame executes
Here   == snap[Top.fn][Top.pc]
InCode == Top.pc <= Len(code[Top.fn])
Running(k) == mode = "run" /\ Top.k = k
Executes(k, ops) == Running(k) /\ InCode /\ At.op \in ops

Front == DropN(frames, 1)
SetTop(F) == [frames EXCEPT ![Len(frames)] = F]
Advance == [Top EXCEPT !.pc = @ + 1]

----------------------------------------------------------------------------
(* Frames. *)

\* mutant: ctl[0] is flagged is_try
FuncCtlTry(f, base, garbage) ==
  [blk |-> 0, h |-> base, ar |-> NRes(f), rar |-> NRes(f), is_try |-> TRUE]

\* ctl[0] of an interpreter frame; its is_try field is never written
FuncCtl(f, base, garbage) ==
  [blk |-> 0, h |-> base, ar |-> NRes(f), rar |-> NRes(f), is_try |-> garbage]

InterpFrame(f, base, dep, garbage) ==
  [k |-> "interp", fn |-> f, pc |-> 1, base |-> base, sp |-> 0,
   ctl |-> <<FuncCtl(f, base, garbage)>>, ops |-> <<>>, dep |-> dep,
   as |-> <<>>]

JitFrame(f, dep) ==
  [k |-> "jit", fn |-> f, pc |-> 1, base |-> 0, sp |-> 0, ctl |-> <<>>,
   ops |-> <<>>, dep |-> dep, as |-> <<>>]

----------------------------------------------------------------------------
(* Leaving an invocation. *)

\* mutant: the invoke boundary forgets to cut the handler stack back
TrapKeepsHandlers ==
  /\ mode' = "idle" /\ last' = "trap"
  /\ frames' = <<>> /\ stack' = <<>> /\ eh' = eh
  /\ UNCHANGED <<eh_base, pending, x0, ninv>>

\* ea_trap: longjmp to the invoke boundary, which empties the value stack and
\* cuts the handler stack back
Trap ==
  /\ mode' = "idle" /\ last' = "trap"
  /\ frames' = <<>> /\ stack' = <<>>
  /\ eh' = SubSeq(eh, 1, eh_base)
  /\ UNCHANGED <<eh_base, pending, x0, ninv>>

Crash == mode' = "crash" /\ UNCHANGED <<frames, stack, eh, eh_base, pending,
                                        x0, last, ninv>>

\* The top frame hands `pending' to its caller.  st is the value stack it
\* leaves, e the handler stack.  At the invoke boundary the value stack stays
\* as it is.
Propagate(st, e) ==
  /\ frames' = Front
  /\ stack' = st
  /\ IF Front = <<>>
     THEN mode' = "idle" /\ last' = "exn" /\ eh' = SubSeq(e, 1, eh_base)
     ELSE mode' = "exn" /\ last' = last /\ eh' = e
  /\ x0' = FALSE
  /\ UNCHANGED <<eh_base, ninv>>

\* the activation a frame stands for
ActOf(F) == IF F.as # <<>> THEN F.as ELSE <<F.fn, F.pc>>

\* A callee's results reach a caller that is not JIT code: they are on the
\* value stack st.  invoke pops them; an interpreter frame goes on behind the
\* call, or, if it is suspended at a return_call, is done itself.
DeliverToC(st, e) ==
  /\ eh' = IF Front = <<>> THEN SubSeq(e, 1, eh_base) ELSE e
  /\ IF Front = <<>>
     THEN /\ frames' = <<>> /\ stack' = DropN(st, NRes(Top.fn))
          /\ mode' = "idle" /\ last' = "ok"
     ELSE LET C == Front[Len(Front)]
              R == IF code[C.fn][C.pc].op = "return_call"
                   THEN [C EXCEPT !.pc = Len(code[C.fn]) + 1, !.as = ActOf(Top)]
                   ELSE [C EXCEPT !.pc = @ + 1]
          IN /\ frames' = [Front EXCEPT ![Len(Front)] = R]
             /\ stack' = st /\ mode' = "run" /\ last' = last
  /\ x0' = FALSE
  /\ UNCHANGED <<eh_base, pending, ninv>>

\* results reach a JIT call site, on the native stack
DeliverToJit(vs, st, e) ==
  LET C == Front[Len(Front)]
  IN /\ frames' = [Front EXCEPT ![Len(Front)] =
                     [C EXCEPT !.pc = @ + 1, !.ops = @ \o vs]]
     /\ stack' = st /\ eh' = e /\ mode' = "run" /\ x0' = FALSE
     /\ UNCHANGED <<eh_base, pending, last, ninv>>

CallerIsJit == Front # <<>> /\ Front[Len(Front)].k = "jit"

----------------------------------------------------------------------------
(* Entering a function.  fs are the frames below the callee, st the value  *)
(* stack with the arguments of an interpreted callee on top.               *)

EnterInterp(fs, st, f, dep) ==
  IF dep >= MaxDepth THEN Trap
  ELSE \E g \in Ctl0Garbage :
         /\ frames' = Append(fs, InterpFrame(f, Len(st) - NArgs(f), dep, g))
         /\ stack' = st \o Fill(Sig[f].nl)
         /\ UNCHANGED <<mode, eh, eh_base, pending, x0, last, ninv>>

\* prologue: native stack probe
EnterJit(fs, st, f, dep, e) ==
  IF Len(fs) >= MaxFrames THEN Trap
  ELSE /\ frames' = Append(fs, JitFrame(f, dep))
       /\ stack' = st /\ eh' = e /\ x0' = FALSE
       /\ UNCHANGED <<mode, eh_base, pending, last, ninv>>

----------------------------------------------------------------------------
(* ea_instance_invoke: the arguments are pushed; ea_jit_call pops them.    *)

Invoke(f) ==
  /\ built /\ mode = "idle" /\ ninv < MaxInvoke
  /\ ninv' = ninv + 1
  /\ pending' = NoExn
  /\ eh_base' = Len(eh)
  /\ mode' = "run" /\ x0' = FALSE /\ last' = "none"
  /\ IF jit[f]
     THEN frames' = <<JitFrame(f, 0)>> /\ stack' = stack
     ELSE \E g \in Ctl0Garbage :
            /\ frames' = <<InterpFrame(f, Len(stack), 0, g)>>
            /\ stack' = stack \o Fill(NArgs(f) + Sig[f].nl)
  /\ UNCHANGED eh

----------------------------------------------------------------------------
(* The interpreter. *)

HOff(F) == F.base + NArgs(F.fn) + Sig[F.fn].nl

\* mutant: a false if jumps behind its end
IOpenSkipsEnd ==
  /\ Executes("interp", Openers)
  /\ LET lbl == [blk |-> Top.pc, h |-> HOff(Top) + Len(Here.tys),
                 ar |-> IF At.op = "loop" THEN 0 ELSE Len(At.bt),
                 rar |-> Len(At.bt), is_try |-> At.op = "try_table"]
         O == [Top EXCEPT !.ctl = Append(@, lbl), !.pc = @ + 1]
     IN \/ frames' = SetTop(O)
        \/ /\ At.op = "if"
           /\ frames' = SetTop([O EXCEPT !.pc = end_idx[Top.fn][Top.pc] + 1])
  /\ UNCHANGED <<mode, stack, eh, eh_base, pending, x0, last, ninv>>

\* BLOCK, LOOP, TRY_TABLE and a taken IF
IOpen ==
  /\ Executes("interp", Openers)
  /\ LET lbl == [blk |-> Top.pc, h |-> HOff(Top) + Len(Here.tys),
                 ar |-> IF At.op = "loop" THEN 0 ELSE Len(At.bt),
                 rar |-> Len(At.bt), is_try |-> At.op = "try_table"]
         F == [Top EXCEPT !.ctl = Append(@, lbl), !.pc = @ + 1]
     IN \/ frames' = SetTop(F)
        \/ /\ At.op = "if"               \* condition is zero
           /\ frames' = SetTop([F EXCEPT !.pc = end_idx[Top.fn][Top.pc]])
  /\ UNCHANGED <<mode, stack, eh, eh_base, pending, x0, last, ninv>>

IEnd ==
  /\ Executes("interp", {"end"})
  /\ LET c == Len(Top.ctl)
     IN IF c > 1
        THEN /\ stack' = Resize(stack, Top.ctl[c].h + Top.ctl[c].rar)
             /\ frames' = SetTop([Advance EXCEPT !.ctl = DropN(@, 1)])
        ELSE stack' = stack /\ frames' = SetTop([Advance EXCEPT !.ctl = <<>>])
  /\ UNCHANGED <<mode, eh, eh_base, pending, x0, last, ninv>>

\* mutants: a branch to a loop leaves it; a branch to any label repeats the block
CtlPcNoLoop(f, c) == IF c.blk = 0 THEN Len(code[f]) + 1 ELSE end_idx[f][c.blk]
CtlPcAllLoop(f, c) == c.blk + 1

\* pc a jump to control entry c continues at
CtlPc(f, c) ==
  IF c.blk = 0 THEN Len(code[f]) + 1
  ELSE IF code[f][c.blk].op = "loop" THEN c.blk + 1 ELSE end_idx[f][c.blk]

\* mutant: a branch also drops the control entry it lands on
IJumpDropsTarget(l) ==
  LET c == Top.ctl[Len(Top.ctl) - l]
  IN /\ stack' = SubSeq(stack, 1, c.h) \o LastN(stack, c.ar)
     /\ frames' = SetTop([Top EXCEPT !.ctl = DropN(@, l + 1), !.pc = CtlPc(Top.fn, c)])

IJump(l) ==
  LET c == Top.ctl[Len(Top.ctl) - l]
  IN /\ stack' = SubSeq(stack, 1, c.h) \o LastN(stack, c.ar)
     /\ frames' = SetTop([Top EXCEPT !.ctl = DropN(@, l), !.pc = CtlPc(Top.fn, c)])

IBr ==
  /\ Executes("interp", {"br", "br_if", "br_table"})
  /\ \/ IJump(At.n)
     \/ At.op = "br_table" /\ IJump(0)
     \/ At.op = "br_if" /\ frames' = SetTop(Advance) /\ stack' = stack
  /\ UNCHANGED <<mode, eh, eh_base, pending, x0, last, ninv>>

\* constants, drop and a numeric operator
ISimple ==
  /\ Executes("interp", {"push", "drop", "popcnt"})
  /\ stack' = CASE At.op = "push" -> Append(stack, "v")
                [] At.op = "drop" -> DropN(stack, 1)
                [] OTHER -> stack
  /\ frames' = SetTop(Advance)
  /\ UNCHANGED <<mode, eh, eh_base, pending, x0, last, ninv>>

\* unreachable, and a host function that fails
ITrap ==
  /\ Executes("interp", {"unreachable", "host"})
  /\ IF At.op = "host" /\ At.n = 0
     THEN /\ frames' = SetTop(Advance)
          /\ UNCHANGED <<mode, stack, eh, eh_base, pending, x0, last, ninv>>
     ELSE Trap

\* RETURN, and falling off the end: the results move down to base
IDone ==
  /\ Running("interp")
  /\ InCode => At.op = "return"
  /\ LET vs   == LastN(stack, NRes(Top.fn))
         down == SubSeq(stack, 1, Top.base)
     IN IF CallerIsJit
        THEN DeliverToJit(vs, down, eh)   \* tail of ea_jit_call_interp
        ELSE DeliverToC(down \o vs, eh)

ICall ==
  /\ Executes("interp", {"call", "call_ref"})
  /\ LET g == At.n
     IN IF jit[g]
        THEN EnterJit(SetTop([Top EXCEPT !.sp = Len(stack)]),
                      DropN(stack, NArgs(g)), g, Top.dep, eh)
        ELSE EnterInterp(frames, stack, g, Top.dep + 1)

\* RETURN_CALL: an interpreted callee recycles the frame, a JIT callee runs
\* on top of it
IReturnCall ==
  /\ Executes("interp", {"return_call"})
  /\ LET g == At.n
     IN IF jit[g]
        THEN EnterJit(SetTop([Top EXCEPT !.sp = Len(stack)]),
                      DropN(stack, NArgs(g)), g, Top.dep, eh)
        ELSE /\ stack' = SubSeq(stack, 1, Top.base) \o
                           LastN(stack, NArgs(g)) \o Fill(Sig[g].nl)
             /\ frames' = SetTop(InterpFrame(g, Top.base, Top.dep,
                                             Top.ctl[1].is_try))
             /\ UNCHANGED <<mode, eh, eh_base, pending, x0, last, ninv>>

\* mutants: the last clause that matches; any clause, whatever its tag
LastClause(i, t) ==
  LET M == {c \in DOMAIN i.cs : Matches(i.cs[c], t)}
  IN IF M = {} THEN 0 ELSE CHOOSE c \in M : \A d \in M : c >= d
AnyClause(i, t) == IF i.cs = <<>> THEN 0 ELSE 1

\* first clause of try_table instruction i that matches t, or 0
FirstClause(i, t) ==
  LET M == {c \in DOMAIN i.cs : Matches(i.cs[c], t)}
  IN IF M = {} THEN 0 ELSE CHOOSE c \in M : \A d \in M : c <= d

\* control entries of F above the function entry that can handle t
Handlers(F, t) ==
  {k \in 2 .. Len(F.ctl) :
     F.ctl[k].is_try /\ FirstClause(code[F.fn][F.ctl[k].blk], t) # 0}

\* eh_unwind of exception t in top frame F over value stack st; skip is 1
\* when the caller of eh_unwind steps past the landing pc
eh_unwind(F, st, t, skip) ==
  IF Handlers(F, t) # {}
  THEN LET k == CHOOSE k \in Handlers(F, t) : \A j \in Handlers(F, t) : j <= k
           i == code[F.fn][F.ctl[k].blk]
           c == i.cs[FirstClause(i, t)]
           m == k - 1 - c.label
           w == IF c.kind \in {1, 3} THEN Append(Payload(t), t) ELSE Payload(t)
       IN /\ stack' = Resize(st, F.ctl[m].h) \o
                        SubSeq(w, 1, Carried(c, TagTys[t]))
          /\ frames' = SetTop([F EXCEPT !.ctl = SubSeq(@, 1, m),
                                        !.pc = CtlPc(F.fn, F.ctl[m]) + skip])
          /\ mode' = "run" /\ pending' = NoExn
          /\ UNCHANGED <<eh, eh_base, x0, last, ninv>>
  ELSE IF F.ctl[1].is_try THEN Crash     \* reads try_in of ctl[0]
  ELSE pending' = t /\ Propagate(st, eh)

IThrow ==
  /\ Executes("interp", {"throw"})
  /\ eh_unwind(Top, DropN(stack, Len(TagTys[At.t])), At.t, 0)

IThrowRef ==
  /\ Executes("interp", {"throw_ref"})
  /\ IF TyOf(stack[Len(stack)]) = "exn"
     THEN eh_unwind(Top, DropN(stack, 1), stack[Len(stack)], 0)
     ELSE Crash                          \* a number used as an EaExnInst *

\* A call failed with a pending exception.  A JIT callee leaves the frame's
\* own sp; after an interpreted callee sp is re-read from ex->sp.  call_ref
\* reaches its trailing pc++ when an interpreted callee's exception is caught.
ICallFailed ==
  /\ mode = "exn" /\ Top.k = "interp"
  /\ LET g == At.n
     IN eh_unwind(Top, IF jit[g] THEN Resize(stack, Top.sp) ELSE stack, pending,
                  IF At.op = "call_ref" /\ ~jit[g] THEN 1 ELSE 0)

InterpNext == \/ IOpen \/ IEnd \/ IBr \/ ISimple \/ ITrap \/ IDone \/ ICall
              \/ IReturnCall \/ IThrow \/ IThrowRef \/ ICallFailed

----------------------------------------------------------------------------
(* JIT code. *)

Fp == Len(frames)                    \* the frame pointer identifies a frame

ea_jit_eh_popn(n) == IF n > Len(eh) THEN <<>> ELSE DropN(eh, n)

\* mutant: the target frame's own handler is counted too
eh_crossingsWithTarget(s, l) ==
  Cardinality({k \in 1 .. Len(s.ctrl) : k >= LabelLvl(s, l) /\ s.is_try[k]})

\* handlers a branch to label l exits, by the compile-time is_try flags
eh_crossings(s, l) ==
  Cardinality({k \in LabelLvl(s, l) + 1 .. Len(s.ctrl) : s.is_try[k]})

PopCrossings(l) ==
  LET n == eh_crossings(Here, l)
  IN eh' = ea_jit_eh_popn(n) /\ x0' = (x0 /\ n = 0)

JOpen ==
  /\ Executes("jit", Openers)
  /\ \/ frames' = SetTop(Advance)
     \/ At.op = "if" /\ frames' = SetTop([Top EXCEPT !.pc = end_idx[Top.fn][Top.pc]])
  /\ IF At.op = "try_table"
     THEN /\ eh' = Append(eh, [fp |-> Fp, fn |-> Top.fn, blk |-> Top.pc,
                               sp0 |-> Len(Top.ops)])
          /\ x0' = FALSE
     ELSE UNCHANGED <<eh, x0>>
  /\ UNCHANGED <<mode, stack, eh_base, pending, last, ninv>>

\* mutant: end never pops
JEndNoPop ==
  /\ Executes("jit", {"end"})
  /\ frames' = SetTop(Advance)
  /\ UNCHANGED <<mode, stack, eh, eh_base, pending, x0, last, ninv>>

\* END pops a handler when it is compiled in reachable code at a level
\* flagged is_try
JEnd ==
  /\ Executes("jit", {"end"})
  /\ LET pops == Here.skip = -1 /\ Here.ctrl # <<>> /\ Here.is_try[Len(Here.ctrl)]
     IN /\ eh' = IF pops THEN ea_jit_eh_popn(1) ELSE eh
        /\ x0' = (x0 /\ ~pops)
  /\ frames' = SetTop(Advance)
  /\ UNCHANGED <<mode, stack, eh_base, pending, last, ninv>>

\* mutant: a branch leaves the operands above the label
JJumpKeepsOperands(l) ==
  LET k == LabelLvl(Here, l)
  IN /\ PopCrossings(l)
     /\ frames' = SetTop([Top EXCEPT !.pc = LabelPc(Top.fn, Here, k)])

JJump(l) ==
  LET k == LabelLvl(Here, l)
  IN /\ PopCrossings(l)
     /\ frames' = SetTop([Top EXCEPT
          !.ops = SubSeq(@, 1, LabelHeight(Here, k)) \o
                    LastN(@, Len(LabelTys(Top.fn, Here, k))),
          !.pc = LabelPc(Top.fn, Here, k)])

JBr ==
  /\ Executes("jit", {"br", "br_if", "br_table"})
  /\ \/ JJump(At.n)
     \/ At.op = "br_table" /\ JJump(0)
     \/ At.op = "br_if" /\ frames' = SetTop(Advance) /\ UNCHANGED <<eh, x0>>
  /\ UNCHANGED <<mode, stack, eh_base, pending, last, ninv>>

\* popcnt is a helper call: its result is left in x0
JSimple ==
  /\ Executes("jit", {"push", "drop", "popcnt"})
  /\ frames' = SetTop([Advance EXCEPT
       !.ops = CASE At.op = "push" -> Append(@, "v")
                 [] At.op = "drop" -> DropN(@, 1)
                 [] OTHER -> @])
  /\ IF At.op = "popcnt" THEN x0' \in BOOLEAN ELSE x0' = x0
  /\ UNCHANGED <<mode, stack, eh, eh_base, pending, last, ninv>>

\* unreachable traps; the bridge drops the return value of a host function
JTrap ==
  /\ Executes("jit", {"unreachable", "host"})
  /\ IF At.op = "host"
     THEN /\ frames' = SetTop(Advance) /\ x0' = FALSE
          /\ UNCHANGED <<mode, stack, eh, eh_base, pending, last, ninv>>
     ELSE Trap

\* mutant: every return to generated code looks like the marker
JReturnWithMarker(e, one) ==
  LET vs == LastN(Top.ops, NRes(Top.fn))
  IN IF ~CallerIsJit THEN DeliverToC(stack \o vs, e)
     ELSE /\ mode' = "exn" /\ frames' = Front /\ eh' = e /\ x0' = FALSE
          /\ UNCHANGED <<stack, eh_base, pending, last, ninv>>

\* The epilogue.  x0 is not cleared: a JIT call site that finds 1 in it
\* takes the return for an exception.
JReturnWith(e, one) ==
  LET vs == LastN(Top.ops, NRes(Top.fn))
  IN IF ~CallerIsJit THEN DeliverToC(stack \o vs, e)   \* tail of ea_jit_call
     ELSE IF ~one THEN DeliverToJit(vs, stack, e)
     ELSE /\ mode' = "exn" /\ frames' = Front /\ eh' = e /\ x0' = FALSE
          /\ UNCHANGED <<stack, eh_base, pending, last, ninv>>

JDone ==
  /\ Running("jit")
  /\ \/ ~InCode /\ JReturnWith(eh, x0)
     \/ /\ InCode /\ At.op = "return"
        /\ LET n == eh_crossings(Here, Len(Here.ctrl))
           IN JReturnWith(ea_jit_eh_popn(n), x0 /\ n = 0)

\* a call pops the arguments from the native stack; the bridge
\* ea_jit_call_interp pushes them on the value stack
JCall ==
  /\ Executes("jit", {"call"})
  /\ LET g  == At.n
         fs == SetTop([Top EXCEPT !.ops = DropN(@, NArgs(g))])
     IN IF jit[g] THEN EnterJit(fs, stack, g, Top.dep, eh)
        ELSE EnterInterp(fs, stack \o LastN(Top.ops, NArgs(g)), g, Top.dep + 1)

\* emit_tail_call, after the pops: the frame is gone before the callee runs
JReturnCall ==
  /\ Executes("jit", {"return_call"})
  /\ LET g == At.n
         e == ea_jit_eh_popn(eh_crossings(Here, Len(Here.ctrl)))
         st == stack \o LastN(Top.ops, NArgs(g))
     IN IF jit[g] THEN EnterJit(Front, stack, g, Top.dep, e)
        ELSE IF Top.dep + 1 >= MaxDepth THEN Trap
        ELSE \E b \in Ctl0Garbage :
               /\ frames' = Append(Front, InterpFrame(g, Len(stack), Top.dep + 1, b))
               /\ stack' = st \o Fill(Sig[g].nl)
               /\ eh' = e
               /\ UNCHANGED <<mode, eh_base, pending, x0, last, ninv>>

\* mutant: entries of caller frames are searched too
OwnEntriesAll == 1 .. Len(eh)

\* entries at the top of the handler stack that belong to the current frame
OwnEntries == {j \in 1 .. Len(eh) : \A i \in j .. Len(eh) : eh[i].fp = Fp}
MatchingEntries(t) ==
  {j \in OwnEntries : FirstClause(code[eh[j].fn][eh[j].blk], t) # 0}

\* eh_dispatch of exception t: examined entries are popped; a match lands as
\* a br to the clause's label, no match returns the marker to the caller.
\* Writing the payload of a clause that does not carry it runs off the frame.
eh_dispatch(t) ==
  IF MatchingEntries(t) # {}
  THEN LET j == CHOOSE j \in MatchingEntries(t) :
                  \A i \in MatchingEntries(t) : i <= j
           h == eh[j]
           i == code[h.fn][h.blk]
           c == i.cs[FirstClause(i, t)]
           s == snap[h.fn][h.blk]
           k == LabelLvl(s, c.label)
           ncarry == Carried(c, TagTys[t])
           up == Len(s.tys) - LabelHeight(s, k)
           vs == CASE c.kind = 0 -> Payload(t)
                   [] c.kind = 1 -> Append(Payload(t), t)
                   [] c.kind = 2 -> <<>>
                   [] c.kind = 3 -> <<t>>
       IN IF Len(Payload(t)) > ncarry THEN Crash
          ELSE /\ eh' = SubSeq(eh, 1, j - 1)
               /\ frames' = SetTop([Top EXCEPT
                    !.fn = h.fn, !.pc = LabelPc(h.fn, s, k),
                    !.ops = SubSeq(@, 1, h.sp0 - up) \o vs])
               /\ mode' = "run" /\ pending' = NoExn /\ x0' = FALSE
               /\ UNCHANGED <<stack, eh_base, last, ninv>>
  ELSE /\ pending' = t
       /\ Propagate(stack, SubSeq(eh, 1, Len(eh) - Cardinality(OwnEntries)))

\* THROW: inlined dispatch on the fast path, else the throw stub
JThrow ==
  /\ Executes("jit", {"throw"})
  /\ IF FastThrow(Top.fn, Here, At.t)
     THEN LET k == FastLvl(Here)
              c == code[Top.fn][Here.ctrl[k].blk].cs[1]
              m == k - 1 - c.label
              n == IF c.kind = 2 THEN 0 ELSE Len(LabelTys(Top.fn, Here, m))
          IN /\ eh' = ea_jit_eh_popn(1)
             /\ frames' = SetTop([Top EXCEPT
                  !.ops = SubSeq(@, 1, LabelHeight(Here, m)) \o LastN(@, n),
                  !.pc = LabelPc(Top.fn, Here, m)])
             /\ x0' = FALSE
             /\ UNCHANGED <<mode, stack, eh_base, pending, last, ninv>>
     ELSE eh_dispatch(At.t)

JThrowRef ==
  /\ Executes("jit", {"throw_ref"})
  /\ LET x == Top.ops[Len(Top.ops)]
     IN IF TyOf(x) = "exn" THEN eh_dispatch(x) ELSE Crash

\* The resume stub of a call site.  Without a pending exception it returns
\* the marker with the frame's handlers still pushed, and ea_jit_call, which
\* looks at pending_exn, then reads results from a frame that is gone.
JResume ==
  /\ mode = "exn" /\ Top.k = "jit"
  /\ IF pending # NoExn THEN eh_dispatch(pending)
     ELSE IF CallerIsJit
     THEN /\ frames' = Front
          /\ UNCHANGED <<mode, stack, eh, eh_base, pending, x0, last, ninv>>
     ELSE DeliverToC(stack \o Fill(NRes(Top.fn)), eh)

JitNext == \/ JOpen \/ JEnd \/ JBr \/ JSimple \/ JTrap \/ JDone \/ JCall
           \/ JReturnCall \/ JThrow \/ JThrowRef \/ JResume

----------------------------------------------------------------------------
Init ==
  /\ ProgInit
  /\ mode = "idle" /\ frames = <<>> /\ stack = <<>> /\ eh = <<>>
  /\ eh_base = 0 /\ pending = NoExn /\ x0 = FALSE /\ last = "none" /\ ninv = 0

\* The environment may leave a module incomplete and, between invokes, stop.
\* While an invoke runs some step is always possible.
Finished == (~built \/ mode = "idle") /\ UNCHANGED vars

Step == \/ InterpNext /\ UNCHANGED progvars
        \/ JitNext /\ UNCHANGED progvars

Next ==
  \/ ProgNext /\ UNCHANGED execvars
  \/ Invoke(1) /\ UNCHANGED progvars
  \/ Step
  \/ Finished

Spec == Init /\ [][Next]_vars

\* a started invoke keeps executing: nothing else runs on the thread
FairSpec == Spec /\ WF_vars(Step)
=============================================================================
