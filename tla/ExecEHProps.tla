----------------------------- MODULE ExecEHProps -----------------------------
(***************************************************************************)
(* Properties of ExecEH.                                                   *)
(***************************************************************************)
EXTENDS ExecEH

CtlType == [blk : Nat, h : Nat, ar : Nat, rar : Nat, is_try : BOOLEAN]

\* Every field of the machine keeps its type.
TypeOK ==
  /\ mode \in {"idle", "run", "exn", "crash"}
  /\ \A i \in DOMAIN frames :
       /\ frames[i].k \in {"interp", "jit"} /\ frames[i].fn \in Funcs
       /\ frames[i].pc \in 1 .. Len(code[frames[i].fn]) + 2
       /\ \A c \in DOMAIN frames[i].ctl : frames[i].ctl[c] \in CtlType
       /\ \A c \in DOMAIN frames[i].ops : frames[i].ops[c] \in Vals
  /\ \A i \in DOMAIN stack : stack[i] \in Vals
  /\ \A i \in DOMAIN eh : eh[i].fp \in Nat /\ eh[i].fn \in Funcs
  /\ eh_base \in Nat /\ pending \in Tags \cup {NoExn} /\ x0 \in BOOLEAN
  /\ last \in {"none", "ok", "trap", "exn"} /\ ninv \in 0 .. MaxInvoke

\* frame i executes code of its function, or is suspended in it
Inside(i) == frames[i].pc <= Len(code[frames[i].fn])
SnapAt(i) == snap[frames[i].fn][frames[i].pc]

\* try_tables that enclose the pc of JIT frames: <<frame, level>>
OpenTries ==
  {x \in (1 .. Len(frames)) \X (1 .. MaxNest) :
     /\ frames[x[1]].k = "jit" /\ Inside(x[1])
     /\ x[2] <= Len(SnapAt(x[1]).ctrl)
     /\ SnapAt(x[1]).ctrl[x[2]].op = "try_table"}

Before(x, y) == x[1] < y[1] \/ (x[1] = y[1] /\ x[2] < y[2])

\* The handler stack holds exactly the try_tables that enclose the current pc
\* of each JIT frame, outermost frame first: every exit from a try_table (end,
\* br, return, tail call, a caught exception) pops its entry once.
HandlersExact ==
  /\ Len(eh) = Cardinality(OpenTries)
  /\ \A x \in OpenTries :
       LET p == Cardinality({y \in OpenTries : Before(y, x)}) + 1
       IN /\ eh[p].fp = x[1] /\ eh[p].fn = frames[x[1]].fn
          /\ eh[p].blk = SnapAt(x[1]).ctrl[x[2]].blk

\* An interpreter frame's run-time control stack is the block nesting at its
\* pc, with the heights the validator computed: eh_unwind and br index it by
\* label without a check.
CtlExact ==
  \A i \in DOMAIN frames :
    frames[i].k = "interp" /\ Inside(i) =>
      LET F == frames[i] s == SnapAt(i)
      IN /\ Len(F.ctl) = Len(s.ctrl) + 1
         /\ \A k \in 1 .. Len(s.ctrl) :
              /\ F.ctl[k + 1].blk = s.ctrl[k].blk
              /\ F.ctl[k + 1].h = HOff(F) + s.ctrl[k].h

Types(s) == [q \in 1 .. Len(s) |-> TyOf(s[q])]

\* operand types at pc; at an end, also one reached only by jumps, the results
\* of the block it closes
TysAt(f, pc) == snap[f][IF code[f][pc].op = "end" THEN pc + 1 ELSE pc].tys

\* The operands of the executing frame are the ones the validator typed at
\* its pc, after every call, branch and caught exception; at the end of the
\* function the results are in place.
OperandsExact ==
  mode = "run" =>
    LET F   == Top
        opn == IF F.k = "jit" THEN F.ops
               ELSE SubSeq(stack, HOff(F) + 1, Len(stack))
        all == IF F.k = "jit" THEN F.ops ELSE stack
    IN IF InCode
       THEN Types(opn) = TysAt(F.fn, F.pc)
       ELSE /\ Len(all) >= NRes(F.fn)
            /\ Types(LastN(all, NRes(F.fn))) = Sig[F.fn].rs

\* No step leaves defined behaviour: no wild payload write, no use of an
\* uninitialised control entry, no number used as an exception.
NoCrash == mode # "crash"

\* Between invokes the handler stack is empty, whatever the invoke did: traps
\* and exceptions that skip the generated pops are repaired at the boundary.
NoHandlersAtIdle == mode = "idle" => eh = <<>>

\* Between invokes the value stack is empty.
StackEmptyAtIdle == mode = "idle" => stack = <<>>

\* Code runs only while no exception is pending, and unwinding always has
\* one: the marker returned by a frame and pending_exn agree.
PendingExact ==
  /\ mode = "run" => pending = NoExn
  /\ mode = "exn" => pending # NoExn

----------------------------------------------------------------------------
\* Both engines, in every mix, implement WebAssembly's control semantics.  An
\* interpreter frame suspended at a return_call is no longer an activation;
\* when its JIT callee has returned it stands for that callee's return, and an
\* exception that unwinds nothing but such frames has ended the invoke.
Suspended(i) ==
  /\ Inside(i) /\ (i < Len(frames) \/ mode = "exn")
  /\ code[frames[i].fn][frames[i].pc].op = "return_call"
Shown == {i \in DOMAIN frames : ~Suspended(i)}
Nth(S, n) == CHOOSE i \in S : Cardinality({j \in S : j < i}) = n - 1
Activations == [n \in 1 .. Cardinality(Shown) |-> ActOf(frames[Nth(Shown, n)])]

\* the exception has left every activation, but not yet every frame
Ended == mode = "exn" /\ Activations = <<>>

Control == INSTANCE WasmControl WITH
  acts <- Activations, exn <- pending, phase <- IF Ended THEN "idle" ELSE mode,
  outcome <- IF Ended THEN "exn" ELSE last, count <- ninv

ImplementsControl == Control!ASpec

\* Every invoke of a program without loops ends.
InvokeReturns == (mode \in {"run", "exn"}) ~> (mode = "idle")
=============================================================================
