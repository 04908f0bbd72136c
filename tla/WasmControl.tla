----------------------------- MODULE WasmControl -----------------------------
(***************************************************************************)
(* What running a function promises, whichever engine runs it: the control *)
(* semantics of WebAssembly over validated bodies.  The state is the stack *)
(* of activations <<function, pc>> and the exception in flight.  There is  *)
(* no run-time control stack and no handler stack: which handlers are in   *)
(* force at a pc is read off the block structure (snap).                   *)
(***************************************************************************)
EXTENDS WasmProgram

CONSTANT MaxInvoke

VARIABLES
  acts,     \* activations, innermost last
  exn,      \* the exception in flight, or NoTag
  phase,    \* "idle", "run" or "exn"
  outcome,  \* how the last invocation ended
  count     \* invocations started

avars == <<code, end_idx, snap, jit, built, acts, exn, phase, outcome, count>>

Act == acts[Len(acts)]
Instr == code[Act[1]][Act[2]]
Nest == snap[Act[1]][Act[2]]
Goto(pc) == [acts EXCEPT ![Len(acts)] = <<Act[1], pc>>]
Inside == phase = "run" /\ Act[2] <= Len(code[Act[1]])

AInit == ProgInit /\ acts = <<>> /\ exn = NoTag /\ phase = "idle"
         /\ outcome = "none" /\ count = 0

Start(f) ==
  /\ built /\ phase = "idle" /\ count < MaxInvoke
  /\ acts' = <<<<f, 1>>>> /\ phase' = "run" /\ exn' = NoTag
  /\ outcome' = "none" /\ count' = count + 1

\* an instruction that stays in its activation
Local ==
  /\ Inside
  /\ \/ /\ Instr.op \in Openers \cup {"end", "push", "drop", "popcnt", "br_if"}
        /\ acts' = Goto(Act[2] + 1)
     \/ /\ Instr.op = "host" /\ Instr.n = 0
        /\ acts' = Goto(Act[2] + 1)
     \/ Instr.op = "if" /\ acts' = Goto(end_idx[Act[1]][Act[2]])
     \/ /\ Instr.op \in {"br", "br_if", "br_table"}
        /\ \E l \in {Instr.n} \cup (IF Instr.op = "br_table" THEN {0} ELSE {}) :
             acts' = Goto(LabelPc(Act[1], Nest, LabelLvl(Nest, l)))
  /\ UNCHANGED <<exn, phase, outcome, count>>

\* calls may also exhaust the stack; a failed host function traps
Traps ==
  /\ Inside
  /\ \/ Instr.op \in {"unreachable", "call", "call_ref", "return_call"}
     \/ Instr.op = "host" /\ Instr.n # 0
  /\ acts' = <<>> /\ phase' = "idle" /\ outcome' = "trap"
  /\ UNCHANGED <<exn, count>>

Calls ==
  /\ Inside
  /\ \/ Instr.op \in {"call", "call_ref"} /\ acts' = Append(acts, <<Instr.n, 1>>)
     \/ /\ Instr.op = "return_call"
        /\ acts' = Append(DropN(acts, 1), <<Instr.n, 1>>)
  /\ UNCHANGED <<exn, phase, outcome, count>>

Returns ==
  /\ phase = "run"
  /\ Inside => Instr.op = "return"
  /\ IF Len(acts) = 1
     THEN acts' = <<>> /\ phase' = "idle" /\ outcome' = "ok"
     ELSE LET rest == DropN(acts, 1) c == rest[Len(rest)]
          IN /\ acts' = [rest EXCEPT ![Len(rest)] = <<c[1], c[2] + 1>>]
             /\ UNCHANGED <<phase, outcome>>
  /\ UNCHANGED <<exn, count>>

\* levels of enclosing try_tables with a clause for t, and the clause
AClauses(f, s, k) == code[f][s.ctrl[k].blk].cs
ACatching(f, s, t) ==
  {k \in 1 .. Len(s.ctrl) :
     /\ s.ctrl[k].op = "try_table"
     /\ \E j \in DOMAIN AClauses(f, s, k) : Matches(AClauses(f, s, k)[j], t)}

\* the exception t in the top activation: the innermost enclosing try_table
\* with a matching clause takes it to the label of the first such clause;
\* without one the activation ends
Raise(t) ==
  LET f == Act[1] s == Nest K == ACatching(f, s, t)
  IN IF K # {}
     THEN LET k  == CHOOSE k \in K : \A j \in K : j <= k
              cs == AClauses(f, s, k)
              j  == CHOOSE j \in DOMAIN cs :
                      Matches(cs[j], t) /\ \A i \in 1 .. j - 1 : ~Matches(cs[i], t)
          IN /\ acts' = Goto(LabelPc(f, s, k - 1 - cs[j].label))
             /\ phase' = "run" /\ exn' = NoTag /\ UNCHANGED outcome
     ELSE /\ acts' = DropN(acts, 1) /\ exn' = t
          /\ IF Len(acts) = 1 THEN phase' = "idle" /\ outcome' = "exn"
             ELSE phase' = "exn" /\ UNCHANGED outcome

\* throw_ref rethrows the exception its operand names; operands are not part
\* of this specification, so it is some exception
Throws ==
  /\ \/ Inside /\ Instr.op = "throw" /\ Raise(Instr.t)
     \/ Inside /\ Instr.op = "throw_ref" /\ \E t \in Tags : Raise(t)
     \/ phase = "exn" /\ Raise(exn)
  /\ UNCHANGED count

ANext ==
  \/ ProgNext /\ UNCHANGED <<acts, exn, phase, outcome, count>>
  \/ (Start(1) \/ Local \/ Traps \/ Calls \/ Returns \/ Throws) /\ UNCHANGED progvars

ASpec == AInit /\ [][ANext]_avars
=============================================================================
