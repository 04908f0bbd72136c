---------------------------- MODULE WasmProgram ----------------------------
(***************************************************************************)
(* Validated function bodies as easm holds them: pre-decoded instruction   *)
(* lists with resolved end_idx (decode.c), the validator's control and     *)
(* operand stacks at every pc (validate.c) and the compile-time control    *)
(* state of the AArch64 JIT at every pc (jit_a64.c).                       *)
(*                                                                         *)
(* Decoding, validation and code generation are three linear passes over   *)
(* one instruction list, so the module runs them in lockstep: Emit appends *)
(* one instruction, checks it as the validator does and records in `snap'  *)
(* the state each pass has BEFORE that instruction.  Operand values and    *)
(* branch conditions are left out; an operand is its type, "v" for a       *)
(* number and "exn" for an exnref.                                         *)
(***************************************************************************)
EXTENDS Integers, Sequences, FiniteSets

CONSTANTS
  NFuncs,    \* functions of the module, numbered from 1
  Sig,       \* Sig[f] = [ps, rs, nl]: parameter and result types, extra locals
  Tags,      \* exception tags
  TagTys,    \* TagTys[t]: payload types of tag t
  Instrs,    \* Instrs[f]: the instructions the body of f is built from
  MaxLen,    \* MaxLen[f]: longest body of function f, final end included
  MaxNest,   \* deepest block nesting
  JitChoices,\* sets of functions that may be compiled
  Shapes     \* program shapes of ShapeNames that Emit may build

VARIABLES
  code,      \* code[f]: EaInstr list of function f
  end_idx,   \* end_idx[f][i]: pc of the end that closes the block opened at i
  snap,      \* snap[f][pc]: validator and JIT compile state before pc
  jit,       \* jit[f]: the function was published as machine code
  built      \* all bodies are complete and the module is instantiated

progvars == <<code, end_idx, snap, jit, built>>

Funcs == 1 .. NFuncs
Tys   == {"v", "exn"}

LastN(s, n) == SubSeq(s, Len(s) - n + 1, Len(s))
DropN(s, n) == SubSeq(s, 1, Len(s) - n)

(***************************************************************************)
(* Instructions.  n is a label, a callee, or the return value of a host    *)
(* function; bt the result types of a block; t a tag; cs the catch clauses *)
(* of a try_table.  Clause kinds are the source's: 0 catch, 1 catch_ref,   *)
(* 2 catch_all, 3 catch_all_ref.                                           *)
(***************************************************************************)
NoTag == "-"
Op(op)         == [op |-> op, n |-> 0, bt |-> <<>>, t |-> NoTag, cs |-> <<>>]
OpN(op, n)     == [Op(op) EXCEPT !.n = n]
OpB(op, bt)    == [Op(op) EXCEPT !.bt = bt]
OpTry(bt, cs)  == [Op("try_table") EXCEPT !.bt = bt, !.cs = cs]
OpThrow(t)     == [Op("throw") EXCEPT !.t = t]
Catch(k, t, l) == [kind |-> k, tag |-> t, label |-> l]

Openers     == {"block", "loop", "if", "try_table"}
Terminators == {"br", "br_table", "return", "return_call", "throw",
                "throw_ref", "unreachable"}
Ops == Openers \cup Terminators \cup
       {"end", "br_if", "call", "call_ref", "host", "push", "drop", "popcnt"}

Clauses == [kind : 0 .. 3, tag : Tags \cup {NoTag}, label : Nat]
InstrType == [op : Ops, n : Nat, bt : Seq(Tys), t : Tags \cup {NoTag},
              cs : Seq(Clauses)]

ASSUME NFuncsAssumption == NFuncs \in Nat \ {0}
ASSUME MaxNestAssumption == MaxNest \in Nat
ASSUME SigAssumption ==
  Sig \in [Funcs -> [ps : Seq(Tys), rs : Seq(Tys), nl : Nat]]
ASSUME TagAssumption == TagTys \in [Tags -> Seq(Tys)] /\ NoTag \notin Tags
ASSUME JitChoicesAssumption == JitChoices \subseteq SUBSET Funcs
\* what the decoder fills in, and tags the module has
ASSUME InstrsAssumption ==
  \A f \in Funcs : \A i \in Instrs[f] :
    /\ i \in InstrType
    /\ i.op = "throw" => i.t \in Tags
    /\ i.op # "try_table" => i.cs = <<>>
    /\ \A j \in DOMAIN i.cs : i.cs[j].kind <= 1 => i.cs[j].tag \in Tags

(***************************************************************************)
(* The state of the passes before an instruction.  ctrl is the control     *)
(* stack without the function frame; tys the validator's operand stack;    *)
(* skip is -1 in reachable code and otherwise c->skip_depth; is_try is the *)
(* is_try field of c->ctrl[], which outlives the block that set it.        *)
(***************************************************************************)
InitSnap == [ctrl |-> <<>>, tys |-> <<>>, skip |-> -1,
             is_try |-> [k \in 1 .. MaxNest |-> FALSE], closed |-> FALSE]

Cur(f) == snap[f][Len(snap[f])]

\* operand height of the innermost open block
CurHeight(s) == IF s.ctrl = <<>> THEN 0 ELSE s.ctrl[Len(s.ctrl)].h

\* level in s.ctrl of label l, 0 for the function label
LabelLvl(s, l) == Len(s.ctrl) - l

\* types a branch to the block at level k carries (loop: its parameters)
LabelTys(f, s, k) ==
  IF k = 0 THEN Sig[f].rs
  ELSE IF s.ctrl[k].op = "loop" THEN <<>> ELSE s.ctrl[k].bt

\* pc a branch to level k continues at
LabelPc(f, s, k) ==
  IF k = 0 THEN Len(code[f]) + 1
  ELSE IF s.ctrl[k].op = "loop" THEN s.ctrl[k].blk + 1
       ELSE end_idx[f][s.ctrl[k].blk]

LabelHeight(s, k) == IF k = 0 THEN 0 ELSE s.ctrl[k].h

\* number of values a clause carries to its label for an exception with
\* payload types ts
Carried(c, ts) ==
  CASE c.kind = 0 -> Len(ts)
    [] c.kind = 1 -> Len(ts) + 1
    [] c.kind = 2 -> 0
    [] c.kind = 3 -> 1

Matches(c, t) == c.kind >= 2 \/ c.tag = t

----------------------------------------------------------------------------
(* The validator. *)

\* pop_vals succeeds in reachable code
CanPop(s, ts) ==
  /\ Len(s.tys) >= CurHeight(s) + Len(ts)
  /\ LastN(s.tys, Len(ts)) = ts

\* A catch label is accepted when its block's results END with the carried
\* types; a label with more results than carried values passes.
ClauseOK(f, s, c) ==
  /\ c.label <= Len(s.ctrl)
  /\ LET k    == LabelLvl(s, c.label)
         out  == IF k = 0 THEN Sig[f].rs ELSE s.ctrl[k].bt
         want == CASE c.kind = 0 -> TagTys[c.tag]
                   [] c.kind = 1 -> Append(TagTys[c.tag], "exn")
                   [] c.kind = 2 -> <<>>
                   [] c.kind = 3 -> <<"exn">>
     IN /\ Len(out) >= Len(want)
        /\ LastN(out, Len(want)) = want

\* ea_validate_module accepts instruction i in reachable code
ValidLive(f, s, i) ==
  CASE i.op \in {"block", "loop"} -> TRUE
    [] i.op = "if" -> i.bt = <<>>          \* without else: in equals out
    [] i.op = "try_table" -> \A j \in DOMAIN i.cs : ClauseOK(f, s, i.cs[j])
    [] i.op = "end" ->
         s.tys = IF s.ctrl = <<>> THEN Sig[f].rs
                 ELSE SubSeq(s.tys, 1, CurHeight(s)) \o s.ctrl[Len(s.ctrl)].bt
    [] i.op \in {"br", "br_if"} ->
         i.n <= Len(s.ctrl) /\ CanPop(s, LabelTys(f, s, LabelLvl(s, i.n)))
    [] i.op = "br_table" ->                \* labels i.n and 0
         /\ i.n <= Len(s.ctrl)
         /\ LabelTys(f, s, LabelLvl(s, i.n)) = LabelTys(f, s, LabelLvl(s, 0))
         /\ CanPop(s, LabelTys(f, s, LabelLvl(s, 0)))
    [] i.op = "return" -> CanPop(s, Sig[f].rs)
    [] i.op \in {"call", "call_ref"} -> i.n \in Funcs /\ CanPop(s, Sig[i.n].ps)
    [] i.op = "return_call" ->
         i.n \in Funcs /\ Sig[i.n].rs = Sig[f].rs /\ CanPop(s, Sig[i.n].ps)
    [] i.op = "throw" -> CanPop(s, TagTys[i.t])
    [] i.op = "throw_ref" -> CanPop(s, <<"exn">>)
    [] i.op = "drop" -> Len(s.tys) > CurHeight(s)
    [] i.op = "popcnt" -> CanPop(s, <<"v">>)
    [] OTHER -> TRUE

\* Dead code is validated polymorphically and neither engine executes it;
\* only its block structure matters, so only that is built.
ValidDead(i) == i.op \in {"block", "end"}

----------------------------------------------------------------------------
(* The state after instruction i, whose pc is Len(code[f]) + 1. *)

\* TRY_TABLE sets the flag, BLOCK clears it, LOOP and IF leave it as it is.
IsTryAfter(s, i) ==
  LET k == Len(s.ctrl) + 1
  IN CASE i.op = "try_table" -> [s.is_try EXCEPT ![k] = TRUE]
       [] i.op = "block" -> [s.is_try EXCEPT ![k] = FALSE]
       [] OTHER -> s.is_try

Opened(s, i, pc) ==
  IF s.skip >= 0 THEN [s EXCEPT !.skip = @ + 1]
  ELSE [s EXCEPT
          !.ctrl = Append(@, [blk |-> pc, op |-> i.op, bt |-> i.bt,
                              h |-> Len(s.tys)]),
          !.is_try = IsTryAfter(s, i)]

Closed(f, s) ==
  CASE s.skip > 0 -> [s EXCEPT !.skip = @ - 1]
    [] s.skip <= 0 /\ s.ctrl = <<>> ->
         [s EXCEPT !.tys = Sig[f].rs, !.skip = -1, !.closed = TRUE]
    [] OTHER ->
         [s EXCEPT !.tys = SubSeq(@, 1, CurHeight(s)) \o s.ctrl[Len(s.ctrl)].bt,
                   !.skip = -1, !.ctrl = DropN(@, 1)]

\* set_unreachable
Kill(s) == [s EXCEPT !.skip = 0, !.tys = SubSeq(@, 1, CurHeight(s))]

NextSnap(f, s, i, pc) ==
  CASE i.op \in Openers -> Opened(s, i, pc)
    [] i.op = "end" -> Closed(f, s)
    [] i.op \in Terminators -> Kill(s)
    [] i.op = "push" -> [s EXCEPT !.tys = Append(@, "v")]
    [] i.op = "drop" -> [s EXCEPT !.tys = DropN(@, 1)]
    [] i.op \in {"call", "call_ref"} ->
         [s EXCEPT !.tys = DropN(@, Len(Sig[i.n].ps)) \o Sig[i.n].rs]
    [] OTHER -> s

\* mutant: end_idx stays unresolved
EndIdxUnresolved(f, s, i, pc) == Append(end_idx[f], 0)

\* predecode_region: an end closes the innermost open block
EndIdxAfter(f, s, i, pc) ==
  LET e == Append(end_idx[f], 0)
  IN IF i.op = "end" /\ s.skip <= 0 /\ s.ctrl # <<>>
     THEN [e EXCEPT ![s.ctrl[Len(s.ctrl)].blk] = pc] ELSE e

----------------------------------------------------------------------------
(* Program shapes that are known to go wrong.  A model names in Shapes the *)
(* ones it lets in: "wide_label" is the validator's, so a program without  *)
(* it is not built; the others concern generated code only, so a function  *)
(* with one of them is built but stays interpreted.                        *)

\* a catch label with more results than the clause carries
WideLabel(f, s, i) ==
  /\ i.op = "try_table"
  /\ \E j \in DOMAIN i.cs :
       LET c == i.cs[j] k == LabelLvl(s, c.label)
       IN Len(LabelTys(f, s, k)) #
            Carried(c, IF c.kind <= 1 THEN TagTys[c.tag] ELSE <<>>)

\* a catch label outside another try_table of the same function
CrossesTry(s, i) ==
  /\ i.op = "try_table"
  /\ \E j \in DOMAIN i.cs :
       \E k \in LabelLvl(s, i.cs[j].label) + 1 .. Len(s.ctrl) :
         s.ctrl[k].op = "try_table"

\* a loop or an if at a nesting level whose last block was a try_table
StaleTry(s, i) == i.op \in {"loop", "if"} /\ s.is_try[Len(s.ctrl) + 1]

\* a jump to the end of a try_table whose body ends in dead code
JumpsTo(f, pc, k) ==
  LET i == code[f][pc] s == snap[f][pc]
  IN \/ i.op \in {"br", "br_if", "br_table"} /\ LabelLvl(s, i.n) = k
     \/ i.op = "br_table" /\ LabelLvl(s, 0) = k
     \/ i.op = "try_table" /\
          \E j \in DOMAIN i.cs : LabelLvl(s, i.cs[j].label) = k
DeadTryEnd(f, s, pc) ==
  /\ code[f][pc].op = "end" /\ s.skip = 0 /\ s.ctrl # <<>>
  /\ LET b == s.ctrl[Len(s.ctrl)]
     IN /\ b.op = "try_table"
        /\ \E q \in b.blk + 1 .. pc - 1 :
             snap[f][q].skip = -1 /\ JumpsTo(f, q, Len(s.ctrl))

\* a catch_all clause while some tag has a payload
AllPayload(i) ==
  /\ i.op = "try_table"
  /\ \E j \in DOMAIN i.cs : i.cs[j].kind >= 2
  /\ \E t \in Tags : TagTys[t] # <<>>

JitShapes(f, pc) ==
  LET s == snap[f][pc] i == code[f][pc] live == s.skip = -1
  IN {x \in {"crosses_try", "stale_try", "dead_try_end", "all_payload", "popcnt"} :
        \/ x = "crosses_try" /\ live /\ CrossesTry(s, i)
        \/ x = "stale_try" /\ live /\ StaleTry(s, i)
        \/ x = "all_payload" /\ live /\ AllPayload(i)
        \/ x = "popcnt" /\ live /\ i.op = "popcnt"   \* leaves 1 in x0
        \/ x = "dead_try_end" /\ DeadTryEnd(f, s, pc)}
HasJitShape(f) == \E pc \in 1 .. Len(code[f]) : ~(JitShapes(f, pc) \subseteq Shapes)

----------------------------------------------------------------------------
ProgInit ==
  /\ code = [f \in Funcs |-> <<>>]
  /\ end_idx = [f \in Funcs |-> <<>>]
  /\ snap = [f \in Funcs |-> <<InitSnap>>]
  /\ jit = [f \in Funcs |-> FALSE]
  /\ built = FALSE

\* one more instruction of the first incomplete function
Emit(f, i) ==
  LET s == Cur(f) pc == Len(code[f]) + 1
      minLeft == Len(s.ctrl) + (IF s.skip > 0 THEN s.skip ELSE 0) + 1
  IN /\ ~built /\ ~s.closed
     /\ \A g \in 1 .. f - 1 : Cur(g).closed
     /\ IF s.skip >= 0 THEN ValidDead(i) ELSE ValidLive(f, s, i)
     /\ i.op \in Openers => Len(s.ctrl) < MaxNest
     \* the ends still owed must fit the bound
     /\ Len(code[f]) + minLeft +
          (IF i.op = "end" THEN 0 ELSE IF i.op \in Openers THEN 2 ELSE 1)
          <= MaxLen[f]
     /\ s.skip = -1 /\ WideLabel(f, s, i) => "wide_label" \in Shapes
     /\ code' = [code EXCEPT ![f] = Append(@, i)]
     /\ end_idx' = [end_idx EXCEPT ![f] = EndIdxAfter(f, s, i, pc)]
     /\ snap' = [snap EXCEPT ![f] = Append(@, NextSnap(f, s, i, pc))]
     /\ UNCHANGED <<jit, built>>

\* the throw fast path applies: the innermost level flagged is_try has one
\* clause, a catch of this tag or a catch_all
FastLvl(s) ==
  LET K == {k \in 1 .. Len(s.ctrl) : s.is_try[k]}
  IN IF K = {} THEN 0 ELSE CHOOSE k \in K : \A j \in K : j <= k
FastThrow(f, s, t) ==
  LET k == FastLvl(s)
  IN /\ k # 0
     /\ LET cs == code[f][s.ctrl[k].blk].cs
        IN Len(cs) = 1 /\ (cs[1].kind = 2 \/ (cs[1].kind = 0 /\ cs[1].tag = t))

\* compile_one_function can succeed: call_ref is not lowered, and a fast-path
\* throw to the function label leaves an unresolved fixup (insn_at[n_pc])
Compiles(f) ==
  \A pc \in 1 .. Len(code[f]) :
    snap[f][pc].skip = -1 =>
      /\ code[f][pc].op # "call_ref"
      /\ code[f][pc].op = "throw" /\ FastThrow(f, snap[f][pc], code[f][pc].t) =>
           LET s == snap[f][pc] k == FastLvl(s)
           IN code[f][s.ctrl[k].blk].cs[1].label < k - 1

\* ea_jit_compile_module: a function that bails stays interpreted
Publish(J) ==
  /\ ~built /\ \A f \in Funcs : Cur(f).closed
  /\ \A f \in J : Compiles(f) /\ ~HasJitShape(f)
  /\ jit' = [f \in Funcs |-> f \in J]
  /\ built' = TRUE
  /\ UNCHANGED <<code, end_idx, snap>>

ProgNext == \/ \E f \in Funcs : \E i \in Instrs[f] : Emit(f, i)
            \/ \E J \in JitChoices : Publish(J)
=============================================================================
