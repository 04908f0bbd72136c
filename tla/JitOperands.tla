----------------------------- MODULE JitOperands -----------------------------
(***************************************************************************)
(* Where the AArch64 JIT keeps operands and locals (jit_a64.c): physical   *)
(* slots, the fusion window (x16, x17, x19, v1), references to cached      *)
(* locals, FP pushes above them, flags, and the register cache of locals   *)
(* with its two-pass warm loops.                                           *)
(*                                                                         *)
(* A program is built instruction by instruction, translated into abstract *)
(* machine instructions by one iteration of the compile loop per step,     *)
(* executed once by the WebAssembly rules and once as generated code.      *)
(* Values are terms, so no two computations can be confused; both          *)
(* executions log what can be observed: conditions of branches, stores,    *)
(* calls and results.                                                      *)
(*                                                                         *)
(* sub stands for the integer operations that fuse, cmp for the            *)
(* comparisons, load, fload, store, fstore and fsub for the integer and    *)
(* float loads, stores and operations, fill for the bulk memory helpers;   *)
(* rot, ext, eqz, conv, fneg, fcmp and trunc for the operations that never *)
(* find their operands in the window.                                      *)
(* Widths, v128, br_table and unreachable code are left out.               *)
(*                                                                         *)
(* Some programs are known to be translated wrongly.  A translation that   *)
(* meets one of these situations is abandoned unless Uses names it:        *)
(*   "endjoin"  code is emitted between the label of an end and the end    *)
(*   "fpush"    references are spilled above float pushes                  *)
(*   "fset"     a float result is stored to a local with references to it, *)
(*              or takes the register of one                               *)
(*   "thrash"   a warm loop gives up a register it thinks clean            *)
(*   "bulk"     memory.fill, copy or init                                  *)
(***************************************************************************)
EXTENDS Integers, Sequences, SequencesExt, FiniteSets, FiniteSetsExt, TLC

CONSTANTS
  Menus,       \* what programs are made of: [pre, items, len, post, cache]
  LocalType,   \* the type of each local, "i" or "f"
  CacheSlots,  \* EA_CACHE_SLOTS: 6
  MaxCrefs,    \* length of cref_local: 4
  MaxBranches, \* bound on the branches taken in an execution
  Uses,
  None

ASSUME OperandBounds ==
  /\ CacheSlots \in Nat \ {0} /\ MaxCrefs \in Nat \ {0} /\ MaxBranches \in Nat
  /\ Uses \subseteq {"endjoin", "fpush", "fset", "thrash", "bulk"}
  /\ \A m \in Menus : DOMAIN m = {"pre", "items", "len", "post", "cache"}

VARIABLES
  menu,    \* first instructions, building blocks, their number, last instructions
  phase,   \* build, compile, refer, run, done, left
  code,    \* the program
  build,   \* types of the operands, open blocks, instructions to append
  jc,      \* JC, the state of the compiler
  ref,     \* execution by the WebAssembly rules
  mach     \* execution of the generated code

vars == <<menu, phase, code, build, jc, ref, mach>>

X0 == 8
X16 == 16
X17 == 17
X19 == 19
V0 == 0
V1 == 1
Slots == 0 .. CacheSlots - 1
ea_cache_reg(i) == X19 + i
Nowhere == 99            \* what is read before the array ea_cache_reg
Scratch == {X0, X16, X17, V0, V1, Nowhere}
Regs == Scratch \cup {X19} \cup {ea_cache_reg(i) : i \in Slots}

Locals == DOMAIN LocalType
n == Len(code)
Op(pc) == IF pc \in 1 .. n THEN code[pc].op ELSE "none"

cache_on == menu.cache

----------------------------------------------------------------------------
(* Programs.                                                               *)

\* operands taken and given; "l" is the type of the local
Sig ==
  [const |-> <<<<>>, <<"i">>>>,           get    |-> <<<<>>, <<"l">>>>,
   set   |-> <<<<"l">>, <<>>>>,           tee    |-> <<<<"l">>, <<"l">>>>,
   sub   |-> <<<<"i", "i">>, <<"i">>>>,   cmp    |-> <<<<"i", "i">>, <<"i">>>>,
   load  |-> <<<<"i">>, <<"i">>>>,        fload  |-> <<<<"i">>, <<"f">>>>,
   store |-> <<<<"i", "i">>, <<>>>>,      fstore |-> <<<<"i", "f">>, <<>>>>,
   fsub  |-> <<<<"f", "f">>, <<"f">>>>,   sel    |-> <<<<"i", "i", "i">>, <<"i">>>>,
   rot   |-> <<<<"i", "i">>, <<"i">>>>,   fcmp   |-> <<<<"f", "f">>, <<"i">>>>,
   ext   |-> <<<<"i">>, <<"i">>>>,        eqz    |-> <<<<"i">>, <<"i">>>>,
   conv  |-> <<<<"i">>, <<"f">>>>,        trunc  |-> <<<<"f">>, <<"i">>>>,
   fneg  |-> <<<<"f">>, <<"f">>>>,
   drop  |-> <<<<"i">>, <<>>>>,           call   |-> <<<<"i">>, <<"i">>>>,
   grow  |-> <<<<"i">>, <<"i">>>>,        fill   |-> <<<<"i", "i", "i">>, <<>>>>,
   block |-> <<<<>>, <<>>>>,              loop   |-> <<<<>>, <<>>>>,
   if    |-> <<<<"i">>, <<>>>>,           else   |-> <<<<>>, <<>>>>,
   end   |-> <<<<>>, <<>>>>,              brif   |-> <<<<"i">>, <<>>>>,
   fend  |-> <<<<>>, <<>>>>]

Openers == {"block", "loop", "if"}
Typed(ts, k) == [i \in DOMAIN ts |-> IF ts[i] = "l" THEN LocalType[k] ELSE ts[i]]
Takes(i) == Typed(Sig[i.op][1], i.n)
Gives(i) == Typed(Sig[i.op][2], i.n)
FrontN(s, k) == SubSeq(s, 1, Len(s) - k)
LastN(s, k) == SubSeq(s, Len(s) - k + 1, Len(s))
Opener == Last(build.ctl)
Label(l) == build.ctl[Len(build.ctl) - l]

\* validation of the next instruction; n is a local, a constant, a label or,
\* for block and if, the number of results
Fits(i) ==
  LET below == FrontN(build.types, Len(Takes(i)))
      floor == IF build.ctl = <<>> THEN 0 ELSE code[Opener].depth
  IN  /\ IsSuffix(Takes(i), build.types) /\ Len(below) >= floor
      /\ i.op = "brif" => (/\ i.n < Len(build.ctl)
                           /\ Len(below) >= floor + code[Label(i.n)].res
                           /\ code[Label(i.n)].res = 1 => Last(below) = "i")
      /\ i.op \in {"else", "end"} => (/\ build.ctl # <<>>
                                      /\ Len(below) = floor + code[Opener].res
                                      /\ code[Opener].res = 1 => Last(below) = "i")
      /\ i.op = "else" => (code[Opener].op = "if" /\ code[Opener].els = None)
      /\ i.op = "fend" => build.ctl = <<>>
      /\ i.op = "end" => (code[Opener].op # "if" \/ code[Opener].res = 0 \/ code[Opener].els # None)

\* what the predecoder records: end_idx, else_idx, arity, height, depth
Decoded(i) ==
  [op |-> i.op, n |-> i.n, end |-> None, els |-> None,
   res |-> IF i.op \in {"block", "if"} THEN i.n ELSE 0,
   to |-> CASE i.op = "brif" -> Label(i.n) [] i.op \in {"else", "end"} -> Opener [] OTHER -> None,
   depth |-> Len(build.types) - (IF i.op = "if" THEN 1 ELSE 0)]

Append1 ==
  /\ phase = "build" /\ build.todo # <<>>
  /\ LET i   == Head(build.todo)
         all == Append(code, Decoded(i))
         pc  == n + 1
     IN  /\ Fits(i)
         /\ code' = CASE i.op = "end" -> [all EXCEPT ![Opener].end = pc]
                      [] i.op = "else" -> [all EXCEPT ![Opener].els = pc]
                      [] OTHER -> all
         /\ build' = [build EXCEPT
              !.types = IF i.op = "else" THEN SubSeq(@, 1, code[Opener].depth)
                        ELSE FrontN(@, Len(Takes(i))) \o Gives(i),
              !.ctl = IF i.op \in Openers THEN Append(@, pc)
                      ELSE IF i.op = "end" THEN Front(@) ELSE @,
              !.todo = Tail(@)]
  /\ UNCHANGED <<menu, phase, jc, ref, mach>>

\* blocks that can still be closed
Closable == menu.len - build.count + Len(SelectSeq(menu.post, LAMBDA i : i.op = "end"))

Choose ==
  /\ phase = "build" /\ build.todo = <<>> /\ build.count < menu.len
  /\ Len(build.ctl) <= Closable
  /\ \E item \in menu.items : build' = [build EXCEPT !.todo = item, !.count = @ + 1]
  /\ UNCHANGED <<menu, phase, code, jc, ref, mach>>

\* the last instruction is the function's end
Close ==
  /\ phase = "build" /\ build.todo = <<>> /\ build.count = menu.len
  /\ build' = [build EXCEPT !.todo = Append(menu.post, [op |-> "fend", n |-> 0]), !.count = @ + 1]
  /\ UNCHANGED <<menu, phase, code, jc, ref, mach>>

----------------------------------------------------------------------------
(* Operand-stack primitives.  c is JC; em holds machine instructions.      *)

Emit(c, i) == [c EXCEPT !.em = Append(@, i)]
EmitAll(c, s) == [c EXCEPT !.em = @ \o s]
Meets(c, cond, what) == IF cond THEN [c EXCEPT !.known = @ \cup {what}] ELSE c

local_cached_slot(c, k) ==
  IF \E i \in Slots : c.map[i] = k THEN CHOOSE i \in Slots : c.map[i] = k ELSE None

cref_reg(c, k) ==
  LET i == local_cached_slot(c, k) IN IF i = None THEN Nowhere ELSE ea_cache_reg(i)

spill_crefs(c) ==
  LET s == Meets(c, c.crefs # <<>> /\ c.nf > 0, "fpush")
  IN  [s EXCEPT !.em = @ \o [i \in DOMAIN c.crefs |-> <<"push", cref_reg(c, c.crefs[i])>>],
                !.crefs = <<>>, !.nf = 0]

cref_conflict_none(c, k) == FALSE
cref_conflict_any(c, k) == k \in Range(c.crefs)

push_cref(c, k) ==
  LET s == IF Len(c.crefs) >= MaxCrefs THEN spill_crefs(c) ELSE c
  IN  [s EXCEPT !.crefs = Append(@, k)]

push_x(c, r) == Emit(IF c.crefs # <<>> THEN spill_crefs(c) ELSE c, <<"push", r>>)

pop_x(c, r) ==
  IF c.crefs # <<>>
  THEN Emit([c EXCEPT !.crefs = Front(@)], <<"mov", r, cref_reg(c, Last(c.crefs))>>)
  ELSE Emit(c, <<"pop", r>>)

push_d(c, v) ==
  Emit(IF c.crefs # <<>> THEN [c EXCEPT !.nf = @ + 1] ELSE c, <<"push", v>>)

pop_d(c, v) ==
  IF c.nf > 0 THEN Emit([c EXCEPT !.nf = @ - 1], <<"pop", v>>) ELSE pop_x(c, v)

----------------------------------------------------------------------------
(* When a value may wait in the fusion window.                             *)

int_consumes(op) == op \in {"sub", "cmp"}
float_consumes(op) == op = "fsub"
load_consumes(op) == op \in {"load", "fload"}
def_consumes(op) == int_consumes(op) \/ float_consumes(op) \/ load_consumes(op) \/ op = "fstore"
is_def_producer(op) == op \in {"const", "get"}

is_target(pc) ==
  \/ pc = n + 1
  \/ Op(pc) = "end"
  \/ Op(pc - 1) \in {"loop", "else"}

Reachable(pc) == is_target(pc) \/ is_target(pc - 1)

defer1_possible(pc) == ~Reachable(pc) /\ ~is_target(pc + 1) /\ def_consumes(Op(pc + 1))

PairNext(pc) ==
  /\ ~is_target(pc + 1) /\ ~is_target(pc + 2)
  /\ is_def_producer(Op(pc + 1)) /\ def_consumes(Op(pc + 2))

defer2_possible(pc) == ~Reachable(pc) /\ PairNext(pc)

defer3_possible(pc) ==
  /\ ~Reachable(pc)
  /\ \A i \in 1 .. 3 : ~is_target(pc + i)
  /\ is_def_producer(Op(pc + 1)) /\ is_def_producer(Op(pc + 2)) /\ int_consumes(Op(pc + 3))

defer2_possible_head(c, pc) == c.wl.pass = 2 /\ PairNext(pc)

def2_producer_ok(i) == i.op = "const" \/ (i.op = "get" /\ LocalType[i.n] = "i")

First(c) == IF c.r0 = None THEN X16 ELSE c.r0
Second(c) == IF c.r1 = None THEN X17 ELSE c.r1

flush_deferredTop(c) ==
  IF c.dc = 0 THEN spill_crefs(c)
  ELSE [Emit(spill_crefs(c), <<"push", IF c.k1 = "d" THEN V1 ELSE Second(c)>>) EXCEPT
          !.r0 = None, !.r1 = None, !.bimm = None, !.dc = 0, !.first = FALSE]

flush_deferred(c) ==
  LET s == spill_crefs(c)
      t == IF s.d2 THEN [Emit(s, <<"push", X19>>) EXCEPT !.d2 = FALSE] ELSE s
      w == (IF c.dc = 2 /\ c.bimm # None THEN <<<<"imm", X17, c.bimm>>>> ELSE <<>>)
           \o (IF c.dc = 2 THEN <<<<"push", First(c)>>>> ELSE <<>>)
           \o <<<<"push", IF c.k1 = "d" THEN V1 ELSE Second(c)>>>>
  IN  IF c.dc = 0 THEN [t EXCEPT !.r0 = None, !.r1 = None]
      ELSE [EmitAll(t, w) EXCEPT !.r0 = None, !.r1 = None, !.bimm = None, !.dc = 0,
                                 !.first = FALSE, !.cc = FALSE, !.skip = FALSE]

\* both operands of an integer operation: the registers a and b, or an immediate
pop_pair(c) ==
  LET got(s, a, b, imm) == [c |-> s, a |-> a, b |-> b, imm |-> imm]
      top(s, r) == IF s.crefs # <<>>
                   THEN <<[s EXCEPT !.crefs = Front(@)], cref_reg(s, Last(s.crefs))>>
                   ELSE <<pop_x(s, r), r>>
  IN  CASE c.d2 /\ c.dc < 2 ->
             LET s == Emit([c EXCEPT !.d2 = FALSE], <<"mov", X16, X19>>)
             IN  got(IF c.dc = 1 THEN [s EXCEPT !.dc = 0] ELSE pop_x(s, X17), X16, X17, None)
        [] c.dc = 2 ->
             got([c EXCEPT !.dc = 0, !.r0 = None, !.r1 = None, !.bimm = None],
                 First(c), IF c.bimm # None THEN X17 ELSE Second(c), c.bimm)
        [] c.dc = 1 /\ ~c.d2 ->
             LET a == top([c EXCEPT !.dc = 0], X16) IN got(a[1], a[2], X17, None)
        [] OTHER ->
             LET b == top(c, X17)
                 a == top(b[1], X16)
             IN  got(a[1], a[2], b[2], None)

----------------------------------------------------------------------------
(* The register cache of locals.                                           *)

Asc(S) == SetToSortSeq(S, <)
WriteBack(c, S) == LET s == Asc(S) IN [j \in DOMAIN s |-> <<"stl", ea_cache_reg(s[j]), c.map[s[j]]>>]
Cached(c) == {i \in Slots : c.map[i] # None}
Wanted(c, i) == c.map[i] \in Range(c.wl.want)

flush_cacheStillDirty(c) ==
  [EmitAll(spill_crefs(c), WriteBack(c, Cached(c) \cap c.dirty)) EXCEPT !.map = [i \in Slots |-> None]]

flush_cache(c) ==
  LET s   == spill_crefs(c)
      out == {i \in Cached(c) : i \in c.dirty \/ (c.wl.pass = 2 /\ Wanted(c, i))}
  IN  [EmitAll(s, WriteBack(c, out)) EXCEPT !.map = [i \in Slots |-> None], !.dirty = {}]

load_local_val(c, r, k) ==
  LET i == local_cached_slot(c, k)
  IN  IF cache_on /\ i # None THEN Emit(c, <<"mov", r, ea_cache_reg(i)>>)
      ELSE Emit(c, <<"ldl", r, k>>)

\* a free slot, else a clean one from the clock on, else the clock's, written back
Victim(c) ==
  LET free  == Slots \ Cached(c)
      turn(i) == (c.clock + i) % CacheSlots
      clean == {i \in Slots : turn(i) \notin c.dirty}
  IN  IF free # {} THEN Min(free)
      ELSE IF clean # {} THEN turn(Min(clean)) ELSE turn(0)

set_local_valClean(c, k, r) ==
  LET i == local_cached_slot(c, k)
      s == IF i # None THEN i ELSE Victim(c)
  IN  IF ~cache_on THEN Emit(c, <<"stl", r, k>>)
      ELSE [Emit(c, <<"mov", ea_cache_reg(s), r>>) EXCEPT !.map[s] = k]

set_local_val(c, k, r) ==
  LET i == local_cached_slot(c, k)
      s == IF i # None THEN i ELSE Victim(c)
      t == Meets(c, /\ i = None /\ s \in Cached(c) \ c.dirty
                    /\ c.wl.pass = 2 /\ Wanted(c, s), "thrash")
      out == IF i = None /\ s \in Cached(c) \cap c.dirty THEN WriteBack(c, {s}) ELSE <<>>
  IN  IF ~cache_on THEN Emit(c, <<"stl", r, k>>)
      ELSE [Emit(EmitAll(t, out), <<"mov", ea_cache_reg(s), r>>) EXCEPT
              !.map[s] = k, !.dirty = @ \cup {s},
              !.clock = IF i = None THEN s + 1 ELSE @]

\* a branch back to the head of a warm loop
warm_backedge(c) ==
  LET body == SubSeq(code, c.wl.head, c.wl.end - 1)
      used == [j \in DOMAIN body |-> IF body[j].op \in {"get", "set", "tee"} THEN body[j].n ELSE None]
      note(w, k) == IF k = None \/ k \in Range(w) \/ Len(w) >= CacheSlots THEN w ELSE Append(w, k)
      gone == {i \in Cached(c) : ~Wanted(c, i)}
      kept == [EmitAll(c, WriteBack(c, gone \cap c.dirty)) EXCEPT
                 !.map = [i \in Slots |-> IF i \in gone THEN None ELSE @[i]], !.dirty = @ \ gone]
      pin(s, k, j) ==                         \* want[j] goes to slot j - 1
        LET to  == j - 1
            cur == local_cached_slot(s, k)
            out == EmitAll(s, IF to \in Cached(s) \cap s.dirty THEN WriteBack(s, {to}) ELSE <<>>)
        IN  IF cur = to THEN s
            ELSE IF cur # None
            THEN [Emit(out, <<"mov", ea_cache_reg(to), ea_cache_reg(cur)>>) EXCEPT
                    !.map = [@ EXCEPT ![to] = k, ![cur] = None],
                    !.dirty = IF cur \in @ THEN (@ \ {cur}) \cup {to} ELSE @]
            ELSE [Emit(out, <<"ldl", ea_cache_reg(to), k>>) EXCEPT !.map[to] = k, !.dirty = @ \ {to}]
  IN  IF c.wl.pass = 1
      THEN flush_cache([c EXCEPT !.wl.want = FoldLeft(note, <<>>, used)])
      ELSE FoldLeft(LAMBDA s, j : pin(s, c.wl.want[j], j), kept, [j \in DOMAIN c.wl.want |-> j])

----------------------------------------------------------------------------
(* Results, fused with the instruction that consumes them.                 *)

Fused(c, ops) == ~is_target(c.pc + 1) /\ Op(c.pc + 1) \in ops

\* where an integer operation computes: x17, the register of the local that
\* the next instruction sets (its slot is place), or x16
binop_dst(c) ==
  LET k    == code[c.pc + 1].n
      i    == local_cached_slot(c, k)
      kept == FrontN(c.crefs, IF c.dc = 2 THEN 0 ELSE Min({Len(c.crefs), 2 - c.dc}))
  IN  IF Fused(c, {"sub", "cmp"}) THEN [d |-> X17, place |-> None]
      ELSE IF cache_on /\ Fused(c, {"set", "tee"}) /\ i # None /\ k \notin Range(kept)
      THEN [d |-> ea_cache_reg(i), place |-> i]
      ELSE [d |-> X16, place |-> None]

in_place_finish(c, i) == [c EXCEPT !.dirty = @ \cup {i}, !.skip = TRUE]

\* an integer result in register d.d
push_result(c, d) ==
  LET k   == code[c.pc + 1].n
      set == Fused(c, {"set", "tee"})
      s   == IF set /\ c.d2 THEN flush_deferred(c) ELSE c
      t   == IF set /\ s.crefs # <<>> /\ (cref_conflict_any(s, k) \/ local_cached_slot(s, k) = None)
             THEN flush_deferred(s) ELSE s
      stored == IF d.place # None THEN in_place_finish(t, d.place)
                ELSE [set_local_val(t, k, X16) EXCEPT !.skip = TRUE]
  IN  CASE Fused(c, {"set"}) -> stored
        [] Fused(c, {"tee"}) -> IF d.place # None THEN push_cref(stored, k) ELSE push_x(stored, X16)
        [] Fused(c, {"sub", "cmp", "load", "fload"}) ->
             [(IF d.d = X17 THEN c ELSE Emit(c, <<"mov", X17, X16>>)) EXCEPT
                !.k1 = "x", !.dc = 1, !.first = FALSE]
        [] ~is_target(c.pc + 1) /\ c.dc = 0 /\ ~c.d2 /\ ~cache_on /\ c.wl.pass = 0
           /\ defer3_possible(c.pc) ->
             [Emit(c, <<"mov", X19, X16>>) EXCEPT !.d2 = TRUE]
        [] OTHER ->
             IF c.dc = 0 /\ ~c.d2 /\ defer2_possible(c.pc)
             THEN [c EXCEPT !.dc = 1, !.first = TRUE, !.r0 = None]
             ELSE push_x(IF c.d2 THEN flush_deferred(c) ELSE c, X16)

\* a float result in v0
push_result_f(c) ==
  LET k == code[c.pc + 1].n
      i == local_cached_slot(c, k)
      s == IF cache_on /\ i # None
           THEN [Emit(c, <<"mov", ea_cache_reg(i), V0>>) EXCEPT !.dirty = @ \cup {i}]
           ELSE set_local_val(Emit(c, <<"mov", X16, V0>>), k, X16)
  IN  CASE Fused(c, {"set"}) ->
             Meets([s EXCEPT !.skip = TRUE],
                   cref_conflict_any(c, k) \/ \E r \in Range(c.crefs) : local_cached_slot(s, r) = None,
                   "fset")
        [] Fused(c, {"fsub", "fstore"}) ->
             [Emit(c, <<"mov", V1, V0>>) EXCEPT !.k1 = "d", !.dc = 1, !.first = FALSE]
        [] OTHER -> push_d(c, V0)

brif_next(c) == Fused(c, {"brif"}) /\ ~is_target(c.pc)

cmp_result(c) ==
  IF brif_next(c) THEN [c EXCEPT !.cc = TRUE]
  ELSE LET s == Emit(c, <<"cset", X16>>) IN push_x(IF s.d2 THEN flush_deferred(s) ELSE s, X16)

----------------------------------------------------------------------------
(* One instruction.                                                        *)

park_pair_first(c, k) ==
  LET i == local_cached_slot(c, k)
      hit == cache_on /\ i # None
  IN  [(IF hit THEN c ELSE load_local_val(c, X16, k)) EXCEPT
         !.r0 = IF hit THEN ea_cache_reg(i) ELSE None, !.dc = 1, !.first = TRUE]

park_pair_second(c, k) ==
  LET i == local_cached_slot(c, k)
      hit == cache_on /\ i # None
  IN  [(IF hit THEN c ELSE load_local_val(c, X17, k)) EXCEPT
         !.r1 = IF hit THEN ea_cache_reg(i) ELSE None, !.k1 = "x", !.dc = 2, !.first = FALSE]

LocalGet(c, i) ==
  LET pc == c.pc
      cached == local_cached_slot(c, i.n) # None
  IN  CASE c.dc = 1 /\ c.first -> park_pair_second(c, i.n)
        [] c.dc = 0 /\ c.d2 /\ def2_producer_ok(i) /\ defer2_possible(pc) -> park_pair_first(c, i.n)
        [] c.dc = 0 /\ defer1_possible(pc) ->
             [load_local_val(c, X17, i.n) EXCEPT !.k1 = "x", !.dc = 1]
        [] c.dc = 0 /\ (defer2_possible(pc) \/ (cached /\ defer2_possible_head(c, pc))) ->
             park_pair_first(c, i.n)
        [] OTHER -> IF cache_on /\ Len(c.crefs) < MaxCrefs /\ cached
                    THEN [c EXCEPT !.crefs = Append(@, i.n)]
                    ELSE push_x(load_local_val(c, X16, i.n), X16)

Const(c, i) ==
  LET pc == c.pc IN
  CASE c.dc = 1 /\ c.first ->
         LET fold == Op(pc + 1) = "sub"          \* the operations with an immediate form
         IN  [(IF fold THEN c ELSE Emit(c, <<"imm", X17, i.n>>)) EXCEPT
                !.bimm = IF fold THEN i.n ELSE None, !.r1 = None, !.k1 = "w", !.dc = 2, !.first = FALSE]
    [] c.dc = 0 /\ ~(c.d2 /\ defer2_possible(pc)) /\ defer1_possible(pc) ->
         [Emit(c, <<"imm", X17, i.n>>) EXCEPT !.k1 = "w", !.dc = 1]
    [] c.dc = 0 /\ defer2_possible(pc) ->
         [Emit(c, <<"imm", X16, i.n>>) EXCEPT !.dc = 1, !.first = TRUE]
    [] OTHER -> push_x(Emit(c, <<"imm", X16, i.n>>), X16)

IntOp(c) ==
  LET d == binop_dst(c)
      p == pop_pair(c)
      i == IF p.imm # None THEN <<"subi", d.d, p.a, p.imm>> ELSE <<"sub", d.d, p.a, p.b>>
  IN  push_result(Emit(p.c, i), d)

Compare(c) == LET p == pop_pair(c) IN cmp_result(Emit(p.c, <<"cmp", p.a, p.b>>))

emit_load(c, op) ==
  LET s == IF c.dc = 1 /\ c.k1 = "x" THEN Emit([c EXCEPT !.dc = 0], <<"mov", X16, X17>>)
           ELSE pop_x(IF c.dc > 0 THEN flush_deferred(c) ELSE c, X16)
  IN  IF op = "fload" THEN push_result_f(Emit(s, <<"load", V0, X16, op>>))
      ELSE push_result(Emit(s, <<"load", X16, X16, op>>), [d |-> X16, place |-> None])

emit_fstore(c) ==
  LET parked == c.dc = 1 /\ c.k1 = "d"
      s == IF parked THEN [c EXCEPT !.dc = 0]
           ELSE pop_d(IF c.dc > 0 THEN flush_deferred(c) ELSE c, V0)
  IN  Emit(pop_x(s, X16), <<"store", X16, IF parked THEN V1 ELSE V0>>)

emit_f_bin(c) ==
  LET s == IF c.dc = 1 /\ c.k1 = "d" THEN pop_d([c EXCEPT !.dc = 0], V0)
           ELSE pop_d(pop_d(flush_deferred(c), V1), V0)
  IN  push_result_f(Emit(s, <<"fsub", V0, V0, V1>>))

\* rotations, division, copysign: both operands from the stack
Rotate(c) == push_x(Emit(pop_x(pop_x(c, X17), X16), <<"rot", X16, X16, X17>>), X16)

\* counts, extensions, conversions from integers; eqz
Extend(c, op) == push_x(Emit(pop_x(c, X16), <<"un", X16, X16, op>>), X16)
Eqz(c) == cmp_result(Emit(pop_x(c, X16), <<"eqz", X16>>))

FloatUnary(c) == push_d(Emit(pop_d(c, V0), <<"un", V0, V0, "fneg">>), V0)

emit_fcmp(c) == cmp_result(Emit(pop_d(pop_d(flush_deferred(c), V1), V0), <<"fcmp", V0, V1>>))

\* a helper of the C run time, in x0 out x0
emit_trunc(c) == push_x(Emit(pop_x(c, X0), <<"help", "trunc">>), X0)

IsLoop(pc) == code[pc].op = "loop"
TargetPc(o) == IF IsLoop(o) THEN o + 1 ELSE code[o].end

Loop(c) ==
  LET leaf == ~\E q \in c.pc + 1 .. code[c.pc].end : Op(q) = "loop"
  IN  IF c.wl.pass = 0 /\ cache_on /\ leaf
      THEN [c EXCEPT !.wl = [pass |-> 1, head |-> c.pc + 1, end |-> code[c.pc].end,
                             em0 |-> Len(c.em), want |-> <<>>]]
      ELSE c

\* the end of a warm loop's first pass discards the body and starts the second
End(c) ==
  LET w == c.wl
      at == [j \in DOMAIN w.want |-> <<"ldl", ea_cache_reg(j - 1), w.want[j]>>]
  IN  IF w.pass = 0 \/ c.pc # w.end THEN c
      ELSE IF w.pass = 1 /\ w.want # <<>>
      THEN [c EXCEPT !.em = SubSeq(@, 1, w.em0) \o at,
                     !.map = [i \in Slots |-> IF i < Len(w.want) THEN w.want[i + 1] ELSE @[i]],
                     !.dirty = {}, !.wl.pass = 2, !.pc = w.head - 1]
      ELSE [c EXCEPT !.wl.pass = 0]

\* moves the top arity slots so that they end at target_depth
emit_br_to(c, cur, target_depth, arity) == Emit(c, <<"carry", arity, cur - target_depth>>)

BrIf(c, i) ==
  LET tpc == TargetPc(i.to)
      ar  == code[i.to].res
      s   == IF c.wl.pass # 0 /\ tpc = c.wl.head THEN warm_backedge(c) ELSE flush_cache(c)
      t   == IF s.cc THEN [s EXCEPT !.cc = FALSE] ELSE Emit(pop_x(s, X16), <<"test", X16>>)
      u   == emit_br_to(Emit(t, <<"bz", c.pc + 1>>), i.depth - 1, code[i.to].depth + ar, ar)
  IN  Emit(u, <<"b", tpc>>)

If(c, i) ==
  EmitAll(pop_x(c, X16), <<<<"test", X16>>, <<"bz", IF i.els # None THEN i.els + 1 ELSE i.end>>>>)
Else(c, i) == Emit(c, <<"b", code[i.to].end>>)

LocalSet(c, k) == set_local_val(pop_x(c, X16), k, X16)
LocalTee(c, k) == set_local_val(Emit(c, <<"peek", X16>>), k, X16)
Drop(c) == Emit(c, <<"drop">>)
Select(c) == push_x(Emit(pop_x(pop_x(pop_x(c, X16), X17), X0), <<"csel">>), X17)
IntStore(c) == Emit(pop_x(pop_x(c, X17), X16), <<"store", X16, X17>>)

\* a helper takes its operands from the stack and returns the new stack pointer
emit_helper3(c, op) == Meets(Emit(c, <<op>>), op = "fill", "bulk")
call_static(c) == Emit(c, <<"call">>)

Translate(c, i) ==
  CASE i.op = "const" -> Const(c, i)
    [] i.op = "get" -> LocalGet(c, i)
    [] i.op = "set" -> LocalSet(c, i.n)
    [] i.op = "tee" -> LocalTee(c, i.n)
    [] i.op = "sub" -> IntOp(c)
    [] i.op = "cmp" -> Compare(c)
    [] i.op \in {"load", "fload"} -> emit_load(c, i.op)
    [] i.op = "store" -> IntStore(c)
    [] i.op = "fstore" -> emit_fstore(c)
    [] i.op = "fsub" -> emit_f_bin(c)
    [] i.op = "rot" -> Rotate(c)
    [] i.op \in {"ext", "conv"} -> Extend(c, i.op)
    [] i.op = "eqz" -> Eqz(c)
    [] i.op = "fneg" -> FloatUnary(c)
    [] i.op = "fcmp" -> emit_fcmp(c)
    [] i.op = "trunc" -> emit_trunc(c)
    [] i.op = "sel" -> Select(c)
    [] i.op = "drop" -> Drop(c)
    [] i.op = "call" -> call_static(c)
    [] i.op \in {"grow", "fill"} -> emit_helper3(c, i.op)
    [] i.op = "loop" -> Loop(c)
    [] i.op = "if" -> If(c, i)
    [] i.op = "else" -> Else(c, i)
    [] i.op = "end" -> End(c)
    [] i.op \in {"block", "fend"} -> c
    [] i.op = "brif" -> BrIf(c, i)

\* may what waits in the window stay there while i is translated?
Keep(c, i) ==
  LET pc == c.pc
      triple == c.dc = 0 /\ def2_producer_ok(i) /\ defer2_possible(pc)
      second == c.dc = 1 /\ c.first /\ is_def_producer(i.op)
                /\ (\/ defer1_possible(pc)
                    \/ /\ c.wl.pass = 2 /\ ~is_target(pc) /\ ~is_target(pc + 1)
                       /\ def_consumes(Op(pc + 1)))
  IN  /\ \/ def_consumes(i.op)
         \/ cache_on /\ i.op = "get" /\ local_cached_slot(c, i.n) # None
         \/ second
         \/ c.d2 /\ triple
      /\ c.d2 => (\/ triple
                  \/ c.dc = 1 /\ (c.first \/ int_consumes(i.op))
                  \/ c.dc = 2 /\ int_consumes(i.op))

Joins == Openers \cup {"else", "end", "fend", "call"}

\* does a branch of the program arrive at this end?
Arrived(i) ==
  /\ i.op = "end" /\ ~IsLoop(i.to)
  /\ Op(i.to) = "if" \/ \E q \in 1 .. n : Op(q) = "brif" /\ code[q].to = i.to

\* what DepthExact and CacheCoherent need to know of the compiler at an instruction
Snapshot(c) ==
  [waiting |-> Len(c.crefs) + c.dc + (IF c.d2 THEN 1 ELSE 0) + (IF c.cc THEN 1 ELSE 0),
   map |-> c.map,
   clean |-> {i \in Cached(c) \ c.dirty : ~(c.wl.pass = 2 /\ Wanted(c, i))}]

CompileOne(c) ==
  LET i == code[c.pc]
      a == [c EXCEPT !.at[c.pc] = Len(c.em) + 1, !.snap[c.pc] = Snapshot(c)]
      b == IF i.op \in Joins THEN flush_cache(a) ELSE a
      d == IF (b.dc > 0 \/ b.d2 \/ b.crefs # <<>>) /\ ~Keep(b, i) THEN flush_deferred(b) ELSE b
      e == Meets(d, Arrived(i) /\ d.em # c.em, "endjoin")
      f == IF c.skip THEN [c EXCEPT !.skip = FALSE, !.snap[c.pc] = None] ELSE Translate(e, i)
  IN  [f EXCEPT !.pc = @ + 1]

----------------------------------------------------------------------------
(* Execution.  Terms: <<"k", n>>, <<"p", local>>, <<"sub", x, y>>, ...     *)

Junk == <<"junk">>
K(v) == <<"k", v>>
Top(st) == IF st = <<>> THEN Junk ELSE Last(st)
Log(m, e) == [m EXCEPT !.log = Append(@, e)]
Chosen == SelectSeq(ref.log, LAMBDA e : e[1] = "br")

\* the WebAssembly rules; bit decides a branch
Refer(bit) ==
  LET i == code[ref.pc]
      st == ref.st
      x(k) == st[Len(st) + 1 - k]               \* operand k from the top
      go(r) == [r EXCEPT !.pc = @ + 1]
      put(k, v) == go([ref EXCEPT !.st = Append(FrontN(@, k), v)])
      branch(r, to) == [Log(r, <<"br", x(1), bit>>) EXCEPT !.pc = to, !.st = Front(@)]
      out(o) == LET ar == code[o].res IN SubSeq(st, 1, code[o].depth) \o LastN(Front(st), ar)
  IN  CASE i.op = "const" -> put(0, K(i.n))
        [] i.op = "get" -> put(0, ref.loc[i.n])
        [] i.op = "set" -> go([ref EXCEPT !.loc[i.n] = x(1), !.st = Front(@)])
        [] i.op = "tee" -> go([ref EXCEPT !.loc[i.n] = x(1)])
        [] i.op \in {"sub", "cmp", "fsub", "rot", "fcmp"} -> put(2, <<i.op, x(2), x(1)>>)
        [] i.op \in {"load", "fload", "ext", "eqz", "conv", "fneg", "trunc"} -> put(1, <<i.op, x(1)>>)
        [] i.op \in {"store", "fstore"} -> go(Log([ref EXCEPT !.st = FrontN(@, 2)], <<"store", x(2), x(1)>>))
        [] i.op = "sel" -> put(3, <<"sel", x(1), x(3), x(2)>>)
        [] i.op = "drop" -> go([ref EXCEPT !.st = Front(@)])
        [] i.op \in {"call", "grow"} -> go(Log([ref EXCEPT !.st = Append(Front(@), <<i.op, x(1)>>)], <<i.op, x(1)>>))
        [] i.op = "fill" -> go(Log([ref EXCEPT !.st = FrontN(@, 3)], <<"fill", x(3), x(2), x(1)>>))
        [] i.op \in {"block", "loop", "end"} -> go(ref)
        [] i.op = "if" -> branch(ref, IF bit THEN ref.pc + 1 ELSE IF i.els # None THEN i.els + 1 ELSE i.end)
        [] i.op = "else" -> [ref EXCEPT !.pc = code[i.to].end]
        [] i.op = "brif" -> IF bit THEN [branch(ref, TargetPc(i.to)) EXCEPT !.st = out(i.to)]
                            ELSE branch(ref, ref.pc + 1)
        [] i.op = "fend" -> Log(ref, <<"ret", st>>)

\* where a branch to the instruction at pc goes
Fixup(pc) == jc.at[pc]

\* generated code: registers, the stack of slots, the frame
Step(m) ==
  LET i == jc.em[m.ip]
      R(r) == m.regs[r]
      go(s) == [s EXCEPT !.ip = @ + 1]
      put(r, v) == go([m EXCEPT !.regs[r] = v])
      lose(S) == [r \in Regs |-> IF r \in S THEN Junk ELSE R(r)]
      below(k) == IF k > Len(m.st) THEN Junk ELSE m.st[Len(m.st) + 1 - k]
      bits == Chosen
      nth == Len(SelectSeq(m.log, LAMBDA e : e[1] = "br")) + 1
      bit == nth <= Len(bits) /\ bits[nth][3]
      cut(k) == SubSeq(m.st, 1, Max({Len(m.st) - k, 0}))
  IN  CASE i[1] = "mov" -> put(i[2], R(i[3]))
        [] i[1] = "imm" -> put(i[2], K(i[3]))
        [] i[1] = "ldl" -> put(i[2], m.frame[i[3]])
        [] i[1] = "stl" -> go([m EXCEPT !.frame[i[3]] = R(i[2])])
        [] i[1] = "push" -> go([m EXCEPT !.st = Append(@, R(i[2]))])
        [] i[1] = "pop" -> go([m EXCEPT !.regs[i[2]] = Top(m.st), !.st = cut(1)])
        [] i[1] = "peek" -> put(i[2], Top(m.st))
        [] i[1] \in {"sub", "fsub", "rot"} -> put(i[2], <<i[1], R(i[3]), R(i[4])>>)
        [] i[1] = "subi" -> put(i[2], <<"sub", R(i[3]), K(i[4])>>)
        [] i[1] \in {"load", "un"} -> put(i[2], <<i[4], R(i[3])>>)
        [] i[1] = "store" -> go(Log(m, <<"store", R(i[2]), R(i[3])>>))
        [] i[1] \in {"cmp", "fcmp"} -> go([m EXCEPT !.flag = <<i[1], R(i[2]), R(i[3])>>])
        [] i[1] = "eqz" -> go([m EXCEPT !.flag = <<"eqz", R(i[2])>>])
        [] i[1] = "help" -> go([m EXCEPT !.regs = [lose(Scratch) EXCEPT ![X0] = <<i[2], R(X0)>>]])
        [] i[1] = "cset" -> put(i[2], m.flag)
        [] i[1] = "test" -> go([m EXCEPT !.flag = R(i[2])])
        [] i[1] = "csel" -> put(X17, <<"sel", R(X16), R(X0), R(X17)>>)
        [] i[1] = "drop" -> go([m EXCEPT !.st = cut(1)])
        [] i[1] = "bz" -> [Log(m, <<"br", m.flag, bit>>) EXCEPT !.ip = IF bit THEN @ + 1 ELSE Fixup(i[2])]
        [] i[1] = "carry" -> go([m EXCEPT !.st = cut(i[2] + i[3]) \o [j \in 1 .. i[2] |-> below(i[2] + 1 - j)]])
        [] i[1] = "b" -> [m EXCEPT !.ip = Fixup(i[2])]
        [] i[1] = "call" -> go(Log([m EXCEPT !.st = Append(cut(1), <<"call", below(1)>>), !.regs = lose(Regs)],
                                   <<"call", below(1)>>))
        [] i[1] = "grow" -> go(Log([m EXCEPT !.st = Append(cut(1), <<"grow", below(1)>>), !.regs = lose(Scratch)],
                                   <<"grow", below(1)>>))
        [] i[1] = "fill" -> go(Log([m EXCEPT !.st = @ \o <<Junk, Junk, Junk>>, !.regs = lose(Scratch)],
                                   <<"fill", below(3), below(2), below(1)>>))
        [] i[1] = "ret" -> Log(m, <<"ret", [j \in 1 .. i[2] |-> below(i[2] + 1 - j)]>>)

----------------------------------------------------------------------------
NoLoop == [pass |-> 0, head |-> 0, end |-> 0, em0 |-> 0, want |-> <<>>]

\* JC: code and labels; the window (def_count, def_first, def_kind1, registers or
\* immediate, def2_live, fused_cc); references; cache; warm loop.  snap and known
\* are not in the code.
NewJC ==
  [em |-> <<>>, at |-> [p \in 1 .. n + 1 |-> 0], snap |-> [p \in 1 .. n + 1 |-> None],
   pc |-> 1, skip |-> FALSE, dc |-> 0, first |-> FALSE, k1 |-> "w", r0 |-> None, r1 |-> None,
   bimm |-> None, d2 |-> FALSE, cc |-> FALSE, crefs |-> <<>>, nf |-> 0,
   map |-> [i \in Slots |-> None], dirty |-> {}, clock |-> 0, wl |-> NoLoop, known |-> {}]

Init ==
  /\ menu \in Menus
  /\ phase = "build" /\ code = <<>>
  /\ build = [types |-> <<>>, ctl |-> <<>>, todo |-> menu.pre, count |-> 0]
  /\ jc = None /\ ref = None /\ mach = None

\* compile_function's initialisation
StartCompile ==
  /\ phase = "build" /\ n > 0 /\ Op(n) = "fend"
  /\ phase' = "compile"
  /\ jc' = NewJC
  /\ UNCHANGED <<menu, code, build, ref, mach>>

Compile ==
  /\ phase = "compile" /\ jc.pc <= n
  /\ jc' = CompileOne(jc)
  /\ phase' = IF jc'.known \subseteq Uses THEN phase ELSE "left"
  /\ UNCHANGED <<menu, code, build, ref, mach>>

\* emit_return, after the last instruction
Finish ==
  /\ phase = "compile" /\ jc.pc > n
  /\ jc' = [Emit(jc, <<"ret", Len(build.types)>>) EXCEPT !.at[n + 1] = Len(jc.em) + 1]
  /\ ref' = [pc |-> 1, st |-> <<>>, loc |-> [k \in Locals |-> <<"p", k>>], log |-> <<>>]
  /\ phase' = "refer"
  /\ UNCHANGED <<menu, code, build, mach>>

ReferStep ==
  /\ phase = "refer"
  /\ \E bit \in BOOLEAN :
       /\ bit => Op(ref.pc) \in {"if", "brif"} /\ Cardinality({j \in DOMAIN ref.log : ref.log[j][1] = "br"}) < MaxBranches
       /\ ref' = Refer(bit)
  /\ IF Op(ref.pc) = "fend"
     THEN /\ phase' = "run"
          /\ mach' = [ip |-> 1, st |-> <<>>, regs |-> [r \in Regs |-> <<"r", r>>],
                      frame |-> [k \in Locals |-> <<"p", k>>], flag |-> Junk, log |-> <<>>]
     ELSE UNCHANGED <<phase, mach>>
  /\ UNCHANGED <<menu, code, build, jc>>

Run ==
  /\ phase = "run"
  /\ mach' = Step(mach)
  /\ phase' = IF jc.em[mach.ip][1] = "ret" THEN "done" ELSE phase
  /\ UNCHANGED <<menu, code, build, jc, ref>>

\* an execution is over, a translation is abandoned, or no program continues so
Stop == phase \in {"done", "left", "build"} /\ UNCHANGED vars

Next == Append1 \/ Choose \/ Close \/ StartCompile \/ Compile \/ Finish \/ ReferStep \/ Run \/ Stop

Spec == Init /\ [][Next]_vars
=============================================================================
