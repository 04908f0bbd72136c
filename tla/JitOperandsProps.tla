-------------------------- MODULE JitOperandsProps --------------------------
(***************************************************************************)
(* Correctness of the JIT's operand placement: see JitOperands.            *)
(***************************************************************************)
EXTENDS JitOperands

\* Types of the compiler's bookkeeping and of the running machine; the window
\* holds at most two values, the reference stack at most MaxCrefs, each cached
\* local has one register.
TypeOK ==
  /\ phase \in {"build", "compile", "refer", "run", "done", "left"}
  /\ jc # None =>
       /\ jc.dc \in 0 .. 2 /\ jc.nf \in Nat /\ Len(jc.crefs) <= MaxCrefs
       /\ jc.map \in [Slots -> Locals \cup {None}] /\ jc.dirty \subseteq Cached(jc)
       /\ \A i, j \in Cached(jc) : jc.map[i] = jc.map[j] => i = j
       /\ jc.wl.pass \in 0 .. 2 /\ Len(jc.wl.want) <= CacheSlots
  /\ mach # None => mach.ip \in 1 .. Len(jc.em)

\* Generated code does what WebAssembly says: it tests the same conditions,
\* performs the same stores and calls with the same operands in the same order,
\* and returns the same results (the fusion window, cache references, in-place
\* operations, warm loops: jit_a64.c lines 17-22).
Faithful ==
  /\ phase = "run" => IsPrefix(mach.log, ref.log)
  /\ phase = "done" => mach.log = ref.log

\* the instructions whose code begins where the machine stands
Here == {p \in 1 .. n : jc.snap[p] # None /\ jc.at[p] = mach.ip}

\* At every instruction the values on the native stack and those the compiler
\* believes to be waiting in registers and flags add up to the operand depth that
\* the decoder computed (depths[pc], which every branch adjusts sp by).
DepthExact ==
  phase = "run" => \A p \in Here :
    Len(mach.st) + jc.snap[p].waiting = code[p].depth + (IF Op(p) = "if" THEN 1 ELSE 0)

\* A cache register that is not marked dirty equals the local's frame slot, so
\* that set_local_val may take it without a store; in a warm loop this holds of
\* the registers that are not pinned.
CacheCoherent ==
  phase = "run" => \A p \in Here : \A i \in jc.snap[p].clean :
    mach.regs[ea_cache_reg(i)] = mach.frame[jc.snap[p].map[i]]
=============================================================================
