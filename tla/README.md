# easm: TLA+ models, checks and proofs

easm is a WebAssembly runtime in C: a decoder and validator, an interpreter, an
AArch64 JIT that shares data structures with the interpreter, an instantiation
and linking layer, and a WASI preview 1 host. Paths below are relative to the
repository; the runtime is `src/*.c`.

This directory models the parts of the runtime in which several mechanisms keep
one fact in several places:

- the two engines and the invoke boundary, which share calls, exceptions and
  traps (`ExecEH`);
- the linear memory, which every instance, every engine and the host access
  under their own checks (`LinearMemory`);
- the store, in which instances share tables, memories and globals, and
  instantiation, which can fail half way (`Linking`, `Tables`);
- the WASI host with its descriptors and the RAM file system behind it
  (`WasiFd`, `EwokRamFs`);
- the JIT's placement of operands and locals in registers, where the compiler's
  belief and the machine must agree (`JitOperands`);
- GC types and objects, where the validator's static types, the run-time casts
  and the heap must agree (`GcTypes`, `GcObjects`).

Run one check with `tlc -config MCExecEH_control.cfg MCExecEH` and one proof
module with `tlapm ExecEHProofs.tla`.

## 1. The system

| Component | Source | State it keeps | Operations |
|---|---|---|---|
| Decoder | `decode.c` | `EaModule`: types, limits, segments, pre-decoded bodies (`EaInstr` with `end_idx`) | `ea_decode`, `predecode`, `predecode_region` |
| Validator | `validate.c` | operand and control stacks of the body it checks | `ea_validate_module` |
| Interpreter | `interp.c` | value stack `ex->stack[0..sp)`, one C frame per call with `ctl[]` | `ea_interp_call`, `eh_unwind`, one case per opcode |
| JIT compiler | `jit_a64.c`, `a64_emit.h` | `c->ctrl[]`, `skip_depth`, register caches, fixups | `ea_jit_compile_module`, `compile_one_function`, `call_static`, `emit_return`, `emit_load` ... |
| JIT run-time | `jit_a64_rt.c` | handler stack `ex->eh[0..eh_top)`, `pending_exn`, code region | `ea_jit_call`, `ea_jit_call_interp`, `ea_jit_eh_*`, `ea_h_*` helpers |
| Invoke boundary | `runtime.c` | `ex->jb`, `trap`, saved `sp` and `eh_top` | `ea_instance_invoke`, `ea_trap`, SIGSEGV handler |
| Linear memory | `runtime.c` and the engines | `EaMemInst` (pages, max, size, base), a 12 GiB reservation, x25/x26 in generated code | `alloc_memory`, `ea_grow_memory`, loads, stores, bulk operations, `mem_ptr` |
| Instantiation and linking | `runtime.c` | store of registered instances; aliased globals, memories, tags; copied tables | `ea_store_instantiate`, `ea_store_load`, segments, start function |
| Tables | `interp.c`, `jit_a64_rt.c` | `EaTableInst` | `table.*`, `elem.drop`, `call_indirect` |
| GC types and objects | `decode.c`, `validate.c`, `interp.c`, `easm.h` | type section with rec groups; heap of `EaHeapObj` | `ea_type_canon_eq`, `ea_type_sub`, `ea_gc_match`; `struct.*`, `array.*`, `ref.*`, `br_on_*` |
| WASI | `wasi.c`, `wasi_posix.c`, `wasi_win.c`, `wasi_ewok.c` | fd table, preopens, RAM file system | one function per syscall |
| Arithmetic, SIMD | `arith.c`, `simd_exec.c` | none | pure functions |
| Tools | `main.c`, `wast.c`, `easm_gui.m` | none of the runtime's | command line, spec-test driver |

How they interact. The decoder's instruction list is the common language: the
validator types it, the interpreter executes it and the JIT compiles it, each
with its own control stack over the same `end_idx`. A function runs in either
engine; a call crosses engines through `ea_jit_call` (interpreter to JIT, with
results copied between the value stack and the native stack) and through
`ea_jit_call_interp` (back). A trap is a `longjmp` to the invoke boundary over
all frames. An exception is a return value plus `pending_exn`: an interpreter
frame looks for a handler in its own `ctl[]`, generated code in the shared stack
`ex->eh`, to which every compiled `try_table` pushes an entry at run time and
which every exit of that `try_table` must pop. Memories are shared by pointer
between instances; compiled code caches base and size in registers. A table is
not shared by pointer: importing copies the `EaTableInst`, and only the array of
elements is common. WASI calls are host functions that read and write the
calling instance's memory.

What is hard. The runtime is single-threaded while wasm runs, so the
interleavings are not of threads but of *mechanisms*: any mix of interpreted and
compiled frames; exits that skip the cleanup of the frames they leave (trap,
exception, tail call); a handler stack kept exact by code emitted at each exit;
cached sizes made stale by another instance's growth; u64 arithmetic on
addresses, deltas and maxima at its edges; `mprotect` failing half way;
instantiations that fail after they have written into others; long sequences of
opens and closes over reused descriptor numbers; values whose only home is a
register the compiler believes in; casts that follow unchecked declarations. The list,
with the line where each bites and the property that would catch it, is
"hazards" in `PROJECT.json`.

What makes each part correct:

- *Engines*: an invocation behaves as WebAssembly's control semantics whichever
  functions are compiled; the operands at each pc are the ones the validator
  typed; handlers in force are the enclosing `try_table`s; nothing survives an
  invoke; every invoke of a terminating program ends.
- *Memory*: an access succeeds exactly when its range is in the memory; pages,
  bytes and protection agree; memory never shrinks.
- *Linking and tables*: an object reached through two instances is one object;
  imports, segments and table instructions succeed exactly when WebAssembly says
  so; a failed instantiation leaves exactly the writes made before the failure,
  and what it left callable can be called.
- *WASI*: a descriptor is used only while open and leads to its own file at its
  own offset; a path never leaves its preopen; iovec loops report what was
  transferred; every call returns.
- *Operand placement*: generated code tests, stores, calls and returns what
  WebAssembly prescribes, whichever values wait in registers.
- *GC*: type comparisons decide iso-recursive equality and declared subtyping; a
  value always has its static type; casts answer by the object's type.

## 2. The modules

```
WasmProgram          decoded, validated and compiled bodies
   |        \
   |         WasmControl       what execution promises (abstract)
 ExecEH                        interpreter + JIT code + bridge + boundary
   |
 ExecEHProps                   properties; INSTANCE WasmControl
   |        \
 MCExecEH    ExecEHProofs -- ExecEHTriesProofs -- ExecEHControlProofs

 LinearMemory                  one shared memory and everyone who uses it
   |        \
 MCLinearMemory  LinearMemoryProofs

 Tables                        table tests and updates, as operators
   |
 Linking                       the store, instantiation, table instructions
   |
 LinkingProps -- MCLinking
   |
 LinkingProofs -- LinkingLifeProofs -- LinkingExactProofs

 EwokRamFs                     the RAM file system, as operators
   |
 WasiFd                        descriptors, syscalls, a guest's life
   |
 WasiProps -- MCWasiFd
   |
 WasiProofs

 JitOperands -- JitOperandsProps -- MCJitOperands

 GcTypes                       type equality, subtyping, matching
   |
 GcObjects -- GcProps -- MCGcObjects
```

### WasmProgram

A body is built one instruction at a time (`Emit`), and each instruction is at
once pre-decoded (`end_idx`), validated (`ValidLive`, the validator's operand
types and control frames) and seen by the JIT's compile pass. `snap[f][pc]` is
the state those passes have before `pc`: `ctrl` and `tys` are the validator's
stacks, `skip` is the JIT's `skip_depth`, and `is_try` is the `is_try` field of
`c->ctrl[]`, which outlives the block that set it, because not every opener
writes it. `Publish` chooses which functions are compiled. TLC thus checks
*every* validated program over the instruction alphabet of a run, not a list of
samples. `Compiles` says which bodies `compile_one_function` bails on.

Data is abstracted: an operand is its type, branch conditions and trap
conditions are nondeterministic, `call` stands for `call` and `call_indirect`,
`popcnt` for the operators that are helper calls, `push` for constants and
`local.get`.

### ExecEH

| State | In the code |
|---|---|
| `frames` | C frames of `ea_interp_call` and native JIT frames, innermost last |
| `frames[i].ctl` | `RCtl ctl[]` of an interpreter frame |
| `frames[i].ops` | operands of a JIT frame on the native stack |
| `stack` | `ex->stack[0..ex->sp)` |
| `eh`, `eh_base` | `ex->eh[0..eh_top)` and the `eh_top` saved at the invoke |
| `pending` | `ex->pending_exn` |
| `x0` | whether register x0 holds 1, the exception marker |
| `mode` | idle, running, unwinding ("exn": the top frame's callee threw), undefined ("crash") |

One step is one wasm instruction or the unwinding of one frame. Actions with
prefix `I` are cases of `ea_interp_call`; those with `J` are what the code
generated for the opcode does. `eh_unwind`, `eh_dispatch`, `ea_jit_eh_popn` and
`eh_crossings` carry the names of the functions they translate. `Trap` is the
`longjmp` of `ea_trap` together with what the boundary restores; `Propagate`,
`DeliverToC` and `DeliverToJit` are the ways an exception or results reach a
caller of either kind. `Crash` marks undefined behaviour: a payload written
outside the frame, an uninitialised control entry used, a number used as an
exception.

### WasmControl

The abstract specification: a stack of activations `<<function, pc>>`, an
exception in flight, and nothing else. There is no run-time control stack and no
handler stack; which handlers apply at a pc is read off the block structure.
`ExecEHProps` maps `ExecEH` to it (`ImplementsControl`): an activation is a
frame's function and pc, except that an interpreter frame suspended at a
`return_call` to compiled code is not an activation (`Suspended`). When its callee
has returned, the frame stands for that callee's return (the field `as`, by
`ActOf`), through a chain of such frames too; and an exception that has nothing left
to unwind but such frames has ended the invoke (`Ended`), although the engines
take a few steps more.

### LinearMemory

`mem` is `EaMemInst`; `commit` is the accessible prefix of the 12 GiB
reservation; a frame has a kind, a flag `m0` (the memory is its instance's
memory 0) and `limit`, the size in x26. `ea_grow_memory`, loads and stores in
both engines, `memory.fill/copy/init`, `data.drop`, `mem_ptr` of the WASI layer
and active data segments are actions. Frames of several instances share the
memory: any frame may be interpreted or compiled and may grow it. All widths are
constants (`Page`, `N32`, `M64`), and every u64 sum or shift of the code is
taken modulo `M64`. `Touch` is the MMU and the SIGSEGV handler: inside `commit`
an access succeeds, elsewhere inside the reservation it becomes a trap, and
beyond it anything may happen ("wild"). `acc` records the last access: what the
code did, and whether its range fits the memory in unbounded arithmetic.

Abstracted: byte contents; `memory.copy` between two memories; the reservation
is followed by unmapped addresses.

### Tables and Linking

`Tables` has the bounds tests of every table instruction with the arithmetic each
engine uses, and what the instruction does to the elements. `Linking` is the
store. `insts` are the instances, `blocks` the arrays of elements (with whether
they are still allocated), `mems` and `cells` the shared memories and globals,
`named` the registrations, `ecache` the items that `EaElem.cache` keeps per module
(not per instance), `cur` the instantiation under way. An instantiation goes step
by step as `ea_store_instantiate` does: `Import` resolves one import against the
instances registered now, `Define` makes functions, tables, memories, globals and
tags, `Elem` and `Data` execute one segment each, `Finish` runs the start function
if there is one; each step can fail with the state it has reached. Between the
steps of the host (`Begin`, `Register`, `Free`) instances execute `table.get`,
`set`, `fill`, `copy`, `init`, `grow`, `elem.drop`, `call_indirect` and
`memory.grow`, each in either engine where the engines differ. `want` is the store
as WebAssembly describes it, one object per table; the code's part never reads it.

`LinkingMods` assumes of the modules what the decoder and `ea_validate_module`
establish before a module can be instantiated, and no more: sections are
sequences, indices lie in the module's index spaces, limits are in order. Where
validation is laxer than WebAssembly the assumption is too: an initialiser may
read a global that is not initialised yet (section 5). With `GrowShared = FALSE`
an instance grows only a table that no other record shares (`Alone`).

Abstracted: a reference is its function, a byte the segment that wrote it;
constant expressions are a constant or a global. An initialiser with a global index
behind all globals, for which the validator reads past its array, is left out:
`ea_eval_const_expr` refuses it.

### EwokRamFs and WasiFd

`EwokRamFs` translates the RAM file system of `wasi_ewok.c`; a platform handle is
an index of its array, and the offset is the file's. `WasiFd` is `wasi.c` over it:
`fds` and `next_fd` are the fields of `WasiCtx`, `files` and `clock` those of
`EwRam`, and `phase` is the life of a context in `run_wasi` (set-up, the start
function, which runs before `ea_wasi_bind`, the guest, freed). Syscalls are one
step, but the loops over iovecs and subscriptions take one step per item and the
sleep one per sample of the clock. `want` records what the calls promised: the
contents of files by name, and per open descriptor a file and an offset of its
own.

`last` compares an answer with the one that is due: whether the call succeeds, and
what it hands back. Results of 32 bits are a number; of the offset that `fd_seek`
and `fd_tell` return, 64 bits wide, the code stores the low word (`w32`) and the
upper one stays what the guest had there (`Halved`). `ResultExact` claims nothing
of these:

- *Which error a refusal names.* The numbers in `wasi.h:11-22` are not those of
  preview 1 (EINVAL is 21 there and 28 in WASI, ENOENT 38 and 44), and some refusals
  name another reason than the vendored tests ask for:
  `path_open_dirfd_not_dir.rs:10-15` wants NOTDIR or NOTCAPABLE where the code
  answers BADF, `interesting_paths.rs:86-91` PERM or NOTCAPABLE where it answers ACCES.
- *Rights.* `path_open` ignores them (`wasi.c:293`), and descriptors can always be
  read and written; `path_open_read_write.rs:36-43` expects a refusal.
- *Spellings.* `Paths` has one per file; the RAM file system compares strings, so
  `./f` and `f` are two files.
- *The layout of subscriptions and events.* The code takes the tag from byte 0 and
  the user data from byte 8, and puts the error at byte 16 (`wasi.c:436-455`). Preview
  1 has the user data at 0, and the tag, or the error, at 8. `Subs` and the
  events compared are in the code's layout.
- *Result pointers.* They lie in the guest's memory, but for `args_get`, whose
  addresses are compared without their wrap at 2^32.

### JitOperands

A program is built from a menu of instructions, translated by `CompileOne`, one
iteration of the compile loop, into abstract machine instructions (push, pop, move,
load and store of a frame slot, operation, branch), run once by the WebAssembly
rules (`ReferStep`) and once as generated code (`Run`). `jc` is the compiler state
`JC`: the fusion window (`dc`, `k1`, ...), the stack of references to cached locals
(`crefs`), float pushes above them (`nf`), the map of cache registers with its
dirty set and clock, and the warm-loop state (`wl`). The emitters keep their names
(`flush_deferred`, `push_result`, `set_local_val`, `warm_backedge`,
`park_pair_first` ...). Values are terms, so two different computations never
agree by accident. One instruction stands for each family that is treated alike.
Of the float comparisons `fcmp` is that of `emit_fcmp32`, whose flags a `br_if` right
behind it uses; `emit_fcmp64` always makes a value of them (`cset`, push).

### GcTypes and GcObjects

`GcTypes` is the comparison part of `validate.c`: canonical equality of rec groups
with an in-progress stack and a depth limit, declared subtyping, the matching of
value types with their several encodings. Next to it stands a reference definition
(`CanonIds`, `SuperIds`): the identity of a type is its whole group, unfolded,
with references into the group by position, and its place in it. In
`GcObjects` a type section is read one rec group at a time; on some sections bodies
are run, one action per GC instruction, which first types the instruction against
the static types on the operand stack as the validator does, then executes it as
the interpreter does. An object knows its kind, its type index and (in the model
only) the section it was made under, so `Receive` can bring objects of another
module. Only references are on the stack; a trap ends the body, and the heap and
the global survive it.

## 3. What is checked

| Run | Properties | Question |
|---|---|---|
| `control` | HandlersExact, CtlExact, ImplementsControl | branches, exceptions and traps out of nested `try_table`s, two functions, every mix of engines |
| `loops` | HandlersExact, CtlExact, ImplementsControl | `loop`, `if`, `br_table`, self tail calls around handlers, nesting 3 |
| `operands` | TypeOK, OperandsExact, NoCrash | payloads, exnrefs, locals, arguments and results, each engine on its own |
| `chain` | HandlersExact, NoHandlersAtIdle, PendingExact, ImplementsControl, InvokeReturns | three functions with recursion, `call_ref`, host calls, tail calls of one another, two invokes, every mix of engines |
| `memory` | TypeOK, SizeExact, AccessExact, NeverShrinks | growth, calls, returns, exceptions and every kind of access, 32- and 64-bit memories |
| `linking` | TypeOK, TablesExact, OutcomeExact, LeakedCallable, PrefixPersists, GuardsIntact | up to three instances of four modules that import from each other, in any order and under any registration, with segments and start functions that fail and table instructions in between |
| `wasi` | TypeOK, DescriptorsExact, ContentExact, ResultExact, Sandbox, SleptEnough, CallReturns | opens, closes, reads, writes, seeks and polls in any order, iovecs outside the memory, every limit met |
| `window` | TypeOK, Faithful, DepthExact, CacheCoherent | straight-line code, joins and warm loops over integers, floats and cached locals |
| `gc` | TypesExact, TypeSound, MatchExact, AccessSafe, ImmutableKept | every type section of up to four entries in groups of up to two; every straight-line body on five of them |

- *HandlersExact*: `ex->eh` lists exactly the `try_table`s that enclose the pc of
  each compiled frame, in order. Every exit of a `try_table` has its own emitted
  pop, so this is violated by any wrong count, several steps after the mistake.
- *CtlExact*: an interpreter frame's `ctl[]` is the block nesting at its pc, with
  the validator's heights; `br` and `eh_unwind` index it unchecked.
- *OperandsExact*: the operands of the running frame have the types validated at
  its pc, after every jump, call, tail call and caught exception.
- *PendingExact*: `pending_exn` and the marker in x0 agree.
- *NoHandlersAtIdle*: no handler survives an invoke, however it ended.
- *ImplementsControl*: refinement of `WasmControl`: the right clause of the right
  `try_table` of the right activation catches, and outcomes are right.
- *InvokeReturns*: a started invoke ends.
- *AccessExact*: an access by anyone succeeds exactly when its range fits.
- *SizeExact*: bytes, pages and protection agree; a 32-bit memory, which compiled
  code accesses without a check, has not one accessible byte more.
- *NeverShrinks*: no step makes a memory smaller.
- *TablesExact*: through every instance that holds it a table has the size and
  elements of the one table WebAssembly has; it relates copies of `EaTableInst`,
  shared arrays, segments and the item cache to the history of all instructions.
- *OutcomeExact*: each import, segment, table instruction and `call_indirect`
  succeeds exactly when WebAssembly says so, in either engine.
- *LeakedCallable*: what a table makes callable, also what a failed instantiation
  left there, belongs to an instance that is initialised and not freed.
- *PrefixPersists*: after a failure at a segment, older tables and memories hold
  what they held before, overwritten by exactly the segments before the failing
  one, each place by the last segment that covers it.
- *GuardsIntact*: no memory's accessible pages reach into what the next
  reservation keeps as guard, and memories in use are mapped.
- *DescriptorsExact*, *ContentExact*: the descriptor table and the files are what
  the history of calls makes right.
- *ResultExact*: so is each answer: success or refusal, and the bytes, count, offset,
  size, descriptor or events handed back. Section 2 lists what it does not claim.
- *Sandbox*: no file outside the preopened directories comes into being.
- *SleptEnough*, *CallReturns*: a sleep lasts its timeout, and ends; so does every
  loop over iovecs or subscriptions.
- *Faithful*: generated code has the same observable history (conditions, stores,
  calls, results) as the WebAssembly rules.
- *DepthExact*: values on the native stack plus values the compiler believes to
  be waiting add up to the validator's depth at each instruction.
- *CacheCoherent*: a cache register not marked dirty equals the frame slot, so
  that it can be taken without a store.
- *TypesExact*: the recursive comparisons agree with the reference definition.
- *TypeSound*: every operand, field and global holds a value of its static type.
- *MatchExact*: casts and tests answer what the reference's type is.
- *AccessSafe*: unchecked field accesses and segment reads stay in their object.
- *ImmutableKept*: immutable fields, types and lengths of objects never change.

Bounds and why they are enough. Bodies have up to 8 instructions with nesting 2
or 3: a `try_table` in a `try_table` in a block, a jump across each of them and
code after it fit in 8. Two or three functions give every caller/callee pairing
of engines and a frame between thrower and catcher. `MaxDepth` and `MaxFrames`
(3 and 4) are reached by recursion, so both stack limits fire. Two invokes show
what one leaves to the next. For memory: pages of 4 bytes, 4 pages to the
32-bit limit, a reservation of 12 pages and 64-bit arithmetic modulo 256 keep the
real ordering (page < 2^32 < 12 GiB < 2^64), and the sets of inputs hold the
values around each edge; two frames are enough for a caller's stale cache, and
the theorems remove the bound.

For linking: pages of 2 bytes, 32-bit values below 8; the four modules are chosen
so that two segments fit only after a growth and one import only after another
instance's growth, and three instantiations with two instructions in between let
an importer of an importer see both. For WASI: two files of two bytes, a table of
five descriptors that is enlarged by the next one, three iovecs, words with four
values, which hold every offset in a file, timeouts of up to
`MaxNs` = 2 ticks. The clock is cut at `MaxClock`: a poll is only begun if the
longest sleeps it can ask for (`Ticks`) end before it, so the bound never cuts a
sleep short, which would hide a poll that does not return. For operands: two
cache registers and two references make eviction and spilling happen with three
locals; up to six building blocks, which is what a loop with a conditional inside
takes; two branches taken, so that a warm loop goes round and leaves. For GC: four
types suffice for two rec groups of two that differ only in where they point; two
objects and two operands suffice for a store through a supertype and a read back.

Programs that meet a known departure of the code from its documents (section 5)
are kept out of the passing runs by naming them: `Shapes` lists the shapes a run
lets in. A shape that concerns generated code only (`crosses_try`, `stale_try`,
`dead_try_end`, `all_payload`, `popcnt`) keeps a function interpreted;
`wide_label` is not built at all. `Ctl0Garbage = {FALSE}` assumes that the
uninitialised `ctl[0].is_try` reads as false. The other departures are avoided by
the alphabets and by constants: passing runs that check `ImplementsControl` have
no tail call to another function in a `try_table` and no failing host function, `CtlExact` is not
checked with `call_ref`, and `operands` does not mix engines. For memory the
inputs of the passing run satisfy `InRange64`. In `WasiFd`, `JitOperands` and
`GcObjects` the constant `Uses` names the constructs a run lets in; it is empty in
the passing runs, and each name is explained where the module declares it. In
`Linking`, `GrowShared`, `Frees` and `Once` do the same; in `gc`, `EdgesChecked`
lets in only sections whose declared supertypes are right, which the code leaves
unchecked, `LabelArity` only labels with one result and `HostTags` only host
references that do not look like an i31.

Fairness. `InvokeReturns` needs `WF_vars(Step)`: an invoke that can execute an
instruction eventually does. An invoke runs on one thread and nothing in the
runtime suspends it. `CallReturns` needs `WF_vars(Loop)` for the same reason: the
loop inside a syscall is ordinary C code. Nothing is assumed of the environment:
it may never invoke, the guest may never call, and no fairness is put on a branch.
The clock of the RAM back end advances whenever it is sampled (`ew_clock_ns`), so
a sleep's progress is the loop's own. The alphabet of `chain` has no loop;
recursion is cut by the depth limits, as in the code.

Deadlock is checked in the runs of `ExecEH`, `LinearMemory`, `WasiFd` and
`JitOperands`: while an invoke or a call is running some step is enabled. It is
not in `linking` and `gc`, where a behaviour ends when the bound on instances and
instructions is reached, or when a section is not one that bodies run on.

Each property has a mutant in `PROJECT.json`: a plausible slip in the code (a
forgotten pop, a stale limit, a clause search in the wrong order), defined next
to what it replaces, under which TLC finds the property violated.

## 4. What is proved

**ExecEHProofs.** For every program, every alphabet, every choice of compiled
functions, every value of the bounds and every content of uninitialised memory:

- `HandlersEmptyAtIdle`: `Spec => []NoHandlersAtIdle`, without any hypothesis.
- `ControlStaysExact`: `CallRefUncaught => (Spec => []CtlExact)`
- `PendingStaysExact`: `CallRefUncaught /\ NoResidue => (Spec => []PendingExact)`

`NoHandlersAtIdle` is not inductive: the boundary cuts `eh` back to `eh_base`, which
is read from the handler stack when the invoke starts. `HandlerInv` adds
`eh_base = 0`. The theorem says that the corruption of the handler stack described
in section 5 never outlives the invoke in which it arises.

`CtlExact` speaks of what is at run time, and is kept because of what decoding built
before. `ProgInv` is the invariant of the decoder, the validator and the compile pass
taken together: each open block stands before the pc and opened with the
control stack below it (`LevelIs`), `end_idx` leads to an end reached with exactly
that block open (`EndIs`), the instruction behind a live one is reached with the
stacks that one leaves (`NextIn`), and a branch to level `k` lands with the `k`
outermost blocks open (`TargetIs`). Bodies are grown an instruction at a time, so
`ProgInv` is inductive over `Emit`, and no induction over lists is needed; where one
block among many has to be found, the proofs take the largest or least
(`Extremes`). `ExecInv` adds the frames: `FramesOK` says that the top frame is
where its code says, and every other one is at a call. `CallRefUncaught` excludes
bodies with both a `call_ref` and a `try_table`: section 5 shows that the
interpreter then resumes one instruction too far. `NoResidue` excludes compiled
`popcnt`, whose helper may leave 1 in x0 (section 5).

`PendInv` is small (mode, `pending` and `x0` agree), but the marker is set and
tested by frames of either engine, so that it stands on the frames of `ExecInv`.

**ExecEHTriesProofs.** The central property of the exception machinery:

- `HandlersStayExact`:
  `CallRefUncaught /\ NoResidue /\ CleanTries => (Spec => []HandlersExact)`

`CleanTries` excludes the three shapes of section 5 whose handlers the compiler
miscounts, and nothing else: a label that crosses a `try_table` on catching, a stale
`is_try` flag, a `try_table` whose end is dead code. `HandlersExact` counts and orders;
the invariant `TryInv` says it pointwise. Every entry belongs to a frame and to a
`try_table` open in it, every such `try_table` has an entry (`TriesOK`), entries are
sorted by frame and block (`Sorted`), and the compile-time flags are those of
`try_table`s (`TryProg`). A `k`-fold pop is right because the entries of the
innermost blocks are the last ones and their number is the cardinality of a set of
levels (`LevelCut`, `CutTry`), which is what `eh_crossings` counts at compile time
(`CrossingsAre`); `eh_dispatch` is right because the entry it lands on and those
above it are exactly those left (`CaughtAt`, `MatchTry`); leaving a frame by a trap, a
return or an exception drops the entries of that frame (`TriesLeave`). The last step,
from sets to positions, shows that the list of open `try_table`s and the
handler stack are both increasing enumerations of one set (`EntriesAre`, `SameEntry`).

**ExecEHControlProofs.** The refinement.

- `ControlIsImplemented`: under `CallRefUncaught`, `NoResidue`, `CleanTries`,
  `TailsApart` and `HostsSucceed`, `Spec /\ []NoCrash => ImplementsControl`
- `NothingUndefined`: under these and `Harmless`,
  `Spec => []NoCrash /\ ImplementsControl`

So every step of either engine, in every mix, is a call, return, jump, throw, catch or
trap that WebAssembly allows there, or changes nothing that WebAssembly sees. All
hypotheses speak of the instructions programs may use, and the alphabets of
`control`, `loops` and `chain` satisfy them. Each excludes a behaviour of section 5:

- `TailsApart`: no function has both a `try_table` and a tail call of another function.
  An interpreted tail call of compiled code leaves its frame in place, and the
  handlers of that frame would catch the callee's exception (`MCExecEH_tail`);
- `HostsSucceed`: generated code ignores a host function's failure (`MCExecEH_host`);
- `Harmless`: `ctl[0].is_try` happens to be clear (`MCExecEH_ctl0`), no `catch_all` of
  payloads is compiled (`MCExecEH_all`), and there is no `throw_ref`.

With `throw_ref` the first theorem applies: if nothing undefined happens, control
is exact.

An activation list is computed from the frames, so the proof is about lists.
`Listed` numbers the frames that are activations; `Rest` is that list when the last
frame waits too. A small set of moves (the top frame goes on, is replaced, returns,
traps, catches, is left by an exception) says what each of them does to the list
and which step of `WasmControl` it is; each action of `ExecEH` is then one of these
moves. Catching is the hard one: `eh_unwind` searches `ctl[]` of one frame,
`eh_dispatch` searches the shared handler stack across frames, and `WasmControl` takes
the innermost block with a matching clause. That the handler stack holds exactly
the open `try_table`s (`TryInv`) makes the three the same (`Largest`, `Takes`).

The invariant `RefInv` adds what the list depends on: control entries are flagged
as their blocks are (`Flagged`), and a frame that stands for another activation is
about to return. Two details of the mapping matter only for tail calls below tail
calls: such a frame stands for the activation its callee stood for, not for its callee's
frame, and an exception on its way through suspended frames only belongs to no
activation. `MCExecEH_tails.cfg`, which passes, has four functions that tail-call in a
row and reaches both; without either detail it is a counterexample.

**LinearMemoryProofs.** Under `SizeAssumption` (page size and widths are ordered
as the real ones are), `InputAssumption` (inputs have their types) and
`InRange64`:

- `MemoryAccessExact`: `Spec => []AccessExact`
- `MemorySizeExact`: `Spec => []SizeExact`
- `MemoryNeverShrinks`: `Spec => NeverShrinks`
- `MemoryTypeOK`: `Spec => []TypeOK`

for every page size, word width, set of inputs and number of frames. `InRange64`
constrains 64-bit memories only: it names the inputs on which the code's u64
arithmetic does not wrap. The configurations of section 5 show what happens
without the conjuncts on minima, addresses, growth, data segments and slots; the
one on maxima excludes a maximum of 2^48 pages, at which growth to the maximum
wraps the size in bytes. For 32-bit memories the theorems hold for all
inputs.

The inductive invariant `Inv` is the conjunction of

- `MemOK`: bytes are pages times the page size, within the reservation; the
  maximum in bytes does not wrap; a 64-bit memory has at least one page (compiled
  code subtracts an access width from its size);
- `CommitOK`: at least the memory is accessible, and exactly the memory if it is
  32-bit (compiled code relies on the fault);
- `LimitFresh`: the *top* frame's cached limit is the current size. Suspended
  frames may hold stale limits, which is why the property is about the top frame
  only, and why every way back into a frame (`ResumeFresh`) has to reload;
- `AccessExact` and the types of the rest.

`AccessExact` alone is not inductive: an access by compiled code is exact only if
the limit is fresh; freshness is kept by growth only if the new size is
exact; and that needs the maximum not to wrap. The proof has one lemma per action
that touches memory (`AccessInv`, `FillInv`, `CopyInv`, `MemInitInv`, `HostInv`,
`DataInv`, `GrowInv`), one for frames, and `NextInv` combines them.

**LinkingExactProofs, first part.** The tests of `Tables`. For every width `N32` and `M64` with `2 * N32 <= M64`
(`TableWidths`), every table and all operands:

- `FillExact32`, `InitExact32`: the tests of `table.fill`, `copy` and `init` of a
  32-bit table accept exactly the ranges that fit, in both engines, although one
  adds and the other subtracts; `CopyAgrees32`: the engines agree on `table.copy`;
- `GrowExact32`: `table.grow` of a 32-bit table never wraps and stops exactly at
  the maximum;
- `FillExact64`: for 64-bit tables the helpers are exact for all operands, the
  interpreter's sum only while it does not wrap (section 5 shows where it does).

All rest on `SumExact`: the sum of two 32-bit operands does not wrap in 64 bits.

**LinkingProofs.** For every set of modules that satisfies `LinkingMods`, every
host (which modules it instantiates, registers and frees) and every program:

- `LinkTypeOK`: `Spec => []TypeOK`.

The invariant is `TypeInv /\ RefInv`. `TypeInv` says what each phase of an
instantiation has built: during `Import` an instance has as many functions, tables,
memories and globals as imports of that kind precede `cur.k` (`Phase`, by counting:
`CountStep`); after `Define` its index spaces are those the module declares
(`Sized`), which is why segments and instructions index existing records; every
record leads to an existing array, memory and cell (`Leads`), and only existing
instances are registered (`Registered`). `RefInv` says that the functions in
tables, function spaces and the item cache are functions of existing instances.
`DefineType` needs what a recursive function yields, `NewCells`: induction
theorems are out of reach (below), so `CellsKeep` takes the least k at which the
claim fails (`Least`, from well-foundedness) and refutes it.

**LinkingLifeProofs.** What sharing does when instances are freed.

- `GuardsStay`: `WithinReserve => (Spec => []GuardsIntact)`. `WithinReserve` says that
  no memory is declared, or may by default grow, beyond its reservation. It holds of
  all 32-bit memories in the code (4 GiB against 12 GiB). Section 5 has the 64-bit
  memory for which it does not hold and the theorem's conclusion is false. The
  invariant `MemInv` adds `MemsOwned`: if an instance defines a memory that another
  instance uses, it is on the store's list, and `ea_instance_free` is not called on
  instances of that list. Without it, mappedness is not inductive.
- `FreedNeverCalled`: `FreesApart => (Spec => []LeakedCallable)`. The host frees only
  instances that import no table and have no segment of expressions; what other
  frees do is in section 5. `LeakedCallable` is not inductive: a function reaches
  a table by `table.set`, `copy`, `init`, a segment, the item cache or an import. The
  invariant `ApartInv` follows all of these ways: no reference to a `Loose` instance
  (one that can still be freed, or has been) is anywhere but in tables of its
  own, and no other instance has such a table (`TabsOwned`, `FuncsHeld`,
  `RefsApart`, `CacheApart`).

**LinkingExactProofs, second part.** Under `Plain`: no growth of shared tables, `FreesApart`,
32-bit tables only, and modules with a segment of expressions instantiated once.
Each conjunct is needed; section 5 has the behaviour that breaks the conclusion
without it.

- `TablesStayExact`: `Plain => (Spec => []TablesExact)`
- `OutcomesStayExact`: `Plain => (Spec => []OutcomeExact)`
- `PrefixStays`: `Plain => (Spec => []PrefixPersists)`

`TablesExact` compares copies of a record with the one table of `want`; a step of
one instance changes what others see, so it is not inductive. `ExactInv` says that
two records lead to one array exactly when they are one table (`TabsSame`), that
the array and its size are `want`'s in every record of an instance not freed
(`TabsHold`), and that the item cache is empty until the module's only instance
fills it with its own items (`CacheEmpty`, `CacheFirst`, `OneEach`). Growth is the
delicate step: `realloc` may move the array, and the other records would keep
the old one. The theorems of the first part supply that no bounds test of either
engine accepts too much or too little.

`PrefixPersists` speaks of the moment of failure only, with segments written one
step at a time before it. `SnapInv` carries it there: while instantiation `i` is
under way, `snap` covers every table an older instance has (`Older`), nothing is
written before the definitions are done (`Untouched`), and after k segments the
store is `snap` overlaid with exactly these k (`Wrote`). That a step writes the
whole next segment or nothing rests on `OutcomeExact` of the same step. Offsets and
items keep their values meanwhile, since no step between two segments changes a
global or which tables, memories and globals the instance has.

**WasiProofs.** For every set of preopens, all sizes and every guest:

- `WasiTypeOK`: `Spec => []TypeOK`, with the invariant `TypeInv`: entries in use lie
  below `next_fd` (`fd_get` trusts it), platform handles are slots, a file has a
  name inside a preopen and at most `MaxSize` bytes, and a loop over iovecs or
  subscriptions is at a position of its list.
- `NoEscape`: `Spec => []Sandbox`. It needs no assumption on paths: what
  `resolve_path` lets through is prefixed by a preopen, and files are only created
  in `PathOpen`.
- `PollsSleepEnough`: `Spec => []SleptEnough` under `MaxClock <= Range64`. Beyond it
  the sum in `ep_sleep_ns` wraps (section 5). `SleepInv` relates what a poll has
  slept, the target of the sleep under way and what was asked so far.

The same module, under `Proper`: `Uses \subseteq {"clock"}`, no path is cut, and no
pointer is read where flags should be; each has its row in section 5.

- `DescriptorsStayExact`: `Spec => []DescriptorsExact`
- `ContentStaysExact`: `Spec => []ContentExact`

Neither is inductive, and during a call neither is even the right relation: between
two iovecs the file is ahead of `want`, which is only updated when the call answers.
`DataInv` says that outside of reads and writes table, files and `want` agree
(`Exact`: names are unique, each open file's handle leads to the file of that name
and its offset), and that within one there is a state in agreement from which the
call has transferred exactly the iovecs before `call.k` (`Since`). The
lemmas underneath are about the concatenation of iovecs (`Joins`) and about what a
write at an offset does to a file.

- `ResultsStayExact`: `Spec => []ResultExact`, under `Honest`: `Proper` with no `Uses` at
  all, no EXCL and no directory to be created (the code ignores the one and
  creates a file for the other), paths refused exactly if they have a `..`, and
  `MaxSize < Word`. Each has its row in section 5.

`AnswerInv` adds to `DataInv` what answers depend on: per open descriptor the base,
kind and framebuffer fill of its record (`RecInv`); that the last answer was
right (`Truthful`); and per loop under way what it has transferred so far: the
pieces before `call.k` and, after a failure, that it is the first piece that cannot
be written (`WriteInv`), the part of the file before the place reached
(`ReadInv`), or the events of the subscriptions before it (`PollInv`). The answer
itself is computed from the whole list at once (`FailsAt`, `Before`); the lemmas
show that stopping piece by piece comes to the same (`FailsIs`, `PartsJoin`), and that
the strings of `args_get` end where `args_sizes_get` says (`EndsGrow`).

**Only model-checked.**

- `InvokeReturns`, `CallReturns`: liveness under fairness is outside the prover's reach.
- `TypesExact`, `TypeSound`, `MatchExact`, `AccessSafe`, `ImmutableKept` of `GcObjects`:
  they rest on RECURSIVE operators, with which the prover loses its SMT backend.
- `OperandsExact` and `TypeOK` of `ExecEH`, and `NoCrash` for programs with
  `throw_ref`: that the operand is an exception follows from the types of
  all operands, so it needs `OperandsExact`.
- `TypeOK`, `Faithful`, `DepthExact`, `CacheCoherent` of `JitOperands`.

## 5. Departures of the code from its documents

Three are listed as findings with a run each:

| Configuration | Violated | Where | What |
|---|---|---|---|
| `MCExecEH_cross` | HandlersExact | `jit_a64_rt.c:98` | a catch label outside an enclosing `try_table` of the same compiled function leaves that table's handler behind; `PROGRESS.md:716` says every exit pops exactly |
| `MCLinearMemory_growwrap` | NeverShrinks | `runtime.c:295` | `pages + delta` wraps in u64: `memory.grow` succeeds and shrinks a 64-bit memory (memory64 `Overview.md:312-313`) |
| `MCJitOperands_endjoin` | Faithful | `jit_a64.c:1739` | the label of an `end` lies before the write-backs of the path that falls into it, so a branch to it executes stores of registers that hold something else: `if (c) x = 3` with c = 0 changes x (`jit_a64.c:22`, 1741) |

The others were met while modelling. Those of `ExecEH`, the segment cache and the
framebuffer have a configuration of their own, which is not among the runs:

| Configuration | Violated | Where | What |
|---|---|---|---|
| `MCExecEH_popcnt` | PendingExact | `jit_a64.c:1199` | `emit_return` does not clear x0; a return right after a helper that returned 1 looks like a throw (`jit_a64.c:1424`) |
| `MCExecEH_callref` | CtlExact | `interp.c:711` | after a caught exception of an interpreted `call_ref` callee the caller's trailing `pc++` skips the landing instruction (`interp.c:132`: "sp/csp/pc updated") |
| `MCExecEH_deadend` | HandlersExact | `jit_a64.c:1803` | the `end` of a `try_table` closed in dead code emits no pop, though branches reach it; comment at 2030-2033: "keeping exactly one pop per exit" |
| `MCExecEH_wide` | OperandsExact | `validate.c:1766` | a catch label with more results than carried values is accepted; `PROGRESS.md:868-869` says the validator guarantees equality |
| `MCExecEH_uncaught` | StackEmptyAtIdle | `runtime.c:729` | an uncaught exception leaves the value stack as it is; line 680: "stale state from a previous invoke must not leak" |
| `MCExecEH_residue` | OperandsExact | `jit_a64_rt.c:66` | the bridge does not cut `ex->sp` back when an interpreted callee throws into generated code (`interp.c:58-59`) |
| `MCExecEH_allref` | OperandsExact | `interp.c:168-170` | `catch_all_ref` of an exception with a payload lands with the payload's first value instead of the exnref |
| `MCExecEH_all` | NoCrash | `jit_a64_rt.c:121-122` | in generated code `catch_all` of an exception with a payload subtracts more than it has, unsigned; comment at 119-120 |
| `MCExecEH_tail` | ImplementsControl | `interp.c:417-427` | an interpreted `return_call` of compiled code inside a `try_table` still catches the callee's exception (`PROGRESS.md:179-186`) |
| `MCExecEH_host` | ImplementsControl | `jit_a64_rt.c:56` | generated code ignores a host function's failure; `interp.c:389` traps |
| `MCExecEH_ctl0` | NoCrash | `interp.c:209-216` | `ctl[0].is_try` is never written and `eh_unwind` reads it |
| `MCLinking_elemcache` | TablesExact | `runtime.c:565` | items of an element segment are evaluated once per module; a second instance of the module gets the first one's functions |
| `MCWasiFd_fbopen` | NoCrash | `wasi.c:372` | `path_open` of the framebuffer uses `dir` after the table may have moved, and leaves two descriptors whose buffer is freed twice |

The rest are reached by changing constants of a passing configuration:

| Passing configuration, with | Violated | Where | What |
|---|---|---|---|
| `memory`, `Addrs = {0, 255}`, `Offs = {0, 1, 4}` | AccessExact | `interp.c:887`, `jit_a64.c:957` | address plus offset wraps in u64; memory64 `Overview.md:322-324` asks for a 65-bit sum |
| `memory`, `Addrs = {0, 60}`, `Mins <- From0` | AccessExact | `jit_a64.c:1012` | `limit - width` wraps for a 64-bit memory of size 0 |
| `memory`, `DataOffs = {0, 16}` | AccessExact | `runtime.c:637` | the i64 offset of an active segment is cut to 32 bits, although `validate.c:991` types it i64 |
| `memory`, `InitHi = {0, 1}` | AccessExact | `interp.c:957` | the i32 length of `memory.init` is read as i64 (`PROGRESS.md:323`) |
| `memory`, `Mins <- Huge` | SizeExact | `runtime.c:277`, 554 | a declared minimum of 2^48 pages, accepted by the decoder (`PROGRESS.md:329`), is 0 bytes after the shift |
| `linking`, `GrowShared = TRUE` | TablesExact | `runtime.c:422` | growth of a table through one instance leaves the others with the old size and a moved array |
| `linking`, `Frees = {"b"}` | TablesExact | `runtime.c:307` | freeing an importer frees the exporter's array |
| `linking`, `Mods <- Wide`, `MaxInst = 1`, `Once = {}`, `Frees = {}`, `Idx = {0, 1, 63}`, `Deltas = {1, 4}` | OutcomeExact | `interp.c:829` | the interpreter's bounds sum wraps for 64-bit tables |
| the same | GuardsIntact | `runtime.c:297` | a 64-bit memory with a maximum above 12 GiB grows behind its own reservation |
| `wasi`, `Uses = {"shared"}` | DescriptorsExact | `wasi_ewok.c:53` | two descriptors of a file share one offset |
| `wasi`, `Uses = {"past"}` | ContentExact | `wasi_ewok.c:74` | a write behind the end is moved to the end, without a hole |
| `wasi`, `Uses = {"alias"}`, `MaxFiles = 3` | ContentExact | `wasi.c:223` | stdin, directories and the framebuffer keep platform handle 0, which names the first RAM file |
| `wasi`, `Uses = {"start"}` | ResultExact | `main.c:71` | the start function runs before `ea_wasi_bind`, so its calls have no memory |
| `wasi`, `Uses = {"clock"}` | ResultExact | `wasi.c:448` | clock subscriptions (tag 0) are answered ENOTSUP, all others sleep; the tag read is byte 0 of the subscription, which in preview 1 is user data |
| `wasi`, `Uses = {"high"}` | ResultExact | `wasi.c:275`, 283 | `fd_seek` and `fd_tell` store 32 bits of a u64 offset, so the upper word is whatever the guest had there; `file_seek_tell.rs:23-53` reads a u64 (the demos declare an `int`, `demos/wasi_file.c:12`) |
| `wasi`, `Word = 2` | ResultExact | `wasi.c:275`, 283 | the same for an offset that does not fit in a word, even if the upper one was zero |
| `wasi`, `Uses = {"size"}` | ResultExact | `wasi.c:308` | `fd_filestat_get` puts the size at byte 24, where the number of links belongs; the size, at byte 32, reads as 0 (`path_open_read_write.rs:111-116`) |
| `wasi`, `Escapes = {"up", "f"}` | ResultExact | `wasi.c:344` | every path with a `..` is refused, also one that stays inside (`interesting_paths.rs:24-34`) |
| `wasi`, `Outside = {"up", "f"}` | ResultExact | `wasi.c:348` | an absolute path is opened, below the preopen, and not refused (`interesting_paths.rs:16-22`) |
| `wasi`, `Flags = {{"creat"}, {"directory"}}` | ResultExact | `wasi.c:378` | the flag for a directory creates a file |
| `wasi`, `Flags <- Exclusive` | ResultExact | `wasi.c:379` | EXCL is ignored |
| `wasi`, `Flags <- Odd` | ContentExact | `wasi.c:355` | bit 0 of the address for the result is taken for a flag that truncates |
| `wasi`, `Cut <- CutLong` | ContentExact | `wasi.c:341` | paths longer than 511 bytes are cut, so two names are one file |
| `wasi`, `Range64 = 3` | SleptEnough | `wasi_ewok.c:188` | the target of a sleep wraps for timeouts near 2^64 |
| `window`, `Uses = {"fpush"}` | Faithful | `jit_a64.c:428` | references to cached locals that lie below float pushes are spilled above them |
| `window`, `Uses = {"fset"}` | Faithful | `jit_a64.c:893` | a float result stored to a local does not first copy out the references to it |
| `window`, `Uses = {"thrash"}` | Faithful | `jit_a64.c:588` | a warm loop gives up a register that was dirty in the previous iteration without a store |
| `window`, `Uses = {"bulk"}` | DepthExact | `jit_a64_rt.c:273` | the helpers of `memory.fill`, `copy` and `init` return `sp - 3` to code whose operands grow downwards |
| `gc`, `Uses = {"anydown"}` | TypeSound | `validate.c:310` | anyref flows into every reference type |
| `gc`, `Uses = {"externup"}` | TypeSound | `validate.c:380` | concrete struct and array references are accepted as externref |
| `gc`, `LabelArity = {1, 2}` | TypeSound | `validate.c:1703` | `br_on_cast` to a label with two results pushes the remaining operand under the other |
| `gc`, `Uses = {"constfill"}` | ImmutableKept | `validate.c:1556` | `array.fill`, `copy` and `init` do not ask for a mutable array |
| `gc`, `Uses = {"foreign"}` | MatchExact | `interp.c:116` | an object's type index is looked up in the section of the module that tests it |
| `gc`, `HostTags = {2}` | MatchExact | `easm.h:346` | a host reference whose low bits are 10 passes for an i31 |
| `gc`, `N32 = 4` | AccessSafe | `interp.c:1089`, 1216 | the bytes of an array made from a data segment are a product in 32 bits |
| `gc`, `CanonDepth = 1` | TypesExact | `validate.c:156` | comparisons answer "different" at the depth limit, 12 in the code |
| `gc`, with `Field(TREF(1), TRUE)` in `TypeMenu` | TypesExact | `validate.c:144` | fields that differ in nullability count as equal |
| `gc`, `EdgesChecked = FALSE`, on the section of a struct with a field and an empty struct declared its subtype | AccessSafe | `validate.c:266` | no declared supertype is checked, although the comment says the variance "was validated when the (sub ...) type was decoded" |

One departure concerns no property. `validate.c:922` passes `n_imp_globals + i`,
where `i` already counts the imports, as the number of globals an initialiser may
read. In a module with imported globals an initialiser may therefore read its
own global or a later one, which holds 0 at that time. `Valid` and `NewCells`
have both.

`window` with one of the `Uses` is quick on the menu it concerns (`FloatMenu`,
`WarmMenu`, `BulkMenu`), `wasi` with `Flags <- Creating` and `Subs <- NoPolls`.

## 6. What is not modelled, and why

- *Byte-level decoding* (LEB128, sections other than the type section): a pure
  parser without state that outlives it.
- *Module-level validation, numeric signatures, constant expressions*: tables of
  types without sequences of steps; the models assume modules that pass them.
- *Numeric and SIMD semantics* (`arith.c`, `simd_exec.c`): pure functions on 32
  to 128 bits and floating point, out of TLC's reach.
- *Instruction encoding* (`a64_emit.h`): bit layouts without state. Inline SIMD,
  operand widths, `br_table` and dead code in the operand window: the window
  treats them by flushing, which `JitOperands` has in other instructions.
- *Code region*: mapping, protection and publication of generated code, one system
  call each, are external; `Publish` has the outcome, compiled or not.
- *POSIX and Win32 WASI layers, GUI, argument handling, wast driver*: I/O and
  tools around the runtime. `random_get`, `clock_res_get`, `sched_yield` and
  opening a directory have no state of their own on the modelled back end.
- *`call_ref` and `call_indirect` on GC function types, `ref.eq`, packed fields,
  numbers in fields*: data the properties do not tell apart, or control that
  `ExecEH` and `Linking` have. The check of imported globals reads the exporter's
  type in the importer's section (`runtime.c:468`); with one module per body the
  model does not reach it.
- *Threads*: wasm runs on one thread.

## 7. Plan

1. `WasmProgram`, `ExecEH`, `WasmControl` with runs `control`, `operands`,
   `chain`, `loops`; `HandlersEmptyAtIdle`. *Done.*
2. `LinearMemory` with run `memory` and its four theorems. *Done.*
3. `Tables`, `Linking` with run `linking`; the theorems on table tests. *Done.*
4. `EwokRamFs`, `WasiFd` with run `wasi`. *Done.*
5. `JitOperands` with run `window`. *Done.*
6. `GcTypes`, `GcObjects` with run `gc`. *Done.*
7. `LinkingProofs`, `LinkingLifeProofs`, `LinkingExactProofs`, `WasiProofs`. *Done.*
8. `ControlStaysExact`, `PendingStaysExact`, `HandlersStayExact`. *Done.*
9. `ControlIsImplemented`, `NothingUndefined`. *Done.*
