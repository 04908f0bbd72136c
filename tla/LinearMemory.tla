---------------------------- MODULE LinearMemory ----------------------------
(***************************************************************************)
(* One linear memory of easm, shared by every instance that imports it:    *)
(* its reservation and page protection (runtime.c), memory.grow, loads,    *)
(* stores and bulk operations in the interpreter (interp.c), in generated  *)
(* code (jit_a64.c) and in the run-time helpers (jit_a64_rt.c), the bounds *)
(* check of the WASI layer (wasi.c) and active data segments.              *)
(*                                                                         *)
(* Bytes are left out: an access is its address range and what becomes of  *)
(* it.  The widths are scaled: M32 stands for 2^32, M64 for 2^64 and Page  *)
(* for 65536; every u64 sum and shift of the code is taken modulo M64.     *)
(***************************************************************************)
EXTENDS Integers, Sequences

CONSTANTS
  Page,       \* bytes of a page
  N32,        \* pages of the largest 32-bit memory: 65536
  M64,        \* 2^64
  Kinds,      \* values of is64
  Mins,       \* Mins[is64]: declared minimum sizes, in pages
  Maxs,       \* declared maximum sizes
  Addrs, Offs, Widths,     \* of loads and stores: operand, memarg offset, bytes
  Lens,       \* lengths of bulk operations and host accesses
  Deltas,     \* operands of memory.grow
  DataOffs,   \* offsets of active data segments
  InitHi,     \* stale upper halves of an i32 operand slot
  DataLen,    \* bytes of the passive data segment
  MaxFrames   \* bound: active frames

M32 == N32 * Page
Reserve == 3 * M32                      \* EA_MEM_RESERVE, 12 GiB
PageLimit(is64) == IF is64 THEN M64 \div Page ELSE N32
NoMax == -1

VARIABLES
  mem,        \* EaMemInst: is64, pages, max (max_pages), size in bytes
  commit,     \* the first `commit' bytes of the reservation are accessible
  frames,     \* active frames; limit is x26 of a JIT frame whose instance has
              \* this memory as memory 0 (m0)
  data_alive, \* the passive segment was not dropped
  acc         \* last access: what the code did (res), and whether its ranges
              \* really fit the memory (fits)

vars == <<mem, commit, frames, data_alive, acc>>

ASSUME SizeAssumption ==
  /\ Page \in Nat \ {0} /\ N32 \in Nat \ {0} /\ M64 \in Nat
  /\ 8 * M32 <= M64
ASSUME InputAssumption ==
  /\ Kinds \subseteq BOOLEAN /\ Mins \in [BOOLEAN -> SUBSET Nat]
  /\ Maxs \subseteq Nat /\ DataLen \in Nat /\ MaxFrames \in Nat
  /\ Addrs \subseteq 0 .. M64 - 1 /\ Offs \subseteq 0 .. M64 - 1
  /\ Lens \subseteq 0 .. M64 - 1 /\ Deltas \subseteq 0 .. M64 - 1
  /\ DataOffs \subseteq 0 .. M64 - 1 /\ InitHi \subseteq 0 .. (M64 \div M32) - 1
  /\ Widths \subseteq 1 .. Page

\* operand values an index of this memory can have
Index(S) == {x \in S : mem.is64 \/ x < M32}
I32(S)   == {x \in S : x < M32}

NoAcc == [res |-> "none", fits |-> TRUE]
Top   == frames[Len(frames)]
Front == SubSeq(frames, 1, Len(frames) - 1)

----------------------------------------------------------------------------
(* Frames.  Generated code caches the size in x26; every way back into a   *)
(* JIT frame reloads it.                                                   *)

\* load_mem_regs
Loaded(F) == IF F.k = "jit" /\ F.m0 THEN [F EXCEPT !.limit = mem.size] ELSE F

NewFrame(k, m0) == Loaded([k |-> k, m0 |-> m0, limit |-> 0])

\* an invoke, or a call from the top frame
Call(k, m0) ==
  /\ Len(frames) < MaxFrames
  /\ frames' = Append(frames, NewFrame(k, m0))
  /\ UNCHANGED <<mem, commit, data_alive, acc>>

\* a tail call: the new frame takes the caller's place, except that a compiled
\* callee of an interpreted function runs on top of it
TailCall(k, m0) ==
  /\ frames # <<>> /\ (Top.k = "jit" \/ k = "interp")
  /\ frames' = Append(Front, NewFrame(k, m0))
  /\ UNCHANGED <<mem, commit, data_alive, acc>>

\* mutant: the caller goes on with the size it knew before the call
ReturnStale ==
  /\ frames # <<>> /\ frames' = Front
  /\ UNCHANGED <<mem, commit, data_alive, acc>>

\* the frames once the top frame is gone and its caller has reloaded
Resumed == IF Front = <<>> THEN <<>> ELSE [Front EXCEPT ![Len(Front)] = Loaded(@)]

\* the top frame returns; a JIT caller runs reload_ctx behind the call
Return ==
  /\ frames # <<>> /\ frames' = Resumed
  /\ UNCHANGED <<mem, commit, data_alive, acc>>

\* the top frame throws; a JIT caller's resume stub reloads before it looks
\* for a handler
Unwind ==
  /\ frames # <<>> /\ frames' = Resumed
  /\ UNCHANGED <<mem, commit, data_alive, acc>>

----------------------------------------------------------------------------
(* memory.grow *)

\* mutant: the limit is compared with the increment alone
CanGrowBy(want, d) == d <= mem.max

\* the tests of ea_grow_memory
CanGrow(want, d) == want <= mem.max /\ (mem.is64 \/ want <= N32)

\* mutant: the new pages stay inaccessible
NoCommit(len) == commit' = commit

\* mprotect of the first len bytes succeeds
Committed(len) == commit' = IF len > commit THEN len ELSE commit

\* mutant: the memory is set to the increment
WantedOnly(d) == d

\* pages + delta in u64
Wanted(d) == (mem.pages + d) % M64

\* ea_grow_memory.  mprotect may fail at any time; past the reservation, where
\* the address space is taken to be unmapped, it fails and may already have
\* changed the reservation itself.
ea_grow_memory(d) ==
  LET want == Wanted(d)
      len  == (want * Page) % M64
  IN \/ /\ CanGrow(want, d) /\ len <= Reserve
        /\ Committed(len)
        /\ mem' = [mem EXCEPT !.pages = want, !.size = len]
     \/ /\ mem' = mem
        /\ \/ commit' = commit
           \/ CanGrow(want, d) /\ len > Reserve /\ commit' = Reserve

\* memory.grow: interpreted, or the helper followed by reload_ctx
Grow(d) ==
  /\ frames # <<>>
  /\ ea_grow_memory(d)
  /\ frames' = IF Top.k = "jit" /\ Top.m0
               THEN [frames EXCEPT ![Len(frames)].limit = mem'.size] ELSE frames
  /\ UNCHANGED <<data_alive, acc>>

----------------------------------------------------------------------------
(* Accesses.  A refused access traps and ends the invoke. *)

Fits(start, n) == start + n <= mem.size

\* what an access of n bytes at offset ea from the base meets: committed
\* pages, a fault the SIGSEGV handler takes for a trap, or anything else
Touch(ea, n) ==
  IF ea + n <= commit THEN "ok"
  ELSE IF (IF ea > commit THEN ea ELSE commit) < Reserve THEN "trap"
  ELSE "wild"

\* the check of the interpreter
InterpAccess(ea, w) ==
  IF w > mem.size \/ ea > mem.size - w THEN "trap" ELSE Touch(ea, w)

\* generated code: no check for a 32-bit memory; for a 64-bit one the limit is
\* x26 for memory 0 and loaded on demand for the others
JitAccess(F, ea, w) ==
  LET limit == IF F.m0 THEN F.limit ELSE mem.size
  IN IF mem.is64 /\ ea > (limit - w) % M64 THEN "trap" ELSE Touch(ea, w)

Finish(res, fits) ==
  /\ acc' = [res |-> res, fits |-> fits]
  /\ frames' = IF res = "trap" THEN <<>> ELSE frames
  /\ UNCHANGED <<mem, commit, data_alive>>

\* a load or store
Access(a, o, w) ==
  /\ frames # <<>>
  /\ LET ea == (a + o) % M64
     IN Finish(IF Top.k = "jit" THEN JitAccess(Top, ea, w) ELSE InterpAccess(ea, w),
               Fits(a + o, w))

\* memory.fill, in both engines
Fill(d, n) ==
  /\ frames # <<>>
  /\ Finish(IF d > mem.size \/ n > mem.size - d THEN "trap" ELSE Touch(d, n),
            Fits(d, n))

\* memory.copy within the memory: the engines test the ranges in different forms
Copy(d, s, n) ==
  /\ frames # <<>>
  /\ LET bad(x) == IF Top.k = "jit" THEN x > mem.size \/ n > mem.size - x
                   ELSE n > mem.size \/ x > mem.size - n
     IN Finish(IF bad(s) \/ bad(d) THEN "trap"
               ELSE IF Touch(s, n) # "ok" THEN Touch(s, n) ELSE Touch(d, n),
               Fits(s, n) /\ Fits(d, n))

\* memory.init: the interpreter reads the length of a 64-bit memory's init as
\* an i64, although it is an i32 in a slot whose upper half is stale
Init_(d, s, n, hi) ==
  /\ frames # <<>>
  /\ LET m    == IF Top.k = "interp" /\ mem.is64 THEN n + hi * M32 ELSE n
         dlen == IF data_alive THEN DataLen ELSE 0
     IN Finish(IF (s + m) % M64 > dlen THEN "trap"
               ELSE IF m > mem.size \/ d > mem.size - m THEN "trap"
               ELSE Touch(d, m),
               s + n <= dlen /\ Fits(d, n))

\* data.drop
DataDrop ==
  /\ frames # <<>>
  /\ data_alive' = FALSE
  /\ UNCHANGED <<mem, commit, frames, acc>>

\* mem_ptr: a WASI call reads or writes len bytes at a 32-bit offset
WasiAccess(off, len) ==
  /\ frames # <<>>
  /\ acc' = [res |-> IF off + len > mem.size THEN "error" ELSE Touch(off, len),
             fits |-> Fits(off, len)]
  /\ UNCHANGED <<mem, commit, frames, data_alive>>

\* an instance that imports the memory is created: its active data segment is
\* written at an offset cut to 32 bits
ActiveData(off, len) ==
  /\ frames = <<>>
  /\ LET lo == off % M32
     IN acc' = [res |-> IF len > mem.size \/ lo > mem.size - len THEN "error"
                        ELSE Touch(lo, len),
                fits |-> Fits(off, len)]
  /\ UNCHANGED <<mem, commit, frames, data_alive>>

----------------------------------------------------------------------------
\* instantiation: declared limits the decoder accepts, a reservation whose
\* first pages could be made accessible
Init ==
  /\ \E is64 \in Kinds : \E min \in Mins[is64] : \E max \in Maxs \cup {NoMax} :
       LET size == (min * Page) % M64
       IN /\ min <= PageLimit(is64)
          /\ max # NoMax => min <= max /\ max <= PageLimit(is64)
          /\ size <= Reserve
          /\ mem = [is64 |-> is64, pages |-> min, size |-> size,
                    max |-> IF max = NoMax THEN N32 ELSE max]
          /\ commit = size
  /\ frames = <<>> /\ data_alive = TRUE /\ acc = NoAcc

Next ==
  \/ \E k \in {"interp", "jit"}, m0 \in BOOLEAN : Call(k, m0) \/ TailCall(k, m0)
  \/ Return \/ Unwind \/ DataDrop
  \/ \E d \in Index(Deltas) : Grow(d)
  \/ \E a \in Index(Addrs), o \in Index(Offs), w \in Widths : Access(a, o, w)
  \/ \E d \in Index(Addrs), n \in Index(Lens) : Fill(d, n)
  \/ \E d \in Index(Addrs), s \in Index(Addrs), n \in Index(Lens) : Copy(d, s, n)
  \/ \E d \in Index(Addrs), s \in I32(Lens), n \in I32(Lens), hi \in InitHi :
       Init_(d, s, n, hi)
  \/ \E off \in I32(Addrs), len \in I32(Lens) : WasiAccess(off, len)
  \/ \E off \in Index(DataOffs), len \in I32(Lens) : ActiveData(off, len)

Spec == Init /\ [][Next]_vars

----------------------------------------------------------------------------
\* The inputs of 64-bit memories on which no u64 sum or shift of the code wraps:
\* addresses, growth and maximum sizes below 2^64 bytes, a declared minimum of
\* one page to the default maximum, data segments below 2^32 and clean i32
\* slots.  32-bit memories need none of this.
InRange64 ==
  TRUE \in Kinds =>
    /\ \A m \in Mins[TRUE] : m # 0 /\ m <= N32
    /\ \A m \in Maxs : m * Page < M64
    /\ \A a \in Addrs, o \in Offs : a + o < M64
    /\ \A d \in Deltas : d + 3 * N32 < M64
    /\ \A x \in DataOffs : x < M32
    /\ \A h \in InitHi : h = 0

\* Every field of the memory and of the frames keeps its type, and the memory
\* stays within its declared maximum.
TypeOK ==
  /\ mem \in [is64 : BOOLEAN, pages : 0 .. mem.max, max : Nat, size : 0 .. M64 - 1]
  /\ commit \in 0 .. Reserve /\ data_alive \in BOOLEAN
  /\ \A i \in DOMAIN frames :
       frames[i] \in [k : {"interp", "jit"}, m0 : BOOLEAN, limit : 0 .. M64 - 1]
  /\ acc \in [res : {"none", "ok", "trap", "error", "wild"}, fits : BOOLEAN]

\* The size in bytes is the size in pages and is backed by accessible pages;
\* a 32-bit memory, which generated code accesses without a check, has not one
\* byte more.
SizeExact ==
  /\ mem.size = mem.pages * Page
  /\ mem.size <= commit
  /\ mem.is64 \/ commit = mem.size

\* Whoever accesses the memory, interpreted code, generated code with a cached
\* size, a run-time helper, a WASI call or an instantiation, and whoever grew
\* it before: an access succeeds exactly when its whole range, in unbounded
\* arithmetic, lies in the memory, and is refused otherwise.
AccessExact ==
  acc.res # "none" => /\ acc.res # "wild"
                      /\ acc.res = "ok" <=> acc.fits

\* No step makes the memory smaller.
NeverShrinks == [][mem'.pages >= mem.pages /\ mem'.size >= mem.size]_vars
=============================================================================
