------------------------- MODULE LinearMemoryProofs -------------------------
(***************************************************************************)
(* Linear memory is exact for every page size, every word width and every  *)
(* set of inputs that does not wrap a 64-bit memory's u64 arithmetic.      *)
(***************************************************************************)
EXTENDS LinearMemory, TLAPS

\* A remainder below its modulus is the number itself: the u64 arithmetic of
\* ea_grow_memory and of the effective address does not wrap.
LEMMA ModSmall == ASSUME NEW x \in Nat, NEW m \in Nat, x < m PROVE x % m = x
OBVIOUS

\* Scaling by the page size keeps order.
LEMMA PagesOrder ==
  ASSUME NEW x \in Nat, NEW y \in Nat, NEW p \in Nat, x <= y
  PROVE  x * p \in Nat /\ x * p <= y * p
OBVIOUS

----------------------------------------------------------------------------
(* The inductive invariant.  SizeExact alone is not inductive: a grow is    *)
(* exact only below the reservation, and an access only if the top frame's  *)
(* cached limit is the current size.                                        *)

FrameType == [k : {"interp", "jit"}, m0 : BOOLEAN, limit : 0 .. M64 - 1]
AccType == [res : {"none", "ok", "trap", "error", "wild"}, fits : BOOLEAN]

MemOK ==
  /\ mem \in [is64 : Kinds, pages : Nat, max : Nat, size : Nat]
  /\ mem.size = mem.pages * Page
  /\ mem.size <= Reserve
  /\ mem.max * Page < M64
  /\ mem.pages <= mem.max
  /\ mem.pages <= 3 * N32
  /\ mem.is64 \/ mem.size <= M32
  /\ mem.is64 => mem.size >= Page

CommitOK ==
  /\ commit \in Nat
  /\ mem.size <= commit /\ commit <= Reserve
  /\ mem.is64 \/ commit = mem.size

\* the frame that executes knows the current size
LimitFresh ==
  /\ frames \in Seq(FrameType)
  /\ frames # <<>> /\ Top.k = "jit" /\ Top.m0 => Top.limit = mem.size

Inv == MemOK /\ CommitOK /\ LimitFresh /\ AccessExact /\ acc \in AccType /\ data_alive \in BOOLEAN

\* The scaled widths are natural numbers in the order of the real ones.
LEMMA Widths64 ==
  /\ M32 \in Nat /\ Reserve \in Nat /\ Reserve = 3 * M32 /\ 8 * M32 <= M64
  /\ Page <= M32 /\ N32 <= M32 /\ M64 \in Nat /\ Page \in Nat /\ Page >= 1
  /\ N32 \in Nat /\ 0 < M32
<1>1. M32 \in Nat /\ Page <= M32 /\ N32 <= M32 /\ 0 < M32
  <2>1. 1 * Page <= N32 * Page BY PagesOrder, SizeAssumption
  <2>2. 1 * N32 <= Page * N32 BY PagesOrder, SizeAssumption
  <2> QED BY <2>1, <2>2, SizeAssumption DEF M32
<1> QED BY <1>1, SizeAssumption DEF Reserve

\* Instantiation establishes the invariant.
LEMMA InitInv == ASSUME InRange64, Init PROVE Inv
<1> USE Widths64
<1>1. PICK is64 \in Kinds : \E min \in Mins[is64] : \E max \in Maxs \cup {NoMax} :
       LET size == (min * Page) % M64
       IN /\ min <= PageLimit(is64)
          /\ max # NoMax => min <= max /\ max <= PageLimit(is64)
          /\ size <= Reserve
          /\ mem = [is64 |-> is64, pages |-> min, size |-> size,
                    max |-> IF max = NoMax THEN N32 ELSE max]
          /\ commit = size
  BY DEF Init
<1>2. PICK min \in Mins[is64] : \E max \in Maxs \cup {NoMax} :
       LET size == (min * Page) % M64
       IN /\ min <= PageLimit(is64)
          /\ max # NoMax => min <= max /\ max <= PageLimit(is64)
          /\ size <= Reserve
          /\ mem = [is64 |-> is64, pages |-> min, size |-> size,
                    max |-> IF max = NoMax THEN N32 ELSE max]
          /\ commit = size
  BY <1>1
<1>3. PICK max \in Maxs \cup {NoMax} :
          /\ min <= PageLimit(is64)
          /\ max # NoMax => min <= max /\ max <= PageLimit(is64)
          /\ (min * Page) % M64 <= Reserve
          /\ mem = [is64 |-> is64, pages |-> min, size |-> (min * Page) % M64,
                    max |-> IF max = NoMax THEN N32 ELSE max]
          /\ commit = (min * Page) % M64
  BY <1>2
<1>4. is64 \in BOOLEAN /\ min \in Nat /\ (max # NoMax => max \in Nat)
  BY InputAssumption
<1>5. is64 => min # 0 BY DEF InRange64
<1>6. min <= N32 BY <1>3 DEF PageLimit, InRange64
<1>7. min * Page <= M32 BY <1>4, <1>6, PagesOrder DEF M32
<1>8. min * Page \in Nat /\ min * Page < M64 BY <1>4, <1>7, PagesOrder
<1>9. (min * Page) % M64 = min * Page BY <1>8, ModSmall
<1>10. is64 => min * Page >= Page
  BY <1>4, <1>5, PagesOrder
<1>11. min <= 3 * N32 /\ min <= mem.max BY <1>3, <1>4, <1>6
<1>12. mem.max \in Nat /\ mem.max * Page < M64
  <2>1. CASE max = NoMax BY <2>1, <1>3 DEF M32
  <2>2. CASE max # NoMax
    <3>1. mem.max = max BY <2>2, <1>3
    <3>2. CASE is64 BY <3>1, <3>2, <2>2, <1>4 DEF InRange64
    <3>3. CASE ~is64
      <4>1. max * Page <= N32 * Page
        BY <1>3, <1>4, <2>2, <3>3, PagesOrder DEF PageLimit
      <4> QED BY <4>1, <3>1, <2>2, <1>4 DEF M32
    <3> QED BY <3>2, <3>3, <1>4
  <2> QED BY <2>1, <2>2
<1>13. MemOK
  BY <1>3, <1>4, <1>7, <1>8, <1>9, <1>10, <1>11, <1>12 DEF MemOK
<1>14. CommitOK BY <1>3, <1>8, <1>9 DEF CommitOK
<1>15. LimitFresh /\ AccessExact BY DEF Init, LimitFresh, AccessExact, NoAcc
<1>16. acc \in AccType /\ data_alive \in BOOLEAN BY DEF Init, NoAcc, AccType
<1> QED BY <1>13, <1>14, <1>15, <1>16 DEF Inv

----------------------------------------------------------------------------
(* Steps that only change the frames. *)

\* load_mem_regs gives a frame the current size.
LEMMA LoadedFresh ==
  ASSUME MemOK, NEW F \in FrameType
  PROVE  /\ Loaded(F) \in FrameType
         /\ Loaded(F).k = "jit" /\ Loaded(F).m0 => Loaded(F).limit = mem.size
<1>1. mem.size \in 0 .. M64 - 1 BY Widths64 DEF MemOK
<1> QED BY <1>1 DEF FrameType, Loaded

\* A frame put on top of any frames is fresh after a call or a tail call.
LEMMA PushFresh ==
  ASSUME MemOK, NEW fs \in Seq(FrameType), NEW F \in FrameType,
         frames' = Append(fs, Loaded(F)), UNCHANGED mem
  PROVE  LimitFresh'
<1>1. Loaded(F) \in FrameType BY LoadedFresh
<1>2. frames' \in Seq(FrameType) /\ Len(frames') = Len(fs) + 1
  BY <1>1
<1>3. frames'[Len(frames')] = Loaded(F) BY <1>1
<1> QED BY <1>2, <1>3, LoadedFresh DEF LimitFresh, Top

\* Whatever way the top frame is left, the frame below it resumes fresh.
LEMMA ResumeFresh ==
  ASSUME MemOK, LimitFresh, frames # <<>>, frames' = Resumed, UNCHANGED mem
  PROVE  LimitFresh'
<1>1. frames \in Seq(FrameType) BY DEF LimitFresh
<1>2. Front \in Seq(FrameType) BY <1>1 DEF Front
<1>3. CASE Front = <<>> BY <1>3 DEF Resumed, LimitFresh
<1>4. CASE Front # <<>>
  <2> DEFINE n == Len(Front)
  <2>1. n \in 1 .. n /\ Front[n] \in FrameType BY <1>2, <1>4
  <2>2. frames' = [Front EXCEPT ![n] = Loaded(Front[n])]
    BY <1>4 DEF Resumed
  <2>3. Loaded(Front[n]) \in FrameType BY <2>1, LoadedFresh
  <2>4. frames' \in Seq(FrameType) /\ Len(frames') = n
    <3>1. n \in Nat /\ Front \in [1 .. n -> FrameType] BY <1>2
    <3>2. frames' \in [1 .. n -> FrameType] BY <3>1, <2>2, <2>3
    <3> HIDE DEF n
    <3> QED BY <3>1, <3>2
  <2>5. frames'[n] = Loaded(Front[n]) BY <1>2, <2>1, <2>2
  <2> QED BY <2>1, <2>4, <2>5, LoadedFresh DEF LimitFresh, Top
<1> QED BY <1>3, <1>4

\* A step that leaves the memory and the last access alone keeps the rest.
LEMMA FrameStep ==
  ASSUME Inv, LimitFresh', UNCHANGED <<mem, commit, acc>>,
         data_alive' \in BOOLEAN
  PROVE  Inv'
BY DEF Inv, MemOK, CommitOK, AccessExact

----------------------------------------------------------------------------
(* Steps that access the memory. *)

\* Committed pages can be touched.
LEMMA TouchInside ==
  ASSUME Inv, NEW ea \in Nat, NEW n \in Nat, ea + n <= mem.size
  PROVE  Touch(ea, n) = "ok"
BY DEF Inv, MemOK, CommitOK, Touch

\* A step that only records an access keeps the invariant if it is exact and
\* leaves at most the frames there were.
LEMMA AccessStep ==
  ASSUME Inv, UNCHANGED <<mem, commit, data_alive>>, frames' \in {frames, <<>>},
         acc' \in AccType,
         acc'.res # "wild", acc'.res = "ok" <=> acc'.fits
  PROVE  Inv'
<1>1. CASE frames' = frames
  <2>1. LimitFresh' BY <1>1 DEF Inv, LimitFresh, Top
  <2> QED BY <2>1 DEF Inv, MemOK, CommitOK, AccessExact
<1>2. CASE frames' = <<>>
  <2>1. LimitFresh' BY <1>2 DEF LimitFresh
  <2> QED BY <2>1 DEF Inv, MemOK, CommitOK, AccessExact
<1> QED BY <1>1, <1>2

\* An access of the running code that is refused exactly when it does not fit
\* keeps the invariant.
LEMMA ExactStep ==
  ASSUME Inv, NEW fits \in BOOLEAN, Finish(IF fits THEN "ok" ELSE "trap", fits)
  PROVE  Inv'
<1>1. acc' = [res |-> IF fits THEN "ok" ELSE "trap", fits |-> fits] BY DEF Finish
<1>2. (acc'.res = "ok" <=> acc'.fits) /\ acc'.res # "wild" /\ acc' \in AccType
  BY <1>1 DEF AccType
<1>3. frames' \in {frames, <<>>} /\ UNCHANGED <<mem, commit, data_alive>> BY DEF Finish
<1> QED BY <1>2, <1>3, AccessStep

\* Loads and stores are exact in both engines.
LEMMA AccessInv ==
  ASSUME InRange64, Inv, NEW a \in Index(Addrs), NEW o \in Index(Offs),
         NEW w \in Widths, Access(a, o, w)
  PROVE  Inv'
<1> USE Widths64
<1>1. a \in Nat /\ o \in Nat /\ w \in Nat /\ 1 <= w /\ w <= Page
  BY InputAssumption DEF Index
<1>2. a + o < M64 /\ (~mem.is64 => a + o < 2 * M32)
  <2>1. CASE mem.is64 BY <2>1, <1>1 DEF Inv, MemOK, InRange64, Index
  <2>2. CASE ~mem.is64 BY <2>2, <1>1 DEF Index
  <2> QED BY <2>1, <2>2
<1>3. (a + o) % M64 = a + o BY <1>1, <1>2, ModSmall
<1>4. mem.size \in Nat /\ mem.is64 \in BOOLEAN /\ mem.size <= Reserve
  BY InputAssumption DEF Inv, MemOK
<1>5. frames # <<>> /\ UNCHANGED <<mem, commit>> BY DEF Access, Finish
<1>6. Top \in FrameType BY <1>5 DEF Inv, LimitFresh, Top
<1>7. a + o + w <= mem.size => Touch(a + o, w) = "ok" BY <1>1, TouchInside
<1>8. CASE Top.k # "jit"
  <2>1. InterpAccess(a + o, w) = IF a + o + w <= mem.size THEN "ok" ELSE "trap"
    BY <1>1, <1>4, <1>7 DEF InterpAccess
  <2>2. Finish(IF Fits(a + o, w) THEN "ok" ELSE "trap", Fits(a + o, w))
    BY <2>1, <1>3, <1>8 DEF Access, Fits
  <2>3. Fits(a + o, w) \in BOOLEAN BY DEF Fits
  <2> QED BY <2>2, <2>3, ExactStep
<1>9. CASE Top.k = "jit"
  <2>1. JitAccess(Top, a + o, w) = IF a + o + w <= mem.size THEN "ok" ELSE "trap"
    <3>1. CASE mem.is64
      <4>1. (IF Top.m0 THEN Top.limit ELSE mem.size) = mem.size
        BY <1>5, <1>9 DEF Inv, LimitFresh
      <4>2. mem.size - w \in Nat /\ mem.size - w < M64
        BY <3>1, <1>1, <1>4 DEF Inv, MemOK
      <4>3. (mem.size - w) % M64 = mem.size - w BY <4>2, ModSmall
      <4> QED BY <3>1, <4>1, <4>3, <1>1, <1>4, <1>7 DEF JitAccess
    <3>2. CASE ~mem.is64
      <4>1. commit = mem.size /\ mem.size <= M32
        BY <3>2 DEF Inv, CommitOK, MemOK
      <4> QED BY <3>2, <4>1, <1>1, <1>2, <1>4 DEF JitAccess, Touch
    <3> QED BY <3>1, <3>2, <1>4
  <2>2. Finish(IF Fits(a + o, w) THEN "ok" ELSE "trap", Fits(a + o, w))
    BY <2>1, <1>3, <1>9 DEF Access, Fits
  <2>3. Fits(a + o, w) \in BOOLEAN BY DEF Fits
  <2> QED BY <2>2, <2>3, ExactStep
<1> QED BY <1>8, <1>9

\* memory.fill is exact, and its two tests cannot wrap.
LEMMA FillInv ==
  ASSUME Inv, NEW d \in Index(Addrs), NEW n \in Index(Lens), Fill(d, n)
  PROVE  Inv'
<1>1. d \in Nat /\ n \in Nat BY InputAssumption, Widths64 DEF Index
<1>2. mem.size \in Nat BY DEF Inv, MemOK
<1>3. d + n <= mem.size => Touch(d, n) = "ok" BY <1>1, TouchInside
<1>4. (IF d > mem.size \/ n > mem.size - d THEN "trap" ELSE Touch(d, n))
        = IF Fits(d, n) THEN "ok" ELSE "trap"
  BY <1>1, <1>2, <1>3 DEF Fits
<1>5. Finish(IF Fits(d, n) THEN "ok" ELSE "trap", Fits(d, n)) BY <1>4 DEF Fill
<1>6. Fits(d, n) \in BOOLEAN BY DEF Fits
<1> QED BY <1>5, <1>6, ExactStep

\* memory.copy is exact, although the engines test its ranges in two forms.
LEMMA CopyInv ==
  ASSUME Inv, NEW d \in Index(Addrs), NEW s \in Index(Addrs),
         NEW n \in Index(Lens), Copy(d, s, n)
  PROVE  Inv'
<1>1. d \in Nat /\ s \in Nat /\ n \in Nat BY InputAssumption, Widths64 DEF Index
<1>2. mem.size \in Nat BY DEF Inv, MemOK
<1>3. (d + n <= mem.size => Touch(d, n) = "ok") /\ (s + n <= mem.size => Touch(s, n) = "ok")
  BY <1>1, TouchInside
<1> DEFINE bad(x) == IF Top.k = "jit" THEN x > mem.size \/ n > mem.size - x
                     ELSE n > mem.size \/ x > mem.size - n
<1>4. (bad(s) <=> ~Fits(s, n)) /\ (bad(d) <=> ~Fits(d, n))
  BY <1>1, <1>2 DEF Fits
<1>5. (IF bad(s) \/ bad(d) THEN "trap"
       ELSE IF Touch(s, n) # "ok" THEN Touch(s, n) ELSE Touch(d, n))
        = IF Fits(s, n) /\ Fits(d, n) THEN "ok" ELSE "trap"
  BY <1>3, <1>4 DEF Fits
<1>6. Finish(IF Fits(s, n) /\ Fits(d, n) THEN "ok" ELSE "trap",
             Fits(s, n) /\ Fits(d, n))
  BY <1>5 DEF Copy
<1> QED BY <1>6, ExactStep

\* memory.init is exact on clean i32 slots.
LEMMA MemInitInv ==
  ASSUME InRange64, Inv, NEW d \in Index(Addrs), NEW s \in I32(Lens),
         NEW n \in I32(Lens), NEW hi \in InitHi, Init_(d, s, n, hi)
  PROVE  Inv'
<1> USE Widths64
<1>1. d \in Nat /\ s \in Nat /\ n \in Nat /\ s < M32 /\ n < M32
  BY InputAssumption DEF Index, I32
<1>2. mem.size \in Nat /\ mem.is64 \in Kinds BY DEF Inv, MemOK
<1>3. mem.is64 => hi = 0 BY <1>2 DEF InRange64
<1>4. (IF Top.k = "interp" /\ mem.is64 THEN n + hi * M32 ELSE n) = n BY <1>1, <1>3
<1>5. (s + n) % M64 = s + n BY <1>1, ModSmall
<1>6. d + n <= mem.size => Touch(d, n) = "ok" BY <1>1, TouchInside
<1> DEFINE dlen == IF data_alive THEN DataLen ELSE 0
<1>7. dlen \in Nat BY InputAssumption
<1>8. (IF s + n > dlen THEN "trap"
       ELSE IF n > mem.size \/ d > mem.size - n THEN "trap" ELSE Touch(d, n))
        = IF s + n <= dlen /\ Fits(d, n) THEN "ok" ELSE "trap"
  <2> HIDE DEF dlen
  <2> QED BY <1>1, <1>2, <1>6, <1>7 DEF Fits
<1>9. Finish(IF s + n <= dlen /\ Fits(d, n) THEN "ok" ELSE "trap",
             s + n <= dlen /\ Fits(d, n))
  BY <1>4, <1>5, <1>8 DEF Init_
<1> QED BY <1>9, ExactStep

\* mem_ptr of the WASI layer refuses exactly the ranges outside the memory.
LEMMA HostInv ==
  ASSUME Inv, NEW off \in I32(Addrs), NEW len \in I32(Lens), WasiAccess(off, len)
  PROVE  Inv'
<1>1. off \in Nat /\ len \in Nat BY InputAssumption, Widths64 DEF I32
<1>2. mem.size \in Nat BY DEF Inv, MemOK
<1>3. off + len <= mem.size => Touch(off, len) = "ok" BY <1>1, TouchInside
<1>4. (IF off + len > mem.size THEN "error" ELSE Touch(off, len))
        = IF Fits(off, len) THEN "ok" ELSE "error"
  BY <1>1, <1>2, <1>3 DEF Fits
<1>5. /\ acc' = [res |-> IF Fits(off, len) THEN "ok" ELSE "error",
                 fits |-> Fits(off, len)]
      /\ UNCHANGED <<mem, commit, frames, data_alive>>
  BY <1>4 DEF WasiAccess
<1>6. (acc'.res = "ok" <=> acc'.fits) /\ acc'.res # "wild" /\ acc' \in AccType
  <2>1. Fits(off, len) \in BOOLEAN BY DEF Fits
  <2> QED BY <1>5, <2>1 DEF AccType
<1> QED BY <1>5, <1>6, AccessStep

\* An active data segment below 2^32 is written exactly when it fits.
LEMMA DataInv ==
  ASSUME InRange64, Inv, NEW off \in Index(DataOffs), NEW len \in I32(Lens),
         ActiveData(off, len)
  PROVE  Inv'
<1>1. off \in Nat /\ len \in Nat /\ off < M32
  <2>1. off \in Nat /\ len \in Nat BY InputAssumption, Widths64 DEF I32, Index
  <2>2. mem.is64 \in Kinds /\ mem.is64 \in BOOLEAN
    BY InputAssumption DEF Inv, MemOK
  <2>3. off \in DataOffs /\ (mem.is64 \/ off < M32) BY DEF Index
  <2>4. CASE mem.is64 = TRUE
    <3>1. TRUE \in Kinds BY <2>2, <2>4
    <3> QED BY <3>1, <2>1, <2>3 DEF InRange64
  <2>5. CASE mem.is64 = FALSE BY <2>1, <2>3, <2>5
  <2> QED BY <2>2, <2>4, <2>5
<1>2. off % M32 = off BY <1>1, Widths64, ModSmall
<1>3. mem.size \in Nat BY DEF Inv, MemOK
<1>4. off + len <= mem.size => Touch(off, len) = "ok" BY <1>1, TouchInside
<1>5. (IF len > mem.size \/ off > mem.size - len THEN "error" ELSE Touch(off, len))
        = IF Fits(off, len) THEN "ok" ELSE "error"
  BY <1>1, <1>3, <1>4 DEF Fits
<1>6. /\ acc' = [res |-> IF Fits(off, len) THEN "ok" ELSE "error",
                 fits |-> Fits(off, len)]
      /\ UNCHANGED <<mem, commit, frames, data_alive>>
  BY <1>2, <1>5 DEF ActiveData
<1>7. (acc'.res = "ok" <=> acc'.fits) /\ acc'.res # "wild" /\ acc' \in AccType
  <2>1. Fits(off, len) \in BOOLEAN BY DEF Fits
  <2> QED BY <1>6, <2>1 DEF AccType
<1> QED BY <1>6, <1>7, AccessStep

----------------------------------------------------------------------------
(* memory.grow *)

\* A size within the reservation has at most three times N32 pages.
LEMMA PagesReserved ==
  ASSUME NEW x \in Nat, x * Page <= Reserve PROVE x <= 3 * N32
<1> USE Widths64
<1> SUFFICES ASSUME x > 3 * N32 PROVE FALSE OBVIOUS
<1>1. (3 * N32 + 1) * Page <= x * Page BY PagesOrder
<1>2. (3 * N32 + 1) * Page = 3 * M32 + Page BY DEF M32
<1>3. x * Page \in Nat BY PagesOrder
<1> QED BY <1>1, <1>2, <1>3

\* ea_grow_memory adds pages exactly or leaves the memory alone.
LEMMA GrowExact ==
  ASSUME InRange64, Inv, NEW d \in Index(Deltas), ea_grow_memory(d)
  PROVE  MemOK' /\ CommitOK' /\ mem'.pages >= mem.pages /\ mem'.size >= mem.size
<1> USE Widths64
<1>1. d \in Nat BY InputAssumption DEF Index
<1>2. /\ mem \in [is64 : Kinds, pages : Nat, max : Nat, size : Nat]
      /\ mem.is64 \in BOOLEAN /\ mem.pages \in Nat /\ mem.max \in Nat
      /\ mem.size \in Nat /\ mem.size = mem.pages * Page /\ mem.max * Page < M64
      /\ mem.pages <= 3 * N32 /\ (mem.is64 => mem.size >= Page)
  BY InputAssumption DEF Inv, MemOK
<1>3. /\ commit \in Nat /\ mem.size <= commit /\ (mem.is64 \/ commit = mem.size)
      /\ mem.size <= Reserve /\ commit <= Reserve
  BY DEF Inv, MemOK, CommitOK
<1>4. mem.pages + d < M64
  <2>1. CASE mem.is64 = TRUE
    <3>1. TRUE \in Kinds BY <1>2, <2>1
    <3>2. d + 3 * N32 < M64 BY <3>1 DEF InRange64, Index
    <3> QED BY <1>1, <1>2, <3>2
  <2>2. CASE mem.is64 = FALSE
    <3>1. d < M32 BY <2>2 DEF Index
    <3> QED BY <1>1, <1>2, <3>1
  <2> QED BY <1>2, <2>1, <2>2
<1> DEFINE want == mem.pages + d
           len  == want * Page
<1>5. Wanted(d) = want BY <1>1, <1>2, <1>4, ModSmall DEF Wanted
<1>6. want \in Nat /\ mem.pages <= want BY <1>1, <1>2
<1>7. len \in Nat /\ mem.size <= len BY <1>2, <1>6, PagesOrder
<1>8. CASE /\ CanGrow(want, d) /\ len % M64 <= Reserve
           /\ Committed(len % M64)
           /\ mem' = [mem EXCEPT !.pages = want, !.size = len % M64]
  <2>1. want <= mem.max /\ (mem.is64 \/ want <= N32) BY <1>8 DEF CanGrow
  <2>2. len < M64
    <3>1. len <= mem.max * Page BY <1>2, <1>6, <2>1, PagesOrder
    <3>2. mem.max * Page \in Nat BY <1>2, PagesOrder
    <3> HIDE DEF len
    <3> QED BY <3>1, <3>2, <1>2, <1>7
  <2>3. len % M64 = len BY <1>7, <2>2, ModSmall
  <2>4. len <= Reserve BY <1>8, <2>3
  <2>5. want <= 3 * N32 BY <1>6, <2>4, PagesReserved
  <2>6. ~mem.is64 => len <= M32 BY <1>6, <2>1, PagesOrder DEF M32
  <2>7. mem' = [mem EXCEPT !.pages = want, !.size = len] BY <1>8, <2>3
  <2>8. commit' = IF len > commit THEN len ELSE commit
    BY <1>8, <2>3 DEF Committed
  <2>9. /\ mem' \in [is64 : Kinds, pages : Nat, max : Nat, size : Nat]
        /\ mem'.is64 = mem.is64 /\ mem'.max = mem.max
        /\ mem'.pages = want /\ mem'.size = len
    <3> HIDE DEF want, len
    <3> QED BY <1>2, <1>6, <1>7, <2>7
  <2>10. MemOK'
    <3>1. mem'.size = mem'.pages * Page BY <2>9
    <3> HIDE DEF want, len
    <3> QED BY <3>1, <1>2, <1>7, <2>1, <2>4, <2>5, <2>6, <2>9 DEF MemOK
  <2>11. CommitOK'
    <3> HIDE DEF want, len
    <3> QED BY <1>2, <1>3, <1>7, <2>4, <2>8, <2>9 DEF CommitOK
  <2> HIDE DEF want, len
  <2> QED BY <1>6, <1>7, <2>9, <2>10, <2>11
<1>9. CASE /\ mem' = mem
           /\ \/ commit' = commit
              \/ CanGrow(want, d) /\ len % M64 > Reserve /\ commit' = Reserve
  <2>1. MemOK' BY <1>9 DEF Inv, MemOK
  <2>2. CASE commit' = commit BY <1>2, <1>9, <2>1, <2>2 DEF Inv, CommitOK
  <2>3. CASE CanGrow(want, d) /\ len % M64 > Reserve /\ commit' = Reserve
    <3>1. CASE mem.is64 BY <1>2, <1>3, <1>9, <2>1, <2>3, <3>1 DEF CommitOK
    <3>2. CASE ~mem.is64
      <4>1. want <= N32 BY <2>3, <3>2 DEF CanGrow
      <4>2. len <= M32 BY <4>1, <1>6, PagesOrder DEF M32
      <4>3. len % M64 = len
        <5> HIDE DEF len
        <5> QED BY <1>7, <4>2, ModSmall
      <4> HIDE DEF len
      <4> QED BY <2>3, <4>2, <4>3, <1>7
    <3> QED BY <3>1, <3>2
  <2> QED BY <1>9, <2>2, <2>3
<1> HIDE DEF want, len
<1> QED BY <1>5, <1>8, <1>9 DEF ea_grow_memory, want, len

\* memory.grow in either engine leaves the frame that grew with the new size.
LEMMA GrowInv ==
  ASSUME InRange64, Inv, NEW d \in Index(Deltas), Grow(d)
  PROVE  Inv' /\ mem'.pages >= mem.pages /\ mem'.size >= mem.size
<1>1. MemOK' /\ CommitOK' /\ mem'.pages >= mem.pages /\ mem'.size >= mem.size
  BY GrowExact DEF Grow
<1>2. frames \in Seq(FrameType) /\ frames # <<>> BY DEF Grow, Inv, LimitFresh
<1> DEFINE n == Len(frames)
<1>3. n \in 1 .. n /\ Top \in FrameType /\ Top = frames[n] BY <1>2 DEF Top
<1>4. mem'.size \in 0 .. M64 - 1 BY <1>1, Widths64 DEF MemOK
<1>5. CASE Top.k = "jit" /\ Top.m0
  <2>1. frames' = [frames EXCEPT ![n] = [frames[n] EXCEPT !.limit = mem'.size]]
    BY <1>5 DEF Grow
  <2>2. [frames[n] EXCEPT !.limit = mem'.size] \in FrameType
    BY <1>3, <1>4 DEF FrameType
  <2>3. frames' \in Seq(FrameType) /\ Len(frames') = n
    <3>1. n \in Nat /\ frames \in [1 .. n -> FrameType] BY <1>2
    <3>2. frames' \in [1 .. n -> FrameType] BY <3>1, <2>1, <2>2
    <3> HIDE DEF n
    <3> QED BY <3>1, <3>2
  <2>4. frames'[n].limit = mem'.size BY <1>2, <1>3, <1>4, <2>1 DEF FrameType
  <2>5. LimitFresh' BY <2>3, <2>4 DEF LimitFresh, Top
  <2> QED BY <1>1, <2>5 DEF Inv, AccessExact, Grow
<1>6. CASE ~(Top.k = "jit" /\ Top.m0)
  <2>1. frames' = frames BY <1>6 DEF Grow
  <2>2. LimitFresh' BY <1>2, <1>6, <2>1 DEF LimitFresh, Top
  <2> QED BY <1>1, <2>2 DEF Inv, AccessExact, Grow
<1> QED BY <1>5, <1>6

----------------------------------------------------------------------------
\* Every step keeps the invariant and never shrinks the memory.
LEMMA NextInv ==
  ASSUME InRange64, Inv, [Next]_vars
  PROVE  Inv' /\ mem'.pages >= mem.pages /\ mem'.size >= mem.size
<1>1. mem.pages \in Nat /\ mem.size \in Nat BY DEF Inv, MemOK
<1>2. mem' = mem => mem'.pages >= mem.pages /\ mem'.size >= mem.size BY <1>1
<1>3. frames \in Seq(FrameType) /\ MemOK /\ data_alive \in BOOLEAN
  BY DEF Inv, LimitFresh
<1>4. ASSUME NEW k \in {"interp", "jit"}, NEW m0 \in BOOLEAN
      PROVE  [k |-> k, m0 |-> m0, limit |-> 0] \in FrameType
  BY Widths64 DEF FrameType
<1>5. ASSUME NEW k \in {"interp", "jit"}, NEW m0 \in BOOLEAN, Call(k, m0)
      PROVE  Inv' /\ mem' = mem
  <2>1. LimitFresh' BY <1>3, <1>4, <1>5, PushFresh DEF Call, NewFrame
  <2> QED BY <1>3, <1>5, <2>1, FrameStep DEF Call
<1>6. ASSUME NEW k \in {"interp", "jit"}, NEW m0 \in BOOLEAN, TailCall(k, m0)
      PROVE  Inv' /\ mem' = mem
  <2>1. Front \in Seq(FrameType) BY <1>3, <1>6 DEF Front, TailCall
  <2>2. LimitFresh' BY <1>3, <1>4, <1>6, <2>1, PushFresh DEF TailCall, NewFrame
  <2> QED BY <1>3, <1>6, <2>2, FrameStep DEF TailCall
<1>7. CASE Return \/ Unwind
  <2>1. LimitFresh' BY <1>3, <1>7, ResumeFresh DEF Inv, Return, Unwind
  <2>2. Inv' /\ mem' = mem BY <1>3, <1>7, <2>1, FrameStep DEF Return, Unwind
  <2> QED BY <1>2, <2>2
<1>8. CASE DataDrop
  <2>1. LimitFresh' BY <1>8 DEF Inv, LimitFresh, Top, DataDrop
  <2>2. Inv' /\ mem' = mem BY <1>8, <2>1, FrameStep DEF DataDrop
  <2> QED BY <1>2, <2>2
<1>9. CASE \E d \in Index(Deltas) : Grow(d) BY <1>9, GrowInv
<1>10. CASE \E a \in Index(Addrs), o \in Index(Offs), w \in Widths : Access(a, o, w)
  BY <1>2, <1>10, AccessInv DEF Access, Finish
<1>11. CASE \E d \in Index(Addrs), n \in Index(Lens) : Fill(d, n)
  BY <1>2, <1>11, FillInv DEF Fill, Finish
<1>12. CASE \E d \in Index(Addrs), s \in Index(Addrs), n \in Index(Lens) :
              Copy(d, s, n)
  BY <1>2, <1>12, CopyInv DEF Copy, Finish
<1>13. CASE \E d \in Index(Addrs), s \in I32(Lens), n \in I32(Lens), hi \in InitHi :
              Init_(d, s, n, hi)
  BY <1>2, <1>13, MemInitInv DEF Init_, Finish
<1>14. CASE \E off \in I32(Addrs), len \in I32(Lens) : WasiAccess(off, len)
  BY <1>2, <1>14, HostInv DEF WasiAccess
<1>15. CASE \E off \in Index(DataOffs), len \in I32(Lens) : ActiveData(off, len)
  BY <1>2, <1>15, DataInv DEF ActiveData
<1>16. CASE UNCHANGED vars
  <2>1. LimitFresh' BY <1>16 DEF Inv, LimitFresh, Top, vars
  <2>2. Inv' /\ mem' = mem BY <1>3, <1>16, <2>1, FrameStep DEF vars
  <2> QED BY <1>2, <2>2
<1>17. CASE \E k \in {"interp", "jit"}, m0 \in BOOLEAN : Call(k, m0) \/ TailCall(k, m0)
  BY <1>2, <1>5, <1>6, <1>17
<1> QED BY <1>7, <1>8, <1>9, <1>10, <1>11, <1>12, <1>13, <1>14, <1>15, <1>16, <1>17
        DEF Next

\* The memory, the frames and the last access keep their types, and the memory
\* its declared maximum.
THEOREM MemoryTypeOK == ASSUME InRange64 PROVE Spec => []TypeOK
<1>1. Init => Inv BY InitInv
<1>2. Inv /\ [Next]_vars => Inv' BY NextInv
<1>3. ASSUME Inv PROVE TypeOK
  <2>1. mem \in [is64 : BOOLEAN, pages : 0 .. mem.max, max : Nat, size : 0 .. M64 - 1]
    BY <1>3, Widths64, InputAssumption DEF Inv, MemOK
  <2>2. commit \in 0 .. Reserve BY <1>3, Widths64 DEF Inv, CommitOK
  <2>3. \A i \in DOMAIN frames : frames[i] \in FrameType
    BY <1>3 DEF Inv, LimitFresh
  <2> QED BY <1>3, <2>1, <2>2, <2>3 DEF Inv, TypeOK, FrameType, AccType
<1> QED BY <1>1, <1>2, <1>3, PTL DEF Spec

\* Every access of every party succeeds exactly when its range lies in the
\* memory, whatever was grown before and whoever grew it.
THEOREM MemoryAccessExact == ASSUME InRange64 PROVE Spec => []AccessExact
<1>1. Init => Inv BY InitInv
<1>2. Inv /\ [Next]_vars => Inv' BY NextInv
<1>3. Inv => AccessExact BY DEF Inv
<1> QED BY <1>1, <1>2, <1>3, PTL DEF Spec

\* The size in bytes is the pages', and accessible; a 32-bit memory has no
\* accessible byte behind its end, which generated code relies on.
THEOREM MemorySizeExact == ASSUME InRange64 PROVE Spec => []SizeExact
<1>1. Init => Inv BY InitInv
<1>2. Inv /\ [Next]_vars => Inv' BY NextInv
<1>3. Inv => SizeExact BY DEF Inv, MemOK, CommitOK, SizeExact
<1> QED BY <1>1, <1>2, <1>3, PTL DEF Spec

\* No step of any party makes the memory smaller.
THEOREM MemoryNeverShrinks == ASSUME InRange64 PROVE Spec => NeverShrinks
<1>1. Init => Inv BY InitInv
<1>2. Inv /\ [Next]_vars => Inv' BY NextInv
<1>3. Inv /\ [Next]_vars => [mem'.pages >= mem.pages /\ mem'.size >= mem.size]_vars
  BY NextInv
<1> QED BY <1>1, <1>2, <1>3, PTL DEF Spec, NeverShrinks
=============================================================================
