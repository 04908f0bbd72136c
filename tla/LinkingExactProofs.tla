------------------------- MODULE LinkingExactProofs -------------------------
(***************************************************************************)
(* Tables through all their copies: every instance sees the table the      *)
(* WebAssembly store has, every operation succeeds exactly when it should, *)
(* and an instantiation that fails leaves exactly the segments before.     *)
(***************************************************************************)
EXTENDS LinkingLifeProofs

----------------------------------------------------------------------------
(* The bounds tests of the table instructions are exact: for 32-bit tables *)
(* in both engines, for 64-bit tables in the helpers of generated code.    *)

\* A u64 sum of two numbers below 2^32, or at most 2^32, does not wrap.
LEMMA SumExact ==
  ASSUME NEW x \in 0 .. N32, NEW y \in 0 .. N32 - 1
  PROVE  U64(x + y) = x + y
<1>1. x + y \in Nat /\ x + y < M64 BY TableWidths
<1>2. M64 \in Nat BY TableWidths
<1> QED BY <1>1, <1>2 DEF U64

\* table.fill and table.copy of a 32-bit table trap exactly when the range
\* leaves the table, whichever engine executes them (interp.c:829, 841;
\* jit_a64_rt.c:348, 357-358).
THEOREM FillExact32 ==
  ASSUME NEW e \in Engines, NEW t, t.size \in 0 .. N32,
         NEW d \in Operands(FALSE), NEW n \in Operands(FALSE)
  PROVE  FillOK(e, t, d, n) <=> InRange(t.size, d, n)
<1>1. d \in 0 .. N32 - 1 /\ n \in 0 .. N32 - 1 BY DEF Operands
<1>2. N32 \in Nat BY TableWidths
<1>3. d \in 0 .. N32 BY <1>1, <1>2
<1>4. U64(d + n) = d + n BY <1>1, <1>3, SumExact
<1> QED BY <1>1, <1>2, <1>4 DEF FillOK, InRange, Engines

\* The two engines agree on every table.copy between 32-bit tables.
THEOREM CopyAgrees32 ==
  ASSUME NEW td, NEW ts, td.size \in 0 .. N32, ts.size \in 0 .. N32,
         NEW d \in Operands(FALSE), NEW s \in Operands(FALSE), NEW n \in Operands(FALSE)
  PROVE  CopyOK("interp", td, ts, d, s, n) <=> CopyOK("jit", td, ts, d, s, n)
<1>1. "interp" \in Engines /\ "jit" \in Engines BY DEF Engines
<1>2. FillOK("interp", td, d, n) <=> FillOK("jit", td, d, n) BY <1>1, FillExact32
<1>3. FillOK("interp", ts, s, n) <=> FillOK("jit", ts, s, n) BY <1>1, FillExact32
<1> QED BY <1>2, <1>3 DEF CopyOK

\* table.init of a 32-bit table succeeds exactly when the items exist in the
\* segment (none once it is dropped) and their places in the table
\* (interp.c:853-857, jit_a64_rt.c:368-370).
THEOREM InitExact32 ==
  ASSUME NEW e \in Engines, NEW t, t.size \in 0 .. N32, NEW len \in Nat,
         NEW d \in Operands(FALSE), NEW s \in Operands(FALSE), NEW n \in Operands(FALSE)
  PROVE  InitOK(e, t, len, d, s, n) <=> InRange(len, s, n) /\ InRange(t.size, d, n)
<1>1. d \in 0 .. N32 - 1 /\ s \in 0 .. N32 - 1 /\ n \in 0 .. N32 - 1 BY DEF Operands
<1>2. N32 \in Nat BY TableWidths
<1>3. d \in 0 .. N32 /\ s \in 0 .. N32 BY <1>1, <1>2
<1>4. U64(d + n) = d + n BY <1>1, <1>3, SumExact
<1>5. U64(s + n) = s + n BY <1>1, <1>3, SumExact
<1>6. SegOK(len, s, n) <=> InRange(len, s, n) BY <1>5 DEF SegOK, InRange
<1>7. CASE e = "interp" BY <1>6, <1>7, <1>4 DEF InitOK, InRange
<1>8. CASE e = "jit" BY <1>6, <1>8, <1>1, <1>2 DEF InitOK, InRange
<1> QED BY <1>7, <1>8 DEF Engines

\* table.grow of a 32-bit table succeeds exactly up to its maximum: the sum
\* cannot wrap past either test (interp.c:812-813, jit_a64_rt.c:331-332).
THEOREM GrowExact32 ==
  ASSUME NEW t, t.size \in 0 .. N32, t.max \in 0 .. N32 - 1, NEW delta \in Operands(FALSE)
  PROVE  /\ GrowTo(t, delta) = t.size + delta
         /\ CanGrow(t, delta) <=> t.size + delta <= t.max
<1>1. delta \in 0 .. N32 - 1 BY DEF Operands
<1>2. N32 \in Nat BY TableWidths
<1>3. GrowTo(t, delta) = t.size + delta BY <1>1, SumExact DEF GrowTo
<1>4. t.size + delta <= t.max => t.size + delta <= N32 BY <1>1, <1>2
<1> QED BY <1>3, <1>4 DEF CanGrow

\* For 64-bit tables the helpers of generated code stay exact, because they
\* form no sum; the interpreter is exact when its sum does not wrap.
THEOREM FillExact64 ==
  ASSUME NEW t, t.size \in Nat, NEW d \in Operands(TRUE), NEW n \in Operands(TRUE)
  PROVE  /\ FillOK("jit", t, d, n) <=> InRange(t.size, d, n)
         /\ d + n < M64 => (FillOK("interp", t, d, n) <=> InRange(t.size, d, n))
<1>1. M64 \in Nat BY TableWidths
<1>2. d \in Nat /\ n \in Nat BY <1>1 DEF Operands
<1>3. FillOK("jit", t, d, n) <=> InRange(t.size, d, n) BY <1>2 DEF FillOK, InRange
<1>4. ASSUME d + n < M64 PROVE U64(d + n) = d + n BY <1>1, <1>2, <1>4 DEF U64
<1> QED BY <1>3, <1>4 DEF FillOK, InRange

----------------------------------------------------------------------------
(* The store.                                                              *)

\* Where the code keeps a table exact: no program grows a table that several
\* EaTableInst records share, the host frees only instances apart from the
\* others, tables are 32-bit ones, and a module with a segment of expressions is
\* instantiated once.  Each is needed: without one of them a run of this project,
\* or a bound of one, shows the table or an outcome inexact (runtime.c:307, 422, 565;
\* interp.c:829).
Plain ==
  /\ ~ GrowShared /\ FreesApart
  /\ \A m \in DOMAIN Mods : \A k \in DOMAIN Mods[m].tables : ~ Mods[m].tables[k].is64
  /\ \A m \in DOMAIN Mods \ Once : \A g \in DOMAIN Mods[m].elems : ~ Mods[m].elems[g].expr

----------------------------------------------------------------------------
(* The inductive invariant.                                                *)

Narrow == \A i \in DOMAIN insts : \A k \in DOMAIN insts[i].tabs : insts[i].tabs[k].is64 = FALSE

\* Two records lead to one array exactly if they are one table.
TabsSame ==
  \A i, j \in DOMAIN insts : \A k \in DOMAIN insts[i].tabs, l \in DOMAIN insts[j].tabs :
    insts[i].tabs[k].tid = insts[j].tabs[l].tid <=> insts[i].tabs[k].blk = insts[j].tabs[l].blk

\* The array that record t leads to holds exactly the table.
Holds(t) ==
  /\ blocks[t.blk].live = TRUE /\ blocks[t.blk].els = want[t.tid]
  /\ t.size = Len(want[t.tid]) /\ t.size <= N32

TabsHold ==
  \A i \in DOMAIN insts : insts[i].out # "freed" => \A k \in DOMAIN insts[i].tabs : Holds(insts[i].tabs[k])

\* The item cache is empty until the module has an instance, and is then that
\* instance's.
CacheEmpty ==
  \A m \in DOMAIN Mods : \A g \in DOMAIN Mods[m].elems :
    (\A i \in DOMAIN insts : insts[i].mod = m => ~ insts[i].jit_mem0) => ecache[m][g] = <<>>

CacheFirst ==
  \A i \in DOMAIN insts : insts[i].jit_mem0 =>
    \A g \in DOMAIN Mods[insts[i].mod].elems :
      Mods[insts[i].mod].elems[g].expr => ecache[insts[i].mod][g] = Items(i, Mods[insts[i].mod].elems[g])

OneEach ==
  \A i, j \in DOMAIN insts : insts[i].mod = insts[j].mod /\ insts[i].mod \in Once => i = j

ExactInv == Narrow /\ TabsSame /\ TabsHold /\ CacheEmpty /\ CacheFirst /\ OneEach

\* The empty store agrees with WebAssembly's.
LEMMA ExactInit ==
  ASSUME Init PROVE ExactInv /\ OutcomeExact
<1>1. DOMAIN insts = {} BY DEF Init
<1>2. CacheEmpty BY DEF Init, CacheEmpty
<1>3. OutcomeExact BY DEF Init, OutcomeExact, Done
<1> QED BY <1>1, <1>2, <1>3 DEF ExactInv, Narrow, TabsSame, TabsHold, CacheFirst, OneEach

\* A slice that takes all of a sequence.
LEMMA SliceAll ==
  ASSUME NEW S, NEW s \in Seq(S), NEW n, n = Len(s)
  PROVE  Slice(s, 0, n) = s
<1>1. n \in Nat /\ DOMAIN s = 1 .. n /\ Len(s) = n BY LenProperties
<1>2. s = [x \in 1 .. n |-> s[x]] BY <1>1
<1>3. \A x \in 1 .. n : 0 + x = x /\ 0 + x \in 1 .. n BY <1>1
<1>4. [x \in 1 .. n |-> IF 0 + x \in 1 .. n THEN s[0 + x] ELSE Wild] = [x \in 1 .. n |-> s[x]]
  BY <1>3
<1> QED BY <1>1, <1>2, <1>4 DEF Slice

\* Then what an instance sees is the table.
LEMMA ViewExact ==
  ASSUME TypeInv, NEW i \in DOMAIN insts, NEW k \in DOMAIN insts[i].tabs, Holds(insts[i].tabs[k])
  PROVE  /\ View(insts[i].tabs[k]) = want[insts[i].tabs[k].tid]
         /\ want[insts[i].tabs[k].tid] \in Seq(Ref)
<1> DEFINE t == insts[i].tabs[k] w == want[t.tid]
<1>1. w \in Seq(Ref) BY BlocksAre
<1>2. blocks[t.blk].live = TRUE /\ blocks[t.blk].els = w /\ t.size = Len(w) BY DEF Holds
<1>3. View(t) = Slice(w, 0, t.size) BY <1>2 DEF View
<1> HIDE DEF t, w
<1>4. View(t) = w BY <1>1, <1>2, <1>3, SliceAll
<1> QED BY <1>1, <1>4 DEF t, w

\* The invariant implies the property the run checks.
LEMMA ExactGives ==
  ASSUME TypeInv, ExactInv PROVE TablesExact
  BY ViewExact DEF ExactInv, TabsHold, TablesExact

\* An instance that runs has not been freed.
LEMMA RunsAlive ==
  ASSUME TypeInv, RefInv, ApartInv, NEW i \in Runs
  PROVE  i \in DOMAIN insts /\ insts[i].out # "freed"
<1>1. i \in DOMAIN insts BY RunsExist
<1>2. CASE i \in Held
  <2>1. CASE i = I
    <3>1. cur # Idle BY <1>1, <2>1, InstsAre DEF Idle, I
    <3> QED BY <2>1, <3>1 DEF TypeInv, Phase, I
  <2> QED BY <1>2, <2>1 DEF Held
<1>3. CASE \E r \in Callable : i = Callee(r)
  <2>1. \A r \in Callable : insts[Callee(r)].out # "freed" BY ApartGives DEF LeakedCallable
  <2> QED BY <1>1, <1>3, <2>1
<1>4. CASE i = I /\ cur.phase = "start"
  <2>1. insts[I].out = "building" BY <1>4, CurIs
  <2> QED BY <1>1, <1>4, <2>1
<1> QED BY <1>1, <1>2, <1>3, <1>4 DEF Runs

----------------------------------------------------------------------------
(* Steps that leave every instance its tables.                             *)

\* What such a step stores, it stores in the array and in the table.
Matched(t) ==
  /\ blocks'[t.blk].live = TRUE /\ blocks'[t.blk].els = want'[t.tid]
  /\ Len(want'[t.tid]) = Len(want[t.tid])

Matches ==
  \A i \in DOMAIN insts : insts[i].out # "freed" => \A k \in DOMAIN insts[i].tabs :
    insts'[i].out = "freed" \/ Matched(insts[i].tabs[k])

\* A step that leaves cache and instances alone keeps what is said of the cache.
LEMMA CacheKept ==
  ASSUME CacheFirst, UNCHANGED ecache, DOMAIN insts' = DOMAIN insts,
         \A j \in DOMAIN insts :
           insts'[j].mod = insts[j].mod /\ insts'[j].jit_mem0 = insts[j].jit_mem0
  PROVE  CacheFirst'
  BY SMTT(30) DEF CacheFirst, Items

\* A step that changes an array as WebAssembly changes the table keeps the invariant.
LEMMA ExactKept ==
  ASSUME TypeInv, ExactInv, Kept, Matches, UNCHANGED ecache,
         \A i \in DOMAIN insts : insts[i].out = "freed" => insts'[i].out = "freed"
  PROVE  ExactInv'
<1>1. DOMAIN insts' = DOMAIN insts BY KeptParts
<1>2. \A i \in DOMAIN insts :
        /\ insts'[i].mod = insts[i].mod /\ insts'[i].tabs = insts[i].tabs
        /\ insts'[i].jit_mem0 = insts[i].jit_mem0 BY DEF Kept
<1>3. Narrow' BY <1>1, <1>2 DEF ExactInv, Narrow
<1>4. TabsSame' BY <1>1, <1>2 DEF ExactInv, TabsSame
<1>5. TabsHold'
  <2> SUFFICES ASSUME NEW i \in DOMAIN insts, insts'[i].out # "freed",
                      NEW k \in DOMAIN insts[i].tabs
               PROVE  Holds(insts[i].tabs[k])'
    BY <1>1, <1>2 DEF TabsHold, Holds
  <2>1. insts[i].out # "freed" OBVIOUS
  <2>2. Holds(insts[i].tabs[k]) BY <2>1 DEF ExactInv, TabsHold
  <2>3. insts'[i].tabs = insts[i].tabs BY <1>2
  <2>4. Matched(insts[i].tabs[k]) BY <2>1 DEF Matches
  <2> QED BY <2>2, <2>3, <2>4 DEF Holds, Matched
<1>6. CacheEmpty' BY <1>1, <1>2 DEF ExactInv, CacheEmpty
<1>7. CacheFirst' BY <1>1, <1>2, SMTT(30) DEF ExactInv, CacheFirst, Items
<1>8. OneEach' BY <1>1, <1>2 DEF ExactInv, OneEach
<1> QED BY <1>3, <1>4, <1>5, <1>6, <1>7, <1>8 DEF ExactInv

\* Nothing that tables are made of changes.
LEMMA ExactQuiet ==
  ASSUME TypeInv, ExactInv, Steady, Kept, UNCHANGED <<blocks, want, ecache>>
  PROVE  ExactInv'
<1>1. Matches BY DEF Matches, Matched, ExactInv, TabsHold, Holds
<1>2. \A i \in DOMAIN insts : insts[i].out = "freed" => insts'[i].out = "freed" BY DEF Steady
<1> QED BY <1>1, <1>2, ExactKept

\* The same values stored in the array and in the table.
LEMMA StoredMatches ==
  ASSUME TypeInv, ExactInv, NEW i, i \in DOMAIN insts, insts[i].out # "freed",
         NEW k, k \in DOMAIN insts[i].tabs, NEW vals, vals \in Seq(Ref), NEW d, d \in Int,
         NEW b, b = insts[i].tabs[k].blk, NEW c, c = insts[i].tabs[k].tid,
         blocks' = [blocks EXCEPT ![b].els = Stored(@, d, vals)],
         want' = [want EXCEPT ![c] = Stored(@, d, vals)]
  PROVE  Matches
<1> DEFINE els == blocks[b].els new == Stored(els, d, vals)
<1>1. els \in Seq(Ref) /\ b \in DOMAIN blocks /\ c \in DOMAIN want BY BlocksAre
<1>2. Holds(insts[i].tabs[k]) BY DEF ExactInv, TabsHold
<1>3. els = want[c] BY <1>2 DEF Holds
<1>4. new \in Seq(Ref) /\ Len(new) = Len(els)
  <2> HIDE DEF els
  <2> QED BY <1>1, StoredIs
<1>5. blocks' = [blocks EXCEPT ![b].els = new] /\ want' = [want EXCEPT ![c] = new]
  BY <1>3
<1> HIDE DEF els, new
<1>6. /\ blocks'[b].els = new /\ blocks'[b].live = blocks[b].live
      /\ \A x \in DOMAIN blocks : x # b => blocks'[x] = blocks[x]
  BY <1>1, <1>4, <1>5, BlockWrite
<1>7. want'[c] = new /\ \A x \in DOMAIN want : x # c => want'[x] = want[x]
  BY <1>1, <1>4, <1>5, WantWrite
<1> SUFFICES ASSUME NEW j \in DOMAIN insts, insts[j].out # "freed",
                    NEW l \in DOMAIN insts[j].tabs, NEW t, t = insts[j].tabs[l]
             PROVE  Matched(t)
  BY DEF Matches
<1>8. Holds(t) BY DEF ExactInv, TabsHold
<1>9. t.blk = b <=> t.tid = c BY DEF ExactInv, TabsSame
<1>10. t.blk \in DOMAIN blocks /\ t.tid \in DOMAIN want BY BlocksAre
<1>11. CASE t.blk = b BY <1>3, <1>4, <1>6, <1>7, <1>8, <1>9, <1>11 DEF Holds, Matched
<1>12. CASE t.blk # b BY <1>6, <1>7, <1>8, <1>9, <1>10, <1>12 DEF Holds, Matched
<1> QED BY <1>11, <1>12

\* An instruction that stores the same values where the table has room for them.
LEMMA ExactUpdate ==
  ASSUME TypeInv, ExactInv, NEW i, i \in DOMAIN insts, insts[i].out # "freed",
         NEW k, k \in DOMAIN insts[i].tabs, NEW d, d \in Int, NEW vals, NEW wvals,
         NEW ok, ok \in BOOLEAN, NEW w, w \in BOOLEAN, ok <=> w,
         ok => vals \in Seq(Ref) /\ wvals = vals,
         Update(insts[i].tabs[k], d, vals, ok, wvals, w)
  PROVE  ExactInv' /\ OutcomeExact'
<1> DEFINE b == insts[i].tabs[k].blk c == insts[i].tabs[k].tid
<1>1. /\ UNCHANGED <<insts, named, ecache>> /\ last' = Done(ok, w)
      /\ blocks' = IF ok THEN [blocks EXCEPT ![b].els = Stored(@, d, vals)] ELSE blocks
      /\ want' = IF w THEN [want EXCEPT ![c] = Stored(@, d, wvals)] ELSE want
  BY DEF Update
<1>2. Steady /\ Kept BY <1>1, SameSteady
<1>3. OutcomeExact'
  <2>1. last'.ok = ok /\ last'.want = w BY <1>1 DEF Done
  <2>2. ok = w OBVIOUS
  <2> QED BY <2>1, <2>2 DEF OutcomeExact
<1>4. CASE ~ ok
  <2>1. UNCHANGED <<blocks, want>> BY <1>1, <1>4
  <2> QED BY <1>1, <1>2, <1>3, <2>1, ExactQuiet
<1>5. CASE ok
  <2>1. vals \in Seq(Ref) /\ wvals = vals /\ w BY <1>5
  <2>2. blocks' = [blocks EXCEPT ![b].els = Stored(@, d, vals)] BY <1>1, <1>5
  <2>3. want' = [want EXCEPT ![c] = Stored(@, d, vals)] BY <1>1, <2>1
  <2>4. b = insts[i].tabs[k].blk /\ c = insts[i].tabs[k].tid OBVIOUS
  <2> HIDE DEF b, c
  <2>5. Matches BY <2>1, <2>2, <2>3, <2>4, StoredMatches
  <2>6. \A j \in DOMAIN insts : insts[j].out = "freed" => insts'[j].out = "freed" BY <1>1
  <2> QED BY <1>1, <1>2, <1>3, <2>5, <2>6, ExactKept
<1> QED BY <1>4, <1>5

\* The size the instance's record has is the table's, and at most 2^32.
LEMMA SizeExact ==
  ASSUME TypeInv, ExactInv, NEW i, i \in DOMAIN insts, insts[i].out # "freed",
         NEW k, k \in DOMAIN insts[i].tabs
  PROVE  /\ Holds(insts[i].tabs[k]) /\ insts[i].tabs[k].is64 = FALSE
         /\ insts[i].tabs[k].size = Size(insts[i].tabs[k])
         /\ insts[i].tabs[k].size \in 0 .. N32
         /\ View(insts[i].tabs[k]) = want[insts[i].tabs[k].tid]
<1>1. Holds(insts[i].tabs[k]) BY DEF ExactInv, TabsHold
<1>2. insts[i].tabs[k].is64 = FALSE BY DEF ExactInv, Narrow
<1>3. insts[i].tabs[k].size \in Nat BY BlocksAre DEF TableT
<1>4. N32 \in Nat BY TableWidths
<1>5. View(insts[i].tabs[k]) = want[insts[i].tabs[k].tid] BY <1>1, ViewExact
<1>6. insts[i].tabs[k].size \in 0 .. N32 BY <1>1, <1>3, <1>4 DEF Holds
<1> QED BY <1>1, <1>2, <1>5, <1>6 DEF Holds, Size

\* table.get and call_indirect.
LEMMA ExactReads ==
  ASSUME TypeInv, ExactInv, NEW i, i \in DOMAIN insts, insts[i].out # "freed",
         NEW k, k \in DOMAIN insts[i].tabs, NEW x, x \in Operands(insts[i].tabs[k].is64),
         NEW e, NEW ty, TableGet(i, k, x) \/ CallIndirect(e, i, k, x, ty)
  PROVE  ExactInv' /\ OutcomeExact'
<1> DEFINE t == insts[i].tabs[k]
<1>1. UNCHANGED <<insts, named, blocks, want, ecache>> BY DEF TableGet, CallIndirect
<1>2. ExactInv' BY <1>1, SameSteady, ExactQuiet
<1>3. t.is64 = FALSE /\ t.size = Size(t) /\ View(t) = want[t.tid] BY SizeExact
<1>4. x \in 0 .. N32 - 1 /\ N32 \in Nat BY <1>3, TableWidths DEF Operands
<1>5. x % N32 = x BY <1>4
<1>6. CASE TableGet(i, k, x)
  <2>1. last' = Done(AtOK(t, x), x < Size(t)) BY <1>6 DEF TableGet
  <2>2. AtOK(t, x) = (x < Size(t)) BY <1>3 DEF AtOK
  <2> QED BY <1>2, <2>1, <2>2 DEF Done, OutcomeExact
<1>7. CASE CallIndirect(e, i, k, x, ty)
  <2> DEFINE good(r) == r \notin {Null, Wild} /\ insts[r[1]].funcs[r[2]].type = ty
             y == IF e = "jit" THEN x % N32 ELSE x
             ok == AtOK(t, y) /\ good(View(t)[y + 1])
             w == x < Size(t) /\ good(want[t.tid][x + 1])
  <2>1. last' = Done(ok, w) BY <1>7 DEF CallIndirect
  <2>2. y = x BY <1>5
  <2>3. AtOK(t, y) <=> x < Size(t) BY <1>3, <2>2 DEF AtOK
  <2>4. good(View(t)[y + 1]) <=> good(want[t.tid][x + 1]) BY <1>3, <2>2
  <2>5. ok = w BY <2>3, <2>4
  <2> QED BY <1>2, <2>1, <2>5 DEF Done, OutcomeExact
<1> QED BY <1>6, <1>7

\* table.set and table.fill.
LEMMA ExactSetFill ==
  ASSUME TypeInv, ExactInv, NEW i, i \in DOMAIN insts, insts[i].out # "freed", insts[i].jit_mem0,
         NEW k, k \in DOMAIN insts[i].tabs, NEW x, x \in Operands(insts[i].tabs[k].is64),
         NEW r, r \in Refs(i),
         \/ TableSet(i, k, x, r)
         \/ \E n \in Operands(insts[i].tabs[k].is64), e \in Engines : TableFill(e, i, k, x, n, r)
  PROVE  ExactInv' /\ OutcomeExact'
<1> DEFINE t == insts[i].tabs[k]
<1>1. t.is64 = FALSE /\ t.size = Size(t) /\ t.size \in 0 .. N32 BY SizeExact
<1>2. x \in Operands(FALSE) /\ x \in Nat /\ x \in Int
  <2>1. x \in Operands(FALSE) BY <1>1
  <2>2. x \in Nat BY <2>1 DEF Operands
  <2>3. x \in Int BY <2>2
  <2> QED BY <2>1, <2>2, <2>3
<1>3. r \in Ref BY RefsAre
<1>4. CASE TableSet(i, k, x, r)
  <2> DEFINE v == <<r>> ok == AtOK(t, x) w == x < Size(t)
  <2>1. Update(t, x, v, ok, v, w) BY <1>4 DEF TableSet
  <2>2. ok \in BOOLEAN /\ w \in BOOLEAN /\ (ok <=> w) BY <1>1 DEF AtOK
  <2>3. v \in Seq(Ref) BY <1>3
  <2> HIDE DEF v, ok, w
  <2> QED BY <1>2, <2>1, <2>2, <2>3, ExactUpdate
<1>5. CASE \E n \in Operands(insts[i].tabs[k].is64), e \in Engines : TableFill(e, i, k, x, n, r)
  <2>1. PICK n \in Operands(FALSE), e \in Engines : TableFill(e, i, k, x, n, r) BY <1>1, <1>5
  <2> DEFINE v == Repeat(r, n) ok == FillOK(e, t, x, n) w == InRange(Size(t), x, n)
  <2>2. Update(t, x, v, ok, v, w) BY <2>1 DEF TableFill
  <2>3. ok <=> w BY <1>1, <1>2, FillExact32
  <2>4. ok \in BOOLEAN /\ w \in BOOLEAN
    <3>1. w \in BOOLEAN BY DEF InRange
    <3>2. CASE e = "interp" BY <3>1, <3>2 DEF FillOK
    <3>3. CASE e # "interp" BY <3>1, <3>3 DEF FillOK
    <3> QED BY <3>2, <3>3
  <2>5. n \in Nat BY OperandNat
  <2>6. v \in Seq(Ref) BY <1>3, <2>5, RepeatIs
  <2> HIDE DEF v, ok, w
  <2> QED BY <1>2, <2>2, <2>3, <2>4, <2>6, ExactUpdate
<1> QED BY <1>4, <1>5

\* table.copy.
LEMMA ExactCopy ==
  ASSUME TypeInv, ExactInv, NEW i, i \in DOMAIN insts, insts[i].out # "freed",
         NEW k, k \in DOMAIN insts[i].tabs, NEW j, j \in DOMAIN insts[i].tabs,
         NEW d, d \in Operands(insts[i].tabs[k].is64), NEW s, s \in Operands(insts[i].tabs[j].is64),
         NEW n, n \in Operands(insts[i].tabs[k].is64), NEW e, e \in Engines,
         TableCopy(e, i, k, j, d, s, n)
  PROVE  ExactInv' /\ OutcomeExact'
<1> DEFINE t == insts[i].tabs[k] u == insts[i].tabs[j]
           ok == CopyOK(e, t, u, d, s, n)
           w == InRange(Size(t), d, n) /\ InRange(Size(u), s, n)
           view == View(u) all == Slice(view, s, n)
           vals == IF ok THEN all ELSE <<>>
           wvals == IF w THEN Slice(want[u.tid], s, n) ELSE <<>>
<1>1. /\ t.is64 = FALSE /\ t.size = Size(t) /\ t.size \in 0 .. N32
      /\ u.is64 = FALSE /\ u.size = Size(u) /\ u.size \in 0 .. N32 /\ view = want[u.tid]
  BY SizeExact
<1>2. d \in Operands(FALSE) /\ s \in Operands(FALSE) /\ n \in Operands(FALSE) BY <1>1
<1>3. d \in Nat /\ d \in Int /\ s \in Nat /\ n \in Nat BY <1>2, OperandNat
<1>4. FillOK(e, t, d, n) <=> InRange(t.size, d, n) BY <1>1, <1>2, FillExact32
<1>5. FillOK(e, u, s, n) <=> InRange(u.size, s, n) BY <1>1, <1>2, FillExact32
<1>6. ok <=> w BY <1>1, <1>4, <1>5 DEF CopyOK
<1>7. ok \in BOOLEAN /\ w \in BOOLEAN BY DEF CopyOK
<1>8. Update(t, d, vals, ok, wvals, w) BY DEF TableCopy
<1>9. view \in Seq(Ref)
  <2>1. u.tid \in DOMAIN want BY BlocksAre
  <2> QED BY <1>1, <2>1, BlocksAre
<1>10. all \in Seq(Ref)
  <2> HIDE DEF view
  <2> QED BY <1>3, <1>9, SliceIs
<1>11. ok => vals = all /\ wvals = all BY <1>1, <1>6
<1> HIDE DEF ok, w, vals, wvals, all
<1> QED BY <1>3, <1>6, <1>7, <1>8, <1>10, <1>11, ExactUpdate

\* table.init.
LEMMA ExactTableInit ==
  ASSUME TypeInv, RefInv, ExactInv, NEW i, i \in DOMAIN insts, insts[i].out # "freed",
         insts[i].jit_mem0, NEW k, k \in DOMAIN insts[i].tabs, NEW g, g \in DOMAIN insts[i].elem_alive,
         NEW d, d \in Operands(insts[i].tabs[k].is64), NEW s, s \in Operands(FALSE),
         NEW n, n \in Operands(FALSE), NEW e, e \in Engines, TableInit(e, i, k, g, d, s, n)
  PROVE  ExactInv' /\ OutcomeExact'
<1> DEFINE t == insts[i].tabs[k] m == insts[i].mod seg == Mods[m].elems[g] its == Items(i, seg)
           len == IF insts[i].elem_alive[g] THEN Len(seg.items) ELSE 0
           ok == InitOK(e, t, len, d, s, n)
           w == InRange(len, s, n) /\ InRange(Size(t), d, n)
           all == Slice(its, s, n)
           vals == IF ok THEN Slice(InitItems(i, g), s, n) ELSE <<>>
           wvals == IF w THEN all ELSE <<>>
<1>1. t.is64 = FALSE /\ t.size = Size(t) /\ t.size \in 0 .. N32 BY SizeExact
<1>2. d \in Operands(FALSE) /\ d \in Nat /\ d \in Int /\ s \in Nat /\ n \in Nat
  <2>1. d \in Operands(FALSE) BY <1>1
  <2>2. d \in Nat /\ s \in Nat /\ n \in Nat BY <2>1 DEF Operands
  <2>3. d \in Int BY <2>2
  <2> QED BY <2>1, <2>2, <2>3
<1>3. m \in DOMAIN Mods /\ g \in DOMAIN Mods[m].elems BY InstsAre DEF InstT, RefInv, AliveFits
<1>4. len \in Nat
  <2>1. seg.items \in Seq(Space(m, "func")) BY <1>3, LinkingMods DEF Valid
  <2>2. Len(seg.items) \in Nat BY <2>1, LenProperties
  <2> QED BY <2>2
<1>5. its \in Seq(Ref) BY <1>3, ItemsAre
<1>6. InitItems(i, g) = its
  <2>1. seg.expr => ecache[m][g] = its BY <1>3 DEF ExactInv, CacheFirst
  <2> QED BY <2>1 DEF InitItems
<1>7. Update(t, d, vals, ok, wvals, w) BY DEF TableInit
<1>8. ok <=> InRange(len, s, n) /\ InRange(t.size, d, n)
  <2> HIDE DEF len
  <2> QED BY <1>1, <1>2, <1>4, InitExact32
<1>9. ok <=> w BY <1>1, <1>8
<1>10. ok \in BOOLEAN /\ w \in BOOLEAN BY DEF InitOK
<1>11. all \in Seq(Ref)
  <2> HIDE DEF its
  <2> QED BY <1>2, <1>5, SliceIs
<1>12. ok => vals = all /\ wvals = all BY <1>6, <1>9
<1> HIDE DEF ok, w, vals, wvals, all
<1> QED BY <1>2, <1>7, <1>9, <1>10, <1>11, <1>12, ExactUpdate

\* An element segment: its items go to the array and the table, or to neither.
LEMMA ExactElem ==
  ASSUME TypeInv, ExactInv, OutcomeExact, Elem
  PROVE  ExactInv' /\ OutcomeExact'
<1> DEFINE e == D.elems[cur.k]
           t == insts[I].tabs[e.tab]
           off == Eval(insts[I].globs, cells, e.off) % N32
           its == Items(I, e)
           ok == ActiveOK(t, off, Len(e.items))
           w == InRange(Len(want[t.tid]), off, Len(e.items))
<1>1. Steady /\ Kept /\ UNCHANGED ecache BY ElemQuiet
<1>2. /\ cur.phase = "elem" /\ cur.phase \notin {"idle", "import"} /\ cur.phase # "idle"
      /\ cur.k <= Len(D.elems) BY DEF Elem
<1>3. /\ I \in DOMAIN insts /\ insts[I] \in InstT /\ insts[I].jit_mem0 /\ insts[I].out = "building"
      /\ cur.k \in Nat /\ cur.k # 0 BY <1>2, CurIs
<1>4. insts[I].mod \in DOMAIN Mods /\ Valid(insts[I].mod) BY <1>3, LinkingMods DEF InstT
<1>5. cur.k \in DOMAIN D.elems
  <2>1. D.elems \in Seq({D.elems[k] : k \in DOMAIN D.elems}) BY <1>4 DEF Valid, D
  <2>2. DOMAIN D.elems = 1 .. Len(D.elems) BY <2>1, LenProperties
  <2> QED BY <2>2, <1>2, <1>3
<1>6. CASE UNCHANGED <<blocks, want, last>>
  <2>1. ExactInv' BY <1>1, <1>6, ExactQuiet
  <2>2. OutcomeExact' BY <1>6 DEF OutcomeExact
  <2> QED BY <2>1, <2>2
<1>7. ASSUME e.mode = "active"
      PROVE  /\ e.tab \in DOMAIN insts[I].tabs /\ off \in 0 .. N32 - 1
             /\ its \in Seq(Ref) /\ Len(e.items) \in Nat
  <2>1. e.tab \in Space(insts[I].mod, "table") /\ e.items \in Seq(Space(insts[I].mod, "func"))
    BY <1>4, <1>5, <1>7 DEF Valid, D
  <2>2. Has(insts[I], "table") = Imported(insts[I].mod, "table") + Defined(insts[I].mod, "table")
    BY <1>3 DEF TypeInv, Sized, Kinds
  <2>3. e.tab \in 1 .. Len(insts[I].tabs) BY <2>1, <2>2 DEF Space, Has
  <2>4. insts[I].tabs \in Seq(TableT) BY <1>3 DEF InstT
  <2>5. ExprValid(e.off, Imported(insts[I].mod, "global") + Defined(insts[I].mod, "global"))
    BY <1>4, <1>5, <1>7 DEF Valid, D
  <2>6. off \in 0 .. N32 - 1 BY <1>3, <2>5, EvalIs
  <2>7. its \in Seq(Ref) BY <1>3, <1>5, ItemsAre DEF D
  <2>8. e.tab \in DOMAIN insts[I].tabs BY <2>3, <2>4, LenProperties
  <2>9. Len(e.items) \in Nat BY <2>1, LenProperties
  <2> QED BY <2>6, <2>7, <2>8, <2>9
<1>8. ASSUME e.mode = "active" PROVE ok \in BOOLEAN /\ w \in BOOLEAN /\ (ok <=> w)
  <2>1. t.size = Len(want[t.tid]) /\ t.size \in Nat
    <3>1. t.size = Size(t) /\ t.size \in 0 .. N32 BY <1>3, <1>7, <1>8, SizeExact
    <3>2. Size(t) = Len(want[t.tid]) BY DEF Size
    <3> HIDE DEF t
    <3> QED BY <3>1, <3>2
  <2>2. Len(e.items) \in Nat /\ off \in Nat BY <1>7, <1>8
  <2>3. ok <=> w
    <3> DEFINE n == Len(e.items)  sz == t.size
    <3>1. n \in Nat /\ off \in Nat /\ sz \in Nat /\ Len(want[t.tid]) = sz BY <2>1, <2>2
    <3>2. (n <= sz /\ off <= sz - n) <=> off + n <= sz
      <4> HIDE DEF t, off, n, sz
      <4> QED BY <3>1
    <3>3. ok <=> (n <= sz /\ off <= sz - n) BY DEF ActiveOK
    <3>4. w <=> off + n <= sz
      <4>1. w <=> off + n <= Len(want[t.tid])
        <5> HIDE DEF t, off, n
        <5> QED BY DEF InRange, n
      <4> HIDE DEF t, off, n, sz, w
      <4> QED BY <3>1, <4>1
    <3> HIDE DEF t, off, n, sz, w, ok
    <3> QED BY <3>2, <3>3, <3>4
  <2>4. ok \in BOOLEAN
    <3> HIDE DEF t, off
    <3> QED BY DEF ActiveOK
  <2>5. w \in BOOLEAN
    <3> HIDE DEF t, off
    <3> QED BY DEF InRange
  <2> QED BY <2>3, <2>4, <2>5
<1>9. CASE /\ e.mode = "active" /\ ok
           /\ blocks' = [blocks EXCEPT ![t.blk].els = Stored(@, off, its)]
           /\ want' = IF w THEN [want EXCEPT ![t.tid] = Stored(@, off, its)] ELSE want
           /\ last' = Done(TRUE, w)
  <2>1. w BY <1>8, <1>9
  <2>2. want' = [want EXCEPT ![t.tid] = Stored(@, off, its)] BY <1>9, <2>1
  <2>3. off \in 0 .. N32 - 1 /\ its \in Seq(Ref) /\ e.tab \in DOMAIN insts[I].tabs BY <1>7, <1>9
  <2> DEFINE b == t.blk c == t.tid k == e.tab
  <2>4. b = insts[I].tabs[k].blk /\ c = insts[I].tabs[k].tid OBVIOUS
  <2>9. /\ blocks' = [blocks EXCEPT ![b].els = Stored(@, off, its)]
        /\ want' = [want EXCEPT ![c] = Stored(@, off, its)] BY <1>9, <2>2
  <2>5. OutcomeExact'
    <3>1. w = TRUE BY <1>8, <1>9, <2>1
    <3>2. last'.ok = TRUE /\ last'.want = w BY <1>9 DEF Done
    <3> QED BY <3>1, <3>2 DEF OutcomeExact
  <2>6. Matches
    <3>1. k \in DOMAIN insts[I].tabs BY <2>3
    <3>2. insts[I].out # "freed" BY <1>3
    <3> HIDE DEF t, off, its, b, c, k, e
    <3>3. off \in Int BY <2>3
    <3> QED BY <1>3, <2>3, <2>4, <2>9, <3>1, <3>2, <3>3, StoredMatches
  <2>7. \A i \in DOMAIN insts : insts[i].out = "freed" => insts'[i].out = "freed" BY <1>1 DEF Steady
  <2>8. ExactInv' BY <1>1, <2>6, <2>7, ExactKept
  <2> QED BY <2>5, <2>8
<1>10. CASE e.mode = "active" /\ ~ ok /\ UNCHANGED <<blocks, want>> /\ last' = Fails(w)
  <2>1. w = FALSE BY <1>8, <1>10
  <2>2. last'.ok = FALSE /\ last'.want = w BY <1>10 DEF Fails
  <2>3. ExactInv' BY <1>1, <1>10, ExactQuiet
  <2> QED BY <2>1, <2>2, <2>3 DEF OutcomeExact
<1>11. \/ UNCHANGED <<blocks, want, last>>
       \/ /\ e.mode = "active" /\ ok
          /\ blocks' = [blocks EXCEPT ![t.blk].els = Stored(@, off, its)]
          /\ want' = IF w THEN [want EXCEPT ![t.tid] = Stored(@, off, its)] ELSE want
          /\ last' = Done(TRUE, w)
       \/ e.mode = "active" /\ ~ ok /\ UNCHANGED <<blocks, want>> /\ last' = Fails(w)
  BY DEF Elem, OnOverrun, Abandon
<1> QED BY <1>6, <1>9, <1>10, <1>11

\* What growing adds to the elements.
Prolongs(els, v, r, delta) ==
  /\ els \in Seq(Ref) /\ v \in Seq(Ref) /\ Len(els) = Len(v) + delta
  /\ \A x \in 1 .. Len(v) + delta : els[x] = IF x <= Len(v) THEN v[x] ELSE r

\* A list is determined by a prefix and what repeats behind it.
LEMMA ExtendedIs ==
  ASSUME NEW v, NEW r, r \in Ref, NEW delta, delta \in Nat, NEW els, Prolongs(els, v, r, delta)
  PROVE  els = v \o Repeat(r, delta)
<1> DEFINE p == Repeat(r, delta) q == v \o p m == Len(v)
<1>0. /\ els \in Seq(Ref) /\ v \in Seq(Ref) /\ Len(els) = m + delta
      /\ \A x \in 1 .. m + delta : els[x] = IF x <= m THEN v[x] ELSE r
  BY DEF Prolongs
<1>7. m = Len(v) OBVIOUS
<1> HIDE DEF m
<1>1. p \in Seq(Ref) /\ Len(p) = delta /\ \A x \in 1 .. delta : p[x] = r BY RepeatIs
<1> HIDE DEF p
<1>2. /\ q \in Seq(Ref) /\ Len(q) = m + delta /\ m \in Nat /\ DOMAIN v = 1 .. m /\ DOMAIN p = 1 .. delta
  BY <1>0, <1>1, <1>7, Joined
<1>6. \A x \in DOMAIN v : q[x] = v[x] BY <1>0, <1>1, <1>7, Joined
<1>3. \A y \in DOMAIN p : q[m + y] = p[y] BY <1>0, <1>1, <1>7, Joined
<1> HIDE DEF q
<1>4. ASSUME NEW x \in 1 .. Len(els) PROVE els[x] = q[x]
  <2>1. x \in 1 .. m + delta BY <1>0, <1>4
  <2>2. CASE x <= m
    <3>1. x \in DOMAIN v BY <1>0, <1>2, <2>1, <2>2
    <3> QED BY <1>0, <1>6, <2>1, <2>2, <3>1
  <2>3. CASE ~ (x <= m)
    <3>1. x - m \in 1 .. delta /\ m + (x - m) = x BY <1>0, <1>2, <2>1, <2>3
    <3>2. q[m + (x - m)] = p[x - m] BY <1>2, <1>3, <3>1
    <3>3. p[x - m] = r BY <1>1, <3>1
    <3>4. els[x] = r BY <1>0, <2>1, <2>3
    <3> QED BY <3>1, <3>2, <3>3, <3>4
  <2> QED BY <2>2, <2>3
<1>5. els = q BY <1>0, <1>2, <1>4, SeqEqual
<1> QED BY <1>5 DEF q, p

\* The one record of a table, its array and the table itself replaced together.
LEMMA ExactGrown ==
  ASSUME TypeInv, ExactInv, NEW i, i \in DOMAIN insts, NEW k, k \in DOMAIN insts[i].tabs,
         UNCHANGED ecache, Alone(i, k), insts[i].tabs[k].is64 = FALSE,
         NEW n, n <= N32, NEW els, els \in Seq(Ref), Len(els) = n, GrowsTable(i, k, n, els),
         NEW c, c = insts[i].tabs[k].tid, want' = [want EXCEPT ![c] = els],
         NEW b, b = insts[i].tabs[k].blk, blocks[b].live = TRUE
  PROVE  ExactInv'
<1>1. PICK u \in TableT :
        /\ TabSet(insts, insts', i, k, u) /\ u.size = n /\ u.is64 = FALSE /\ u.tid = c
        /\ \/ u.blk = b /\ Extended(b, els)
           \/ u.blk = Len(blocks) + 1 /\ Moved(b, els)
  BY DEF GrowsTable
<1>2. b \in DOMAIN blocks /\ c \in DOMAIN want /\ DOMAIN blocks = 1 .. Len(blocks) /\ Len(blocks) \in Nat
  BY BlocksAre
<1>3. want'[c] = els /\ \A x \in DOMAIN want : x # c => want'[x] = want[x] BY <1>2, WantWrite
<1>4. /\ blocks'[u.blk].els = els /\ blocks'[u.blk].live = TRUE
      /\ \A x \in DOMAIN blocks : x # b => blocks'[x] = blocks[x]
      /\ u.blk = b \/ u.blk \notin DOMAIN blocks
  <2>1. CASE u.blk = b /\ Extended(b, els)
    <3>1. blocks' = [blocks EXCEPT ![b].els = els] BY <2>1 DEF Extended
    <3>2. /\ blocks'[b].els = els /\ blocks'[b].live = blocks[b].live
          /\ \A x \in DOMAIN blocks : x # b => blocks'[x] = blocks[x]
      BY <1>2, <3>1, BlockWrite
    <3> QED BY <2>1, <3>2
  <2>2. CASE u.blk = Len(blocks) + 1 /\ Moved(b, els)
    <3>1. /\ blocks'[Len(blocks) + 1].els = els /\ blocks'[Len(blocks) + 1].live = TRUE
          /\ \A x \in DOMAIN blocks : x # b => blocks'[x] = blocks[x]
      BY <1>2, <2>2, MovedIs
    <3> QED BY <1>2, <2>2, <3>1
  <2> QED BY <1>1, <2>1, <2>2
<1>5. /\ DOMAIN insts' = DOMAIN insts
      /\ \A j \in DOMAIN insts :
           /\ insts'[j].mod = insts[j].mod /\ insts'[j].jit_mem0 = insts[j].jit_mem0
           /\ insts'[j].out = insts[j].out /\ DOMAIN insts'[j].tabs = DOMAIN insts[j].tabs
      /\ insts'[i].tabs[k] = u
  BY <1>1 DEF TabSet
\* every other record is what it was, and of another table and array
<1>6. ASSUME NEW j, j \in DOMAIN insts, NEW l, l \in DOMAIN insts[j].tabs, ~ (j = i /\ l = k)
      PROVE  /\ insts'[j].tabs[l] = insts[j].tabs[l]
             /\ insts[j].tabs[l].tid # c /\ insts[j].tabs[l].blk # b
             /\ insts[j].tabs[l].blk \in DOMAIN blocks /\ insts[j].tabs[l].tid \in DOMAIN want
  <2>1. insts'[j].tabs[l] = insts[j].tabs[l] BY <1>1, <1>6 DEF TabSet
  <2>2. insts[j].tabs[l].tid # c BY <1>6 DEF Alone
  <2>3. insts[j].tabs[l].blk # b BY <1>6, <2>2 DEF ExactInv, TabsSame
  <2>4. insts[j].tabs[l].blk \in DOMAIN blocks /\ insts[j].tabs[l].tid \in DOMAIN want
    BY <1>6, BlocksAre
  <2> QED BY <2>1, <2>2, <2>3, <2>4
<1>7. Narrow'
  <2> SUFFICES ASSUME NEW j \in DOMAIN insts, NEW l \in DOMAIN insts[j].tabs
               PROVE  insts'[j].tabs[l].is64 = FALSE
    BY <1>5 DEF Narrow
  <2> QED BY <1>1, <1>5, <1>6 DEF ExactInv, Narrow
<1>8. TabsSame'
  <2> SUFFICES ASSUME NEW j \in DOMAIN insts, NEW a \in DOMAIN insts,
                      NEW l \in DOMAIN insts[j].tabs, NEW p \in DOMAIN insts[a].tabs
               PROVE  insts'[j].tabs[l].tid = insts'[a].tabs[p].tid
                        <=> insts'[j].tabs[l].blk = insts'[a].tabs[p].blk
    BY <1>5 DEF TabsSame
  <2>1. CASE j = i /\ l = k /\ a = i /\ p = k BY <2>1
  <2>2. CASE j = i /\ l = k /\ ~ (a = i /\ p = k) BY <1>1, <1>4, <1>5, <1>6, <2>2
  <2>3. CASE a = i /\ p = k /\ ~ (j = i /\ l = k) BY <1>1, <1>4, <1>5, <1>6, <2>3
  <2>4. CASE ~ (j = i /\ l = k) /\ ~ (a = i /\ p = k)
    BY <1>6, <2>4 DEF ExactInv, TabsSame
  <2> QED BY <2>1, <2>2, <2>3, <2>4
<1>9. TabsHold'
  <2> SUFFICES ASSUME NEW j \in DOMAIN insts, insts[j].out # "freed",
                      NEW l \in DOMAIN insts[j].tabs, NEW t, t = insts'[j].tabs[l]
               PROVE  /\ blocks'[t.blk].live = TRUE /\ blocks'[t.blk].els = want'[t.tid]
                      /\ t.size = Len(want'[t.tid]) /\ t.size <= N32
    BY <1>5 DEF TabsHold, Holds
  <2>1. CASE j = i /\ l = k BY <1>1, <1>3, <1>4, <1>5, <2>1
  <2>2. CASE ~ (j = i /\ l = k)
    <3>1. Holds(insts[j].tabs[l]) BY DEF ExactInv, TabsHold
    <3>2. /\ t = insts[j].tabs[l] /\ blocks'[t.blk] = blocks[t.blk] /\ want'[t.tid] = want[t.tid]
      BY <1>3, <1>4, <1>6, <2>2
    <3> QED BY <3>1, <3>2 DEF Holds
  <2> QED BY <2>1, <2>2
<1>10. CacheEmpty' BY <1>5 DEF ExactInv, CacheEmpty
<1>11. CacheFirst' BY <1>5, CacheKept DEF ExactInv
<1>12. OneEach' BY <1>5 DEF ExactInv, OneEach
<1> QED BY <1>7, <1>8, <1>9, <1>10, <1>11, <1>12 DEF ExactInv

\* Growing the one record of a table keeps its array and the table the same,
\* whether realloc moves it or not.
LEMMA ExactGrow ==
  ASSUME TypeInv, RefInv, ExactInv, ~ GrowShared, NEW i, i \in DOMAIN insts,
         insts[i].out # "freed", insts[i].jit_mem0, NEW k, k \in DOMAIN insts[i].tabs,
         NEW delta, delta \in Operands(insts[i].tabs[k].is64), NEW r, r \in Refs(i),
         TableGrow(i, k, delta, r)
  PROVE  ExactInv' /\ OutcomeExact'
<1> DEFINE t == insts[i].tabs[k]
           n == GrowTo(t, delta)
           v == want[t.tid]
           els == [x \in 1 .. n |-> IF x <= t.size THEN View(t)[x] ELSE r]
           w == Size(t) + delta <= t.max /\ Size(t) + delta <= N32
           can == CanGrow(t, delta)
<1>0. UNCHANGED <<named, ecache>> /\ ecache' = ecache /\ Alone(i, k) BY DEF TableGrow
<1>1. /\ t.is64 = FALSE /\ t.size = Size(t) /\ t.size \in 0 .. N32 /\ View(t) = v /\ Holds(t)
      /\ t \in TableT /\ t.blk \in DOMAIN blocks /\ t.tid \in DOMAIN want
  BY SizeExact, BlocksAre
<1>2. N32 \in Nat /\ delta \in 0 .. N32 - 1 BY <1>1, TableWidths DEF Operands
<1>3. n = t.size + delta
  <2>1. U64(t.size + delta) = t.size + delta BY <1>1, <1>2, SumExact
  <2> QED BY <2>1 DEF GrowTo
<1>4. t.size \in Nat /\ delta \in Nat /\ n \in Nat
  <2> HIDE DEF t, n
  <2> QED BY <1>1, <1>2, <1>3
<1>5. can = w BY <1>1, <1>3 DEF CanGrow
<1>6. last' = Done(can, w) BY DEF TableGrow
<1>7. OutcomeExact'
  <2>1. last'.ok = can /\ last'.want = w BY <1>6 DEF Done
  <2> QED BY <1>5, <2>1 DEF OutcomeExact
<1>8. want' = IF w THEN [want EXCEPT ![t.tid] = v \o Repeat(r, delta)] ELSE want BY DEF TableGrow
<1>9. CASE ~ can
  <2>1. UNCHANGED <<insts, blocks>> BY <1>9 DEF TableGrow
  <2>2. UNCHANGED want BY <1>5, <1>8, <1>9
  <2> QED BY <1>0, <1>7, <2>1, <2>2, SameSteady, ExactQuiet
<1>10. CASE can
  <2>1. GrowsTable(i, k, n, els)
    <3>1. can /\ GrowTo(t, delta) \in Nat BY <1>4, <1>10
    <3>2. GrowsTable(i, k, GrowTo(t, delta),
                     [x \in 1 .. GrowTo(t, delta) |-> IF x <= t.size THEN View(t)[x] ELSE r])
      <4>1. t = insts[i].tabs[k] OBVIOUS
      <4> HIDE DEF t
      <4> QED BY <3>1, <4>1, GrowIs
    <3> QED BY <3>2
  <2>2. /\ els \in Seq(Ref) /\ Len(els) = n
    <3>1. t = insts[i].tabs[k] /\ els = [x \in 1 .. n |-> IF x <= t.size THEN View(t)[x] ELSE r] OBVIOUS
    <3> HIDE DEF t, els, n
    <3> QED BY <1>4, <3>1, GrownEls
  <2>3. els = v \o Repeat(r, delta)
    <3>1. v \in Seq(Ref) /\ t.size = Len(v)
      <4>1. Size(t) = Len(v) BY DEF Size
      <4>2. v \in Seq(Ref) BY <1>1, BlocksAre
      <4> QED BY <1>1, <4>1, <4>2
    <3>2. r \in Ref BY RefsAre
    <3>3. els = [x \in 1 .. n |-> IF x <= t.size THEN v[x] ELSE r] BY <1>1
    <3> DEFINE s == t.size
    <3>4. els = [x \in 1 .. s + delta |-> IF x <= s THEN v[x] ELSE r] BY <1>3, <3>3
    <3>5. s = Len(v) BY <1>3, <2>2, <3>1
    <3>9. Len(els) = s + delta BY <1>3, <2>2, <3>1
    <3>10. \A x \in 1 .. s + delta : els[x] = IF x <= s THEN v[x] ELSE r
      <4> HIDE DEF els, v, s, t
      <4> QED BY <3>4
    <3>6. delta \in Nat BY <1>4
    <3>7. els \in Seq(Ref) BY <2>2
    <3>8. v \in Seq(Ref) BY <3>1
    <3> HIDE DEF t, els, v, s, n, w, can
    <3>11. Prolongs(els, v, r, delta) BY <3>5, <3>7, <3>8, <3>9, <3>10 DEF Prolongs
    <3> QED BY <3>2, <3>6, <3>11, ExtendedIs
  <2>4. want' = [want EXCEPT ![t.tid] = els] BY <1>5, <1>8, <1>10, <2>3
  <2>5. n <= N32 BY <1>10 DEF CanGrow
  <2>6. ExactInv'
    <3> DEFINE b == t.blk c == t.tid
    <3>1. b = insts[i].tabs[k].blk OBVIOUS
    <3>6. c = insts[i].tabs[k].tid OBVIOUS
    <3>7. insts[i].tabs[k].is64 = FALSE BY <1>1
    <3>2. blocks[b].live = TRUE BY <1>1 DEF Holds
    <3>3. want' = [want EXCEPT ![c] = els] BY <2>4
    <3>4. els \in Seq(Ref) BY <2>2
    <3>5. Len(els) = n BY <2>2
    <3> HIDE DEF t, els, n, b, c, v, w, can
    <3> QED BY <1>0, <2>1, <2>5, <3>1, <3>2, <3>3, <3>4, <3>5, <3>6, <3>7, ExactGrown
  <2> QED BY <1>7, <2>6
<1> QED BY <1>9, <1>10

\* Every instruction.
LEMMA ExactRun ==
  ASSUME TypeInv, RefInv, ApartInv, ExactInv, ~ GrowShared, NEW i, i \in Runs, Run(i)
  PROVE  ExactInv' /\ OutcomeExact'
<1>1. i \in DOMAIN insts /\ insts[i].out # "freed" BY RunsAlive
<1>2. insts[i].jit_mem0 BY RunIs
<1>3. ASSUME NEW k \in DOMAIN insts[i].tabs, NEW x \in Nat, NEW e \in Engines, NEW ty,
             x \in Operands(insts[i].tabs[k].is64), TableGet(i, k, x) \/ CallIndirect(e, i, k, x, ty)
      PROVE  ExactInv' /\ OutcomeExact'
  BY <1>1, <1>3, ExactReads
<1>4. ASSUME NEW k \in DOMAIN insts[i].tabs, NEW x \in Nat, NEW r \in Refs(i),
             x \in Operands(insts[i].tabs[k].is64), TableSet(i, k, x, r)
      PROVE  ExactInv' /\ OutcomeExact'
  BY <1>1, <1>2, <1>4, ExactSetFill
<1>5. ASSUME NEW k \in DOMAIN insts[i].tabs, NEW x \in Nat, NEW n \in Nat, NEW r \in Refs(i),
             NEW e \in Engines, x \in Operands(insts[i].tabs[k].is64),
             n \in Operands(insts[i].tabs[k].is64), TableFill(e, i, k, x, n, r)
      PROVE  ExactInv' /\ OutcomeExact'
  <2>1. \E m \in Operands(insts[i].tabs[k].is64), f \in Engines : TableFill(f, i, k, x, m, r)
    BY <1>5
  <2> QED BY <1>1, <1>2, <1>5, <2>1, ExactSetFill
<1>6. ASSUME NEW k \in DOMAIN insts[i].tabs, NEW j \in DOMAIN insts[i].tabs,
             NEW d \in Nat, NEW s \in Nat, NEW n \in Nat, NEW e \in Engines,
             d \in Operands(insts[i].tabs[k].is64), s \in Operands(insts[i].tabs[j].is64),
             n \in Operands(insts[i].tabs[k].is64), TableCopy(e, i, k, j, d, s, n)
      PROVE  ExactInv' /\ OutcomeExact'
  BY <1>1, <1>6, ExactCopy
<1>7. ASSUME NEW k \in DOMAIN insts[i].tabs, NEW g \in DOMAIN insts[i].elem_alive,
             NEW d \in Nat, NEW s \in Nat, NEW n \in Nat, NEW e \in Engines,
             d \in Operands(insts[i].tabs[k].is64), s \in Operands(FALSE), n \in Operands(FALSE),
             TableInit(e, i, k, g, d, s, n)
      PROVE  ExactInv' /\ OutcomeExact'
  BY <1>1, <1>2, <1>7, ExactTableInit
<1>8. ASSUME NEW k \in DOMAIN insts[i].tabs, NEW delta \in Nat, NEW r \in Refs(i),
             delta \in Operands(insts[i].tabs[k].is64), TableGrow(i, k, delta, r)
      PROVE  ExactInv' /\ OutcomeExact'
  BY <1>1, <1>2, <1>8, ExactGrow
<1>9. ASSUME NEW g \in DOMAIN insts[i].elem_alive, ElemDrop(i, g)
      PROVE  ExactInv' /\ OutcomeExact'
  <2>1. /\ insts' = [insts EXCEPT ![i].elem_alive[g] = FALSE] /\ last' = Done(TRUE, TRUE)
        /\ UNCHANGED <<blocks, want, ecache>>
    BY <1>9 DEF ElemDrop
  <2>2. Kept BY <1>1, <2>1, ElemAliveSet
  <2>3. Steady BY RunQuiet
  <2> QED BY <2>1, <2>2, <2>3, ExactQuiet DEF OutcomeExact, Done
<1>10. ASSUME NEW k \in DOMAIN insts[i].mems, NEW delta \in Deltas, MemoryGrow(i, k, delta)
       PROVE  ExactInv' /\ OutcomeExact'
  <2>1. last' = Done(TRUE, TRUE) /\ UNCHANGED <<insts, named, blocks, want, ecache>>
    BY <1>10 DEF MemoryGrow
  <2>2. Steady /\ Kept BY <2>1, SameSteady
  <2> QED BY <2>1, <2>2, ExactQuiet DEF OutcomeExact, Done
<1> QED BY <1>3, <1>4, <1>5, <1>6, <1>7, <1>8, <1>9, <1>10, RunIs

----------------------------------------------------------------------------
(* The steps of an instantiation, and of the host.                         *)

\* Active data segments touch no table.
LEMMA ExactData ==
  ASSUME TypeInv, ExactInv, OutcomeExact, Data
  PROVE  ExactInv' /\ OutcomeExact'
<1>1. Steady /\ Kept /\ UNCHANGED <<blocks, ecache>> BY DataQuiet
<1>2. UNCHANGED want BY DEF Data
<1>3. OutcomeExact'
  <2> DEFINE at == [cur EXCEPT !.phase = "data", !.k = IF cur.phase = "elem" THEN 1 ELSE cur.k]
  <2>1. \/ last' = last
        \/ last' = Done(TRUE, TRUE)
        \/ last' = [ok |-> FALSE, want |-> FALSE, at |-> at]
    BY Zenon DEF Data
  <2> HIDE DEF at
  <2>2. CASE last' = last BY <2>2 DEF OutcomeExact
  <2>3. CASE last' = Done(TRUE, TRUE) BY <2>3 DEF OutcomeExact, Done
  <2>4. CASE last' = [ok |-> FALSE, want |-> FALSE, at |-> at] BY <2>4 DEF OutcomeExact
  <2> QED BY <2>1, <2>2, <2>3, <2>4
<1> QED BY <1>1, <1>2, <1>3, ExactQuiet

\* The end of an instantiation touches no table.
LEMMA ExactFinish ==
  ASSUME TypeInv, ExactInv, Finish \/ StartEnds("ok") \/ StartEnds("trapped")
  PROVE  ExactInv' /\ OutcomeExact'
<1>1. Steady /\ Kept /\ UNCHANGED <<blocks, ecache>> BY FinishQuiet
<1>2. UNCHANGED want /\ last' = Done(TRUE, TRUE) BY DEF Finish, StartEnds
<1> QED BY <1>1, <1>2, ExactQuiet DEF OutcomeExact, Done

\* A registration touches no table.
LEMMA ExactRegister ==
  ASSUME TypeInv, ExactInv, NEW name, name \in Names, NEW i, i \in DOMAIN insts, Register(name, i)
  PROVE  ExactInv' /\ OutcomeExact'
<1>1. Steady /\ Kept /\ UNCHANGED <<blocks, ecache>> BY RegisterQuiet
<1>2. UNCHANGED want /\ last' = Done(TRUE, TRUE) BY DEF Register
<1> QED BY <1>1, <1>2, ExactQuiet DEF OutcomeExact, Done

\* The array of a table that several instances have is never freed.
LEMMA ExactFree ==
  ASSUME TypeInv, ApartInv, ExactInv, NEW i, i \in DOMAIN insts, Free(i)
  PROVE  ExactInv' /\ OutcomeExact'
<1>1. /\ insts' = [insts EXCEPT ![i].out = "freed"] /\ insts[i].mod \in Frees
      /\ UNCHANGED <<named, ecache, want>> /\ last' = Done(TRUE, TRUE)
      /\ \A k \in 1 .. Len(named) : named[k][2] # i
  BY DEF Free
<1>2. /\ Kept /\ insts'[i].out = "freed"
      /\ \A j \in DOMAIN insts : j # i => insts'[j] = insts[j]
  BY <1>1, OutSet DEF Outs
<1>3. i \in Loose BY <1>1 DEF Loose, Listed
<1>4. Matches
  <2> SUFFICES ASSUME NEW j \in DOMAIN insts, insts[j].out # "freed", j # i,
                      NEW k \in DOMAIN insts[j].tabs
               PROVE  Matched(insts[j].tabs[k])
    BY <1>2 DEF Matches
  <2> DEFINE t == insts[j].tabs[k]
  <2>1. Holds(t) BY DEF ExactInv, TabsHold
  <2>2. t.blk \in DOMAIN blocks BY BlocksAre
  <2>3. \A l \in DOMAIN insts[i].tabs : insts[i].tabs[l].blk # t.blk
    BY <1>3 DEF ApartInv, TabsOwned
  <2>4. blocks'[t.blk].els = blocks[t.blk].els BY <2>2, FreeIs
  <2>5. blocks'[t.blk].live <=> blocks[t.blk].live BY <2>2, <2>3, FreeIs
  <2>6. blocks'[t.blk].live \in BOOLEAN
    <3>1. blocks' \in Seq(BlockT) /\ t.blk \in DOMAIN blocks' BY <2>2, FreeIs
    <3>2. t.blk \in 1 .. Len(blocks') BY <3>1, LenProperties
    <3>3. blocks'[t.blk] \in BlockT BY <3>1, <3>2, ElementOfSeq
    <3> QED BY <3>3 DEF BlockT
  <2> QED BY <1>1, <2>1, <2>4, <2>5, <2>6 DEF Holds, Matched
<1>5. \A j \in DOMAIN insts : insts[j].out = "freed" => insts'[j].out = "freed" BY <1>2
<1>6. ExactInv' BY <1>1, <1>2, <1>4, <1>5, ExactKept
<1> QED BY <1>1, <1>6 DEF OutcomeExact, Done

\* t is a record that an instance had before the step, and one that has not
\* been freed if live.
WasTab(t, live) ==
  \E i \in DOMAIN insts : \E l \in DOMAIN insts[i].tabs :
    t = insts[i].tabs[l] /\ (live => insts[i].out # "freed")

\* t is the record of a table that the step creates, with its array.
NewTab(t) ==
  /\ t.is64 = FALSE /\ \E x \in Nat : x # 0 /\ t.blk = Len(blocks) + x /\ t.tid = Len(want) + x
  /\ blocks'[t.blk].live = TRUE /\ blocks'[t.blk].els = want'[t.tid]
  /\ t.size = Len(want'[t.tid]) /\ t.size <= N32

\* Steps that copy records, and create tables.
LEMMA TabsCopied ==
  ASSUME TypeInv, ExactInv,
         \A b \in DOMAIN blocks : blocks'[b] = blocks[b],
         \A w \in DOMAIN want : want'[w] = want[w],
         \A j \in DOMAIN insts' : \A k \in DOMAIN insts'[j].tabs :
           WasTab(insts'[j].tabs[k], insts'[j].out # "freed") \/ NewTab(insts'[j].tabs[k])
  PROVE  Narrow' /\ TabsSame' /\ TabsHold'
<1>1. /\ DOMAIN blocks = 1 .. Len(blocks) /\ Len(blocks) \in Nat
      /\ DOMAIN want = 1 .. Len(want) /\ Len(want) \in Nat BY BlocksAre
<1>2. ASSUME NEW t, NEW live, WasTab(t, live)
      PROVE  /\ t.is64 = FALSE /\ t.blk \in 1 .. Len(blocks) /\ t.tid \in 1 .. Len(want)
             /\ live => Holds(t)
  <2>0. PICK i \in DOMAIN insts : \E l \in DOMAIN insts[i].tabs :
          t = insts[i].tabs[l] /\ (live => insts[i].out # "freed") BY <1>2 DEF WasTab
  <2>1. PICK l \in DOMAIN insts[i].tabs : t = insts[i].tabs[l] /\ (live => insts[i].out # "freed")
    BY <2>0
  <2>2. t.blk \in DOMAIN blocks /\ t.tid \in DOMAIN want BY <2>1, BlocksAre
  <2> QED BY <1>1, <2>1, <2>2 DEF ExactInv, Narrow, TabsHold
<1>3. ASSUME NEW t, NEW u, NEW p, NEW q, WasTab(t, p), WasTab(u, q)
      PROVE  t.tid = u.tid <=> t.blk = u.blk
  BY <1>3 DEF WasTab, ExactInv, TabsSame
<1>4. ASSUME NEW t, NEW u, NEW p, WasTab(t, p), NewTab(u)
      PROVE  t.tid # u.tid /\ t.blk # u.blk
  <2>1. t.blk \in 1 .. Len(blocks) /\ t.tid \in 1 .. Len(want) BY <1>2, <1>4
  <2>2. PICK x \in Nat : x # 0 /\ u.blk = Len(blocks) + x /\ u.tid = Len(want) + x
    BY <1>4 DEF NewTab
  <2> QED BY <1>1, <2>1, <2>2
<1>5. ASSUME NEW t, NEW u, NewTab(t), NewTab(u)
      PROVE  t.tid = u.tid <=> t.blk = u.blk
  <2>1. PICK x \in Nat : t.blk = Len(blocks) + x /\ t.tid = Len(want) + x BY <1>5 DEF NewTab
  <2>2. PICK y \in Nat : u.blk = Len(blocks) + y /\ u.tid = Len(want) + y BY <1>5 DEF NewTab
  <2> QED BY <1>1, <2>1, <2>2
<1>6. Narrow' BY <1>2 DEF NewTab, Narrow
<1>7. TabsSame'
  <2> SUFFICES ASSUME NEW i \in DOMAIN insts', NEW j \in DOMAIN insts',
                      NEW k \in DOMAIN insts'[i].tabs, NEW l \in DOMAIN insts'[j].tabs,
                      NEW t, t = insts'[i].tabs[k], NEW u, u = insts'[j].tabs[l]
               PROVE  t.tid = u.tid <=> t.blk = u.blk
    BY DEF TabsSame
  <2>1. /\ WasTab(t, insts'[i].out # "freed") \/ NewTab(t)
        /\ WasTab(u, insts'[j].out # "freed") \/ NewTab(u) OBVIOUS
  <2> QED BY <1>3, <1>4, <1>5, <2>1
<1>8. TabsHold'
  <2> SUFFICES ASSUME NEW i \in DOMAIN insts', insts'[i].out # "freed",
                      NEW k \in DOMAIN insts'[i].tabs, NEW t, t = insts'[i].tabs[k]
               PROVE  /\ blocks'[t.blk].live = TRUE /\ blocks'[t.blk].els = want'[t.tid]
                      /\ t.size = Len(want'[t.tid]) /\ t.size <= N32
    BY DEF TabsHold, Holds
  <2>1. WasTab(t, TRUE) \/ NewTab(t) OBVIOUS
  <2>2. CASE WasTab(t, TRUE)
    <3>1. Holds(t) /\ blocks'[t.blk] = blocks[t.blk] /\ want'[t.tid] = want[t.tid]
      BY <1>1, <1>2, <2>2
    <3> QED BY <3>1 DEF Holds
  <2>3. CASE NewTab(t) BY <2>3 DEF NewTab
  <2> QED BY <2>1, <2>2, <2>3
<1> QED BY <1>6, <1>7, <1>8

\* A new instance has no table.
LEMMA ExactBegin ==
  ASSUME TypeInv, ExactInv, NEW m, m \in DOMAIN Mods, Begin(m)
  PROVE  ExactInv' /\ OutcomeExact'
<1> DEFINE x == Fresh(m) n == Len(insts)
<1>1. x.tabs = <<>> /\ x.jit_mem0 = FALSE /\ x.mod = m BY DEF Fresh
<1>2. /\ insts' = Append(insts, x) /\ insts \in Seq(InstT) /\ n \in Nat
      /\ UNCHANGED <<blocks, want, ecache>> /\ last' = Done(TRUE, TRUE)
      /\ m \in Once => \A i \in DOMAIN insts : insts[i].mod # m
  BY InstsAre DEF Begin, TypeInv, Shapes
<1>3. x \in InstT
  <2>1. x.elem_alive \in [DOMAIN Mods[m].elems -> BOOLEAN] BY DEF Fresh
  <2>2. x.data_alive \in [DOMAIN Mods[m].datas -> BOOLEAN] BY DEF Fresh
  <2> QED BY <2>1, <2>2 DEF Fresh, InstT, Outs
<1>m. DOMAIN x.tabs = {} BY <1>1
<1> HIDE DEF x
<1>4. /\ DOMAIN insts' = 1 .. n + 1 /\ DOMAIN insts = 1 .. n
      /\ \A j \in 1 .. n : insts'[j] = insts[j]
      /\ insts'[n + 1] = x BY <1>2, <1>3, Appended
<1>5. \A j \in DOMAIN insts' : (j \in DOMAIN insts /\ insts'[j] = insts[j])
        \/ (j = n + 1 /\ DOMAIN insts'[j].tabs = {} /\ insts'[j].jit_mem0 = FALSE /\ insts'[j].mod = m)
  BY <1>2, <1>4, <1>m, <1>1
<1>6. \A j \in DOMAIN insts : j \in DOMAIN insts' /\ insts'[j] = insts[j] BY <1>2, <1>4
<1> HIDE DEF n
<1>7. Narrow' /\ TabsSame' /\ TabsHold'
  <2>1. ASSUME NEW j \in DOMAIN insts', NEW k \in DOMAIN insts'[j].tabs
        PROVE  WasTab(insts'[j].tabs[k], insts'[j].out # "freed")
    <3>1. j \in DOMAIN insts /\ insts'[j] = insts[j] BY <1>5
    <3> QED BY <3>1 DEF WasTab
  <2> QED BY <1>2, <2>1, TabsCopied
<1>8. CacheEmpty'
  <2> SUFFICES ASSUME NEW mm \in DOMAIN Mods, NEW g \in DOMAIN Mods[mm].elems,
                      \A i \in DOMAIN insts' : insts'[i].mod = mm => ~ insts'[i].jit_mem0
               PROVE  ecache[mm][g] = <<>>
    BY <1>2 DEF CacheEmpty
  <2>1. \A i \in DOMAIN insts : insts[i].mod = mm => ~ insts[i].jit_mem0 BY <1>6
  <2> QED BY <2>1 DEF ExactInv, CacheEmpty
<1>9. CacheFirst'
  <2>1. ecache' = ecache BY <1>2
  <2> SUFFICES ASSUME NEW j, j \in DOMAIN insts', insts'[j].jit_mem0,
                      NEW g, g \in DOMAIN Mods[insts'[j].mod].elems, Mods[insts'[j].mod].elems[g].expr
               PROVE  ecache'[insts'[j].mod][g] = Items(j, Mods[insts'[j].mod].elems[g])
    BY DEF CacheFirst, Items
  <2>2. j \in DOMAIN insts /\ insts'[j] = insts[j] BY <1>5
  <2> QED BY <2>1, <2>2 DEF ExactInv, CacheFirst
<1>10. OneEach'
  <2> SUFFICES ASSUME NEW i \in DOMAIN insts', NEW j \in DOMAIN insts',
                      insts'[i].mod = insts'[j].mod, insts'[i].mod \in Once
               PROVE  i = j
    BY DEF OneEach
  <2> QED BY <1>2, <1>5 DEF ExactInv, OneEach
<1>11. ExactInv' BY <1>7, <1>8, <1>9, <1>10 DEF ExactInv
<1> QED BY <1>2, <1>11 DEF OutcomeExact, Done

\* The size in the exporting instance's record is the size of the table.
LEMMA ImportExact ==
  ASSUME TypeInv, ExactInv, NEW name, NEW im, im.kind \in Kinds, NEW s, s = Lookup(name)
  PROVE  /\ ImportOK(s, im) \in BOOLEAN /\ WantImport(s, im) \in BOOLEAN
         /\ WantImport(s, im) <=> ImportOK(s, im)
<1>1. ImportOK(s, im) \in BOOLEAN BY DEF ImportOK
<1>2. CASE im.kind = "table" /\ Exports(s, "table", im.idx)
  <2> DEFINE t == insts[s].tabs[im.idx]
  <2>1. s = 0 \/ (s \in DOMAIN insts /\ insts[s].jit_mem0 /\ insts[s].out = "ok") BY LookupIs
  <2>2. s \in DOMAIN insts /\ im.idx \in 1 .. Has(insts[s], "table") BY <1>2, <2>1, ExportIs
  <2>3. insts[s].out = "ok"
    <3>1. s # 0 BY <2>2, InstsAre
    <3> QED BY <2>1, <3>1
  <2>4. im.idx \in DOMAIN insts[s].tabs
    <3>1. insts[s].tabs \in Seq(TableT) BY <2>2, InstsAre DEF InstT
    <3> QED BY <2>2, <3>1, LenProperties DEF Has
  <2>5. Holds(t) BY <2>2, <2>3, <2>4 DEF ExactInv, TabsHold
  <2>6. t.size = Len(want[t.tid]) BY <2>5 DEF Holds
  <2>7. WantImport(s, im) = LimitsFit(t.is64, Len(want[t.tid]), t.max, t.has_max, im)
    BY <1>2 DEF WantImport
  <2>8. ImportOK(s, im) = LimitsFit(t.is64, t.size, t.max, t.has_max, im)
    <3>1. LimitsFit(t.is64, t.size, t.max, t.has_max, im) \in BOOLEAN BY DEF LimitsFit
    <3>2. ImportOK(s, im) <=> LimitsFit(t.is64, t.size, t.max, t.has_max, im) BY <1>2 DEF ImportOK
    <3> QED BY <1>1, <3>1, <3>2
  <2> QED BY <1>1, <2>6, <2>7, <2>8
<1>3. CASE ~ (im.kind = "table" /\ Exports(s, "table", im.idx))
  <2>1. WantImport(s, im) = ImportOK(s, im) BY <1>3 DEF WantImport
  <2> QED BY <1>1, <2>1
<1> QED BY <1>2, <1>3

\* An imported table is the exporter's: same array, same size.
LEMMA ExactImport ==
  ASSUME TypeInv, ExactInv, Import
  PROVE  ExactInv' /\ OutcomeExact'
<1> DEFINE im == D.imports[cur.k] src == Lookup(im.from)
<1>1. /\ cur.phase = "import" /\ cur.phase # "idle" /\ cur.k <= Len(D.imports)
      /\ UNCHANGED <<blocks, want, ecache, named>>
  BY DEF Import
<1>2. /\ I \in DOMAIN insts /\ insts[I] \in InstT /\ insts[I].out = "building"
      /\ cur.k \in Nat /\ cur.k # 0 /\ insts[I].mod \in DOMAIN Mods /\ D = Mods[insts[I].mod]
  BY <1>1, CurIs DEF InstT, D
<1>3. im.kind \in Kinds
  <2>1. cur.k \in DOMAIN D.imports BY <1>1, <1>2, CurIs, LenProperties
  <2>2. Valid(insts[I].mod) BY <1>2, LinkingMods
  <2> QED BY <1>2, <2>1, <2>2 DEF Valid
<1>4. OutcomeExact'
  <2>1. /\ ImportOK(src, im) \in BOOLEAN /\ WantImport(src, im) \in BOOLEAN
        /\ WantImport(src, im) <=> ImportOK(src, im) BY <1>3, ImportExact
  <2>2. \/ ImportOK(src, im) /\ last' = Done(TRUE, WantImport(src, im))
        \/ ~ ImportOK(src, im) /\ last' = Fails(WantImport(src, im))
    BY DEF Import, Abandon
  <2> DEFINE w == WantImport(src, im)
  <2>3. \/ w = TRUE /\ last' = Done(TRUE, w)
        \/ w = FALSE /\ last' = Fails(w)
    BY <2>1, <2>2
  <2> HIDE DEF w
  <2>4. CASE w = TRUE /\ last' = Done(TRUE, w) BY <2>4 DEF OutcomeExact, Done
  <2>5. CASE w = FALSE /\ last' = Fails(w) BY <2>5 DEF OutcomeExact, Fails
  <2> QED BY <2>3, <2>4, <2>5
<1>5. CASE insts' = [insts EXCEPT ![I].out = "unlinkable"]
  <2>1. Steady /\ Kept BY <1>1, <1>2, <1>5, OutSteady DEF Outs
  <2> QED BY <1>1, <1>4, <2>1, ExactQuiet
<1>6. ASSUME NEW s \in DOMAIN insts, ImportsFrom(s) PROVE ExactInv'
  <2>1. /\ insts[s].out = "ok" /\ DOMAIN insts' = DOMAIN insts
        /\ \A j \in DOMAIN insts : j # I => insts'[j] = insts[j]
        /\ insts'[I].mod = insts[I].mod /\ insts'[I].out = insts[I].out
        /\ insts'[I].jit_mem0 = insts[I].jit_mem0
        /\ \A k \in DOMAIN insts'[I].tabs :
             \/ k \in DOMAIN insts[I].tabs /\ insts'[I].tabs[k] = insts[I].tabs[k]
             \/ \E l \in DOMAIN insts[s].tabs : insts'[I].tabs[k] = insts[s].tabs[l]
    BY <1>6 DEF ImportsFrom
  <2>2. \A j \in DOMAIN insts :
          insts'[j].mod = insts[j].mod /\ insts'[j].jit_mem0 = insts[j].jit_mem0
    BY <2>1
  <2>3. ASSUME NEW j \in DOMAIN insts', NEW k \in DOMAIN insts'[j].tabs
        PROVE  WasTab(insts'[j].tabs[k], insts'[j].out # "freed")
    <3>1. j \in DOMAIN insts BY <2>1
    <3>2. CASE j # I
      <4>1. insts'[j] = insts[j] BY <2>1, <3>1, <3>2
      <4> QED BY <3>1, <4>1 DEF WasTab
    <3>3. CASE j = I
      <4>1. \/ k \in DOMAIN insts[I].tabs /\ insts'[j].tabs[k] = insts[I].tabs[k]
            \/ \E l \in DOMAIN insts[s].tabs : insts'[j].tabs[k] = insts[s].tabs[l]
        BY <2>1, <3>3
      <4>2. insts[I].out # "freed" /\ insts[s].out # "freed" BY <1>2, <2>1
      <4> QED BY <1>2, <4>1, <4>2 DEF WasTab
    <3> QED BY <3>2, <3>3
  <2>4. Narrow' /\ TabsSame' /\ TabsHold' BY <1>1, <2>3, TabsCopied
  <2>5. CacheEmpty' BY <1>1, <2>1, <2>2 DEF ExactInv, CacheEmpty
  <2>6. CacheFirst' BY <1>1, <2>1, <2>2, CacheKept DEF ExactInv
  <2>7. OneEach' BY <2>1, <2>2 DEF ExactInv, OneEach
  <2> QED BY <2>4, <2>5, <2>6, <2>7 DEF ExactInv
<1> QED BY <1>4, <1>5, <1>6, ImportIs

\* A table that is created holds what its initialiser says, through its one record.
LEMMA TableCreated ==
  ASSUME Plain, TypeInv, cur.phase = "import", cur.k > Len(D.imports),
         blocks' = blocks \o NewBlocks, want' = want \o NewEls,
         NEW x, x \in 1 .. Len(D.tables), NEW t, t = NewTable(x, Len(blocks) + x, Len(want) + x)
  PROVE  NewTab(t)
<1>1. insts[I].mod \in DOMAIN Mods /\ D = Mods[insts[I].mod] /\ Len(D.tables) \in Nat
  BY CurIs, DefinesAre
<1>2. x \in DOMAIN Mods[insts[I].mod].tables /\ x \in Nat /\ x # 0
  <2>1. Valid(insts[I].mod) BY <1>1, LinkingMods
  <2>2. Mods[insts[I].mod].tables \in
          Seq({Mods[insts[I].mod].tables[k] : k \in DOMAIN Mods[insts[I].mod].tables})
    BY <2>1 DEF Valid
  <2>3. DOMAIN Mods[insts[I].mod].tables = 1 .. Len(Mods[insts[I].mod].tables) BY <2>2, LenProperties
  <2> QED BY <1>1, <2>3
<1>3. D.tables[x].is64 = FALSE
  <2>1. ~ D.tables[x].is64 BY <1>1, <1>2 DEF Plain
  <2>2. D.tables[x].is64 \in BOOLEAN BY <1>1, <1>2, LinkingMods DEF Valid
  <2> QED BY <2>1, <2>2
<1>4. D.tables[x].min \in 0 .. N32 - 1
  <2>1. LimitsValid(Mods[insts[I].mod].tables[x],
                    IF Mods[insts[I].mod].tables[x].is64 THEN M64 - 1 ELSE N32 - 1)
    BY <1>1, <1>2, LinkingMods DEF Valid
  <2>2. LimitsValid(D.tables[x], N32 - 1) BY <1>1, <1>3, <2>1
  <2> QED BY <2>2 DEF LimitsValid
<1>5. /\ t.is64 = FALSE /\ t.size = D.tables[x].min
      /\ t.blk = Len(blocks) + x /\ t.tid = Len(want) + x
  BY <1>3 DEF NewTable
<1>6. /\ blocks'[Len(blocks) + x].els = FirstItems(D.tables[x])
      /\ blocks'[Len(blocks) + x].live = TRUE
  BY NewBlocksAre
<1>7. want'[Len(want) + x] = FirstItems(D.tables[x])
  <2>1. (want \o NewEls)[Len(want) + x] = NewEls[x] BY StoreGrows
  <2>2. NewEls[x] = FirstItems(D.tables[x]) BY DEF NewEls
  <2> QED BY <2>1, <2>2
<1>8. Len(FirstItems(D.tables[x])) = D.tables[x].min BY DefinesAre
<1>9. t.size <= N32 BY <1>4, <1>5, TableWidths
<1> QED BY <1>2, <1>5, <1>6, <1>7, <1>8, <1>9 DEF NewTab

\* The first instance of a module with segments of expressions fills the cache
\* with its own items, and there is no other instance that could read them.
LEMMA CacheDefined ==
  ASSUME Plain, TypeInv, RefInv, ExactInv, cur.phase = "import", cur.phase # "idle",
         DOMAIN insts' = DOMAIN insts, \A j \in DOMAIN insts : j # I => insts'[j] = insts[j],
         insts'[I].jit_mem0, insts'[I].mod = insts[I].mod,
         ecache' = [ecache EXCEPT ![insts[I].mod] = NewCache]
  PROVE  CacheEmpty' /\ CacheFirst'
<1> DEFINE m == insts[I].mod
<1>1. /\ I \in DOMAIN insts /\ m \in DOMAIN Mods /\ D = Mods[m]
  BY CurIs DEF InstT, D
<1>2. ~ insts[I].jit_mem0
  <2>1. cur # Idle BY CurIs
  <2> QED BY <2>1 DEF TypeInv, Phase, I
<1>3. DOMAIN ecache = DOMAIN Mods BY DEF RefInv, CacheExists
<1>4. ecache'[m] = NewCache /\ \A n \in DOMAIN Mods : n # m => ecache'[n] = ecache[n]
  BY <1>1, <1>3
<1>5. \A j \in DOMAIN insts : insts'[j].mod = insts[j].mod OBVIOUS
<1>6. CacheEmpty'
  <2> SUFFICES ASSUME NEW n \in DOMAIN Mods, NEW g \in DOMAIN Mods[n].elems,
                      \A i \in DOMAIN insts' : insts'[i].mod = n => ~ insts'[i].jit_mem0
               PROVE  ecache'[n][g] = <<>>
    BY DEF CacheEmpty
  <2>1. n # m BY <1>1
  <2>2. \A i \in DOMAIN insts : insts[i].mod = n => i # I /\ ~ insts[i].jit_mem0 BY <2>1
  <2> QED BY <1>4, <2>1, <2>2 DEF ExactInv, CacheEmpty
<1>7. CacheFirst'
  <2> SUFFICES ASSUME NEW i, i \in DOMAIN insts', insts'[i].jit_mem0,
                      NEW g, g \in DOMAIN Mods[insts'[i].mod].elems, Mods[insts'[i].mod].elems[g].expr
               PROVE  ecache'[insts'[i].mod][g] = Items(i, Mods[insts'[i].mod].elems[g])
    BY SMTT(30) DEF CacheFirst, Items
  <2>1. i \in DOMAIN insts /\ insts'[i].mod = insts[i].mod /\ insts[i].mod \in DOMAIN Mods
    BY <1>5, InstsAre DEF InstT
  <2>2. insts[i].mod \in Once BY <2>1 DEF Plain
  <2>3. CASE i = I
    <3>1. \A j \in DOMAIN insts : insts[j].mod = m => ~ insts[j].jit_mem0
      BY <1>2, <2>1, <2>2, <2>3 DEF ExactInv, OneEach
    <3>2. ecache[m][g] = <<>> BY <1>1, <2>1, <2>3, <3>1 DEF ExactInv, CacheEmpty
    <3>3. NewCache[g] = Items(I, D.elems[g]) BY <1>1, <2>1, <2>3, <3>2 DEF NewCache
    <3> QED BY <1>1, <1>4, <2>1, <2>3, <3>3
  <2>4. CASE i # I
    <3>1. insts[i].mod # m BY <1>1, <2>1, <2>2, <2>4 DEF ExactInv, OneEach
    <3>2. ecache'[insts[i].mod] = ecache[insts[i].mod] BY <1>4, <2>1, <3>1
    <3>3. insts[i].jit_mem0 BY <2>1, <2>4
    <3> QED BY <2>1, <3>2, <3>3 DEF ExactInv, CacheFirst
  <2> QED BY <2>3, <2>4
<1> QED BY <1>6, <1>7

\* A new table has an array of its own.
LEMMA ExactDefine ==
  ASSUME Plain, TypeInv, RefInv, ExactInv, Define
  PROVE  ExactInv' /\ OutcomeExact'
<1>1. /\ cur.phase = "import" /\ cur.phase # "idle" /\ cur.k > Len(D.imports) /\ UNCHANGED named
      /\ blocks' = blocks \o NewBlocks /\ want' = want \o NewEls
  BY DefinedIs
<1>2. /\ I \in DOMAIN insts /\ insts[I].out = "building" BY <1>1, CurIs
<1>3. /\ \A b \in DOMAIN blocks : blocks'[b] = blocks[b]
      /\ \A w \in DOMAIN want : want'[w] = want[w]
  BY <1>1, StoreGrows
<1>4. OutcomeExact'
  <2>1. last' = Done(TRUE, TRUE) \/ last' = Fails(FALSE) BY DefineIs DEF Abandon
  <2>2. CASE last' = Done(TRUE, TRUE) BY <2>2 DEF OutcomeExact, Done
  <2>3. CASE last' = Fails(FALSE) BY <2>3 DEF OutcomeExact, Fails
  <2> QED BY <2>1, <2>2, <2>3
<1>5. CASE insts' = [insts EXCEPT ![I].out = "uninstantiable"] /\ UNCHANGED ecache
  <2>1. Steady /\ Kept BY <1>1, <1>2, <1>5, OutSteady DEF Outs
  <2>2. Matches
    <3> SUFFICES ASSUME NEW i \in DOMAIN insts, insts[i].out # "freed", NEW k \in DOMAIN insts[i].tabs
                 PROVE  Matched(insts[i].tabs[k])
      BY DEF Matches
    <3>1. Holds(insts[i].tabs[k]) BY DEF ExactInv, TabsHold
    <3>2. insts[i].tabs[k].blk \in DOMAIN blocks /\ insts[i].tabs[k].tid \in DOMAIN want BY BlocksAre
    <3> QED BY <1>3, <3>1, <3>2 DEF Holds, Matched
  <2>3. \A i \in DOMAIN insts : insts[i].out = "freed" => insts'[i].out = "freed" BY <2>1 DEF Steady
  <2> QED BY <1>4, <1>5, <2>1, <2>2, <2>3, ExactKept
<1>6. CASE DefinesOwn
  <2>1. /\ DOMAIN insts' = DOMAIN insts /\ \A j \in DOMAIN insts : j # I => insts'[j] = insts[j]
        /\ insts'[I].jit_mem0 /\ insts'[I].mod = insts[I].mod /\ insts'[I].out = insts[I].out
        /\ \A k \in DOMAIN insts'[I].tabs :
             \/ k \in DOMAIN insts[I].tabs /\ insts'[I].tabs[k] = insts[I].tabs[k]
             \/ \E j \in 1 .. Len(D.tables) :
                  insts'[I].tabs[k] = NewTable(j, Len(blocks) + j, Len(want) + j)
        /\ ecache' = [ecache EXCEPT ![insts[I].mod] = NewCache]
    BY <1>6 DEF DefinesOwn
  <2>2. CacheEmpty' /\ CacheFirst' BY <1>1, <2>1, CacheDefined
  <2>3. OneEach'
    <3>1. \A j \in DOMAIN insts : insts'[j].mod = insts[j].mod BY <2>1
    <3> QED BY <2>1, <3>1 DEF ExactInv, OneEach
  <2>4. ASSUME NEW j \in DOMAIN insts', NEW k \in DOMAIN insts'[j].tabs
        PROVE  WasTab(insts'[j].tabs[k], insts'[j].out # "freed") \/ NewTab(insts'[j].tabs[k])
    <3>1. j \in DOMAIN insts BY <2>1
    <3>2. CASE j # I
      <4>1. insts'[j] = insts[j] BY <2>1, <3>1, <3>2
      <4> QED BY <3>1, <4>1 DEF WasTab
    <3>3. CASE j = I /\ k \in DOMAIN insts[I].tabs /\ insts'[I].tabs[k] = insts[I].tabs[k]
      BY <1>2, <2>1, <3>3 DEF WasTab
    <3>4. CASE j = I /\ \E x \in 1 .. Len(D.tables) :
                 insts'[I].tabs[k] = NewTable(x, Len(blocks) + x, Len(want) + x)
      <4>1. PICK x \in 1 .. Len(D.tables) :
               insts'[I].tabs[k] = NewTable(x, Len(blocks) + x, Len(want) + x) BY <3>4
      <4>2. NewTab(insts'[I].tabs[k]) BY <1>1, <4>1, TableCreated
      <4> QED BY <3>4, <4>2
    <3> QED BY <2>1, <3>2, <3>3, <3>4
  <2>5. Narrow' /\ TabsSame' /\ TabsHold' BY <1>3, <2>4, TabsCopied
  <2> QED BY <1>4, <2>2, <2>3, <2>5 DEF ExactInv
<1> QED BY <1>5, <1>6, DefinedIs

\* Every step keeps the agreement, and every outcome is right.
LEMMA ExactStep ==
  ASSUME Plain, TypeInv, RefInv, ApartInv, ExactInv, OutcomeExact, [Next]_vars
  PROVE  ExactInv' /\ OutcomeExact'
<1>0. ~ GrowShared BY DEF Plain
<1>1. ASSUME NEW m \in DOMAIN Mods, Begin(m) PROVE ExactInv' /\ OutcomeExact' BY <1>1, ExactBegin
<1>2. CASE Import BY <1>2, ExactImport
<1>3. CASE Define BY <1>3, ExactDefine
<1>4. CASE Elem BY <1>4, ExactElem
<1>5. CASE Data BY <1>5, ExactData
<1>6. CASE Finish \/ StartEnds("ok") \/ StartEnds("trapped") BY <1>6, ExactFinish
<1>7. ASSUME NEW n \in Names, NEW i \in DOMAIN insts, Register(n, i)
      PROVE  ExactInv' /\ OutcomeExact'
  BY <1>7, ExactRegister
<1>8. ASSUME NEW i \in DOMAIN insts, Free(i) PROVE ExactInv' /\ OutcomeExact' BY <1>8, ExactFree
<1>9. ASSUME NEW i \in Runs, Run(i) PROVE ExactInv' /\ OutcomeExact' BY <1>0, <1>9, ExactRun
<1>10. CASE UNCHANGED vars
  <2>1. UNCHANGED <<insts, blocks, want, ecache, named>> /\ last' = last BY <1>10 DEF vars
  <2>2. Steady /\ Kept BY <2>1, SameSteady
  <2>3. ExactInv' BY <2>1, <2>2, ExactQuiet
  <2> QED BY <2>1, <2>3 DEF OutcomeExact
<1> QED BY <1>1, <1>2, <1>3, <1>4, <1>5, <1>6, <1>7, <1>8, <1>9, <1>10 DEF Next

\* The whole invariant.
LEMMA ExactAlways ==
  ASSUME Plain
  PROVE  Spec => [](TypeInv /\ RefInv /\ ApartInv /\ ExactInv /\ OutcomeExact)
<1>1. Init => TypeInv /\ RefInv /\ ApartInv /\ ExactInv /\ OutcomeExact
  BY TypeInit, RefInit, ApartInit, ExactInit
<1>2. /\ TypeInv /\ RefInv /\ ApartInv /\ ExactInv /\ OutcomeExact /\ [Next]_vars
      => TypeInv' /\ RefInv' /\ ApartInv' /\ ExactInv' /\ OutcomeExact'
  <2>1. FreesApart BY DEF Plain
  <2> QED BY <2>1, LinkingStep, ApartStep, ExactStep
<1> QED BY <1>1, <1>2, PTL DEF Spec

\* Where the code keeps tables exact (Plain), an instance that has not been freed
\* sees, through its own copy of the record of a table, exactly the table the
\* WebAssembly store has, whatever other instances do to it through theirs, and
\* whether realloc moves the array or not (runtime.c:305-318, 404-447;
\* interp.c:795-1070).
THEOREM TablesStayExact == Plain => (Spec => []TablesExact)
<1> SUFFICES ASSUME Plain PROVE Spec => []TablesExact OBVIOUS
<1>1. Spec => [](TypeInv /\ RefInv /\ ApartInv /\ ExactInv /\ OutcomeExact) BY ExactAlways
<1>2. TypeInv /\ ExactInv => TablesExact BY ExactGives
<1> QED BY <1>1, <1>2, PTL

\* Then also every step of an instantiation and every instruction on a table
\* succeeds exactly when WebAssembly says it does: no import is accepted or
\* refused, no segment or access allowed or trapped, on a stale size
\* (runtime.c:305-330, 448-520; interp.c:795-1070; jit_a64.c's table helpers).
THEOREM OutcomesStayExact == Plain => (Spec => []OutcomeExact)
<1> SUFFICES ASSUME Plain PROVE Spec => []OutcomeExact OBVIOUS
<1>1. Spec => [](TypeInv /\ RefInv /\ ApartInv /\ ExactInv /\ OutcomeExact) BY ExactAlways
<1> QED BY <1>1, PTL

----------------------------------------------------------------------------
(* What an instantiation that fails at a segment leaves behind.            *)

\* No write covers anything yet.
LEMMA OverlayNone ==
  ASSUME NEW S, NEW s \in Seq(S), NEW writes, DOMAIN writes \subseteq Nat \ {0}
  PROVE  Overlay(s, writes, 0) = s
<1>1. \A x : Covering(writes, 0, x) = {} BY DEF Covering
<1>2. Overlay(s, writes, 0) = [x \in 1 .. Len(s) |-> s[x]] BY <1>1 DEF Overlay
<1>3. DOMAIN s = 1 .. Len(s) BY LenProperties
<1> QED BY <1>2, <1>3

\* One more write is stored over the ones before; a number that is no write of
\* this table or memory changes nothing.
LEMMA OverlayNext ==
  ASSUME NEW s, Len(s) \in Nat, NEW writes, DOMAIN writes \subseteq Nat, NEW n \in Nat,
         n + 1 \in DOMAIN writes =>
           writes[n + 1].off \in Int /\ Len(writes[n + 1].vals) \in Nat
  PROVE  Overlay(s, writes, n + 1) =
           IF n + 1 \in DOMAIN writes
           THEN Stored(Overlay(s, writes, n), writes[n + 1].off, writes[n + 1].vals)
           ELSE Overlay(s, writes, n)
<1> DEFINE L == Len(s) A == Overlay(s, writes, n) w == writes[n + 1]
           at(m, x) == IF Covering(writes, m, x) = {} THEN s[x]
                       ELSE writes[LastOf(Covering(writes, m, x))].vals
                              [x - writes[LastOf(Covering(writes, m, x))].off]
<1>1. \A m : Overlay(s, writes, m) = [x \in 1 .. L |-> at(m, x)] BY Zenon DEF Overlay
<1>2. Len(A) = L
  <2>1. A \in [1 .. L -> {A[x] : x \in 1 .. L}] BY <1>1
  <2> HIDE DEF A, L
  <2>2. L \in Nat BY DEF L
  <2> QED BY <2>1, <2>2, Tabulated
<1>3. ASSUME NEW x, n + 1 \notin Covering(writes, n + 1, x)
      PROVE  Covering(writes, n + 1, x) = Covering(writes, n, x)
  <2>1. \A g \in DOMAIN writes : g # n + 1 => (g <= n + 1 <=> g <= n) OBVIOUS
  <2>2. \A g \in Covering(writes, n + 1, x) : g # n + 1 BY <1>3
  <2>3. \A g \in Covering(writes, n, x) : g \in DOMAIN writes /\ g # n + 1 BY DEF Covering
  <2> QED BY <2>1, <2>2, <2>3 DEF Covering
<1>4. ASSUME NEW x, n + 1 \in Covering(writes, n + 1, x)
      PROVE  at(n + 1, x) = w.vals[x - w.off]
  <2> DEFINE G == Covering(writes, n + 1, x)
  <2>1. \A h \in G : h \in Nat /\ h <= n + 1 BY DEF Covering
  <2>2. n + 1 \in G BY <1>4
  <2> HIDE DEF G
  <2>3. LastOf(G) \in G /\ \A h \in G : h <= LastOf(G) BY <2>1, <2>2 DEF LastOf
  <2>4. LastOf(G) = n + 1 BY <2>1, <2>2, <2>3
  <2>5. G # {} BY <2>2
  <2> QED BY <2>4, <2>5 DEF G
<1>5. CASE n + 1 \notin DOMAIN writes
  <2>1. \A x : Covering(writes, n + 1, x) = Covering(writes, n, x)
    <3>1. \A x : n + 1 \notin Covering(writes, n + 1, x) BY <1>5 DEF Covering
    <3> QED BY <1>3, <3>1
  <2>2. \A x : at(n + 1, x) = at(n, x) BY <2>1
  <2> HIDE DEF at
  <2>3. Overlay(s, writes, n + 1) = A BY <1>1, <2>2
  <2> QED BY <1>5, <2>3
<1>6. CASE n + 1 \in DOMAIN writes
  <2> DEFINE st(x) == IF x \in w.off + 1 .. w.off + Len(w.vals) THEN w.vals[x - w.off] ELSE A[x]
  <2>1. w.off \in Int /\ Len(w.vals) \in Nat BY <1>6
  <2>2. ASSUME NEW x \in 1 .. L PROVE at(n + 1, x) = st(x)
    <3>1. x \in Int /\ A[x] = at(n, x)
      <4>1. A = [y \in 1 .. L |-> at(n, y)] BY <1>1
      <4> HIDE DEF A, at, L
      <4> QED BY <4>1, <2>2
    <3>2. x \in w.off + 1 .. w.off + Len(w.vals) <=> x - w.off \in 1 .. Len(w.vals)
      <4> DEFINE o == w.off l == Len(w.vals)
      <4>1. o \in Int /\ l \in Nat BY <2>1
      <4> HIDE DEF o, l, w
      <4>2. x \in o + 1 .. o + l <=> x - o \in 1 .. l BY <3>1, <4>1
      <4> QED BY <4>2 DEF o, l
    <3>3. n + 1 \in Covering(writes, n + 1, x) <=> x - w.off \in 1 .. Len(w.vals)
      BY <1>6 DEF Covering
    <3>4. CASE n + 1 \in Covering(writes, n + 1, x)
      <4>1. at(n + 1, x) = w.vals[x - w.off] BY <3>4, <1>4
      <4>2. st(x) = w.vals[x - w.off] BY <3>2, <3>3, <3>4
      <4> QED BY <4>1, <4>2
    <3>5. CASE n + 1 \notin Covering(writes, n + 1, x)
      <4>1. Covering(writes, n + 1, x) = Covering(writes, n, x) BY <3>5, <1>3
      <4>2. at(n + 1, x) = at(n, x) BY <4>1
      <4>3. st(x) = A[x] BY <3>2, <3>3, <3>5
      <4> QED BY <3>1, <4>2, <4>3
    <3> QED BY <3>4, <3>5
  <2>3. Stored(A, w.off, w.vals) = [x \in 1 .. L |-> st(x)]
    <3> HIDE DEF A, L
    <3> QED BY <1>2 DEF Stored
  <2>4. Overlay(s, writes, n + 1) = [x \in 1 .. L |-> at(n + 1, x)] BY <1>1
  <2> HIDE DEF st, at, L, A, w
  <2>5. Overlay(s, writes, n + 1) = Stored(A, w.off, w.vals) BY <2>2, <2>3, <2>4
  <2> QED BY <1>6, <2>5 DEF A, w
<1> QED BY <1>5, <1>6

\* The writes of an instance whose fields are set are 32-bit offsets and lists.
LEMMA ElemWritesAre ==
  ASSUME TypeInv, NEW i, i \in DOMAIN insts, insts[i].jit_mem0, NEW w
  PROVE  /\ DOMAIN ElemWrites(i, w) \subseteq Nat \ {0}
         /\ \A g \in DOMAIN ElemWrites(i, w) :
              /\ ElemWrites(i, w)[g].off \in Int
              /\ Len(ElemWrites(i, w)[g].vals) \in Nat
<1> DEFINE m == insts[i].mod E == Mods[m].elems
<1>1. m \in DOMAIN Mods /\ Valid(m) BY InstsAre, LinkingMods DEF InstT
<1>2. DOMAIN E \subseteq Nat \ {0}
  <2>1. E \in Seq({E[k] : k \in DOMAIN E}) BY <1>1 DEF Valid
  <2> QED BY <2>1, LenProperties
<1>3. ASSUME NEW g \in DOMAIN ElemWrites(i, w)
      PROVE  /\ g \in DOMAIN E /\ E[g].mode = "active"
             /\ ElemWrites(i, w)[g].off = Eval(insts[i].globs, cells, E[g].off) % N32
             /\ ElemWrites(i, w)[g].vals = Items(i, E[g])
  BY DEF ElemWrites
<1>4. ASSUME NEW g \in DOMAIN ElemWrites(i, w)
      PROVE  /\ ElemWrites(i, w)[g].off \in Int
             /\ Len(ElemWrites(i, w)[g].vals) \in Nat
  <2>1. ExprValid(E[g].off, Imported(m, "global") + Defined(m, "global"))
    BY <1>1, <1>3 DEF Valid
  <2>2. Eval(insts[i].globs, cells, E[g].off) % N32 \in 0 .. N32 - 1 BY <2>1, EvalIs
  <2>3. Items(i, E[g]) \in Seq(Ref) BY <1>3, ItemsAre
  <2>4. Len(Items(i, E[g])) \in Nat BY <2>3, LenProperties
  <2>5. \A x \in 0 .. N32 - 1 : x \in Int OBVIOUS
  <2>6. ElemWrites(i, w)[g].off \in 0 .. N32 - 1 BY <1>3, <2>2
  <2>7. ElemWrites(i, w)[g].off \in Int BY <2>5, <2>6
  <2> QED BY <1>3, <2>4, <2>7
<1> QED BY <1>2, <1>3, <1>4

\* The same of data segments.
LEMMA DataWritesAre ==
  ASSUME TypeInv, NEW i, i \in DOMAIN insts, insts[i].jit_mem0, NEW a
  PROVE  /\ DOMAIN DataWrites(i, a) \subseteq Nat \ {0}
         /\ \A g \in DOMAIN DataWrites(i, a) :
              /\ DataWrites(i, a)[g].off \in Int
              /\ Len(DataWrites(i, a)[g].vals) \in Nat
<1> DEFINE m == insts[i].mod G == Mods[m].datas
<1>1. m \in DOMAIN Mods /\ Valid(m) BY InstsAre, LinkingMods DEF InstT
<1>2. DOMAIN G \subseteq Nat \ {0}
  <2>1. G \in Seq({G[k] : k \in DOMAIN G}) BY <1>1 DEF Valid
  <2> QED BY <2>1, LenProperties
<1>3. ASSUME NEW g \in DOMAIN DataWrites(i, a)
      PROVE  /\ g \in DOMAIN G /\ G[g].mode = "active"
             /\ DataWrites(i, a)[g].off = Eval(insts[i].globs, cells, G[g].off) % N32
             /\ DataWrites(i, a)[g].vals = Repeat(<<i, g>>, G[g].len)
  BY DEF DataWrites
<1>4. ASSUME NEW g \in DOMAIN DataWrites(i, a)
      PROVE  /\ DataWrites(i, a)[g].off \in Int
             /\ Len(DataWrites(i, a)[g].vals) \in Nat
  <2>1. /\ ExprValid(G[g].off, Imported(m, "global") + Defined(m, "global"))
        /\ G[g].len \in Nat
    BY <1>1, <1>3 DEF Valid
  <2>2. Eval(insts[i].globs, cells, G[g].off) % N32 \in 0 .. N32 - 1 BY <2>1, EvalIs
  <2>3. <<i, g>> \in Ref BY <1>2, <1>3, InstsAre DEF Ref
  <2>4. Len(Repeat(<<i, g>>, G[g].len)) \in Nat BY <2>1, <2>3, RepeatIs
  <2>5. \A x \in 0 .. N32 - 1 : x \in Int OBVIOUS
  <2>6. DataWrites(i, a)[g].off \in 0 .. N32 - 1 BY <1>3, <2>2
  <2>7. DataWrites(i, a)[g].off \in Int BY <2>5, <2>6
  <2> QED BY <1>3, <2>4, <2>7
<1> QED BY <1>2, <1>3, <1>4

\* The writes of the instantiation under way are the same after a step that
\* leaves the instance its module, tables, memories and globals.
LEMMA WritesStay ==
  ASSUME Kept, UNCHANGED cells, NEW i, i \in DOMAIN insts
  PROVE  /\ \A w : ElemWrites(i, w)' = ElemWrites(i, w)
         /\ \A a : DataWrites(i, a)' = DataWrites(i, a)
<1>1. /\ insts'[i].mod = insts[i].mod /\ insts'[i].tabs = insts[i].tabs
      /\ insts'[i].mems = insts[i].mems /\ insts'[i].globs = insts[i].globs /\ cells' = cells
  BY DEF Kept
<1>2. ASSUME NEW w PROVE ElemWrites(i, w)' = ElemWrites(i, w)
  BY <1>1 DEF ElemWrites, Items, Eval
<1>3. ASSUME NEW a PROVE DataWrites(i, a)' = DataWrites(i, a)
  BY <1>1 DEF DataWrites, Eval
<1> QED BY <1>2, <1>3

\* The tables and memories that there were when instantiation i began, and
\* older instances have no other tables.
Older(i) ==
  /\ DOMAIN snap.tabs \subseteq DOMAIN want /\ DOMAIN snap.bytes \subseteq DOMAIN mems
  /\ \A w \in DOMAIN snap.tabs : Len(snap.tabs[w]) \in Nat
  /\ \A a \in DOMAIN snap.bytes : Len(snap.bytes[a]) \in Nat
  /\ \A j \in 1 .. i - 1 : \A k \in DOMAIN insts[j].tabs : insts[j].tabs[k].tid \in DOMAIN snap.tabs

\* The store is as it was.
Untouched ==
  /\ \A w \in DOMAIN snap.tabs : want[w] = snap.tabs[w]
  /\ \A a \in DOMAIN snap.bytes : mems[a].bytes = snap.bytes[a]

\* The first ne element and nd data segments of instantiation i are written.
Wrote(i, ne, nd) ==
  /\ \A w \in DOMAIN snap.tabs : want[w] = Overlay(snap.tabs[w], ElemWrites(i, w), ne)
  /\ \A a \in DOMAIN snap.bytes : mems[a].bytes = Overlay(snap.bytes[a], DataWrites(i, a), nd)

\* Up to its definitions the instantiation under way writes nothing, then its
\* segments in order.
SnapCur ==
  \A i \in DOMAIN insts : i = I =>
    /\ cur.phase \in {"import", "elem", "data"} => Older(i)
    /\ cur.phase = "import" => Untouched
    /\ cur.phase = "elem" => cur.k <= Len(Mods[insts[i].mod].elems) + 1 /\ Wrote(i, cur.k - 1, 0)
    /\ cur.phase = "data" => Wrote(i, Len(Mods[insts[i].mod].elems), cur.k - 1)

\* Of one that failed at a segment, those before are written.
SnapLast ==
  /\ last.at.phase \in {"elem", "data"} => cur.phase = "idle" /\ last.at.inst \in DOMAIN insts
  /\ \A i \in DOMAIN insts : i = last.at.inst =>
       /\ last.at.phase \in {"elem", "data"} => Older(i)
       /\ last.at.phase = "elem" => Wrote(i, last.at.k - 1, 0)
       /\ last.at.phase = "data" => Wrote(i, Len(Mods[insts[i].mod].elems), last.at.k - 1)

SnapInv == SnapCur /\ SnapLast

\* The invariant implies the property the run checks.
LEMMA SnapGives ==
  ASSUME TypeInv, ExactInv, SnapInv PROVE PrefixPersists
<1> SUFFICES ASSUME last.at.phase \in {"elem", "data"} PROVE PrefixPersists BY DEF PrefixPersists
<1> DEFINE i == last.at.inst
           ne == IF last.at.phase = "elem" THEN last.at.k - 1 ELSE Len(Mods[insts[i].mod].elems)
           nd == IF last.at.phase = "elem" THEN 0 ELSE last.at.k - 1
<1>1. i \in DOMAIN insts /\ Older(i) /\ Wrote(i, ne, nd)
  <2>1. i \in DOMAIN insts BY DEF SnapInv, SnapLast
  <2>2. /\ Older(i) /\ (last.at.phase = "elem" => Wrote(i, last.at.k - 1, 0))
        /\ last.at.phase = "data" => Wrote(i, Len(Mods[insts[i].mod].elems), last.at.k - 1)
    BY <2>1 DEF SnapInv, SnapLast
  <2> QED BY <2>1, <2>2
<1> HIDE DEF ne, nd, i
<1>2. DOMAIN insts = 1 .. Len(insts) /\ Len(insts) \in Nat BY InstsAre
<1>3. ASSUME NEW j \in 1 .. i - 1, insts[j].out # "freed", NEW k \in DOMAIN insts[j].tabs
      PROVE  View(insts[j].tabs[k])
               = Overlay(snap.tabs[insts[j].tabs[k].tid], ElemWrites(i, insts[j].tabs[k].tid), ne)
  <2>1. j \in DOMAIN insts BY <1>1, <1>2
  <2>2. Holds(insts[j].tabs[k]) BY <1>3, <2>1 DEF ExactInv, TabsHold
  <2>3. View(insts[j].tabs[k]) = want[insts[j].tabs[k].tid] BY <2>1, <2>2, ViewExact
  <2>4. insts[j].tabs[k].tid \in DOMAIN snap.tabs BY <1>1 DEF Older
  <2> QED BY <1>1, <2>3, <2>4 DEF Wrote
<1>4. \A a \in DOMAIN snap.bytes : mems[a].bytes = Overlay(snap.bytes[a], DataWrites(i, a), nd)
  BY <1>1 DEF Wrote
<1> QED BY <1>3, <1>4, Zenon DEF PrefixPersists, i, ne, nd

\* Nothing is under way at first.
LEMMA SnapInit ==
  ASSUME Init PROVE SnapInv
<1>1. cur.phase = "idle" /\ last.at.phase = "idle" BY DEF Init, Idle, Done
<1> QED BY <1>1 DEF SnapInv, SnapCur, SnapLast

\* Nor after a step that ends the segments, or belongs to no instantiation.
LEMMA SnapAway ==
  ASSUME cur'.phase \in {"idle", "start"}, last'.at.phase \notin {"elem", "data"}
  PROVE  SnapInv'
  BY DEF SnapInv, SnapCur, SnapLast

\* A step of the instantiation under way that does not fail at a segment.
LEMMA SnapGoes ==
  ASSUME NEW i, I' = i, last'.at.phase \notin {"elem", "data"}, NEW n, NEW m,
         i \in DOMAIN insts' =>
           /\ Older(i)' /\ m = Len(Mods[insts'[i].mod].elems)
           /\ cur'.phase = "import" => Untouched'
           /\ cur'.phase = "elem" => n = cur'.k - 1 /\ cur'.k <= m + 1 /\ Wrote(i, n, 0)'
           /\ cur'.phase = "data" => n = cur'.k - 1 /\ Wrote(i, m, n)'
  PROVE  SnapInv'
<1>1. SnapLast' BY DEF SnapLast
<1>2. SnapCur'
  <2> SUFFICES ASSUME i \in DOMAIN insts'
               PROVE  /\ cur'.phase \in {"import", "elem", "data"} => Older(i)'
                      /\ cur'.phase = "import" => Untouched'
                      /\ cur'.phase = "elem" =>
                           /\ cur'.k <= Len(Mods[insts'[i].mod].elems) + 1
                           /\ Wrote(i, cur.k - 1, 0)'
                      /\ cur'.phase = "data" => Wrote(i, Len(Mods[insts[i].mod].elems), cur.k - 1)'
    BY DEF SnapCur, Wrote
  <2> QED BY DEF Wrote
<1> QED BY <1>1, <1>2 DEF SnapInv

\* Instructions run between instantiations, and in a start function.
LEMMA SnapRun ==
  ASSUME TypeInv, RefInv, NEW i, i \in Runs, Run(i)
  PROVE  SnapInv'
<1>1. cur.phase \in {"idle", "start"} BY DEF Runs, Idle
<1>2. cur' = cur /\ \E ok, w : last' = Done(ok, w)
  <2>1. ASSUME NEW t, NEW d, NEW vals, NEW ok, NEW wvals, NEW w, Update(t, d, vals, ok, wvals, w)
        PROVE  cur' = cur /\ \E p, q : last' = Done(p, q)
    BY <2>1 DEF Update
  <2>2. ASSUME NEW k, NEW x, NEW e, NEW ty, TableGet(i, k, x) \/ CallIndirect(e, i, k, x, ty)
        PROVE  cur' = cur /\ \E p, q : last' = Done(p, q)
    <3>1. CASE TableGet(i, k, x) BY <3>1, Zenon DEF TableGet
    <3>2. CASE CallIndirect(e, i, k, x, ty) BY <3>2, Zenon DEF CallIndirect
    <3> QED BY <2>2, <3>1, <3>2
  <2>3. ASSUME NEW k, NEW x, NEW r, TableSet(i, k, x, r)
        PROVE  cur' = cur /\ \E p, q : last' = Done(p, q)
    BY <2>1, <2>3, Zenon DEF TableSet
  <2>4. ASSUME NEW k, NEW x, NEW n, NEW r, NEW e, TableFill(e, i, k, x, n, r)
        PROVE  cur' = cur /\ \E p, q : last' = Done(p, q)
    BY <2>1, <2>4, Zenon DEF TableFill
  <2>5. ASSUME NEW k, NEW j, NEW d, NEW s, NEW n, NEW e, TableCopy(e, i, k, j, d, s, n)
        PROVE  cur' = cur /\ \E p, q : last' = Done(p, q)
    BY <2>1, <2>5, Zenon DEF TableCopy
  <2>6. ASSUME NEW k, NEW g, NEW d, NEW s, NEW n, NEW e, TableInit(e, i, k, g, d, s, n)
        PROVE  cur' = cur /\ \E p, q : last' = Done(p, q)
    BY <2>1, <2>6, Zenon DEF TableInit
  <2>7. ASSUME NEW k, NEW delta, NEW r, TableGrow(i, k, delta, r)
        PROVE  cur' = cur /\ \E p, q : last' = Done(p, q)
    BY <2>7, Zenon DEF TableGrow
  <2>8. ASSUME NEW g, ElemDrop(i, g) PROVE cur' = cur /\ \E p, q : last' = Done(p, q)
    BY <2>8, Zenon DEF ElemDrop
  <2>9. ASSUME NEW k, NEW delta, MemoryGrow(i, k, delta)
        PROVE  cur' = cur /\ \E p, q : last' = Done(p, q)
    BY <2>9, Zenon DEF MemoryGrow
  <2> QED BY <2>2, <2>3, <2>4, <2>5, <2>6, <2>7, <2>8, <2>9, RunIs
<1>3. last'.at.phase = "idle" BY <1>2 DEF Done, Idle
<1> QED BY <1>1, <1>2, <1>3, SnapAway

\* An instantiation begins with the store as it is.
LEMMA SnapBegin ==
  ASSUME TypeInv, NEW m, m \in DOMAIN Mods, Begin(m)
  PROVE  SnapInv'
<1> DEFINE x == Fresh(m) n == Len(insts)
<1>1. /\ insts' = Append(insts, x) /\ insts \in Seq(InstT) /\ n \in Nat /\ DOMAIN insts = 1 .. n
      /\ UNCHANGED <<want, mems>> /\ last' = Done(TRUE, TRUE)
      /\ cur' = [inst |-> n + 1, phase |-> "import", k |-> 1]
      /\ snap' = [tabs |-> want, bytes |-> [a \in 1 .. Len(mems) |-> mems[a].bytes]]
  BY InstsAre DEF Begin, TypeInv, Shapes
<1>2. x \in InstT
  <2>1. x.elem_alive \in [DOMAIN Mods[m].elems -> BOOLEAN] BY DEF Fresh
  <2>2. x.data_alive \in [DOMAIN Mods[m].datas -> BOOLEAN] BY DEF Fresh
  <2> QED BY <2>1, <2>2 DEF Fresh, InstT, Outs
<1> HIDE DEF x, n
<1>3. \A j \in 1 .. n : insts'[j] = insts[j] BY <1>1, <1>2, Appended DEF n
<1>4. /\ I' = n + 1 /\ snap'.tabs = want /\ DOMAIN snap'.bytes = DOMAIN mems
      /\ \A a \in DOMAIN mems : snap'.bytes[a] = mems[a].bytes
      /\ cur'.phase = "import" /\ last'.at.phase = "idle"
  BY <1>1, BlocksAre DEF I, Done, Idle
<1>0. PICK i : i = n + 1 OBVIOUS
<1>5. Older(i)'
  <2>1. \A w \in DOMAIN want : Len(want[w]) \in Nat BY BlocksAre, LenProperties
  <2>2. \A a \in DOMAIN mems : Len(mems[a].bytes) \in Nat
    <3>1. \A a \in DOMAIN mems : mems[a].bytes \in Seq(Ref) BY BlocksAre DEF MemT
    <3> QED BY <3>1, LenProperties
  <2>3. ASSUME NEW j \in 1 .. i - 1, NEW k \in DOMAIN insts'[j].tabs
        PROVE  insts'[j].tabs[k].tid \in DOMAIN want
    <3>1. j \in 1 .. n BY <1>0, <1>1
    <3> QED BY <1>1, <1>3, <3>1, BlocksAre
  <2> QED BY <1>1, <1>4, <2>1, <2>2, <2>3 DEF Older
<1>6. Untouched' BY <1>1, <1>4 DEF Untouched
<1>7. PICK l : l = Len(Mods[insts'[i].mod].elems) OBVIOUS
<1> QED BY <1>0, <1>4, <1>5, <1>6, <1>7, SnapGoes

\* An import changes the instance under way only.
LEMMA SnapImport ==
  ASSUME TypeInv, SnapInv, Import
  PROVE  SnapInv'
<1>1. cur.phase = "import" /\ UNCHANGED <<mems, want, snap>> BY DEF Import
<1>2. I \in DOMAIN insts /\ I = Len(insts) /\ DOMAIN insts = 1 .. Len(insts) /\ Len(insts) \in Nat
  BY <1>1, CurIs, InstsAre
<1>3. last'.at.phase \notin {"elem", "data"}
  <2>1. \E w : last' = Done(TRUE, w) \/ last' = Fails(w) BY Zenon DEF Import, Abandon
  <2> QED BY <1>1, <2>1 DEF Done, Fails, Idle
<1>4. CASE cur' = Idle
  <2>1. cur'.phase = "idle" BY <1>4 DEF Idle
  <2> QED BY <1>3, <2>1, SnapAway
<1>5. ASSUME NEW s \in DOMAIN insts, ImportsFrom(s) PROVE SnapInv'
  <2>1. /\ cur'.inst = I /\ cur'.phase = "import"
        /\ \A j \in DOMAIN insts : j # I => insts'[j] = insts[j]
    BY <1>5 DEF ImportsFrom
  <2> DEFINE i == I
  <2>2. I' = i BY <2>1 DEF I
  <2>3. Older(i) /\ Untouched BY <1>1, <1>2 DEF SnapInv, SnapCur
  <2> HIDE DEF i
  <2>4. PICK c : c = i OBVIOUS
  <2>5. Older(c)'
    <3>1. Older(c) /\ c = I BY <2>3, <2>4 DEF i
    <3>2. \A j \in 1 .. c - 1 : insts'[j] = insts[j] BY <1>2, <2>1, <3>1
    <3> QED BY <1>1, <3>1, <3>2 DEF Older
  <2>6. Untouched' BY <1>1, <2>3 DEF Untouched
  <2>7. PICK l : l = Len(Mods[insts'[c].mod].elems) OBVIOUS
  <2>8. I' = c BY <2>2, <2>4
  <2> QED BY <1>3, <2>1, <2>5, <2>6, <2>7, <2>8, SnapGoes
<1> QED BY <1>4, <1>5, ImportIs

\* The definitions add tables and memories behind those there are.
LEMMA SnapDefine ==
  ASSUME TypeInv, SnapInv, Define
  PROVE  SnapInv'
<1>1. /\ cur.phase = "import" /\ cur.phase # "idle" /\ cur.k > Len(D.imports) /\ UNCHANGED snap
      /\ want' = want \o NewEls
  BY DefinedIs DEF Define
<1>2. /\ I \in DOMAIN insts /\ I = Len(insts) /\ DOMAIN insts = 1 .. Len(insts) /\ Len(insts) \in Nat
      /\ insts[I].mod \in DOMAIN Mods
  BY <1>1, CurIs, InstsAre DEF InstT
<1>3. last'.at.phase \notin {"elem", "data"}
  <2>1. last' = Done(TRUE, TRUE) \/ last' = Fails(FALSE) BY Zenon DEF Define, Abandon
  <2> QED BY <1>1, <2>1 DEF Done, Fails, Idle
<1>4. CASE cur' = Idle
  <2>1. cur'.phase = "idle" BY <1>4 DEF Idle
  <2> QED BY <1>3, <2>1, SnapAway
<1>5. CASE DefinesOwn
  <2>0. PICK i : i = I OBVIOUS
  <2>1. /\ \A j \in DOMAIN insts : j # i => insts'[j] = insts[j]
        /\ insts'[i].mod = insts[i].mod /\ mems' = mems \o NewMems
        /\ cur'.inst = i /\ cur'.phase = "elem"
    BY <1>5, <2>0 DEF DefinesOwn
  <2>2. cur'.k = 1 /\ I' = i
    <3>1. Step("elem", 1) \/ cur' = Idle BY Zenon DEF Define, Abandon
    <3>2. cur' # Idle BY <2>1 DEF Idle
    <3>3. cur' = [cur EXCEPT !.phase = "elem", !.k = 1] BY <3>1, <3>2 DEF Step
    <3>4. cur'.k = 1 BY <3>3 DEF TypeInv, Shapes
    <3> QED BY <2>1, <3>4 DEF I
  <2>3. Older(i) /\ Untouched BY <1>1, <1>2, <2>0 DEF SnapInv, SnapCur
  <2>4. /\ \A w \in DOMAIN want : want'[w] = want[w] /\ w \in DOMAIN want'
        /\ \A a \in DOMAIN mems : mems'[a] = mems[a] /\ a \in DOMAIN mems'
    BY <1>1, <2>1, StoreGrows
  <2>5. Older(i)'
    <3>1. \A j \in 1 .. i - 1 : insts'[j] = insts[j] BY <1>2, <2>0, <2>1
    <3> QED BY <1>1, <2>3, <2>4, <3>1 DEF Older
  <2> DEFINE E == Mods[insts[i].mod].elems G == Mods[insts[i].mod].datas
  <2>6. DOMAIN E \subseteq Nat \ {0} /\ DOMAIN G \subseteq Nat \ {0} /\ Len(E) \in Nat
    <3>1. Valid(insts[i].mod) BY <1>2, <2>0, LinkingMods
    <3>2. E \in Seq({E[k] : k \in DOMAIN E}) /\ G \in Seq({G[k] : k \in DOMAIN G})
      BY <3>1 DEF Valid
    <3> QED BY <3>2, LenProperties
  <2>7. ASSUME NEW w \in DOMAIN snap'.tabs
        PROVE  want'[w] = Overlay(snap'.tabs[w], ElemWrites(i, w)', 0)
    <3>1. w \in DOMAIN want /\ want[w] = snap.tabs[w] /\ snap'.tabs[w] = snap.tabs[w]
      BY <1>1, <2>3 DEF Older, Untouched
    <3>2. want'[w] = snap'.tabs[w] /\ snap'.tabs[w] \in Seq(Ref) BY <2>4, <3>1, BlocksAre
    <3>3. DOMAIN ElemWrites(i, w)' \subseteq DOMAIN E BY <2>1 DEF ElemWrites
    <3>4. DOMAIN ElemWrites(i, w)' \subseteq Nat \ {0} BY <2>6, <3>3
    <3> QED BY <3>2, <3>4, OverlayNone
  <2>8. ASSUME NEW a \in DOMAIN snap'.bytes
        PROVE  mems'[a].bytes = Overlay(snap'.bytes[a], DataWrites(i, a)', 0)
    <3>1. a \in DOMAIN mems /\ mems[a].bytes = snap.bytes[a] /\ snap'.bytes[a] = snap.bytes[a]
      BY <1>1, <2>3 DEF Older, Untouched
    <3>2. mems'[a].bytes = snap'.bytes[a] /\ snap'.bytes[a] \in Seq(Ref)
      BY <2>4, <3>1, BlocksAre DEF MemT
    <3>3. DOMAIN DataWrites(i, a)' \subseteq DOMAIN G BY <2>1 DEF DataWrites
    <3>4. DOMAIN DataWrites(i, a)' \subseteq Nat \ {0} BY <2>6, <3>3
    <3> QED BY <3>2, <3>4, OverlayNone
  <2>9. PICK n, m : n = 0 /\ m = Len(E) OBVIOUS
  <2>10. Wrote(i, n, 0)' BY <2>7, <2>8, <2>9 DEF Wrote
  <2>11. m = Len(Mods[insts'[i].mod].elems) /\ n = cur'.k - 1 /\ cur'.k <= m + 1
    <3>1. m = Len(Mods[insts'[i].mod].elems) BY <2>1, <2>9
    <3> HIDE DEF E
    <3> QED BY <2>2, <2>6, <2>9, <3>1
  <2> HIDE DEF E, G
  <2> QED BY <1>3, <2>1, <2>2, <2>5, <2>10, <2>11, SnapGoes
<1> QED BY <1>4, <1>5, DefinedIs

\* Segment n + 1 of the element segments is one more write, if it is active.
LEMMA ElemWritten ==
  ASSUME TypeInv, NEW i, i \in DOMAIN insts, insts[i].jit_mem0, Older(i), Kept,
         UNCHANGED <<mems, cells, snap>>, NEW n \in Nat, Wrote(i, n, 0),
         \A w \in DOMAIN snap.tabs :
           want'[w] = IF n + 1 \in DOMAIN ElemWrites(i, w)
                      THEN Stored(want[w], ElemWrites(i, w)[n + 1].off, ElemWrites(i, w)[n + 1].vals)
                      ELSE want[w]
  PROVE  Wrote(i, n + 1, 0)'
<1>1. /\ \A w : ElemWrites(i, w)' = ElemWrites(i, w)
      /\ \A a : DataWrites(i, a)' = DataWrites(i, a)
  BY WritesStay
<1>2. ASSUME NEW w \in DOMAIN snap.tabs
      PROVE  want'[w] = Overlay(snap.tabs[w], ElemWrites(i, w), n + 1)
  <2> DEFINE W == ElemWrites(i, w) s == snap.tabs[w]
  <2>1. DOMAIN W \subseteq Nat /\ (n + 1 \in DOMAIN W => W[n + 1].off \in Int /\ Len(W[n + 1].vals) \in Nat)
    BY ElemWritesAre
  <2>2. Len(s) \in Nat BY DEF Older
  <2>3. want[w] = Overlay(s, W, n) BY DEF Wrote
  <2>4. want'[w] = IF n + 1 \in DOMAIN W THEN Stored(want[w], W[n + 1].off, W[n + 1].vals)
                   ELSE want[w] OBVIOUS
  <2> HIDE DEF W, s
  <2> QED BY <2>1, <2>2, <2>3, <2>4, OverlayNext DEF W, s
<1> QED BY <1>1, <1>2 DEF Wrote

\* So is a data segment.
LEMMA DataWritten ==
  ASSUME TypeInv, NEW i, i \in DOMAIN insts, insts[i].jit_mem0, Older(i), Kept,
         UNCHANGED <<want, cells, snap>>, NEW n \in Nat, NEW m, Wrote(i, m, n),
         \A a \in DOMAIN snap.bytes :
           mems'[a].bytes = IF n + 1 \in DOMAIN DataWrites(i, a)
                            THEN Stored(mems[a].bytes, DataWrites(i, a)[n + 1].off,
                                        DataWrites(i, a)[n + 1].vals)
                            ELSE mems[a].bytes
  PROVE  Wrote(i, m, n + 1)'
<1>1. /\ \A w : ElemWrites(i, w)' = ElemWrites(i, w)
      /\ \A a : DataWrites(i, a)' = DataWrites(i, a)
  BY WritesStay
<1>2. ASSUME NEW a \in DOMAIN snap.bytes
      PROVE  mems'[a].bytes = Overlay(snap.bytes[a], DataWrites(i, a), n + 1)
  <2> DEFINE W == DataWrites(i, a) s == snap.bytes[a]
  <2>1. DOMAIN W \subseteq Nat /\ (n + 1 \in DOMAIN W => W[n + 1].off \in Int /\ Len(W[n + 1].vals) \in Nat)
    BY DataWritesAre
  <2>2. Len(s) \in Nat BY DEF Older
  <2>3. mems[a].bytes = Overlay(s, W, n) BY DEF Wrote
  <2>4. mems'[a].bytes = IF n + 1 \in DOMAIN W
                         THEN Stored(mems[a].bytes, W[n + 1].off, W[n + 1].vals)
                         ELSE mems[a].bytes OBVIOUS
  <2> HIDE DEF W, s
  <2> QED BY <2>1, <2>2, <2>3, <2>4, OverlayNext DEF W, s
<1> QED BY <1>1, <1>2 DEF Wrote

\* A step that leaves instances their tables leaves the older ones older tables.
LEMMA OlderStays ==
  ASSUME TypeInv, NEW i, i \in DOMAIN insts, Older(i), Kept, UNCHANGED snap,
         DOMAIN want' = DOMAIN want, DOMAIN mems' = DOMAIN mems
  PROVE  Older(i)'
<1>1. 1 .. i - 1 \subseteq DOMAIN insts BY InstsAre
<1>2. \A j \in 1 .. i - 1 : insts'[j].tabs = insts[j].tabs BY <1>1 DEF Kept
<1> QED BY <1>2 DEF Older

\* What is written stays where the step writes nothing.
LEMMA WroteStays ==
  ASSUME NEW i, i \in DOMAIN insts, NEW n, NEW m, Wrote(i, n, m), Kept,
         UNCHANGED <<want, mems, cells, snap>>
  PROVE  Wrote(i, n, m)'
<1>1. /\ \A w : ElemWrites(i, w)' = ElemWrites(i, w)
      /\ \A a : DataWrites(i, a)' = DataWrites(i, a)
  BY WritesStay
<1> QED BY <1>1 DEF Wrote

\* An instantiation that fails at a segment.
LEMMA SnapStops ==
  ASSUME NEW i, i \in DOMAIN insts', cur' = Idle, last'.at.inst = i, Older(i)',
         NEW n, NEW m, Wrote(i, n, m)',
         \/ last'.at.phase = "elem" /\ n = last'.at.k - 1 /\ m = 0
         \/ last'.at.phase = "data" /\ n = Len(Mods[insts'[i].mod].elems) /\ m = last'.at.k - 1
  PROVE  SnapInv'
<1>1. cur'.phase = "idle" BY DEF Idle
<1>2. SnapCur' BY <1>1 DEF SnapCur
<1>3. SnapLast'
  <2> SUFFICES /\ last'.at.phase = "elem" => Wrote(i, last.at.k - 1, 0)'
               /\ last'.at.phase = "data" => Wrote(i, Len(Mods[insts[i].mod].elems), last.at.k - 1)'
    BY <1>1 DEF SnapLast, Wrote
  <2> QED BY DEF Wrote
<1> QED BY <1>2, <1>3 DEF SnapInv

\* Element segments are written in order; one that does not fit ends it.
LEMMA SnapElem ==
  ASSUME TypeInv, SnapInv, OutcomeExact', Elem
  PROVE  SnapInv'
<1>1. /\ cur.phase = "elem" /\ cur.phase # "idle" /\ cur.k <= Len(D.elems)
      /\ UNCHANGED <<mems, cells, snap>>
  BY DEF Elem
<1>2. Kept BY ElemQuiet
<1>3. PICK i, n, m : i = I /\ n = cur.k - 1 /\ m = Len(D.elems) OBVIOUS
<1> DEFINE E == Mods[insts[i].mod].elems
<1>4. /\ i \in DOMAIN insts /\ insts[i].jit_mem0 /\ i \in DOMAIN insts'
      /\ insts'[i].mod = insts[i].mod /\ n \in Nat /\ n + 1 = cur.k /\ m = Len(E)
  <2>1. I \in DOMAIN insts /\ insts[I].jit_mem0 /\ cur.k \in Nat /\ cur.k # 0 BY <1>1, CurIs
  <2>2. DOMAIN insts' = DOMAIN insts BY <1>2, KeptParts
  <2>3. insts'[I].mod = insts[I].mod BY <1>2, <2>1 DEF Kept
  <2>4. m = Len(E) BY <1>3 DEF D
  <2> HIDE DEF E
  <2> QED BY <1>3, <2>1, <2>2, <2>3, <2>4
<1>5. Older(i) /\ Wrote(i, n, 0) BY <1>1, <1>3, <1>4 DEF SnapInv, SnapCur, Wrote
<1> DEFINE e == E[n + 1]
           t == insts[i].tabs[e.tab]
           off == Eval(insts[i].globs, cells, e.off) % N32
           its == Items(i, e)
<1>6. \/ /\ e.mode # "active" /\ Step("elem", cur.k + 1) /\ UNCHANGED <<want, last>>
      \/ /\ e.mode = "active" /\ Step("elem", cur.k + 1)
         /\ want' = [want EXCEPT ![t.tid] = Stored(@, off, its)] /\ last'.at = Idle
      \/ cur' = Idle /\ last'.at = cur /\ UNCHANGED want
  <2> DEFINE w == InRange(Len(want[t.tid]), off, Len(e.items))
  <2>1. E = D.elems /\ e = D.elems[cur.k] BY <1>3, <1>4 DEF D
  <2>2. t = insts[I].tabs[D.elems[cur.k].tab] BY <1>3, <2>1
  <2>3. \/ /\ e.mode \in {"declarative", "passive"} /\ Step("elem", cur.k + 1)
           /\ UNCHANGED <<want, last>>
        \/ /\ e.mode = "active" /\ Step("elem", cur.k + 1) /\ last' = Done(TRUE, w)
           /\ want' = IF w THEN [want EXCEPT ![t.tid] = Stored(@, off, its)] ELSE want
        \/ \E v : cur' = Idle /\ last' = Fails(v) /\ UNCHANGED want
    <3> HIDE DEF E
    <3> QED BY <1>3, <2>1, <2>2, Zenon DEF Elem, Abandon
  <2> HIDE DEF e, t, off, its, w, E
  <2>4. CASE e.mode \in {"declarative", "passive"} /\ Step("elem", cur.k + 1) /\ UNCHANGED <<want, last>>
    BY <2>4
  <2>5. CASE /\ e.mode = "active" /\ Step("elem", cur.k + 1) /\ last' = Done(TRUE, w)
             /\ want' = IF w THEN [want EXCEPT ![t.tid] = Stored(@, off, its)] ELSE want
    <3>1. w = TRUE /\ last'.at = Idle BY <2>5 DEF OutcomeExact, Done
    <3> QED BY <2>5, <3>1
  <2>6. CASE \E v : cur' = Idle /\ last' = Fails(v) /\ UNCHANGED want BY <2>6 DEF Fails
  <2> QED BY <2>3, <2>4, <2>5, <2>6
<1>7. \A w : n + 1 \in DOMAIN ElemWrites(i, w) =>
        /\ e.mode = "active" /\ t.tid = w
        /\ ElemWrites(i, w)[n + 1] = [off |-> off, vals |-> its]
  BY DEF ElemWrites
<1>8. n + 1 \in DOMAIN E
  <2>1. Valid(insts[i].mod) BY <1>4, InstsAre, LinkingMods DEF InstT
  <2>2. E \in Seq({E[k] : k \in DOMAIN E}) BY <2>1 DEF Valid
  <2>3. DOMAIN E = 1 .. Len(E) /\ n + 1 <= Len(E) BY <1>1, <1>3, <1>4, <2>2, LenProperties
  <2> HIDE DEF E
  <2> QED BY <1>4, <2>3
<1>9. \A w : e.mode = "active" /\ t.tid = w => n + 1 \in DOMAIN ElemWrites(i, w)
  BY <1>8 DEF ElemWrites
<1> HIDE DEF e, t, off, its, E
<1>10. ASSUME DOMAIN want' = DOMAIN want, Step("elem", cur.k + 1), Wrote(i, n + 1, 0)',
              last'.at.phase \notin {"elem", "data"}
       PROVE  SnapInv'
  <2>1. Older(i)' BY <1>1, <1>2, <1>4, <1>5, <1>10, OlderStays
  <2>2. /\ cur' = [cur EXCEPT !.phase = "elem", !.k = cur.k + 1]
        /\ cur \in [inst : Nat, phase : {"idle", "import", "elem", "data", "start"}, k : Nat]
    BY <1>10 DEF Step, TypeInv, Shapes
  <2>3. cur'.phase = "elem" /\ cur'.inst = i /\ cur'.k = cur.k + 1 BY <1>3, <2>2 DEF I
  <2>4. PICK q : q = n + 1 OBVIOUS
  <2>5. q = cur'.k - 1 /\ cur'.k <= m + 1
    <3>1. m \in Nat /\ cur.k <= m
      <4>1. Valid(insts[i].mod) BY <1>4, InstsAre, LinkingMods DEF InstT
      <4>2. E \in Seq({E[k] : k \in DOMAIN E}) BY <4>1 DEF Valid, E
      <4> QED BY <1>1, <1>3, <1>4, <4>2, LenProperties
    <3> QED BY <1>4, <2>3, <2>4, <3>1
  <2>6. I' = i BY <2>3 DEF I
  <2>7. Wrote(i, q, 0)' BY <1>10, <2>4
  <2>8. m = Len(Mods[insts'[i].mod].elems) BY <1>4 DEF E
  <2> QED BY <1>10, <2>1, <2>3, <2>5, <2>6, <2>7, <2>8, SnapGoes
<1>11. CASE e.mode # "active" /\ Step("elem", cur.k + 1) /\ UNCHANGED <<want, last>>
  <2>1. Wrote(i, n + 1, 0)' BY <1>1, <1>2, <1>4, <1>5, <1>7, <1>11, ElemWritten
  <2>2. last'.at.phase \notin {"elem", "data"} BY <1>1, <1>11 DEF SnapInv, SnapLast
  <2> QED BY <1>10, <1>11, <2>1, <2>2
<1>12. CASE /\ e.mode = "active" /\ Step("elem", cur.k + 1)
            /\ want' = [want EXCEPT ![t.tid] = Stored(@, off, its)] /\ last'.at = Idle
  <2>1. ASSUME NEW w \in DOMAIN snap.tabs
        PROVE  want'[w] = IF n + 1 \in DOMAIN ElemWrites(i, w)
                          THEN Stored(want[w], ElemWrites(i, w)[n + 1].off, ElemWrites(i, w)[n + 1].vals)
                          ELSE want[w]
    <3>1. w \in DOMAIN want BY <1>5 DEF Older
    <3>2. CASE t.tid = w
      <4>1. /\ n + 1 \in DOMAIN ElemWrites(i, w)
            /\ ElemWrites(i, w)[n + 1].off = off /\ ElemWrites(i, w)[n + 1].vals = its
        BY <1>7, <1>9, <1>12, <3>2
      <4>2. want'[w] = Stored(want[w], off, its) BY <1>12, <3>1, <3>2
      <4> QED BY <4>1, <4>2
    <3>3. CASE t.tid # w
      <4>1. n + 1 \notin DOMAIN ElemWrites(i, w) BY <1>7, <3>3
      <4>2. want'[w] = want[w] BY <1>12, <3>1, <3>3
      <4> QED BY <4>1, <4>2
    <3> QED BY <3>2, <3>3
  <2>2. Wrote(i, n + 1, 0)' BY <1>1, <1>2, <1>4, <1>5, <2>1, ElemWritten
  <2>3. last'.at.phase \notin {"elem", "data"} BY <1>12 DEF Idle
  <2>4. DOMAIN want' = DOMAIN want BY <1>12
  <2> QED BY <1>10, <1>12, <2>2, <2>3, <2>4
<1>13. CASE cur' = Idle /\ last'.at = cur /\ UNCHANGED want
  <2>1. Older(i)' BY <1>1, <1>2, <1>4, <1>5, <1>13, OlderStays
  <2>2. Wrote(i, n, 0)' BY <1>1, <1>2, <1>4, <1>5, <1>13, WroteStays
  <2>3. last'.at.inst = i /\ last'.at.phase = "elem" /\ n = last'.at.k - 1
    BY <1>1, <1>3, <1>13 DEF I
  <2> QED BY <1>4, <1>13, <2>1, <2>2, <2>3, SnapStops
<1> QED BY <1>6, <1>11, <1>12, <1>13

\* So are data segments, after all element segments.
LEMMA SnapData ==
  ASSUME TypeInv, SnapInv, Data
  PROVE  SnapInv'
<1> DEFINE k == IF cur.phase = "elem" THEN 1 ELSE cur.k
<1>1. /\ cur.phase \in {"elem", "data"} /\ cur.phase # "idle" /\ k <= Len(D.datas)
      /\ (cur.phase = "elem" => cur.k > Len(D.elems))
      /\ UNCHANGED <<want, cells, snap>>
  BY DEF Data
<1>2. Kept BY DataQuiet
<1>3. PICK i, n, m : i = I /\ n = k - 1 /\ m = Len(D.elems) OBVIOUS
<1> DEFINE E == Mods[insts[i].mod].elems G == Mods[insts[i].mod].datas
<1>4. /\ i \in DOMAIN insts /\ insts[i].jit_mem0 /\ i \in DOMAIN insts'
      /\ insts'[i].mod = insts[i].mod /\ n \in Nat /\ n + 1 = k /\ m = Len(E)
  <2>1. I \in DOMAIN insts /\ insts[I].jit_mem0 /\ cur.k \in Nat /\ cur.k # 0 BY <1>1, CurIs
  <2>2. DOMAIN insts' = DOMAIN insts BY <1>2, KeptParts
  <2>3. insts'[I].mod = insts[I].mod BY <1>2, <2>1 DEF Kept
  <2>4. m = Len(E) BY <1>3 DEF D
  <2>5. k \in Nat /\ k # 0 BY <2>1
  <2> HIDE DEF E, k
  <2> QED BY <1>3, <2>1, <2>2, <2>3, <2>4, <2>5
<1>5. Valid(insts[i].mod) BY <1>4, InstsAre, LinkingMods DEF InstT
<1>6. /\ m \in Nat /\ DOMAIN G = 1 .. Len(G) /\ Len(G) \in Nat
  <2>1. E \in Seq({E[x] : x \in DOMAIN E}) /\ G \in Seq({G[x] : x \in DOMAIN G})
    BY <1>5 DEF Valid
  <2> HIDE DEF E, G
  <2> QED BY <1>4, <2>1, LenProperties
<1>7. Older(i) /\ Wrote(i, m, n)
  <2>1. Older(i) BY <1>1, <1>3, <1>4 DEF SnapInv, SnapCur
  <2>2. CASE cur.phase = "data"
    <3>1. n = cur.k - 1 BY <1>3, <2>2
    <3>2. Wrote(i, Len(E), cur.k - 1) BY <1>3, <1>4, <2>2 DEF SnapInv, SnapCur
    <3> QED BY <1>4, <2>1, <3>1, <3>2
  <2>3. CASE cur.phase = "elem"
    <3>1. cur.k <= Len(E) + 1 /\ Wrote(i, cur.k - 1, 0) BY <1>3, <1>4, <2>3 DEF SnapInv, SnapCur
    <3>2. cur.k - 1 = m /\ n = 0
      <4>1. n = 0 BY <1>3, <2>3
      <4>2. cur.k \in Nat BY DEF TypeInv, Shapes
      <4> HIDE DEF E, k
      <4>3. cur.k > m /\ cur.k <= m + 1 BY <1>1, <1>3, <1>4, <2>3, <3>1
      <4> QED BY <1>6, <4>1, <4>2, <4>3
    <3> QED BY <2>1, <3>1, <3>2
  <2> QED BY <1>1, <2>2, <2>3
<1> DEFINE d == G[n + 1]
           a == insts[i].mems[d.mem]
           off == Eval(insts[i].globs, cells, d.off) % N32
           seg == Repeat(<<i, n + 1>>, d.len)
<1>8. \/ d.mode # "active" /\ Step("data", k + 1) /\ UNCHANGED <<mems, last>>
      \/ /\ d.mode = "active" /\ Step("data", k + 1) /\ last'.at = Idle
         /\ mems' = [mems EXCEPT ![a].bytes = Stored(@, off, seg)]
      \/ /\ cur' = Idle /\ UNCHANGED mems
         /\ last'.at = [cur EXCEPT !.phase = "data", !.k = k]
  <2>1. G = D.datas /\ d = D.datas[k] /\ seg = Repeat(<<I, k>>, D.datas[k].len)
    BY <1>3, <1>4 DEF D
  <2>2. a = insts[I].mems[D.datas[k].mem] BY <1>3, <2>1
  <2>3. \/ d.mode # "active" /\ Step("data", k + 1) /\ UNCHANGED <<mems, last>>
        \/ /\ d.mode = "active" /\ Step("data", k + 1) /\ last' = Done(TRUE, TRUE)
           /\ mems' = [mems EXCEPT ![a].bytes = Stored(@, off, seg)]
        \/ /\ cur' = Idle /\ UNCHANGED mems
           /\ last' = [ok |-> FALSE, want |-> FALSE, at |-> [cur EXCEPT !.phase = "data", !.k = k]]
    <3> HIDE DEF G
    <3> QED BY <1>3, <2>1, <2>2, Zenon DEF Data
  <2> HIDE DEF d, a, off, seg, G, k
  <2> QED BY <2>3 DEF Done
<1>9. \A b : n + 1 \in DOMAIN DataWrites(i, b) =>
        /\ d.mode = "active" /\ a = b
        /\ DataWrites(i, b)[n + 1] = [off |-> off, vals |-> seg]
  BY DEF DataWrites
<1>10. n + 1 \in DOMAIN G
  <2>1. k <= Len(G) BY <1>1, <1>3 DEF D
  <2> HIDE DEF G, k
  <2> QED BY <1>4, <1>6, <2>1
<1>11. \A b : d.mode = "active" /\ a = b => n + 1 \in DOMAIN DataWrites(i, b)
  BY <1>10 DEF DataWrites
<1> HIDE DEF d, a, off, seg, E, G, k
<1>12. ASSUME DOMAIN mems' = DOMAIN mems, Step("data", k + 1), Wrote(i, m, n + 1)',
              last'.at.phase \notin {"elem", "data"}
       PROVE  SnapInv'
  <2>1. Older(i)' BY <1>1, <1>2, <1>4, <1>7, <1>12, OlderStays
  <2>2. /\ cur' = [cur EXCEPT !.phase = "data", !.k = k + 1]
        /\ cur \in [inst : Nat, phase : {"idle", "import", "elem", "data", "start"}, k : Nat]
    BY <1>12 DEF Step, TypeInv, Shapes
  <2>3. cur'.phase = "data" /\ cur'.inst = i /\ cur'.k = k + 1 BY <1>3, <2>2 DEF I
  <2>4. PICK q : q = n + 1 OBVIOUS
  <2>5. q = cur'.k - 1 BY <1>4, <2>3, <2>4
  <2>6. I' = i BY <2>3 DEF I
  <2>7. Wrote(i, m, q)' BY <1>12, <2>4
  <2>8. m = Len(Mods[insts'[i].mod].elems) BY <1>4 DEF E
  <2> QED BY <1>12, <2>1, <2>3, <2>5, <2>6, <2>7, <2>8, SnapGoes
<1>13. CASE d.mode # "active" /\ Step("data", k + 1) /\ UNCHANGED <<mems, last>>
  <2>1. Wrote(i, m, n + 1)' BY <1>1, <1>2, <1>4, <1>7, <1>9, <1>13, DataWritten
  <2>2. last'.at.phase \notin {"elem", "data"} BY <1>1, <1>13 DEF SnapInv, SnapLast
  <2> QED BY <1>12, <1>13, <2>1, <2>2
<1>14. CASE /\ d.mode = "active" /\ Step("data", k + 1) /\ last'.at = Idle
            /\ mems' = [mems EXCEPT ![a].bytes = Stored(@, off, seg)]
  <2>0. \A b \in DOMAIN mems : mems[b] \in MemT BY BlocksAre
  <2>1. ASSUME NEW b \in DOMAIN snap.bytes
        PROVE  mems'[b].bytes = IF n + 1 \in DOMAIN DataWrites(i, b)
                                THEN Stored(mems[b].bytes, DataWrites(i, b)[n + 1].off,
                                            DataWrites(i, b)[n + 1].vals)
                                ELSE mems[b].bytes
    <3>1. b \in DOMAIN mems BY <1>7 DEF Older
    <3>2. CASE a = b
      <4>1. /\ n + 1 \in DOMAIN DataWrites(i, b)
            /\ DataWrites(i, b)[n + 1].off = off /\ DataWrites(i, b)[n + 1].vals = seg
        BY <1>9, <1>11, <1>14, <3>2
      <4>2. mems'[b].bytes = Stored(mems[b].bytes, off, seg)
        <5>1. mems'[b] = [mems[b] EXCEPT !.bytes = Stored(@, off, seg)] BY <1>14, <3>1, <3>2
        <5> QED BY <2>0, <3>1, <5>1 DEF MemT
      <4> QED BY <4>1, <4>2
    <3>3. CASE a # b
      <4>1. n + 1 \notin DOMAIN DataWrites(i, b) BY <1>9, <3>3
      <4>2. mems'[b] = mems[b] BY <1>14, <3>1, <3>3
      <4> QED BY <4>1, <4>2
    <3> QED BY <3>2, <3>3
  <2>2. Wrote(i, m, n + 1)' BY <1>1, <1>2, <1>4, <1>7, <2>1, DataWritten
  <2>3. last'.at.phase \notin {"elem", "data"} BY <1>14 DEF Idle
  <2>4. DOMAIN mems' = DOMAIN mems BY <1>14
  <2> QED BY <1>12, <1>14, <2>2, <2>3, <2>4
<1>15. CASE /\ cur' = Idle /\ UNCHANGED mems
            /\ last'.at = [cur EXCEPT !.phase = "data", !.k = k]
  <2>1. Older(i)' BY <1>1, <1>2, <1>4, <1>7, <1>15, OlderStays
  <2>2. Wrote(i, m, n)' BY <1>1, <1>2, <1>4, <1>7, <1>15, WroteStays
  <2>3. last'.at.inst = i /\ last'.at.phase = "data" /\ n = last'.at.k - 1
    <3>1. cur \in [inst : Nat, phase : {"idle", "import", "elem", "data", "start"}, k : Nat]
      BY DEF TypeInv, Shapes
    <3>2. last'.at.inst = cur.inst /\ last'.at.phase = "data" /\ last'.at.k = k BY <1>15, <3>1
    <3> QED BY <1>3, <3>2 DEF I
  <2>4. m = Len(Mods[insts'[i].mod].elems) BY <1>4 DEF E
  <2> QED BY <1>4, <1>15, <2>1, <2>2, <2>3, <2>4, SnapStops
<1> QED BY <1>8, <1>13, <1>14, <1>15

\* Every step keeps the record of what segments have written.
LEMMA SnapStep ==
  ASSUME TypeInv, RefInv, SnapInv, OutcomeExact', [Next]_vars
  PROVE  SnapInv'
<1>1. ASSUME NEW m \in DOMAIN Mods, Begin(m) PROVE SnapInv' BY <1>1, SnapBegin
<1>2. CASE Import BY <1>2, SnapImport
<1>3. CASE Define BY <1>3, SnapDefine
<1>4. CASE Elem BY <1>4, SnapElem
<1>5. CASE Data BY <1>5, SnapData
<1>6. CASE Finish \/ StartEnds("ok") \/ StartEnds("trapped")
  <2>1. /\ cur' = Idle \/ cur' = [cur EXCEPT !.phase = "start", !.k = 1]
        /\ last' = Done(TRUE, TRUE)
    BY <1>6 DEF Finish, StartEnds, Step
  <2>2. cur \in [inst : Nat, phase : {"idle", "import", "elem", "data", "start"}, k : Nat]
    BY DEF TypeInv, Shapes
  <2>3. cur'.phase \in {"idle", "start"}
    <3>1. CASE cur' = Idle BY <3>1 DEF Idle
    <3>2. CASE cur' = [cur EXCEPT !.phase = "start", !.k = 1] BY <2>2, <3>2
    <3> QED BY <2>1, <3>1, <3>2
  <2>4. last'.at.phase \notin {"elem", "data"} BY <2>1 DEF Done, Idle
  <2> QED BY <2>3, <2>4, SnapAway
<1>7. ASSUME NEW name \in Names, NEW i \in DOMAIN insts, Register(name, i) PROVE SnapInv'
  <2>1. cur' = Idle /\ last' = Done(TRUE, TRUE) BY <1>7 DEF Register
  <2> QED BY <2>1, SnapAway DEF Done, Idle
<1>8. ASSUME NEW i \in DOMAIN insts, Free(i) PROVE SnapInv'
  <2>1. cur' = Idle /\ last' = Done(TRUE, TRUE) BY <1>8 DEF Free
  <2> QED BY <2>1, SnapAway DEF Done, Idle
<1>9. ASSUME NEW i \in Runs, Run(i) PROVE SnapInv' BY <1>9, SnapRun
<1>10. CASE UNCHANGED vars
  <2>1. UNCHANGED <<insts, mems, cells, cur, want, snap, last>> BY <1>10 DEF vars
  <2>2. ASSUME NEW i, NEW w
        PROVE  ElemWrites(i, w)' = ElemWrites(i, w) /\ DataWrites(i, w)' = DataWrites(i, w)
    BY <2>1 DEF ElemWrites, DataWrites
  <2>3. SnapCur' BY <2>1, <2>2 DEF SnapInv, SnapCur, Older, Untouched, Wrote, I
  <2>4. SnapLast' BY <2>1, <2>2 DEF SnapInv, SnapLast, Older, Wrote
  <2> QED BY <2>3, <2>4 DEF SnapInv
<1> QED BY <1>1, <1>2, <1>3, <1>4, <1>5, <1>6, <1>7, <1>8, <1>9, <1>10 DEF Next

\* Then also an instantiation that fails at a segment leaves in the tables and
\* memories of older instances exactly what the segments before it wrote, each
\* place as the last segment that covers it wrote it, and nothing of the failing
\* one: the range is tested before the first item is stored, nothing is rolled
\* back, and all element segments come before the first data segment
\* (runtime.c:590-644).
THEOREM PrefixStays == Plain => (Spec => []PrefixPersists)
<1> SUFFICES ASSUME Plain PROVE Spec => []PrefixPersists OBVIOUS
<1>1. Spec => [](TypeInv /\ RefInv /\ ApartInv /\ ExactInv /\ OutcomeExact) BY ExactAlways
<1>2. Init => SnapInv BY SnapInit
<1>3. /\ TypeInv /\ RefInv /\ ApartInv /\ ExactInv /\ OutcomeExact
      /\ (TypeInv /\ RefInv /\ ApartInv /\ ExactInv /\ OutcomeExact)'
      /\ SnapInv /\ [Next]_vars
      => SnapInv'
  BY SnapStep
<1>4. TypeInv /\ ExactInv /\ SnapInv => PrefixPersists BY SnapGives
<1> QED BY <1>1, <1>2, <1>3, <1>4, PTL DEF Spec
=============================================================================
