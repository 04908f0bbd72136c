------------------------- MODULE LinkingLifeProofs -------------------------
(***************************************************************************)
(* What instances share while some of them are freed: memories stay mapped *)
(* and within their reservations, and no freed instance can be called.     *)
(***************************************************************************)
EXTENDS LinkingProofs

\* The instances on the store's list.
Listed == {named[k][2] : k \in 1 .. Len(named)}

\* A step after which every instance has its module, its memories and its
\* functions, none has been freed, and the registered ones still are.
Steady ==
  /\ DOMAIN insts' = DOMAIN insts
  /\ \A i \in DOMAIN insts :
       /\ insts'[i].mod = insts[i].mod /\ insts'[i].mems = insts[i].mems
       /\ insts'[i].funcs = insts[i].funcs
       /\ insts'[i].out = "freed" <=> insts[i].out = "freed"
  /\ \A i \in DOMAIN insts : i \in Listed => i \in Listed'

\* A step that leaves instances and names alone frees and lists nothing.
LEMMA SameSteady ==
  ASSUME TypeInv, UNCHANGED <<insts, named>>
  PROVE  Steady /\ Kept
  BY KeptSame DEF Steady, Listed

\* Nor does one that only ends an instantiation.
LEMMA OutSteady ==
  ASSUME TypeInv, NEW i \in DOMAIN insts, insts[i].out # "freed",
         NEW how \in Outs \ {"freed"}, insts' = [insts EXCEPT ![i].out = how], UNCHANGED named
  PROVE  Steady /\ Kept
<1>1. /\ Kept /\ DOMAIN insts' = DOMAIN insts /\ insts'[i].out = how
      /\ \A j \in DOMAIN insts : j # i => insts'[j] = insts[j] BY OutSet
<1>2. \A j \in DOMAIN insts :
        /\ insts'[j].mod = insts[j].mod /\ insts'[j].mems = insts[j].mems
        /\ insts'[j].funcs = insts[j].funcs
  BY <1>1 DEF Kept
<1>3. \A j \in DOMAIN insts : insts'[j].out = "freed" <=> insts[j].out = "freed" BY <1>1
<1>4. \A j \in DOMAIN insts : j \in Listed => j \in Listed' BY DEF Listed
<1> QED BY <1>1, <1>2, <1>3, <1>4 DEF Steady

\* What an active element segment leaves alone.
LEMMA ElemQuiet ==
  ASSUME TypeInv, Elem
  PROVE  Steady /\ Kept /\ UNCHANGED <<mems, ecache, named>>
<1>1. cur.phase = "elem" /\ cur.phase # "idle" /\ UNCHANGED <<mems, named, ecache>> BY DEF Elem
<1>2. I \in DOMAIN insts /\ insts[I].out = "building" BY <1>1, CurIs
<1>3. \/ UNCHANGED insts
      \/ insts' = [insts EXCEPT ![I].elem_alive[cur.k] = TRUE]
      \/ insts' = [insts EXCEPT ![I].out = "uninstantiable"]
  BY DEF Elem, Abandon
<1>4. CASE UNCHANGED insts BY <1>1, <1>4, SameSteady
<1>5. CASE insts' = [insts EXCEPT ![I].elem_alive[cur.k] = TRUE]
  <2>1. Kept /\ \A j \in DOMAIN insts : insts'[j].out = insts[j].out BY <1>2, <1>5, ElemAliveSet
  <2>2. DOMAIN insts' = DOMAIN insts BY <2>1, KeptParts
  <2> QED BY <1>1, <2>1, <2>2 DEF Steady, Kept, Listed
<1>6. CASE insts' = [insts EXCEPT ![I].out = "uninstantiable"]
  BY <1>1, <1>2, <1>6, OutSteady DEF Outs
<1> QED BY <1>1, <1>3, <1>4, <1>5, <1>6

\* What an active data segment leaves alone.
LEMMA DataQuiet ==
  ASSUME TypeInv, Data
  PROVE  Steady /\ Kept /\ UNCHANGED <<blocks, ecache, named>>
<1> DEFINE k == IF cur.phase = "elem" THEN 1 ELSE cur.k
<1>1. cur.phase # "idle" /\ UNCHANGED <<blocks, named, ecache>> BY DEF Data
<1>2. I \in DOMAIN insts /\ insts[I].out = "building" BY <1>1, CurIs
<1>3. \/ UNCHANGED insts
      \/ insts' = [insts EXCEPT ![I].data_alive[k] = TRUE]
      \/ insts' = [insts EXCEPT ![I].out = "uninstantiable"]
  BY DEF Data
<1> HIDE DEF k
<1>4. CASE UNCHANGED insts BY <1>1, <1>4, SameSteady
<1>5. CASE insts' = [insts EXCEPT ![I].data_alive[k] = TRUE]
  <2>1. Kept /\ \A j \in DOMAIN insts : insts'[j].out = insts[j].out BY <1>2, <1>5, DataAliveSet
  <2>2. DOMAIN insts' = DOMAIN insts BY <2>1, KeptParts
  <2> QED BY <1>1, <2>1, <2>2 DEF Steady, Kept, Listed
<1>6. CASE insts' = [insts EXCEPT ![I].out = "uninstantiable"]
  BY <1>1, <1>2, <1>6, OutSteady DEF Outs
<1> QED BY <1>1, <1>3, <1>4, <1>5, <1>6

\* What the end of an instantiation leaves alone.
LEMMA FinishQuiet ==
  ASSUME TypeInv, Finish \/ StartEnds("ok") \/ StartEnds("trapped")
  PROVE  Steady /\ Kept /\ UNCHANGED <<blocks, mems, ecache, named>>
<1>1. cur.phase # "idle" /\ UNCHANGED <<blocks, mems, named, ecache>>
  BY DEF Finish, SegmentsDone, StartEnds
<1>2. I \in DOMAIN insts /\ insts[I].out = "building" BY <1>1, CurIs
<1>3. \/ UNCHANGED insts
      \/ insts' = [insts EXCEPT ![I].out = "ok"]
      \/ insts' = [insts EXCEPT ![I].out = "trapped"]
  BY DEF Finish, StartEnds
<1>4. CASE UNCHANGED insts BY <1>1, <1>4, SameSteady
<1>5. ASSUME NEW how \in {"ok", "trapped"}, insts' = [insts EXCEPT ![I].out = how]
      PROVE  Steady /\ Kept
  BY <1>1, <1>2, <1>5, OutSteady DEF Outs
<1> QED BY <1>1, <1>3, <1>4, <1>5

\* What a registration leaves alone: a name only adds to the store's list.
LEMMA RegisterQuiet ==
  ASSUME TypeInv, NEW name, name \in Names, NEW i, i \in DOMAIN insts, Register(name, i)
  PROVE  Steady /\ Kept /\ UNCHANGED <<insts, blocks, mems, ecache>>
<1> DEFINE e == <<name, i>>
<1>1. /\ named' = Append(named, e) /\ UNCHANGED <<insts, blocks, mems, ecache>> BY DEF Register
<1>2. e \in Names \X Nat BY InstsAre
<1>3. named \in Seq(Names \X Nat) BY DEF TypeInv, Shapes
<1> HIDE DEF e
<1>4. /\ Len(named') = Len(named) + 1 /\ Len(named) \in Nat
      /\ \A j \in 1 .. Len(named) : named'[j] = named[j] BY <1>1, <1>2, <1>3, Appended
<1>5. \A j \in DOMAIN insts : j \in Listed => j \in Listed'
  <2> SUFFICES ASSUME NEW j \in DOMAIN insts, NEW l \in 1 .. Len(named), named[l][2] = j
               PROVE  \E m \in 1 .. Len(named') : named'[m][2] = j
    BY DEF Listed
  <2>1. l \in 1 .. Len(named') /\ named'[l] = named[l] BY <1>4
  <2> QED BY <2>1
<1> QED BY <1>1, <1>5, KeptSame DEF Steady

----------------------------------------------------------------------------
(* Memories.                                                               *)

\* Every memory a module defines fits the reservation behind which the next
\* one may lie: true of all 32-bit memories, whose limit is 4 GiB.
WithinReserve ==
  /\ PageLimit <= Reserve
  /\ \A m \in DOMAIN Mods : \A k \in DOMAIN Mods[m].mems :
       Mods[m].mems[k].min <= Reserve /\ Mods[m].mems[k].max <= Reserve

MemsReserved == \A a \in DOMAIN mems : mems[a].pages <= Reserve /\ mems[a].max <= Reserve

\* Only instances whose exports can be imported have their memories shared.
MemsOwned ==
  \A i, j \in DOMAIN insts : \A k \in DOMAIN insts[i].mems, l \in DOMAIN insts[j].mems :
    i # j /\ k > ImportedMems(insts[i].mod) /\ insts[i].mems[k] = insts[j].mems[l]
      => i \in Listed

MemsMapped ==
  \A i \in DOMAIN insts : insts[i].out # "freed" =>
    \A k \in DOMAIN insts[i].mems : mems[insts[i].mems[k]].live

MemInv == MemsReserved /\ MemsOwned /\ MemsMapped

\* The empty store has no memory.
LEMMA MemInvInit ==
  ASSUME Init PROVE MemInv
  BY DEF Init, MemInv, MemsReserved, MemsOwned, MemsMapped

\* The invariant implies the property the run checks.
LEMMA MemInvGives ==
  ASSUME TypeInv, MemInv PROVE GuardsIntact
<1>1. \A a \in DOMAIN mems : mems[a] \in MemT BY BlocksAre
<1>2. DOMAIN mems = 1 .. Len(mems) /\ Len(mems) \in Nat /\ Reserve \in Nat
  BY BlocksAre, LinkingBounds
<1>3. ASSUME NEW a \in 2 .. Len(mems) PROVE mems[a].pages <= Reserve + mems[a - 1].pages
  <2>1. a \in DOMAIN mems /\ a - 1 \in DOMAIN mems BY <1>2
  <2>2. mems[a].pages \in Nat /\ mems[a - 1].pages \in Nat BY <1>1, <2>1 DEF MemT
  <2>3. mems[a].pages <= Reserve BY <2>1 DEF MemInv, MemsReserved
  <2> QED BY <1>2, <2>2, <2>3
<1>4. ASSUME NEW i \in Held, NEW k \in DOMAIN insts[i].mems PROVE mems[insts[i].mems[k]].live
  <2>1. i \in DOMAIN insts /\ (insts[i].out \in {"ok", "trapped"} \/ i = I) BY DEF Held
  <2>2. insts[i].out # "freed"
    <3>1. CASE i = I
      <4>1. cur # Idle BY <2>1, <3>1, InstsAre DEF Idle, I
      <4>2. insts[i].out = "building" BY <4>1, <3>1 DEF TypeInv, Phase, I
      <4> QED BY <4>2
    <3> QED BY <2>1, <3>1
  <2> QED BY <2>1, <2>2 DEF MemInv, MemsMapped
<1> QED BY <1>3, <1>4 DEF GuardsIntact

\* A step that maps, unmaps and grows nothing keeps the invariant.
LEMMA MemFrame ==
  ASSUME TypeInv, MemInv, Steady, DOMAIN mems' = DOMAIN mems,
         \A a \in DOMAIN mems :
           /\ mems'[a].live <=> mems[a].live
           /\ mems'[a].pages <= Reserve /\ mems'[a].max <= Reserve
  PROVE  MemInv'
<1>1. MemsReserved' BY DEF MemsReserved
<1>2. MemsOwned'
  <2> SUFFICES ASSUME NEW i \in DOMAIN insts, NEW j \in DOMAIN insts,
                      NEW k \in DOMAIN insts'[i].mems, NEW l \in DOMAIN insts'[j].mems,
                      i # j, k > ImportedMems(insts'[i].mod), insts'[i].mems[k] = insts'[j].mems[l]
               PROVE  i \in Listed'
    BY DEF MemsOwned, Steady
  <2>1. insts'[i].mems = insts[i].mems /\ insts'[j].mems = insts[j].mems /\ insts'[i].mod = insts[i].mod
    BY DEF Steady
  <2>2. i \in Listed BY <2>1 DEF MemInv, MemsOwned
  <2> QED BY <2>2 DEF Steady
<1>3. MemsMapped'
  <2>1. \A i \in DOMAIN insts : \A k \in DOMAIN insts[i].mems : insts[i].mems[k] \in DOMAIN mems
    BY DEF TypeInv, Leads
  <2> QED BY <2>1 DEF MemInv, MemsMapped, Steady
<1> QED BY <1>1, <1>2, <1>3 DEF MemInv

\* So does one that leaves the memories alone.
LEMMA MemSame ==
  ASSUME TypeInv, MemInv, Steady, UNCHANGED mems
  PROVE  MemInv'
  BY MemFrame DEF MemInv, MemsReserved

\* The size table.grow computes is a number.
LEMMA GrowToNat ==
  ASSUME TypeInv, NEW i, i \in DOMAIN insts, NEW k, k \in DOMAIN insts[i].tabs,
         NEW delta, delta \in Nat
  PROVE  GrowTo(insts[i].tabs[k], delta) \in Nat
<1> DEFINE s == insts[i].tabs[k].size + delta
<1>1. insts[i].tabs[k] \in TableT BY BlocksAre
<1>2. s \in Nat /\ GrowTo(insts[i].tabs[k], delta) = s % M64 BY <1>1 DEF TableT, GrowTo, U64
<1>3. M64 \in Nat /\ M64 > 0 BY TableWidths
<1> HIDE DEF s
<1> QED BY <1>2, <1>3

\* Data segments change bytes, not pages.
LEMMA DataMems ==
  ASSUME TypeInv, Data
  PROVE  /\ DOMAIN mems' = DOMAIN mems
         /\ \A a \in DOMAIN mems :
              /\ mems'[a].live <=> mems[a].live
              /\ mems'[a].pages = mems[a].pages /\ mems'[a].max = mems[a].max
<1> DEFINE k == IF cur.phase = "elem" THEN 1 ELSE cur.k
           d == D.datas[k]
           b == insts[I].mems[d.mem]
           bs == Stored(mems[b].bytes, Eval(insts[I].globs, cells, d.off) % N32, Repeat(<<I, k>>, d.len))
<1>1. UNCHANGED mems \/ mems' = [mems EXCEPT ![b].bytes = bs] BY DEF Data
<1> HIDE DEF b, bs
<1>2. CASE mems' = [mems EXCEPT ![b].bytes = bs]
  <2>1. DOMAIN mems' = DOMAIN mems BY <1>2
  <2>2. \A a \in DOMAIN mems : mems'[a] = mems[a] \/ mems'[a] = [mems[a] EXCEPT !.bytes = bs]
    BY <1>2
  <2>3. \A a \in DOMAIN mems : mems[a] \in MemT BY BlocksAre
  <2> QED BY <2>1, <2>2, <2>3 DEF MemT
<1> QED BY <1>1, <1>2

\* memory.grow stays at or below the maximum of the memory.
LEMMA MemoryGrowMems ==
  ASSUME TypeInv, NEW i \in DOMAIN insts, NEW k \in DOMAIN insts[i].mems,
         NEW delta \in Deltas, MemoryGrow(i, k, delta)
  PROVE  /\ DOMAIN mems' = DOMAIN mems
         /\ \A a \in DOMAIN mems :
              /\ mems'[a].live <=> mems[a].live
              /\ mems'[a].max = mems[a].max
              /\ mems'[a].pages = mems[a].pages \/ mems'[a].pages <= mems[a].max
<1> DEFINE b == insts[i].mems[k]
           bs == mems[b].bytes \o Repeat(Null, delta * Page)
           p == mems[b].pages + delta
           m == [mems[b] EXCEPT !.pages = p, !.bytes = bs]
<1>1. mems' = [mems EXCEPT ![b] = m] BY DEF MemoryGrow, Grown
<1>2. p <= mems[b].max BY DEF MemoryGrow, MemFits
<1>3. b \in DOMAIN mems BY DEF TypeInv, Leads
<1> HIDE DEF b
<1>4. mems[b] \in MemT BY <1>3, BlocksAre
<1>5. m.pages = p /\ m.max = mems[b].max /\ m.live = mems[b].live
  <2> HIDE DEF p, bs
  <2> QED BY <1>4 DEF MemT
<1> HIDE DEF m, p
<1>6. DOMAIN mems' = DOMAIN mems /\ mems'[b] = m /\ \A a \in DOMAIN mems : a # b => mems'[a] = mems[a]
  BY <1>1, <1>3
<1> QED BY <1>2, <1>3, <1>5, <1>6

\* The instructions: which change the memories, and that they keep every
\* instance's memories and functions.
LEMMA RunQuiet ==
  ASSUME TypeInv, RefInv, NEW i \in Runs, Run(i)
  PROVE  /\ Steady /\ UNCHANGED <<named, ecache>>
         /\ \/ UNCHANGED mems
            \/ \E k \in DOMAIN insts[i].mems, delta \in Deltas : MemoryGrow(i, k, delta)
<1>1. i \in DOMAIN insts /\ insts[i].jit_mem0 BY RunIs
<1>2. CASE \E k \in DOMAIN insts[i].mems, delta \in Deltas : MemoryGrow(i, k, delta)
  <2>1. UNCHANGED <<insts, named, ecache>> BY <1>2 DEF MemoryGrow
  <2> QED BY <1>2, <2>1, SameSteady
<1>3. CASE \E g \in DOMAIN insts[i].elem_alive : ElemDrop(i, g)
  <2>1. PICK g : ElemDrop(i, g) BY <1>3
  <2>2. insts' = [insts EXCEPT ![i].elem_alive[g] = FALSE] /\ UNCHANGED <<mems, named, ecache>>
    BY <2>1 DEF ElemDrop
  <2>3. Kept /\ \A j \in DOMAIN insts : insts'[j].out = insts[j].out BY <1>1, <2>2, ElemAliveSet
  <2>4. DOMAIN insts' = DOMAIN insts BY <2>3, KeptParts
  <2> QED BY <2>2, <2>3, <2>4 DEF Steady, Kept, Listed
<1>4. CASE \E k \in DOMAIN insts[i].tabs, delta \in Nat, r \in Refs(i) : TableGrow(i, k, delta, r)
  <2>1. PICK k \in DOMAIN insts[i].tabs, delta \in Nat, r \in Refs(i) : TableGrow(i, k, delta, r)
    BY <1>4
  <2>2. UNCHANGED <<mems, named, ecache>> BY <2>1 DEF TableGrow
  <2>3. CASE UNCHANGED insts BY <2>2, <2>3, SameSteady
  <2>4. CASE CanGrow(insts[i].tabs[k], delta)
    <3>1. GrowTo(insts[i].tabs[k], delta) \in Nat BY <1>1, GrowToNat
    <3>2. PICK u \in TableT : TabSet(insts, insts', i, k, u)
      <4> DEFINE t == insts[i].tabs[k]
      <4>1. t = insts[i].tabs[k] OBVIOUS
      <4>2. CanGrow(t, delta) /\ GrowTo(t, delta) \in Nat BY <2>4, <3>1
      <4> HIDE DEF t
      <4>3. GrowsTable(i, k, GrowTo(t, delta),
              [x \in 1 .. GrowTo(t, delta) |-> IF x <= t.size THEN View(t)[x] ELSE r])
        BY <1>1, <2>1, <4>1, <4>2, GrowIs
      <4> QED BY <4>3 DEF GrowsTable
    <3>3. DOMAIN insts' = DOMAIN insts /\ \A j \in DOMAIN insts :
            /\ insts'[j].mod = insts[j].mod /\ insts'[j].mems = insts[j].mems
            /\ insts'[j].funcs = insts[j].funcs /\ insts'[j].out = insts[j].out
      BY <3>2 DEF TabSet
    <3> QED BY <2>2, <3>3 DEF Steady, Listed
  <2>5. ~ CanGrow(insts[i].tabs[k], delta) => UNCHANGED insts BY <2>1 DEF TableGrow
  <2> QED BY <2>2, <2>3, <2>4, <2>5
<1>5. CASE UNCHANGED <<insts, named, ecache, mems>> BY <1>5, SameSteady
<1>6. ASSUME NEW k, NEW x, NEW e, NEW ty, TableGet(i, k, x) \/ CallIndirect(e, i, k, x, ty)
      PROVE  UNCHANGED <<insts, named, ecache, mems>>
  BY <1>6 DEF TableGet, CallIndirect
<1>7. ASSUME NEW k, NEW x, NEW r, TableSet(i, k, x, r)
      PROVE  UNCHANGED <<insts, named, ecache, mems>>
  BY <1>7 DEF TableSet, Update
<1>8. ASSUME NEW k, NEW x, NEW n, NEW r, NEW e, TableFill(e, i, k, x, n, r)
      PROVE  UNCHANGED <<insts, named, ecache, mems>>
  BY <1>8 DEF TableFill, Update
<1>9. ASSUME NEW k, NEW j, NEW d, NEW s, NEW n, NEW e, TableCopy(e, i, k, j, d, s, n)
      PROVE  UNCHANGED <<insts, named, ecache, mems>>
  BY <1>9 DEF TableCopy, Update
<1>10. ASSUME NEW k, NEW g, NEW d, NEW s, NEW n, NEW e, TableInit(e, i, k, g, d, s, n)
      PROVE  UNCHANGED <<insts, named, ecache, mems>>
  BY <1>10 DEF TableInit, Update
<1>11. \/ \E k \in DOMAIN insts[i].mems, delta \in Deltas : MemoryGrow(i, k, delta)
       \/ \E g \in DOMAIN insts[i].elem_alive : ElemDrop(i, g)
       \/ \E k \in DOMAIN insts[i].tabs, delta \in Nat, r \in Refs(i) : TableGrow(i, k, delta, r)
       \/ UNCHANGED <<insts, named, ecache, mems>>
  BY <1>6, <1>7, <1>8, <1>9, <1>10, RunIs
<1> QED BY <1>2, <1>3, <1>4, <1>5, <1>11

\* Every instruction.
LEMMA MemRun ==
  ASSUME TypeInv, RefInv, MemInv, NEW i \in Runs, Run(i)
  PROVE  MemInv'
<1>1. Steady BY RunQuiet
<1>2. CASE UNCHANGED mems BY <1>1, <1>2, MemSame
<1>3. CASE \E k \in DOMAIN insts[i].mems, delta \in Deltas : MemoryGrow(i, k, delta)
  <2>1. PICK k \in DOMAIN insts[i].mems, delta \in Deltas : MemoryGrow(i, k, delta) BY <1>3
  <2>2. i \in DOMAIN insts BY RunIs
  <2>3. /\ DOMAIN mems' = DOMAIN mems
        /\ \A a \in DOMAIN mems :
              /\ mems'[a].live <=> mems[a].live
              /\ mems'[a].max = mems[a].max
              /\ mems'[a].pages = mems[a].pages \/ mems'[a].pages <= mems[a].max
    BY <2>1, <2>2, MemoryGrowMems
  <2>4. \A a \in DOMAIN mems : mems'[a].pages <= Reserve /\ mems'[a].max <= Reserve
    <3> TAKE a \in DOMAIN mems
    <3>1. mems[a].pages <= Reserve /\ mems[a].max <= Reserve BY DEF MemInv, MemsReserved
    <3>2. CASE mems'[a].pages = mems[a].pages BY <3>1, <3>2, <2>3
    <3>3. CASE mems'[a].pages <= mems[a].max
      <4>1. mems[a] \in MemT /\ Reserve \in Nat BY BlocksAre, LinkingBounds
      <4>2. i \in DOMAIN insts /\ TypeInv' BY <2>2, RunStep
      <4>3. a \in DOMAIN mems' BY <2>3
      <4>4. mems'[a].pages \in Nat
        <5>1. mems' \in Seq(MemT) BY <4>2 DEF TypeInv, Shapes
        <5>2. mems'[a] \in MemT BY <4>3, <5>1, LenProperties, ElementOfSeq
        <5> QED BY <5>2 DEF MemT
      <4>5. mems[a].max \in Nat BY <4>1 DEF MemT
      <4> QED BY <3>1, <3>3, <2>3, <4>1, <4>4, <4>5
    <3> QED BY <3>2, <3>3, <2>3
  <2> QED BY <1>1, <2>3, <2>4, MemFrame
<1> QED BY <1>2, <1>3, RunQuiet

\* A new instance uses no memory.
LEMMA MemBegin ==
  ASSUME TypeInv, MemInv, NEW m \in DOMAIN Mods, Begin(m)
  PROVE  MemInv'
<1> DEFINE x == Fresh(m) n == Len(insts)
<1>1. x.mems = <<>> /\ x.mod = m BY DEF Fresh
<1>2. insts' = Append(insts, x) /\ insts \in Seq(InstT) /\ n \in Nat /\ UNCHANGED <<mems, named>>
  BY InstsAre DEF Begin, TypeInv, Shapes
<1>3. x \in InstT
  <2>1. x.elem_alive \in [DOMAIN Mods[m].elems -> BOOLEAN] BY DEF Fresh
  <2>2. x.data_alive \in [DOMAIN Mods[m].datas -> BOOLEAN] BY DEF Fresh
  <2> QED BY <2>1, <2>2 DEF Fresh, InstT, Outs
<1>m. DOMAIN x.mems = {} BY <1>1
<1> HIDE DEF x
<1>4. /\ DOMAIN insts' = 1 .. n + 1 /\ DOMAIN insts = 1 .. n
      /\ \A j \in 1 .. n : insts'[j] = insts[j]
      /\ insts'[n + 1] = x BY <1>2, <1>3, Appended
<1> HIDE DEF n
<1>5. \A j \in DOMAIN insts' :
        (j \in DOMAIN insts /\ insts'[j] = insts[j]) \/ DOMAIN insts'[j].mems = {}
  BY <1>2, <1>4, <1>m
<1>6. MemsReserved' BY <1>2 DEF MemInv, MemsReserved
<1>7. MemsOwned'
  <2>1. \A i \in DOMAIN insts : i \in Listed => i \in Listed' BY <1>2 DEF Listed
  <2> SUFFICES ASSUME NEW i \in DOMAIN insts', NEW j \in DOMAIN insts',
                      NEW k \in DOMAIN insts'[i].mems, NEW l \in DOMAIN insts'[j].mems,
                      i # j, k > ImportedMems(insts'[i].mod), insts'[i].mems[k] = insts'[j].mems[l]
               PROVE  i \in Listed'
    BY DEF MemsOwned
  <2>2. i \in DOMAIN insts /\ insts'[i] = insts[i] /\ j \in DOMAIN insts /\ insts'[j] = insts[j]
    BY <1>5
  <2> QED BY <2>1, <2>2 DEF MemInv, MemsOwned
<1>8. MemsMapped' BY <1>2, <1>5 DEF MemInv, MemsMapped
<1> QED BY <1>6, <1>7, <1>8 DEF MemInv

\* An instance that is still importing owns no memory.
LEMMA ImportsOnly ==
  ASSUME NEW X, X \in InstT, Has(X, "memory") <= Imported(X.mod, "memory"),
         NEW k, k \in DOMAIN X.mems
  PROVE  ~ (k > ImportedMems(X.mod))
<1>1. X.mod \in DOMAIN Mods /\ X.mems \in Seq(Nat) BY DEF InstT
<1>2. DOMAIN X.mems = 1 .. Len(X.mems) /\ Len(X.mems) \in Nat BY <1>1, LenProperties
<1>3. Has(X, "memory") = Len(X.mems) BY DEF Has
<1>4. Imported(X.mod, "memory") \in Nat BY <1>1, SpaceNat DEF Kinds
<1> QED BY <1>2, <1>3, <1>4 DEF ImportedMems

\* An imported memory is that of an instance on the store's list.
LEMMA MemImport ==
  ASSUME TypeInv, MemInv, Import
  PROVE  MemInv'
<1>0. cur.phase = "import" /\ cur.phase # "idle" /\ UNCHANGED <<mems, named>> BY ImportIs
<1>1. I \in DOMAIN insts /\ insts[I].out = "building" BY <1>0, CurIs
<1>2. CASE insts' = [insts EXCEPT ![I].out = "unlinkable"]
  <2>1. Steady BY <1>0, <1>1, <1>2, OutSteady DEF Outs
  <2> QED BY <1>0, <2>1, MemSame
<1>3. ASSUME NEW s \in DOMAIN insts, ImportsFrom(s) PROVE MemInv'
  <2>1. /\ DOMAIN insts' = DOMAIN insts /\ insts[s].out = "ok" /\ s \in Listed
        /\ \A j \in DOMAIN insts : insts'[j].mod = insts[j].mod /\ insts'[j].out = insts[j].out
        /\ insts'[I].jit_mem0 = insts[I].jit_mem0 /\ \A j \in DOMAIN insts : j # I => insts'[j] = insts[j]
    BY <1>3 DEF ImportsFrom, Listed
  <2>2. \A i \in DOMAIN insts : i \in Listed => i \in Listed' BY <1>0 DEF Listed
  <2>3. \A k \in DOMAIN insts'[I].mems :
          \/ k \in DOMAIN insts[I].mems /\ insts'[I].mems[k] = insts[I].mems[k]
          \/ \E l \in DOMAIN insts[s].mems : insts'[I].mems[k] = insts[s].mems[l]
    BY <1>3 DEF ImportsFrom
  <2>4. \A k \in DOMAIN insts'[I].mems : ~ (k > ImportedMems(insts'[I].mod))
    <3>1. TypeInv' BY ImportType
    <3>2. ~ insts[I].jit_mem0
      <4>1. cur # Idle BY <1>0, CurIs
      <4> QED BY <1>0, <4>1 DEF TypeInv, Phase, I
    <3>3. ~ insts'[I].jit_mem0 /\ I \in DOMAIN insts' BY <2>1, <3>2, <1>1
    <3>4. insts' \in Seq(InstT) /\ Sized' BY <3>1 DEF TypeInv, Shapes
    <3>5. insts'[I] \in InstT BY <3>3, <3>4, LenProperties, ElementOfSeq
    <3>6. Has(insts'[I], "memory") <= Imported(insts'[I].mod, "memory")
      BY <3>3, <3>4 DEF Sized, Kinds
    <3> QED BY <3>5, <3>6, ImportsOnly
  <2>5. MemsReserved' BY <1>0 DEF MemInv, MemsReserved
  <2>6. MemsOwned'
    <3> SUFFICES ASSUME NEW i \in DOMAIN insts, NEW j \in DOMAIN insts,
                        NEW k \in DOMAIN insts'[i].mems, NEW l \in DOMAIN insts'[j].mems,
                        i # j, k > ImportedMems(insts'[i].mod),
                        insts'[i].mems[k] = insts'[j].mems[l]
                 PROVE  i \in Listed'
      BY <2>1 DEF MemsOwned
    <3>1. i # I BY <2>4
    <3>2. insts'[i] = insts[i] BY <2>1, <3>1
    <3>3. CASE j # I \/ (l \in DOMAIN insts[j].mems /\ insts'[j].mems[l] = insts[j].mems[l])
      <4>1. l \in DOMAIN insts[j].mems /\ insts'[j].mems[l] = insts[j].mems[l] BY <2>1, <3>3
      <4>2. i \in Listed BY <3>2, <4>1 DEF MemInv, MemsOwned
      <4> QED BY <2>2, <4>2
    <3>4. CASE \E z \in DOMAIN insts[s].mems : insts'[j].mems[l] = insts[s].mems[z]
      <4>1. PICK z \in DOMAIN insts[s].mems : insts'[j].mems[l] = insts[s].mems[z] BY <3>4
      <4>2. CASE i = s BY <4>2, <2>1, <2>2
      <4>3. CASE i # s
        <5>1. i \in Listed BY <4>1, <4>3, <3>2 DEF MemInv, MemsOwned
        <5> QED BY <5>1, <2>2
      <4> QED BY <4>2, <4>3
    <3> QED BY <3>3, <3>4, <2>3
  <2>7. MemsMapped'
    <3> SUFFICES ASSUME NEW i \in DOMAIN insts, insts[i].out # "freed",
                        NEW k \in DOMAIN insts'[i].mems
                 PROVE  mems[insts'[i].mems[k]].live
      BY <1>0, <2>1 DEF MemsMapped
    <3>1. CASE i # I BY <3>1, <2>1 DEF MemInv, MemsMapped
    <3>2. CASE i = I
      <4>1. CASE k \in DOMAIN insts[I].mems /\ insts'[I].mems[k] = insts[I].mems[k]
        BY <4>1, <3>2 DEF MemInv, MemsMapped
      <4>2. CASE \E l \in DOMAIN insts[s].mems : insts'[I].mems[k] = insts[s].mems[l]
        BY <4>2, <3>2, <2>1 DEF MemInv, MemsMapped
      <4> QED BY <4>1, <4>2, <2>3, <3>2
    <3> QED BY <3>1, <3>2
  <2> QED BY <2>5, <2>6, <2>7 DEF MemInv
<1> QED BY <1>2, <1>3, ImportIs

\* A new memory has a reservation of its own.
LEMMA MemDefine ==
  ASSUME TypeInv, MemInv, WithinReserve, Define
  PROVE  MemInv'
<1>0. cur.phase = "import" /\ cur.phase # "idle" /\ cur.k > Len(D.imports) /\ UNCHANGED named
  BY DefinedIs
<1>1. /\ I \in DOMAIN insts /\ insts[I] \in InstT /\ insts[I].out = "building"
      /\ insts[I].mod \in DOMAIN Mods /\ D = Mods[insts[I].mod] BY <1>0, CurIs DEF D, InstT
<1>2. CASE insts' = [insts EXCEPT ![I].out = "uninstantiable"] /\ UNCHANGED mems
  <2>1. Steady BY <1>0, <1>1, <1>2, OutSteady DEF Outs
  <2> QED BY <1>2, <2>1, MemSame
<1>3. CASE DefinesOwn
  <2>1. /\ DOMAIN insts' = DOMAIN insts /\ mems' = mems \o NewMems
        /\ \A j \in DOMAIN insts : insts'[j].mod = insts[j].mod /\ insts'[j].out = insts[j].out
        /\ \A j \in DOMAIN insts : j # I => insts'[j] = insts[j]
    BY <1>3 DEF DefinesOwn
  <2>2. /\ DOMAIN mems' = 1 .. Len(mems) + Len(D.mems) /\ DOMAIN mems = 1 .. Len(mems)
        /\ Len(mems) \in Nat /\ Len(D.mems) \in Nat
        /\ \A a \in DOMAIN mems : mems'[a] = mems[a]
        /\ \A j \in 1 .. Len(D.mems) : mems'[Len(mems) + j] = NewMems[j]
    BY <1>0, <2>1, StoreGrows, BlocksAre, DefinesAre
  <2>3. \A i \in DOMAIN insts : i \in Listed => i \in Listed' BY <1>0 DEF Listed
  <2>4. \A k \in DOMAIN insts'[I].mems :
          \/ k \in DOMAIN insts[I].mems /\ insts'[I].mems[k] = insts[I].mems[k]
          \/ \E j \in 1 .. Len(D.mems) : insts'[I].mems[k] = Len(mems) + j
    BY <1>3 DEF DefinesOwn
  <2>5. \A j \in 1 .. Len(D.mems) :
          /\ NewMems[j].pages <= Reserve /\ NewMems[j].max <= Reserve /\ NewMems[j].live
    <3> TAKE j \in 1 .. Len(D.mems)
    <3>1. D.mems \in Seq({D.mems[x] : x \in DOMAIN D.mems})
      <4>1. Valid(insts[I].mod) BY <1>1, LinkingMods
      <4> QED BY <4>1, <1>1 DEF Valid
    <3>2. j \in DOMAIN D.mems BY <3>1, LenProperties
    <3>3. D.mems[j].min <= Reserve /\ D.mems[j].max <= Reserve /\ PageLimit <= Reserve
      BY <1>1, <3>2 DEF WithinReserve
    <3>4. NewMems[j] = NewMem(D.mems[j]) BY DEF NewMems
    <3>5. /\ NewMem(D.mems[j]).pages = D.mems[j].min /\ NewMem(D.mems[j]).live = TRUE
          /\ NewMem(D.mems[j]).max = IF D.mems[j].max # NoMax THEN D.mems[j].max ELSE PageLimit
      BY DEF NewMem
    <3> QED BY <3>3, <3>4, <3>5
  <2>6. \A i \in DOMAIN insts : \A k \in DOMAIN insts[i].mems : insts[i].mems[k] \in 1 .. Len(mems)
    BY <2>2 DEF TypeInv, Leads
  <2>7. MemsReserved'
    <3> SUFFICES ASSUME NEW a \in DOMAIN mems'
                 PROVE  mems'[a].pages <= Reserve /\ mems'[a].max <= Reserve
      BY DEF MemsReserved
    <3>1. CASE a \in DOMAIN mems BY <3>1, <2>2 DEF MemInv, MemsReserved
    <3>2. CASE a \notin DOMAIN mems
      <4>1. a - Len(mems) \in 1 .. Len(D.mems) /\ a = Len(mems) + (a - Len(mems)) BY <3>2, <2>2
      <4>2. mems'[a] = NewMems[a - Len(mems)] BY <4>1, <2>2
      <4> QED BY <4>1, <4>2, <2>5
    <3> QED BY <3>1, <3>2
  <2>8. MemsOwned'
    <3> SUFFICES ASSUME NEW i \in DOMAIN insts, NEW j \in DOMAIN insts,
                        NEW k \in DOMAIN insts'[i].mems, NEW l \in DOMAIN insts'[j].mems,
                        i # j, k > ImportedMems(insts'[i].mod),
                        insts'[i].mems[k] = insts'[j].mems[l]
                 PROVE  i \in Listed'
      BY <2>1 DEF MemsOwned
    <3>1. insts'[i].mod = insts[i].mod BY <2>1
    <3>2. CASE /\ k \in DOMAIN insts[i].mems /\ insts'[i].mems[k] = insts[i].mems[k]
               /\ l \in DOMAIN insts[j].mems /\ insts'[j].mems[l] = insts[j].mems[l]
      <4>1. i \in Listed BY <3>1, <3>2 DEF MemInv, MemsOwned
      <4> QED BY <4>1, <2>3
    <3>3. CASE i = I /\ \E x \in 1 .. Len(D.mems) : insts'[I].mems[k] = Len(mems) + x
      <4>1. insts'[j].mems[l] \in 1 .. Len(mems) BY <3>3, <2>1, <2>6
      <4> QED BY <4>1, <3>3, <2>2
    <3>4. CASE j = I /\ \E x \in 1 .. Len(D.mems) : insts'[I].mems[l] = Len(mems) + x
      <4>1. insts'[i].mems[k] \in 1 .. Len(mems) BY <3>4, <2>1, <2>6
      <4> QED BY <4>1, <3>4, <2>2
    <3> QED BY <3>2, <3>3, <3>4, <2>1, <2>4
  <2>9. MemsMapped'
    <3> SUFFICES ASSUME NEW i \in DOMAIN insts, insts[i].out # "freed",
                        NEW k \in DOMAIN insts'[i].mems
                 PROVE  mems'[insts'[i].mems[k]].live
      BY <2>1 DEF MemsMapped
    <3>1. CASE k \in DOMAIN insts[i].mems /\ insts'[i].mems[k] = insts[i].mems[k]
      <4>1. mems[insts[i].mems[k]].live BY <3>1 DEF MemInv, MemsMapped
      <4>2. insts[i].mems[k] \in DOMAIN mems BY <3>1, <2>2, <2>6
      <4> QED BY <3>1, <4>1, <4>2, <2>2
    <3>2. CASE \E j \in 1 .. Len(D.mems) : insts'[i].mems[k] = Len(mems) + j
      BY <3>2, <2>2, <2>5
    <3> QED BY <3>1, <3>2, <2>1, <2>4
  <2> QED BY <2>7, <2>8, <2>9 DEF MemInv
<1> QED BY <1>2, <1>3, DefinedIs

\* The memories that are unmapped are the freed instance's alone: it is not
\* registered.
LEMMA MemFree ==
  ASSUME TypeInv, MemInv, NEW i \in DOMAIN insts, Free(i)
  PROVE  MemInv'
<1>1. /\ insts' = [insts EXCEPT ![i].out = "freed"] /\ i \notin Listed /\ UNCHANGED named
  BY DEF Free, Listed
<1>2. /\ Kept /\ DOMAIN insts' = DOMAIN insts /\ insts'[i].out = "freed"
      /\ \A j \in DOMAIN insts : j # i => insts'[j] = insts[j]
  BY <1>1, OutSet DEF Outs
<1>3. /\ DOMAIN mems' = DOMAIN mems
      /\ \A a \in DOMAIN mems :
              /\ mems'[a].pages = mems[a].pages /\ mems'[a].max = mems[a].max
              /\ mems'[a].live <=>
                   /\ mems[a].live
                   /\ \A k \in DOMAIN insts[i].mems :
                        k > ImportedMems(insts[i].mod) => insts[i].mems[k] # a
  BY FreeIs
<1>4. \A j \in DOMAIN insts : insts'[j].mems = insts[j].mems /\ insts'[j].mod = insts[j].mod
  BY <1>2 DEF Kept
<1>5. \A j \in DOMAIN insts : j \in Listed => j \in Listed' BY <1>1 DEF Listed
<1>6. MemsReserved' BY <1>3 DEF MemInv, MemsReserved
<1>7. MemsOwned'
  <2> SUFFICES ASSUME NEW a \in DOMAIN insts, NEW j \in DOMAIN insts,
                      NEW k \in DOMAIN insts[a].mems, NEW l \in DOMAIN insts[j].mems,
                      a # j, k > ImportedMems(insts[a].mod), insts[a].mems[k] = insts[j].mems[l]
               PROVE  a \in Listed'
    BY <1>2, <1>4 DEF MemsOwned
  <2>1. a \in Listed BY DEF MemInv, MemsOwned
  <2> QED BY <2>1, <1>5
<1>8. MemsMapped'
  <2> SUFFICES ASSUME NEW j \in DOMAIN insts, insts'[j].out # "freed",
                      NEW l \in DOMAIN insts[j].mems
               PROVE  mems'[insts[j].mems[l]].live
    BY <1>2, <1>4 DEF MemsMapped
  <2>1. j # i /\ insts[j].out # "freed" BY <1>2
  <2>2. mems[insts[j].mems[l]].live BY <2>1 DEF MemInv, MemsMapped
  <2>3. insts[j].mems[l] \in DOMAIN mems BY DEF TypeInv, Leads
  <2>4. \A k \in DOMAIN insts[i].mems :
          k > ImportedMems(insts[i].mod) => insts[i].mems[k] # insts[j].mems[l]
    BY <1>1, <2>1 DEF MemInv, MemsOwned
  <2> QED BY <1>3, <2>2, <2>3, <2>4
<1> QED BY <1>6, <1>7, <1>8 DEF MemInv

\* Every step keeps the memories' invariant.
LEMMA MemStep ==
  ASSUME WithinReserve, TypeInv, RefInv, MemInv, [Next]_vars
  PROVE  MemInv'
<1>1. ASSUME NEW m \in DOMAIN Mods, Begin(m) PROVE MemInv' BY <1>1, MemBegin
<1>2. CASE Import BY <1>2, MemImport
<1>3. CASE Define BY <1>3, MemDefine
<1>4. CASE Elem BY <1>4, ElemQuiet, MemSame
<1>5. CASE Data
  <2>1. \A a \in DOMAIN mems : mems'[a].pages <= Reserve /\ mems'[a].max <= Reserve
    BY <1>5, DataMems DEF MemInv, MemsReserved
  <2> QED BY <1>5, <2>1, DataQuiet, DataMems, MemFrame
<1>6. CASE Finish \/ StartEnds("ok") \/ StartEnds("trapped") BY <1>6, FinishQuiet, MemSame
<1>7. ASSUME NEW n \in Names, NEW i \in DOMAIN insts, Register(n, i) PROVE MemInv'
  BY <1>7, RegisterQuiet, MemSame
<1>8. ASSUME NEW i \in DOMAIN insts, Free(i) PROVE MemInv' BY <1>8, MemFree
<1>9. ASSUME NEW i \in Runs, Run(i) PROVE MemInv' BY <1>9, MemRun
<1>10. CASE UNCHANGED vars
  <2>1. UNCHANGED <<insts, mems, named>> BY <1>10 DEF vars
  <2> QED BY <2>1, SameSteady, MemSame
<1> QED BY <1>1, <1>2, <1>3, <1>4, <1>5, <1>6, <1>7, <1>8, <1>9, <1>10 DEF Next

\* Where every memory is limited to its own reservation, the accessible pages
\* of no memory reach into the next reservation, and an instance's memories
\* are mapped for as long as the host holds the instance, whatever others it
\* frees: the guard pages compiled 32-bit accesses rely on are there
\* (runtime.c:218-221, 297, 305-330).
THEOREM GuardsStay == WithinReserve => (Spec => []GuardsIntact)
<1> SUFFICES ASSUME WithinReserve PROVE Spec => []GuardsIntact OBVIOUS
<1>1. Init => TypeInv /\ RefInv /\ MemInv BY TypeInit, RefInit, MemInvInit
<1>2. TypeInv /\ RefInv /\ MemInv /\ [Next]_vars => TypeInv' /\ RefInv' /\ MemInv'
  BY LinkingStep, MemStep
<1>3. TypeInv /\ RefInv /\ MemInv => GuardsIntact BY MemInvGives
<1> QED BY <1>1, <1>2, <1>3, PTL DEF Spec

----------------------------------------------------------------------------
(* Functions that tables make callable.                                    *)

\* The host frees only instances that had no table to leave a function in
\* but their own, and no segment of expressions, whose items outlive the
\* instance in the module's cache (runtime.c:563-577).
FreesApart ==
  \A m \in Frees :
    /\ \A k \in DOMAIN Mods[m].imports : Mods[m].imports[k].kind # "table"
    /\ \A g \in DOMAIN Mods[m].elems : ~ Mods[m].elems[g].expr

\* An instance that is, or may be, freed without anything else noticing.
Loose == {i \in DOMAIN insts : insts[i].mod \in Frees /\ i \notin Listed}

\* r belongs to none of the instances L, unless it is i's own
Apart(r, i, L) == r[1] \in L => r[1] = i

TabsOwned ==
  \A i, j \in DOMAIN insts : \A k \in DOMAIN insts[i].tabs, l \in DOMAIN insts[j].tabs :
    i \in Loose /\ insts[i].tabs[k].blk = insts[j].tabs[l].blk => i = j

FuncsHeld ==
  \A i \in DOMAIN insts : \A f \in DOMAIN insts[i].funcs :
    insts[i].funcs[f].inst = i \/ insts[i].funcs[f].inst \in Listed

RefsApart ==
  \A i \in DOMAIN insts : \A k \in DOMAIN insts[i].tabs :
    \A x \in DOMAIN blocks[insts[i].tabs[k].blk].els :
      Apart(blocks[insts[i].tabs[k].blk].els[x], i, Loose)

CacheApart ==
  \A m \in DOMAIN Mods : \A g \in DOMAIN Mods[m].elems : \A x \in DOMAIN ecache[m][g] :
    ecache[m][g][x][1] \notin Loose

FreedFrees == \A i \in DOMAIN insts : insts[i].out = "freed" => insts[i].mod \in Frees

ApartInv == TabsOwned /\ FuncsHeld /\ RefsApart /\ CacheApart /\ FreedFrees

\* The empty store has nothing to keep apart.
LEMMA ApartInit ==
  ASSUME Init PROVE ApartInv
  BY DEF Init, ApartInv, TabsOwned, FuncsHeld, RefsApart, CacheApart, FreedFrees

\* Whatever a table of an instance the host holds makes callable belongs to
\* an instance that has not been freed.
LEMMA ApartGives ==
  ASSUME TypeInv, RefInv, ApartInv PROVE LeakedCallable
<1> SUFFICES ASSUME NEW r \in Callable
             PROVE  insts[Callee(r)].jit_mem0 /\ insts[Callee(r)].out # "freed"
  BY DEF LeakedCallable
<1>1. /\ r[1] \in DOMAIN insts /\ r[2] \in DOMAIN insts[r[1]].funcs
      /\ Callee(r) \in DOMAIN insts /\ insts[Callee(r)].jit_mem0 BY RunsExist
<1>2. PICK i \in Held : r \in TableRefs(i) /\ r \notin {Null, Wild} BY DEF Callable
<1>3. i \in DOMAIN insts BY DEF Held
<1>4. PICK k \in DOMAIN insts[i].tabs : \E x \in 1 .. insts[i].tabs[k].size :
             r = View(insts[i].tabs[k])[x] BY <1>2 DEF TableRefs
<1>5. r[1] \in Loose => r[1] = i
  <2>1. PICK x \in 1 .. insts[i].tabs[k].size : r = View(insts[i].tabs[k])[x] BY <1>4
  <2>2. \E y \in DOMAIN blocks[insts[i].tabs[k].blk].els : r = blocks[insts[i].tabs[k].blk].els[y]
    BY <1>2, <1>3, <2>1, ViewIs
  <2>3. Apart(r, i, Loose) BY <1>3, <2>2 DEF ApartInv, RefsApart
  <2> QED BY <2>3 DEF Apart
<1>6. Callee(r) = r[1] \/ Callee(r) \in Listed BY <1>1 DEF ApartInv, FuncsHeld, Callee
<1>7. \A j \in DOMAIN insts : j \in Listed => insts[j].out = "ok"
  BY DEF TypeInv, Registered, Listed
<1>8. insts[i].out # "freed"
  <2>1. CASE i = I
    <3>1. cur # Idle BY <1>3, <2>1, InstsAre DEF Idle, I
    <3>2. insts[i].out = "building" BY <2>1, <3>1 DEF TypeInv, Phase, I
    <3> QED BY <3>2
  <2> QED BY <1>2, <2>1 DEF Held
<1>9. ASSUME insts[Callee(r)].out = "freed" PROVE FALSE
  <2>1. Callee(r) \notin Listed BY <1>1, <1>7, <1>9
  <2>2. Callee(r) = r[1] BY <1>6, <2>1
  <2>3. insts[r[1]].mod \in Frees BY <1>1, <1>9, <2>2 DEF ApartInv, FreedFrees
  <2>4. r[1] \in Loose BY <1>1, <2>1, <2>2, <2>3 DEF Loose
  <2> QED BY <1>5, <1>8, <1>9, <2>2, <2>4
<1> QED BY <1>1, <1>9

\* What a step stores is no reference to a loose instance but in its own
\* tables.
Home(r, b) == r[1] \in Loose => \E k \in DOMAIN insts[r[1]].tabs : insts[r[1]].tabs[k].blk = b

Puts ==
  \A b \in DOMAIN blocks : \A x \in DOMAIN blocks'[b].els :
    \/ x \in DOMAIN blocks[b].els /\ blocks'[b].els[x] = blocks[b].els[x]
    \/ Home(blocks'[b].els[x], b)

\* A step that leaves the arrays alone puts no reference anywhere.
LEMMA PutsNothing ==
  ASSUME TypeInv, UNCHANGED blocks PROVE Puts
  BY DEF Puts

\* A step that writes only references the table's holders may see keeps the invariant.
LEMMA ApartFrame ==
  ASSUME TypeInv, ApartInv, Kept, \A i \in DOMAIN insts : i \in Listed => i \in Listed',
         Puts, UNCHANGED ecache, FreedFrees'
  PROVE  ApartInv'
<1>1. DOMAIN insts' = DOMAIN insts BY KeptParts
<1>2. \A i \in DOMAIN insts :
        /\ insts'[i].mod = insts[i].mod /\ insts'[i].tabs = insts[i].tabs
        /\ insts'[i].funcs = insts[i].funcs BY DEF Kept
<1>3. \A i : i \in Loose' => i \in Loose BY <1>1, <1>2 DEF Loose
<1>4. TabsOwned'
  <2> SUFFICES ASSUME NEW i \in DOMAIN insts, NEW j \in DOMAIN insts,
                      NEW k \in DOMAIN insts[i].tabs, NEW l \in DOMAIN insts[j].tabs,
                      i \in Loose', insts[i].tabs[k].blk = insts[j].tabs[l].blk
               PROVE  i = j
    BY <1>1, <1>2 DEF TabsOwned
  <2> QED BY <1>3 DEF ApartInv, TabsOwned
<1>5. FuncsHeld'
  <2> SUFFICES ASSUME NEW i \in DOMAIN insts, NEW f \in DOMAIN insts[i].funcs
               PROVE  insts[i].funcs[f].inst = i \/ insts[i].funcs[f].inst \in Listed'
    BY <1>1, <1>2 DEF FuncsHeld
  <2>1. insts[i].funcs[f].inst = i \/ insts[i].funcs[f].inst \in Listed BY DEF ApartInv, FuncsHeld
  <2>2. insts[i].funcs[f].inst \in Listed => insts[i].funcs[f].inst \in DOMAIN insts
    BY DEF Listed, TypeInv, Registered
  <2> QED BY <2>1, <2>2
<1>6. RefsApart'
  <2> SUFFICES ASSUME NEW i \in DOMAIN insts, NEW k \in DOMAIN insts[i].tabs,
                      NEW b, b = insts[i].tabs[k].blk, NEW x \in DOMAIN blocks'[b].els,
                      NEW v, v = blocks'[b].els[x]
               PROVE  Apart(v, i, Loose')
    BY <1>1, <1>2 DEF RefsApart
  <2>1. v[1] \in Loose' => v[1] \in Loose BY <1>3
  <2>2. b \in DOMAIN blocks BY BlocksAre
  <2>3. CASE x \in DOMAIN blocks[b].els /\ blocks'[b].els[x] = blocks[b].els[x]
    <3>1. Apart(v, i, Loose) BY <2>3 DEF ApartInv, RefsApart
    <3> QED BY <2>1, <3>1 DEF Apart
  <2>4. CASE Home(v, b)
    <3>1. ASSUME v[1] \in Loose PROVE v[1] = i
      <4>1. v[1] \in DOMAIN insts BY <3>1 DEF Loose
      <4>2. PICK l \in DOMAIN insts[v[1]].tabs : insts[v[1]].tabs[l].blk = b
        BY <2>4, <3>1 DEF Home
      <4> QED BY <3>1, <4>1, <4>2 DEF ApartInv, TabsOwned
    <3> QED BY <2>1, <3>1 DEF Apart
  <2> QED BY <2>2, <2>3, <2>4 DEF Puts
<1>7. CacheApart' BY <1>3 DEF ApartInv, CacheApart
<1> QED BY <1>4, <1>5, <1>6, <1>7 DEF ApartInv

\* A step that frees nothing frees no importer.
LEMMA FreedSteady ==
  ASSUME TypeInv, ApartInv, Steady PROVE FreedFrees'
  BY DEF ApartInv, FreedFrees, Steady

\* A step that only goes on, or writes no references.
LEMMA ApartQuiet ==
  ASSUME TypeInv, ApartInv, Steady, Kept, UNCHANGED <<blocks, ecache>>
  PROVE  ApartInv'
<1>1. \A i \in DOMAIN insts : i \in Listed => i \in Listed' BY DEF Steady
<1> QED BY <1>1, FreedSteady, PutsNothing, ApartFrame

\* Freeing: the instance was apart, so that nobody else calls its functions.
LEMMA ApartFree ==
  ASSUME TypeInv, ApartInv, NEW i \in DOMAIN insts, Free(i)
  PROVE  ApartInv'
<1>1. /\ insts' = [insts EXCEPT ![i].out = "freed"] /\ UNCHANGED <<named, ecache>>
      /\ insts[i].mod \in Frees
  BY DEF Free
<1>2. /\ Kept /\ DOMAIN insts' = DOMAIN insts
      /\ \A j \in DOMAIN insts : j # i => insts'[j] = insts[j]
  BY <1>1, OutSet DEF Outs
<1>3. insts'[i].mod = insts[i].mod BY <1>2 DEF Kept
<1>4. FreedFrees' BY <1>1, <1>2, <1>3 DEF ApartInv, FreedFrees
<1>5. Puts
  <2>1. \A b \in DOMAIN blocks : blocks'[b].els = blocks[b].els BY FreeIs
  <2> QED BY <2>1 DEF Puts
<1>6. \A j \in DOMAIN insts : j \in Listed => j \in Listed' BY <1>1 DEF Listed
<1> QED BY <1>1, <1>2, <1>4, <1>5, <1>6, ApartFrame

\* References stored through a table of instance i.
LEMMA StoredPuts ==
  ASSUME TypeInv, NEW i, i \in DOMAIN insts, NEW k, k \in DOMAIN insts[i].tabs,
         NEW b, b = insts[i].tabs[k].blk, NEW vals, vals \in Seq(Ref), NEW off, off \in Int,
         \A x \in DOMAIN vals : Apart(vals[x], i, Loose),
         blocks' = [blocks EXCEPT ![b].els = Stored(@, off, vals)]
  PROVE  Puts
<1> DEFINE els == blocks[b].els new == Stored(els, off, vals)
<1>1. els \in Seq(Ref) /\ b \in DOMAIN blocks BY BlocksAre
<1>2. blocks' = [blocks EXCEPT ![b].els = new] OBVIOUS
<1>3. /\ new \in Seq(Ref) /\ DOMAIN new = DOMAIN els
      /\ \A x \in DOMAIN new : new[x] = els[x] \/ \E y \in DOMAIN vals : new[x] = vals[y]
  <2> HIDE DEF els
  <2>1. new = Stored(els, off, vals) OBVIOUS
  <2> HIDE DEF new
  <2> QED BY <1>1, <2>1, StoredEither
<1> HIDE DEF els, new
<1>4. /\ blocks'[b].els = new /\ \A c \in DOMAIN blocks : c # b => blocks'[c] = blocks[c]
  BY <1>1, <1>2, <1>3, BlockWrite
<1> SUFFICES ASSUME NEW c \in DOMAIN blocks, NEW x \in DOMAIN blocks'[c].els,
                    NEW v, v = blocks'[c].els[x],
                    ~ (x \in DOMAIN blocks[c].els /\ blocks'[c].els[x] = blocks[c].els[x])
             PROVE  Home(v, c)
  BY DEF Puts
<1>5. c = b BY <1>4
<1>6. \E y \in DOMAIN vals : v = vals[y] BY <1>3, <1>4, <1>5 DEF els
<1>7. Apart(v, i, Loose) BY <1>6
<1> QED BY <1>5, <1>7 DEF Home, Apart

\* An active element segment writes functions of its own instance.
LEMMA ApartElem ==
  ASSUME TypeInv, RefInv, ApartInv, Elem
  PROVE  ApartInv'
<1> DEFINE e == D.elems[cur.k]
           t == insts[I].tabs[e.tab]
           off == Eval(insts[I].globs, cells, e.off) % N32
           its == Items(I, e)
<1>1. Steady /\ Kept /\ UNCHANGED ecache BY ElemQuiet
<1>2. /\ cur.phase = "elem" /\ cur.phase \notin {"idle", "import"} /\ cur.phase # "idle"
      /\ cur.k <= Len(D.elems) BY DEF Elem
<1>3. /\ I \in DOMAIN insts /\ insts[I] \in InstT /\ insts[I].jit_mem0
      /\ cur.k \in Nat /\ cur.k # 0 BY <1>2, CurIs
<1>4. insts[I].mod \in DOMAIN Mods /\ Valid(insts[I].mod) BY <1>3, LinkingMods DEF InstT
<1>5. cur.k \in DOMAIN D.elems
  <2>1. D.elems \in Seq({D.elems[k] : k \in DOMAIN D.elems}) BY <1>4 DEF Valid, D
  <2>2. DOMAIN D.elems = 1 .. Len(D.elems) BY <2>1, LenProperties
  <2> QED BY <2>2, <1>2, <1>3
<1>6. \/ UNCHANGED blocks
      \/ e.mode = "active" /\ blocks' = [blocks EXCEPT ![t.blk].els = Stored(@, off, its)]
  BY DEF Elem, OnOverrun
<1>7. CASE UNCHANGED blocks BY <1>1, <1>7, ApartQuiet
<1>8. CASE e.mode = "active" /\ blocks' = [blocks EXCEPT ![t.blk].els = Stored(@, off, its)]
  <2>1. e.tab \in DOMAIN insts[I].tabs
    <3>1. e.tab \in Space(insts[I].mod, "table") BY <1>4, <1>5, <1>8 DEF Valid, D
    <3>2. Has(insts[I], "table") = Imported(insts[I].mod, "table") + Defined(insts[I].mod, "table")
      BY <1>3 DEF TypeInv, Sized, Kinds
    <3>3. e.tab \in 1 .. Len(insts[I].tabs) BY <3>1, <3>2 DEF Space, Has
    <3>4. insts[I].tabs \in Seq(TableT) BY <1>3 DEF InstT
    <3> QED BY <3>3, <3>4, LenProperties
  <2>2. off \in Int
    <3>1. ExprValid(e.off, Imported(insts[I].mod, "global") + Defined(insts[I].mod, "global"))
      BY <1>4, <1>5, <1>8 DEF Valid, D
    <3>2. off \in 0 .. N32 - 1 BY <1>3, <3>1, EvalIs
    <3> QED BY <3>2
  <2>3. its \in Seq(Ref) /\ \A x \in DOMAIN its : its[x][1] = I
    <3>1. its \in Seq(Ref) /\ \A x \in DOMAIN its : its[x] \in Refs(I) BY <1>3, <1>5, ItemsAre DEF D
    <3> HIDE DEF its
    <3> QED BY <3>1, <1>3, RefsAre
  <2>4. t.blk = insts[I].tabs[e.tab].blk OBVIOUS
  <2> HIDE DEF t, off, its, e
  <2>5. \A x \in DOMAIN its : Apart(its[x], I, Loose) BY <2>3 DEF Apart
  <2>7. Puts BY <1>3, <1>8, <2>1, <2>2, <2>3, <2>4, <2>5, StoredPuts
  <2>6. \A i \in DOMAIN insts : i \in Listed => i \in Listed' BY <1>1 DEF Steady
  <2> QED BY <1>1, <2>6, <2>7, FreedSteady, ApartFrame
<1> QED BY <1>6, <1>7, <1>8

\* An instruction that stores references through a table of its instance.
LEMMA ApartUpdate ==
  ASSUME TypeInv, ApartInv, NEW i, i \in DOMAIN insts, NEW k, k \in DOMAIN insts[i].tabs,
         NEW vals, vals \in Seq(Ref), NEW d, d \in Int, NEW ok,
         ok => \A x \in DOMAIN vals : Apart(vals[x], i, Loose),
         NEW wvals, NEW w, Update(insts[i].tabs[k], d, vals, ok, wvals, w)
  PROVE  ApartInv'
<1> DEFINE b == insts[i].tabs[k].blk
<1>1. UNCHANGED <<insts, named, ecache>> BY DEF Update
<1>2. Steady /\ Kept BY <1>1, SameSteady
<1>3. CASE ~ ok
  <2>1. UNCHANGED blocks BY <1>3 DEF Update
  <2> QED BY <1>1, <1>2, <2>1, ApartQuiet
<1>4. CASE ok
  <2>1. blocks' = [blocks EXCEPT ![b].els = Stored(@, d, vals)] BY <1>4 DEF Update
  <2>2. b = insts[i].tabs[k].blk OBVIOUS
  <2> HIDE DEF b
  <2>3. Puts BY <1>4, <2>1, <2>2, StoredPuts
  <2>4. \A j \in DOMAIN insts : j \in Listed => j \in Listed' BY <1>2 DEF Steady
  <2> QED BY <1>1, <1>2, <2>3, <2>4, FreedSteady, ApartFrame
<1> QED BY <1>3, <1>4

\* table.set and table.fill write a reference of the instance.
LEMMA ApartSetFill ==
  ASSUME TypeInv, ApartInv, NEW i \in DOMAIN insts, insts[i].jit_mem0,
         NEW k \in DOMAIN insts[i].tabs, NEW d \in Int, NEW r \in Refs(i),
         \/ TableSet(i, k, d, r)
         \/ \E e \in Engines, n \in Nat : TableFill(e, i, k, d, n, r)
  PROVE  ApartInv'
<1>1. r \in Ref /\ r[1] = i BY RefsAre
<1>2. CASE TableSet(i, k, d, r)
  <2> DEFINE v == <<r>>
  <2>1. v \in Seq(Ref) /\ \A x \in DOMAIN v : v[x][1] = i BY <1>1
  <2>2. PICK ok, w : Update(insts[i].tabs[k], d, v, ok, v, w) BY <1>2 DEF TableSet
  <2> HIDE DEF v
  <2>3. \A x \in DOMAIN v : Apart(v[x], i, Loose) BY <2>1 DEF Apart
  <2> QED BY <2>1, <2>2, <2>3, ApartUpdate
<1>3. CASE \E e \in Engines, n \in Nat : TableFill(e, i, k, d, n, r)
  <2>1. PICK e \in Engines, n \in Nat : TableFill(e, i, k, d, n, r) BY <1>3
  <2> DEFINE v == Repeat(r, n)
  <2>2. v \in Seq(Ref) /\ \A x \in DOMAIN v : v[x][1] = i
    <3>1. v \in Seq(Ref) /\ Len(v) = n /\ \A x \in 1 .. n : v[x] = r BY <1>1, RepeatIs
    <3> HIDE DEF v
    <3>2. DOMAIN v = 1 .. n BY <3>1, LenProperties
    <3> QED BY <1>1, <3>1, <3>2
  <2>3. PICK ok, w : Update(insts[i].tabs[k], d, v, ok, v, w) BY <2>1 DEF TableFill
  <2> HIDE DEF v
  <2>4. \A x \in DOMAIN v : Apart(v[x], i, Loose) BY <2>2 DEF Apart
  <2> QED BY <2>2, <2>3, <2>4, ApartUpdate
<1> QED BY <1>2, <1>3

\* Null and wild references belong to no instance.
LEMMA NotLoose ==
  ASSUME TypeInv
  PROVE  Null[1] \notin Loose /\ Wild[1] \notin Loose
  BY InstsAre DEF Loose, Null, Wild

\* Items taken from a sequence hold loose instances only where it does.
LEMMA SliceLoose ==
  ASSUME TypeInv, NEW els \in Seq(Ref), NEW s \in Nat, NEW n \in Nat, NEW i, NEW new,
         new = Slice(els, s, n), \A x \in DOMAIN els : Apart(els[x], i, Loose)
  PROVE  new \in Seq(Ref) /\ \A x \in DOMAIN new : Apart(new[x], i, Loose)
<1>a. new \in Seq(Ref) /\ Len(new) = n BY SliceIs
<1>b. \A x \in 1 .. n : new[x] = IF s + x \in 1 .. Len(els) THEN els[s + x] ELSE Wild
  BY DEF Slice
<1>1. DOMAIN new = 1 .. n /\ DOMAIN els = 1 .. Len(els) BY <1>a, LenProperties
<1>2. Wild[1] \notin Loose BY NotLoose
<1>3. Apart(Wild, i, Loose) BY <1>2 DEF Apart
<1> SUFFICES ASSUME NEW x \in 1 .. n PROVE Apart(new[x], i, Loose) BY <1>a, <1>1
<1>4. CASE s + x \in 1 .. Len(els) BY <1>4, <1>b, <1>1
<1>5. CASE s + x \notin 1 .. Len(els) BY <1>3, <1>5, <1>b
<1> QED BY <1>4, <1>5

\* What an instance sees of its tables holds no other loose instance.
LEMMA ViewLoose ==
  ASSUME TypeInv, RefInv, ApartInv, NEW i, i \in DOMAIN insts, NEW k, k \in DOMAIN insts[i].tabs,
         NEW v, v = View(insts[i].tabs[k])
  PROVE  /\ v \in Seq(Ref) /\ Len(v) = insts[i].tabs[k].size /\ insts[i].tabs[k].size \in Nat
         /\ \A x \in DOMAIN v : Apart(v[x], i, Loose)
<1> DEFINE b == insts[i].tabs[k].blk
<1>1. /\ v \in Seq(Ref) /\ Len(v) = insts[i].tabs[k].size /\ insts[i].tabs[k].size \in Nat
      /\ \A x \in 1 .. insts[i].tabs[k].size :
            v[x] = Wild \/ \E y \in DOMAIN blocks[b].els : v[x] = blocks[b].els[y]
  BY ViewIs
<1>2. DOMAIN v = 1 .. insts[i].tabs[k].size BY <1>1, LenProperties
<1>3. Apart(Wild, i, Loose) BY NotLoose DEF Apart
<1>4. \A y \in DOMAIN blocks[b].els : Apart(blocks[b].els[y], i, Loose)
  BY DEF ApartInv, RefsApart
<1> HIDE DEF b
<1>5. \A x \in DOMAIN v : Apart(v[x], i, Loose) BY <1>1, <1>2, <1>3, <1>4
<1> QED BY <1>1, <1>5

\* table.copy carries references between tables of one instance.
LEMMA ApartCopy ==
  ASSUME TypeInv, RefInv, ApartInv, NEW i, i \in DOMAIN insts, NEW k, k \in DOMAIN insts[i].tabs,
         NEW j, j \in DOMAIN insts[i].tabs, NEW d, d \in Nat, NEW s, s \in Nat, NEW n, n \in Nat,
         NEW e, TableCopy(e, i, k, j, d, s, n)
  PROVE  ApartInv'
<1> DEFINE view == View(insts[i].tabs[j])
           all == Slice(view, s, n)
<1>1. PICK ok, w, wvals : Update(insts[i].tabs[k], d, IF ok THEN all ELSE <<>>, ok, wvals, w)
  BY DEF TableCopy
<1> DEFINE vals == IF ok THEN all ELSE <<>>
<1>2. view \in Seq(Ref) /\ \A x \in DOMAIN view : Apart(view[x], i, Loose)
  BY ViewLoose
<1>3. Update(insts[i].tabs[k], d, vals, ok, wvals, w) BY <1>1
<1>4. (ok /\ vals = all) \/ (~ ok /\ vals = <<>>) OBVIOUS
<1>5. all = Slice(view, s, n) OBVIOUS
<1> HIDE DEF view, all, vals
<1>6. all \in Seq(Ref) /\ \A x \in DOMAIN all : Apart(all[x], i, Loose)
  BY <1>2, <1>5, SliceLoose
<1>7. vals \in Seq(Ref)
  <2>1. <<>> \in Seq(Ref) OBVIOUS
  <2> QED BY <2>1, <1>4, <1>6
<1>8. ok => \A x \in DOMAIN vals : Apart(vals[x], i, Loose) BY <1>4, <1>6
<1>9. d \in Int OBVIOUS
<1> QED BY <1>3, <1>7, <1>8, <1>9, ApartUpdate

\* table.init writes functions of its own instance, or those of the cache.
LEMMA ApartTableInit ==
  ASSUME TypeInv, RefInv, ApartInv, NEW i, i \in DOMAIN insts, insts[i].jit_mem0,
         NEW k, k \in DOMAIN insts[i].tabs, NEW g, g \in DOMAIN insts[i].elem_alive,
         NEW d, d \in Nat, NEW s, s \in Nat, NEW n, n \in Nat,
         NEW e, TableInit(e, i, k, g, d, s, n)
  PROVE  ApartInv'
<1> DEFINE m == insts[i].mod
           its == Items(i, Mods[m].elems[g])
           src == InitItems(i, g)
           all == Slice(src, s, n)
<1>1. PICK ok, w, wvals : Update(insts[i].tabs[k], d, IF ok THEN all ELSE <<>>, ok, wvals, w)
  BY DEF TableInit
<1> DEFINE vals == IF ok THEN all ELSE <<>>
<1>2. m \in DOMAIN Mods /\ g \in DOMAIN Mods[m].elems BY InstsAre DEF InstT, RefInv, AliveFits
<1>3. its \in Seq(Ref) /\ \A x \in DOMAIN its : its[x][1] = i
  <2>1. its \in Seq(Ref) /\ \A x \in DOMAIN its : its[x] \in Refs(i) BY <1>2, ItemsAre
  <2> HIDE DEF its
  <2> QED BY <2>1, RefsAre
<1>4. src \in Seq(Ref) /\ \A x \in DOMAIN src : Apart(src[x], i, Loose)
  <2>1. src = its \/ src = ecache[m][g] BY DEF InitItems
  <2>2. ecache[m][g] \in Seq(Ref) BY <1>2 DEF RefInv, CacheExists
  <2>3. \A x \in DOMAIN ecache[m][g] : ecache[m][g][x][1] \notin Loose
    BY <1>2 DEF ApartInv, CacheApart
  <2> HIDE DEF its, src
  <2>4. \A x \in DOMAIN its : Apart(its[x], i, Loose) BY <1>3 DEF Apart
  <2>5. \A x \in DOMAIN ecache[m][g] : Apart(ecache[m][g][x], i, Loose) BY <2>3 DEF Apart
  <2> QED BY <1>3, <2>1, <2>2, <2>4, <2>5
<1>5. Update(insts[i].tabs[k], d, vals, ok, wvals, w) BY <1>1
<1>6. (ok /\ vals = all) \/ (~ ok /\ vals = <<>>) OBVIOUS
<1>7. all = Slice(src, s, n) OBVIOUS
<1> HIDE DEF src, all, vals, its, m
<1>8. all \in Seq(Ref) /\ \A x \in DOMAIN all : Apart(all[x], i, Loose)
  BY <1>4, <1>7, SliceLoose
<1>9. vals \in Seq(Ref)
  <2>1. <<>> \in Seq(Ref) OBVIOUS
  <2> QED BY <2>1, <1>6, <1>8
<1>10. ok => \A x \in DOMAIN vals : Apart(vals[x], i, Loose) BY <1>6, <1>8
<1>11. d \in Int OBVIOUS
<1> QED BY <1>5, <1>9, <1>10, <1>11, ApartUpdate

\* A grown table has its own elements and copies of one of its instance's
\* functions, in its own array or in one no table led to.
LEMMA ApartGrow ==
  ASSUME TypeInv, RefInv, ApartInv, NEW i, i \in DOMAIN insts, insts[i].jit_mem0,
         NEW k, k \in DOMAIN insts[i].tabs, NEW delta, delta \in Nat, NEW r, r \in Refs(i),
         TableGrow(i, k, delta, r)
  PROVE  ApartInv'
<1> DEFINE t == insts[i].tabs[k]
           n == GrowTo(t, delta)
           els == [x \in 1 .. n |-> IF x <= t.size THEN View(t)[x] ELSE r]
<1>0. UNCHANGED <<named, ecache>> BY DEF TableGrow
<1>1. t = insts[i].tabs[k] /\ t \in TableT /\ t.blk \in DOMAIN blocks BY BlocksAre
<1>2. n \in Nat BY GrowToNat
<1>3. CASE ~ CanGrow(t, delta)
  <2>1. UNCHANGED <<insts, blocks>> BY <1>3 DEF TableGrow
  <2> QED BY <1>0, <2>1, SameSteady, ApartQuiet
<1>4. CASE CanGrow(t, delta)
  <2>1. GrowsTable(i, k, n, els)
    <3>1. CanGrow(t, delta) /\ GrowTo(t, delta) \in Nat BY <1>2, <1>4
    <3>2. GrowsTable(i, k, GrowTo(t, delta),
                     [x \in 1 .. GrowTo(t, delta) |-> IF x <= t.size THEN View(t)[x] ELSE r])
      <4> HIDE DEF t
      <4> QED BY <1>1, <3>1, GrowIs
    <3> QED BY <3>2
  <2>2. els \in Seq(Ref) /\ \A x \in DOMAIN els : Apart(els[x], i, Loose)
    <3> DEFINE v == View(t)
    <3>1. /\ v \in Seq(Ref) /\ Len(v) = t.size /\ t.size \in Nat
          /\ \A x \in DOMAIN v : Apart(v[x], i, Loose) BY ViewLoose
    <3>2. r \in Ref /\ r[1] = i BY RefsAre
    <3>3. els = [x \in 1 .. n |-> IF x <= t.size THEN v[x] ELSE r] OBVIOUS
    <3> HIDE DEF v, t, n, els
    <3>4. DOMAIN v = 1 .. t.size BY <3>1, LenProperties
    <3>5. \A x \in 1 .. n : els[x] \in Ref /\ Apart(els[x], i, Loose)
      <4> TAKE x \in 1 .. n
      <4>1. CASE x <= t.size
        <5>1. x \in DOMAIN v BY <1>2, <3>1, <3>4, <4>1
        <5>2. v[x] \in Ref BY <3>1, <3>4, <5>1, ElementOfSeq
        <5> QED BY <3>1, <3>3, <4>1, <5>1, <5>2
      <4>2. CASE ~ (x <= t.size) BY <3>2, <3>3, <4>2 DEF Apart
      <4> QED BY <4>1, <4>2
    <3>6. els \in [1 .. n -> Ref] BY <3>3, <3>5
    <3>7. els \in Seq(Ref) /\ DOMAIN els = 1 .. n BY <1>2, <3>6, Tabulated
    <3> QED BY <3>5, <3>7
  <2> HIDE DEF els, n
  <2>3. PICK u \in TableT :
          /\ TabSet(insts, insts', i, k, u)
          /\ \/ u.blk = t.blk /\ Extended(t.blk, els)
             \/ u.blk = Len(blocks) + 1 /\ Moved(t.blk, els)
    BY <1>1, <2>1 DEF GrowsTable
  <2> HIDE DEF t
  <2>4. /\ DOMAIN insts' = DOMAIN insts
        /\ \A j \in DOMAIN insts :
             /\ insts'[j].mod = insts[j].mod /\ insts'[j].funcs = insts[j].funcs
             /\ insts'[j].out = insts[j].out /\ DOMAIN insts'[j].tabs = DOMAIN insts[j].tabs
        /\ \A j \in DOMAIN insts : j # i => insts'[j].tabs = insts[j].tabs
        /\ insts'[i].tabs[k] = u
        /\ \A l \in DOMAIN insts[i].tabs : l # k => insts'[i].tabs[l] = insts[i].tabs[l]
    BY <1>1, <2>3 DEF TabSet
  <2>5. \A j : j \in Loose' <=> j \in Loose BY <1>0, <2>4 DEF Loose, Listed
  <2>6. \A j \in DOMAIN insts : \A l \in DOMAIN insts[j].tabs : insts[j].tabs[l].blk \in DOMAIN blocks
    BY BlocksAre
  <2>7. DOMAIN blocks = 1 .. Len(blocks) /\ Len(blocks) \in Nat BY BlocksAre
  <2>8. /\ blocks'[u.blk].els = els
        /\ \A b \in DOMAIN blocks : b # u.blk => blocks'[b].els = blocks[b].els
        /\ u.blk = t.blk \/ u.blk \notin DOMAIN blocks
    <3>1. CASE u.blk = t.blk /\ Extended(t.blk, els)
      <4>1. blocks' = [blocks EXCEPT ![t.blk].els = els] BY <3>1 DEF Extended
      <4>2. blocks'[t.blk].els = els
            /\ \A c \in DOMAIN blocks : c # t.blk => blocks'[c] = blocks[c]
        BY <4>1, <1>1, <2>2, BlockWrite
      <4> QED BY <3>1, <4>2
    <3>2. CASE u.blk = Len(blocks) + 1 /\ Moved(t.blk, els)
      <4>1. /\ blocks'[Len(blocks) + 1].els = els
            /\ \A c \in DOMAIN blocks : c # t.blk => blocks'[c] = blocks[c]
            /\ blocks'[t.blk].els = blocks[t.blk].els
        BY <3>2, <1>1, <2>2, MovedIs
      <4> QED BY <3>2, <4>1, <2>7
    <3> QED BY <2>3, <3>1, <3>2
  \* the array of each table: the grown one's, or what it was
  <2>9. \A j \in DOMAIN insts : \A l \in DOMAIN insts[j].tabs :
          IF j = i /\ l = k THEN insts'[j].tabs[l].blk = u.blk
          ELSE insts'[j].tabs[l].blk = insts[j].tabs[l].blk
    BY <2>4
  <2>10. TabsOwned'
    <3> SUFFICES ASSUME NEW a \in DOMAIN insts, NEW c \in DOMAIN insts,
                        NEW p \in DOMAIN insts[a].tabs, NEW q \in DOMAIN insts[c].tabs,
                        a \in Loose, insts'[a].tabs[p].blk = insts'[c].tabs[q].blk
                 PROVE  a = c
      BY <2>4, <2>5 DEF TabsOwned
    <3>1. CASE insts[a].tabs[p].blk = insts[c].tabs[q].blk BY <3>1 DEF ApartInv, TabsOwned
    <3>2. CASE a = i /\ p = k /\ c = i BY <3>2
    <3>3. CASE ~ (a = i /\ p = k) /\ ~ (c = i /\ q = k) BY <3>1, <3>3, <2>9
    <3>4. CASE a = i /\ p = k /\ c # i
      <4>1. u.blk = insts[c].tabs[q].blk BY <3>4, <2>9
      <4>2. u.blk \in DOMAIN blocks BY <4>1, <2>6
      <4>3. insts[a].tabs[p].blk = insts[c].tabs[q].blk BY <1>1, <3>4, <4>1, <4>2, <2>8
      <4> QED BY <3>1, <4>3
    <3>5. CASE c = i /\ q = k /\ a # i
      <4>1. u.blk = insts[a].tabs[p].blk BY <3>5, <2>9
      <4>2. u.blk \in DOMAIN blocks BY <4>1, <2>6
      <4>3. insts[a].tabs[p].blk = insts[c].tabs[q].blk BY <1>1, <3>5, <4>1, <4>2, <2>8
      <4> QED BY <3>1, <4>3
    <3> QED BY <3>2, <3>3, <3>4, <3>5
  <2>11. FuncsHeld'
    <3>1. \A j : j \in Listed' <=> j \in Listed BY <1>0 DEF Listed
    <3> QED BY <2>4, <3>1 DEF ApartInv, FuncsHeld
  <2>12. RefsApart'
    <3> SUFFICES ASSUME NEW a \in DOMAIN insts, NEW p \in DOMAIN insts[a].tabs,
                        NEW b, b = insts'[a].tabs[p].blk, NEW x \in DOMAIN blocks'[b].els,
                        NEW v, v = blocks'[b].els[x]
                 PROVE  Apart(v, a, Loose')
      BY <2>4 DEF RefsApart
    <3> SUFFICES ASSUME v[1] \in Loose PROVE v[1] = a BY <2>5 DEF Apart
    <3>1. CASE b = u.blk
      <4>0. Apart(v, i, Loose) BY <3>1, <2>2, <2>8
      <4>1. v[1] = i /\ i \in Loose BY <4>0 DEF Apart
      <4>2. insts'[i].tabs[k].blk = insts'[a].tabs[p].blk BY <3>1, <2>4
      <4>3. i \in Loose' /\ i \in DOMAIN insts' /\ a \in DOMAIN insts'
            /\ k \in DOMAIN insts'[i].tabs /\ p \in DOMAIN insts'[a].tabs
        BY <4>1, <2>4, <2>5, <1>1
      <4>4. i = a BY <2>10, <4>2, <4>3 DEF TabsOwned
      <4> QED BY <4>1, <4>4
    <3>2. CASE b # u.blk
      <4>1. b = insts[a].tabs[p].blk BY <3>2, <2>9
      <4>2. blocks'[b].els = blocks[b].els BY <3>2, <4>1, <2>6, <2>8
      <4>3. Apart(v, a, Loose) BY <4>1, <4>2 DEF ApartInv, RefsApart
      <4> QED BY <4>3 DEF Apart
    <3> QED BY <3>1, <3>2
  <2>13. CacheApart' BY <1>0, <2>5 DEF ApartInv, CacheApart
  <2>14. FreedFrees' BY <2>4 DEF ApartInv, FreedFrees
  <2> QED BY <2>10, <2>11, <2>12, <2>13, <2>14 DEF ApartInv
<1> QED BY <1>3, <1>4

\* Every instruction.
LEMMA ApartRun ==
  ASSUME TypeInv, RefInv, ApartInv, NEW i \in Runs, Run(i)
  PROVE  ApartInv'
<1>1. i \in DOMAIN insts /\ insts[i].jit_mem0 BY RunIs
<1>2. CASE \/ \E k \in DOMAIN insts[i].tabs, x \in Nat, e \in Engines : \E ty :
                /\ x \in Operands(insts[i].tabs[k].is64)
                /\ TableGet(i, k, x) \/ CallIndirect(e, i, k, x, ty)
           \/ \E k \in DOMAIN insts[i].mems, delta \in Deltas : MemoryGrow(i, k, delta)
  <2>1. UNCHANGED <<insts, named, blocks, ecache>>
    BY <1>2, ZenonT(30) DEF TableGet, CallIndirect, MemoryGrow
  <2> QED BY <2>1, SameSteady, ApartQuiet
<1>3. CASE \E g \in DOMAIN insts[i].elem_alive : ElemDrop(i, g)
  <2>1. PICK g : ElemDrop(i, g) BY <1>3
  <2>2. /\ insts' = [insts EXCEPT ![i].elem_alive[g] = FALSE]
        /\ UNCHANGED <<named, blocks, ecache>> BY <2>1 DEF ElemDrop
  <2>3. Kept /\ \A j \in DOMAIN insts : insts'[j].out = insts[j].out BY <1>1, <2>2, ElemAliveSet
  <2>4. Steady BY RunQuiet
  <2> QED BY <2>2, <2>3, <2>4, ApartQuiet
<1>4. CASE \/ \E k \in DOMAIN insts[i].tabs, x \in Nat, r \in Refs(i) :
                x \in Operands(insts[i].tabs[k].is64) /\ TableSet(i, k, x, r)
           \/ \E k \in DOMAIN insts[i].tabs, x \in Nat, n \in Nat, r \in Refs(i), e \in Engines :
                /\ x \in Operands(insts[i].tabs[k].is64) /\ n \in Operands(insts[i].tabs[k].is64)
                /\ TableFill(e, i, k, x, n, r)
  <2>1. PICK k \in DOMAIN insts[i].tabs, x \in Nat, r \in Refs(i) :
          TableSet(i, k, x, r) \/ \E e \in Engines, n \in Nat : TableFill(e, i, k, x, n, r)
    BY <1>4
  <2>2. x \in Int OBVIOUS
  <2> QED BY <1>1, <2>1, <2>2, ApartSetFill
<1>5. CASE \E k \in DOMAIN insts[i].tabs, j \in DOMAIN insts[i].tabs,
                  d \in Nat, s \in Nat, n \in Nat, e \in Engines :
                 /\ d \in Operands(insts[i].tabs[k].is64) /\ s \in Operands(insts[i].tabs[j].is64)
                 /\ n \in Operands(insts[i].tabs[k].is64) /\ n \in Operands(insts[i].tabs[j].is64)
                 /\ TableCopy(e, i, k, j, d, s, n)
  <2>1. PICK k \in DOMAIN insts[i].tabs, j \in DOMAIN insts[i].tabs,
             d \in Nat, s \in Nat, n \in Nat, e \in Engines : TableCopy(e, i, k, j, d, s, n)
    BY <1>5
  <2> QED BY <1>1, <2>1, ApartCopy
<1>6. CASE \E k \in DOMAIN insts[i].tabs, g \in DOMAIN insts[i].elem_alive,
                  d \in Nat, s \in Nat, n \in Nat, e \in Engines :
                 /\ d \in Operands(insts[i].tabs[k].is64) /\ s \in Operands(FALSE) /\ n \in Operands(FALSE)
                 /\ TableInit(e, i, k, g, d, s, n)
  <2>1. PICK k \in DOMAIN insts[i].tabs, g \in DOMAIN insts[i].elem_alive,
             d \in Nat, s \in Nat, n \in Nat, e \in Engines : TableInit(e, i, k, g, d, s, n)
    BY <1>6
  <2> QED BY <1>1, <2>1, ApartTableInit
<1>7. CASE \E k \in DOMAIN insts[i].tabs, delta \in Nat, r \in Refs(i) :
             delta \in Operands(insts[i].tabs[k].is64) /\ TableGrow(i, k, delta, r)
  <2>1. PICK k \in DOMAIN insts[i].tabs, delta \in Nat, r \in Refs(i) : TableGrow(i, k, delta, r)
    BY <1>7
  <2> QED BY <1>1, <2>1, ApartGrow
<1> QED BY <1>2, <1>3, <1>4, <1>5, <1>6, <1>7, RunIs

\* No reference leads to the instance that begins.
LEMMA ApartBegin ==
  ASSUME TypeInv, RefInv, ApartInv, NEW m \in DOMAIN Mods, Begin(m)
  PROVE  ApartInv'
<1> DEFINE x == Fresh(m) n == Len(insts)
<1>1. x.tabs = <<>> /\ x.funcs = <<>> /\ x.out = "building" BY DEF Fresh
<1>2. insts' = Append(insts, x) /\ insts \in Seq(InstT) /\ n \in Nat
      /\ UNCHANGED <<blocks, named, ecache>>
  BY InstsAre DEF Begin, TypeInv, Shapes
<1>3. x \in InstT
  <2>1. x.elem_alive \in [DOMAIN Mods[m].elems -> BOOLEAN] BY DEF Fresh
  <2>2. x.data_alive \in [DOMAIN Mods[m].datas -> BOOLEAN] BY DEF Fresh
  <2> QED BY <2>1, <2>2 DEF Fresh, InstT, Outs
<1>m. DOMAIN x.tabs = {} /\ DOMAIN x.funcs = {} BY <1>1
<1> HIDE DEF x
<1>4. /\ DOMAIN insts' = 1 .. n + 1 /\ DOMAIN insts = 1 .. n
      /\ \A j \in 1 .. n : insts'[j] = insts[j]
      /\ insts'[n + 1] = x BY <1>2, <1>3, Appended
<1>5. \A j \in DOMAIN insts' : (j \in DOMAIN insts /\ insts'[j] = insts[j])
        \/ (DOMAIN insts'[j].tabs = {} /\ DOMAIN insts'[j].funcs = {} /\ insts'[j].out = "building")
  BY <1>2, <1>4, <1>m, <1>1
<1>6. \A j : j \in Listed' <=> j \in Listed BY <1>2 DEF Listed
<1>7. \A j : j \in DOMAIN insts => (j \in Loose' <=> j \in Loose) BY <1>2, <1>4, <1>6 DEF Loose
<1> HIDE DEF n
<1>8. ASSUME NEW r, Exists(r, insts), r[1] \in Loose' PROVE r[1] \in Loose
  <2>1. r[1] \in DOMAIN insts' BY <1>8 DEF Loose
  <2>2. r \notin {Null, Wild} BY <2>1, <1>2, <1>4 DEF Null, Wild, n
  <2> QED BY <1>7, <1>8, <2>2 DEF Exists
<1>9. TabsOwned'
  <2> SUFFICES ASSUME NEW i \in DOMAIN insts', NEW j \in DOMAIN insts',
                      NEW k \in DOMAIN insts'[i].tabs, NEW l \in DOMAIN insts'[j].tabs,
                      i \in Loose', insts'[i].tabs[k].blk = insts'[j].tabs[l].blk
               PROVE  i = j
    BY DEF TabsOwned
  <2>1. i \in DOMAIN insts /\ insts'[i] = insts[i] /\ j \in DOMAIN insts /\ insts'[j] = insts[j]
    BY <1>5
  <2> QED BY <2>1, <1>7 DEF ApartInv, TabsOwned
<1>10. FuncsHeld'
  <2> SUFFICES ASSUME NEW i \in DOMAIN insts', NEW f \in DOMAIN insts'[i].funcs
               PROVE  insts'[i].funcs[f].inst = i \/ insts'[i].funcs[f].inst \in Listed'
    BY DEF FuncsHeld
  <2>1. i \in DOMAIN insts /\ insts'[i] = insts[i] BY <1>5
  <2> QED BY <2>1, <1>6 DEF ApartInv, FuncsHeld
<1>11. RefsApart'
  <2> SUFFICES ASSUME NEW i \in DOMAIN insts', NEW k \in DOMAIN insts'[i].tabs,
                      NEW b, b = insts'[i].tabs[k].blk, NEW y \in DOMAIN blocks[b].els,
                      NEW v, v = blocks[b].els[y]
               PROVE  Apart(v, i, Loose')
    BY <1>2 DEF RefsApart
  <2>1. i \in DOMAIN insts /\ insts'[i] = insts[i] BY <1>5
  <2>2. Exists(v, insts) BY <2>1 DEF RefInv, RefsExist
  <2>3. Apart(v, i, Loose) BY <2>1 DEF ApartInv, RefsApart
  <2> QED BY <2>2, <2>3, <1>8 DEF Apart
<1>12. CacheApart'
  <2> SUFFICES ASSUME NEW mm \in DOMAIN Mods, NEW g \in DOMAIN Mods[mm].elems,
                      NEW y \in DOMAIN ecache[mm][g], NEW v, v = ecache[mm][g][y], v[1] \in Loose'
               PROVE  FALSE
    BY <1>2 DEF CacheApart
  <2>1. Exists(v, insts) BY DEF RefInv, CacheExists
  <2>2. v[1] \in Loose BY <2>1, <1>8
  <2> QED BY <2>2 DEF ApartInv, CacheApart
<1>13. FreedFrees' BY <1>5 DEF ApartInv, FreedFrees
<1> QED BY <1>9, <1>10, <1>11, <1>12, <1>13 DEF ApartInv

\* The instance imported from is registered, and an instance that imports a
\* table is not freed.
LEMMA ApartImport ==
  ASSUME FreesApart, TypeInv, ApartInv, Import
  PROVE  ApartInv'
<1>0. cur.phase = "import" /\ cur.phase # "idle" /\ UNCHANGED <<blocks, ecache, named>> BY ImportIs
<1>1. /\ I \in DOMAIN insts /\ insts[I].out = "building" BY <1>0, CurIs
<1>2. CASE insts' = [insts EXCEPT ![I].out = "unlinkable"]
  <2>1. Steady /\ Kept BY <1>0, <1>1, <1>2, OutSteady DEF Outs
  <2> QED BY <1>0, <2>1, ApartQuiet
<1>3. ASSUME NEW s \in DOMAIN insts, ImportsFrom(s) PROVE ApartInv'
  <2>1. /\ DOMAIN insts' = DOMAIN insts /\ s \in Listed
        /\ \A j \in DOMAIN insts : insts'[j].mod = insts[j].mod /\ insts'[j].out = insts[j].out
        /\ \A j \in DOMAIN insts : j # I => insts'[j] = insts[j]
    BY <1>3 DEF ImportsFrom, Listed
  <2>2. \A j : j \in Listed' <=> j \in Listed BY <1>0 DEF Listed
  <2>3. \A j : j \in Loose' <=> j \in Loose BY <2>1, <2>2 DEF Loose
  <2>4. s \notin Loose BY <2>1 DEF Loose
  \* every table is one that was there, the importer's own or s's
  <2>5. \A j \in DOMAIN insts : \A k \in DOMAIN insts'[j].tabs :
          \/ k \in DOMAIN insts[j].tabs /\ insts'[j].tabs[k] = insts[j].tabs[k]
          \/ j \notin Loose /\ \E l \in DOMAIN insts[s].tabs : insts'[j].tabs[k] = insts[s].tabs[l]
    <3> TAKE j \in DOMAIN insts
    <3> TAKE k \in DOMAIN insts'[j].tabs
    <3>1. CASE j # I BY <3>1, <2>1
    <3>2. CASE j = I
      <4>1. \/ k \in DOMAIN insts[I].tabs /\ insts'[I].tabs[k] = insts[I].tabs[k]
            \/ /\ \E l \in DOMAIN insts[s].tabs : insts'[I].tabs[k] = insts[s].tabs[l]
               /\ \E l \in DOMAIN D.imports : D.imports[l].kind = "table"
        BY <1>3, <3>2 DEF ImportsFrom
      <4>2. (\E l \in DOMAIN D.imports : D.imports[l].kind = "table") => I \notin Loose
        BY DEF FreesApart, Loose, D
      <4> QED BY <3>2, <4>1, <4>2
    <3> QED BY <3>1, <3>2
  <2>6. TabsOwned'
    <3> SUFFICES ASSUME NEW i \in DOMAIN insts, NEW j \in DOMAIN insts,
                        NEW k \in DOMAIN insts'[i].tabs, NEW l \in DOMAIN insts'[j].tabs,
                        i \in Loose, insts'[i].tabs[k].blk = insts'[j].tabs[l].blk
                 PROVE  i = j
      BY <2>1, <2>3 DEF TabsOwned
    <3>1. k \in DOMAIN insts[i].tabs /\ insts'[i].tabs[k] = insts[i].tabs[k] BY <2>5
    <3>2. CASE l \in DOMAIN insts[j].tabs /\ insts'[j].tabs[l] = insts[j].tabs[l]
      BY <3>1, <3>2 DEF ApartInv, TabsOwned
    <3>3. CASE \E z \in DOMAIN insts[s].tabs : insts'[j].tabs[l] = insts[s].tabs[z]
      <4>1. i = s BY <3>1, <3>3 DEF ApartInv, TabsOwned
      <4> QED BY <4>1, <2>4
    <3> QED BY <3>2, <3>3, <2>5
  <2>7. FuncsHeld'
    <3> SUFFICES ASSUME NEW i \in DOMAIN insts, NEW f \in DOMAIN insts'[i].funcs
                 PROVE  insts'[i].funcs[f].inst = i \/ insts'[i].funcs[f].inst \in Listed
      BY <2>1, <2>2 DEF FuncsHeld
    <3>1. \/ f \in DOMAIN insts[i].funcs /\ insts'[i].funcs[f] = insts[i].funcs[f]
          \/ \E l \in DOMAIN insts[s].funcs : insts'[i].funcs[f] = insts[s].funcs[l]
      BY <1>3 DEF ImportsFrom
    <3>2. \A l \in DOMAIN insts[s].funcs : insts[s].funcs[l].inst \in Listed
      BY <2>1 DEF ApartInv, FuncsHeld
    <3> QED BY <3>1, <3>2 DEF ApartInv, FuncsHeld
  <2>8. RefsApart'
    <3> SUFFICES ASSUME NEW i \in DOMAIN insts, NEW k \in DOMAIN insts'[i].tabs,
                        NEW b, b = insts'[i].tabs[k].blk, NEW y \in DOMAIN blocks[b].els,
                        NEW v, v = blocks[b].els[y]
                 PROVE  Apart(v, i, Loose')
      BY <1>0, <2>1 DEF RefsApart
    <3> SUFFICES ASSUME v[1] \in Loose PROVE v[1] = i BY <2>3 DEF Apart
    <3>1. CASE k \in DOMAIN insts[i].tabs /\ insts'[i].tabs[k] = insts[i].tabs[k]
      <4>1. Apart(v, i, Loose) BY <3>1 DEF ApartInv, RefsApart
      <4> QED BY <4>1 DEF Apart
    <3>2. CASE \E l \in DOMAIN insts[s].tabs : insts'[i].tabs[k] = insts[s].tabs[l]
      <4>1. Apart(v, s, Loose) BY <3>2 DEF ApartInv, RefsApart
      <4> QED BY <4>1, <2>4 DEF Apart
    <3> QED BY <3>1, <3>2, <2>5
  <2>9. CacheApart' BY <1>0, <2>3 DEF ApartInv, CacheApart
  <2>10. FreedFrees' BY <2>1 DEF ApartInv, FreedFrees
  <2> QED BY <2>6, <2>7, <2>8, <2>9, <2>10 DEF ApartInv
<1> QED BY <1>2, <1>3, ImportIs

\* The arrays of the definitions are new, and hold functions of the instance.
LEMMA ApartDefine ==
  ASSUME FreesApart, TypeInv, RefInv, ApartInv, Define
  PROVE  ApartInv'
<1>0. /\ cur.phase = "import" /\ cur.phase # "idle" /\ cur.k > Len(D.imports) /\ UNCHANGED named
      /\ blocks' = blocks \o NewBlocks
  BY DefinedIs
<1>1. /\ I \in DOMAIN insts /\ insts[I].out = "building" /\ insts[I].mod \in DOMAIN Mods
      /\ D = Mods[insts[I].mod] BY <1>0, CurIs DEF D, InstT
<1>2. /\ DOMAIN blocks' = 1 .. Len(blocks) + Len(D.tables) /\ DOMAIN blocks = 1 .. Len(blocks)
      /\ Len(blocks) \in Nat /\ Len(D.tables) \in Nat
      /\ \A b \in DOMAIN blocks : blocks'[b] = blocks[b]
      /\ \A j \in 1 .. Len(D.tables) : blocks'[Len(blocks) + j].els = FirstItems(D.tables[j])
  BY <1>0, NewBlocksAre
<1>3. CASE insts' = [insts EXCEPT ![I].out = "uninstantiable"] /\ UNCHANGED ecache
  <2>1. Steady /\ Kept BY <1>0, <1>1, <1>3, OutSteady DEF Outs
  <2>2. Puts BY <1>2 DEF Puts
  <2>3. \A i \in DOMAIN insts : i \in Listed => i \in Listed' BY <2>1 DEF Steady
  <2> QED BY <1>3, <2>1, <2>2, <2>3, FreedSteady, ApartFrame
<1>4. CASE DefinesOwn
  <2>1. /\ DOMAIN insts' = DOMAIN insts
        /\ \A j \in DOMAIN insts : insts'[j].mod = insts[j].mod /\ insts'[j].out = insts[j].out
        /\ \A j \in DOMAIN insts : j # I => insts'[j] = insts[j]
        /\ ecache' = [ecache EXCEPT ![insts[I].mod] = NewCache]
    BY <1>4 DEF DefinesOwn
  <2>2. \A j : j \in Listed' <=> j \in Listed BY <1>0 DEF Listed
  <2>3. \A j : j \in Loose' <=> j \in Loose BY <2>1, <2>2 DEF Loose
  <2>4. \A j \in DOMAIN insts : \A k \in DOMAIN insts'[j].tabs :
          \/ k \in DOMAIN insts[j].tabs /\ insts'[j].tabs[k] = insts[j].tabs[k]
          \/ j = I /\ \E x \in 1 .. Len(D.tables) : insts'[j].tabs[k].blk = Len(blocks) + x
    <3>1. \A k \in DOMAIN insts'[I].tabs :
            \/ k \in DOMAIN insts[I].tabs /\ insts'[I].tabs[k] = insts[I].tabs[k]
            \/ \E x \in 1 .. Len(D.tables) :
                 insts'[I].tabs[k] = NewTable(x, Len(blocks) + x, Len(want) + x)
      BY <1>4 DEF DefinesOwn
    <3>a. \A k, b, tid : NewTable(k, b, tid).blk = b BY DEF NewTable
    <3>2. ASSUME NEW k \in DOMAIN insts'[I].tabs
          PROVE  \/ k \in DOMAIN insts[I].tabs /\ insts'[I].tabs[k] = insts[I].tabs[k]
                 \/ \E x \in 1 .. Len(D.tables) : insts'[I].tabs[k].blk = Len(blocks) + x
      <4>1. CASE k \in DOMAIN insts[I].tabs /\ insts'[I].tabs[k] = insts[I].tabs[k] BY <4>1
      <4>2. ASSUME NEW x \in 1 .. Len(D.tables),
                   insts'[I].tabs[k] = NewTable(x, Len(blocks) + x, Len(want) + x)
            PROVE  insts'[I].tabs[k].blk = Len(blocks) + x
        BY <3>a, <4>2
      <4> QED BY <3>1, <4>1, <4>2
    <3> QED BY <2>1, <3>2
  <2>5. \A j \in DOMAIN insts : \A k \in DOMAIN insts[j].tabs : insts[j].tabs[k].blk \in 1 .. Len(blocks)
    BY <1>2, BlocksAre
  <2>6. TabsOwned'
    <3> SUFFICES ASSUME NEW i \in DOMAIN insts, NEW j \in DOMAIN insts,
                        NEW k \in DOMAIN insts'[i].tabs, NEW l \in DOMAIN insts'[j].tabs,
                        i \in Loose, insts'[i].tabs[k].blk = insts'[j].tabs[l].blk
                 PROVE  i = j
      BY <2>1, <2>3 DEF TabsOwned
    <3>1. CASE /\ k \in DOMAIN insts[i].tabs /\ insts'[i].tabs[k] = insts[i].tabs[k]
               /\ l \in DOMAIN insts[j].tabs /\ insts'[j].tabs[l] = insts[j].tabs[l]
      BY <3>1 DEF ApartInv, TabsOwned
    <3>2. CASE /\ k \in DOMAIN insts[i].tabs /\ insts'[i].tabs[k] = insts[i].tabs[k]
               /\ \E x \in 1 .. Len(D.tables) : insts'[j].tabs[l].blk = Len(blocks) + x
      <4>1. insts'[i].tabs[k].blk \in 1 .. Len(blocks) BY <3>2, <2>5
      <4> QED BY <3>2, <4>1, <1>2
    <3>3. CASE /\ l \in DOMAIN insts[j].tabs /\ insts'[j].tabs[l] = insts[j].tabs[l]
               /\ \E x \in 1 .. Len(D.tables) : insts'[i].tabs[k].blk = Len(blocks) + x
      <4>1. insts'[j].tabs[l].blk \in 1 .. Len(blocks) BY <3>3, <2>5
      <4> QED BY <3>3, <4>1, <1>2
    <3> QED BY <3>1, <3>2, <3>3, <2>4
  <2>7. FuncsHeld'
    <3> SUFFICES ASSUME NEW i \in DOMAIN insts, NEW f \in DOMAIN insts'[i].funcs
                 PROVE  insts'[i].funcs[f].inst = i \/ insts'[i].funcs[f].inst \in Listed
      BY <2>1, <2>2 DEF FuncsHeld
    <3>1. \/ f \in DOMAIN insts[i].funcs /\ insts'[i].funcs[f] = insts[i].funcs[f]
          \/ i = I /\ insts'[i].funcs[f].inst = I
      BY <1>4 DEF DefinesOwn
    <3> QED BY <3>1 DEF ApartInv, FuncsHeld
  <2>8. RefsApart'
    <3> SUFFICES ASSUME NEW i \in DOMAIN insts, NEW k \in DOMAIN insts'[i].tabs,
                        NEW b, b = insts'[i].tabs[k].blk, NEW y \in DOMAIN blocks'[b].els,
                        NEW v, v = blocks'[b].els[y]
                 PROVE  Apart(v, i, Loose')
      BY <2>1 DEF RefsApart
    <3> SUFFICES ASSUME v[1] \in Loose PROVE v[1] = i BY <2>3 DEF Apart
    <3>1. CASE k \in DOMAIN insts[i].tabs /\ insts'[i].tabs[k] = insts[i].tabs[k]
      <4>1. b = insts[i].tabs[k].blk /\ b \in 1 .. Len(blocks) BY <3>1, <2>5
      <4>2. blocks'[b] = blocks[b] BY <4>1, <1>2
      <4>3. Apart(v, i, Loose) BY <3>1, <4>1, <4>2 DEF ApartInv, RefsApart
      <4> QED BY <4>3 DEF Apart
    <3>2. CASE i = I /\ \E x \in 1 .. Len(D.tables) : insts'[i].tabs[k].blk = Len(blocks) + x
      <4>1. PICK x \in 1 .. Len(D.tables) : b = Len(blocks) + x BY <3>2
      <4>2. blocks'[b].els = FirstItems(D.tables[x]) BY <4>1, <1>2
      <4>3. v = Null \/ v[1] = I BY <4>2, <1>0, FirstItemsAre
      <4> QED BY <3>2, <4>3, NotLoose
    <3> QED BY <3>1, <3>2, <2>4
  <2>9. CacheApart'
    <3> SUFFICES ASSUME NEW m \in DOMAIN Mods, NEW g \in DOMAIN Mods[m].elems,
                        NEW y \in DOMAIN ecache'[m][g], NEW v, v = ecache'[m][g][y], v[1] \in Loose
                 PROVE  FALSE
      BY <2>3 DEF CacheApart
    <3>0. DOMAIN ecache = DOMAIN Mods BY DEF RefInv, CacheExists
    <3>1. CASE m # insts[I].mod
      <4>1. ecache'[m] = ecache[m] BY <3>0, <3>1, <2>1
      <4> QED BY <4>1 DEF ApartInv, CacheApart
    <3>2. CASE m = insts[I].mod
      <4>1. ecache'[m] = NewCache BY <3>0, <3>2, <2>1
      <4>2. g \in DOMAIN D.elems /\ y \in DOMAIN NewCache[g] /\ v = NewCache[g][y]
        BY <3>2, <4>1, <1>1
      <4>3. \/ y \in DOMAIN ecache[m][g] /\ v = ecache[m][g][y]
            \/ D.elems[g].expr /\ v[1] = I
        BY <3>2, <4>2, <1>0, NewCacheIs
      <4>4. D.elems[g].expr => I \notin Loose BY <4>2, <1>1 DEF FreesApart, Loose
      <4> QED BY <4>3, <4>4 DEF ApartInv, CacheApart
    <3> QED BY <3>1, <3>2
  <2>10. FreedFrees' BY <2>1 DEF ApartInv, FreedFrees
  <2> QED BY <2>6, <2>7, <2>8, <2>9, <2>10 DEF ApartInv
<1> QED BY <1>3, <1>4, DefinedIs

\* Every step keeps loose instances apart.
LEMMA ApartStep ==
  ASSUME FreesApart, TypeInv, RefInv, ApartInv, [Next]_vars
  PROVE  ApartInv'
<1>1. ASSUME NEW m \in DOMAIN Mods, Begin(m) PROVE ApartInv' BY <1>1, ApartBegin
<1>2. CASE Import BY <1>2, ApartImport
<1>3. CASE Define BY <1>3, ApartDefine
<1>4. CASE Elem BY <1>4, ApartElem
<1>5. CASE Data BY <1>5, DataQuiet, ApartQuiet
<1>6. CASE Finish \/ StartEnds("ok") \/ StartEnds("trapped")
  <2>1. UNCHANGED <<blocks, ecache>> BY <1>6 DEF Finish, StartEnds
  <2> QED BY <1>6, <2>1, FinishQuiet, ApartQuiet
<1>7. ASSUME NEW n \in Names, NEW i \in DOMAIN insts, Register(n, i) PROVE ApartInv'
  <2>1. UNCHANGED <<insts, blocks, ecache>> BY <1>7 DEF Register
  <2>2. Steady BY <1>7, RegisterQuiet
  <2> QED BY <2>1, <2>2, KeptSame, ApartQuiet
<1>8. ASSUME NEW i \in DOMAIN insts, Free(i) PROVE ApartInv' BY <1>8, ApartFree
<1>9. ASSUME NEW i \in Runs, Run(i) PROVE ApartInv' BY <1>9, ApartRun
<1>10. CASE UNCHANGED vars
  <2>1. UNCHANGED <<insts, blocks, ecache, named>> BY <1>10 DEF vars
  <2> QED BY <2>1, SameSteady, ApartQuiet
<1> QED BY <1>1, <1>2, <1>3, <1>4, <1>5, <1>6, <1>7, <1>8, <1>9, <1>10 DEF Next

\* Where the host frees only instances that import no table and have no
\* segment of expressions, no function that a table of an instance it holds
\* makes callable belongs to a freed instance, and each has its prologue fields
\* set, whatever failed instantiations left behind (runtime.c:305-330, 579-583,
\* 590-644).
THEOREM FreedNeverCalled == FreesApart => (Spec => []LeakedCallable)
<1> SUFFICES ASSUME FreesApart PROVE Spec => []LeakedCallable OBVIOUS
<1>1. Init => TypeInv /\ RefInv /\ ApartInv BY TypeInit, RefInit, ApartInit
<1>2. TypeInv /\ RefInv /\ ApartInv /\ [Next]_vars => TypeInv' /\ RefInv' /\ ApartInv'
  BY LinkingStep, ApartStep
<1>3. TypeInv /\ RefInv /\ ApartInv => LeakedCallable BY ApartGives
<1> QED BY <1>1, <1>2, <1>3, PTL DEF Spec
=============================================================================
