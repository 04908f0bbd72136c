--------------------------- MODULE LinkingProofs ---------------------------
(***************************************************************************)
(* Theorems about Linking, for every set of validated modules, every host  *)
(* and every program.                                                      *)
(***************************************************************************)
EXTENDS LinkingProps, FiniteSetTheorems, SequenceTheorems, WellFoundedInduction, TLAPS

----------------------------------------------------------------------------
(* Sequences and counts.                                                   *)

\* What Append does to a sequence.
LEMMA Appended ==
  ASSUME NEW S, NEW s \in Seq(S), NEW e \in S
  PROVE  /\ Append(s, e) \in Seq(S) /\ Len(Append(s, e)) = Len(s) + 1
         /\ \A j \in 1 .. Len(s) : Append(s, e)[j] = s[j]
         /\ Append(s, e)[Len(s) + 1] = e
         /\ DOMAIN Append(s, e) = 1 .. Len(s) + 1 /\ DOMAIN s = 1 .. Len(s)
         /\ Len(s) \in Nat
  BY LenProperties, AppendProperties

\* What concatenation does.
LEMMA Joined ==
  ASSUME NEW S, NEW s \in Seq(S), NEW t \in Seq(S)
  PROVE  /\ s \o t \in Seq(S) /\ Len(s \o t) = Len(s) + Len(t)
         /\ DOMAIN (s \o t) = 1 .. Len(s) + Len(t)
         /\ DOMAIN s = 1 .. Len(s) /\ DOMAIN t = 1 .. Len(t)
         /\ Len(s) \in Nat /\ Len(t) \in Nat
         /\ \A i \in DOMAIN s : (s \o t)[i] = s[i]
         /\ \A i \in DOMAIN t : (s \o t)[Len(s) + i] = t[i]
         /\ \A i \in DOMAIN (s \o t) : i \in DOMAIN s \/ i - Len(s) \in DOMAIN t
<1>1. /\ s \o t \in Seq(S) /\ Len(s \o t) = Len(s) + Len(t)
      /\ \A i \in 1 .. Len(s) + Len(t) : (s \o t)[i] = IF i <= Len(s) THEN s[i] ELSE t[i - Len(s)]
  BY ConcatProperties
<1>2. /\ DOMAIN (s \o t) = 1 .. Len(s) + Len(t)
      /\ DOMAIN s = 1 .. Len(s) /\ DOMAIN t = 1 .. Len(t)
      /\ Len(s) \in Nat /\ Len(t) \in Nat BY <1>1, LenProperties
<1> QED BY <1>1, <1>2

\* A function whose domain is an initial segment is a sequence.
LEMMA Tabulated ==
  ASSUME NEW S, NEW n \in Nat, NEW f \in [1 .. n -> S]
  PROVE  f \in Seq(S) /\ Len(f) = n
  OBVIOUS

\* The imports of a kind among the first n.
Counted(m, kind, n) ==
  Cardinality({k \in 1 .. n : Mods[m].imports[k].kind = kind})

\* How many of the first n imports of m have a kind is a number.
LEMMA CountFinite ==
  ASSUME NEW m, NEW kind, NEW n \in Nat
  PROVE  /\ IsFiniteSet({k \in 1 .. n : Mods[m].imports[k].kind = kind})
         /\ Counted(m, kind, n) \in Nat
<1>1. IsFiniteSet(1 .. n) BY FS_Interval
<1>2. {k \in 1 .. n : Mods[m].imports[k].kind = kind} \in SUBSET (1 .. n) OBVIOUS
<1>3. IsFiniteSet({k \in 1 .. n : Mods[m].imports[k].kind = kind}) BY <1>1, <1>2, FS_Subset
<1> QED BY <1>3, FS_CardinalityType DEF Counted

\* The count goes up by one at an import of the kind.
LEMMA CountStep ==
  ASSUME NEW m, NEW kind, NEW n \in Nat
  PROVE  /\ Counted(m, kind, 0) = 0
         /\ Counted(m, kind, n + 1) =
              IF Mods[m].imports[n + 1].kind = kind THEN Counted(m, kind, n) + 1
              ELSE Counted(m, kind, n)
<1> DEFINE S(x) == {k \in 1 .. x : Mods[m].imports[k].kind = kind}
<1>1. S(0) = {} OBVIOUS
<1>2. IsFiniteSet(S(n)) BY CountFinite
<1>3. n + 1 \notin S(n) OBVIOUS
<1>4. CASE Mods[m].imports[n + 1].kind = kind
  <2>1. S(n + 1) = S(n) \cup {n + 1} BY <1>4
  <2>2. Cardinality(S(n) \cup {n + 1}) = Cardinality(S(n)) + 1 BY <1>2, <1>3, FS_AddElement
  <2> QED BY <1>1, <1>4, <2>1, <2>2, FS_EmptySet DEF Counted
<1>5. CASE Mods[m].imports[n + 1].kind # kind
  <2>1. S(n + 1) = S(n) BY <1>5
  <2> QED BY <1>1, <1>5, <2>1, FS_EmptySet DEF Counted
<1> QED BY <1>4, <1>5

\* The first imports of a kind are no more than all of them.
LEMMA CountAll ==
  ASSUME NEW m \in DOMAIN Mods, NEW kind, NEW n \in Nat, n <= Len(Mods[m].imports)
  PROVE  /\ Len(Mods[m].imports) \in Nat /\ Imported(m, kind) \in Nat
         /\ Counted(m, kind, n) <= Imported(m, kind)
         /\ Counted(m, kind, Len(Mods[m].imports)) = Imported(m, kind)
<1> DEFINE S(x) == {k \in 1 .. x : Mods[m].imports[k].kind = kind}
           L == Len(Mods[m].imports)
<1>1. Mods[m].imports \in Seq({Mods[m].imports[k] : k \in DOMAIN Mods[m].imports})
  BY LinkingMods DEF Valid
<1>2. L \in Nat /\ DOMAIN Mods[m].imports = 1 .. L BY <1>1, LenProperties
<1>3. Imported(m, kind) = Cardinality(S(L)) BY <1>2 DEF Imported
<1>4. IsFiniteSet(S(L)) BY <1>2, CountFinite
<1>5. S(n) \in SUBSET S(L) BY <1>2
<1>6. Cardinality(S(n)) <= Cardinality(S(L)) BY <1>4, <1>5, FS_Subset
<1>7. Cardinality(S(L)) \in Nat BY <1>4, FS_CardinalityType
<1> QED BY <1>2, <1>3, <1>6, <1>7 DEF Counted

\* So are the sizes of a module's index spaces.
LEMMA SpaceNat ==
  ASSUME NEW m \in DOMAIN Mods, NEW kind \in Kinds
  PROVE  Imported(m, kind) \in Nat /\ Defined(m, kind) \in Nat
<1>1. Valid(m) BY LinkingMods
<1>2. \A s \in {"funcs", "tables", "mems", "tags", "globals"} :
        Mods[m][s] \in Seq({Mods[m][s][k] : k \in DOMAIN Mods[m][s]}) BY <1>1 DEF Valid
<1>3. \A s \in {"funcs", "tables", "mems", "tags", "globals"} : Len(Mods[m][s]) \in Nat
  BY <1>2, LenProperties
<1>4. Defined(m, kind) \in Nat BY <1>3 DEF Defined, Kinds
<1>5. 0 <= Len(Mods[m].imports)
  <2>1. Mods[m].imports \in Seq({Mods[m].imports[k] : k \in DOMAIN Mods[m].imports})
    BY <1>1 DEF Valid
  <2> QED BY <2>1, LenProperties
<1>6. Imported(m, kind) \in Nat BY <1>5, CountAll
<1> QED BY <1>4, <1>6

\* The least element of a set of naturals.
LEMMA Least ==
  ASSUME NEW S, S \subseteq Nat, S # {}
  PROVE  \E x \in S : \A y \in S : x <= y
<1>1. PICK R : IsWellFoundedOn(R, Nat) /\ \A x, y \in Nat : y < x => <<y, x>> \in R
  BY NatLessThanWellFounded DEF OpToRel
<1>2. PICK x \in S : \A y \in S : ~ (<<y, x>> \in R) BY <1>1, WFMin
<1>3. \A y \in S : x <= y
  <2> TAKE y \in S
  <2>1. x \in Nat /\ y \in Nat OBVIOUS
  <2>2. ~ (y < x) BY <1>1, <1>2, <2>1
  <2> QED BY <2>1, <2>2
<1> QED BY <1>3

\* f is the recursive function of NewCells, for the initialisers gs.
IsCells(f, cs, at, globs, gs, n) ==
  f = [k \in 0 .. n |-> IF k = 0 THEN cs
                        ELSE [f[k - 1] EXCEPT ![at + k] = Eval(globs, f[k - 1], gs[k])]]

\* It exists.
LEMMA CellsExist ==
  ASSUME NEW cs, NEW at, NEW globs, NEW gs, NEW n \in Nat
  PROVE  \E f : IsCells(f, cs, at, globs, gs, n)
<1> USE DEF IsCells
<1> DEFINE Next1(f, k) == [f[k - 1] EXCEPT ![at + k] = Eval(globs, f[k - 1], gs[k])]
           G(f, x) == f = [k \in 0 .. x |-> IF k = 0 THEN cs ELSE Next1(f, k)]
           S == {x \in Nat : ~ \E f : G(f, x)}
<1>1. SUFFICES ASSUME S # {} PROVE FALSE OBVIOUS
<1>2. PICK x \in S : \A y \in S : x <= y BY <1>1, Least
<1>3. x \in Nat /\ ~ \E f : G(f, x) BY <1>2
<1>4. CASE x = 0
  <2> DEFINE f == [k \in 0 .. 0 |-> cs]
  <2>1. G(f, x) BY <1>4
  <2> QED BY <2>1, <1>3
<1>5. CASE x # 0
  <2>a. x - 1 \in Nat /\ ~ (x <= x - 1) BY <1>3, <1>5
  <2>1. x - 1 \in Nat /\ x - 1 \notin S
    <3> HIDE DEF S
    <3> QED BY <1>2, <2>a
  <2>2. PICK g : G(g, x - 1) BY <2>1
  <2> DEFINE h == [k \in 0 .. x |-> IF k = x THEN Next1(g, x) ELSE g[k]]
  <2>3. \A k \in 0 .. x - 1 : g[k] = IF k = 0 THEN cs ELSE Next1(g, k) BY <2>2, <2>1
  <2>4. \A k \in 0 .. x - 1 : h[k] = g[k] BY <1>3
  <2>5. \A k \in 1 .. x : Next1(h, k) = Next1(g, k)
    <3> HIDE DEF h
    <3> TAKE k \in 1 .. x
    <3>1. k - 1 \in 0 .. x - 1 BY <1>3
    <3>2. h[k - 1] = g[k - 1] BY <2>4, <3>1
    <3> QED BY <3>2
  <2>6. \A k \in 0 .. x : h[k] = IF k = 0 THEN cs ELSE Next1(h, k)
    <3> TAKE k \in 0 .. x
    <3>0. h[x] = Next1(g, x) BY <1>3
    <3> HIDE DEF h, Next1
    <3>1. CASE k = x BY <3>0, <3>1, <2>5, <1>3, <1>5
    <3>2. CASE k # x /\ k = 0 BY <3>2, <2>3, <2>4, <1>3, <1>5
    <3>3. CASE k # x /\ k # 0
      <4>1. k \in 0 .. x - 1 /\ k \in 1 .. x BY <3>3, <1>3
      <4>2. h[k] = g[k] /\ g[k] = Next1(g, k) BY <4>1, <3>3, <2>3, <2>4
      <4> QED BY <4>1, <4>2, <2>5, <3>3
    <3> QED BY <3>1, <3>2, <3>3
  <2> HIDE DEF Next1
  <2>7. G(h, x) BY <2>6
  <2> QED BY <2>7, <1>3
<1> QED BY <1>4, <1>5

\* An initialiser is a constant or reads a cell; its own cell is there.
Readable(cs, at, globs, gs, n) ==
  \A k \in 1 .. n :
    /\ at + k \in 1 .. Len(cs)
    /\ gs[k].op = "const" => gs[k].v \in Int
    /\ gs[k].op # "const" => globs[gs[k].g] \in 1 .. Len(cs)

\* Initialising a module's globals keeps the cells there are.
LEMMA CellsKeep ==
  ASSUME NEW cs \in Seq(Int), NEW at, NEW globs, NEW gs, NEW n \in Nat,
         Readable(cs, at, globs, gs, n), NEW f, IsCells(f, cs, at, globs, gs, n)
  PROVE  f[n] \in Seq(Int) /\ Len(f[n]) = Len(cs)
<1>a. /\ \A k \in 1 .. n : at + k \in 1 .. Len(cs)
      /\ \A k \in 1 .. n : gs[k].op = "const" => gs[k].v \in Int
      /\ \A k \in 1 .. n : gs[k].op # "const" => globs[gs[k].g] \in 1 .. Len(cs)
  BY DEF Readable
<1> DEFINE Next1(k) == [f[k - 1] EXCEPT ![at + k] = Eval(globs, f[k - 1], gs[k])]
<1>b. \A k \in 0 .. n : f[k] = IF k = 0 THEN cs ELSE Next1(k)
  <2> DEFINE F == [k \in 0 .. n |-> IF k = 0 THEN cs ELSE Next1(k)]
  <2>1. f = F BY DEF IsCells
  <2> HIDE DEF Next1
  <2>2. \A k \in 0 .. n : F[k] = IF k = 0 THEN cs ELSE Next1(k) OBVIOUS
  <2> HIDE DEF F
  <2> QED BY <2>1, <2>2
<1>c. f[0] = cs
  <2> HIDE DEF Next1
  <2> QED BY <1>b
<1>d. \A k \in 1 .. n : f[k] = Next1(k)
  <2> HIDE DEF Next1
  <2> TAKE k \in 1 .. n
  <2>1. k \in 0 .. n /\ k # 0 OBVIOUS
  <2> QED BY <2>1, <1>b
<1> DEFINE P(k) == f[k] \in Seq(Int) /\ Len(f[k]) = Len(cs)
           S == {k \in Nat : k <= n /\ ~ P(k)}
<1>1. SUFFICES ASSUME S # {} PROVE FALSE
  <2>1. n \in Nat /\ n <= n OBVIOUS
  <2> QED BY <2>1
<1>2. PICK x \in S : \A y \in S : x <= y BY <1>1, Least
<1>3. x \in Nat /\ x <= n /\ ~ P(x) BY <1>2
<1>5. x # 0 BY <1>c, <1>3
<1>6. x - 1 \in Nat /\ ~ (x <= x - 1) /\ x - 1 <= n /\ x \in 1 .. n BY <1>3, <1>5
<1>7. P(x - 1)
  <2>1. x - 1 \notin S
    <3> HIDE DEF S
    <3> QED BY <1>2, <1>6
  <2> QED BY <2>1, <1>6
<1>9. Eval(globs, f[x - 1], gs[x]) \in Int
  <2>1. CASE gs[x].op = "const" BY <2>1, <1>a, <1>6 DEF Eval
  <2>2. CASE gs[x].op # "const"
    <3>1. globs[gs[x].g] \in 1 .. Len(cs) BY <2>2, <1>a, <1>6
    <3>2. globs[gs[x].g] \in 1 .. Len(f[x - 1]) BY <3>1, <1>7
    <3>3. f[x - 1][globs[gs[x].g]] \in Int BY <3>2, <1>7, ElementOfSeq
    <3> QED BY <2>2, <3>3 DEF Eval
  <2> QED BY <2>1, <2>2
<1>10. P(x)
  <2> DEFINE s == f[x - 1] e == Eval(globs, f[x - 1], gs[x])
  <2>1. s \in Seq(Int) /\ e \in Int /\ f[x] = [s EXCEPT ![at + x] = e] /\ Len(s) = Len(cs)
    BY <1>7, <1>d, <1>6, <1>9
  <2>2. at + x \in 1 .. Len(s) BY <2>1, <1>6, <1>a
  <2>3. P(x) <=> f[x] \in Seq(Int) /\ Len(f[x]) = Len(cs) OBVIOUS
  <2> HIDE DEF s, e, P
  <2>4. f[x] \in Seq(Int) /\ Len(f[x]) = Len(s) BY <2>1, <2>2, ExceptSeq
  <2> QED BY <2>1, <2>3, <2>4
<1> QED BY <1>10, <1>3

----------------------------------------------------------------------------
(* The type invariant, and what the phases of an instantiation have built. *)

Ref == Int \X Int

TagTypes == UNION {{Mods[m].tags[k] : k \in DOMAIN Mods[m].tags} : m \in DOMAIN Mods}

TableT == [is64 : BOOLEAN, size : Nat, max : Nat, has_max : BOOLEAN, blk : Nat, tid : Nat]
FuncT == [inst : Nat, type : FuncTypes]
TagT == [ident : Nat \X Nat, type : TagTypes]
InstT ==
  [mod : DOMAIN Mods, tabs : Seq(TableT), mems : Seq(Nat), globs : Seq(Nat),
   funcs : Seq(FuncT), tags : Seq(TagT), jit_mem0 : BOOLEAN, out : Outs,
   elem_alive : UNION {[DOMAIN Mods[m].elems -> BOOLEAN] : m \in DOMAIN Mods},
   data_alive : UNION {[DOMAIN Mods[m].datas -> BOOLEAN] : m \in DOMAIN Mods}]
BlockT == [live : BOOLEAN, els : Seq(Ref)]
MemT == [pages : Nat, max : Nat, has_max : BOOLEAN, is64 : BOOLEAN, live : BOOLEAN,
         bytes : Seq(Ref)]

Shapes ==
  /\ insts \in Seq(InstT) /\ blocks \in Seq(BlockT) /\ mems \in Seq(MemT)
  /\ cells \in Seq(Int) /\ want \in Seq(Seq(Ref)) /\ named \in Seq(Names \X Nat)
  /\ cur \in [inst : Nat, phase : {"idle", "import", "elem", "data", "start"}, k : Nat]
  /\ ops \in 0 .. MaxOps
  /\ \A a \in DOMAIN mems : Len(mems[a].bytes) = mems[a].pages * Page

\* How many entries of an index space an instance has.
Has(x, kind) ==
  CASE kind = "func"   -> Len(x.funcs)
    [] kind = "table"  -> Len(x.tabs)
    [] kind = "memory" -> Len(x.mems)
    [] kind = "tag"    -> Len(x.tags)
    [] kind = "global" -> Len(x.globs)

\* An instance has all of every index space once its jit_mem0 is set, and
\* imports only before.
Sized ==
  \A i \in DOMAIN insts : \A kind \in Kinds :
    LET x == insts[i]
    IN  IF x.jit_mem0 THEN Has(x, kind) = Imported(x.mod, kind) + Defined(x.mod, kind)
        ELSE Has(x, kind) <= Imported(x.mod, kind)

\* The instantiation under way is the last one; while it imports, the
\* instance has the imports before cur.k.
Phase ==
  cur # Idle =>
    /\ cur.phase # "idle" /\ cur.inst = Len(insts) /\ cur.inst # 0 /\ cur.k # 0
    /\ insts[cur.inst].out = "building"
    /\ cur.phase # "import" => insts[cur.inst].jit_mem0
    /\ cur.phase = "import" =>
         /\ ~ insts[cur.inst].jit_mem0
         /\ cur.k <= Len(Mods[insts[cur.inst].mod].imports) + 1
         /\ \A kind \in Kinds :
              Has(insts[cur.inst], kind) = Counted(insts[cur.inst].mod, kind, cur.k - 1)

Outcomes ==
  \A i \in DOMAIN insts :
    /\ insts[i].out = "building" => i = cur.inst /\ cur # Idle
    /\ insts[i].out \in {"ok", "trapped", "freed"} => insts[i].jit_mem0

Registered ==
  \A k \in 1 .. Len(named) : named[k][2] \in DOMAIN insts /\ insts[named[k][2]].out = "ok"

\* Indices of an instance lead to blocks, tables, memories and cells.
Leads ==
  \A i \in DOMAIN insts :
    /\ \A k \in DOMAIN insts[i].tabs :
         insts[i].tabs[k].blk \in DOMAIN blocks /\ insts[i].tabs[k].tid \in DOMAIN want
    /\ \A k \in DOMAIN insts[i].mems : insts[i].mems[k] \in DOMAIN mems
    /\ \A k \in DOMAIN insts[i].globs : insts[i].globs[k] \in DOMAIN cells

TypeInv == Shapes /\ Sized /\ Phase /\ Outcomes /\ Registered /\ Leads

\* The invariant implies the property the run checks.
LEMMA TypeInvGivesTypeOK ==
  ASSUME TypeInv PROVE TypeOK
<1> USE DEF TypeInv
<1>1. insts \in Seq(InstT) /\ named \in Seq(Names \X Nat) /\ DOMAIN insts = 1 .. Len(insts)
  BY LenProperties DEF Shapes
<1>2. \A i \in DOMAIN insts : insts[i].mod \in DOMAIN Mods /\ insts[i].out \in Outs
  <2> TAKE i \in DOMAIN insts
  <2>1. insts[i] \in InstT BY <1>1, ElementOfSeq
  <2> QED BY <2>1 DEF InstT
<1>3. \A i \in DOMAIN insts : insts[i].out = "building" => i = cur.inst /\ i = Len(insts)
  BY DEF Outcomes, Phase
<1>4. \A k \in 1 .. Len(named) : named[k] \in Names \X DOMAIN insts
  <2> TAKE k \in 1 .. Len(named)
  <2>1. named[k] \in Names \X Nat BY <1>1, ElementOfSeq
  <2>2. named[k][2] \in DOMAIN insts BY DEF Registered
  <2> QED BY <2>1, <2>2
<1>5. \A i \in DOMAIN insts :
        /\ \A k \in DOMAIN insts[i].tabs :
             insts[i].tabs[k].blk \in DOMAIN blocks /\ insts[i].tabs[k].tid \in DOMAIN want
        /\ \A k \in DOMAIN insts[i].mems : insts[i].mems[k] \in DOMAIN mems
        /\ \A k \in DOMAIN insts[i].globs : insts[i].globs[k] \in DOMAIN cells
  BY DEF Leads
<1>6. ops \in 0 .. MaxOps /\ \A a \in DOMAIN mems : Len(mems[a].bytes) = mems[a].pages * Page
  BY DEF Shapes
<1> QED BY <1>2, <1>3, <1>4, <1>5, <1>6 DEF TypeOK

\* The empty store has its types.
LEMMA TypeInit ==
  ASSUME Init PROVE TypeInv
<1>1. DOMAIN insts = {} /\ DOMAIN mems = {} /\ Len(named) = 0 /\ cur = Idle BY DEF Init
<1>2. Shapes
  <2>1. 0 \in 0 .. MaxOps BY LinkingBounds
  <2>2. cur \in [inst : Nat, phase : {"idle", "import", "elem", "data", "start"}, k : Nat]
    BY <1>1 DEF Idle
  <2> QED BY <1>1, <2>1, <2>2 DEF Init, Shapes
<1> QED BY <1>1, <1>2 DEF TypeInv, Sized, Phase, Outcomes, Registered, Leads

\* A step that leaves every instance its module, its index spaces and its
\* compiled code's fields.
Kept ==
  /\ insts' \in Seq(InstT) /\ Len(insts') = Len(insts)
  /\ \A i \in DOMAIN insts :
       /\ insts'[i].mod = insts[i].mod /\ insts'[i].tabs = insts[i].tabs
       /\ insts'[i].mems = insts[i].mems /\ insts'[i].globs = insts[i].globs
       /\ insts'[i].funcs = insts[i].funcs /\ insts'[i].tags = insts[i].tags
       /\ insts'[i].jit_mem0 = insts[i].jit_mem0

\* The instances by number.
LEMMA InstsAre ==
  ASSUME TypeInv
  PROVE  /\ Len(insts) \in Nat /\ DOMAIN insts = 1 .. Len(insts)
         /\ \A i \in DOMAIN insts : insts[i] \in InstT
<1>1. insts \in Seq(InstT) BY DEF TypeInv, Shapes
<1> QED BY <1>1, LenProperties, ElementOfSeq

\* Setting out, elem_alive or data_alive of one instance is such a step.
LEMMA KeptBy ==
  ASSUME TypeInv, NEW i \in DOMAIN insts, NEW y \in InstT,
         insts' = [insts EXCEPT ![i] = y],
         y.mod = insts[i].mod, y.tabs = insts[i].tabs, y.mems = insts[i].mems,
         y.globs = insts[i].globs, y.funcs = insts[i].funcs, y.tags = insts[i].tags,
         y.jit_mem0 = insts[i].jit_mem0
  PROVE  /\ Kept /\ DOMAIN insts' = DOMAIN insts /\ insts'[i] = y
         /\ \A j \in DOMAIN insts : j # i => insts'[j] = insts[j]
<1>1. insts \in Seq(InstT) /\ DOMAIN insts = 1 .. Len(insts) /\ i \in 1 .. Len(insts)
  BY LenProperties DEF TypeInv, Shapes
<1>2. insts' \in Seq(InstT) /\ Len(insts') = Len(insts) BY <1>1, ExceptSeq
<1>3. DOMAIN insts' = DOMAIN insts /\ insts'[i] = y
      /\ \A j \in DOMAIN insts : j # i => insts'[j] = insts[j] OBVIOUS
<1> QED BY <1>2, <1>3 DEF Kept

\* A step that leaves the instances alone keeps what they hold.
LEMMA KeptSame ==
  ASSUME TypeInv, insts' = insts PROVE Kept
  BY DEF TypeInv, Shapes, Kept

\* What is kept are the sizes of all index spaces, and which memories are held.
LEMMA KeptParts ==
  ASSUME TypeInv, Kept
  PROVE  /\ DOMAIN insts' = DOMAIN insts
         /\ \A i \in DOMAIN insts, kind \in Kinds : Has(insts'[i], kind) = Has(insts[i], kind)
         /\ Sized'
         /\ DOMAIN blocks \subseteq DOMAIN blocks' /\ DOMAIN want \subseteq DOMAIN want'
            /\ DOMAIN mems \subseteq DOMAIN mems' /\ DOMAIN cells \subseteq DOMAIN cells' => Leads'
<1>1. DOMAIN insts' = DOMAIN insts BY InstsAre, LenProperties DEF Kept
<1>2. \A i \in DOMAIN insts, kind \in Kinds : Has(insts'[i], kind) = Has(insts[i], kind)
  BY DEF Kept, Has, Kinds
<1>3. Sized' BY <1>1, <1>2 DEF TypeInv, Sized, Kept
<1>4. ASSUME DOMAIN blocks \subseteq DOMAIN blocks', DOMAIN want \subseteq DOMAIN want',
             DOMAIN mems \subseteq DOMAIN mems', DOMAIN cells \subseteq DOMAIN cells'
      PROVE  Leads'
  <2>1. \A i \in DOMAIN insts :
          /\ insts'[i].tabs = insts[i].tabs /\ insts'[i].mems = insts[i].mems
          /\ insts'[i].globs = insts[i].globs BY DEF Kept
  <2> QED BY <1>1, <1>4, <2>1 DEF TypeInv, Leads
<1> QED BY <1>1, <1>2, <1>3, <1>4

\* Nothing the type invariant is about changes.
LEMMA TypeFrame ==
  ASSUME TypeInv, UNCHANGED <<insts, blocks, mems, cells, named, cur, want, ops>>
  PROVE  TypeInv'
  BY DEF TypeInv, Shapes, Sized, Phase, Outcomes, Registered, Leads

\* A new instance holds nothing yet.
LEMMA BeginType ==
  ASSUME TypeInv, NEW m \in DOMAIN Mods, Begin(m)
  PROVE  TypeInv'
<1> DEFINE x == Fresh(m) n == Len(insts)
<1>1. x \in InstT
  <2>1. x.elem_alive \in [DOMAIN Mods[m].elems -> BOOLEAN] BY DEF Fresh
  <2>2. x.data_alive \in [DOMAIN Mods[m].datas -> BOOLEAN] BY DEF Fresh
  <2> QED BY <2>1, <2>2 DEF Fresh, InstT, Outs
<1>2. /\ x.mod = m /\ x.tabs = <<>> /\ x.mems = <<>> /\ x.globs = <<>> /\ x.funcs = <<>>
      /\ x.tags = <<>> /\ x.jit_mem0 = FALSE /\ x.out = "building" BY DEF Fresh
<1>3. insts' = Append(insts, x) /\ insts \in Seq(InstT) /\ n \in Nat
  BY InstsAre DEF Begin, TypeInv, Shapes
<1> HIDE DEF x
<1>4. /\ insts' \in Seq(InstT) /\ Len(insts') = n + 1 /\ DOMAIN insts' = 1 .. n + 1
      /\ DOMAIN insts = 1 .. n
      /\ \A j \in 1 .. n : insts'[j] = insts[j]
      /\ insts'[n + 1] = x BY <1>1, <1>3, Appended
<1> HIDE DEF n
<1>5. /\ cur = Idle /\ cur' = [inst |-> n + 1, phase |-> "import", k |-> 1]
      /\ UNCHANGED <<blocks, mems, cells, named, want, ops>> BY DEF Begin, n
<1>6. \A kind \in Kinds : Has(x, kind) = 0 BY <1>2 DEF Has, Kinds
<1>7. \A j \in DOMAIN insts' : j \in DOMAIN insts \/ j = n + 1 BY <1>3, <1>4
<1>8. Shapes' BY <1>3, <1>4, <1>5 DEF TypeInv, Shapes
<1>9. Sized'
  <2>1. \A kind \in Kinds : Imported(m, kind) \in Nat BY SpaceNat
  <2>2. \A kind \in Kinds : ~ x.jit_mem0 /\ Has(x, kind) <= Imported(x.mod, kind)
    BY <2>1, <1>2, <1>6
  <2> QED BY <2>2, <1>4, <1>7 DEF TypeInv, Sized
<1>10. Phase'
  <2>1. \A kind \in Kinds : Has(x, kind) = Counted(m, kind, 1 - 1)
    <3>1. \A kind \in Kinds : Counted(m, kind, 0) = 0 BY CountStep
    <3> QED BY <3>1, <1>6
  <2>2. 1 <= Len(Mods[m].imports) + 1 BY CountAll
  <2> QED BY <1>2, <1>3, <1>4, <1>5, <2>1, <2>2 DEF Phase, Idle
<1>11. Outcomes'
  <2>1. cur' # Idle BY <1>3, <1>5 DEF Idle
  <2>2. \A j \in DOMAIN insts : insts[j].out # "building" BY <1>5 DEF TypeInv, Outcomes
  <2> QED BY <2>1, <2>2, <1>2, <1>4, <1>5, <1>7 DEF TypeInv, Outcomes
<1>12. Registered'
  <2> SUFFICES ASSUME NEW k \in 1 .. Len(named)
               PROVE  named[k][2] \in DOMAIN insts' /\ insts'[named[k][2]].out = "ok"
    BY <1>5 DEF Registered
  <2>1. named[k][2] \in 1 .. n /\ insts[named[k][2]].out = "ok"
    BY <1>4 DEF TypeInv, Registered
  <2> QED BY <2>1, <1>3, <1>4
<1>13. Leads'
  <2>1. DOMAIN x.tabs = {} /\ DOMAIN x.mems = {} /\ DOMAIN x.globs = {} BY <1>2
  <2> QED BY <2>1, <1>4, <1>5, <1>7 DEF TypeInv, Leads
<1> QED BY <1>8, <1>9, <1>10, <1>11, <1>12, <1>13 DEF TypeInv

\* A registered name leads to an instance that was completed.
LEMMA LookupIs ==
  ASSUME TypeInv, NEW name, Lookup(name) # 0
  PROVE  /\ \E k \in 1 .. Len(named) : Lookup(name) = named[k][2]
         /\ Lookup(name) \in DOMAIN insts /\ insts[Lookup(name)].out = "ok"
         /\ insts[Lookup(name)].jit_mem0
<1> DEFINE K == {k \in 1 .. Len(named) : named[k][1] = name}
           x == CHOOSE k \in K : \A j \in K : k <= j
<1>1. K # {} /\ Lookup(name) = named[x][2] BY DEF Lookup
<1>2. Len(named) \in Nat BY LenProperties DEF TypeInv, Shapes
<1>3. K \subseteq Nat BY <1>2
<1>4. \E k \in K : \A j \in K : k <= j BY <1>1, <1>3, Least
<1>5. x \in K
  <2> HIDE DEF K
  <2> QED BY <1>4
<1>6. x \in 1 .. Len(named) BY <1>5
<1> HIDE DEF x, K
<1>7. named[x][2] \in DOMAIN insts /\ insts[named[x][2]].out = "ok"
  BY <1>6 DEF TypeInv, Registered
<1> QED BY <1>1, <1>6, <1>7 DEF TypeInv, Outcomes

\* An export that is found is an entry of its index space.
LEMMA ExportIs ==
  ASSUME TypeInv, NEW s, s = 0 \/ (s \in DOMAIN insts /\ insts[s].jit_mem0),
         NEW kind \in Kinds, NEW idx, Exports(s, kind, idx)
  PROVE  s \in DOMAIN insts /\ insts[s].jit_mem0 /\ idx \in 1 .. Has(insts[s], kind)
<1>1. s \in DOMAIN insts /\ insts[s].jit_mem0 /\ insts[s].mod \in DOMAIN Mods
  BY InstsAre DEF Exports, InstT
<1>2. <<kind, idx>> \in Mods[insts[s].mod].exports BY DEF Exports
<1>3. Valid(insts[s].mod) BY <1>1, LinkingMods
<1>4. idx \in Space(insts[s].mod, kind) BY <1>2, <1>3 DEF Valid
<1> QED BY <1>1, <1>4 DEF Space, TypeInv, Sized

\* An import adds one entry to one index space of the importer.
LEMMA LinkedIs ==
  ASSUME NEW X \in InstT, NEW S \in InstT, NEW im, im.kind \in Kinds,
         im.idx \in 1 .. Has(S, im.kind),
         NEW Y, Y = Linked(X, S, im)
  PROVE  /\ Y \in InstT /\ Y.mod = X.mod /\ Y.out = X.out /\ Y.jit_mem0 = X.jit_mem0
         /\ \A kind \in Kinds :
              Has(Y, kind) = IF kind = im.kind THEN Has(X, kind) + 1 ELSE Has(X, kind)
         /\ \A k \in DOMAIN Y.tabs :
              \/ k \in DOMAIN X.tabs /\ Y.tabs[k] = X.tabs[k]
              \/ im.kind = "table" /\ im.idx \in DOMAIN S.tabs /\ Y.tabs[k] = S.tabs[im.idx]
         /\ \A k \in DOMAIN Y.mems :
              \/ k \in DOMAIN X.mems /\ Y.mems[k] = X.mems[k]
              \/ im.kind = "memory" /\ im.idx \in DOMAIN S.mems /\ Y.mems[k] = S.mems[im.idx]
         /\ \A k \in DOMAIN Y.globs :
              \/ k \in DOMAIN X.globs /\ Y.globs[k] = X.globs[k]
              \/ im.kind = "global" /\ im.idx \in DOMAIN S.globs /\ Y.globs[k] = S.globs[im.idx]
         /\ \A k \in DOMAIN Y.funcs :
              \/ k \in DOMAIN X.funcs /\ Y.funcs[k] = X.funcs[k]
              \/ im.kind = "func" /\ im.idx \in DOMAIN S.funcs /\ Y.funcs[k] = S.funcs[im.idx]
<1>0. /\ X.tabs \in Seq(TableT) /\ X.mems \in Seq(Nat) /\ X.globs \in Seq(Nat)
      /\ X.funcs \in Seq(FuncT) /\ X.tags \in Seq(TagT)
      /\ S.tabs \in Seq(TableT) /\ S.mems \in Seq(Nat) /\ S.globs \in Seq(Nat)
      /\ S.funcs \in Seq(FuncT) /\ S.tags \in Seq(TagT) BY DEF InstT
<1>1. CASE im.kind = "func"
  <2> DEFINE e == S.funcs[im.idx] t == Append(X.funcs, e)
  <2>1. im.idx \in 1 .. Len(S.funcs) BY <1>1 DEF Has
  <2>2. e \in FuncT /\ DOMAIN S.funcs = 1 .. Len(S.funcs) BY <1>0, <2>1, ElementOfSeq, LenProperties
  <2>3. Y = [X EXCEPT !.funcs = t] BY <1>1 DEF Linked
  <2> HIDE DEF e
  <2>4. /\ t \in Seq(FuncT) /\ Len(t) = Len(X.funcs) + 1 /\ t[Len(X.funcs) + 1] = e
        /\ \A j \in 1 .. Len(X.funcs) : t[j] = X.funcs[j]
        /\ DOMAIN t = 1 .. Len(X.funcs) + 1 /\ DOMAIN X.funcs = 1 .. Len(X.funcs)
        /\ Len(X.funcs) \in Nat BY <1>0, <2>2, Appended
  <2> HIDE DEF t
  <2>5. Y \in InstT BY <2>3, <2>4 DEF InstT
  <2>6. /\ Y.mod = X.mod /\ Y.out = X.out /\ Y.jit_mem0 = X.jit_mem0 /\ Y.tabs = X.tabs
        /\ Y.mems = X.mems /\ Y.globs = X.globs /\ Y.tags = X.tags /\ Y.funcs = t
    BY <2>3 DEF InstT
  <2>7. \A kind \in Kinds :
          Has(Y, kind) = IF kind = im.kind THEN Has(X, kind) + 1 ELSE Has(X, kind)
    BY <1>1, <2>4, <2>6 DEF Has, Kinds
  <2>8. \A k \in DOMAIN Y.funcs :
              \/ k \in DOMAIN X.funcs /\ Y.funcs[k] = X.funcs[k]
              \/ Y.funcs[k] = S.funcs[im.idx] BY <2>4, <2>6 DEF e
  <2> QED BY <1>1, <2>1, <2>2, <2>5, <2>6, <2>7, <2>8
<1>2. CASE im.kind = "table"
  <2> DEFINE e == S.tabs[im.idx] t == Append(X.tabs, e)
  <2>1. im.idx \in 1 .. Len(S.tabs) BY <1>2 DEF Has
  <2>2. e \in TableT /\ DOMAIN S.tabs = 1 .. Len(S.tabs) BY <1>0, <2>1, ElementOfSeq, LenProperties
  <2>3. Y = [X EXCEPT !.tabs = t] BY <1>2 DEF Linked
  <2> HIDE DEF e
  <2>4. /\ t \in Seq(TableT) /\ Len(t) = Len(X.tabs) + 1 /\ t[Len(X.tabs) + 1] = e
        /\ \A j \in 1 .. Len(X.tabs) : t[j] = X.tabs[j]
        /\ DOMAIN t = 1 .. Len(X.tabs) + 1 /\ DOMAIN X.tabs = 1 .. Len(X.tabs)
        /\ Len(X.tabs) \in Nat BY <1>0, <2>2, Appended
  <2> HIDE DEF t
  <2>5. Y \in InstT BY <2>3, <2>4 DEF InstT
  <2>6. /\ Y.mod = X.mod /\ Y.out = X.out /\ Y.jit_mem0 = X.jit_mem0 /\ Y.funcs = X.funcs
        /\ Y.mems = X.mems /\ Y.globs = X.globs /\ Y.tags = X.tags /\ Y.tabs = t
    BY <2>3 DEF InstT
  <2>7. \A kind \in Kinds :
          Has(Y, kind) = IF kind = im.kind THEN Has(X, kind) + 1 ELSE Has(X, kind)
    BY <1>2, <2>4, <2>6 DEF Has, Kinds
  <2>8. \A k \in DOMAIN Y.tabs :
              \/ k \in DOMAIN X.tabs /\ Y.tabs[k] = X.tabs[k]
              \/ Y.tabs[k] = S.tabs[im.idx] BY <2>4, <2>6 DEF e
  <2> QED BY <1>2, <2>1, <2>2, <2>5, <2>6, <2>7, <2>8
<1>3. CASE im.kind = "memory"
  <2> DEFINE e == S.mems[im.idx] t == Append(X.mems, e)
  <2>1. im.idx \in 1 .. Len(S.mems) BY <1>3 DEF Has
  <2>2. e \in Nat /\ DOMAIN S.mems = 1 .. Len(S.mems) BY <1>0, <2>1, ElementOfSeq, LenProperties
  <2>3. Y = [X EXCEPT !.mems = t] BY <1>3 DEF Linked
  <2> HIDE DEF e
  <2>4. /\ t \in Seq(Nat) /\ Len(t) = Len(X.mems) + 1 /\ t[Len(X.mems) + 1] = e
        /\ \A j \in 1 .. Len(X.mems) : t[j] = X.mems[j]
        /\ DOMAIN t = 1 .. Len(X.mems) + 1 /\ DOMAIN X.mems = 1 .. Len(X.mems)
        /\ Len(X.mems) \in Nat BY <1>0, <2>2, Appended
  <2> HIDE DEF t
  <2>5. Y \in InstT BY <2>3, <2>4 DEF InstT
  <2>6. /\ Y.mod = X.mod /\ Y.out = X.out /\ Y.jit_mem0 = X.jit_mem0 /\ Y.funcs = X.funcs
        /\ Y.tabs = X.tabs /\ Y.globs = X.globs /\ Y.tags = X.tags /\ Y.mems = t
    BY <2>3 DEF InstT
  <2>7. \A kind \in Kinds :
          Has(Y, kind) = IF kind = im.kind THEN Has(X, kind) + 1 ELSE Has(X, kind)
    BY <1>3, <2>4, <2>6 DEF Has, Kinds
  <2>8. \A k \in DOMAIN Y.mems :
              \/ k \in DOMAIN X.mems /\ Y.mems[k] = X.mems[k]
              \/ Y.mems[k] = S.mems[im.idx] BY <2>4, <2>6, SMTT(30) DEF e
  <2> QED BY <1>3, <2>1, <2>2, <2>5, <2>6, <2>7, <2>8
<1>4. CASE im.kind = "tag"
  <2> DEFINE e == S.tags[im.idx] t == Append(X.tags, e)
  <2>1. im.idx \in 1 .. Len(S.tags) BY <1>4 DEF Has
  <2>2. e \in TagT BY <1>0, <2>1, ElementOfSeq
  <2>3. Y = [X EXCEPT !.tags = t] BY <1>4 DEF Linked
  <2> HIDE DEF e
  <2>4. t \in Seq(TagT) /\ Len(t) = Len(X.tags) + 1 BY <1>0, <2>2, Appended
  <2> HIDE DEF t
  <2>5. Y \in InstT BY <2>3, <2>4 DEF InstT
  <2>6. /\ Y.mod = X.mod /\ Y.out = X.out /\ Y.jit_mem0 = X.jit_mem0 /\ Y.funcs = X.funcs
        /\ Y.tabs = X.tabs /\ Y.globs = X.globs /\ Y.mems = X.mems /\ Y.tags = t
    BY <2>3 DEF InstT
  <2>7. \A kind \in Kinds :
          Has(Y, kind) = IF kind = im.kind THEN Has(X, kind) + 1 ELSE Has(X, kind)
    BY <1>4, <2>4, <2>6 DEF Has, Kinds
  <2> QED BY <2>5, <2>6, <2>7
<1>5. CASE im.kind = "global"
  <2> DEFINE e == S.globs[im.idx] t == Append(X.globs, e)
  <2>1. im.idx \in 1 .. Len(S.globs) BY <1>5 DEF Has
  <2>2. e \in Nat /\ DOMAIN S.globs = 1 .. Len(S.globs) BY <1>0, <2>1, ElementOfSeq, LenProperties
  <2>3. Y = [X EXCEPT !.globs = t] BY <1>5 DEF Linked
  <2> HIDE DEF e
  <2>4. /\ t \in Seq(Nat) /\ Len(t) = Len(X.globs) + 1 /\ t[Len(X.globs) + 1] = e
        /\ \A j \in 1 .. Len(X.globs) : t[j] = X.globs[j]
        /\ DOMAIN t = 1 .. Len(X.globs) + 1 /\ DOMAIN X.globs = 1 .. Len(X.globs)
        /\ Len(X.globs) \in Nat BY <1>0, <2>2, Appended
  <2> HIDE DEF t
  <2>5. Y \in InstT BY <2>3, <2>4 DEF InstT
  <2>6. /\ Y.mod = X.mod /\ Y.out = X.out /\ Y.jit_mem0 = X.jit_mem0 /\ Y.funcs = X.funcs
        /\ Y.tabs = X.tabs /\ Y.mems = X.mems /\ Y.tags = X.tags /\ Y.globs = t
    BY <2>3 DEF InstT
  <2>7. \A kind \in Kinds :
          Has(Y, kind) = IF kind = im.kind THEN Has(X, kind) + 1 ELSE Has(X, kind)
    BY <1>5, <2>4, <2>6 DEF Has, Kinds
  <2>8. \A k \in DOMAIN Y.globs :
              \/ k \in DOMAIN X.globs /\ Y.globs[k] = X.globs[k]
              \/ Y.globs[k] = S.globs[im.idx] BY <2>4, <2>6, SMTT(30) DEF e
  <2> QED BY <1>5, <2>1, <2>2, <2>5, <2>6, <2>7, <2>8
<1> QED BY <1>1, <1>2, <1>3, <1>4, <1>5 DEF Kinds

\* The instance under construction.
LEMMA CurIs ==
  ASSUME TypeInv, cur.phase # "idle"
  PROVE  /\ cur # Idle /\ I \in DOMAIN insts /\ I = Len(insts) /\ I # 0
         /\ insts[I] \in InstT /\ insts[I].out = "building"
         /\ cur.k \in Nat /\ cur.k # 0
         /\ cur.phase # "import" => insts[I].jit_mem0
         /\ Mods[insts[I].mod].imports \in
              Seq({Mods[insts[I].mod].imports[k] : k \in DOMAIN Mods[insts[I].mod].imports})
<1>1. cur # Idle /\ cur.k \in Nat BY DEF Idle, TypeInv, Shapes
<1>2. I = Len(insts) /\ I # 0 /\ insts[I].out = "building" /\ cur.k # 0
      /\ (cur.phase # "import" => insts[I].jit_mem0)
  BY <1>1 DEF TypeInv, Phase, I
<1>3. I \in DOMAIN insts /\ insts[I] \in InstT BY <1>2, InstsAre
<1>4. insts[I].mod \in DOMAIN Mods BY <1>3 DEF InstT
<1>5. Valid(insts[I].mod) BY <1>4, LinkingMods
<1> QED BY <1>1, <1>2, <1>3, <1>5 DEF Valid

\* Registered instances are completed ones, so what becomes of the instance
\* under construction leaves them alone.
LEMMA StaysRegistered ==
  ASSUME TypeInv, cur.phase # "idle", UNCHANGED named, DOMAIN insts' = DOMAIN insts,
         \A i \in DOMAIN insts : i # I => insts'[i].out = insts[i].out
  PROVE  Registered'
<1> SUFFICES ASSUME NEW k \in 1 .. Len(named)
             PROVE  named[k][2] \in DOMAIN insts' /\ insts'[named[k][2]].out = "ok"
  BY DEF Registered
<1>1. named[k][2] \in DOMAIN insts /\ insts[named[k][2]].out = "ok" BY DEF TypeInv, Registered
<1>2. named[k][2] # I BY <1>1, CurIs
<1> QED BY <1>1, <1>2

\* Abandoning the instance under construction.
LEMMA AbandonType ==
  ASSUME TypeInv, cur.phase # "idle", NEW how \in {"unlinkable", "uninstantiable"},
         insts' = [insts EXCEPT ![I].out = how], cur' = Idle,
         UNCHANGED <<named, ops>>,
         cells' \in Seq(Int) /\ DOMAIN cells \subseteq DOMAIN cells',
         blocks' \in Seq(BlockT) /\ DOMAIN blocks \subseteq DOMAIN blocks',
         want' \in Seq(Seq(Ref)) /\ DOMAIN want \subseteq DOMAIN want',
         UNCHANGED mems
  PROVE  TypeInv' /\ Kept
<1>1. I \in DOMAIN insts /\ insts[I] \in InstT /\ insts[I].out = "building" BY CurIs
<1> DEFINE y == [insts[I] EXCEPT !.out = how]
<1>2. y \in InstT BY <1>1 DEF InstT, Outs
<1>3. /\ y.mod = insts[I].mod /\ y.tabs = insts[I].tabs /\ y.mems = insts[I].mems
      /\ y.globs = insts[I].globs /\ y.funcs = insts[I].funcs /\ y.tags = insts[I].tags
      /\ y.jit_mem0 = insts[I].jit_mem0 /\ y.out = how BY <1>1 DEF InstT
<1>4. insts' = [insts EXCEPT ![I] = y] OBVIOUS
<1> HIDE DEF y
<1>5. /\ Kept /\ DOMAIN insts' = DOMAIN insts /\ insts'[I] = y
      /\ \A j \in DOMAIN insts : j # I => insts'[j] = insts[j] BY <1>1, <1>2, <1>3, <1>4, KeptBy
<1>6. Sized' /\ Leads' BY <1>5, KeptParts
<1>7. Shapes'
  <2>1. cur' \in [inst : Nat, phase : {"idle", "import", "elem", "data", "start"}, k : Nat]
    BY DEF Idle
  <2> QED BY <2>1, <1>5 DEF TypeInv, Shapes, Kept
<1>8. Phase' BY DEF Phase, Idle
<1>9. Outcomes'
  <2>1. how \notin {"building", "ok", "trapped", "freed"} OBVIOUS
  <2>2. \A j \in DOMAIN insts : j # I => insts[j].out # "building" BY DEF TypeInv, Outcomes, I
  <2> QED BY <2>1, <2>2, <1>3, <1>5 DEF TypeInv, Outcomes
<1>10. Registered' BY <1>5, StaysRegistered
<1> QED BY <1>5, <1>6, <1>7, <1>8, <1>9, <1>10 DEF TypeInv

\* An instantiation that goes on is at a place of its list.
LEMMA StepIs ==
  ASSUME TypeInv, NEW p \in {"import", "elem", "data", "start"}, NEW k \in Nat, Step(p, k)
  PROVE  /\ cur' \in [inst : Nat, phase : {"idle", "import", "elem", "data", "start"}, k : Nat]
         /\ cur'.inst = I /\ cur'.phase = p /\ cur'.k = k /\ cur' # Idle
<1>1. cur \in [inst : Nat, phase : {"idle", "import", "elem", "data", "start"}, k : Nat]
  BY DEF TypeInv, Shapes
<1>2. cur' = [cur EXCEPT !.phase = p, !.k = k] BY DEF Step
<1>3. cur'.inst = cur.inst /\ cur'.phase = p /\ cur'.k = k BY <1>1, <1>2
<1>4. cur' \in [inst : Nat, phase : {"idle", "import", "elem", "data", "start"}, k : Nat]
  BY <1>1, <1>2
<1> QED BY <1>3, <1>4 DEF I, Idle

\* An import hands on what the exporter holds.
LEMMA ImportType ==
  ASSUME TypeInv, Import
  PROVE  TypeInv'
<1> DEFINE im == D.imports[cur.k] src == Lookup(im.from)
<1>0. cur.phase = "import" /\ cur.k <= Len(D.imports) /\ UNCHANGED <<blocks, mems, cells, named, want, ops>>
  BY DEF Import
<1>1. /\ cur # Idle /\ I \in DOMAIN insts /\ I = Len(insts) /\ insts[I] \in InstT
      /\ insts[I].out = "building" /\ cur.k \in Nat /\ cur.k # 0 /\ insts[I].mod \in DOMAIN Mods
      /\ D = Mods[insts[I].mod]
  BY <1>0, CurIs DEF InstT, D
<1>2. cur.k \in DOMAIN D.imports /\ Len(D.imports) \in Nat
  BY <1>0, <1>1, CurIs, LenProperties
<1>3. im.kind \in Kinds
  <2>1. Valid(insts[I].mod) BY <1>1, LinkingMods
  <2> QED BY <2>1, <1>1, <1>2 DEF Valid
<1>4. CASE ~ ImportOK(src, im)
  <2>1. insts' = [insts EXCEPT ![I].out = "unlinkable"] /\ cur' = Idle
    BY <1>4 DEF Import, Abandon
  <2>2. "unlinkable" \in {"unlinkable", "uninstantiable"} OBVIOUS
  <2>3. blocks' \in Seq(BlockT) /\ DOMAIN blocks \subseteq DOMAIN blocks' BY <1>0 DEF TypeInv, Shapes
  <2>4. want' \in Seq(Seq(Ref)) /\ DOMAIN want \subseteq DOMAIN want' BY <1>0 DEF TypeInv, Shapes
  <2>5. UNCHANGED mems /\ UNCHANGED <<named, ops>> /\ cur.phase # "idle" BY <1>0
  <2>6. cells' \in Seq(Int) /\ DOMAIN cells \subseteq DOMAIN cells' BY <1>0 DEF TypeInv, Shapes
  <2> QED BY <2>1, <2>2, <2>3, <2>4, <2>5, <2>6, AbandonType
<1>5. CASE ImportOK(src, im)
  <2>1. Exports(src, im.kind, im.idx) BY <1>5 DEF ImportOK
  <2>2. src = 0 \/ (src \in DOMAIN insts /\ insts[src].jit_mem0) BY LookupIs
  <2> DEFINE S == insts[src] Y == Linked(insts[I], S, im)
  <2>3. insts' = [insts EXCEPT ![I] = Y] BY <1>5 DEF Import
  <2>4. Step("import", cur.k + 1) /\ cur.k + 1 \in Nat
    <3>1. Step("import", cur.k + 1) BY <1>5, ZenonT(30) DEF Import
    <3>2. cur.k + 1 \in Nat BY <1>1
    <3> QED BY <3>1, <3>2
  <2>4a. /\ cur' \in [inst : Nat, phase : {"idle", "import", "elem", "data", "start"}, k : Nat]
         /\ cur'.inst = I /\ cur'.phase = "import" /\ cur'.k = cur.k + 1
    BY <2>4, StepIs
  <2> HIDE DEF src
  <2>5. src \in DOMAIN insts /\ im.idx \in 1 .. Has(S, im.kind) /\ S \in InstT
    <3> HIDE DEF im
    <3> QED BY <2>1, <2>2, <1>3, ExportIs, InstsAre
  <2> HIDE DEF S, Y, im
  <2>6. Y = Linked(insts[I], S, im) BY DEF Y
  <2>7. Y \in InstT /\ Y.mod = insts[I].mod /\ Y.out = insts[I].out /\ Y.jit_mem0 = insts[I].jit_mem0
    BY <2>5, <2>6, <1>1, <1>3, LinkedIs
  <2>8. \A kind \in Kinds :
          Has(Y, kind) = IF kind = im.kind THEN Has(insts[I], kind) + 1 ELSE Has(insts[I], kind)
    BY <2>5, <2>6, <1>1, <1>3, LinkedIs
  <2>9. /\ insts' \in Seq(InstT) /\ Len(insts') = Len(insts) /\ DOMAIN insts' = DOMAIN insts
        /\ insts'[I] = Y /\ \A j \in DOMAIN insts : j # I => insts'[j] = insts[j]
    <3>1. I \in 1 .. Len(insts) /\ insts \in Seq(InstT) /\ DOMAIN insts = 1 .. Len(insts)
      BY <1>1, InstsAre DEF TypeInv, Shapes
    <3>2. insts' \in Seq(InstT) /\ Len(insts') = Len(insts) BY <3>1, <2>3, <2>7, ExceptSeq
    <3> QED BY <3>1, <3>2, <2>3
  <2>10. Shapes' BY <2>4a, <2>9, <1>0 DEF TypeInv, Shapes
  <2>11. /\ ~ insts[I].jit_mem0
         /\ \A kind \in Kinds : Has(insts[I], kind) = Counted(insts[I].mod, kind, cur.k - 1)
    BY <1>0, <1>1 DEF TypeInv, Phase, I
  <2>12. \A kind \in Kinds : Has(Y, kind) = Counted(Y.mod, kind, cur.k)
    <3> TAKE kind \in Kinds
    <3>1. cur.k - 1 \in Nat /\ (cur.k - 1) + 1 = cur.k BY <1>1
    <3>2. Counted(Y.mod, kind, (cur.k - 1) + 1) =
            IF Mods[Y.mod].imports[(cur.k - 1) + 1].kind = kind
            THEN Counted(Y.mod, kind, cur.k - 1) + 1 ELSE Counted(Y.mod, kind, cur.k - 1)
      BY <3>1, CountStep
    <3>3. Mods[Y.mod].imports[cur.k] = im BY <2>7, <1>1 DEF im
    <3>4. Counted(Y.mod, kind, cur.k) =
            IF im.kind = kind
            THEN Counted(Y.mod, kind, cur.k - 1) + 1 ELSE Counted(Y.mod, kind, cur.k - 1)
      BY <3>1, <3>2, <3>3
    <3> QED BY <3>4, <2>7, <2>8, <2>11
  <2>13. Sized'
    <3>1. \A kind \in Kinds : Counted(Y.mod, kind, cur.k) <= Imported(Y.mod, kind)
      BY <1>0, <1>1, <2>7, CountAll
    <3>2. \A kind \in Kinds : ~ Y.jit_mem0 /\ Has(Y, kind) <= Imported(Y.mod, kind)
      BY <3>1, <2>7, <2>11, <2>12
    <3> QED BY <3>2, <2>9 DEF TypeInv, Sized
  <2>14. Phase'
    <3>1. cur.k + 1 <= Len(Mods[Y.mod].imports) + 1 BY <1>0, <1>1, <1>2, <2>7
    <3>2. (cur.k + 1) - 1 = cur.k /\ cur.k + 1 # 0 /\ I # 0 BY <1>1, CurIs, <1>0
    <3> QED BY <3>1, <3>2, <2>4a, <2>7, <2>9, <2>11, <2>12, <1>1 DEF Phase
  <2>15. Outcomes'
    <3>1. cur' # Idle BY <2>4a DEF Idle
    <3>2. \A j \in DOMAIN insts : j # I => insts[j].out # "building" BY DEF TypeInv, Outcomes, I
    <3> QED BY <3>1, <3>2, <2>4a, <2>7, <2>9, <1>1 DEF TypeInv, Outcomes
  <2>16. Registered' BY <2>9, <2>7, <1>0, StaysRegistered
  <2>17. Leads'
    <3>1. /\ \A k \in DOMAIN Y.tabs : Y.tabs[k].blk \in DOMAIN blocks /\ Y.tabs[k].tid \in DOMAIN want
          /\ \A k \in DOMAIN Y.mems : Y.mems[k] \in DOMAIN mems
          /\ \A k \in DOMAIN Y.globs : Y.globs[k] \in DOMAIN cells
      <4>1. \A k \in DOMAIN Y.tabs :
              (k \in DOMAIN insts[I].tabs /\ Y.tabs[k] = insts[I].tabs[k])
              \/ (im.kind = "table" /\ im.idx \in DOMAIN S.tabs /\ Y.tabs[k] = S.tabs[im.idx])
        BY <2>5, <2>6, <1>1, <1>3, LinkedIs
      <4>2. \A k \in DOMAIN Y.mems :
              (k \in DOMAIN insts[I].mems /\ Y.mems[k] = insts[I].mems[k])
              \/ (im.kind = "memory" /\ im.idx \in DOMAIN S.mems /\ Y.mems[k] = S.mems[im.idx])
        BY <2>5, <2>6, <1>1, <1>3, LinkedIs
      <4>3. \A k \in DOMAIN Y.globs :
              (k \in DOMAIN insts[I].globs /\ Y.globs[k] = insts[I].globs[k])
              \/ (im.kind = "global" /\ im.idx \in DOMAIN S.globs /\ Y.globs[k] = S.globs[im.idx])
        BY <2>5, <2>6, <1>1, <1>3, LinkedIs
      <4> QED BY <4>1, <4>2, <4>3, <2>5, <1>1 DEF S, TypeInv, Leads
    <3> QED BY <3>1, <2>9, <1>0 DEF TypeInv, Leads
  <2> QED BY <2>10, <2>13, <2>14, <2>15, <2>16, <2>17 DEF TypeInv
<1> QED BY <1>4, <1>5

\* What a module defines: tables, their elements, functions, memories, tags.
LEMMA DefinesAre ==
  ASSUME TypeInv, cur.phase # "idle"
  PROVE  /\ \A b \in Nat, tid \in Nat, k \in 1 .. Len(D.tables) : NewTable(k, b, tid) \in TableT
         /\ \A k \in 1 .. Len(D.tables) : FirstItems(D.tables[k]) \in Seq(Ref)
                                          /\ Len(FirstItems(D.tables[k])) = D.tables[k].min
         /\ \A k \in 1 .. Len(D.funcs) : D.funcs[k] \in FuncTypes
         /\ \A k \in 1 .. Len(D.tags) : D.tags[k] \in TagTypes
         /\ \A k \in 1 .. Len(D.mems) :
              NewMem(D.mems[k]) \in MemT
              /\ Len(NewMem(D.mems[k]).bytes) = NewMem(D.mems[k]).pages * Page
         /\ insts[I].mod \in DOMAIN Mods /\ D = Mods[insts[I].mod]
         /\ Len(D.tables) \in Nat /\ Len(D.funcs) \in Nat /\ Len(D.mems) \in Nat
         /\ Len(D.tags) \in Nat /\ Len(D.globals) \in Nat
         /\ DOMAIN D.tags = 1 .. Len(D.tags)
<1> DEFINE m == insts[I].mod
<1>1. m \in DOMAIN Mods /\ D = Mods[m] /\ I \in Nat BY CurIs, InstsAre DEF InstT, D
<1>2. Valid(m) BY <1>1, LinkingMods
<1>3. \A s \in {"funcs", "tables", "mems", "tags", "globals"} :
        D[s] \in Seq({D[s][k] : k \in DOMAIN D[s]}) BY <1>1, <1>2, ZenonT(30) DEF Valid
<1>4. \A s \in {"funcs", "tables", "mems", "tags", "globals"} :
        Len(D[s]) \in Nat /\ DOMAIN D[s] = 1 .. Len(D[s]) BY <1>3, LenProperties
<1>5. /\ Len(D.tables) \in Nat /\ Len(D.funcs) \in Nat /\ Len(D.mems) \in Nat
      /\ Len(D.tags) \in Nat /\ Len(D.globals) \in Nat
      /\ DOMAIN D.tables = 1 .. Len(D.tables) /\ DOMAIN D.funcs = 1 .. Len(D.funcs)
      /\ DOMAIN D.mems = 1 .. Len(D.mems) /\ DOMAIN D.tags = 1 .. Len(D.tags) BY <1>4
<1>6. \A k \in 1 .. Len(D.tables) :
        /\ D.tables[k].min \in Nat /\ D.tables[k].is64 \in BOOLEAN
        /\ D.tables[k].max # NoMax => D.tables[k].max \in Nat
        /\ D.tables[k].init \in {0} \cup Space(m, "func")
  <2> TAKE k \in 1 .. Len(D.tables)
  <2> DEFINE t == D.tables[k]
  <2>1. /\ LimitsValid(t, IF t.is64 THEN M64 - 1 ELSE N32 - 1) /\ t.is64 \in BOOLEAN
        /\ t.init \in {0} \cup Space(m, "func") BY <1>1, <1>2, <1>5 DEF Valid
  <2> HIDE DEF t
  <2>2. t.min \in Nat /\ (t.max # NoMax => t.max \in Nat) BY <2>1 DEF LimitsValid
  <2> QED BY <2>1, <2>2 DEF t
<1>7. \A b \in Nat, tid \in Nat, k \in 1 .. Len(D.tables) : NewTable(k, b, tid) \in TableT
  <2> TAKE b \in Nat, tid \in Nat, k \in 1 .. Len(D.tables)
  <2>1. StoredMax(D.tables[k].max, D.tables[k].is64) \in Nat BY <1>6, TableWidths DEF StoredMax
  <2> QED BY <2>1, <1>6 DEF NewTable, TableT
<1>8. \A k \in 1 .. Len(D.tables) : FirstItems(D.tables[k]) \in Seq(Ref)
                                    /\ Len(FirstItems(D.tables[k])) = D.tables[k].min
  <2> TAKE k \in 1 .. Len(D.tables)
  <2> DEFINE t == D.tables[k]  r == IF t.init = 0 THEN Null ELSE Own(I, t.init)
  <2>1. t.init \in Int
    <3>1. Imported(m, "func") \in Nat /\ Defined(m, "func") \in Nat BY <1>1, SpaceNat DEF Kinds
    <3> QED BY <3>1, <1>6 DEF Space
  <2>2. r \in Ref BY <2>1, <1>1 DEF Null, Own, Ref
  <2>3. t.min \in Nat BY <1>6
  <2>4. FirstItems(t) = [x \in 1 .. t.min |-> r] BY DEF FirstItems, Repeat
  <2> HIDE DEF t, r
  <2>5. FirstItems(t) \in [1 .. t.min -> Ref] BY <2>2, <2>4
  <2>6. FirstItems(t) \in Seq(Ref) /\ Len(FirstItems(t)) = t.min BY <2>3, <2>5, Tabulated
  <2> QED BY <2>6 DEF t
<1>9. \A k \in 1 .. Len(D.funcs) : D.funcs[k] \in FuncTypes BY <1>1, <1>5 DEF FuncTypes
<1>10. \A k \in 1 .. Len(D.tags) : D.tags[k] \in TagTypes BY <1>1, <1>5 DEF TagTypes
<1>11. \A k \in 1 .. Len(D.mems) :
         NewMem(D.mems[k]) \in MemT
         /\ Len(NewMem(D.mems[k]).bytes) = NewMem(D.mems[k]).pages * Page
  <2> TAKE k \in 1 .. Len(D.mems)
  <2> DEFINE a == D.mems[k]
  <2>1. LimitsValid(a, IF a.is64 THEN M64 - 1 ELSE PageLimit) /\ a.is64 \in BOOLEAN
    BY <1>1, <1>2, <1>5 DEF Valid
  <2> HIDE DEF a
  <2>2. a.min \in Nat /\ (a.max # NoMax => a.max \in Nat) BY <2>1 DEF LimitsValid
  <2>3. a.min * Page \in Nat BY <2>2, LinkingBounds
  <2> DEFINE n == a.min * Page bs == Repeat(Null, n)
  <2>3a. n \in Nat BY <2>3
  <2>4. bs \in [1 .. n -> Ref] BY DEF Repeat, Null, Ref
  <2> HIDE DEF n
  <2>5. bs \in Seq(Ref) /\ Len(bs) = n BY <2>3a, <2>4, Tabulated
  <2>6. NewMem(a) = [pages |-> a.min, max |-> IF a.max # NoMax THEN a.max ELSE PageLimit,
                     has_max |-> a.max # NoMax, is64 |-> a.is64, live |-> TRUE, bytes |-> bs]
    BY DEF NewMem, n
  <2> HIDE DEF bs
  <2>7. (IF a.max # NoMax THEN a.max ELSE PageLimit) \in Nat BY <2>2, LinkingBounds
  <2>8. NewMem(a) \in MemT BY <2>1, <2>2, <2>5, <2>6, <2>7 DEF MemT
  <2>9. NewMem(a).bytes = bs /\ NewMem(a).pages = a.min BY <2>6
  <2>10. Len(NewMem(a).bytes) = NewMem(a).pages * Page BY <2>5, <2>9 DEF n
  <2> QED BY <2>8, <2>10 DEF a
<1> QED BY <1>1, <1>5, <1>7, <1>8, <1>9, <1>10, <1>11

\* The index space of globals when the imports are complete, and the cells
\* after its initialisers have run.
NewGlobs == insts[I].globs \o [k \in 1 .. Len(D.globals) |-> Len(cells) + k]

\* The globals an instance defines go behind its imported ones.
LEMMA CellsAre ==
  ASSUME TypeInv, cur.phase = "import", cur.k > Len(D.imports)
  PROVE  /\ \A kind \in Kinds : Has(insts[I], kind) = Imported(insts[I].mod, kind)
         /\ NewGlobs \in Seq(Nat) /\ Len(NewGlobs) = Len(insts[I].globs) + Len(D.globals)
         /\ \A k \in DOMAIN NewGlobs : NewGlobs[k] \in 1 .. Len(cells) + Len(D.globals)
         /\ NewCells(NewGlobs) \in Seq(Int) /\ Len(NewCells(NewGlobs)) = Len(cells) + Len(D.globals)
<1> DEFINE m == insts[I].mod  n == Len(D.globals)  own == [k \in 1 .. n |-> Len(cells) + k]
           X == insts[I]
<1>1. /\ cur # Idle /\ I \in DOMAIN insts /\ cur.k \in Nat /\ X \in InstT
      /\ m \in DOMAIN Mods /\ D = Mods[m] /\ n \in Nat
  BY CurIs, DefinesAre
<1>2. /\ cur.k <= Len(D.imports) + 1
      /\ \A kind \in Kinds : Has(X, kind) = Counted(m, kind, cur.k - 1)
  BY <1>1 DEF TypeInv, Phase, I
<1>3. Len(D.imports) \in Nat BY CurIs, <1>1, LenProperties
<1>4. cur.k - 1 = Len(D.imports) BY <1>1, <1>2, <1>3
<1>5. \A kind \in Kinds : Has(X, kind) = Imported(m, kind)
  BY <1>1, <1>2, <1>3, <1>4, CountAll
<1>6. Len(cells) \in Nat /\ cells \in Seq(Int) /\ X.globs \in Seq(Nat) /\ DOMAIN cells = 1 .. Len(cells)
      /\ Len(X.globs) \in Nat /\ DOMAIN X.globs = 1 .. Len(X.globs)
  BY <1>1, LenProperties DEF TypeInv, Shapes, InstT
<1>7. \A k \in 1 .. Len(X.globs) : X.globs[k] \in 1 .. Len(cells)
  BY <1>1, <1>6 DEF TypeInv, Leads
<1>8. own \in Seq(Nat) /\ Len(own) = n
  <2>1. own \in [1 .. n -> Nat] BY <1>1, <1>6
  <2> HIDE DEF own, n
  <2> QED BY <1>1, <2>1, Tabulated
<1> DEFINE globs == NewGlobs
<1>9. globs = X.globs \o own BY DEF NewGlobs
<1>10. \A k \in 1 .. n : own[k] = Len(cells) + k OBVIOUS
<1> HIDE DEF own, n, X, m, globs
<1>11. /\ globs \in Seq(Nat) /\ Len(globs) = Len(X.globs) + n
       /\ \A k \in 1 .. Len(X.globs) + n :
            globs[k] = IF k <= Len(X.globs) THEN X.globs[k] ELSE own[k - Len(X.globs)]
  BY <1>6, <1>8, <1>9, ConcatProperties
<1>12. DOMAIN globs = 1 .. Len(X.globs) + n BY <1>11, LenProperties
<1>13. \A j \in 0 .. n : \A k \in 1 .. Len(X.globs) + j : globs[k] \in 1 .. Len(cells) + j
  <2> TAKE j \in 0 .. n
  <2> TAKE k \in 1 .. Len(X.globs) + j
  <2>0. k \in 1 .. Len(X.globs) + n /\ j \in Nat BY <1>1, <1>6
  <2>1. CASE k <= Len(X.globs)
    <3>1. k \in 1 .. Len(X.globs) BY <2>0, <2>1, <1>6, <1>1
    <3>2. globs[k] \in 1 .. Len(cells) BY <3>1, <1>11, <1>7, <2>0, <2>1
    <3> QED BY <3>2, <2>0, <1>6
  <2>2. CASE ~ (k <= Len(X.globs))
    <3>1. k - Len(X.globs) \in 1 .. n /\ k - Len(X.globs) <= j BY <2>0, <2>2, <1>6, <1>1
    <3>2. globs[k] = own[k - Len(X.globs)] BY <2>0, <2>2, <1>11
    <3> DEFINE d == k - Len(X.globs)
    <3>3. d \in 1 .. n /\ d <= j /\ globs[k] = Len(cells) + d BY <3>1, <3>2, <1>10
    <3> HIDE DEF d
    <3> QED BY <3>3, <2>0, <1>6, <1>1
  <2> QED BY <2>1, <2>2
<1>14. \A k \in DOMAIN globs : globs[k] \in 1 .. Len(cells) + n
  <2>1. n \in 0 .. n BY <1>1
  <2> QED BY <2>1, <1>12, <1>13
<1> DEFINE gs == D.globals
<1>15. /\ \A k \in 1 .. n : gs[k].op = "const" => gs[k].v \in Int
       /\ \A k \in 1 .. n : gs[k].op # "const" => globs[gs[k].g] \in 1 .. Len(cells) + n
  <2> SUFFICES ASSUME NEW k \in 1 .. n
               PROVE  /\ gs[k].op = "const" => gs[k].v \in Int
                      /\ gs[k].op # "const" => globs[gs[k].g] \in 1 .. Len(cells) + n
    OBVIOUS
  <2>1. Valid(m) BY <1>1, LinkingMods
  <2>2. k \in DOMAIN Mods[m].globals
    <3>1. Mods[m].globals \in Seq({Mods[m].globals[x] : x \in DOMAIN Mods[m].globals})
      BY <2>1 DEF Valid
    <3> QED BY <3>1, <1>1, LenProperties DEF n
  <2>3. ExprValid(gs[k], Imported(m, "global") + Defined(m, "global"))
    BY <2>1, <2>2, <1>1 DEF Valid
  <2>4. Imported(m, "global") = Len(X.globs) /\ Defined(m, "global") = n
    BY <1>5, <1>1 DEF Has, Kinds, Defined, n
  <2> HIDE DEF gs
  <2>5. CASE gs[k].op = "const" BY <2>3, <2>5 DEF ExprValid
  <2>6. CASE gs[k].op # "const"
    <3>1. gs[k].g \in DOMAIN globs BY <2>3, <2>4, <2>6, <1>12 DEF ExprValid
    <3> QED BY <3>1, <1>14, <2>6
  <2> QED BY <2>5, <2>6
<1> DEFINE zs == cells \o Repeat(0, n)
<1>16. zs \in Seq(Int) /\ Len(zs) = Len(cells) + n
  <2>1. Repeat(0, n) \in [1 .. n -> Int] BY DEF Repeat
  <2>2. Repeat(0, n) \in Seq(Int) /\ Len(Repeat(0, n)) = n BY <2>1, <1>1, Tabulated
  <2> QED BY <2>2, <1>6, Joined
<1> DEFINE c == CHOOSE f : IsCells(f, zs, Len(cells), globs, gs, n)
<1>17. NewCells(globs) = c[n] BY DEF NewCells, IsCells, n
<1> HIDE DEF gs, zs
<1>18. IsCells(c, zs, Len(cells), globs, gs, n)
  <2>1. n \in Nat BY <1>1
  <2>2. \E f : IsCells(f, zs, Len(cells), globs, gs, n) BY <2>1, CellsExist
  <2> QED BY <2>2
<1>19. \A k \in 1 .. n : Len(cells) + k \in 1 .. Len(zs) BY <1>1, <1>6, <1>16
<1>20. Readable(zs, Len(cells), globs, gs, n) BY <1>15, <1>16, <1>19 DEF Readable
<1> HIDE DEF c
<1>21. c[n] \in Seq(Int) /\ Len(c[n]) = Len(cells) + n
  <2>1. n \in Nat /\ zs \in Seq(Int) BY <1>1, <1>16
  <2>2. c[n] \in Seq(Int) /\ Len(c[n]) = Len(zs) BY <2>1, <1>18, <1>20, CellsKeep
  <2> QED BY <2>2, <1>16
<1> QED BY <1>5, <1>11, <1>14, <1>17, <1>21 DEF n, X, m, globs

NewTabs == [k \in 1 .. Len(D.tables) |-> NewTable(k, Len(blocks) + k, Len(want) + k)]
NewEls == [k \in 1 .. Len(D.tables) |-> FirstItems(D.tables[k])]
NewBlocks == [k \in 1 .. Len(NewEls) |-> [live |-> TRUE, els |-> NewEls[k]]]
NewFuncs == [k \in 1 .. Len(D.funcs) |-> [inst |-> I, type |-> D.funcs[k]]]
NewTags == [k \in DOMAIN D.tags |-> [ident |-> <<I, k>>, type |-> D.tags[k]]]
NewMemIdx == [k \in 1 .. Len(D.mems) |-> Len(mems) + k]
NewMems == [k \in 1 .. Len(D.mems) |-> NewMem(D.mems[k])]

\* The instance with its own definitions.
WithOwn ==
  JitFields([insts[I] EXCEPT !.globs = NewGlobs, !.funcs = @ \o NewFuncs, !.tabs = @ \o NewTabs,
                             !.tags = @ \o NewTags, !.mems = @ \o NewMemIdx])

\* What Define changes, without its conditions on data.
LEMMA DefineIs ==
  ASSUME Define
  PROVE  /\ cur.phase = "import" /\ cur.k > Len(D.imports)
         /\ cells' = NewCells(NewGlobs) /\ blocks' = blocks \o NewBlocks /\ want' = want \o NewEls
         /\ UNCHANGED <<named, snap, ops>>
         /\ \/ /\ mems' = mems \o NewMems /\ insts' = [insts EXCEPT ![I] = WithOwn]
               /\ ecache' = [ecache EXCEPT ![insts[I].mod] = NewCache]
               /\ Step("elem", 1) /\ last' = Done(TRUE, TRUE)
            \/ Abandon("uninstantiable", FALSE) /\ UNCHANGED <<mems, ecache>>
  BY DEF Define, NewTabs, NewEls, NewBlocks, NewFuncs, NewTags, NewMemIdx, NewMems, WithOwn, NewGlobs

\* The new objects have their types.
LEMMA NewAre ==
  ASSUME TypeInv, cur.phase = "import", cur.k > Len(D.imports)
  PROVE  /\ NewTabs \in Seq(TableT) /\ Len(NewTabs) = Len(D.tables)
         /\ NewEls \in Seq(Seq(Ref)) /\ Len(NewEls) = Len(D.tables)
         /\ NewBlocks \in Seq(BlockT) /\ Len(NewBlocks) = Len(D.tables)
         /\ NewFuncs \in Seq(FuncT) /\ Len(NewFuncs) = Len(D.funcs)
         /\ NewTags \in Seq(TagT) /\ Len(NewTags) = Len(D.tags)
         /\ NewMemIdx \in Seq(Nat) /\ Len(NewMemIdx) = Len(D.mems)
         /\ NewMems \in Seq(MemT) /\ Len(NewMems) = Len(D.mems)
         /\ Len(blocks) \in Nat /\ Len(want) \in Nat /\ Len(mems) \in Nat /\ I \in Nat
<1>1. /\ Len(D.tables) \in Nat /\ Len(D.funcs) \in Nat /\ Len(D.mems) \in Nat
      /\ Len(D.tags) \in Nat /\ DOMAIN D.tags = 1 .. Len(D.tags)
  BY DefinesAre
<1>2. Len(blocks) \in Nat /\ Len(want) \in Nat /\ Len(mems) \in Nat /\ I \in Nat
  BY CurIs, InstsAre, LenProperties DEF TypeInv, Shapes
<1>3. NewTabs \in Seq(TableT) /\ Len(NewTabs) = Len(D.tables)
  <2>1. \A b \in Nat, tid \in Nat, k \in 1 .. Len(D.tables) : NewTable(k, b, tid) \in TableT
    BY DefinesAre
  <2>2. \A k \in 1 .. Len(D.tables) : NewTable(k, Len(blocks) + k, Len(want) + k) \in TableT
    <3> TAKE k \in 1 .. Len(D.tables)
    <3>1. Len(blocks) + k \in Nat /\ Len(want) + k \in Nat BY <1>1, <1>2
    <3> QED BY <3>1, <2>1
  <2>3. NewTabs \in [1 .. Len(D.tables) -> TableT] BY <2>2 DEF NewTabs
  <2> QED BY <1>1, <2>3, Tabulated
<1>4. NewEls \in Seq(Seq(Ref)) /\ Len(NewEls) = Len(D.tables)
  <2>1. NewEls \in [1 .. Len(D.tables) -> Seq(Ref)] BY DefinesAre DEF NewEls
  <2> QED BY <1>1, <2>1, Tabulated
<1>5. NewBlocks \in Seq(BlockT) /\ Len(NewBlocks) = Len(D.tables)
  <2>1. \A k \in 1 .. Len(NewEls) : NewEls[k] \in Seq(Ref) BY <1>4, ElementOfSeq
  <2>2. NewBlocks \in [1 .. Len(D.tables) -> BlockT] BY <1>4, <2>1 DEF NewBlocks, BlockT
  <2> QED BY <1>1, <2>2, Tabulated
<1>6. NewFuncs \in Seq(FuncT) /\ Len(NewFuncs) = Len(D.funcs)
  <2>1. NewFuncs \in [1 .. Len(D.funcs) -> FuncT] BY <1>2, DefinesAre DEF NewFuncs, FuncT
  <2> QED BY <1>1, <2>1, Tabulated
<1>7. NewTags \in Seq(TagT) /\ Len(NewTags) = Len(D.tags)
  <2>1. \A k \in 1 .. Len(D.tags) : D.tags[k] \in TagTypes BY DefinesAre
  <2>2. NewTags \in [1 .. Len(D.tags) -> TagT] BY <1>1, <1>2, <2>1 DEF NewTags, TagT
  <2> QED BY <1>1, <2>2, Tabulated
<1>8. NewMemIdx \in Seq(Nat) /\ Len(NewMemIdx) = Len(D.mems)
  <2>1. NewMemIdx \in [1 .. Len(D.mems) -> Nat] BY <1>1, <1>2 DEF NewMemIdx
  <2> QED BY <1>1, <2>1, Tabulated
<1>9. NewMems \in Seq(MemT) /\ Len(NewMems) = Len(D.mems)
  <2>1. NewMems \in [1 .. Len(D.mems) -> MemT] BY DefinesAre DEF NewMems
  <2> QED BY <1>1, <2>1, Tabulated
<1> QED BY <1>2, <1>3, <1>4, <1>5, <1>6, <1>7, <1>8, <1>9

\* The instance with its own definitions has all of every index space.
LEMMA OwnIs ==
  ASSUME TypeInv, cur.phase = "import", cur.k > Len(D.imports)
  PROVE  /\ WithOwn \in InstT /\ WithOwn.jit_mem0 /\ WithOwn.mod = insts[I].mod
         /\ WithOwn.out = insts[I].out
         /\ WithOwn.tabs = insts[I].tabs \o NewTabs /\ WithOwn.mems = insts[I].mems \o NewMemIdx
         /\ WithOwn.globs = NewGlobs /\ WithOwn.funcs = insts[I].funcs \o NewFuncs
         /\ \A kind \in Kinds :
              Has(WithOwn, kind) = Imported(WithOwn.mod, kind) + Defined(WithOwn.mod, kind)
<1> DEFINE X == insts[I]
           tabs == X.tabs \o NewTabs  ms == X.mems \o NewMemIdx
           funcs == X.funcs \o NewFuncs  tags == X.tags \o NewTags
<1>1. X \in InstT /\ X.mod \in DOMAIN Mods /\ D = Mods[X.mod] BY CurIs, DefinesAre
<1>2. WithOwn = [[X EXCEPT !.globs = NewGlobs, !.funcs = funcs, !.tabs = tabs, !.tags = tags,
                           !.mems = ms] EXCEPT !.jit_mem0 = TRUE]
  BY DEF WithOwn, JitFields
<1> HIDE DEF X
<1>3. /\ X.tabs \in Seq(TableT) /\ X.mems \in Seq(Nat) /\ X.funcs \in Seq(FuncT)
      /\ X.tags \in Seq(TagT) BY <1>1 DEF InstT
<1>3a. NewTabs \in Seq(TableT) /\ Len(NewTabs) = Len(D.tables) BY NewAre
<1>3b. NewMemIdx \in Seq(Nat) /\ Len(NewMemIdx) = Len(D.mems) BY NewAre
<1>3c. NewFuncs \in Seq(FuncT) /\ Len(NewFuncs) = Len(D.funcs) BY NewAre
<1>3d. NewTags \in Seq(TagT) /\ Len(NewTags) = Len(D.tags) BY NewAre
<1>4. tabs \in Seq(TableT) /\ Len(tabs) = Len(X.tabs) + Len(D.tables)
  <2> DEFINE s == X.tabs  t == NewTabs
  <2>1. s \in Seq(TableT) /\ t \in Seq(TableT) /\ tabs = s \o t BY <1>3, <1>3a
  <2> HIDE DEF s, t, tabs
  <2>2. s \o t \in Seq(TableT) /\ Len(s \o t) = Len(s) + Len(t) BY <2>1, Joined
  <2> QED BY <2>1, <2>2, <1>3a DEF s, t
<1>5. ms \in Seq(Nat) /\ Len(ms) = Len(X.mems) + Len(D.mems)
  <2> DEFINE s == X.mems  t == NewMemIdx
  <2>1. s \in Seq(Nat) /\ t \in Seq(Nat) /\ ms = s \o t BY <1>3, <1>3b
  <2> HIDE DEF s, t, ms
  <2>2. s \o t \in Seq(Nat) /\ Len(s \o t) = Len(s) + Len(t) BY <2>1, Joined
  <2> QED BY <2>1, <2>2, <1>3b DEF s, t
<1>6. funcs \in Seq(FuncT) /\ Len(funcs) = Len(X.funcs) + Len(D.funcs)
  <2> DEFINE s == X.funcs  t == NewFuncs
  <2>1. s \in Seq(FuncT) /\ t \in Seq(FuncT) /\ funcs = s \o t BY <1>3, <1>3c
  <2> HIDE DEF s, t, funcs
  <2>2. s \o t \in Seq(FuncT) /\ Len(s \o t) = Len(s) + Len(t) BY <2>1, Joined
  <2> QED BY <2>1, <2>2, <1>3c DEF s, t
<1>7. tags \in Seq(TagT) /\ Len(tags) = Len(X.tags) + Len(D.tags)
  <2> DEFINE s == X.tags  t == NewTags
  <2>1. s \in Seq(TagT) /\ t \in Seq(TagT) /\ tags = s \o t BY <1>3, <1>3d
  <2> HIDE DEF s, t, tags
  <2>2. s \o t \in Seq(TagT) /\ Len(s \o t) = Len(s) + Len(t) BY <2>1, Joined
  <2> QED BY <2>1, <2>2, <1>3d DEF s, t
<1>8. /\ NewGlobs \in Seq(Nat) /\ Len(NewGlobs) = Len(X.globs) + Len(D.globals)
      /\ \A kind \in Kinds : Has(X, kind) = Imported(X.mod, kind) BY CellsAre DEF X
<1> HIDE DEF tabs, ms, funcs, tags
<1> DEFINE Y == WithOwn
<1>9. /\ Y.tabs = tabs /\ Y.mems = ms /\ Y.funcs = funcs /\ Y.tags = tags /\ Y.globs = NewGlobs
      /\ Y.jit_mem0 = TRUE /\ Y.mod = X.mod /\ Y.out = X.out /\ Y.elem_alive = X.elem_alive
      /\ Y.data_alive = X.data_alive BY <1>1, <1>2 DEF InstT
<1>10. Y \in InstT BY <1>1, <1>2, <1>4, <1>5, <1>6, <1>7, <1>8 DEF InstT
<1> HIDE DEF Y
<1>11. \A kind \in Kinds : Has(Y, kind) = Imported(Y.mod, kind) + Defined(Y.mod, kind)
  <2>1. /\ Defined(X.mod, "func") = Len(D.funcs) /\ Defined(X.mod, "table") = Len(D.tables)
        /\ Defined(X.mod, "memory") = Len(D.mems) /\ Defined(X.mod, "tag") = Len(D.tags)
        /\ Defined(X.mod, "global") = Len(D.globals) BY <1>1 DEF Defined
  <2>2. /\ Imported(X.mod, "func") = Len(X.funcs) /\ Imported(X.mod, "table") = Len(X.tabs)
        /\ Imported(X.mod, "memory") = Len(X.mems) /\ Imported(X.mod, "tag") = Len(X.tags)
        /\ Imported(X.mod, "global") = Len(X.globs) BY <1>8 DEF Has, Kinds
  <2>3. /\ Has(Y, "func") = Len(funcs) /\ Has(Y, "table") = Len(tabs) /\ Has(Y, "memory") = Len(ms)
        /\ Has(Y, "tag") = Len(tags) /\ Has(Y, "global") = Len(NewGlobs) BY <1>9 DEF Has
  <2> QED BY <2>1, <2>2, <2>3, <1>4, <1>5, <1>6, <1>7, <1>8, <1>9 DEF Kinds
<1> QED BY <1>9, <1>10, <1>11 DEF Y, X, tabs, ms, funcs

\* blocks, want and mems only gain elements at the end.
LEMMA StoreGrows ==
  ASSUME TypeInv, cur.phase = "import", cur.k > Len(D.imports)
  PROVE  /\ blocks \o NewBlocks \in Seq(BlockT) /\ DOMAIN blocks \subseteq DOMAIN (blocks \o NewBlocks)
         /\ DOMAIN (blocks \o NewBlocks) = 1 .. Len(blocks) + Len(D.tables)
         /\ \A b \in DOMAIN blocks : (blocks \o NewBlocks)[b] = blocks[b]
         /\ \A k \in 1 .. Len(D.tables) : (blocks \o NewBlocks)[Len(blocks) + k] = NewBlocks[k]
         /\ want \o NewEls \in Seq(Seq(Ref)) /\ DOMAIN want \subseteq DOMAIN (want \o NewEls)
         /\ DOMAIN (want \o NewEls) = 1 .. Len(want) + Len(D.tables)
         /\ \A b \in DOMAIN want : (want \o NewEls)[b] = want[b]
         /\ \A k \in 1 .. Len(D.tables) : (want \o NewEls)[Len(want) + k] = NewEls[k]
         /\ mems \o NewMems \in Seq(MemT) /\ DOMAIN mems \subseteq DOMAIN (mems \o NewMems)
         /\ DOMAIN (mems \o NewMems) = 1 .. Len(mems) + Len(D.mems)
         /\ \A b \in DOMAIN mems : (mems \o NewMems)[b] = mems[b]
         /\ \A k \in 1 .. Len(D.mems) : (mems \o NewMems)[Len(mems) + k] = NewMems[k]
         /\ DOMAIN blocks = 1 .. Len(blocks) /\ DOMAIN want = 1 .. Len(want)
         /\ DOMAIN mems = 1 .. Len(mems)
<1>1. /\ blocks \in Seq(BlockT) /\ want \in Seq(Seq(Ref)) /\ mems \in Seq(MemT)
  BY DEF TypeInv, Shapes
<1>2. NewBlocks \in Seq(BlockT) /\ Len(NewBlocks) = Len(D.tables) BY NewAre
<1>3. NewEls \in Seq(Seq(Ref)) /\ Len(NewEls) = Len(D.tables) BY NewAre
<1>4. NewMems \in Seq(MemT) /\ Len(NewMems) = Len(D.mems) BY NewAre
<1>5. DOMAIN NewBlocks = 1 .. Len(D.tables) /\ DOMAIN NewEls = 1 .. Len(D.tables)
      /\ DOMAIN NewMems = 1 .. Len(D.mems) /\ Len(D.tables) \in Nat /\ Len(D.mems) \in Nat
  BY <1>2, <1>3, <1>4, LenProperties
<1>6. /\ blocks \o NewBlocks \in Seq(BlockT)
      /\ DOMAIN (blocks \o NewBlocks) = 1 .. Len(blocks) + Len(D.tables)
      /\ \A b \in DOMAIN blocks : (blocks \o NewBlocks)[b] = blocks[b]
      /\ \A k \in 1 .. Len(D.tables) : (blocks \o NewBlocks)[Len(blocks) + k] = NewBlocks[k]
      /\ DOMAIN blocks = 1 .. Len(blocks) /\ Len(blocks) \in Nat
  <2> DEFINE s == blocks  t == NewBlocks  u == blocks \o NewBlocks  n == Len(D.tables)
  <2>1. s \in Seq(BlockT) /\ t \in Seq(BlockT) /\ u = s \o t BY <1>1, <1>2
  <2>0. DOMAIN t = 1 .. n BY <1>5
  <2> HIDE DEF s, t, u, n
  <2>2. u \in Seq(BlockT) /\ DOMAIN u = 1 .. Len(s) + Len(t) BY <2>1, Joined
  <2>3. DOMAIN s = 1 .. Len(s) /\ Len(s) \in Nat BY <2>1, Joined
  <2>4. /\ \A i \in DOMAIN s : u[i] = s[i]
        /\ \A i \in DOMAIN t : u[Len(s) + i] = t[i] BY <2>1, Joined
  <2>5. \A i \in 1 .. n : u[Len(s) + i] = t[i] BY <2>0, <2>4
  <2> QED BY <2>2, <2>3, <2>4, <2>5, <1>2 DEF s, t, u, n
<1>7. /\ want \o NewEls \in Seq(Seq(Ref))
      /\ DOMAIN (want \o NewEls) = 1 .. Len(want) + Len(D.tables)
      /\ \A b \in DOMAIN want : (want \o NewEls)[b] = want[b]
      /\ \A k \in 1 .. Len(D.tables) : (want \o NewEls)[Len(want) + k] = NewEls[k]
      /\ DOMAIN want = 1 .. Len(want) /\ Len(want) \in Nat
  <2> DEFINE s == want  t == NewEls  u == want \o NewEls  n == Len(D.tables)
  <2>1. s \in Seq(Seq(Ref)) /\ t \in Seq(Seq(Ref)) /\ u = s \o t BY <1>1, <1>3
  <2>0. DOMAIN t = 1 .. n BY <1>5
  <2> HIDE DEF s, t, u, n
  <2>2. u \in Seq(Seq(Ref)) /\ DOMAIN u = 1 .. Len(s) + Len(t) BY <2>1, Joined
  <2>3. DOMAIN s = 1 .. Len(s) /\ Len(s) \in Nat BY <2>1, Joined
  <2>4. /\ \A i \in DOMAIN s : u[i] = s[i]
        /\ \A i \in DOMAIN t : u[Len(s) + i] = t[i] BY <2>1, Joined
  <2>5. \A i \in 1 .. n : u[Len(s) + i] = t[i] BY <2>0, <2>4
  <2> QED BY <2>2, <2>3, <2>4, <2>5, <1>3 DEF s, t, u, n
<1>8. /\ mems \o NewMems \in Seq(MemT)
      /\ DOMAIN (mems \o NewMems) = 1 .. Len(mems) + Len(D.mems)
      /\ \A b \in DOMAIN mems : (mems \o NewMems)[b] = mems[b]
      /\ \A k \in 1 .. Len(D.mems) : (mems \o NewMems)[Len(mems) + k] = NewMems[k]
      /\ DOMAIN mems = 1 .. Len(mems) /\ Len(mems) \in Nat
  <2> DEFINE s == mems  t == NewMems  u == mems \o NewMems  n == Len(D.mems)
  <2>1. s \in Seq(MemT) /\ t \in Seq(MemT) /\ u = s \o t BY <1>1, <1>4
  <2>0. DOMAIN t = 1 .. n BY <1>5
  <2> HIDE DEF s, t, u, n
  <2>2. u \in Seq(MemT) /\ DOMAIN u = 1 .. Len(s) + Len(t) BY <2>1, Joined
  <2>3. DOMAIN s = 1 .. Len(s) /\ Len(s) \in Nat BY <2>1, Joined
  <2>4. /\ \A i \in DOMAIN s : u[i] = s[i]
        /\ \A i \in DOMAIN t : u[Len(s) + i] = t[i] BY <2>1, Joined
  <2>5. \A i \in 1 .. n : u[Len(s) + i] = t[i] BY <2>0, <2>4
  <2> QED BY <2>2, <2>3, <2>4, <2>5, <1>4 DEF s, t, u, n
<1>9. \A x, y \in Nat : 1 .. x \subseteq 1 .. x + y OBVIOUS
<1> QED BY <1>5, <1>6, <1>7, <1>8, <1>9

\* The tables and memories an instance has after its definitions.
LEMMA OwnParts ==
  ASSUME TypeInv, cur.phase = "import", cur.k > Len(D.imports)
  PROVE  /\ \A k \in DOMAIN WithOwn.tabs :
              \/ k \in DOMAIN insts[I].tabs /\ WithOwn.tabs[k] = insts[I].tabs[k]
              \/ \E j \in 1 .. Len(D.tables) : 
                   k = Len(insts[I].tabs) + j
                   /\ WithOwn.tabs[k] = NewTable(j, Len(blocks) + j, Len(want) + j)
         /\ \A k \in DOMAIN WithOwn.mems :
              \/ k \in DOMAIN insts[I].mems /\ WithOwn.mems[k] = insts[I].mems[k]
              \/ \E j \in 1 .. Len(D.mems) :
                   k = Len(insts[I].mems) + j /\ WithOwn.mems[k] = Len(mems) + j
         /\ \A k \in DOMAIN WithOwn.funcs :
              \/ k \in DOMAIN insts[I].funcs /\ WithOwn.funcs[k] = insts[I].funcs[k]
              \/ \E j \in 1 .. Len(D.funcs) :
                   k = Len(insts[I].funcs) + j /\ WithOwn.funcs[k] = [inst |-> I, type |-> D.funcs[j]]
<1>1. /\ insts[I].tabs \in Seq(TableT) /\ insts[I].mems \in Seq(Nat) /\ insts[I].funcs \in Seq(FuncT)
  BY CurIs DEF InstT
<1>2. NewTabs \in Seq(TableT) /\ DOMAIN NewTabs = 1 .. Len(D.tables) BY NewAre, LenProperties
<1>3. NewMemIdx \in Seq(Nat) /\ DOMAIN NewMemIdx = 1 .. Len(D.mems) BY NewAre, LenProperties
<1>4. NewFuncs \in Seq(FuncT) /\ DOMAIN NewFuncs = 1 .. Len(D.funcs) BY NewAre, LenProperties
<1>5. /\ WithOwn.tabs = insts[I].tabs \o NewTabs /\ WithOwn.mems = insts[I].mems \o NewMemIdx
      /\ WithOwn.funcs = insts[I].funcs \o NewFuncs BY OwnIs
<1>6. ASSUME NEW k \in DOMAIN WithOwn.tabs
      PROVE  \/ k \in DOMAIN insts[I].tabs /\ WithOwn.tabs[k] = insts[I].tabs[k]
             \/ \E j \in 1 .. Len(D.tables) :
                  k = Len(insts[I].tabs) + j
                  /\ WithOwn.tabs[k] = NewTable(j, Len(blocks) + j, Len(want) + j)
  <2> DEFINE s == insts[I].tabs  t == NewTabs  u == WithOwn.tabs  n == Len(s)
  <2>1. s \in Seq(TableT) /\ t \in Seq(TableT) /\ u = s \o t /\ k \in DOMAIN u BY <1>1, <1>2, <1>5, <1>6
  <2> HIDE DEF s, t, u
  <2>2. /\ n \in Nat /\ DOMAIN u = 1 .. Len(s) + Len(t)
        /\ \A i \in DOMAIN s : u[i] = s[i]
        /\ \A i \in DOMAIN t : u[n + i] = t[i]
        /\ \A i \in DOMAIN u : i \in DOMAIN s \/ i - n \in DOMAIN t BY <2>1, Joined
  <2>3. k \in DOMAIN s \/ (k - n \in DOMAIN t /\ k = n + (k - n)) BY <2>1, <2>2
  <2>4. CASE k \in DOMAIN s BY <2>2, <2>4 DEF s, u
  <2>5. CASE k - n \in DOMAIN t /\ k = n + (k - n)
    <3>1. u[k] = t[k - n] BY <2>2, <2>5
    <3>2. t[k - n] = NewTable(k - n, Len(blocks) + (k - n), Len(want) + (k - n))
      BY <2>5, <1>2 DEF t, NewTabs
    <3> QED BY <3>1, <3>2, <2>5, <1>2 DEF t, s, u
  <2> QED BY <2>3, <2>4, <2>5
<1>7. ASSUME NEW k \in DOMAIN WithOwn.mems
      PROVE  \/ k \in DOMAIN insts[I].mems /\ WithOwn.mems[k] = insts[I].mems[k]
             \/ \E j \in 1 .. Len(D.mems) :
                  k = Len(insts[I].mems) + j /\ WithOwn.mems[k] = Len(mems) + j
  <2> DEFINE s == insts[I].mems  t == NewMemIdx  u == WithOwn.mems  n == Len(s)
  <2>1. s \in Seq(Nat) /\ t \in Seq(Nat) /\ u = s \o t /\ k \in DOMAIN u BY <1>1, <1>3, <1>5, <1>7
  <2> HIDE DEF s, t, u
  <2>2. /\ n \in Nat /\ DOMAIN u = 1 .. Len(s) + Len(t)
        /\ \A i \in DOMAIN s : u[i] = s[i]
        /\ \A i \in DOMAIN t : u[n + i] = t[i]
        /\ \A i \in DOMAIN u : i \in DOMAIN s \/ i - n \in DOMAIN t BY <2>1, Joined
  <2>3. k \in DOMAIN s \/ (k - n \in DOMAIN t /\ k = n + (k - n)) BY <2>1, <2>2
  <2>4. CASE k \in DOMAIN s BY <2>2, <2>4 DEF s, u
  <2>5. CASE k - n \in DOMAIN t /\ k = n + (k - n)
    <3>1. u[k] = t[k - n] BY <2>2, <2>5
    <3>2. t[k - n] = Len(mems) + (k - n) BY <2>5, <1>3 DEF t, NewMemIdx
    <3> QED BY <3>1, <3>2, <2>5, <1>3 DEF t, s, u
  <2> QED BY <2>3, <2>4, <2>5
<1>8. ASSUME NEW k \in DOMAIN WithOwn.funcs
      PROVE  \/ k \in DOMAIN insts[I].funcs /\ WithOwn.funcs[k] = insts[I].funcs[k]
             \/ \E j \in 1 .. Len(D.funcs) :
                  k = Len(insts[I].funcs) + j /\ WithOwn.funcs[k] = [inst |-> I, type |-> D.funcs[j]]
  <2> DEFINE s == insts[I].funcs  t == NewFuncs  u == WithOwn.funcs  n == Len(s)
  <2>1. s \in Seq(FuncT) /\ t \in Seq(FuncT) /\ u = s \o t /\ k \in DOMAIN u BY <1>1, <1>4, <1>5, <1>8
  <2> HIDE DEF s, t, u
  <2>2. /\ n \in Nat /\ DOMAIN u = 1 .. Len(s) + Len(t)
        /\ \A i \in DOMAIN s : u[i] = s[i]
        /\ \A i \in DOMAIN t : u[n + i] = t[i]
        /\ \A i \in DOMAIN u : i \in DOMAIN s \/ i - n \in DOMAIN t BY <2>1, Joined
  <2>3. k \in DOMAIN s \/ (k - n \in DOMAIN t /\ k = n + (k - n)) BY <2>1, <2>2
  <2>4. CASE k \in DOMAIN s BY <2>2, <2>4 DEF s, u
  <2>5. CASE k - n \in DOMAIN t /\ k = n + (k - n)
    <3>1. u[k] = t[k - n] BY <2>2, <2>5
    <3>2. t[k - n] = [inst |-> I, type |-> D.funcs[k - n]] BY <2>5, <1>4 DEF t, NewFuncs
    <3> QED BY <3>1, <3>2, <2>5, <1>4 DEF t, s, u
  <2> QED BY <2>3, <2>4, <2>5
<1> QED BY <1>6, <1>7, <1>8

\* Replacing the record of the instance under construction.
LEMMA ReplacedIs ==
  ASSUME TypeInv, NEW i \in DOMAIN insts, NEW y \in InstT, insts' = [insts EXCEPT ![i] = y]
  PROVE  /\ insts' \in Seq(InstT) /\ Len(insts') = Len(insts) /\ DOMAIN insts' = DOMAIN insts
         /\ insts'[i] = y /\ \A j \in DOMAIN insts : j # i => insts'[j] = insts[j]
<1>1. i \in 1 .. Len(insts) /\ insts \in Seq(InstT) /\ DOMAIN insts = 1 .. Len(insts)
  BY InstsAre DEF TypeInv, Shapes
<1>2. insts' \in Seq(InstT) /\ Len(insts') = Len(insts) BY <1>1, ExceptSeq
<1> QED BY <1>1, <1>2

\* An instance's own tables, memories and globals exist once it is defined.
LEMMA DefineType ==
  ASSUME TypeInv, Define
  PROVE  TypeInv'
<1>1. /\ cur.phase = "import" /\ cur.k > Len(D.imports) /\ UNCHANGED <<named, ops>>
      /\ cells' = NewCells(NewGlobs) /\ blocks' = blocks \o NewBlocks /\ want' = want \o NewEls
  BY DefineIs
<1>2. /\ cur # Idle /\ I \in DOMAIN insts /\ I = Len(insts) /\ I # 0 /\ insts[I].out = "building"
  BY <1>1, CurIs
<1>3. /\ blocks' \in Seq(BlockT) /\ DOMAIN blocks \subseteq DOMAIN blocks'
      /\ DOMAIN blocks' = 1 .. Len(blocks) + Len(D.tables)
      /\ want' \in Seq(Seq(Ref)) /\ DOMAIN want \subseteq DOMAIN want'
      /\ DOMAIN want' = 1 .. Len(want) + Len(D.tables)
  BY <1>1, StoreGrows
<1>4. /\ cells' \in Seq(Int) /\ Len(cells') = Len(cells) + Len(D.globals)
      /\ \A k \in DOMAIN NewGlobs : NewGlobs[k] \in 1 .. Len(cells) + Len(D.globals)
  BY <1>1, CellsAre
<1>5. Len(D.globals) \in Nat /\ Len(D.tables) \in Nat /\ Len(D.mems) \in Nat BY <1>1, DefinesAre
<1>6. Len(cells) \in Nat /\ DOMAIN cells = 1 .. Len(cells) /\ Len(blocks) \in Nat
      /\ Len(want) \in Nat /\ Len(mems) \in Nat BY LenProperties DEF TypeInv, Shapes
<1>7. DOMAIN cells' = 1 .. Len(cells) + Len(D.globals) BY <1>4, LenProperties
<1>8. DOMAIN cells \subseteq DOMAIN cells' BY <1>5, <1>6, <1>7
<1>9. CASE Abandon("uninstantiable", FALSE) /\ UNCHANGED <<mems, ecache>>
  <2>1. insts' = [insts EXCEPT ![I].out = "uninstantiable"] /\ cur' = Idle BY <1>9 DEF Abandon
  <2>2. "uninstantiable" \in {"unlinkable", "uninstantiable"} OBVIOUS
  <2>3. cur.phase # "idle" /\ UNCHANGED mems /\ UNCHANGED <<named, ops>> BY <1>1, <1>9
  <2>4. blocks' \in Seq(BlockT) /\ DOMAIN blocks \subseteq DOMAIN blocks' BY <1>3
  <2>5. want' \in Seq(Seq(Ref)) /\ DOMAIN want \subseteq DOMAIN want' BY <1>3
  <2>6. cells' \in Seq(Int) /\ DOMAIN cells \subseteq DOMAIN cells' BY <1>4, <1>8
  <2> QED BY <2>1, <2>2, <2>3, <2>4, <2>5, <2>6, AbandonType
<1>10. CASE /\ mems' = mems \o NewMems /\ insts' = [insts EXCEPT ![I] = WithOwn]
            /\ Step("elem", 1)
  <2> DEFINE Y == WithOwn
  <2>1. /\ Y \in InstT /\ Y.jit_mem0 /\ Y.mod = insts[I].mod /\ Y.out = insts[I].out
        /\ Y.globs = NewGlobs
        /\ \A kind \in Kinds : Has(Y, kind) = Imported(Y.mod, kind) + Defined(Y.mod, kind)
    BY <1>1, OwnIs
  <2>2. insts' = [insts EXCEPT ![I] = Y] BY <1>10
  <2> HIDE DEF Y
  <2>3. /\ insts' \in Seq(InstT) /\ Len(insts') = Len(insts) /\ DOMAIN insts' = DOMAIN insts
        /\ insts'[I] = Y /\ \A j \in DOMAIN insts : j # I => insts'[j] = insts[j]
    BY <1>2, <2>1, <2>2, ReplacedIs
  <2>4. /\ cur' \in [inst : Nat, phase : {"idle", "import", "elem", "data", "start"}, k : Nat]
        /\ cur'.inst = I /\ cur'.phase = "elem" /\ cur'.k = 1 /\ cur' # Idle
    BY <1>10, StepIs
  <2>5. /\ mems' \in Seq(MemT) /\ DOMAIN mems \subseteq DOMAIN mems'
        /\ DOMAIN mems' = 1 .. Len(mems) + Len(D.mems)
        /\ \A a \in DOMAIN mems : mems'[a] = mems[a]
        /\ \A k \in 1 .. Len(D.mems) : mems'[Len(mems) + k] = NewMems[k]
        /\ DOMAIN mems = 1 .. Len(mems)
    BY <1>1, <1>10, StoreGrows
  <2>6. \A a \in DOMAIN mems' : Len(mems'[a].bytes) = mems'[a].pages * Page
    <3> TAKE a \in DOMAIN mems'
    <3>1. CASE a \in DOMAIN mems BY <3>1, <2>5 DEF TypeInv, Shapes
    <3>2. CASE a \notin DOMAIN mems
      <4>1. a - Len(mems) \in 1 .. Len(D.mems) /\ a = Len(mems) + (a - Len(mems))
        BY <3>2, <2>5, <1>5, <1>6
      <4>2. mems'[a] = NewMems[a - Len(mems)] BY <4>1, <2>5
      <4>3. mems'[a] = NewMem(D.mems[a - Len(mems)]) BY <4>1, <4>2 DEF NewMems
      <4> QED BY <4>1, <4>3, <1>1, DefinesAre
    <3> QED BY <3>1, <3>2
  <2>7. Shapes' BY <2>3, <2>4, <2>5, <2>6, <1>1, <1>3, <1>4 DEF TypeInv, Shapes
  <2>8. Sized' BY <2>1, <2>3 DEF TypeInv, Sized
  <2>9. Phase' BY <2>1, <2>3, <2>4, <1>2 DEF Phase
  <2>10. Outcomes'
    <3>1. \A j \in DOMAIN insts : j # I => insts[j].out # "building" BY DEF TypeInv, Outcomes, I
    <3> QED BY <3>1, <2>1, <2>3, <2>4 DEF TypeInv, Outcomes
  <2>11. Registered' BY <2>1, <2>3, <1>1, StaysRegistered
  <2>12. Leads'
    <3>1. \A k \in DOMAIN Y.tabs : Y.tabs[k].blk \in DOMAIN blocks' /\ Y.tabs[k].tid \in DOMAIN want'
      <4> TAKE k \in DOMAIN Y.tabs
      <4>1. \/ k \in DOMAIN insts[I].tabs /\ Y.tabs[k] = insts[I].tabs[k]
            \/ \E j \in 1 .. Len(D.tables) :
                 Y.tabs[k] = NewTable(j, Len(blocks) + j, Len(want) + j)
        BY <1>1, OwnParts DEF Y
      <4>2. CASE k \in DOMAIN insts[I].tabs /\ Y.tabs[k] = insts[I].tabs[k]
        <5>1. insts[I].tabs[k].blk \in DOMAIN blocks /\ insts[I].tabs[k].tid \in DOMAIN want
          BY <4>2, <1>2 DEF TypeInv, Leads
        <5> QED BY <5>1, <4>2, <1>3
      <4>3. ASSUME NEW j \in 1 .. Len(D.tables),
                   Y.tabs[k] = NewTable(j, Len(blocks) + j, Len(want) + j)
            PROVE  Y.tabs[k].blk \in DOMAIN blocks' /\ Y.tabs[k].tid \in DOMAIN want'
        <5>1. Y.tabs[k].blk = Len(blocks) + j /\ Y.tabs[k].tid = Len(want) + j
          BY <4>3 DEF NewTable
        <5> QED BY <5>1, <1>3, <1>5, <1>6, SMTT(30)
      <4> QED BY <4>1, <4>2, <4>3
    <3>2. \A k \in DOMAIN Y.mems : Y.mems[k] \in DOMAIN mems'
      <4> TAKE k \in DOMAIN Y.mems
      <4>1. \/ k \in DOMAIN insts[I].mems /\ Y.mems[k] = insts[I].mems[k]
            \/ \E j \in 1 .. Len(D.mems) : Y.mems[k] = Len(mems) + j
        BY <1>1, OwnParts DEF Y
      <4>2. CASE k \in DOMAIN insts[I].mems /\ Y.mems[k] = insts[I].mems[k]
        <5>1. insts[I].mems[k] \in DOMAIN mems BY <4>2, <1>2 DEF TypeInv, Leads
        <5> QED BY <5>1, <4>2, <2>5
      <4>3. ASSUME NEW j \in 1 .. Len(D.mems), Y.mems[k] = Len(mems) + j
            PROVE  Y.mems[k] \in DOMAIN mems' BY <4>3, <2>5, <1>5, <1>6
      <4> QED BY <4>1, <4>2, <4>3
    <3>3. \A k \in DOMAIN Y.globs : Y.globs[k] \in DOMAIN cells' BY <2>1, <1>4, <1>7
    <3>4. \A i \in DOMAIN insts :
            /\ \A k \in DOMAIN insts[i].tabs :
                 insts[i].tabs[k].blk \in DOMAIN blocks' /\ insts[i].tabs[k].tid \in DOMAIN want'
            /\ \A k \in DOMAIN insts[i].mems : insts[i].mems[k] \in DOMAIN mems'
            /\ \A k \in DOMAIN insts[i].globs : insts[i].globs[k] \in DOMAIN cells'
      BY <1>3, <1>8, <2>5 DEF TypeInv, Leads
    <3>5. \A i \in DOMAIN insts' : insts'[i] = Y \/ (i \in DOMAIN insts /\ insts'[i] = insts[i]) BY <2>3
    <3> QED BY <3>1, <3>2, <3>3, <3>4, <3>5 DEF Leads
  <2> QED BY <2>7, <2>8, <2>9, <2>10, <2>11, <2>12 DEF TypeInv
<1> QED BY <1>9, <1>10, DefineIs

\* A step after which blocks, tables, memories and cells are at least those
\* before it, of the same types.
Stores ==
  /\ blocks' \in Seq(BlockT) /\ DOMAIN blocks \subseteq DOMAIN blocks'
  /\ want' \in Seq(Seq(Ref)) /\ DOMAIN want \subseteq DOMAIN want'
  /\ mems' \in Seq(MemT) /\ DOMAIN mems \subseteq DOMAIN mems'
  /\ \A a \in DOMAIN mems' : Len(mems'[a].bytes) = mems'[a].pages * Page
  /\ UNCHANGED <<cells, named>> /\ ops' \in 0 .. MaxOps

\* A step that leaves the store's arrays alone keeps their types.
LEMMA StoresSame ==
  ASSUME TypeInv, UNCHANGED <<blocks, want, mems, cells, named>>, ops' \in 0 .. MaxOps
  PROVE  Stores
  BY DEF TypeInv, Shapes, Stores

\* An instruction, or a host call, that leaves every outcome as it is.
LEMMA KeepsCur ==
  ASSUME TypeInv, Kept, Stores, UNCHANGED cur,
         \A i \in DOMAIN insts : insts'[i].out = insts[i].out
  PROVE  TypeInv'
<1>1. DOMAIN insts' = DOMAIN insts /\ Sized' /\ Leads'
      /\ \A i \in DOMAIN insts, kind \in Kinds : Has(insts'[i], kind) = Has(insts[i], kind)
  BY KeptParts DEF Stores
<1>2. Shapes' BY DEF TypeInv, Shapes, Stores, Kept
<1>3. Phase'
  <2> SUFFICES ASSUME cur # Idle PROVE Phase' BY DEF Phase
  <2>1. cur.inst \in DOMAIN insts BY InstsAre DEF TypeInv, Phase
  <2>2. /\ insts'[cur.inst].out = insts[cur.inst].out /\ insts'[cur.inst].mod = insts[cur.inst].mod
        /\ insts'[cur.inst].jit_mem0 = insts[cur.inst].jit_mem0 /\ Len(insts') = Len(insts)
        /\ \A kind \in Kinds : Has(insts'[cur.inst], kind) = Has(insts[cur.inst], kind)
    BY <2>1, <1>1 DEF Kept
  <2> QED BY <2>2 DEF TypeInv, Phase
<1>4. Outcomes' BY <1>1 DEF TypeInv, Outcomes, Kept
<1>5. Registered' BY <1>1 DEF TypeInv, Registered, Stores
<1> QED BY <1>1, <1>2, <1>3, <1>4, <1>5 DEF TypeInv

\* A step of an instantiation from its element segments on.
LEMMA Advances ==
  ASSUME TypeInv, Kept, Stores, cur.phase \notin {"idle", "import"},
         NEW p \in {"elem", "data", "start"}, NEW k \in Nat \ {0}, Step(p, k),
         \A i \in DOMAIN insts : insts'[i].out = insts[i].out
  PROVE  TypeInv'
<1>0. cur.phase # "idle" /\ cur.phase # "import" OBVIOUS
<1>1. DOMAIN insts' = DOMAIN insts /\ Sized' /\ Leads' BY KeptParts DEF Stores
<1>2. /\ cur' \in [inst : Nat, phase : {"idle", "import", "elem", "data", "start"}, k : Nat]
      /\ cur'.inst = I /\ cur'.phase = p /\ cur'.k = k /\ cur' # Idle
  BY StepIs
<1>3. /\ cur # Idle /\ I \in DOMAIN insts /\ I = Len(insts) /\ I # 0
      /\ insts[I].out = "building" /\ insts[I].jit_mem0 BY <1>0, CurIs
<1>4. Shapes' BY <1>2 DEF TypeInv, Shapes, Stores, Kept
<1>5. Phase'
  <2>1. /\ insts'[I].out = "building" /\ insts'[I].jit_mem0 /\ Len(insts') = Len(insts)
    BY <1>3 DEF Kept
  <2> QED BY <2>1, <1>2, <1>3 DEF Phase
<1>6. Outcomes' BY <1>1, <1>2, <1>3 DEF TypeInv, Outcomes, Kept, I
<1>7. Registered' BY <1>1 DEF TypeInv, Registered, Stores
<1> QED BY <1>1, <1>4, <1>5, <1>6, <1>7 DEF TypeInv

\* The end of an instantiation.
LEMMA Ends ==
  ASSUME TypeInv, cur.phase \notin {"idle", "import"}, Stores, cur' = Idle,
         NEW how \in {"ok", "trapped", "uninstantiable"}, insts' = [insts EXCEPT ![I].out = how]
  PROVE  TypeInv' /\ Kept
<1>1. I \in DOMAIN insts /\ insts[I] \in InstT /\ insts[I].out = "building" /\ insts[I].jit_mem0
      /\ cur.phase # "idle" BY CurIs
<1> DEFINE y == [insts[I] EXCEPT !.out = how]
<1>2. y \in InstT BY <1>1 DEF InstT, Outs
<1>3. /\ y.mod = insts[I].mod /\ y.tabs = insts[I].tabs /\ y.mems = insts[I].mems
      /\ y.globs = insts[I].globs /\ y.funcs = insts[I].funcs /\ y.tags = insts[I].tags
      /\ y.jit_mem0 = insts[I].jit_mem0 /\ y.out = how BY <1>1 DEF InstT
<1>4. insts' = [insts EXCEPT ![I] = y] OBVIOUS
<1> HIDE DEF y
<1>5. /\ Kept /\ DOMAIN insts' = DOMAIN insts /\ insts'[I] = y
      /\ \A j \in DOMAIN insts : j # I => insts'[j] = insts[j] BY <1>1, <1>2, <1>3, <1>4, KeptBy
<1>6. Sized' /\ Leads' BY <1>5, KeptParts DEF Stores
<1>7. Shapes'
  <2>1. cur' \in [inst : Nat, phase : {"idle", "import", "elem", "data", "start"}, k : Nat]
    BY DEF Idle
  <2> QED BY <2>1, <1>5 DEF TypeInv, Shapes, Kept, Stores
<1>8. Phase' BY DEF Phase, Idle
<1>9. Outcomes'
  <2>1. how # "building" OBVIOUS
  <2>2. \A j \in DOMAIN insts : j # I => insts[j].out # "building" BY DEF TypeInv, Outcomes, I
  <2> QED BY <2>1, <2>2, <1>1, <1>3, <1>5 DEF TypeInv, Outcomes
<1>10. Registered' BY <1>5, <1>1, StaysRegistered DEF Stores
<1> QED BY <1>5, <1>6, <1>7, <1>8, <1>9, <1>10 DEF TypeInv

----------------------------------------------------------------------------
(* What the operators of Tables do to elements.                            *)

\* Writing values into a list keeps its length and the places outside.
LEMMA StoredIs ==
  ASSUME NEW S, NEW els \in Seq(S), NEW vals \in Seq(S), NEW off \in Int
  PROVE  /\ Stored(els, off, vals) \in Seq(S) /\ Len(Stored(els, off, vals)) = Len(els)
         /\ \A x \in 1 .. Len(els) :
              Stored(els, off, vals)[x] =
                IF x \in off + 1 .. off + Len(vals) THEN vals[x - off] ELSE els[x]
         /\ \A x \in 1 .. Len(els) :
              \/ Stored(els, off, vals)[x] = els[x]
              \/ x - off \in 1 .. Len(vals) /\ Stored(els, off, vals)[x] = vals[x - off]
<1> DEFINE e(x) == IF x \in off + 1 .. off + Len(vals) THEN vals[x - off] ELSE els[x]
           n == Len(els)
<1>1. n \in Nat /\ Len(vals) \in Nat BY LenProperties
<1>2. \A x \in 1 .. n : e(x) \in S /\ (e(x) = els[x] \/ (x - off \in 1 .. Len(vals) /\ e(x) = vals[x - off]))
  <2> TAKE x \in 1 .. n
  <2>1. CASE x \in off + 1 .. off + Len(vals)
    <3>1. x - off \in 1 .. Len(vals) BY <1>1, <2>1
    <3> QED BY <2>1, <3>1, ElementOfSeq
  <2>2. CASE x \notin off + 1 .. off + Len(vals) BY <2>2, ElementOfSeq
  <2> QED BY <2>1, <2>2
<1>3. Stored(els, off, vals) = [x \in 1 .. n |-> e(x)] BY DEF Stored
<1> HIDE DEF e, n
<1>4. Stored(els, off, vals) \in [1 .. n -> S] BY <1>2, <1>3
<1>5. Stored(els, off, vals) \in Seq(S) /\ Len(Stored(els, off, vals)) = n BY <1>1, <1>4, Tabulated
<1> QED BY <1>2, <1>3, <1>5 DEF e, n

\* The list table.fill and table.grow write.
LEMMA RepeatIs ==
  ASSUME NEW S, NEW v \in S, NEW n \in Nat
  PROVE  Repeat(v, n) \in Seq(S) /\ Len(Repeat(v, n)) = n /\ \A x \in 1 .. n : Repeat(v, n)[x] = v
<1>1. Repeat(v, n) \in [1 .. n -> S] BY DEF Repeat
<1>2. Repeat(v, n) \in Seq(S) /\ Len(Repeat(v, n)) = n BY <1>1, Tabulated
<1> QED BY <1>2 DEF Repeat

\* The list table.copy and table.init read: places outside the source hold anything.
LEMMA SliceIs ==
  ASSUME NEW els \in Seq(Ref), NEW s \in Nat, NEW n \in Nat
  PROVE  /\ Slice(els, s, n) \in Seq(Ref) /\ Len(Slice(els, s, n)) = n
         /\ \A x \in 1 .. n :
              Slice(els, s, n)[x] = IF s + x \in 1 .. Len(els) THEN els[s + x] ELSE Wild
<1>1. \A x \in 1 .. n : (IF s + x \in 1 .. Len(els) THEN els[s + x] ELSE Wild) \in Ref
  <2> TAKE x \in 1 .. n
  <2>1. CASE s + x \in 1 .. Len(els) BY <2>1, ElementOfSeq
  <2>2. CASE s + x \notin 1 .. Len(els) BY <2>2 DEF Wild, Ref
  <2> QED BY <2>1, <2>2
<1>2. Slice(els, s, n) \in [1 .. n -> Ref] BY <1>1 DEF Slice
<1>3. Slice(els, s, n) \in Seq(Ref) /\ Len(Slice(els, s, n)) = n BY <1>2, Tabulated
<1> QED BY <1>3 DEF Slice

\* The arrays by number.
LEMMA BlocksAre ==
  ASSUME TypeInv
  PROVE  /\ \A b \in DOMAIN blocks : blocks[b] \in BlockT /\ blocks[b].els \in Seq(Ref)
                                     /\ blocks[b].live \in BOOLEAN
         /\ \A w \in DOMAIN want : want[w] \in Seq(Ref)
         /\ \A a \in DOMAIN mems : mems[a] \in MemT
         /\ DOMAIN blocks = 1 .. Len(blocks) /\ Len(blocks) \in Nat
         /\ DOMAIN want = 1 .. Len(want) /\ Len(want) \in Nat
         /\ DOMAIN mems = 1 .. Len(mems) /\ Len(mems) \in Nat
         /\ \A i \in DOMAIN insts : \A k \in DOMAIN insts[i].tabs :
              insts[i].tabs[k] \in TableT /\ insts[i].tabs[k].blk \in DOMAIN blocks
              /\ insts[i].tabs[k].tid \in DOMAIN want
<1>1. blocks \in Seq(BlockT) /\ want \in Seq(Seq(Ref)) /\ mems \in Seq(MemT) BY DEF TypeInv, Shapes
<1>2. /\ DOMAIN blocks = 1 .. Len(blocks) /\ Len(blocks) \in Nat
      /\ DOMAIN want = 1 .. Len(want) /\ Len(want) \in Nat
      /\ DOMAIN mems = 1 .. Len(mems) /\ Len(mems) \in Nat BY <1>1, LenProperties
<1>3. \A b \in DOMAIN blocks : blocks[b] \in BlockT BY <1>1, <1>2, ElementOfSeq
<1>4. \A w \in DOMAIN want : want[w] \in Seq(Ref) BY <1>1, <1>2, ElementOfSeq
<1>5. \A a \in DOMAIN mems : mems[a] \in MemT BY <1>1, <1>2, ElementOfSeq
<1>6. \A i \in DOMAIN insts : \A k \in DOMAIN insts[i].tabs : insts[i].tabs[k] \in TableT
  <2> TAKE i \in DOMAIN insts
  <2>1. insts[i].tabs \in Seq(TableT) BY InstsAre DEF InstT
  <2> QED BY <2>1, LenProperties, ElementOfSeq
<1> QED BY <1>2, <1>3, <1>4, <1>5, <1>6 DEF BlockT, TypeInv, Leads

\* Writing the elements of one block, one table or one memory.
LEMMA BlockWrite ==
  ASSUME TypeInv, NEW b \in DOMAIN blocks, NEW els \in Seq(Ref),
         blocks' = [blocks EXCEPT ![b].els = els]
  PROVE  /\ blocks' \in Seq(BlockT) /\ DOMAIN blocks' = DOMAIN blocks
         /\ blocks'[b].els = els /\ blocks'[b].live = blocks[b].live
         /\ \A c \in DOMAIN blocks : c # b => blocks'[c] = blocks[c]
<1> DEFINE e == [blocks[b] EXCEPT !.els = els]
<1>1. blocks[b] \in BlockT BY BlocksAre
<1>2. e \in BlockT /\ e.els = els /\ e.live = blocks[b].live BY <1>1 DEF BlockT
<1>3. blocks' = [blocks EXCEPT ![b] = e] OBVIOUS
<1> HIDE DEF e
<1>4. b \in 1 .. Len(blocks) /\ blocks \in Seq(BlockT) BY BlocksAre DEF TypeInv, Shapes
<1>5. blocks' \in Seq(BlockT) BY <1>2, <1>3, <1>4, ExceptSeq
<1>6. /\ DOMAIN blocks' = DOMAIN blocks /\ blocks'[b] = e
      /\ \A c \in DOMAIN blocks : c # b => blocks'[c] = blocks[c] BY <1>3
<1> QED BY <1>2, <1>5, <1>6

\* A write to one table leaves the others as they are.
LEMMA WantWrite ==
  ASSUME TypeInv, NEW w \in DOMAIN want, NEW els \in Seq(Ref), want' = [want EXCEPT ![w] = els]
  PROVE  /\ want' \in Seq(Seq(Ref)) /\ DOMAIN want' = DOMAIN want
         /\ want'[w] = els /\ \A c \in DOMAIN want : c # w => want'[c] = want[c]
<1>1. w \in 1 .. Len(want) /\ want \in Seq(Seq(Ref)) BY BlocksAre DEF TypeInv, Shapes
<1>2. want' \in Seq(Seq(Ref)) BY <1>1, ExceptSeq
<1> QED BY <1>2

\* So does a write to one memory.
LEMMA MemWrite ==
  ASSUME TypeInv, NEW a \in DOMAIN mems, NEW e \in MemT, mems' = [mems EXCEPT ![a] = e],
         Len(e.bytes) = e.pages * Page
  PROVE  /\ mems' \in Seq(MemT) /\ DOMAIN mems' = DOMAIN mems
         /\ mems'[a] = e /\ \A c \in DOMAIN mems : c # a => mems'[c] = mems[c]
         /\ \A c \in DOMAIN mems' : Len(mems'[c].bytes) = mems'[c].pages * Page
<1>1. a \in 1 .. Len(mems) /\ mems \in Seq(MemT) BY BlocksAre DEF TypeInv, Shapes
<1>2. mems' \in Seq(MemT) BY <1>1, ExceptSeq
<1>3. DOMAIN mems' = DOMAIN mems /\ mems'[a] = e
      /\ \A c \in DOMAIN mems : c # a => mems'[c] = mems[c] OBVIOUS
<1>4. \A c \in DOMAIN mems : Len(mems[c].bytes) = mems[c].pages * Page BY DEF TypeInv, Shapes
<1> QED BY <1>2, <1>3, <1>4

----------------------------------------------------------------------------
(* References lead to functions of instances that were completed.          *)

Exists(r, is) ==
  \/ r \in {Null, Wild}
  \/ r[1] \in DOMAIN is /\ is[r[1]].jit_mem0 /\ r[2] \in DOMAIN is[r[1]].funcs

FuncsExist ==
  \A i \in DOMAIN insts : \A f \in DOMAIN insts[i].funcs :
    insts[i].funcs[f].inst \in DOMAIN insts /\ insts[insts[i].funcs[f].inst].jit_mem0

\* The elements of the blocks that tables lead to.
RefsExist ==
  \A i \in DOMAIN insts : \A k \in DOMAIN insts[i].tabs :
    \A x \in DOMAIN blocks[insts[i].tabs[k].blk].els : Exists(blocks[insts[i].tabs[k].blk].els[x], insts)

CacheExists ==
  /\ DOMAIN ecache = DOMAIN Mods
  /\ \A m \in DOMAIN Mods :
       /\ DOMAIN ecache[m] = DOMAIN Mods[m].elems
       /\ \A g \in DOMAIN Mods[m].elems :
            ecache[m][g] \in Seq(Ref) /\ \A x \in DOMAIN ecache[m][g] : Exists(ecache[m][g][x], insts)

AliveFits ==
  \A i \in DOMAIN insts : DOMAIN insts[i].elem_alive = DOMAIN Mods[insts[i].mod].elems

RefInv == FuncsExist /\ RefsExist /\ CacheExists /\ AliveFits

\* The empty store holds no reference.
LEMMA RefInit ==
  ASSUME Init PROVE RefInv
<1>1. DOMAIN insts = {} BY DEF Init
<1>2. CacheExists
  <2>1. DOMAIN ecache = DOMAIN Mods BY DEF Init
  <2>2. \A m \in DOMAIN Mods : DOMAIN ecache[m] = DOMAIN Mods[m].elems BY DEF Init
  <2>3. \A m \in DOMAIN Mods : \A g \in DOMAIN Mods[m].elems : ecache[m][g] = <<>> BY DEF Init
  <2>4. \A m \in DOMAIN Mods : \A g \in DOMAIN Mods[m].elems :
          ecache[m][g] \in Seq(Ref) /\ \A x \in DOMAIN ecache[m][g] : Exists(ecache[m][g][x], insts)
    <3> TAKE m \in DOMAIN Mods
    <3> TAKE g \in DOMAIN Mods[m].elems
    <3>1. ecache[m][g] = <<>> BY <2>3
    <3>2. <<>> \in Seq(Ref) /\ DOMAIN <<>> = {} OBVIOUS
    <3> QED BY <3>1, <3>2
  <2> QED BY <2>1, <2>2, <2>4 DEF CacheExists
<1> QED BY <1>1, <1>2 DEF RefInv, FuncsExist, RefsExist, AliveFits

\* A step that keeps every instance and every function of it.
Extends(is, js) ==
  \A i \in DOMAIN is :
    /\ i \in DOMAIN js /\ DOMAIN is[i].funcs \subseteq DOMAIN js[i].funcs
    /\ is[i].jit_mem0 => js[i].jit_mem0

\* A function that exists still exists when instances were added.
LEMMA ExistsStays ==
  ASSUME NEW is, NEW js, Extends(is, js), NEW r, Exists(r, is)
  PROVE  Exists(r, js)
  BY DEF Exists, Extends

\* Steps that keep what instances hold add none and remove none.
LEMMA KeptExtends ==
  ASSUME TypeInv, Kept PROVE Extends(insts, insts')
  BY KeptParts DEF Kept, Extends

\* What Refs(i) contains.
LEMMA RefsAre ==
  ASSUME TypeInv, NEW i \in DOMAIN insts, insts[i].jit_mem0, NEW r \in Refs(i)
  PROVE  r \in Ref /\ Exists(r, insts) /\ r[1] = i
<1>1. PICK f \in DOMAIN insts[i].funcs : r = <<i, f>> BY DEF Refs, Own
<1>2. insts[i].funcs \in Seq(FuncT) /\ i \in Nat BY InstsAre DEF InstT
<1>3. f \in Nat BY <1>2, LenProperties
<1> QED BY <1>1, <1>2, <1>3 DEF Ref, Exists

\* The items of a segment are functions of the instance, if its definitions
\* are complete.
LEMMA ItemsAre ==
  ASSUME TypeInv, NEW i \in DOMAIN insts, insts[i].jit_mem0,
         NEW g \in DOMAIN Mods[insts[i].mod].elems
  PROVE  LET e == Mods[insts[i].mod].elems[g]
         IN  /\ Items(i, e) \in Seq(Ref) /\ Len(Items(i, e)) = Len(e.items)
             /\ \A x \in DOMAIN Items(i, e) : Items(i, e)[x] \in Refs(i)
<1> DEFINE m == insts[i].mod  e == Mods[m].elems[g]  its == e.items
<1>1. m \in DOMAIN Mods /\ insts[i].funcs \in Seq(FuncT) /\ i \in Nat BY InstsAre DEF InstT
<1>2. Valid(m) BY <1>1, LinkingMods
<1>3. its \in Seq(Space(m, "func")) BY <1>2 DEF Valid
<1>4. Space(m, "func") = 1 .. Len(insts[i].funcs)
  <2>1. Has(insts[i], "func") = Imported(m, "func") + Defined(m, "func")
    BY DEF TypeInv, Sized, Kinds
  <2> QED BY <2>1 DEF Space, Has
<1>5. DOMAIN insts[i].funcs = 1 .. Len(insts[i].funcs) /\ Len(insts[i].funcs) \in Nat
  BY <1>1, LenProperties
<1> DEFINE n == Len(its)
<1>6. n \in Nat /\ \A x \in 1 .. n : its[x] \in DOMAIN insts[i].funcs
  BY <1>3, <1>4, <1>5, LenProperties, ElementOfSeq
<1>7. Items(i, e) = [x \in 1 .. n |-> Own(i, its[x])] BY DEF Items
<1> HIDE DEF n, its
<1>8. \A x \in 1 .. n : Own(i, its[x]) \in Refs(i) /\ Own(i, its[x]) \in Ref
  BY <1>1, <1>5, <1>6 DEF Refs, Own, Ref
<1>9. Items(i, e) \in [1 .. n -> Ref] BY <1>7, <1>8
<1>10. Items(i, e) \in Seq(Ref) /\ Len(Items(i, e)) = n BY <1>6, <1>9, Tabulated
<1>11. \A x \in DOMAIN Items(i, e) : Items(i, e)[x] \in Refs(i) BY <1>7, <1>8
<1> QED BY <1>10, <1>11 DEF n, its, e, m

\* Offsets are 32-bit numbers.
LEMMA EvalIs ==
  ASSUME TypeInv, NEW i \in DOMAIN insts, insts[i].jit_mem0, NEW ex,
         ExprValid(ex, Imported(insts[i].mod, "global") + Defined(insts[i].mod, "global"))
  PROVE  Eval(insts[i].globs, cells, ex) % N32 \in 0 .. N32 - 1
<1>1. Eval(insts[i].globs, cells, ex) \in Int
  <2>1. CASE ex.op = "const" BY <2>1 DEF Eval, ExprValid
  <2>2. CASE ex.op # "const"
    <3>1. Has(insts[i], "global") = Imported(insts[i].mod, "global") + Defined(insts[i].mod, "global")
      BY DEF TypeInv, Sized, Kinds
    <3>2. ex.g \in 1 .. Len(insts[i].globs) BY <2>2, <3>1 DEF ExprValid, Has
    <3>3. insts[i].globs \in Seq(Nat) BY InstsAre DEF InstT
    <3>4. ex.g \in DOMAIN insts[i].globs BY <3>2, <3>3, LenProperties
    <3>5. insts[i].globs[ex.g] \in DOMAIN cells BY <3>4 DEF TypeInv, Leads
    <3>6. cells \in Seq(Int) BY DEF TypeInv, Shapes
    <3>7. cells[insts[i].globs[ex.g]] \in Int BY <3>5, <3>6, LenProperties, ElementOfSeq
    <3> QED BY <2>2, <3>7 DEF Eval
  <2> QED BY <2>1, <2>2
<1> DEFINE v == Eval(insts[i].globs, cells, ex)
<1>2. v \in Int BY <1>1
<1> HIDE DEF v
<1>3. v % N32 \in 0 .. N32 - 1 BY <1>2, TableWidths
<1> QED BY <1>3 DEF v

\* Every element a step writes is a reference that exists.
Writes ==
  \A b \in DOMAIN blocks : \A x \in DOMAIN blocks'[b].els :
    \/ x \in DOMAIN blocks[b].els /\ blocks'[b].els[x] = blocks[b].els[x]
    \/ Exists(blocks'[b].els[x], insts)

\* References stay valid when writes write valid ones and instances stay.
LEMMA RefKept ==
  ASSUME TypeInv, RefInv, Kept, Writes, UNCHANGED ecache,
         \A i \in DOMAIN insts : DOMAIN insts'[i].elem_alive = DOMAIN insts[i].elem_alive
  PROVE  RefInv'
<1>1. DOMAIN insts' = DOMAIN insts /\ Extends(insts, insts') BY KeptParts, KeptExtends
<1>2. FuncsExist' BY <1>1 DEF RefInv, FuncsExist, Kept
<1>3. RefsExist'
  <2> SUFFICES ASSUME NEW i \in DOMAIN insts, NEW k \in DOMAIN insts[i].tabs,
                      NEW x \in DOMAIN blocks'[insts[i].tabs[k].blk].els
               PROVE  Exists(blocks'[insts[i].tabs[k].blk].els[x], insts')
    BY <1>1 DEF RefsExist, Kept
  <2> DEFINE b == insts[i].tabs[k].blk
  <2>1. b \in DOMAIN blocks BY BlocksAre
  <2>2. \A y \in DOMAIN blocks[b].els : Exists(blocks[b].els[y], insts) BY DEF RefInv, RefsExist
  <2>3. x \in DOMAIN blocks'[b].els OBVIOUS
  <2> HIDE DEF b
  <2>4. Exists(blocks'[b].els[x], insts) BY <2>1, <2>2, <2>3 DEF Writes
  <2>5. Exists(blocks'[b].els[x], insts') BY <2>4, <1>1, ExistsStays
  <2> QED BY <2>5 DEF b
<1>4. CacheExists'
  <2> SUFFICES ASSUME NEW m \in DOMAIN Mods, NEW g \in DOMAIN Mods[m].elems,
                      NEW x \in DOMAIN ecache[m][g]
               PROVE  Exists(ecache[m][g][x], insts')
    BY DEF CacheExists, RefInv
  <2> DEFINE r == ecache[m][g][x]
  <2>1. Exists(r, insts) BY DEF CacheExists, RefInv
  <2> HIDE DEF r
  <2>2. Exists(r, insts') BY <2>1, <1>1, ExistsStays
  <2> QED BY <2>2 DEF r
<1>5. AliveFits' BY <1>1 DEF RefInv, AliveFits, Kept
<1> QED BY <1>2, <1>3, <1>4, <1>5 DEF RefInv

\* A step that leaves the arrays alone writes valid references.
LEMMA WritesNothing ==
  ASSUME UNCHANGED blocks PROVE Writes
  BY DEF Writes

\* What an instance sees of its tables.
LEMMA ViewIs ==
  ASSUME TypeInv, RefInv, NEW i \in DOMAIN insts, NEW k \in DOMAIN insts[i].tabs
  PROVE  LET v == View(insts[i].tabs[k])
         IN  /\ v \in Seq(Ref) /\ Len(v) = insts[i].tabs[k].size
             /\ insts[i].tabs[k].size \in Nat
             /\ \A x \in 1 .. insts[i].tabs[k].size :
                  Exists(v[x], insts) /\ (v[x] = Wild \/ \E y \in DOMAIN blocks[insts[i].tabs[k].blk].els :
                                                           v[x] = blocks[insts[i].tabs[k].blk].els[y])
<1> DEFINE t == insts[i].tabs[k]  b == t.blk  n == t.size
           c == IF blocks[b].live THEN blocks[b].els ELSE <<>>
           v == Slice(c, 0, n)
<1>1. t \in TableT /\ b \in DOMAIN blocks /\ blocks[b].els \in Seq(Ref) BY BlocksAre
<1>2. n \in Nat BY <1>1 DEF TableT
<1>3. c \in Seq(Ref) /\ <<>> \in Seq(Ref) /\ DOMAIN <<>> = {} BY <1>1
<1>4. \A x \in DOMAIN c : c[x] = blocks[b].els[x] /\ x \in DOMAIN blocks[b].els BY <1>3
<1>5. \A y \in DOMAIN blocks[b].els : Exists(blocks[b].els[y], insts) BY DEF RefInv, RefsExist
<1>6. View(t) = v BY DEF View
<1> HIDE DEF t, b, n, c
<1>7. v \in Seq(Ref) /\ Len(v) = n
      /\ \A x \in 1 .. n : v[x] = IF 0 + x \in 1 .. Len(c) THEN c[0 + x] ELSE Wild
  BY <1>2, <1>3, SliceIs, ZenonT(30)
<1>8. DOMAIN c = 1 .. Len(c) BY <1>3, LenProperties
<1> HIDE DEF v
<1>9. \A x \in 1 .. n : v[x] = Wild \/ \E y \in DOMAIN blocks[b].els : v[x] = blocks[b].els[y]
  <2> TAKE x \in 1 .. n
  <2>1. 0 + x = x BY <1>2
  <2>2. v[x] = IF x \in 1 .. Len(c) THEN c[x] ELSE Wild BY <2>1, <1>7
  <2>3. CASE x \in 1 .. Len(c) BY <2>2, <2>3, <1>4, <1>8
  <2> QED BY <2>2, <2>3
<1>10. \A x \in 1 .. n : Exists(v[x], insts)
  <2> TAKE x \in 1 .. n
  <2>1. CASE v[x] = Wild BY <2>1 DEF Exists
  <2>2. CASE \E y \in DOMAIN blocks[b].els : v[x] = blocks[b].els[y] BY <2>2, <1>5
  <2> QED BY <2>1, <2>2, <1>9
<1> QED BY <1>2, <1>6, <1>7, <1>9, <1>10 DEF t, b, n

\* Instances that run exist, and so do those that tables make callable; their
\* definitions are complete.
LEMMA RunsExist ==
  ASSUME TypeInv, RefInv
  PROVE  /\ \A i \in Runs : i \in DOMAIN insts /\ insts[i].jit_mem0
         /\ \A r \in Callable :
              /\ r[1] \in DOMAIN insts /\ insts[r[1]].jit_mem0 /\ r[2] \in DOMAIN insts[r[1]].funcs
              /\ Callee(r) \in DOMAIN insts /\ insts[Callee(r)].jit_mem0
<1>1. Held \subseteq DOMAIN insts BY DEF Held
<1>2. \A r \in Callable :
        /\ r[1] \in DOMAIN insts /\ insts[r[1]].jit_mem0 /\ r[2] \in DOMAIN insts[r[1]].funcs
        /\ Callee(r) \in DOMAIN insts /\ insts[Callee(r)].jit_mem0
  <2> TAKE r \in Callable
  <2>1. PICK i \in Held : r \in TableRefs(i) /\ r \notin {Null, Wild} BY DEF Callable
  <2>2. PICK k \in DOMAIN insts[i].tabs : \E x \in 1 .. insts[i].tabs[k].size :
               r = View(insts[i].tabs[k])[x] BY <2>1 DEF TableRefs
  <2>3. Exists(r, insts) BY <2>1, <2>2, <1>1, ViewIs
  <2>4. r[1] \in DOMAIN insts /\ insts[r[1]].jit_mem0 /\ r[2] \in DOMAIN insts[r[1]].funcs
    BY <2>1, <2>3 DEF Exists
  <2> QED BY <2>4 DEF Callee, RefInv, FuncsExist
<1>3. cur.phase # "idle" => I \in DOMAIN insts /\ (cur.phase = "start" => insts[I].jit_mem0)
  BY CurIs
<1>4. \A i \in Held : cur = Idle => insts[i].jit_mem0
  <2> SUFFICES ASSUME NEW i \in Held, cur = Idle PROVE insts[i].jit_mem0 OBVIOUS
  <2>1. i \in DOMAIN insts /\ i # 0 BY <1>1, InstsAre
  <2>2. I = 0 BY DEF I, Idle
  <2>3. insts[i].out \in {"ok", "trapped"} BY <2>1, <2>2 DEF Held
  <2> QED BY <2>1, <2>3 DEF TypeInv, Outcomes
<1> QED BY <1>1, <1>2, <1>3, <1>4 DEF Runs

----------------------------------------------------------------------------
(* The other steps keep the types and what references lead to.             *)

\* Setting the outcome, a flag of elem_alive or a flag of data_alive.
LEMMA OutSet ==
  ASSUME TypeInv, NEW i \in DOMAIN insts, NEW how \in Outs,
         insts' = [insts EXCEPT ![i].out = how]
  PROVE  /\ Kept /\ DOMAIN insts' = DOMAIN insts /\ insts'[i].out = how
         /\ \A j \in DOMAIN insts : j # i => insts'[j] = insts[j]
         /\ \A j \in DOMAIN insts : insts'[j].elem_alive = insts[j].elem_alive
<1> DEFINE y == [insts[i] EXCEPT !.out = how]
<1>1. insts[i] \in InstT BY InstsAre
<1>2. y \in InstT BY <1>1 DEF InstT
<1>3. /\ y.mod = insts[i].mod /\ y.tabs = insts[i].tabs /\ y.mems = insts[i].mems
      /\ y.globs = insts[i].globs /\ y.funcs = insts[i].funcs /\ y.tags = insts[i].tags
      /\ y.jit_mem0 = insts[i].jit_mem0 /\ y.out = how /\ y.elem_alive = insts[i].elem_alive
  BY <1>1 DEF InstT
<1>4. insts' = [insts EXCEPT ![i] = y] OBVIOUS
<1> HIDE DEF y
<1>5. /\ Kept /\ DOMAIN insts' = DOMAIN insts /\ insts'[i] = y
      /\ \A j \in DOMAIN insts : j # i => insts'[j] = insts[j] BY <1>2, <1>3, <1>4, KeptBy
<1> QED BY <1>3, <1>5

\* Dropping an element segment keeps what instances hold.
LEMMA ElemAliveSet ==
  ASSUME TypeInv, NEW i \in DOMAIN insts, NEW g, NEW b \in BOOLEAN,
         insts' = [insts EXCEPT ![i].elem_alive[g] = b]
  PROVE  /\ Kept /\ \A j \in DOMAIN insts : insts'[j].out = insts[j].out
         /\ \A j \in DOMAIN insts : DOMAIN insts'[j].elem_alive = DOMAIN insts[j].elem_alive
<1> DEFINE al == [insts[i].elem_alive EXCEPT ![g] = b]
           y == [insts[i] EXCEPT !.elem_alive = al]
           U == UNION {[DOMAIN Mods[m].elems -> BOOLEAN] : m \in DOMAIN Mods}
<1>1. insts[i] \in InstT BY InstsAre
<1>2. PICK mo \in DOMAIN Mods : insts[i].elem_alive \in [DOMAIN Mods[mo].elems -> BOOLEAN]
  BY <1>1 DEF InstT
<1>3. al \in [DOMAIN Mods[mo].elems -> BOOLEAN] /\ DOMAIN al = DOMAIN insts[i].elem_alive BY <1>2
<1>4. insts' = [insts EXCEPT ![i] = y] OBVIOUS
<1> HIDE DEF al
<1>8. al \in U BY <1>3
<1>9. InstT = [mod : DOMAIN Mods, tabs : Seq(TableT), mems : Seq(Nat), globs : Seq(Nat),
               funcs : Seq(FuncT), tags : Seq(TagT), jit_mem0 : BOOLEAN, out : Outs,
               elem_alive : U, data_alive : UNION {[DOMAIN Mods[m].datas -> BOOLEAN] : m \in DOMAIN Mods}]
  BY DEF InstT
<1> HIDE DEF U
<1>5. y \in InstT BY <1>1, <1>8, <1>9
<1>6. /\ y.mod = insts[i].mod /\ y.tabs = insts[i].tabs /\ y.mems = insts[i].mems
      /\ y.globs = insts[i].globs /\ y.funcs = insts[i].funcs /\ y.tags = insts[i].tags
      /\ y.jit_mem0 = insts[i].jit_mem0 /\ y.out = insts[i].out /\ y.elem_alive = al
  BY <1>1 DEF InstT
<1> HIDE DEF y
<1>7. /\ Kept /\ DOMAIN insts' = DOMAIN insts /\ insts'[i] = y
      /\ \A j \in DOMAIN insts : j # i => insts'[j] = insts[j] BY <1>4, <1>5, <1>6, KeptBy
<1> QED BY <1>3, <1>6, <1>7

\* Dropping a data segment keeps what instances hold.
LEMMA DataAliveSet ==
  ASSUME TypeInv, NEW i \in DOMAIN insts, NEW g, NEW b \in BOOLEAN,
         insts' = [insts EXCEPT ![i].data_alive[g] = b]
  PROVE  /\ Kept /\ \A j \in DOMAIN insts : insts'[j].out = insts[j].out
         /\ \A j \in DOMAIN insts : insts'[j].elem_alive = insts[j].elem_alive
<1> DEFINE al == [insts[i].data_alive EXCEPT ![g] = b]
           y == [insts[i] EXCEPT !.data_alive = al]
           U == UNION {[DOMAIN Mods[m].datas -> BOOLEAN] : m \in DOMAIN Mods}
<1>1. insts[i] \in InstT BY InstsAre
<1>2. PICK mo \in DOMAIN Mods : insts[i].data_alive \in [DOMAIN Mods[mo].datas -> BOOLEAN]
  BY <1>1 DEF InstT
<1>3. al \in [DOMAIN Mods[mo].datas -> BOOLEAN] BY <1>2
<1>4. insts' = [insts EXCEPT ![i] = y] OBVIOUS
<1> HIDE DEF al
<1>8. al \in U BY <1>3
<1>9. InstT = [mod : DOMAIN Mods, tabs : Seq(TableT), mems : Seq(Nat), globs : Seq(Nat),
               funcs : Seq(FuncT), tags : Seq(TagT), jit_mem0 : BOOLEAN, out : Outs,
               elem_alive : UNION {[DOMAIN Mods[m].elems -> BOOLEAN] : m \in DOMAIN Mods}, data_alive : U]
  BY DEF InstT
<1> HIDE DEF U
<1>5. y \in InstT BY <1>1, <1>8, <1>9
<1>6. /\ y.mod = insts[i].mod /\ y.tabs = insts[i].tabs /\ y.mems = insts[i].mems
      /\ y.globs = insts[i].globs /\ y.funcs = insts[i].funcs /\ y.tags = insts[i].tags
      /\ y.jit_mem0 = insts[i].jit_mem0 /\ y.out = insts[i].out
      /\ y.elem_alive = insts[i].elem_alive
  BY <1>1 DEF InstT
<1> HIDE DEF y
<1>7. /\ Kept /\ DOMAIN insts' = DOMAIN insts /\ insts'[i] = y
      /\ \A j \in DOMAIN insts : j # i => insts'[j] = insts[j] BY <1>4, <1>5, <1>6, KeptBy
<1> QED BY <1>6, <1>7

\* Each element afterwards is the one before, or one of those stored.
LEMMA StoredEither ==
  ASSUME NEW els \in Seq(Ref), NEW vals \in Seq(Ref), NEW off \in Int, NEW new,
         new = Stored(els, off, vals)
  PROVE  /\ new \in Seq(Ref) /\ DOMAIN new = DOMAIN els
         /\ \A x \in DOMAIN new : new[x] = els[x] \/ \E y \in DOMAIN vals : new[x] = vals[y]
<1>1. new \in Seq(Ref) /\ Len(new) = Len(els) BY StoredIs
<1>2. \A x \in 1 .. Len(els) :
        \/ new[x] = els[x]
        \/ x - off \in 1 .. Len(vals) /\ new[x] = vals[x - off]
  BY StoredIs
<1>3. DOMAIN new = 1 .. Len(els) /\ DOMAIN els = 1 .. Len(els) /\ DOMAIN vals = 1 .. Len(vals)
  BY <1>1, LenProperties
<1> QED BY <1>1, <1>2, <1>3

\* References stored in a table's array.
LEMMA BlockStored ==
  ASSUME TypeInv, NEW b \in DOMAIN blocks, NEW vals \in Seq(Ref), NEW off \in Int,
         \A x \in DOMAIN vals : Exists(vals[x], insts),
         blocks' = [blocks EXCEPT ![b].els = Stored(@, off, vals)]
  PROVE  /\ blocks' \in Seq(BlockT) /\ DOMAIN blocks' = DOMAIN blocks /\ Writes
<1> DEFINE els == blocks[b].els new == Stored(els, off, vals)
<1>1. els \in Seq(Ref) BY BlocksAre
<1>2. blocks' = [blocks EXCEPT ![b].els = new] OBVIOUS
<1>3. /\ new \in Seq(Ref) /\ DOMAIN new = DOMAIN els
      /\ \A x \in DOMAIN new : new[x] = els[x] \/ \E y \in DOMAIN vals : new[x] = vals[y]
  <2> HIDE DEF els
  <2>1. new = Stored(els, off, vals) OBVIOUS
  <2> HIDE DEF new
  <2> QED BY <1>1, <2>1, StoredEither
<1> HIDE DEF els, new
<1>6. /\ blocks' \in Seq(BlockT) /\ DOMAIN blocks' = DOMAIN blocks /\ blocks'[b].els = new
      /\ \A c \in DOMAIN blocks : c # b => blocks'[c] = blocks[c] BY <1>2, <1>3, BlockWrite
<1>7. \A x \in DOMAIN new : (x \in DOMAIN els /\ new[x] = els[x]) \/ Exists(new[x], insts)
  BY <1>3
<1>8. Writes
  <2> SUFFICES ASSUME NEW c \in DOMAIN blocks, NEW x \in DOMAIN blocks'[c].els
               PROVE  \/ x \in DOMAIN blocks[c].els /\ blocks'[c].els[x] = blocks[c].els[x]
                      \/ Exists(blocks'[c].els[x], insts)
    BY DEF Writes
  <2>1. CASE c = b BY <2>1, <1>6, <1>7 DEF els
  <2>2. CASE c # b BY <2>2, <1>6
  <2> QED BY <2>1, <2>2
<1> QED BY <1>6, <1>8

\* The expected table after a write has its type.
LEMMA WantStored ==
  ASSUME TypeInv, NEW w \in DOMAIN want, NEW vals \in Seq(Ref), NEW off \in Int,
         want' = [want EXCEPT ![w] = Stored(@, off, vals)]
  PROVE  want' \in Seq(Seq(Ref)) /\ DOMAIN want' = DOMAIN want
<1> DEFINE new == Stored(want[w], off, vals)
<1>1. want[w] \in Seq(Ref) BY BlocksAre
<1>2. new \in Seq(Ref) BY <1>1, StoredIs
<1>3. want' = [want EXCEPT ![w] = new] OBVIOUS
<1> HIDE DEF new
<1> QED BY <1>2, <1>3, WantWrite

\* Active element segments are copied, or the instantiation fails.
LEMMA ElemStep ==
  ASSUME TypeInv, RefInv, Elem
  PROVE  TypeInv' /\ RefInv'
<1> DEFINE e == D.elems[cur.k]
           t == insts[I].tabs[e.tab]
           off == Eval(insts[I].globs, cells, e.off) % N32
           its == Items(I, e)
           w == InRange(Len(want[t.tid]), off, Len(e.items))
<1>1. /\ cur.phase = "elem" /\ cur.phase \notin {"idle", "import"} /\ cur.phase # "idle"
      /\ cur.k <= Len(D.elems) /\ UNCHANGED <<mems, cells, named, ecache, ops>> BY DEF Elem
<1>2. /\ I \in DOMAIN insts /\ insts[I] \in InstT /\ insts[I].jit_mem0
      /\ cur.k \in Nat /\ cur.k # 0 BY <1>1, CurIs
<1>3. insts[I].mod \in DOMAIN Mods /\ Valid(insts[I].mod) BY <1>2, LinkingMods DEF InstT
<1>4. cur.k \in DOMAIN D.elems
  <2>1. D.elems \in Seq({D.elems[k] : k \in DOMAIN D.elems}) BY <1>3 DEF Valid, D
  <2>2. DOMAIN D.elems = 1 .. Len(D.elems) BY <2>1, LenProperties
  <2> QED BY <2>2, <1>1, <1>2
<1>5. ops' \in 0 .. MaxOps BY <1>1 DEF TypeInv, Shapes
<1>6. cur.k + 1 \in Nat \ {0} BY <1>2
<1>7. CASE Step("elem", cur.k + 1) /\ UNCHANGED <<insts, blocks, want>>
  <2>1. Kept /\ Stores BY <1>1, <1>5, <1>7, KeptSame, StoresSame
  <2>2. TypeInv' BY <1>1, <1>6, <1>7, <2>1, Advances
  <2>3. RefInv' BY <1>1, <1>7, <2>1, WritesNothing, RefKept
  <2> QED BY <2>2, <2>3
<1>8. CASE /\ insts' = [insts EXCEPT ![I].elem_alive[cur.k] = TRUE]
           /\ Step("elem", cur.k + 1) /\ UNCHANGED <<blocks, want>>
  <2>1. /\ Kept /\ \A j \in DOMAIN insts : insts'[j].out = insts[j].out
        /\ \A j \in DOMAIN insts : DOMAIN insts'[j].elem_alive = DOMAIN insts[j].elem_alive
    BY <1>2, <1>8, ElemAliveSet
  <2>2. Stores BY <1>1, <1>5, <1>8, StoresSame
  <2>3. TypeInv' BY <1>1, <1>6, <1>8, <2>1, <2>2, Advances
  <2>4. RefInv' BY <1>1, <1>8, <2>1, WritesNothing, RefKept
  <2> QED BY <2>3, <2>4
<1>9. CASE e.mode = "active" /\ Step("elem", cur.k + 1) /\ UNCHANGED insts
           /\ blocks' = [blocks EXCEPT ![t.blk].els = Stored(@, off, its)]
           /\ want' = IF w THEN [want EXCEPT ![t.tid] = Stored(@, off, its)] ELSE want
  <2>1. e.tab \in DOMAIN insts[I].tabs
    <3>1. e.tab \in Space(insts[I].mod, "table") BY <1>3, <1>4, <1>9 DEF Valid, D
    <3>2. Has(insts[I], "table") = Imported(insts[I].mod, "table") + Defined(insts[I].mod, "table")
      BY <1>2 DEF TypeInv, Sized, Kinds
    <3>3. e.tab \in 1 .. Len(insts[I].tabs) BY <3>1, <3>2 DEF Space, Has
    <3>4. insts[I].tabs \in Seq(TableT) BY <1>2 DEF InstT
    <3> QED BY <3>3, <3>4, LenProperties
  <2>2. t.blk \in DOMAIN blocks /\ t.tid \in DOMAIN want BY <1>2, <2>1, BlocksAre
  <2>3. off \in Int
    <3>1. ExprValid(e.off, Imported(insts[I].mod, "global") + Defined(insts[I].mod, "global"))
      BY <1>3, <1>4, <1>9 DEF Valid, D
    <3>2. off \in 0 .. N32 - 1 BY <1>2, <3>1, EvalIs
    <3> QED BY <3>2
  <2>4. its \in Seq(Ref) /\ \A x \in DOMAIN its : Exists(its[x], insts)
    <3>1. its \in Seq(Ref) /\ \A x \in DOMAIN its : its[x] \in Refs(I) BY <1>2, <1>4, ItemsAre DEF D
    <3> HIDE DEF its
    <3> QED BY <3>1, <1>2, RefsAre
  <2> HIDE DEF t, off, its, w, e
  <2>5. blocks' \in Seq(BlockT) /\ DOMAIN blocks' = DOMAIN blocks /\ Writes
    BY <1>9, <2>2, <2>3, <2>4, BlockStored
  <2>6. want' \in Seq(Seq(Ref)) /\ DOMAIN want' = DOMAIN want
    <3>1. CASE w BY <3>1, <1>9, <2>2, <2>3, <2>4, WantStored
    <3>2. CASE ~ w BY <3>2, <1>9 DEF TypeInv, Shapes
    <3> QED BY <3>1, <3>2
  <2>7. Kept BY <1>9, KeptSame
  <2>8. Stores BY <1>1, <1>5, <2>5, <2>6 DEF Stores, TypeInv, Shapes
  <2>9. TypeInv' BY <1>1, <1>6, <1>9, <2>7, <2>8, Advances
  <2>10. RefInv' BY <1>1, <1>9, <2>5, <2>7, RefKept
  <2> QED BY <2>9, <2>10
<1>10. CASE Abandon("uninstantiable", w) /\ UNCHANGED <<blocks, want>>
  <2>1. insts' = [insts EXCEPT ![I].out = "uninstantiable"] /\ cur' = Idle BY <1>10 DEF Abandon
  <2>2. Stores BY <1>1, <1>5, <1>10, StoresSame
  <2>3. TypeInv' BY <1>1, <2>1, <2>2, Ends
  <2>4. Kept /\ \A j \in DOMAIN insts : insts'[j].elem_alive = insts[j].elem_alive
    BY <1>2, <2>1, OutSet DEF Outs
  <2>5. RefInv' BY <1>1, <1>10, <2>4, WritesNothing, RefKept
  <2> QED BY <2>3, <2>5
<1> QED
  <2>1. \/ Step("elem", cur.k + 1) /\ UNCHANGED <<insts, blocks, want, last>>
        \/ /\ insts' = [insts EXCEPT ![I].elem_alive[cur.k] = TRUE]
           /\ Step("elem", cur.k + 1) /\ UNCHANGED <<blocks, want, last>>
        \/ /\ e.mode = "active" /\ Step("elem", cur.k + 1) /\ UNCHANGED insts
           /\ blocks' = [blocks EXCEPT ![t.blk].els = Stored(@, off, its)]
           /\ want' = IF w THEN [want EXCEPT ![t.tid] = Stored(@, off, its)] ELSE want
        \/ Abandon("uninstantiable", w) /\ UNCHANGED <<blocks, want>>
    BY DEF Elem, OnOverrun
  <2> QED BY <2>1, <1>7, <1>8, <1>9, <1>10

\* So are active data segments.
LEMMA DataStep ==
  ASSUME TypeInv, RefInv, Data
  PROVE  TypeInv' /\ RefInv'
<1> DEFINE k == IF cur.phase = "elem" THEN 1 ELSE cur.k
           d == D.datas[k]
           a == insts[I].mems[d.mem]
           off == Eval(insts[I].globs, cells, d.off) % N32
           seg == Repeat(<<I, k>>, d.len)
<1>1. /\ cur.phase \notin {"idle", "import"} /\ cur.phase # "idle"
      /\ k <= Len(D.datas) /\ UNCHANGED <<blocks, cells, named, ecache, want, ops>> BY DEF Data
<1>2. /\ I \in DOMAIN insts /\ insts[I] \in InstT /\ insts[I].jit_mem0 /\ k \in Nat /\ k # 0
  BY <1>1, CurIs
<1>3. insts[I].mod \in DOMAIN Mods /\ Valid(insts[I].mod) BY <1>2, LinkingMods DEF InstT
<1>4. k \in DOMAIN D.datas
  <2>1. D.datas \in Seq({D.datas[x] : x \in DOMAIN D.datas}) BY <1>3 DEF Valid, D
  <2>2. DOMAIN D.datas = 1 .. Len(D.datas) BY <2>1, LenProperties
  <2> HIDE DEF k
  <2> QED BY <2>2, <1>1, <1>2
<1>5. ops' \in 0 .. MaxOps BY <1>1 DEF TypeInv, Shapes
<1>6. k + 1 \in Nat \ {0} BY <1>2
<1>7. \/ /\ insts' = [insts EXCEPT ![I].data_alive[k] = TRUE]
         /\ Step("data", k + 1) /\ UNCHANGED mems
      \/ /\ d.mode = "active" /\ Step("data", k + 1) /\ UNCHANGED insts
         /\ mems' = [mems EXCEPT ![a].bytes = Stored(@, off, seg)]
      \/ insts' = [insts EXCEPT ![I].out = "uninstantiable"] /\ cur' = Idle /\ UNCHANGED mems
  BY DEF Data
<1> HIDE DEF k
<1>8. CASE /\ insts' = [insts EXCEPT ![I].data_alive[k] = TRUE]
           /\ Step("data", k + 1) /\ UNCHANGED mems
  <2>1. /\ Kept /\ \A j \in DOMAIN insts : insts'[j].out = insts[j].out
        /\ \A j \in DOMAIN insts : insts'[j].elem_alive = insts[j].elem_alive
    BY <1>2, <1>8, DataAliveSet
  <2>2. Stores BY <1>1, <1>5, <1>8, StoresSame
  <2>3. TypeInv' BY <1>1, <1>6, <1>8, <2>1, <2>2, Advances
  <2>4. RefInv' BY <1>1, <1>8, <2>1, WritesNothing, RefKept
  <2> QED BY <2>3, <2>4
<1>9. CASE /\ d.mode = "active" /\ Step("data", k + 1) /\ UNCHANGED insts
           /\ mems' = [mems EXCEPT ![a].bytes = Stored(@, off, seg)]
  <2>1. d.mem \in DOMAIN insts[I].mems /\ d.len \in Nat
    <3>1. d.mem \in Space(insts[I].mod, "memory") /\ d.len \in Nat BY <1>3, <1>4, <1>9 DEF Valid, D
    <3>2. Has(insts[I], "memory") = Imported(insts[I].mod, "memory") + Defined(insts[I].mod, "memory")
      BY <1>2 DEF TypeInv, Sized, Kinds
    <3>3. d.mem \in 1 .. Len(insts[I].mems) BY <3>1, <3>2 DEF Space, Has
    <3>4. insts[I].mems \in Seq(Nat) BY <1>2 DEF InstT
    <3> QED BY <3>1, <3>3, <3>4, LenProperties
  <2>2. a \in DOMAIN mems BY <1>2, <2>1 DEF TypeInv, Leads
  <2>3. off \in Int
    <3>1. ExprValid(d.off, Imported(insts[I].mod, "global") + Defined(insts[I].mod, "global"))
      BY <1>3, <1>4, <1>9 DEF Valid, D
    <3>2. off \in 0 .. N32 - 1 BY <1>2, <3>1, EvalIs
    <3> QED BY <3>2
  <2>4. seg \in Seq(Ref)
    <3>1. <<I, k>> \in Ref BY <1>2, InstsAre DEF Ref
    <3> QED BY <2>1, <3>1, RepeatIs
  <2> HIDE DEF a, off, seg, d
  <2> DEFINE bs == Stored(mems[a].bytes, off, seg) m == [mems[a] EXCEPT !.bytes = bs]
  <2>5. mems[a] \in MemT /\ mems[a].bytes \in Seq(Ref) BY <2>2, BlocksAre DEF MemT
  <2>6. bs \in Seq(Ref) /\ Len(bs) = Len(mems[a].bytes) BY <2>3, <2>4, <2>5, StoredIs
  <2>7. mems' = [mems EXCEPT ![a] = m] BY <1>9
  <2> HIDE DEF bs
  <2>8. m \in MemT /\ m.bytes = bs /\ m.pages = mems[a].pages BY <2>5, <2>6 DEF MemT
  <2>9. Len(m.bytes) = m.pages * Page BY <2>2, <2>6, <2>8 DEF TypeInv, Shapes
  <2> HIDE DEF m
  <2>10. /\ mems' \in Seq(MemT) /\ DOMAIN mems' = DOMAIN mems
         /\ \A c \in DOMAIN mems' : Len(mems'[c].bytes) = mems'[c].pages * Page
    BY <2>2, <2>7, <2>8, <2>9, MemWrite
  <2>11. Kept /\ Writes BY <1>1, <1>9, KeptSame, WritesNothing
  <2>12. Stores BY <1>1, <1>5, <2>10 DEF Stores, TypeInv, Shapes
  <2>13. TypeInv' BY <1>1, <1>6, <1>9, <2>11, <2>12, Advances
  <2>14. RefInv' BY <1>1, <1>9, <2>11, RefKept
  <2> QED BY <2>13, <2>14
<1>10. CASE insts' = [insts EXCEPT ![I].out = "uninstantiable"] /\ cur' = Idle /\ UNCHANGED mems
  <2>1. Stores BY <1>1, <1>5, <1>10, StoresSame
  <2>2. TypeInv' BY <1>1, <1>10, <2>1, Ends
  <2>3. Kept /\ \A j \in DOMAIN insts : insts'[j].elem_alive = insts[j].elem_alive
    BY <1>2, <1>10, OutSet DEF Outs
  <2>4. RefInv' BY <1>1, <1>10, <2>3, WritesNothing, RefKept
  <2> QED BY <2>2, <2>4
<1> QED BY <1>7, <1>8, <1>9, <1>10

\* An instantiation ends, with or without a start function.
LEMMA FinishStep ==
  ASSUME TypeInv, RefInv, Finish \/ StartEnds("ok") \/ StartEnds("trapped")
  PROVE  TypeInv' /\ RefInv'
<1>1. /\ cur.phase \notin {"idle", "import"} /\ cur.phase # "idle"
      /\ UNCHANGED <<blocks, mems, cells, named, ecache, want, ops>>
  BY DEF Finish, SegmentsDone, StartEnds
<1>2. I \in DOMAIN insts BY <1>1, CurIs
<1>3. ops' \in 0 .. MaxOps BY <1>1 DEF TypeInv, Shapes
<1>4. Stores BY <1>1, <1>3, StoresSame
<1>5. CASE Step("start", 1) /\ UNCHANGED insts
  <2>1. Kept BY <1>5, KeptSame
  <2>2. TypeInv' BY <1>1, <1>4, <1>5, <2>1, Advances
  <2>3. RefInv' BY <1>1, <1>5, <2>1, WritesNothing, RefKept
  <2> QED BY <2>2, <2>3
<1>6. ASSUME NEW how \in {"ok", "trapped"}, cur' = Idle, insts' = [insts EXCEPT ![I].out = how]
      PROVE  TypeInv' /\ RefInv'
  <2>1. TypeInv' BY <1>1, <1>4, <1>6, Ends
  <2>2. Kept /\ \A j \in DOMAIN insts : insts'[j].elem_alive = insts[j].elem_alive
    BY <1>2, <1>6, OutSet DEF Outs
  <2>3. RefInv' BY <1>1, <2>2, WritesNothing, RefKept
  <2> QED BY <2>1, <2>3
<1> QED BY <1>5, <1>6 DEF Finish, StartEnds

\* The host gives an instance a name.
LEMMA RegisterStep ==
  ASSUME TypeInv, RefInv, NEW name \in Names, NEW i \in DOMAIN insts, Register(name, i)
  PROVE  TypeInv' /\ RefInv'
<1>1. /\ named' = Append(named, <<name, i>>) /\ insts[i].out = "ok"
      /\ UNCHANGED <<insts, blocks, mems, cells, ecache, cur, want, ops>> BY DEF Register
<1> DEFINE e == <<name, i>>
<1>2. e \in Names \X Nat /\ e[2] = i BY InstsAre
<1>3. named \in Seq(Names \X Nat) /\ named' = Append(named, e) BY <1>1 DEF TypeInv, Shapes
<1> HIDE DEF e
<1>4. /\ named' \in Seq(Names \X Nat) /\ Len(named') = Len(named) + 1
      /\ \A j \in 1 .. Len(named) : named'[j] = named[j]
      /\ named'[Len(named) + 1] = e /\ Len(named) \in Nat BY <1>2, <1>3, Appended
<1>5. Registered'
  <2> SUFFICES ASSUME NEW k \in 1 .. Len(named')
               PROVE  named'[k][2] \in DOMAIN insts /\ insts[named'[k][2]].out = "ok"
    BY <1>1 DEF Registered
  <2>1. CASE k \in 1 .. Len(named) BY <2>1, <1>4 DEF TypeInv, Registered
  <2>2. CASE k = Len(named) + 1 BY <2>2, <1>1, <1>2, <1>4
  <2> QED BY <2>1, <2>2, <1>4
<1>6. TypeInv' BY <1>1, <1>4, <1>5 DEF TypeInv, Shapes, Sized, Phase, Outcomes, Leads
<1>7. RefInv' BY <1>1, KeptSame, WritesNothing, RefKept
<1> QED BY <1>6, <1>7

\* Freeing clears live flags and the outcome.
LEMMA FreeIs ==
  ASSUME TypeInv, NEW i \in DOMAIN insts, Free(i)
  PROVE  /\ blocks' \in Seq(BlockT) /\ DOMAIN blocks' = DOMAIN blocks
         /\ \A b \in DOMAIN blocks :
              /\ blocks'[b].els = blocks[b].els
              /\ blocks'[b].live <=>
                   blocks[b].live /\ \A k \in DOMAIN insts[i].tabs : insts[i].tabs[k].blk # b
         /\ mems' \in Seq(MemT) /\ DOMAIN mems' = DOMAIN mems
         /\ \A a \in DOMAIN mems :
              /\ mems'[a].pages = mems[a].pages /\ mems'[a].bytes = mems[a].bytes
              /\ mems'[a].max = mems[a].max /\ mems'[a].is64 = mems[a].is64
              /\ mems'[a].live <=>
                   /\ mems[a].live
                   /\ \A k \in DOMAIN insts[i].mems :
                        k > ImportedMems(insts[i].mod) => insts[i].mems[k] # a
<1> DEFINE free(b) == blocks[b].live /\ \A k \in DOMAIN insts[i].tabs : insts[i].tabs[k].blk # b
           gone(a) == mems[a].live /\ \A k \in DOMAIN insts[i].mems :
                        k > ImportedMems(insts[i].mod) => insts[i].mems[k] # a
<1>1. /\ blocks' = [b \in DOMAIN blocks |-> [blocks[b] EXCEPT !.live = free(b)]]
      /\ mems' = [a \in DOMAIN mems |-> [mems[a] EXCEPT !.live = gone(a)]]
  BY DEF Free
<1>2. \A b \in DOMAIN blocks : free(b) \in BOOLEAN /\ \A a \in DOMAIN mems : gone(a) \in BOOLEAN
  OBVIOUS
<1>2a. \A a \in DOMAIN mems : gone(a) \in BOOLEAN OBVIOUS
<1>3. /\ \A b \in DOMAIN blocks : blocks[b] \in BlockT
      /\ \A a \in DOMAIN mems : mems[a] \in MemT
      /\ DOMAIN blocks = 1 .. Len(blocks) /\ Len(blocks) \in Nat
      /\ DOMAIN mems = 1 .. Len(mems) /\ Len(mems) \in Nat BY BlocksAre
<1>q. \A b \in DOMAIN blocks : free(b) <=>
         blocks[b].live /\ \A k \in DOMAIN insts[i].tabs : insts[i].tabs[k].blk # b OBVIOUS
<1>r. \A a \in DOMAIN mems : gone(a) <=>
         mems[a].live /\ \A k \in DOMAIN insts[i].mems :
            k > ImportedMems(insts[i].mod) => insts[i].mems[k] # a OBVIOUS
<1> HIDE DEF free, gone
<1>4. DOMAIN blocks' = DOMAIN blocks /\ DOMAIN mems' = DOMAIN mems BY <1>1
<1>5. \A b \in DOMAIN blocks :
        blocks'[b] \in BlockT /\ blocks'[b].els = blocks[b].els /\ (blocks'[b].live <=> free(b))
  <2> TAKE b \in DOMAIN blocks
  <2>1. blocks'[b] = [blocks[b] EXCEPT !.live = free(b)] /\ free(b) \in BOOLEAN BY <1>1, <1>2
  <2> QED BY <2>1, <1>3 DEF BlockT
<1>6. \A a \in DOMAIN mems :
        /\ mems'[a] \in MemT /\ mems'[a].pages = mems[a].pages /\ mems'[a].bytes = mems[a].bytes
        /\ mems'[a].max = mems[a].max /\ mems'[a].is64 = mems[a].is64
        /\ mems'[a].live <=> gone(a)
  <2> TAKE a \in DOMAIN mems
  <2>1. mems'[a] = [mems[a] EXCEPT !.live = gone(a)] /\ gone(a) \in BOOLEAN BY <1>1, <1>2a
  <2> QED BY <2>1, <1>3 DEF MemT
<1>7. blocks' \in Seq(BlockT)
  <2>1. blocks' \in [1 .. Len(blocks) -> BlockT] BY <1>1, <1>3, <1>5
  <2> QED BY <2>1, <1>3, Tabulated
<1>8. mems' \in Seq(MemT)
  <2>1. mems' \in [1 .. Len(mems) -> MemT] BY <1>1, <1>3, <1>6
  <2> QED BY <2>1, <1>3, Tabulated
<1>9. \A b \in DOMAIN blocks :
        /\ blocks'[b].els = blocks[b].els
        /\ blocks'[b].live <=>
             blocks[b].live /\ \A k \in DOMAIN insts[i].tabs : insts[i].tabs[k].blk # b
  BY <1>5, <1>q
<1>10. \A a \in DOMAIN mems :
         /\ mems'[a].pages = mems[a].pages /\ mems'[a].bytes = mems[a].bytes
         /\ mems'[a].max = mems[a].max /\ mems'[a].is64 = mems[a].is64
         /\ mems'[a].live <=>
              /\ mems[a].live
              /\ \A k \in DOMAIN insts[i].mems :
                   k > ImportedMems(insts[i].mod) => insts[i].mems[k] # a
  BY <1>6, <1>r
<1> QED BY <1>4, <1>7, <1>8, <1>9, <1>10

\* ea_instance_free keeps the types, whatever it leaves dangling.
LEMMA FreeStep ==
  ASSUME TypeInv, RefInv, NEW i \in DOMAIN insts, Free(i)
  PROVE  TypeInv' /\ RefInv'
<1>1. /\ cur = Idle /\ insts[i].out = "ok" /\ insts' = [insts EXCEPT ![i].out = "freed"]
      /\ \A k \in 1 .. Len(named) : named[k][2] # i
      /\ UNCHANGED <<cells, named, ecache, cur, want, ops>> BY DEF Free
<1>2. /\ Kept /\ DOMAIN insts' = DOMAIN insts /\ insts'[i].out = "freed"
      /\ \A j \in DOMAIN insts : j # i => insts'[j] = insts[j]
      /\ \A j \in DOMAIN insts : insts'[j].elem_alive = insts[j].elem_alive
  BY <1>1, OutSet DEF Outs
<1>3. /\ blocks' \in Seq(BlockT) /\ DOMAIN blocks' = DOMAIN blocks
      /\ \A b \in DOMAIN blocks : blocks'[b].els = blocks[b].els
      /\ mems' \in Seq(MemT) /\ DOMAIN mems' = DOMAIN mems
      /\ \A a \in DOMAIN mems : mems'[a].pages = mems[a].pages /\ mems'[a].bytes = mems[a].bytes
  BY FreeIs
<1>4. Shapes'
  <2>1. \A a \in DOMAIN mems' : Len(mems'[a].bytes) = mems'[a].pages * Page
    BY <1>3 DEF TypeInv, Shapes
  <2> QED BY <1>1, <1>2, <1>3, <2>1 DEF TypeInv, Shapes, Kept
<1>5. Sized' /\ Leads' BY <1>1, <1>2, <1>3, KeptParts
<1>6. Phase' BY <1>1 DEF Phase
<1>7. Outcomes' BY <1>1, <1>2 DEF TypeInv, Outcomes, Kept
<1>8. Registered' BY <1>1, <1>2 DEF TypeInv, Registered
<1>9. Writes BY <1>3 DEF Writes
<1>10. RefInv' BY <1>1, <1>2, <1>9, RefKept
<1> QED BY <1>4, <1>5, <1>6, <1>7, <1>8, <1>10 DEF TypeInv

\* An instruction that stores references in a table.
LEMMA UpdateStep ==
  ASSUME TypeInv, RefInv, NEW i \in DOMAIN insts, NEW k \in DOMAIN insts[i].tabs,
         NEW t, t = insts[i].tabs[k], NEW d \in Int, NEW ok, NEW w, NEW vals, NEW wvals,
         ok => vals \in Seq(Ref) /\ \A x \in DOMAIN vals : Exists(vals[x], insts),
         w => wvals \in Seq(Ref), Executes, Update(t, d, vals, ok, wvals, w)
  PROVE  TypeInv' /\ RefInv'
<1>1. t.blk \in DOMAIN blocks /\ t.tid \in DOMAIN want BY BlocksAre
<1>2. /\ blocks' = IF ok THEN [blocks EXCEPT ![t.blk].els = Stored(@, d, vals)] ELSE blocks
      /\ want' = IF w THEN [want EXCEPT ![t.tid] = Stored(@, d, wvals)] ELSE want
      /\ UNCHANGED <<insts, mems, cells, named, ecache, cur>> BY DEF Update
<1>3. ops' \in 0 .. MaxOps BY LinkingBounds DEF Executes, TypeInv, Shapes
<1>4. blocks' \in Seq(BlockT) /\ DOMAIN blocks' = DOMAIN blocks /\ Writes
  <2>1. CASE ok BY <2>1, <1>1, <1>2, BlockStored
  <2>2. CASE ~ ok BY <2>2, <1>2, WritesNothing DEF TypeInv, Shapes
  <2> QED BY <2>1, <2>2
<1>5. want' \in Seq(Seq(Ref)) /\ DOMAIN want' = DOMAIN want
  <2>1. CASE w BY <2>1, <1>1, <1>2, WantStored
  <2>2. CASE ~ w BY <2>2, <1>2 DEF TypeInv, Shapes
  <2> QED BY <2>1, <2>2
<1>6. Kept BY <1>2, KeptSame
<1>7. Stores BY <1>2, <1>3, <1>4, <1>5 DEF Stores, TypeInv, Shapes
<1>8. TypeInv' BY <1>2, <1>6, <1>7, KeepsCur
<1>9. RefInv' BY <1>2, <1>4, <1>6, RefKept
<1> QED BY <1>8, <1>9

\* One that only reads.
LEMMA ReadStep ==
  ASSUME TypeInv, RefInv, Executes,
         UNCHANGED <<insts, blocks, mems, cells, named, ecache, cur, want, snap>>
  PROVE  TypeInv' /\ RefInv'
<1>1. ops' \in 0 .. MaxOps BY LinkingBounds DEF Executes, TypeInv, Shapes
<1>2. Kept /\ Writes BY KeptSame, WritesNothing
<1>3. Stores BY <1>1, StoresSame
<1> QED BY <1>2, <1>3, KeepsCur, RefKept

\* Operands are naturals.
LEMMA OperandNat ==
  ASSUME NEW b, NEW x \in Operands(b)
  PROVE  x \in Nat
<1>1. N32 \in Nat /\ M64 \in Nat BY TableWidths
<1>2. CASE b BY <1>1, <1>2 DEF Operands
<1>3. CASE ~ b BY <1>1, <1>3 DEF Operands
<1> QED BY <1>2, <1>3

\* Items taken from a sequence of references: those of it, or wild ones.
LEMMA SliceExists ==
  ASSUME TypeInv, NEW els \in Seq(Ref), NEW s \in Nat, NEW n \in Nat, NEW new,
         new = Slice(els, s, n), \A x \in DOMAIN els : Exists(els[x], insts)
  PROVE  new \in Seq(Ref) /\ Len(new) = n /\ \A x \in DOMAIN new : Exists(new[x], insts)
<1>a. new \in Seq(Ref) /\ Len(new) = n BY SliceIs
<1>b. \A x \in 1 .. n : new[x] = IF s + x \in 1 .. Len(els) THEN els[s + x] ELSE Wild
  BY DEF Slice
<1>1. /\ new \in Seq(Ref) /\ Len(new) = n
      /\ \A x \in 1 .. n : new[x] = IF s + x \in 1 .. Len(els) THEN els[s + x] ELSE Wild
  BY <1>a, <1>b
<1>2. DOMAIN new = 1 .. n /\ DOMAIN els = 1 .. Len(els) BY <1>1, LenProperties
<1>3. Exists(Wild, insts) BY DEF Exists
<1> QED BY <1>1, <1>2, <1>3

\* table.set and table.fill write a reference the instance has.
LEMMA SetFillSteps ==
  ASSUME TypeInv, RefInv, NEW i \in DOMAIN insts, insts[i].jit_mem0,
         NEW k \in DOMAIN insts[i].tabs, NEW d \in Int, NEW r \in Refs(i),
         \/ TableSet(i, k, d, r)
         \/ \E e \in Engines, n \in Nat : TableFill(e, i, k, d, n, r)
  PROVE  TypeInv' /\ RefInv'
<1>1. r \in Ref /\ Exists(r, insts) BY RefsAre
<1> DEFINE t == insts[i].tabs[k]
<1>2. CASE TableSet(i, k, d, r)
  <2> DEFINE ok == AtOK(t, d) w == d < Size(t) v == <<r>>
  <2>1. v \in Seq(Ref) /\ \A x \in DOMAIN v : Exists(v[x], insts) BY <1>1
  <2>2. Executes /\ Update(t, d, v, ok, v, w) BY <1>2 DEF TableSet
  <2> HIDE DEF ok, w, v
  <2>3. t = insts[i].tabs[k] OBVIOUS
  <2> HIDE DEF t
  <2> QED BY <2>1, <2>2, <2>3, UpdateStep
<1>3. ASSUME NEW e \in Engines, NEW n \in Nat, TableFill(e, i, k, d, n, r)
      PROVE  TypeInv' /\ RefInv'
  <2> DEFINE ok == FillOK(e, t, d, n) w == InRange(Size(t), d, n) v == Repeat(r, n)
  <2>1. v \in Seq(Ref) /\ \A x \in DOMAIN v : Exists(v[x], insts)
    <3>1. v \in Seq(Ref) /\ Len(v) = n /\ \A x \in 1 .. n : v[x] = r BY <1>1, RepeatIs
    <3>2. DOMAIN v = 1 .. n BY <3>1, LenProperties
    <3> HIDE DEF v
    <3> QED BY <1>1, <3>1, <3>2
  <2>2. Executes /\ Update(t, d, v, ok, v, w) BY <1>3 DEF TableFill
  <2> HIDE DEF ok, w, v
  <2>3. t = insts[i].tabs[k] OBVIOUS
  <2> HIDE DEF t
  <2> QED BY <2>1, <2>2, <2>3, UpdateStep
<1> QED BY <1>2, <1>3

\* table.copy writes references that a table had.
LEMMA CopyStep ==
  ASSUME TypeInv, RefInv, NEW i \in DOMAIN insts, NEW k \in DOMAIN insts[i].tabs,
         NEW j \in DOMAIN insts[i].tabs, NEW d \in Nat, NEW s \in Nat, NEW n \in Nat,
         NEW e \in Engines, TableCopy(e, i, k, j, d, s, n)
  PROVE  TypeInv' /\ RefInv'
<1> DEFINE t == insts[i].tabs[k]
           u == insts[i].tabs[j]
           ok == CopyOK(e, t, u, d, s, n)
           w == InRange(Size(t), d, n) /\ InRange(Size(u), s, n)
           view == View(u)
           vals == IF ok THEN Slice(view, s, n) ELSE <<>>
           wvals == IF w THEN Slice(want[u.tid], s, n) ELSE <<>>
<1>1. view \in Seq(Ref) /\ \A x \in DOMAIN view : Exists(view[x], insts)
  <2>1. /\ view \in Seq(Ref) /\ Len(view) = u.size
        /\ \A x \in 1 .. u.size : Exists(view[x], insts) BY ViewIs
  <2> HIDE DEF view, u
  <2>2. DOMAIN view = 1 .. u.size BY <2>1, LenProperties
  <2> QED BY <2>1, <2>2
<1>2. want[u.tid] \in Seq(Ref) BY BlocksAre
<1>3. Executes /\ Update(t, d, vals, ok, wvals, w) BY DEF TableCopy
<1>4. t = insts[i].tabs[k] OBVIOUS
<1>5. ok => vals = Slice(view, s, n) OBVIOUS
<1>6. w => wvals = Slice(want[u.tid], s, n) OBVIOUS
<1> HIDE DEF t, u, ok, w, view, vals, wvals
<1>7. ok => vals \in Seq(Ref) /\ \A x \in DOMAIN vals : Exists(vals[x], insts)
  BY <1>1, <1>5, SliceExists
<1>8. w => wvals \in Seq(Ref) BY <1>2, <1>6, SliceIs
<1>9. d \in Int OBVIOUS
<1> QED BY <1>3, <1>4, <1>7, <1>8, <1>9, UpdateStep

\* table.init writes the items of a segment, or of its cache.
LEMMA InitStep ==
  ASSUME TypeInv, RefInv, NEW i \in DOMAIN insts, insts[i].jit_mem0,
         NEW k \in DOMAIN insts[i].tabs, NEW g \in DOMAIN insts[i].elem_alive,
         NEW d \in Nat, NEW s \in Nat, NEW n \in Nat,
         NEW e \in Engines, TableInit(e, i, k, g, d, s, n)
  PROVE  TypeInv' /\ RefInv'
<1> DEFINE t == insts[i].tabs[k]
           m == insts[i].mod
           seg == Mods[m].elems[g]
           len == IF insts[i].elem_alive[g] THEN Len(seg.items) ELSE 0
           ok == InitOK(e, t, len, d, s, n)
           w == InRange(len, s, n) /\ InRange(Size(t), d, n)
           its == Items(i, seg)
           src == InitItems(i, g)
           vals == IF ok THEN Slice(src, s, n) ELSE <<>>
           wvals == IF w THEN Slice(its, s, n) ELSE <<>>
<1>1. m \in DOMAIN Mods /\ g \in DOMAIN Mods[m].elems BY InstsAre DEF InstT, RefInv, AliveFits
<1>2. its \in Seq(Ref) /\ \A x \in DOMAIN its : Exists(its[x], insts)
  <2>1. its \in Seq(Ref) /\ \A x \in DOMAIN its : its[x] \in Refs(i) BY <1>1, ItemsAre
  <2> HIDE DEF its
  <2> QED BY <2>1, RefsAre
<1>3. src \in Seq(Ref) /\ \A x \in DOMAIN src : Exists(src[x], insts)
  <2>1. src = IF seg.expr THEN ecache[m][g] ELSE its BY DEF InitItems
  <2>2. ecache[m][g] \in Seq(Ref) /\ \A x \in DOMAIN ecache[m][g] : Exists(ecache[m][g][x], insts)
    BY <1>1 DEF RefInv, CacheExists
  <2> HIDE DEF its, src
  <2> QED BY <1>2, <2>1, <2>2
<1>4. Executes /\ Update(t, d, vals, ok, wvals, w) BY DEF TableInit
<1>5. t = insts[i].tabs[k] OBVIOUS
<1>6. ok => vals = Slice(src, s, n) OBVIOUS
<1>7. w => wvals = Slice(its, s, n) OBVIOUS
<1> HIDE DEF t, m, seg, len, ok, w, its, src, vals, wvals
<1>8. ok => vals \in Seq(Ref) /\ \A x \in DOMAIN vals : Exists(vals[x], insts)
  BY <1>3, <1>6, SliceExists
<1>9. w => wvals \in Seq(Ref) BY <1>2, <1>7, SliceIs
<1>10. d \in Int OBVIOUS
<1> QED BY <1>4, <1>5, <1>8, <1>9, <1>10, UpdateStep

\* elem.drop.
LEMMA DropStep ==
  ASSUME TypeInv, RefInv, NEW i \in DOMAIN insts, NEW g, ElemDrop(i, g)
  PROVE  TypeInv' /\ RefInv'
<1>1. /\ insts' = [insts EXCEPT ![i].elem_alive[g] = FALSE] /\ Executes
      /\ UNCHANGED <<blocks, mems, cells, named, ecache, cur, want>> BY DEF ElemDrop
<1>2. /\ Kept /\ \A j \in DOMAIN insts : insts'[j].out = insts[j].out
      /\ \A j \in DOMAIN insts : DOMAIN insts'[j].elem_alive = DOMAIN insts[j].elem_alive
  BY <1>1, ElemAliveSet
<1>3. ops' \in 0 .. MaxOps BY <1>1, LinkingBounds DEF Executes, TypeInv, Shapes
<1>4. Stores BY <1>1, <1>3, StoresSame
<1>5. Writes BY <1>1, WritesNothing
<1> QED BY <1>1, <1>2, <1>4, <1>5, KeepsCur, RefKept

\* memory.grow appends zero bytes.
LEMMA MemoryGrowStep ==
  ASSUME TypeInv, RefInv, NEW i \in DOMAIN insts, NEW k \in DOMAIN insts[i].mems,
         NEW delta \in Deltas, MemoryGrow(i, k, delta)
  PROVE  TypeInv' /\ RefInv'
<1> DEFINE a == insts[i].mems[k] m == Grown(mems[a], delta)
<1>1. /\ mems' = [mems EXCEPT ![a] = m] /\ Executes
      /\ UNCHANGED <<insts, blocks, cells, named, ecache, cur, want>> BY DEF MemoryGrow
<1>2. a \in DOMAIN mems /\ delta \in Nat BY LinkingMods DEF TypeInv, Leads
<1> HIDE DEF a
<1>3. mems[a] \in MemT /\ Len(mems[a].bytes) = mems[a].pages * Page
  BY <1>2, BlocksAre DEF TypeInv, Shapes
<1>4. m \in MemT /\ Len(m.bytes) = m.pages * Page
  <2> DEFINE p == mems[a].pages + delta tail == Repeat(Null, delta * Page)
             bs == mems[a].bytes \o tail n == delta * Page
  <2>1. m = [mems[a] EXCEPT !.pages = p, !.bytes = bs] BY DEF Grown
  <2>2. Null \in Ref /\ delta * Page \in Nat BY <1>2, LinkingBounds DEF Null, Ref
  <2>3. tail \in Seq(Ref) /\ Len(tail) = delta * Page BY <2>2, RepeatIs
  <2>4. mems[a].bytes \in Seq(Ref) /\ mems[a].pages \in Nat BY <1>3 DEF MemT
  <2>5. tail \in Seq(Ref) /\ Len(tail) = n BY <2>3
  <2> HIDE DEF tail, n, m, p
  <2>6. bs \in Seq(Ref) BY <2>4, <2>5, ConcatProperties
  <2>7. Len(bs) = Len(mems[a].bytes) + n BY <2>4, <2>5, ConcatProperties
  <2> HIDE DEF bs
  <2>8. p \in Nat BY <1>2, <2>4 DEF p
  <2>9. mems[a].pages * Page + n = p * Page BY <1>2, <2>4, LinkingBounds DEF n, p
  <2>10. m \in MemT /\ m.pages = p /\ m.bytes = bs BY <1>3, <2>1, <2>6, <2>8 DEF MemT
  <2> QED BY <1>3, <2>7, <2>9, <2>10
<1> HIDE DEF m
<1>5. /\ mems' \in Seq(MemT) /\ DOMAIN mems' = DOMAIN mems
      /\ \A c \in DOMAIN mems' : Len(mems'[c].bytes) = mems'[c].pages * Page
  BY <1>1, <1>2, <1>4, MemWrite
<1>6. ops' \in 0 .. MaxOps BY <1>1, LinkingBounds DEF Executes, TypeInv, Shapes
<1>7. Kept /\ Writes BY <1>1, KeptSame, WritesNothing
<1>8. Stores BY <1>1, <1>5, <1>6 DEF Stores, TypeInv, Shapes
<1> QED BY <1>1, <1>7, <1>8, KeepsCur, RefKept

\* js is is with the record of one table of instance i replaced.
TabSet(is, js, i, k, t) ==
  /\ js \in Seq(InstT) /\ Len(js) = Len(is) /\ DOMAIN js = DOMAIN is
  /\ \A j \in DOMAIN is : j # i => js[j] = is[j]
  /\ js[i].mod = is[i].mod /\ js[i].mems = is[i].mems /\ js[i].globs = is[i].globs
  /\ js[i].funcs = is[i].funcs /\ js[i].tags = is[i].tags /\ js[i].jit_mem0 = is[i].jit_mem0
  /\ js[i].out = is[i].out /\ js[i].elem_alive = is[i].elem_alive
  /\ js[i].tabs \in Seq(TableT) /\ Len(js[i].tabs) = Len(is[i].tabs)
  /\ DOMAIN js[i].tabs = DOMAIN is[i].tabs
  /\ js[i].tabs[k] = t
  /\ \A l \in DOMAIN is[i].tabs : l # k => js[i].tabs[l] = is[i].tabs[l]

\* What replacing one table record of one instance changes.
LEMMA TabSetBy ==
  ASSUME NEW is \in Seq(InstT), NEW i \in DOMAIN is, NEW k \in DOMAIN is[i].tabs,
         NEW t \in TableT, NEW tb, tb = [is[i].tabs EXCEPT ![k] = t],
         NEW y, y = [is[i] EXCEPT !.tabs = tb], NEW js, js = [is EXCEPT ![i] = y]
  PROVE  TabSet(is, js, i, k, t)
<1>1. is[i] \in InstT /\ i \in 1 .. Len(is) BY LenProperties, ElementOfSeq
<1>2. is[i].tabs \in Seq(TableT) BY <1>1 DEF InstT
<1>3. k \in 1 .. Len(is[i].tabs) BY <1>2, LenProperties
<1>4. tb \in Seq(TableT) /\ Len(tb) = Len(is[i].tabs) BY <1>2, <1>3, ExceptSeq
<1>5. DOMAIN tb = DOMAIN is[i].tabs /\ tb[k] = t
      /\ \A l \in DOMAIN is[i].tabs : l # k => tb[l] = is[i].tabs[l] BY <1>2
<1>6. y \in InstT BY <1>1, <1>4 DEF InstT
<1>7. /\ y.mod = is[i].mod /\ y.tabs = tb /\ y.mems = is[i].mems
      /\ y.globs = is[i].globs /\ y.funcs = is[i].funcs /\ y.tags = is[i].tags
      /\ y.jit_mem0 = is[i].jit_mem0 /\ y.out = is[i].out /\ y.elem_alive = is[i].elem_alive
  BY <1>1 DEF InstT
<1>8. js \in Seq(InstT) /\ Len(js) = Len(is) BY <1>1, <1>6, ExceptSeq
<1>9. DOMAIN js = DOMAIN is /\ js[i] = y /\ \A j \in DOMAIN is : j # i => js[j] = is[j] OBVIOUS
<1> QED BY <1>4, <1>5, <1>7, <1>8, <1>9 DEF TabSet

\* The same table with another size, or another block.
Sizes(is, js, i, k, n) ==
  \E t \in TableT :
    /\ TabSet(is, js, i, k, t) /\ t.size = n
    /\ t.is64 = is[i].tabs[k].is64 /\ t.max = is[i].tabs[k].max
    /\ t.has_max = is[i].tabs[k].has_max /\ t.blk = is[i].tabs[k].blk
    /\ t.tid = is[i].tabs[k].tid
Moves(is, js, i, k, n) ==
  \E t \in TableT :
    /\ TabSet(is, js, i, k, t) /\ t.blk = n
    /\ t.is64 = is[i].tabs[k].is64 /\ t.max = is[i].tabs[k].max
    /\ t.has_max = is[i].tabs[k].has_max /\ t.size = is[i].tabs[k].size
    /\ t.tid = is[i].tabs[k].tid

\* The size of one record changes.
LEMMA SizeSet ==
  ASSUME NEW is, is \in Seq(InstT), NEW i, i \in DOMAIN is, NEW k, k \in DOMAIN is[i].tabs,
         NEW n, n \in Nat, NEW js, js = [is EXCEPT ![i].tabs[k].size = n]
  PROVE  Sizes(is, js, i, k, n)
<1> DEFINE u == is[i].tabs[k]
           t == [u EXCEPT !.size = n]
           tb == [is[i].tabs EXCEPT ![k] = t]
           y == [is[i] EXCEPT !.tabs = tb]
<1>0. is[i] \in InstT BY LenProperties, ElementOfSeq
<1>1. is[i].tabs \in Seq(TableT) BY <1>0 DEF InstT
<1>2. u \in TableT BY <1>1, LenProperties, ElementOfSeq
<1>3. js = [is EXCEPT ![i] = y] OBVIOUS
<1>4. tb = [is[i].tabs EXCEPT ![k] = t] /\ y = [is[i] EXCEPT !.tabs = tb] OBVIOUS
<1>5. t = [u EXCEPT !.size = n] /\ u = is[i].tabs[k] OBVIOUS
<1> HIDE DEF u, t, tb, y
<1>6. /\ t \in TableT /\ t.size = n /\ t.is64 = u.is64 /\ t.max = u.max
      /\ t.has_max = u.has_max /\ t.blk = u.blk /\ t.tid = u.tid
  BY <1>2, <1>5 DEF TableT
<1>7. TabSet(is, js, i, k, t) BY <1>3, <1>4, <1>6, TabSetBy
<1> QED BY <1>5, <1>6, <1>7 DEF Sizes

\* The array of one record changes.
LEMMA BlkSet ==
  ASSUME NEW is, is \in Seq(InstT), NEW i, i \in DOMAIN is, NEW k, k \in DOMAIN is[i].tabs,
         NEW n, n \in Nat, NEW js, js = [is EXCEPT ![i].tabs[k].blk = n]
  PROVE  Moves(is, js, i, k, n)
<1> DEFINE u == is[i].tabs[k]
           t == [u EXCEPT !.blk = n]
           tb == [is[i].tabs EXCEPT ![k] = t]
           y == [is[i] EXCEPT !.tabs = tb]
<1>0. is[i] \in InstT BY LenProperties, ElementOfSeq
<1>1. is[i].tabs \in Seq(TableT) BY <1>0 DEF InstT
<1>2. u \in TableT BY <1>1, LenProperties, ElementOfSeq
<1>3. js = [is EXCEPT ![i] = y] OBVIOUS
<1>4. tb = [is[i].tabs EXCEPT ![k] = t] /\ y = [is[i] EXCEPT !.tabs = tb] OBVIOUS
<1>5. t = [u EXCEPT !.blk = n] /\ u = is[i].tabs[k] OBVIOUS
<1> HIDE DEF u, t, tb, y
<1>6. /\ t \in TableT /\ t.blk = n /\ t.is64 = u.is64 /\ t.max = u.max
      /\ t.has_max = u.has_max /\ t.size = u.size /\ t.tid = u.tid
  BY <1>2, <1>5 DEF TableT
<1>7. TabSet(is, js, i, k, t) BY <1>3, <1>4, <1>6, TabSetBy
<1> QED BY <1>5, <1>6, <1>7 DEF Moves

\* The blocks after table.grow extended or moved block b.
Extended(b, els) == blocks' = [blocks EXCEPT ![b].els = els]
Moved(b, els) ==
  blocks' = Append([blocks EXCEPT ![b].live = FALSE], [live |-> TRUE, els |-> els])

\* What table.grow does when it succeeds: els are the old elements and
\* copies of r, in the old array or in a new one.
GrowsTable(i, k, new, els) ==
  \E t \in TableT :
    /\ TabSet(insts, insts', i, k, t) /\ t.size = new
    /\ t.is64 = insts[i].tabs[k].is64 /\ t.max = insts[i].tabs[k].max
    /\ t.has_max = insts[i].tabs[k].has_max /\ t.tid = insts[i].tabs[k].tid
    /\ \/ t.blk = insts[i].tabs[k].blk /\ Extended(insts[i].tabs[k].blk, els)
       \/ t.blk = Len(blocks) + 1 /\ Moved(insts[i].tabs[k].blk, els)

\* What table.grow changes: the record's size, and its array if it moves.
LEMMA GrowIs ==
  ASSUME TypeInv, NEW i \in DOMAIN insts, NEW k \in DOMAIN insts[i].tabs,
         NEW delta, NEW r, TableGrow(i, k, delta, r),
         NEW t, t = insts[i].tabs[k], CanGrow(t, delta), GrowTo(t, delta) \in Nat
  PROVE  GrowsTable(i, k, GrowTo(t, delta),
                    [x \in 1 .. GrowTo(t, delta) |-> IF x <= t.size THEN View(t)[x] ELSE r])
<1> DEFINE new == GrowTo(t, delta)
           els == [x \in 1 .. new |-> IF x <= t.size THEN View(t)[x] ELSE r]
<1>1. \/ /\ insts' = [insts EXCEPT ![i].tabs[k].size = new]
         /\ blocks' = [blocks EXCEPT ![t.blk].els = els]
      \/ /\ insts' = [insts EXCEPT ![i].tabs[k].size = new,
                                   ![i].tabs[k].blk = Len(blocks) + 1]
         /\ blocks' = Append([blocks EXCEPT ![t.blk].live = FALSE], [live |-> TRUE, els |-> els])
  BY DEF TableGrow
<1>2. insts \in Seq(InstT) /\ new \in Nat /\ Len(blocks) + 1 \in Nat
  BY BlocksAre DEF TypeInv, Shapes
<1> SUFFICES GrowsTable(i, k, new, els) OBVIOUS
<1> HIDE DEF new, els
<1>3. CASE /\ insts' = [insts EXCEPT ![i].tabs[k].size = new]
           /\ blocks' = [blocks EXCEPT ![t.blk].els = els]
  <2>1. PICK u \in TableT :
           /\ TabSet(insts, insts', i, k, u) /\ u.size = new
           /\ u.is64 = insts[i].tabs[k].is64 /\ u.max = insts[i].tabs[k].max
           /\ u.has_max = insts[i].tabs[k].has_max /\ u.blk = insts[i].tabs[k].blk
           /\ u.tid = insts[i].tabs[k].tid
    <3>1. Sizes(insts, insts', i, k, new) BY <1>2, <1>3, SizeSet
    <3> QED BY <3>1 DEF Sizes
  <2> QED BY <2>1, <1>3 DEF GrowsTable, Extended
<1>4. CASE /\ insts' = [insts EXCEPT ![i].tabs[k].size = new,
                                     ![i].tabs[k].blk = Len(blocks) + 1]
           /\ blocks' = Append([blocks EXCEPT ![t.blk].live = FALSE], [live |-> TRUE, els |-> els])
  <2> DEFINE is == [insts EXCEPT ![i].tabs[k].size = new]
  <2>1. insts' = [is EXCEPT ![i].tabs[k].blk = Len(blocks) + 1] BY <1>4
  <2>2. is = [insts EXCEPT ![i].tabs[k].size = new] OBVIOUS
  <2> HIDE DEF is
  <2>3. PICK u \in TableT :
           /\ TabSet(insts, is, i, k, u) /\ u.size = new
           /\ u.is64 = insts[i].tabs[k].is64 /\ u.max = insts[i].tabs[k].max
           /\ u.has_max = insts[i].tabs[k].has_max /\ u.blk = insts[i].tabs[k].blk
           /\ u.tid = insts[i].tabs[k].tid
    <3>1. Sizes(insts, is, i, k, new) BY <1>2, <2>2, SizeSet
    <3> QED BY <3>1 DEF Sizes
  <2>4. /\ is \in Seq(InstT) /\ i \in DOMAIN is /\ k \in DOMAIN is[i].tabs
        /\ is[i].tabs[k] = u BY <2>3 DEF TabSet
  <2>5. PICK v \in TableT :
           /\ TabSet(is, insts', i, k, v) /\ v.blk = Len(blocks) + 1
           /\ v.is64 = is[i].tabs[k].is64 /\ v.max = is[i].tabs[k].max
           /\ v.has_max = is[i].tabs[k].has_max /\ v.size = is[i].tabs[k].size
           /\ v.tid = is[i].tabs[k].tid
    <3>1. Moves(is, insts', i, k, Len(blocks) + 1) BY <1>2, <2>1, <2>4, BlkSet
    <3> QED BY <3>1 DEF Moves
  <2>6. TabSet(insts, insts', i, k, v) BY <2>3, <2>5 DEF TabSet
  <2> QED BY <2>3, <2>4, <2>5, <2>6, <1>4 DEF GrowsTable, Moved
<1> QED BY <1>1, <1>3, <1>4

\* A realloc that moves frees the old array and makes a new one.
LEMMA MovedIs ==
  ASSUME TypeInv, NEW b, b \in DOMAIN blocks, NEW els, els \in Seq(Ref), Moved(b, els)
  PROVE  /\ blocks' \in Seq(BlockT) /\ DOMAIN blocks' = 1 .. Len(blocks) + 1
         /\ blocks'[Len(blocks) + 1].els = els /\ blocks'[Len(blocks) + 1].live = TRUE
         /\ \A c \in DOMAIN blocks : c # b => blocks'[c] = blocks[c]
         /\ blocks'[b].els = blocks[b].els /\ blocks'[b].live = FALSE
<1> DEFINE e == [blocks[b] EXCEPT !.live = FALSE]
           s == [blocks EXCEPT ![b] = e]
           f == [live |-> TRUE, els |-> els]
<1>1. /\ blocks \in Seq(BlockT) /\ blocks[b] \in BlockT /\ b \in 1 .. Len(blocks)
      /\ DOMAIN blocks = 1 .. Len(blocks) /\ Len(blocks) \in Nat
  BY BlocksAre DEF TypeInv, Shapes
<1>2. e \in BlockT /\ e.els = blocks[b].els /\ e.live = FALSE BY <1>1 DEF BlockT
<1>3. f \in BlockT /\ f.els = els /\ f.live = TRUE BY DEF BlockT
<1>4. blocks' = Append(s, f) BY DEF Moved
<1>5. s = [blocks EXCEPT ![b] = e] OBVIOUS
<1> HIDE DEF e, f, s
<1>6. s \in Seq(BlockT) /\ Len(s) = Len(blocks) BY <1>1, <1>2, <1>5, ExceptSeq
<1>7. s[b] = e /\ \A c \in DOMAIN blocks : c # b => s[c] = blocks[c] BY <1>1, <1>5
<1>8. /\ blocks' \in Seq(BlockT) /\ DOMAIN blocks' = 1 .. Len(blocks) + 1
      /\ blocks'[Len(blocks) + 1] = f
      /\ \A c \in 1 .. Len(blocks) : blocks'[c] = s[c] BY <1>3, <1>4, <1>6, Appended, SMTT(30)
<1> QED BY <1>1, <1>2, <1>3, <1>7, <1>8

\* The elements that table.grow leaves.
LEMMA GrownEls ==
  ASSUME TypeInv, RefInv, NEW i \in DOMAIN insts, insts[i].jit_mem0,
         NEW k \in DOMAIN insts[i].tabs, NEW r \in Refs(i), NEW n \in Nat, NEW t, NEW els,
         t = insts[i].tabs[k], els = [x \in 1 .. n |-> IF x <= t.size THEN View(t)[x] ELSE r]
  PROVE  /\ els \in Seq(Ref) /\ Len(els) = n
         /\ \A x \in DOMAIN els : Exists(els[x], insts)
<1> DEFINE v == View(t)
<1>1. /\ v \in Seq(Ref) /\ Len(v) = t.size /\ t.size \in Nat
      /\ \A x \in 1 .. t.size : Exists(v[x], insts) BY ViewIs
<1>2. r \in Ref /\ Exists(r, insts) BY RefsAre
<1>3. els = [x \in 1 .. n |-> IF x <= t.size THEN v[x] ELSE r] OBVIOUS
<1> HIDE DEF v
<1>4. \A x \in 1 .. n : els[x] \in Ref /\ Exists(els[x], insts)
  <2> TAKE x \in 1 .. n
  <2>1. CASE x <= t.size
    <3>1. x \in 1 .. t.size BY <1>1, <2>1
    <3>2. v[x] \in Ref BY <1>1, <3>1, ElementOfSeq
    <3> QED BY <1>1, <1>3, <2>1, <3>1, <3>2
  <2>2. CASE ~ (x <= t.size) BY <1>2, <1>3, <2>2
  <2> QED BY <2>1, <2>2
<1>5. els \in [1 .. n -> Ref] BY <1>3, <1>4
<1>6. els \in Seq(Ref) /\ Len(els) = n BY <1>5, Tabulated
<1> QED BY <1>4, <1>5, <1>6

\* Replacing a table's record keeps the types.
LEMMA TabSetType ==
  ASSUME TypeInv, NEW i \in DOMAIN insts, NEW k \in DOMAIN insts[i].tabs, NEW t \in TableT,
         TabSet(insts, insts', i, k, t), Stores, UNCHANGED cur,
         t.blk \in DOMAIN blocks', t.tid \in DOMAIN want'
  PROVE  TypeInv'
<1>1. /\ insts' \in Seq(InstT) /\ DOMAIN insts' = DOMAIN insts /\ Len(insts') = Len(insts)
      /\ \A j \in DOMAIN insts :
           /\ insts'[j].mod = insts[j].mod /\ insts'[j].mems = insts[j].mems
           /\ insts'[j].globs = insts[j].globs /\ insts'[j].funcs = insts[j].funcs
           /\ insts'[j].tags = insts[j].tags /\ insts'[j].jit_mem0 = insts[j].jit_mem0
           /\ insts'[j].out = insts[j].out /\ Len(insts'[j].tabs) = Len(insts[j].tabs)
           /\ DOMAIN insts'[j].tabs = DOMAIN insts[j].tabs
  BY DEF TabSet
<1>2. \A j \in DOMAIN insts, kind \in Kinds : Has(insts'[j], kind) = Has(insts[j], kind)
  BY <1>1 DEF Has, Kinds
<1>3. Shapes' BY <1>1 DEF TypeInv, Shapes, Stores
<1>4. Sized' BY <1>1, <1>2 DEF TypeInv, Sized
<1>5. Phase'
  <2> SUFFICES ASSUME cur # Idle PROVE Phase' BY DEF Phase
  <2>1. cur.inst \in DOMAIN insts BY InstsAre DEF TypeInv, Phase
  <2>2. /\ insts'[cur.inst].out = insts[cur.inst].out /\ insts'[cur.inst].mod = insts[cur.inst].mod
        /\ insts'[cur.inst].jit_mem0 = insts[cur.inst].jit_mem0 /\ Len(insts') = Len(insts)
        /\ \A kind \in Kinds : Has(insts'[cur.inst], kind) = Has(insts[cur.inst], kind)
    BY <2>1, <1>1, <1>2
  <2> QED BY <2>2 DEF TypeInv, Phase
<1>6. Outcomes' BY <1>1 DEF TypeInv, Outcomes
<1>7. Registered' BY <1>1 DEF TypeInv, Registered, Stores
<1>8. Leads'
  <2>1. \A j \in DOMAIN insts : \A l \in DOMAIN insts[j].tabs :
          insts'[j].tabs[l] = insts[j].tabs[l] \/ insts'[j].tabs[l] = t
    BY DEF TabSet
  <2>2. \A j \in DOMAIN insts : \A l \in DOMAIN insts[j].tabs :
          insts'[j].tabs[l].blk \in DOMAIN blocks' /\ insts'[j].tabs[l].tid \in DOMAIN want'
    BY <2>1 DEF TypeInv, Leads, Stores
  <2>3. \A j \in DOMAIN insts :
          /\ \A l \in DOMAIN insts[j].mems : insts[j].mems[l] \in DOMAIN mems'
          /\ \A l \in DOMAIN insts[j].globs : insts[j].globs[l] \in DOMAIN cells'
    BY DEF TypeInv, Leads, Stores
  <2> QED BY <1>1, <2>2, <2>3 DEF Leads
<1> QED BY <1>3, <1>4, <1>5, <1>6, <1>7, <1>8 DEF TypeInv

\* table.grow.
LEMMA TableGrowStep ==
  ASSUME TypeInv, RefInv, NEW i \in DOMAIN insts, insts[i].jit_mem0,
         NEW k \in DOMAIN insts[i].tabs, NEW delta \in Nat, NEW r \in Refs(i),
         TableGrow(i, k, delta, r)
  PROVE  TypeInv' /\ RefInv'
<1> DEFINE t == insts[i].tabs[k]
           n == GrowTo(t, delta)
           els == [x \in 1 .. n |-> IF x <= t.size THEN View(t)[x] ELSE r]
           w == Size(t) + delta <= t.max /\ Size(t) + delta <= N32
           can == CanGrow(t, delta)
<1>1. /\ Executes /\ UNCHANGED <<mems, cells, named, ecache, cur>>
      /\ want' = IF w THEN [want EXCEPT ![t.tid] = @ \o Repeat(r, delta)] ELSE want
      /\ ~ can => UNCHANGED <<insts, blocks>> BY DEF TableGrow
<1>2. t \in TableT /\ t.blk \in DOMAIN blocks /\ t.tid \in DOMAIN want BY BlocksAre
<1>3. n \in Nat
  <2> DEFINE s == t.size + delta
  <2>1. s \in Nat /\ n = s % M64 BY <1>2 DEF TableT, GrowTo, U64
  <2>2. M64 \in Nat /\ M64 > 0 BY TableWidths
  <2> HIDE DEF s, n
  <2> QED BY <2>1, <2>2
<1>4. els \in Seq(Ref) /\ Len(els) = n /\ \A x \in DOMAIN els : Exists(els[x], insts)
  <2>1. t = insts[i].tabs[k] OBVIOUS
  <2>2. els = [x \in 1 .. n |-> IF x <= t.size THEN View(t)[x] ELSE r] OBVIOUS
  <2> HIDE DEF t, n, els
  <2> QED BY <1>3, <2>1, <2>2, GrownEls
<1>5. can => GrowsTable(i, k, n, els)
  <2> SUFFICES ASSUME can PROVE GrowsTable(i, k, n, els) OBVIOUS
  <2>1. t = insts[i].tabs[k] OBVIOUS
  <2>2. CanGrow(t, delta) /\ GrowTo(t, delta) \in Nat BY <1>3
  <2>3. GrowsTable(i, k, GrowTo(t, delta),
                   [x \in 1 .. GrowTo(t, delta) |-> IF x <= t.size THEN View(t)[x] ELSE r])
    <3> HIDE DEF t
    <3> QED BY <2>1, <2>2, GrowIs
  <2> QED BY <2>3
<1>6. want' \in Seq(Seq(Ref)) /\ DOMAIN want' = DOMAIN want
  <2>1. CASE w
    <3> DEFINE tail == Repeat(r, delta) u == want[t.tid] v == u \o tail
    <3>1. r \in Ref BY RefsAre
    <3>2. tail \in Seq(Ref) BY <3>1, RepeatIs
    <3>3. u \in Seq(Ref) BY <1>2, BlocksAre
    <3>4. want' = [want EXCEPT ![t.tid] = v] BY <1>1, <2>1
    <3> HIDE DEF tail, u
    <3>5. v \in Seq(Ref) BY <3>2, <3>3, ConcatProperties
    <3> HIDE DEF v, t, w
    <3> QED BY <1>2, <3>4, <3>5, WantWrite
  <2>2. CASE ~ w BY <1>1, <2>2 DEF TypeInv, Shapes
  <2> QED BY <2>1, <2>2
<1>7. ops' \in 0 .. MaxOps
  <2>1. Executes BY DEF TableGrow
  <2>2. ops \in 0 .. MaxOps BY DEF TypeInv, Shapes
  <2> HIDE DEF t, n, els, w, can
  <2> QED BY <2>1, <2>2, LinkingBounds DEF Executes
<1>q. t = insts[i].tabs[k] OBVIOUS
<1> HIDE DEF t, n, els, w, can
<1>8. CASE ~ can
  <2>1. Kept /\ Writes BY <1>1, <1>8, KeptSame, WritesNothing
  <2>2. Stores BY <1>1, <1>6, <1>7, <1>8 DEF Stores, TypeInv, Shapes
  <2> QED BY <1>1, <1>8, <2>1, <2>2, KeepsCur, RefKept
<1>9. CASE can
  <2>1. PICK u \in TableT :
          /\ TabSet(insts, insts', i, k, u) /\ u.tid = t.tid
          /\ \/ u.blk = t.blk /\ Extended(t.blk, els)
             \/ u.blk = Len(blocks) + 1 /\ Moved(t.blk, els)
    BY <1>5, <1>9, <1>q DEF GrowsTable
  <2>2. /\ blocks' \in Seq(BlockT) /\ DOMAIN blocks \subseteq DOMAIN blocks'
        /\ u.blk \in DOMAIN blocks' /\ blocks'[u.blk].els = els
        /\ \A c \in DOMAIN blocks : c # u.blk => blocks'[c].els = blocks[c].els
    <3>0. DOMAIN blocks = 1 .. Len(blocks) /\ Len(blocks) \in Nat BY BlocksAre
    <3>1. CASE u.blk = t.blk /\ Extended(t.blk, els)
      BY <3>1, <1>2, <1>4, BlockWrite DEF Extended
    <3>2. CASE u.blk = Len(blocks) + 1 /\ Moved(t.blk, els)
      <4>1. /\ blocks' \in Seq(BlockT) /\ DOMAIN blocks' = 1 .. Len(blocks) + 1
            /\ blocks'[Len(blocks) + 1].els = els
            /\ \A c \in DOMAIN blocks : c # t.blk => blocks'[c] = blocks[c]
            /\ blocks'[t.blk].els = blocks[t.blk].els
        BY <3>2, <1>2, <1>4, MovedIs
      <4> QED BY <3>0, <3>2, <4>1
    <3> QED BY <2>1, <3>1, <3>2
  <2>3. Stores BY <1>1, <1>6, <1>7, <2>2 DEF Stores, TypeInv, Shapes
  <2>4. TypeInv' BY <1>1, <1>2, <1>6, <2>1, <2>2, <2>3, TabSetType
  <2>5. /\ DOMAIN insts' = DOMAIN insts
        /\ \A j \in DOMAIN insts :
             /\ insts'[j].mod = insts[j].mod /\ insts'[j].funcs = insts[j].funcs
             /\ insts'[j].jit_mem0 = insts[j].jit_mem0
             /\ insts'[j].elem_alive = insts[j].elem_alive
             /\ DOMAIN insts'[j].tabs = DOMAIN insts[j].tabs
             /\ \A l \in DOMAIN insts[j].tabs :
                  insts'[j].tabs[l] = insts[j].tabs[l] \/ insts'[j].tabs[l] = u
    BY <2>1 DEF TabSet
  <2>6. Extends(insts, insts') BY <2>5 DEF Extends
  <2>7. FuncsExist' BY <2>5 DEF RefInv, FuncsExist
  <2>8. RefsExist'
    <3> SUFFICES ASSUME NEW j \in DOMAIN insts, NEW l \in DOMAIN insts[j].tabs, NEW b,
                        b = insts'[j].tabs[l].blk, NEW x \in DOMAIN blocks'[b].els
                 PROVE  Exists(blocks'[b].els[x], insts')
      BY <2>5 DEF RefsExist
    <3>1. CASE b = u.blk
      <4>1. Exists(blocks'[b].els[x], insts) BY <3>1, <2>2, <1>4
      <4> QED BY <4>1, <2>6, ExistsStays
    <3>2. CASE b # u.blk
      <4>1. b = insts[j].tabs[l].blk BY <3>2, <2>5
      <4>2. b \in DOMAIN blocks BY <4>1, BlocksAre
      <4>3. \A y \in DOMAIN blocks[b].els : Exists(blocks[b].els[y], insts)
        BY <4>1 DEF RefInv, RefsExist
      <4>4. Exists(blocks'[b].els[x], insts) BY <3>2, <4>2, <4>3, <2>2
      <4> QED BY <4>4, <2>6, ExistsStays
    <3> QED BY <3>1, <3>2
  <2>9. CacheExists'
    <3> SUFFICES ASSUME NEW m \in DOMAIN Mods, NEW g \in DOMAIN Mods[m].elems,
                        NEW x \in DOMAIN ecache[m][g], NEW y, y = ecache[m][g][x]
                 PROVE  Exists(y, insts')
      BY <1>1 DEF CacheExists, RefInv
    <3>1. Exists(y, insts) BY DEF CacheExists, RefInv
    <3> QED BY <3>1, <2>6, ExistsStays
  <2>10. AliveFits' BY <2>5 DEF RefInv, AliveFits
  <2> QED BY <2>4, <2>7, <2>8, <2>9, <2>10 DEF RefInv
<1> QED BY <1>8, <1>9

\* An import that succeeds, from the registered instance s.
ImportsFrom(s) ==
  /\ s \in DOMAIN insts /\ insts[s].out = "ok" /\ insts[s].jit_mem0
  /\ \E k \in 1 .. Len(named) : named[k][2] = s
  /\ DOMAIN insts' = DOMAIN insts /\ \A j \in DOMAIN insts : j # I => insts'[j] = insts[j]
  /\ cur'.inst = I /\ cur'.phase = "import"
  /\ insts'[I].mod = insts[I].mod /\ insts'[I].out = insts[I].out
  /\ insts'[I].jit_mem0 = insts[I].jit_mem0 /\ insts'[I].elem_alive = insts[I].elem_alive
  /\ DOMAIN insts[I].funcs \subseteq DOMAIN insts'[I].funcs
  /\ \A k \in DOMAIN insts'[I].tabs :
       \/ k \in DOMAIN insts[I].tabs /\ insts'[I].tabs[k] = insts[I].tabs[k]
       \/ /\ \E l \in DOMAIN insts[s].tabs : insts'[I].tabs[k] = insts[s].tabs[l]
          /\ \E l \in DOMAIN D.imports : D.imports[l].kind = "table"
  /\ \A k \in DOMAIN insts'[I].mems :
       \/ k \in DOMAIN insts[I].mems /\ insts'[I].mems[k] = insts[I].mems[k]
       \/ \E l \in DOMAIN insts[s].mems : insts'[I].mems[k] = insts[s].mems[l]
  /\ \A k \in DOMAIN insts'[I].funcs :
       \/ k \in DOMAIN insts[I].funcs /\ insts'[I].funcs[k] = insts[I].funcs[k]
       \/ \E l \in DOMAIN insts[s].funcs : insts'[I].funcs[k] = insts[s].funcs[l]

\* The fields that importing leaves alone.
LEMMA LinkedAlive ==
  ASSUME NEW X \in InstT, NEW S, NEW im, im.kind \in Kinds
  PROVE  Linked(X, S, im).elem_alive = X.elem_alive
<1>1. CASE im.kind = "func" BY <1>1 DEF Linked, InstT
<1>2. CASE im.kind = "table" BY <1>2 DEF Linked, InstT
<1>3. CASE im.kind = "memory" BY <1>3 DEF Linked, InstT
<1>4. CASE im.kind = "tag" BY <1>4 DEF Linked, InstT
<1>5. CASE im.kind = "global" BY <1>5 DEF Linked, InstT
<1> QED BY <1>1, <1>2, <1>3, <1>4, <1>5 DEF Kinds

\* What Import changes, by its three outcomes.
LEMMA ImportIs ==
  ASSUME TypeInv, Import
  PROVE  /\ cur.phase = "import" /\ UNCHANGED <<blocks, mems, cells, named, ecache, want, snap, ops>>
         /\ \/ insts' = [insts EXCEPT ![I].out = "unlinkable"] /\ cur' = Idle
            \/ \E s \in DOMAIN insts : ImportsFrom(s)
<1> DEFINE im == D.imports[cur.k] src == Lookup(im.from)
<1>0. cur.phase = "import" /\ cur.k <= Len(D.imports)
      /\ UNCHANGED <<blocks, mems, cells, named, ecache, want, snap, ops>>
  BY DEF Import
<1>1. /\ I \in DOMAIN insts /\ insts[I] \in InstT
      /\ cur.k \in Nat /\ cur.k # 0 /\ insts[I].mod \in DOMAIN Mods /\ D = Mods[insts[I].mod]
  BY <1>0, CurIs DEF InstT, D
<1>2. cur.k \in DOMAIN D.imports BY <1>0, <1>1, CurIs, LenProperties
<1>3. im.kind \in Kinds
  <2>1. Valid(insts[I].mod) BY <1>1, LinkingMods
  <2> QED BY <2>1, <1>1, <1>2 DEF Valid
<1>4. CASE ~ ImportOK(src, im)
  BY <1>0, <1>4 DEF Import, Abandon
<1>5. CASE ImportOK(src, im)
  <2>1. Exports(src, im.kind, im.idx) BY <1>5 DEF ImportOK
  <2>2. src = 0 \/ (/\ src \in DOMAIN insts /\ insts[src].jit_mem0 /\ insts[src].out = "ok"
                    /\ \E k \in 1 .. Len(named) : named[k][2] = src) BY LookupIs
  <2> DEFINE S == insts[src] Y == Linked(insts[I], S, im)
  <2>3. insts' = [insts EXCEPT ![I] = Y] BY <1>5 DEF Import
  <2>4. Step("import", cur.k + 1) /\ cur.k + 1 \in Nat
    <3>1. Step("import", cur.k + 1) BY <1>5, ZenonT(30) DEF Import
    <3>2. cur.k + 1 \in Nat BY <1>1
    <3> QED BY <3>1, <3>2
  <2>5. cur'.inst = I /\ cur'.phase = "import" BY <2>4, StepIs
  <2> HIDE DEF src
  <2>6. src \in DOMAIN insts /\ im.idx \in 1 .. Has(S, im.kind) /\ S \in InstT
    <3> HIDE DEF im
    <3> QED BY <2>1, <2>2, <1>3, ExportIs, InstsAre
  <2>6a. src # 0 BY <2>6, InstsAre
  <2>7. im.kind = "table" => \E l \in DOMAIN D.imports : D.imports[l].kind = "table" BY <1>2
  <2> HIDE DEF S, Y, im
  <2>8. Y = Linked(insts[I], S, im) BY DEF Y
  <2>9. Y \in InstT /\ Y.mod = insts[I].mod /\ Y.out = insts[I].out /\ Y.jit_mem0 = insts[I].jit_mem0
    BY <2>6, <2>8, <1>1, <1>3, LinkedIs
  <2>10. Y.elem_alive = insts[I].elem_alive BY <2>8, <1>1, <1>3, LinkedAlive
  <2>11. DOMAIN insts[I].funcs \subseteq DOMAIN Y.funcs
    <3>1. Has(Y, "func") = Has(insts[I], "func") \/ Has(Y, "func") = Has(insts[I], "func") + 1
      <4>1. \A kind \in Kinds :
          Has(Y, kind) = IF kind = im.kind THEN Has(insts[I], kind) + 1 ELSE Has(insts[I], kind)
        BY <2>6, <2>8, <1>1, <1>3, LinkedIs
      <4> QED BY <4>1 DEF Kinds
    <3>2. insts[I].funcs \in Seq(FuncT) /\ Y.funcs \in Seq(FuncT) BY <1>1, <2>9 DEF InstT
    <3>3. Len(Y.funcs) >= Len(insts[I].funcs) BY <3>1, <3>2, LenProperties DEF Has
    <3> QED BY <3>2, <3>3, LenProperties
  <2>12. /\ DOMAIN insts' = DOMAIN insts /\ insts'[I] = Y
         /\ \A j \in DOMAIN insts : j # I => insts'[j] = insts[j]
    BY <1>1, <2>3, <2>9, ReplacedIs
  <2>13. \A k \in DOMAIN Y.tabs :
           \/ k \in DOMAIN insts[I].tabs /\ Y.tabs[k] = insts[I].tabs[k]
           \/ im.kind = "table" /\ im.idx \in DOMAIN S.tabs /\ Y.tabs[k] = S.tabs[im.idx]
    BY <2>6, <2>8, <1>1, <1>3, LinkedIs
  <2>14. \A k \in DOMAIN Y.mems :
           \/ k \in DOMAIN insts[I].mems /\ Y.mems[k] = insts[I].mems[k]
           \/ im.kind = "memory" /\ im.idx \in DOMAIN S.mems /\ Y.mems[k] = S.mems[im.idx]
    BY <2>6, <2>8, <1>1, <1>3, LinkedIs
  <2>15. \A k \in DOMAIN Y.funcs :
           \/ k \in DOMAIN insts[I].funcs /\ Y.funcs[k] = insts[I].funcs[k]
           \/ im.kind = "func" /\ im.idx \in DOMAIN S.funcs /\ Y.funcs[k] = S.funcs[im.idx]
    BY <2>6, <2>8, <1>1, <1>3, LinkedIs
  <2>16. /\ src \in DOMAIN insts /\ insts[src].out = "ok" /\ insts[src].jit_mem0
         /\ \E k \in 1 .. Len(named) : named[k][2] = src BY <2>2, <2>6a
  <2>17. S = insts[src] BY DEF S
  <2>18. ImportsFrom(src)
    BY <2>5, <2>7, <2>9, <2>10, <2>11, <2>12, <2>13, <2>14, <2>15, <2>16, <2>17 DEF ImportsFrom
  <2> QED BY <1>0, <2>16, <2>18
<1> QED BY <1>4, <1>5

\* The rest of the type invariant's frame: an instance that is abandoned.
LEMMA ImportRefs ==
  ASSUME TypeInv, RefInv, Import
  PROVE  RefInv'
<1>0. cur.phase = "import" /\ cur.phase # "idle" /\ UNCHANGED <<blocks, ecache>> BY ImportIs
<1>1. I \in DOMAIN insts BY <1>0, CurIs
<1>2. CASE insts' = [insts EXCEPT ![I].out = "unlinkable"]
  <2>1. Kept /\ \A j \in DOMAIN insts : insts'[j].elem_alive = insts[j].elem_alive
    BY <1>1, <1>2, OutSet DEF Outs
  <2> QED BY <1>0, <2>1, WritesNothing, RefKept
<1>3. ASSUME NEW s \in DOMAIN insts, ImportsFrom(s) PROVE RefInv'
  <2>1. DOMAIN insts' = DOMAIN insts /\ \A j \in DOMAIN insts :
          /\ DOMAIN insts[j].funcs \subseteq DOMAIN insts'[j].funcs
          /\ insts'[j].jit_mem0 = insts[j].jit_mem0 /\ insts'[j].elem_alive = insts[j].elem_alive
          /\ insts'[j].mod = insts[j].mod
    BY <1>3 DEF ImportsFrom
  <2>2. Extends(insts, insts') BY <2>1 DEF Extends
  <2>3. FuncsExist'
    <3>1. \A j \in DOMAIN insts : \A f \in DOMAIN insts'[j].funcs :
            \/ f \in DOMAIN insts[j].funcs /\ insts'[j].funcs[f] = insts[j].funcs[f]
            \/ \E l \in DOMAIN insts[s].funcs : insts'[j].funcs[f] = insts[s].funcs[l]
      BY <1>3 DEF ImportsFrom
    <3>2. \A j \in DOMAIN insts : \A f \in DOMAIN insts'[j].funcs :
            insts'[j].funcs[f].inst \in DOMAIN insts /\ insts[insts'[j].funcs[f].inst].jit_mem0
      BY <3>1 DEF RefInv, FuncsExist
    <3> QED BY <2>1, <3>2 DEF FuncsExist
  <2>4. RefsExist'
    <3>1. \A j \in DOMAIN insts : \A l \in DOMAIN insts'[j].tabs :
            \E i \in DOMAIN insts : \E k \in DOMAIN insts[i].tabs : insts'[j].tabs[l] = insts[i].tabs[k]
      BY <1>3 DEF ImportsFrom
    <3> SUFFICES ASSUME NEW j \in DOMAIN insts, NEW l \in DOMAIN insts'[j].tabs, NEW b,
                        b = insts'[j].tabs[l].blk, NEW x \in DOMAIN blocks[b].els
                 PROVE  Exists(blocks[b].els[x], insts')
      BY <1>0, <2>1 DEF RefsExist
    <3>2. PICK i \in DOMAIN insts : \E k \in DOMAIN insts[i].tabs : b = insts[i].tabs[k].blk
      BY <3>1
    <3>3. Exists(blocks[b].els[x], insts) BY <3>2 DEF RefInv, RefsExist
    <3> QED BY <3>3, <2>2, ExistsStays
  <2>5. CacheExists'
    <3> SUFFICES ASSUME NEW m \in DOMAIN Mods, NEW g \in DOMAIN Mods[m].elems,
                        NEW x \in DOMAIN ecache[m][g], NEW y, y = ecache[m][g][x]
                 PROVE  Exists(y, insts')
      BY <1>0 DEF CacheExists, RefInv
    <3>1. Exists(y, insts) BY DEF CacheExists, RefInv
    <3> QED BY <3>1, <2>2, ExistsStays
  <2>6. AliveFits' BY <2>1 DEF RefInv, AliveFits
  <2> QED BY <2>3, <2>4, <2>5, <2>6 DEF RefInv
<1> QED BY <1>2, <1>3, ImportIs

\* A new instance holds no reference.
LEMMA BeginRefs ==
  ASSUME TypeInv, RefInv, NEW m \in DOMAIN Mods, Begin(m)
  PROVE  RefInv'
<1> DEFINE x == Fresh(m) n == Len(insts)
<1>1. /\ x.mod = m /\ x.tabs = <<>> /\ x.funcs = <<>>
      /\ DOMAIN x.elem_alive = DOMAIN Mods[m].elems BY DEF Fresh
<1>2. insts' = Append(insts, x) /\ insts \in Seq(InstT) /\ n \in Nat
      /\ UNCHANGED <<blocks, ecache>>
  BY InstsAre DEF Begin, TypeInv, Shapes
<1>3. x \in InstT
  <2>1. x.elem_alive \in [DOMAIN Mods[m].elems -> BOOLEAN] BY DEF Fresh
  <2>2. x.data_alive \in [DOMAIN Mods[m].datas -> BOOLEAN] BY DEF Fresh
  <2> QED BY <2>1, <2>2 DEF Fresh, InstT, Outs
<1>m. DOMAIN x.tabs = {} /\ DOMAIN x.funcs = {} BY <1>1
<1> HIDE DEF x
<1>4. /\ DOMAIN insts' = 1 .. n + 1 /\ DOMAIN insts = 1 .. n
      /\ \A j \in 1 .. n : insts'[j] = insts[j]
      /\ insts'[n + 1] = x BY <1>2, <1>3, Appended
<1> HIDE DEF n
<1>5. \A j \in DOMAIN insts' : (j \in DOMAIN insts /\ insts'[j] = insts[j]) \/ insts'[j] = x
  BY <1>2, <1>4
<1>6. DOMAIN insts \subseteq DOMAIN insts' /\ \A j \in DOMAIN insts : insts'[j] = insts[j]
  BY <1>2, <1>4
<1>7. Extends(insts, insts') BY <1>6 DEF Extends
<1>8. FuncsExist' BY <1>m, <1>5, <1>6 DEF RefInv, FuncsExist
<1>9. RefsExist'
  <2> SUFFICES ASSUME NEW j \in DOMAIN insts, NEW l \in DOMAIN insts[j].tabs, NEW b,
                      b = insts[j].tabs[l].blk, NEW y \in DOMAIN blocks[b].els
               PROVE  Exists(blocks[b].els[y], insts')
    BY <1>m, <1>2, <1>5, ZenonT(30) DEF RefsExist
  <2>1. Exists(blocks[b].els[y], insts) BY DEF RefInv, RefsExist
  <2> QED BY <2>1, <1>7, ExistsStays
<1>10. CacheExists'
  <2> SUFFICES ASSUME NEW mm \in DOMAIN Mods, NEW g \in DOMAIN Mods[mm].elems,
                      NEW z \in DOMAIN ecache[mm][g], NEW y, y = ecache[mm][g][z]
               PROVE  Exists(y, insts')
    BY <1>2 DEF CacheExists, RefInv
  <2>1. Exists(y, insts) BY DEF CacheExists, RefInv
  <2> QED BY <2>1, <1>7, ExistsStays
<1>11. AliveFits' BY <1>1, <1>5 DEF RefInv, AliveFits
<1> QED BY <1>8, <1>9, <1>10, <1>11 DEF RefInv

\* The instance gets its own definitions.
DefinesOwn ==
  /\ DOMAIN insts' = DOMAIN insts /\ \A j \in DOMAIN insts : j # I => insts'[j] = insts[j]
  /\ insts'[I].jit_mem0 /\ insts'[I].mod = insts[I].mod /\ insts'[I].out = insts[I].out
  /\ insts'[I].elem_alive = insts[I].elem_alive
  /\ DOMAIN insts[I].funcs \subseteq DOMAIN insts'[I].funcs
  /\ DOMAIN insts'[I].funcs = Space(insts[I].mod, "func")
  /\ \A k \in DOMAIN insts'[I].tabs :
       \/ k \in DOMAIN insts[I].tabs /\ insts'[I].tabs[k] = insts[I].tabs[k]
       \/ \E j \in 1 .. Len(D.tables) : insts'[I].tabs[k] = NewTable(j, Len(blocks) + j, Len(want) + j)
  /\ \A k \in DOMAIN insts'[I].mems :
       \/ k \in DOMAIN insts[I].mems /\ insts'[I].mems[k] = insts[I].mems[k]
       \/ \E j \in 1 .. Len(D.mems) :
            k = Len(insts[I].mems) + j /\ insts'[I].mems[k] = Len(mems) + j
  /\ \A k \in DOMAIN insts'[I].funcs :
       \/ k \in DOMAIN insts[I].funcs /\ insts'[I].funcs[k] = insts[I].funcs[k]
       \/ insts'[I].funcs[k].inst = I
  /\ mems' = mems \o NewMems /\ ecache' = [ecache EXCEPT ![insts[I].mod] = NewCache]
  /\ cur'.inst = I /\ cur'.phase = "elem"

\* What Define does: the instance has its own of everything, or is given up.
LEMMA DefinedIs ==
  ASSUME TypeInv, Define
  PROVE  /\ cur.phase = "import" /\ cur.phase # "idle" /\ cur.k > Len(D.imports)
         /\ UNCHANGED named
         /\ blocks' = blocks \o NewBlocks /\ want' = want \o NewEls
         /\ \/ insts' = [insts EXCEPT ![I].out = "uninstantiable"] /\ cur' = Idle
               /\ UNCHANGED <<mems, ecache>>
            \/ DefinesOwn
<1>1. /\ cur.phase = "import" /\ cur.k > Len(D.imports) /\ UNCHANGED named
      /\ blocks' = blocks \o NewBlocks /\ want' = want \o NewEls
  BY DefineIs
<1>2. I \in DOMAIN insts /\ insts[I] \in InstT /\ insts[I].mod \in DOMAIN Mods BY <1>1, CurIs DEF InstT
<1>3. CASE Abandon("uninstantiable", FALSE) /\ UNCHANGED <<mems, ecache>>
  BY <1>1, <1>3 DEF Abandon
<1>4. CASE /\ mems' = mems \o NewMems /\ insts' = [insts EXCEPT ![I] = WithOwn]
           /\ ecache' = [ecache EXCEPT ![insts[I].mod] = NewCache] /\ Step("elem", 1)
  <2>1. /\ WithOwn \in InstT /\ WithOwn.jit_mem0 /\ WithOwn.mod = insts[I].mod
        /\ WithOwn.out = insts[I].out /\ WithOwn.funcs = insts[I].funcs \o NewFuncs
        /\ \A kind \in Kinds :
             Has(WithOwn, kind) = Imported(WithOwn.mod, kind) + Defined(WithOwn.mod, kind)
    BY <1>1, OwnIs
  <2>2. WithOwn.elem_alive = insts[I].elem_alive BY <1>2 DEF WithOwn, JitFields, InstT
  <2>3. DOMAIN WithOwn.funcs = Space(insts[I].mod, "func")
        /\ DOMAIN insts[I].funcs \subseteq DOMAIN WithOwn.funcs
    <3>1. Has(WithOwn, "func") = Imported(insts[I].mod, "func") + Defined(insts[I].mod, "func")
      BY <2>1 DEF Kinds
    <3>2. WithOwn.funcs \in Seq(FuncT) BY <2>1 DEF InstT
    <3>3. insts[I].funcs \in Seq(FuncT) BY <1>2 DEF InstT
    <3>4. NewFuncs \in Seq(FuncT) BY <1>1, NewAre
    <3>5. Len(WithOwn.funcs) = Len(insts[I].funcs) + Len(NewFuncs) /\ Len(NewFuncs) \in Nat
      BY <2>1, <3>3, <3>4, ConcatProperties, LenProperties
    <3>6. DOMAIN WithOwn.funcs = 1 .. Len(WithOwn.funcs)
          /\ DOMAIN insts[I].funcs = 1 .. Len(insts[I].funcs)
          /\ Len(insts[I].funcs) \in Nat BY <3>2, <3>3, LenProperties
    <3> QED BY <3>1, <3>5, <3>6 DEF Has, Space
  <2>4. /\ cur'.inst = I /\ cur'.phase = "elem" BY <1>4, StepIs
  <2>5a. \A k \in DOMAIN WithOwn.tabs :
           \/ k \in DOMAIN insts[I].tabs /\ WithOwn.tabs[k] = insts[I].tabs[k]
           \/ \E j \in 1 .. Len(D.tables) :
                WithOwn.tabs[k] = NewTable(j, Len(blocks) + j, Len(want) + j)
    BY <1>1, OwnParts
  <2>5b. \A k \in DOMAIN WithOwn.mems :
           \/ k \in DOMAIN insts[I].mems /\ WithOwn.mems[k] = insts[I].mems[k]
           \/ \E j \in 1 .. Len(D.mems) :
                k = Len(insts[I].mems) + j /\ WithOwn.mems[k] = Len(mems) + j
    BY <1>1, OwnParts
  <2>5c. \A k \in DOMAIN WithOwn.funcs :
           \/ k \in DOMAIN insts[I].funcs /\ WithOwn.funcs[k] = insts[I].funcs[k]
           \/ WithOwn.funcs[k].inst = I
    <3>1. \A k \in DOMAIN WithOwn.funcs :
            \/ k \in DOMAIN insts[I].funcs /\ WithOwn.funcs[k] = insts[I].funcs[k]
            \/ \E j \in 1 .. Len(D.funcs) :
                 k = Len(insts[I].funcs) + j /\ WithOwn.funcs[k] = [inst |-> I, type |-> D.funcs[j]]
      BY <1>1, OwnParts
    <3> TAKE k \in DOMAIN WithOwn.funcs
    <3>2. ASSUME NEW j \in 1 .. Len(D.funcs), WithOwn.funcs[k] = [inst |-> I, type |-> D.funcs[j]]
          PROVE  WithOwn.funcs[k].inst = I BY <3>2
    <3> QED BY <3>1, <3>2
  <2> DEFINE Y == WithOwn
  <2>6. insts' = [insts EXCEPT ![I] = Y] BY <1>4
  <2>7. /\ DOMAIN insts' = DOMAIN insts /\ insts'[I] = WithOwn
        /\ \A j \in DOMAIN insts : j # I => insts'[j] = insts[j]
    <3>1. /\ DOMAIN insts' = DOMAIN insts /\ insts'[I] = Y
          /\ \A j \in DOMAIN insts : j # I => insts'[j] = insts[j]
      BY <1>2, <2>1, <2>6, ReplacedIs
    <3> QED BY <3>1
  <2> HIDE DEF Y
  <2>8. mems' = mems \o NewMems /\ ecache' = [ecache EXCEPT ![insts[I].mod] = NewCache] BY <1>4
  <2>9. /\ insts'[I].jit_mem0 /\ insts'[I].mod = insts[I].mod /\ insts'[I].out = insts[I].out
        /\ insts'[I].elem_alive = insts[I].elem_alive
        /\ DOMAIN insts[I].funcs \subseteq DOMAIN insts'[I].funcs
        /\ DOMAIN insts'[I].funcs = Space(insts[I].mod, "func")
    BY <2>1, <2>2, <2>3, <2>7
  <2>10. \A k \in DOMAIN insts'[I].tabs :
           \/ k \in DOMAIN insts[I].tabs /\ insts'[I].tabs[k] = insts[I].tabs[k]
           \/ \E j \in 1 .. Len(D.tables) :
                insts'[I].tabs[k] = NewTable(j, Len(blocks) + j, Len(want) + j)
    BY <2>5a, <2>7
  <2>11. \A k \in DOMAIN insts'[I].mems :
           \/ k \in DOMAIN insts[I].mems /\ insts'[I].mems[k] = insts[I].mems[k]
           \/ \E j \in 1 .. Len(D.mems) :
                k = Len(insts[I].mems) + j /\ insts'[I].mems[k] = Len(mems) + j
    BY <2>5b, <2>7
  <2>12. \A k \in DOMAIN insts'[I].funcs :
           \/ k \in DOMAIN insts[I].funcs /\ insts'[I].funcs[k] = insts[I].funcs[k]
           \/ insts'[I].funcs[k].inst = I
    BY <2>5c, <2>7
  <2>13. DefinesOwn BY <2>4, <2>7, <2>8, <2>9, <2>10, <2>11, <2>12 DEF DefinesOwn
  <2> QED BY <1>1, <2>13
<1> QED BY <1>3, <1>4, DefineIs

\* What the new blocks hold.
LEMMA NewBlocksAre ==
  ASSUME TypeInv, cur.phase = "import", cur.k > Len(D.imports), blocks' = blocks \o NewBlocks
  PROVE  /\ DOMAIN blocks' = 1 .. Len(blocks) + Len(D.tables) /\ DOMAIN blocks = 1 .. Len(blocks)
         /\ Len(blocks) \in Nat /\ Len(D.tables) \in Nat
         /\ \A b \in DOMAIN blocks : blocks'[b] = blocks[b]
         /\ \A j \in 1 .. Len(D.tables) :
              /\ blocks'[Len(blocks) + j].els = FirstItems(D.tables[j])
              /\ blocks'[Len(blocks) + j].live = TRUE
<1>1. /\ DOMAIN blocks' = 1 .. Len(blocks) + Len(D.tables) /\ DOMAIN blocks = 1 .. Len(blocks)
      /\ \A b \in DOMAIN blocks : blocks'[b] = blocks[b]
      /\ \A j \in 1 .. Len(D.tables) : blocks'[Len(blocks) + j] = NewBlocks[j]
  BY StoreGrows
<1>2. Len(NewEls) = Len(D.tables) BY NewAre
<1>3. \A j \in 1 .. Len(D.tables) :
        NewBlocks[j].els = FirstItems(D.tables[j]) /\ NewBlocks[j].live = TRUE
  BY <1>2 DEF NewBlocks, NewEls
<1>4. Len(blocks) \in Nat /\ Len(D.tables) \in Nat BY BlocksAre, DefinesAre
<1> QED BY <1>1, <1>3, <1>4

\* Null or the initialiser's function.
LEMMA FirstItemsAre ==
  ASSUME TypeInv, cur.phase = "import", NEW j \in 1 .. Len(D.tables)
  PROVE  \A x \in DOMAIN FirstItems(D.tables[j]) :
           \/ FirstItems(D.tables[j])[x] = Null
           \/ /\ FirstItems(D.tables[j])[x][1] = I
              /\ FirstItems(D.tables[j])[x][2] \in Space(insts[I].mod, "func")
<1>1. I \in DOMAIN insts /\ insts[I].mod \in DOMAIN Mods BY CurIs DEF InstT
<1>2. D.tables[j].init \in {0} \cup Space(insts[I].mod, "func")
  <2>1. Valid(insts[I].mod) BY <1>1, LinkingMods
  <2>2. D.tables \in Seq({D.tables[k] : k \in DOMAIN D.tables}) BY <2>1 DEF Valid, D
  <2>3. j \in DOMAIN D.tables BY <2>2, LenProperties
  <2> QED BY <2>1, <2>3 DEF Valid, D
<1>3. \A x \in DOMAIN FirstItems(D.tables[j]) :
        FirstItems(D.tables[j])[x] = IF D.tables[j].init = 0 THEN Null ELSE Own(I, D.tables[j].init)
  BY DEF FirstItems, Repeat
<1> QED BY <1>2, <1>3 DEF Own

\* The cache holds what it held, or items of the new instance.
LEMMA NewCacheIs ==
  ASSUME TypeInv, RefInv, cur.phase = "import"
  PROVE  /\ DOMAIN NewCache = DOMAIN D.elems
         /\ \A g \in DOMAIN D.elems :
              /\ NewCache[g] \in Seq(Ref)
              /\ \A x \in DOMAIN NewCache[g] :
                   \/ x \in DOMAIN ecache[insts[I].mod][g]
                      /\ NewCache[g][x] = ecache[insts[I].mod][g][x]
                   \/ D.elems[g].expr /\ NewCache[g][x][1] = I
                      /\ NewCache[g][x][2] \in Space(insts[I].mod, "func")
<1>1. I \in DOMAIN insts /\ insts[I].mod \in DOMAIN Mods /\ I \in Nat BY CurIs, InstsAre DEF InstT
<1>2. DOMAIN NewCache = DOMAIN D.elems BY DEF NewCache
<1>3. ASSUME NEW g \in DOMAIN D.elems
      PROVE  /\ NewCache[g] \in Seq(Ref)
             /\ \A x \in DOMAIN NewCache[g] :
                   \/ x \in DOMAIN ecache[insts[I].mod][g]
                      /\ NewCache[g][x] = ecache[insts[I].mod][g][x]
                   \/ D.elems[g].expr /\ NewCache[g][x][1] = I
                      /\ NewCache[g][x][2] \in Space(insts[I].mod, "func")
  <2>1. Valid(insts[I].mod) BY <1>1, LinkingMods
  <2>2. D.elems[g].items \in Seq(Space(insts[I].mod, "func")) BY <2>1 DEF Valid, D
  <2> DEFINE its == Items(I, D.elems[g]) n == Len(D.elems[g].items)
  <2>3. n \in Nat /\ \A x \in 1 .. n : D.elems[g].items[x] \in Space(insts[I].mod, "func")
    BY <2>2, LenProperties, ElementOfSeq
  <2>4. Space(insts[I].mod, "func") \subseteq Int BY DEF Space
  <2>5. its \in [1 .. n -> Ref] BY <1>1, <2>3, <2>4 DEF Items, Own, Ref
  <2>6. its \in Seq(Ref) /\ DOMAIN its = 1 .. n BY <2>3, <2>5, Tabulated
  <2>7. \A x \in DOMAIN its : its[x][1] = I /\ its[x][2] \in Space(insts[I].mod, "func")
    BY <2>3, <2>6 DEF Items, Own
  <2>8. ecache[insts[I].mod][g] \in Seq(Ref) BY <1>1 DEF RefInv, CacheExists, D
  <2>9. (D.elems[g].expr /\ NewCache[g] = its) \/ NewCache[g] = ecache[insts[I].mod][g]
    BY DEF NewCache
  <2> HIDE DEF its
  <2> QED BY <2>6, <2>7, <2>8, <2>9
<1> QED BY <1>2, <1>3

\* New tables are filled with null.
LEMMA DefineRefs ==
  ASSUME TypeInv, RefInv, Define
  PROVE  RefInv'
<1>1. /\ cur.phase = "import" /\ cur.phase # "idle" /\ cur.k > Len(D.imports)
      /\ blocks' = blocks \o NewBlocks BY DefinedIs
<1>2. /\ I \in DOMAIN insts /\ insts[I].mod \in DOMAIN Mods BY <1>1, CurIs DEF InstT
<1>3. /\ DOMAIN blocks' = 1 .. Len(blocks) + Len(D.tables) /\ DOMAIN blocks = 1 .. Len(blocks)
      /\ Len(blocks) \in Nat /\ Len(D.tables) \in Nat
      /\ \A b \in DOMAIN blocks : blocks'[b] = blocks[b]
      /\ \A j \in 1 .. Len(D.tables) : blocks'[Len(blocks) + j].els = FirstItems(D.tables[j])
  BY <1>1, NewBlocksAre
<1>4. CASE insts' = [insts EXCEPT ![I].out = "uninstantiable"] /\ UNCHANGED ecache
  <2>1. Kept /\ \A j \in DOMAIN insts : insts'[j].elem_alive = insts[j].elem_alive
    BY <1>2, <1>4, OutSet DEF Outs
  <2>2. Writes BY <1>3 DEF Writes
  <2> QED BY <1>4, <2>1, <2>2, RefKept
<1>5. CASE DefinesOwn
  <2>1. DOMAIN insts' = DOMAIN insts /\ \A j \in DOMAIN insts :
          /\ DOMAIN insts[j].funcs \subseteq DOMAIN insts'[j].funcs
          /\ insts[j].jit_mem0 => insts'[j].jit_mem0
          /\ insts'[j].elem_alive = insts[j].elem_alive /\ insts'[j].mod = insts[j].mod
    BY <1>5 DEF DefinesOwn
  <2>2. Extends(insts, insts') BY <2>1 DEF Extends
  <2>3. \A r : r[1] = I /\ r[2] \in Space(insts[I].mod, "func") => Exists(r, insts')
    BY <1>2, <1>5 DEF DefinesOwn, Exists
  <2>4. FuncsExist'
    <3>1. \A j \in DOMAIN insts : \A f \in DOMAIN insts'[j].funcs :
            \/ f \in DOMAIN insts[j].funcs /\ insts'[j].funcs[f] = insts[j].funcs[f]
            \/ insts'[j].funcs[f].inst = I
      BY <1>5 DEF DefinesOwn
    <3>2. \A j \in DOMAIN insts : \A f \in DOMAIN insts'[j].funcs :
            insts'[j].funcs[f].inst \in DOMAIN insts /\ insts'[insts'[j].funcs[f].inst].jit_mem0
      <4>1. insts'[I].jit_mem0 BY <1>5 DEF DefinesOwn
      <4> QED BY <1>2, <2>1, <3>1, <4>1 DEF RefInv, FuncsExist
    <3> QED BY <2>1, <3>2 DEF FuncsExist
  <2>5. RefsExist'
    <3>1. \A j \in DOMAIN insts : \A l \in DOMAIN insts'[j].tabs :
            \/ l \in DOMAIN insts[j].tabs /\ insts'[j].tabs[l] = insts[j].tabs[l]
            \/ \E t \in 1 .. Len(D.tables) :
                 insts'[j].tabs[l] = NewTable(t, Len(blocks) + t, Len(want) + t)
      <4> SUFFICES ASSUME NEW j \in DOMAIN insts, NEW l \in DOMAIN insts'[j].tabs
                   PROVE  \/ l \in DOMAIN insts[j].tabs /\ insts'[j].tabs[l] = insts[j].tabs[l]
                          \/ \E t \in 1 .. Len(D.tables) :
                               insts'[j].tabs[l] = NewTable(t, Len(blocks) + t, Len(want) + t)
        OBVIOUS
      <4>1. j # I => insts'[j] = insts[j] BY <1>5 DEF DefinesOwn
      <4>2. CASE j # I BY <4>1, <4>2
      <4>3. CASE j = I BY <1>5, <4>3, ZenonT(30) DEF DefinesOwn
      <4> QED BY <4>2, <4>3
    <3> SUFFICES ASSUME NEW j \in DOMAIN insts, NEW l \in DOMAIN insts'[j].tabs, NEW b,
                        b = insts'[j].tabs[l].blk, NEW x \in DOMAIN blocks'[b].els
                 PROVE  Exists(blocks'[b].els[x], insts')
      BY <2>1 DEF RefsExist
    <3>2. CASE l \in DOMAIN insts[j].tabs /\ insts'[j].tabs[l] = insts[j].tabs[l]
      <4>1. b = insts[j].tabs[l].blk BY <3>2
      <4>2. b \in DOMAIN blocks BY <3>2, <4>1, BlocksAre
      <4>3. blocks'[b] = blocks[b] BY <4>2, <1>3
      <4>4. Exists(blocks[b].els[x], insts) BY <3>2, <4>1, <4>3 DEF RefInv, RefsExist
      <4> QED BY <4>3, <4>4, <2>2, ExistsStays
    <3>3. ASSUME NEW t \in 1 .. Len(D.tables),
                 insts'[j].tabs[l] = NewTable(t, Len(blocks) + t, Len(want) + t)
          PROVE  Exists(blocks'[b].els[x], insts')
      <4>1. b = Len(blocks) + t BY <3>3 DEF NewTable
      <4>2. blocks'[b].els = FirstItems(D.tables[t]) BY <4>1, <1>3
      <4>3. blocks'[b].els[x] = Null \/ (blocks'[b].els[x][1] = I
                /\ blocks'[b].els[x][2] \in Space(insts[I].mod, "func"))
        BY <4>2, <1>1, FirstItemsAre
      <4>4. CASE blocks'[b].els[x] = Null BY <4>4 DEF Exists
      <4> QED BY <4>3, <4>4, <2>3
    <3> QED BY <3>1, <3>2, <3>3
  <2>6. CacheExists'
    <3>1. ecache' = [ecache EXCEPT ![insts[I].mod] = NewCache] BY <1>5 DEF DefinesOwn
    <3>2. DOMAIN ecache' = DOMAIN Mods /\ insts[I].mod \in DOMAIN ecache
      BY <1>2, <3>1 DEF RefInv, CacheExists
    <3>3. ASSUME NEW m \in DOMAIN Mods, m # insts[I].mod
          PROVE  /\ DOMAIN ecache'[m] = DOMAIN Mods[m].elems
                 /\ \A g \in DOMAIN Mods[m].elems :
                      /\ ecache'[m][g] \in Seq(Ref)
                      /\ \A x \in DOMAIN ecache'[m][g] : Exists(ecache'[m][g][x], insts')
      <4>1. ecache'[m] = ecache[m] BY <3>1, <3>2, <3>3 DEF RefInv, CacheExists
      <4>2. /\ DOMAIN ecache[m] = DOMAIN Mods[m].elems
            /\ \A g \in DOMAIN Mods[m].elems :
                 ecache[m][g] \in Seq(Ref) /\ \A x \in DOMAIN ecache[m][g] : Exists(ecache[m][g][x], insts)
        BY DEF RefInv, CacheExists
      <4>3. \A g \in DOMAIN Mods[m].elems : \A x \in DOMAIN ecache[m][g] :
              Exists(ecache[m][g][x], insts') BY <4>2, <2>2, ExistsStays
      <4> QED BY <4>1, <4>2, <4>3
    <3>4. /\ DOMAIN NewCache = DOMAIN D.elems
          /\ \A g \in DOMAIN D.elems :
               /\ NewCache[g] \in Seq(Ref)
               /\ \A x \in DOMAIN NewCache[g] : Exists(NewCache[g][x], insts')
      <4>1. DOMAIN NewCache = DOMAIN D.elems BY <1>1, NewCacheIs
      <4>2. \A g \in DOMAIN D.elems : NewCache[g] \in Seq(Ref) BY <1>1, NewCacheIs
      <4>3. ASSUME NEW g \in DOMAIN D.elems, NEW x \in DOMAIN NewCache[g], NEW y, y = NewCache[g][x]
            PROVE  Exists(y, insts')
        <5>1. \/ x \in DOMAIN ecache[insts[I].mod][g] /\ y = ecache[insts[I].mod][g][x]
              \/ y[1] = I /\ y[2] \in Space(insts[I].mod, "func")
          BY <1>1, <4>3, NewCacheIs
        <5>2. CASE x \in DOMAIN ecache[insts[I].mod][g] /\ y = ecache[insts[I].mod][g][x]
          <6>1. Exists(y, insts) BY <1>2, <5>2 DEF RefInv, CacheExists, D
          <6> QED BY <6>1, <2>2, ExistsStays
        <5>3. CASE y[1] = I /\ y[2] \in Space(insts[I].mod, "func") BY <5>3, <2>3
        <5> QED BY <5>1, <5>2, <5>3
      <4> QED BY <4>1, <4>2, <4>3
    <3>5. ecache'[insts[I].mod] = NewCache BY <3>1, <3>2
    <3>6. D = Mods[insts[I].mod] BY DEF D
    <3> QED BY <3>2, <3>3, <3>4, <3>5, <3>6 DEF CacheExists
  <2>7. AliveFits' BY <2>1 DEF RefInv, AliveFits
  <2> QED BY <2>4, <2>5, <2>6, <2>7 DEF RefInv
<1> QED BY <1>4, <1>5, DefinedIs

\* The instructions of instance i, one by one.
LEMMA RunIs ==
  ASSUME TypeInv, RefInv, NEW i \in Runs, Run(i)
  PROVE  /\ i \in DOMAIN insts /\ insts[i].jit_mem0
         /\ \/ \E k \in DOMAIN insts[i].tabs, x \in Nat, e \in Engines : \E ty :
                 /\ x \in Operands(insts[i].tabs[k].is64)
                 /\ TableGet(i, k, x) \/ CallIndirect(e, i, k, x, ty)
            \/ \E k \in DOMAIN insts[i].tabs, x \in Nat, r \in Refs(i) :
                 x \in Operands(insts[i].tabs[k].is64) /\ TableSet(i, k, x, r)
            \/ \E k \in DOMAIN insts[i].tabs, x \in Nat, n \in Nat, r \in Refs(i), e \in Engines :
                 /\ x \in Operands(insts[i].tabs[k].is64) /\ n \in Operands(insts[i].tabs[k].is64)
                 /\ TableFill(e, i, k, x, n, r)
            \/ \E k \in DOMAIN insts[i].tabs, j \in DOMAIN insts[i].tabs,
                  d \in Nat, s \in Nat, n \in Nat, e \in Engines :
                 /\ d \in Operands(insts[i].tabs[k].is64) /\ s \in Operands(insts[i].tabs[j].is64)
                 /\ n \in Operands(insts[i].tabs[k].is64) /\ n \in Operands(insts[i].tabs[j].is64)
                 /\ TableCopy(e, i, k, j, d, s, n)
            \/ \E k \in DOMAIN insts[i].tabs, g \in DOMAIN insts[i].elem_alive,
                  d \in Nat, s \in Nat, n \in Nat, e \in Engines :
                 /\ d \in Operands(insts[i].tabs[k].is64) /\ s \in Operands(FALSE) /\ n \in Operands(FALSE)
                 /\ TableInit(e, i, k, g, d, s, n)
            \/ \E k \in DOMAIN insts[i].tabs, delta \in Nat, r \in Refs(i) :
                 delta \in Operands(insts[i].tabs[k].is64) /\ TableGrow(i, k, delta, r)
            \/ \E g \in DOMAIN insts[i].elem_alive : ElemDrop(i, g)
            \/ \E k \in DOMAIN insts[i].mems, delta \in Deltas : MemoryGrow(i, k, delta)
<1>1. i \in DOMAIN insts /\ insts[i].jit_mem0 BY RunsExist
<1>2. \A b : Operands(b) \subseteq Nat BY OperandNat
<1>3. Deltas \subseteq Nat BY LinkingMods
<1>4. CASE \E g \in DOMAIN insts[i].elem_alive : ElemDrop(i, g) BY <1>1, <1>4
<1>5. CASE \E k \in DOMAIN insts[i].mems, delta \in Deltas : MemoryGrow(i, k, delta) BY <1>1, <1>5
<1>6. ASSUME NEW k \in DOMAIN insts[i].tabs, NEW R, R = Operands(insts[i].tabs[k].is64),
             NEW x \in Idx \cap R,
             \/ TableGet(i, k, x)
             \/ \E r \in Refs(i) : TableSet(i, k, x, r)
             \/ \E e \in Engines, ty \in FuncTypes : CallIndirect(e, i, k, x, ty)
      PROVE  \/ \E y \in Nat, e \in Engines : \E ty :
                  /\ y \in Operands(insts[i].tabs[k].is64)
                  /\ TableGet(i, k, y) \/ CallIndirect(e, i, k, y, ty)
             \/ \E y \in Nat, r \in Refs(i) :
                  y \in Operands(insts[i].tabs[k].is64) /\ TableSet(i, k, y, r)
  <2>1. x \in Nat /\ x \in R /\ x \in Operands(insts[i].tabs[k].is64) BY <1>2, <1>6
  <2>2. "jit" \in Engines BY DEF Engines
  <2>3. CASE TableGet(i, k, x)
    <3>1. \A ty : TableGet(i, k, x) \/ CallIndirect("jit", i, k, x, ty) BY <2>3
    <3> QED BY <3>1, <2>1, <2>2
  <2>4. CASE \E r \in Refs(i) : TableSet(i, k, x, r)
    <3>1. PICK r \in Refs(i) : TableSet(i, k, x, r) BY <2>4
    <3>2. x \in Operands(insts[i].tabs[k].is64) BY <2>1, <1>6
    <3> QED BY <2>1, <3>1, <3>2
  <2>5. CASE \E e \in Engines, ty \in FuncTypes : CallIndirect(e, i, k, x, ty)
    <3>1. PICK e \in Engines, ty \in FuncTypes : CallIndirect(e, i, k, x, ty) BY <2>5
    <3>2. /\ x \in Operands(insts[i].tabs[k].is64)
          /\ TableGet(i, k, x) \/ CallIndirect(e, i, k, x, ty) BY <2>1, <3>1
    <3>3. \E tz : TableGet(i, k, x) \/ CallIndirect(e, i, k, x, tz) BY <3>2
    <3> QED BY <2>1, <3>3
  <2> QED BY <2>3, <2>4, <2>5, <1>6
<1>7. ASSUME NEW k \in DOMAIN insts[i].tabs, NEW R, R = Operands(insts[i].tabs[k].is64),
             NEW e \in Engines, NEW d \in Idx \cap R,
             \E r \in Refs(i), n \in Lens \cap R : TableFill(e, i, k, d, n, r)
      PROVE  \E y \in Nat, n \in Nat, r \in Refs(i) :
               /\ y \in Operands(insts[i].tabs[k].is64) /\ n \in Operands(insts[i].tabs[k].is64)
               /\ TableFill(e, i, k, y, n, r)
  <2>1. d \in Nat /\ d \in R BY <1>2, <1>7
  <2>2. PICK r \in Refs(i), n \in Lens \cap R : TableFill(e, i, k, d, n, r) BY <1>7
  <2>3. n \in Nat /\ n \in R BY <1>2, <1>7
  <2> QED BY <2>1, <2>2, <2>3, <1>7
<1>8. ASSUME NEW k \in DOMAIN insts[i].tabs, NEW R, R = Operands(insts[i].tabs[k].is64),
             NEW e \in Engines, NEW d \in Idx \cap R, NEW j \in DOMAIN insts[i].tabs,
             NEW Q, Q = Operands(insts[i].tabs[j].is64),
             \E s \in Idx \cap Q, n \in Lens \cap Q \cap R : TableCopy(e, i, k, j, d, s, n)
      PROVE  \E y \in Nat, s \in Nat, n \in Nat :
                 /\ y \in Operands(insts[i].tabs[k].is64) /\ s \in Operands(insts[i].tabs[j].is64)
                 /\ n \in Operands(insts[i].tabs[k].is64) /\ n \in Operands(insts[i].tabs[j].is64)
                 /\ TableCopy(e, i, k, j, y, s, n)
  <2>1. d \in Nat /\ d \in R BY <1>2, <1>8
  <2>2. PICK s \in Idx \cap Q, n \in Lens \cap Q \cap R : TableCopy(e, i, k, j, d, s, n) BY <1>8
  <2>3. n \in Nat /\ n \in R /\ n \in Q /\ s \in Nat /\ s \in Q BY <1>2, <1>8
  <2> QED BY <2>1, <2>2, <2>3, <1>8
<1>9. ASSUME NEW k \in DOMAIN insts[i].tabs, NEW R, R = Operands(insts[i].tabs[k].is64),
             NEW e \in Engines, NEW d \in Idx \cap R, NEW W, W = Operands(FALSE),
             \E s \in Idx \cap W, n \in Lens \cap W, g \in DOMAIN insts[i].elem_alive :
                TableInit(e, i, k, g, d, s, n)
      PROVE  \E g \in DOMAIN insts[i].elem_alive, y \in Nat, s \in Nat, n \in Nat :
                 /\ y \in Operands(insts[i].tabs[k].is64) /\ s \in Operands(FALSE) /\ n \in Operands(FALSE)
                 /\ TableInit(e, i, k, g, y, s, n)
  <2>1. d \in Nat /\ d \in R BY <1>2, <1>9
  <2>2. PICK s \in Idx \cap W, n \in Lens \cap W, g \in DOMAIN insts[i].elem_alive :
          TableInit(e, i, k, g, d, s, n) BY <1>9
  <2>3. n \in Nat /\ n \in W /\ s \in Nat /\ s \in W BY <1>2, <1>9
  <2> QED BY <2>1, <2>2, <2>3, <1>9
<1>10. ASSUME NEW k \in DOMAIN insts[i].tabs, NEW R, R = Operands(insts[i].tabs[k].is64),
              NEW delta \in Deltas \cap R
       PROVE  delta \in Nat /\ delta \in Operands(insts[i].tabs[k].is64)
  BY <1>2, <1>10
<1>11. ASSUME NEW k \in DOMAIN insts[i].tabs, TableOp(i, k)
       PROVE  \/ \E x \in Nat, e \in Engines : \E ty :
                   /\ x \in Operands(insts[i].tabs[k].is64)
                   /\ TableGet(i, k, x) \/ CallIndirect(e, i, k, x, ty)
              \/ \E x \in Nat, r \in Refs(i) :
                   x \in Operands(insts[i].tabs[k].is64) /\ TableSet(i, k, x, r)
              \/ \E x \in Nat, n \in Nat, r \in Refs(i), e \in Engines :
                   /\ x \in Operands(insts[i].tabs[k].is64) /\ n \in Operands(insts[i].tabs[k].is64)
                   /\ TableFill(e, i, k, x, n, r)
              \/ \E j \in DOMAIN insts[i].tabs, d \in Nat, s \in Nat, n \in Nat, e \in Engines :
                   /\ d \in Operands(insts[i].tabs[k].is64) /\ s \in Operands(insts[i].tabs[j].is64)
                   /\ n \in Operands(insts[i].tabs[k].is64) /\ n \in Operands(insts[i].tabs[j].is64)
                   /\ TableCopy(e, i, k, j, d, s, n)
              \/ \E g \in DOMAIN insts[i].elem_alive, d \in Nat, s \in Nat, n \in Nat, e \in Engines :
                   /\ d \in Operands(insts[i].tabs[k].is64) /\ s \in Operands(FALSE) /\ n \in Operands(FALSE)
                   /\ TableInit(e, i, k, g, d, s, n)
              \/ \E delta \in Nat, r \in Refs(i) :
                   delta \in Operands(insts[i].tabs[k].is64) /\ TableGrow(i, k, delta, r)
  <2> DEFINE R == Operands(insts[i].tabs[k].is64) W == Operands(FALSE)
             Q(j) == Operands(insts[i].tabs[j].is64)
  <2>1. \/ \E x \in Idx \cap R : \/ TableGet(i, k, x)
                                 \/ \E r \in Refs(i) : TableSet(i, k, x, r)
                                 \/ \E e \in Engines, ty \in FuncTypes : CallIndirect(e, i, k, x, ty)
        \/ \E e \in Engines, d \in Idx \cap R :
             \E r \in Refs(i), n \in Lens \cap R : TableFill(e, i, k, d, n, r)
        \/ \E e \in Engines, d \in Idx \cap R, j \in DOMAIN insts[i].tabs :
             \E s \in Idx \cap Q(j), n \in Lens \cap Q(j) \cap R : TableCopy(e, i, k, j, d, s, n)
        \/ \E e \in Engines, d \in Idx \cap R :
             \E s \in Idx \cap W, n \in Lens \cap W, g \in DOMAIN insts[i].elem_alive :
               TableInit(e, i, k, g, d, s, n)
        \/ \E delta \in Deltas \cap R, r \in Refs(i) : TableGrow(i, k, delta, r)
    BY <1>11 DEF TableOp
  <2>2. R = Operands(insts[i].tabs[k].is64) /\ W = Operands(FALSE)
        /\ \A j : Q(j) = Operands(insts[i].tabs[j].is64) OBVIOUS
  <2> HIDE DEF R, W, Q
  <2>3. CASE \E x \in Idx \cap R : \/ TableGet(i, k, x)
                                   \/ \E r \in Refs(i) : TableSet(i, k, x, r)
                                   \/ \E e \in Engines, ty \in FuncTypes : CallIndirect(e, i, k, x, ty)
    BY <1>6, <2>2, <2>3
  <2>4. CASE \E e \in Engines, d \in Idx \cap R :
               \E r \in Refs(i), n \in Lens \cap R : TableFill(e, i, k, d, n, r)
    <3>1. PICK e \in Engines, d \in Idx \cap R :
            \E r \in Refs(i), n \in Lens \cap R : TableFill(e, i, k, d, n, r) BY <2>4
    <3>2. \E y \in Nat, n \in Nat, r \in Refs(i) :
             /\ y \in Operands(insts[i].tabs[k].is64) /\ n \in Operands(insts[i].tabs[k].is64)
             /\ TableFill(e, i, k, y, n, r) BY <1>7, <2>2, <3>1
    <3> QED BY <3>2
  <2>5. CASE \E e \in Engines, d \in Idx \cap R, j \in DOMAIN insts[i].tabs :
               \E s \in Idx \cap Q(j), n \in Lens \cap Q(j) \cap R : TableCopy(e, i, k, j, d, s, n)
    <3>1. PICK e \in Engines, d \in Idx \cap R, j \in DOMAIN insts[i].tabs :
            \E s \in Idx \cap Q(j), n \in Lens \cap Q(j) \cap R : TableCopy(e, i, k, j, d, s, n)
      BY <2>5
    <3>2. \E y \in Nat, s \in Nat, n \in Nat :
                 /\ y \in Operands(insts[i].tabs[k].is64) /\ s \in Operands(insts[i].tabs[j].is64)
                 /\ n \in Operands(insts[i].tabs[k].is64) /\ n \in Operands(insts[i].tabs[j].is64)
                 /\ TableCopy(e, i, k, j, y, s, n) BY <1>8, <2>2, <3>1
    <3> QED BY <3>2
  <2>6. CASE \E e \in Engines, d \in Idx \cap R :
               \E s \in Idx \cap W, n \in Lens \cap W, g \in DOMAIN insts[i].elem_alive :
                 TableInit(e, i, k, g, d, s, n)
    <3>1. PICK e \in Engines, d \in Idx \cap R :
            \E s \in Idx \cap W, n \in Lens \cap W, g \in DOMAIN insts[i].elem_alive :
               TableInit(e, i, k, g, d, s, n) BY <2>6
    <3>2. \E g \in DOMAIN insts[i].elem_alive, y \in Nat, s \in Nat, n \in Nat :
                 /\ y \in Operands(insts[i].tabs[k].is64) /\ s \in Operands(FALSE) /\ n \in Operands(FALSE)
                 /\ TableInit(e, i, k, g, y, s, n) BY <1>9, <2>2, <3>1
    <3> QED BY <3>2
  <2>7. CASE \E delta \in Deltas \cap R, r \in Refs(i) : TableGrow(i, k, delta, r)
    BY <1>10, <2>2, <2>7
  <2> QED BY <2>1, <2>3, <2>4, <2>5, <2>6, <2>7
<1>12. CASE \E k \in DOMAIN insts[i].tabs : TableOp(i, k) BY <1>1, <1>11, <1>12
<1> QED BY <1>4, <1>5, <1>12 DEF Run

\* Every instruction.
LEMMA RunStep ==
  ASSUME TypeInv, RefInv, NEW i \in Runs, Run(i)
  PROVE  TypeInv' /\ RefInv'
<1>1. i \in DOMAIN insts /\ insts[i].jit_mem0 BY RunIs
<1>2. \A b : Operands(b) \subseteq Nat BY OperandNat
<1>3. Deltas \subseteq Nat BY LinkingMods
<1>4. CASE \E k \in DOMAIN insts[i].tabs, x \in Nat, e \in Engines : \E ty :
             /\ x \in Operands(insts[i].tabs[k].is64)
             /\ TableGet(i, k, x) \/ CallIndirect(e, i, k, x, ty)
  <2>1. PICK k \in DOMAIN insts[i].tabs, x \in Nat, e \in Engines : \E ty :
          TableGet(i, k, x) \/ CallIndirect(e, i, k, x, ty) BY <1>4
  <2>2. Executes /\ UNCHANGED <<insts, blocks, mems, cells, named, ecache, cur, want, snap>>
    BY <2>1 DEF TableGet, CallIndirect
  <2> QED BY <2>2, ReadStep
<1>5. CASE \E k \in DOMAIN insts[i].tabs, x \in Nat, r \in Refs(i) :
             x \in Operands(insts[i].tabs[k].is64) /\ TableSet(i, k, x, r)
  <2>1. PICK k \in DOMAIN insts[i].tabs, x \in Nat, r \in Refs(i) : TableSet(i, k, x, r) BY <1>5
  <2>2. x \in Int OBVIOUS
  <2> QED BY <1>1, <2>1, <2>2, SetFillSteps
<1>6. CASE \E k \in DOMAIN insts[i].tabs, x \in Nat, n \in Nat, r \in Refs(i), e \in Engines :
             /\ x \in Operands(insts[i].tabs[k].is64) /\ n \in Operands(insts[i].tabs[k].is64)
             /\ TableFill(e, i, k, x, n, r)
  <2>1. PICK k \in DOMAIN insts[i].tabs, x \in Nat, n \in Nat, r \in Refs(i), e \in Engines :
          TableFill(e, i, k, x, n, r) BY <1>6
  <2>2. x \in Int OBVIOUS
  <2> QED BY <1>1, <2>1, <2>2, SetFillSteps
<1>7. CASE \E k \in DOMAIN insts[i].tabs, j \in DOMAIN insts[i].tabs,
                  d \in Nat, s \in Nat, n \in Nat, e \in Engines :
                 /\ d \in Operands(insts[i].tabs[k].is64) /\ s \in Operands(insts[i].tabs[j].is64)
                 /\ n \in Operands(insts[i].tabs[k].is64) /\ n \in Operands(insts[i].tabs[j].is64)
                 /\ TableCopy(e, i, k, j, d, s, n)
  <2>1. PICK k \in DOMAIN insts[i].tabs, j \in DOMAIN insts[i].tabs,
             d \in Nat, s \in Nat, n \in Nat, e \in Engines : TableCopy(e, i, k, j, d, s, n)
    BY <1>7
  <2> QED BY <1>1, <2>1, CopyStep
<1>8. CASE \E k \in DOMAIN insts[i].tabs, g \in DOMAIN insts[i].elem_alive,
                  d \in Nat, s \in Nat, n \in Nat, e \in Engines :
                 /\ d \in Operands(insts[i].tabs[k].is64) /\ s \in Operands(FALSE) /\ n \in Operands(FALSE)
                 /\ TableInit(e, i, k, g, d, s, n)
  <2>1. PICK k \in DOMAIN insts[i].tabs, g \in DOMAIN insts[i].elem_alive,
             d \in Nat, s \in Nat, n \in Nat, e \in Engines : TableInit(e, i, k, g, d, s, n)
    BY <1>8
  <2> QED BY <1>1, <2>1, InitStep
<1>9. CASE \E k \in DOMAIN insts[i].tabs, delta \in Nat, r \in Refs(i) :
             delta \in Operands(insts[i].tabs[k].is64) /\ TableGrow(i, k, delta, r)
  <2>1. PICK k \in DOMAIN insts[i].tabs, delta \in Nat, r \in Refs(i) : TableGrow(i, k, delta, r)
    BY <1>9
  <2> QED BY <1>1, <2>1, TableGrowStep
<1>10. CASE \E g \in DOMAIN insts[i].elem_alive : ElemDrop(i, g) BY <1>1, <1>10, DropStep
<1>11. CASE \E k \in DOMAIN insts[i].mems, delta \in Deltas : MemoryGrow(i, k, delta)
  BY <1>1, <1>11, MemoryGrowStep
<1> QED BY <1>4, <1>5, <1>6, <1>7, <1>8, <1>9, <1>10, <1>11, RunIs

\* The invariant is inductive.
LEMMA LinkingStep ==
  ASSUME TypeInv, RefInv, [Next]_vars
  PROVE  TypeInv' /\ RefInv'
<1>1. ASSUME NEW m \in DOMAIN Mods, Begin(m) PROVE TypeInv' /\ RefInv'
  BY <1>1, BeginType, BeginRefs
<1>2. CASE Import BY <1>2, ImportType, ImportRefs
<1>3. CASE Define BY <1>3, DefineType, DefineRefs
<1>4. CASE Elem BY <1>4, ElemStep
<1>5. CASE Data BY <1>5, DataStep
<1>6. CASE Finish \/ StartEnds("ok") \/ StartEnds("trapped") BY <1>6, FinishStep
<1>7. ASSUME NEW n \in Names, NEW i \in DOMAIN insts, Register(n, i) PROVE TypeInv' /\ RefInv'
  BY <1>7, RegisterStep
<1>8. ASSUME NEW i \in DOMAIN insts, Free(i) PROVE TypeInv' /\ RefInv'
  BY <1>8, FreeStep
<1>9. ASSUME NEW i \in Runs, Run(i) PROVE TypeInv' /\ RefInv'
  BY <1>9, RunStep
<1>10. CASE UNCHANGED vars
  <2>1. UNCHANGED <<insts, blocks, mems, cells, named, cur, want, ops>> /\ UNCHANGED ecache
    BY <1>10 DEF vars
  <2>2. TypeInv' BY <2>1, TypeFrame
  <2>3. RefInv' BY <2>1 DEF RefInv, FuncsExist, RefsExist, CacheExists, AliveFits
  <2> QED BY <2>2, <2>3
<1> QED BY <1>1, <1>2, <1>3, <1>4, <1>5, <1>6, <1>7, <1>8, <1>9, <1>10 DEF Next

\* The linking state stays well formed through every instantiation, complete
\* or abandoned, every free and every instruction: what an instance holds are
\* indices of existing blocks, tables, memories and globals, only the newest
\* instance is unfinished, and only instances that exist are registered
\* (runtime.c:340-668).
THEOREM LinkTypeOK == Spec => []TypeOK
<1>1. Init => TypeInv /\ RefInv BY TypeInit, RefInit
<1>2. TypeInv /\ RefInv /\ [Next]_vars => TypeInv' /\ RefInv' BY LinkingStep
<1>3. TypeInv /\ RefInv => TypeOK BY TypeInvGivesTypeOK
<1> QED BY <1>1, <1>2, <1>3, PTL DEF Spec
=============================================================================
