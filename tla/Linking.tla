------------------------------ MODULE Linking ------------------------------
(***************************************************************************)
(* The store of easm (runtime.c): registered instances, instantiation step *)
(* by step (imports, definitions, element and data segments, the start     *)
(* function) with its failures, and the instructions by which running      *)
(* instances change the objects they share: tables, memories, globals.     *)
(*                                                                         *)
(* Memories and globals are shared by pointer.  A table is not: importing  *)
(* copies the EaTableInst, so an instance's table is a record of its own   *)
(* whose blk is the elems array it shares.  `want' is the store as         *)
(* WebAssembly describes it, with one object per table; it is updated next *)
(* to the code's own state and never read by it.                           *)
(*                                                                         *)
(* A reference to a function is <<i, f>>, the entry f of instance i's      *)
(* funcs.  Memory bytes are the data segment that wrote them, <<i, seg>>.  *)
(* Modules are validated, so constant expressions do not fail.             *)
(***************************************************************************)
EXTENDS Tables, FiniteSets

CONSTANTS
  Mods,        \* module descriptors, by name
  Names,       \* names an instance is registered under
  Page,        \* bytes of a page
  PageLimit,   \* pages of the largest 32-bit memory: 65536
  Reserve,     \* pages of a memory's reservation: 12 GiB
  Idx, Lens, Deltas,  \* operands of instructions: indices, lengths, deltas
  GrowShared,  \* programs grow tables that several EaTableInst records share
  Frees,       \* modules whose instances the host frees
  Once,        \* modules the host instantiates at most once
  MaxInst, MaxOps           \* bounds: instantiations, instructions

ASSUME LinkingBounds ==
  /\ Page \in Nat \ {0} /\ PageLimit \in Nat /\ Reserve \in Nat
  /\ MaxInst \in Nat /\ MaxOps \in Nat /\ GrowShared \in BOOLEAN
  /\ Frees \cup Once \subseteq DOMAIN Mods

----------------------------------------------------------------------------
(* What validation has established of every module (decode.c, validate.c): *)
(* indices are within the imports and definitions of the module, limits    *)
(* are in order.                                                           *)

Kinds == {"func", "table", "memory", "tag", "global"}

Imported(m, kind) ==
  Cardinality({k \in DOMAIN Mods[m].imports : Mods[m].imports[k].kind = kind})
Defined(m, kind) ==
  CASE kind = "func"   -> Len(Mods[m].funcs)
    [] kind = "table"  -> Len(Mods[m].tables)
    [] kind = "memory" -> Len(Mods[m].mems)
    [] kind = "tag"    -> Len(Mods[m].tags)
    [] kind = "global" -> Len(Mods[m].globals)
Space(m, kind) == 1 .. Imported(m, kind) + Defined(m, kind)

LimitsValid(lim, top) ==
  lim.min \in 0 .. top /\ (lim.max # NoMax => lim.max \in lim.min .. top)

ExprValid(ex, n) == IF ex.op = "const" THEN ex.v \in Int ELSE ex.g \in 1 .. n

Valid(m) ==
  LET M == Mods[m]
      sections == {"imports", "funcs", "tables", "mems", "tags", "globals", "elems", "datas"}
  IN  /\ \A s \in sections : M[s] \in Seq({M[s][k] : k \in DOMAIN M[s]})
      /\ \A k \in DOMAIN M.imports : M.imports[k].kind \in Kinds
      /\ \A x \in M.exports : x[1] \in Kinds /\ x[2] \in Space(m, x[1])
      /\ \A k \in DOMAIN M.tables :
           /\ LimitsValid(M.tables[k], IF M.tables[k].is64 THEN M64 - 1 ELSE N32 - 1)
           /\ M.tables[k].is64 \in BOOLEAN
           /\ M.tables[k].init \in {0} \cup Space(m, "func")
      /\ \A k \in DOMAIN M.mems :
           /\ LimitsValid(M.mems[k], IF M.mems[k].is64 THEN M64 - 1 ELSE PageLimit)
           /\ M.mems[k].is64 \in BOOLEAN
      /\ \A k \in DOMAIN M.elems :
           /\ M.elems[k].items \in Seq(Space(m, "func"))
           /\ M.elems[k].mode \in {"active", "passive", "declarative"}
           /\ M.elems[k].mode = "active" =>
                /\ M.elems[k].tab \in Space(m, "table")
                /\ ExprValid(M.elems[k].off, Imported(m, "global") + Defined(m, "global"))
      /\ \A k \in DOMAIN M.datas :
           /\ M.datas[k].len \in Nat
           /\ M.datas[k].mode = "active" =>
                /\ M.datas[k].mem \in Space(m, "memory")
                /\ ExprValid(M.datas[k].off, Imported(m, "global") + Defined(m, "global"))
      \* the check counts imported globals twice (validate.c:922): with some, an
      \* initialiser may read its own global or a later one
      /\ \A k \in DOMAIN M.globals :
           /\ ExprValid(M.globals[k], 2 * Imported(m, "global") + k - 1)
           /\ ExprValid(M.globals[k], Imported(m, "global") + Defined(m, "global"))

ASSUME LinkingMods == Deltas \subseteq Nat /\ \A m \in DOMAIN Mods : Valid(m)

----------------------------------------------------------------------------
VARIABLES
  insts,   \* every EaInstance ever allocated, in order
  blocks,  \* elems arrays: contents, and whether still allocated
  mems,    \* EaMemInst: pages, max, has_max, is64, bytes
  cells,   \* globals
  named,   \* the store's list of <<name, instance>>
  ecache,  \* EaElem.cache of each module's segments
  cur,     \* the instantiation under way
  want,    \* the tables as WebAssembly describes them
  snap,    \* tables and bytes when the instantiation under way began
  last,    \* outcome of the last operation: the code's, WebAssembly's, where
  ops      \* instructions executed

vars == <<insts, blocks, mems, cells, named, ecache, cur, want, snap, last, ops>>

Null == <<0, 0>>
Idle == [inst |-> 0, phase |-> "idle", k |-> 0]
Done(ok, w) == [ok |-> ok, want |-> w, at |-> Idle]
Fails(w) == [ok |-> FALSE, want |-> w, at |-> cur]

I == cur.inst
D == Mods[insts[I].mod]
Own(i, f) == <<i, f>>                          \* &inst->funcs[f]
Items(i, e) == [j \in 1 .. Len(e.items) |-> Own(i, e.items[j])]

\* ea_eval_const_expr over the i32 constants and globals
Eval(globs, cs, ex) == IF ex.op = "const" THEN ex.v ELSE cs[globs[ex.g]]

\* ea_lookup_instance: the first registration of the name counts
Lookup(name) ==
  LET K == {k \in 1 .. Len(named) : named[k][1] = name}
  IN  IF K = {} THEN 0
      ELSE named[CHOOSE k \in K : \A j \in K : k <= j][2]

\* what is in a table as an instance sees it
View(t) ==
  Slice(IF blocks[t.blk].live THEN blocks[t.blk].els ELSE <<>>, 0, t.size)

----------------------------------------------------------------------------
(* Instantiation: ea_store_instantiate.                                    *)

Fresh(m) ==
  [mod |-> m, tabs |-> <<>>, mems |-> <<>>, globs |-> <<>>, funcs |-> <<>>,
   tags |-> <<>>, jit_mem0 |-> FALSE, out |-> "building",
   elem_alive |-> [k \in DOMAIN Mods[m].elems |-> FALSE],
   data_alive |-> [k \in DOMAIN Mods[m].datas |-> FALSE]]

Begin(m) ==
  /\ cur = Idle /\ Len(insts) < MaxInst
  /\ m \in Once => \A i \in DOMAIN insts : insts[i].mod # m
  /\ insts' = Append(insts, Fresh(m))
  /\ cur' = [inst |-> Len(insts) + 1, phase |-> "import", k |-> 1]
  /\ snap' = [tabs |-> want,
              bytes |-> [a \in 1 .. Len(mems) |-> mems[a].bytes]]
  /\ last' = Done(TRUE, TRUE)
  /\ UNCHANGED <<blocks, mems, cells, named, ecache, want, ops>>

Step(phase, k) == cur' = [cur EXCEPT !.phase = phase, !.k = k]

\* the instance is abandoned where it stands: `unlinkable', `uninstantiable'
Abandon(how, w) ==
  /\ insts' = [insts EXCEPT ![I].out = how]
  /\ cur' = Idle
  /\ last' = Fails(w)

LimitsFit(is64, size, max, has_max, im) ==
  /\ is64 = im.is64 /\ size >= im.min
  /\ im.max # NoMax => has_max /\ max <= im.max

\* ea_instance_export finds the name
Exports(src, kind, idx) == src # 0 /\ <<kind, idx>> \in Mods[insts[src].mod].exports

\* the export exists and its type matches the import
ImportOK(src, im) ==
  LET X == insts[src]
  IN  /\ Exports(src, im.kind, im.idx)
      /\ CASE im.kind = "func"   -> X.funcs[im.idx].type = im.type
           [] im.kind = "table"  ->
                LET t == X.tabs[im.idx]
                IN  LimitsFit(t.is64, t.size, t.max, t.has_max, im)
           [] im.kind = "memory" ->
                LET a == mems[X.mems[im.idx]]
                IN  LimitsFit(a.is64, a.pages, IF a.has_max THEN a.max ELSE PageLimit,
                              a.has_max \/ im.max >= PageLimit, im)
           [] im.kind = "tag"    -> X.tags[im.idx].type = im.type
           [] im.kind = "global" -> Mods[X.mod].mut[im.idx] = im.mut

\* the same, with the size the table really has
WantImport(src, im) ==
  LET t == insts[src].tabs[im.idx]
  IN  IF im.kind = "table" /\ Exports(src, "table", im.idx)
      THEN LimitsFit(t.is64, Len(want[t.tid]), t.max, t.has_max, im)
      ELSE ImportOK(src, im)

\* functions, tables and tags are copied, memories and globals are aliased
Linked(X, S, im) ==
  CASE im.kind = "func"   -> [X EXCEPT !.funcs = Append(@, S.funcs[im.idx])]
    [] im.kind = "table"  -> [X EXCEPT !.tabs = Append(@, S.tabs[im.idx])]
    [] im.kind = "memory" -> [X EXCEPT !.mems = Append(@, S.mems[im.idx])]
    [] im.kind = "tag"    -> [X EXCEPT !.tags = Append(@, S.tags[im.idx])]
    [] im.kind = "global" -> [X EXCEPT !.globs = Append(@, S.globs[im.idx])]

Import ==
  /\ cur.phase = "import" /\ cur.k <= Len(D.imports)
  /\ LET im == D.imports[cur.k]
         src == Lookup(im.from)
     IN  IF ImportOK(src, im)
         THEN /\ insts' = [insts EXCEPT ![I] = Linked(@, insts[src], im)]
              /\ Step("import", cur.k + 1)
              /\ last' = Done(TRUE, WantImport(src, im))
         ELSE Abandon("unlinkable", WantImport(src, im))
  /\ UNCHANGED <<blocks, mems, cells, named, ecache, want, snap, ops>>

NewTable(k, b, tid) ==
  LET t == D.tables[k]
  IN  [is64 |-> t.is64, size |-> t.min, max |-> StoredMax(t.max, t.is64),
       has_max |-> t.max # NoMax, blk |-> b, tid |-> tid]

\* null, or what the table's initialiser evaluates to
FirstItems(t) == Repeat(IF t.init = 0 THEN Null ELSE Own(I, t.init), t.min)

NewMem(a) ==
  [pages |-> a.min, max |-> IF a.max # NoMax THEN a.max ELSE PageLimit,
   has_max |-> a.max # NoMax, is64 |-> a.is64, live |-> TRUE,
   bytes |-> Repeat(Null, a.min * Page)]

\* globals are allocated as zeros, then initialised in order
NewCells(globs) ==
  LET f[k \in 0 .. Len(D.globals)] ==
        IF k = 0 THEN cells \o Repeat(0, Len(D.globals))
        ELSE [f[k - 1] EXCEPT ![Len(cells) + k] = Eval(globs, f[k - 1], D.globals[k])]
  IN  f[Len(D.globals)]

\* elem item cache: filled by the first instance of the module
NewCache == [g \in DOMAIN D.elems |->
               IF ecache[insts[I].mod][g] = <<>> /\ D.elems[g].expr
               THEN Items(I, D.elems[g]) ELSE ecache[insts[I].mod][g]]

\* jit_mem0 is set here, before any segment or the start function runs
JitFieldsLater(X) == X
JitFields(X) == [X EXCEPT !.jit_mem0 = TRUE]

Define ==
  /\ cur.phase = "import" /\ cur.k > Len(D.imports)
  /\ LET X     == insts[I]
         globs == X.globs \o [k \in 1 .. Len(D.globals) |-> Len(cells) + k]
         tabs  == [k \in 1 .. Len(D.tables) |->
                     NewTable(k, Len(blocks) + k, Len(want) + k)]
         els   == [k \in 1 .. Len(D.tables) |-> FirstItems(D.tables[k])]
         funcs == [k \in 1 .. Len(D.funcs) |-> [inst |-> I, type |-> D.funcs[k]]]
     IN  /\ cells' = NewCells(globs)
         /\ blocks' = blocks \o [k \in 1 .. Len(els) |-> [live |-> TRUE, els |-> els[k]]]
         /\ want' = want \o els
         /\ \/ /\ mems' = mems \o [k \in 1 .. Len(D.mems) |-> NewMem(D.mems[k])]
               /\ insts' = [insts EXCEPT ![I] = JitFields([X EXCEPT
                              !.globs = globs, !.funcs = @ \o funcs, !.tabs = @ \o tabs,
                              !.tags = @ \o [k \in DOMAIN D.tags |-> [ident |-> <<I, k>>, type |-> D.tags[k]]],
                              !.mems = @ \o [k \in 1 .. Len(D.mems) |-> Len(mems) + k]])]
               /\ ecache' = [ecache EXCEPT ![X.mod] = NewCache]
               /\ Step("elem", 1)
               /\ last' = Done(TRUE, TRUE)
            \/ /\ D.mems # <<>>       \* mmap fails: out of memory
               /\ Abandon("uninstantiable", FALSE)
               /\ UNCHANGED <<mems, ecache>>
  /\ UNCHANGED <<named, snap, ops>>

\* the range is tested before the first item is stored
StoreUntilOverrun(bs, t, off, items) == [bs EXCEPT ![t.blk].els = Stored(@, off, items)]
OnOverrun(bs, t, off, items) == bs

Elem ==
  /\ cur.phase = "elem" /\ cur.k <= Len(D.elems)
  /\ LET e   == D.elems[cur.k]
         t   == insts[I].tabs[e.tab]
         off == Eval(insts[I].globs, cells, e.off) % N32
         n   == Len(e.items)
         w   == InRange(Len(want[t.tid]), off, n)
     IN  \/ /\ e.mode = "declarative"
            /\ Step("elem", cur.k + 1)
            /\ UNCHANGED <<insts, blocks, want, last>>
         \/ /\ e.mode = "passive"
            /\ insts' = [insts EXCEPT ![I].elem_alive[cur.k] = TRUE]
            /\ Step("elem", cur.k + 1)
            /\ UNCHANGED <<blocks, want, last>>
         \/ /\ e.mode = "active" /\ ActiveOK(t, off, n)
            /\ blocks' = [blocks EXCEPT ![t.blk].els = Stored(@, off, Items(I, e))]
            /\ want' = IF w THEN [want EXCEPT ![t.tid] = Stored(@, off, Items(I, e))]
                       ELSE want
            /\ last' = Done(TRUE, w)
            /\ Step("elem", cur.k + 1)
            /\ UNCHANGED insts
         \/ /\ e.mode = "active" /\ ~ActiveOK(t, off, n)
            /\ Abandon("uninstantiable", w)
            /\ blocks' = OnOverrun(blocks, t, off, Items(I, e))
            /\ UNCHANGED want
  /\ UNCHANGED <<mems, cells, named, ecache, snap, ops>>

\* data segments follow the element segments
Data ==
  /\ \/ cur.phase = "elem" /\ cur.k > Len(D.elems)
     \/ cur.phase = "data"
  /\ LET k == IF cur.phase = "elem" THEN 1 ELSE cur.k
         d == D.datas[k]
         a == insts[I].mems[d.mem]
         off == Eval(insts[I].globs, cells, d.off) % N32
         len == mems[a].pages * Page
         fits == d.len <= len /\ off <= len - d.len
     IN  /\ k <= Len(D.datas)
         /\ \/ /\ d.mode # "active"
               /\ insts' = [insts EXCEPT ![I].data_alive[k] = TRUE]
               /\ Step("data", k + 1)
               /\ UNCHANGED <<mems, last>>
            \/ /\ d.mode = "active" /\ fits
               /\ mems' = [mems EXCEPT ![a].bytes = Stored(@, off, Repeat(<<I, k>>, d.len))]
               /\ Step("data", k + 1)
               /\ last' = Done(TRUE, TRUE)
               /\ UNCHANGED insts
            \/ /\ d.mode = "active" /\ ~fits
               /\ insts' = [insts EXCEPT ![I].out = "uninstantiable"]
               /\ cur' = Idle
               /\ last' = [ok |-> FALSE, want |-> FALSE,
                           at |-> [cur EXCEPT !.phase = "data", !.k = k]]
               /\ UNCHANGED mems
  /\ UNCHANGED <<blocks, cells, named, ecache, want, snap, ops>>

SegmentsDone ==
  \/ cur.phase = "elem" /\ cur.k > Len(D.elems) /\ D.datas = <<>>
  \/ cur.phase = "data" /\ cur.k > Len(D.datas)

\* *out is set; the start function, if any, runs as instructions of the
\* instance until it returns or traps
Finish ==
  /\ SegmentsDone
  /\ IF D.start THEN Step("start", 1) /\ UNCHANGED insts
     ELSE cur' = Idle /\ insts' = [insts EXCEPT ![I].out = "ok"]
  /\ last' = Done(TRUE, TRUE)
  /\ UNCHANGED <<blocks, mems, cells, named, ecache, want, snap, ops>>

StartEnds(how) ==
  /\ cur.phase = "start"
  /\ cur' = Idle /\ insts' = [insts EXCEPT ![I].out = how]
  /\ last' = Done(TRUE, TRUE)
  /\ UNCHANGED <<blocks, mems, cells, named, ecache, want, snap, ops>>

\* ea_register_instance
Register(name, i) ==
  /\ cur = Idle /\ insts[i].out = "ok" /\ Len(named) < MaxInst
  /\ named' = Append(named, <<name, i>>)
  /\ last' = Done(TRUE, TRUE)
  /\ UNCHANGED <<insts, blocks, mems, cells, ecache, cur, want, snap, ops>>

ImportedMems(m) == Imported(m, "memory")

\* ea_instance_free: every table's array, and the memories it defines
Free(i) ==
  /\ cur = Idle /\ insts[i].out = "ok" /\ insts[i].mod \in Frees
  /\ \A k \in 1 .. Len(named) : named[k][2] # i
  /\ blocks' = [b \in DOMAIN blocks |->
                  [blocks[b] EXCEPT !.live =
                     @ /\ \A k \in DOMAIN insts[i].tabs : insts[i].tabs[k].blk # b]]
  /\ mems' = [a \in DOMAIN mems |->
                [mems[a] EXCEPT !.live =
                   @ /\ \A k \in DOMAIN insts[i].mems :
                          k > ImportedMems(insts[i].mod) => insts[i].mems[k] # a]]
  /\ insts' = [insts EXCEPT ![i].out = "freed"]
  /\ last' = Done(TRUE, TRUE)
  /\ UNCHANGED <<cells, named, ecache, cur, want, snap, ops>>

----------------------------------------------------------------------------
(* Instructions of running instances.                                      *)

\* functions reachable from the host are those of instances it holds and,
\* through tables, those that segments left there
TableRefs(i) == UNION {{View(insts[i].tabs[k])[x] : x \in 1 .. insts[i].tabs[k].size}
                         : k \in DOMAIN insts[i].tabs}
Held == {i \in DOMAIN insts : insts[i].out \in {"ok", "trapped"} \/ i = I}
Callee(r) == insts[r[1]].funcs[r[2]].inst
Callable == {r \in UNION {TableRefs(i) : i \in Held} : r \notin {Null, Wild}}
Runs == IF cur = Idle THEN Held \cup {Callee(r) : r \in Callable}
        ELSE IF cur.phase = "start" THEN {I} \cup {Callee(r) : r \in Callable} ELSE {}

Refs(i) == {Own(i, f) : f \in DOMAIN insts[i].funcs}

FuncTypes == UNION {{Mods[m].funcs[k] : k \in DOMAIN Mods[m].funcs} : m \in DOMAIN Mods}

Executes == ops < MaxOps /\ ops' = ops + 1

\* vals go to t's array if the code's test passed, and to the table if they fit
Update(t, d, vals, ok, wvals, w) ==
  /\ blocks' = IF ok THEN [blocks EXCEPT ![t.blk].els = Stored(@, d, vals)] ELSE blocks
  /\ want' = IF w THEN [want EXCEPT ![t.tid] = Stored(@, d, wvals)] ELSE want
  /\ last' = Done(ok, w)
  /\ UNCHANGED <<insts, mems, cells, named, ecache, cur, snap>>

Size(t) == Len(want[t.tid])

TableSet(i, k, x, r) ==
  LET t == insts[i].tabs[k]
  IN  Executes /\ Update(t, x, <<r>>, AtOK(t, x), <<r>>, x < Size(t))

\* table.get: what it reads is View
TableGet(i, k, x) ==
  LET t == insts[i].tabs[k]
  IN  /\ Executes
      /\ last' = Done(AtOK(t, x), x < Size(t))
      /\ UNCHANGED <<insts, blocks, mems, cells, named, ecache, cur, want, snap>>

\* call_indirect up to the call: the callee exists and has the type; the
\* helper of generated code takes the index as a uint32_t
CallIndirect(e, i, k, x, ty) ==
  LET t == insts[i].tabs[k]
      y == IF e = "jit" THEN x % N32 ELSE x
      good(r) == r \notin {Null, Wild} /\ insts[r[1]].funcs[r[2]].type = ty
  IN  /\ Executes
      /\ last' = Done(AtOK(t, y) /\ good(View(t)[y + 1]), x < Size(t) /\ good(want[t.tid][x + 1]))
      /\ UNCHANGED <<insts, blocks, mems, cells, named, ecache, cur, want, snap>>

TableFill(e, i, k, d, n, r) ==
  LET t == insts[i].tabs[k]
  IN  /\ Executes
      /\ Update(t, d, Repeat(r, n), FillOK(e, t, d, n), Repeat(r, n), InRange(Size(t), d, n))

TableCopy(e, i, k, j, d, s, n) ==
  LET t == insts[i].tabs[k]
      u == insts[i].tabs[j]
      ok == CopyOK(e, t, u, d, s, n)
      w == InRange(Size(t), d, n) /\ InRange(Size(u), s, n)
  IN  /\ Executes
      /\ Update(t, d, IF ok THEN Slice(View(u), s, n) ELSE <<>>, ok,
                IF w THEN Slice(want[u.tid], s, n) ELSE <<>>, w)

\* what table.init reads: the cache when the items are expressions
InitItemsOfFirst(i, g) == Items(1, Mods[insts[i].mod].elems[g])
InitItems(i, g) ==
  LET seg == Mods[insts[i].mod].elems[g]
  IN  IF seg.expr THEN ecache[insts[i].mod][g] ELSE Items(i, seg)

TableInit(e, i, k, g, d, s, n) ==
  LET t == insts[i].tabs[k]
      seg == Mods[insts[i].mod].elems[g]
      len == IF insts[i].elem_alive[g] THEN Len(seg.items) ELSE 0
      ok == InitOK(e, t, len, d, s, n)
      w == InRange(len, s, n) /\ InRange(Size(t), d, n)
  IN  /\ Executes
      /\ Update(t, d, IF ok THEN Slice(InitItems(i, g), s, n) ELSE <<>>, ok,
                IF w THEN Slice(Items(i, seg), s, n) ELSE <<>>, w)

ElemDrop(i, g) ==
  /\ Executes /\ insts[i].elem_alive[g]
  /\ insts' = [insts EXCEPT ![i].elem_alive[g] = FALSE]
  /\ last' = Done(TRUE, TRUE)
  /\ UNCHANGED <<blocks, mems, cells, named, ecache, cur, want, snap>>

\* no other EaTableInst record is the same table
Alone(i, k) ==
  \A j \in DOMAIN insts : \A l \in DOMAIN insts[j].tabs :
    insts[j].tabs[l].tid = insts[i].tabs[k].tid => j = i /\ l = k

\* table.grow: realloc extends the array in place or moves it
TableGrow(i, k, delta, r) ==
  LET t   == insts[i].tabs[k]
      new == GrowTo(t, delta)
      els == [x \in 1 .. new |-> IF x <= t.size THEN View(t)[x] ELSE r]
      w   == Size(t) + delta <= t.max /\ Size(t) + delta <= N32
  IN  /\ Executes
      /\ GrowShared \/ Alone(i, k)
      /\ IF CanGrow(t, delta)
         THEN \/ /\ insts' = [insts EXCEPT ![i].tabs[k].size = new]
                 /\ blocks' = [blocks EXCEPT ![t.blk].els = els]
              \/ /\ insts' = [insts EXCEPT ![i].tabs[k].size = new,
                                           ![i].tabs[k].blk = Len(blocks) + 1]
                 /\ blocks' = Append([blocks EXCEPT ![t.blk].live = FALSE],
                                     [live |-> TRUE, els |-> els])
         ELSE UNCHANGED <<insts, blocks>>
      /\ want' = IF w THEN [want EXCEPT ![t.tid] = @ \o Repeat(r, delta)] ELSE want
      /\ last' = Done(CanGrow(t, delta), w)
      /\ UNCHANGED <<mems, cells, named, ecache, cur, snap>>

MemFitsAlways(a, new) == new <= M64
MemFits(a, new) == new <= mems[a].max /\ (mems[a].is64 \/ new <= PageLimit)

\* mmap places a reservation below the one before it: behind memory a's own
\* lies memory a - 1's, and mprotect fails over addresses that are not mapped
Mapped(a, new) == new <= Reserve \/ (a > 1 /\ mems[a - 1].live /\ new <= 2 * Reserve)

GrownPagesOnly(m, delta) == [m EXCEPT !.pages = @ + delta]
Grown(m, delta) == [m EXCEPT !.pages = @ + delta, !.bytes = @ \o Repeat(Null, delta * Page)]

\* memory.grow: ea_grow_memory on the shared EaMemInst
MemoryGrow(i, k, delta) ==
  LET a   == insts[i].mems[k]
      new == mems[a].pages + delta
  IN  /\ Executes
      /\ MemFits(a, new) /\ Mapped(a, new)
      /\ mems' = [mems EXCEPT ![a] = Grown(@, delta)]
      /\ last' = Done(TRUE, TRUE)
      /\ UNCHANGED <<insts, blocks, cells, named, ecache, cur, want, snap>>

TableOp(i, k) ==
  LET R == Operands(insts[i].tabs[k].is64)
      W == Operands(FALSE)
  IN  \/ \E x \in Idx \cap R :
           \/ TableGet(i, k, x)
           \/ \E r \in Refs(i) : TableSet(i, k, x, r)
           \/ \E e \in Engines, ty \in FuncTypes : CallIndirect(e, i, k, x, ty)
      \/ \E e \in Engines, d \in Idx \cap R :
           \/ \E r \in Refs(i), n \in Lens \cap R : TableFill(e, i, k, d, n, r)
           \/ \E j \in DOMAIN insts[i].tabs :
                LET Q == Operands(insts[i].tabs[j].is64)
                IN  \E s \in Idx \cap Q, n \in Lens \cap Q \cap R : TableCopy(e, i, k, j, d, s, n)
           \/ \E s \in Idx \cap W, n \in Lens \cap W, g \in DOMAIN insts[i].elem_alive :
                TableInit(e, i, k, g, d, s, n)
      \/ \E delta \in Deltas \cap R, r \in Refs(i) : TableGrow(i, k, delta, r)

Run(i) ==
  \/ \E k \in DOMAIN insts[i].tabs : TableOp(i, k)
  \/ \E g \in DOMAIN insts[i].elem_alive : ElemDrop(i, g)
  \/ \E k \in DOMAIN insts[i].mems, delta \in Deltas : MemoryGrow(i, k, delta)

Init ==
  /\ insts = <<>> /\ blocks = <<>> /\ mems = <<>> /\ cells = <<>> /\ named = <<>>
  /\ ecache = [m \in DOMAIN Mods |-> [g \in DOMAIN Mods[m].elems |-> <<>>]]
  /\ cur = Idle /\ want = <<>> /\ snap = [tabs |-> <<>>, bytes |-> <<>>]
  /\ last = Done(TRUE, TRUE) /\ ops = 0

Next ==
  \/ \E m \in DOMAIN Mods : Begin(m)
  \/ Import \/ Define \/ Elem \/ Data \/ Finish
  \/ StartEnds("ok") \/ StartEnds("trapped")
  \/ \E n \in Names, i \in DOMAIN insts : Register(n, i)
  \/ \E i \in DOMAIN insts : Free(i)
  \/ \E i \in Runs : Run(i)

Spec == Init /\ [][Next]_vars
=============================================================================
