---------------------------- MODULE LinkingProps ----------------------------
(***************************************************************************)
(* What the store promises about linked instances.                         *)
(***************************************************************************)
EXTENDS Linking

Outs == {"building", "ok", "trapped", "unlinkable", "uninstantiable", "freed"}

\* Type invariant of the store: indices into blocks, memories, cells and
\* the reference tables are in range, and an unfinished instance is the last.
TypeOK ==
  /\ \A i \in DOMAIN insts :
       /\ insts[i].mod \in DOMAIN Mods /\ insts[i].out \in Outs
       /\ insts[i].out = "building" => i = cur.inst /\ i = Len(insts)
       /\ \A k \in DOMAIN insts[i].tabs :
            /\ insts[i].tabs[k].blk \in DOMAIN blocks
            /\ insts[i].tabs[k].tid \in DOMAIN want
       /\ \A k \in DOMAIN insts[i].mems : insts[i].mems[k] \in DOMAIN mems
       /\ \A k \in DOMAIN insts[i].globs : insts[i].globs[k] \in DOMAIN cells
  /\ \A a \in DOMAIN mems : Len(mems[a].bytes) = mems[a].pages * Page
  /\ \A k \in 1 .. Len(named) : named[k] \in Names \X DOMAIN insts
  /\ ops \in 0 .. MaxOps

\* Through every instance that holds it, a table has the size and the
\* elements of the one table of the WebAssembly store: the copies of
\* EaTableInst (runtime.c:422), the elems arrays they share, the segments, the
\* item cache and every table instruction of both engines keep it so.
TablesExact ==
  \A i \in DOMAIN insts : insts[i].out # "freed" =>
    \A k \in DOMAIN insts[i].tabs : View(insts[i].tabs[k]) = want[insts[i].tabs[k].tid]

\* Each import, segment, table instruction and call_indirect succeeds exactly
\* when WebAssembly says so, in either engine.
OutcomeExact == last.ok = last.want

\* Every function that a table makes callable, those left there by an
\* instantiation that failed included, belongs to an instance whose prologue
\* fields are set and that has not been freed (runtime.c:579-583).
LeakedCallable ==
  \A r \in Callable : insts[Callee(r)].jit_mem0 /\ insts[Callee(r)].out # "freed"

\* What the active element segments of instance i put into table w, and the
\* active data segments into memory a, by the number of the segment.
ElemWrites(i, w) ==
  LET X == insts[i]
      E == Mods[X.mod].elems
  IN  [g \in {h \in DOMAIN E : E[h].mode = "active" /\ X.tabs[E[h].tab].tid = w} |->
         [off |-> Eval(X.globs, cells, E[g].off) % N32, vals |-> Items(i, E[g])]]
DataWrites(i, a) ==
  LET X == insts[i]
      G == Mods[X.mod].datas
  IN  [g \in {h \in DOMAIN G : G[h].mode = "active" /\ X.mems[G[h].mem] = a} |->
         [off |-> Eval(X.globs, cells, G[g].off) % N32, vals |-> Repeat(<<i, g>>, G[g].len)]]

\* The writes among 1 .. n that cover place x; the last of some.
Covering(writes, n, x) ==
  {g \in DOMAIN writes : g <= n /\ x - writes[g].off \in 1 .. Len(writes[g].vals)}
LastOf(G) == CHOOSE g \in G : \A h \in G : h <= g

\* s with what the last write among 1 .. n put at each place that one covers
Overlay(s, writes, n) ==
  [x \in 1 .. Len(s) |->
     LET C == Covering(writes, n, x)
         g == LastOf(C)
     IN  IF C = {} THEN s[x] ELSE writes[g].vals[x - writes[g].off]]

\* After an instantiation that fails at a segment, the older tables and
\* memories hold what they held when it began, overwritten by exactly the
\* segments before the failing one, element segments first, later ones over
\* earlier ones: nothing of the failing segment, and no roll-back
\* (runtime.c:590-644).
PrefixPersists ==
  last.at.phase \in {"elem", "data"} =>
    LET i  == last.at.inst
        ne == IF last.at.phase = "elem" THEN last.at.k - 1 ELSE Len(Mods[insts[i].mod].elems)
        nd == IF last.at.phase = "elem" THEN 0 ELSE last.at.k - 1
    IN  /\ \A j \in 1 .. i - 1 : insts[j].out # "freed" =>
             \A k \in DOMAIN insts[j].tabs :
               LET t == insts[j].tabs[k]
               IN  View(t) = Overlay(snap.tabs[t.tid], ElemWrites(i, t.tid), ne)
        /\ \A a \in DOMAIN snap.bytes :
             mems[a].bytes = Overlay(snap.bytes[a], DataWrites(i, a), nd)

\* No memory's accessible pages reach into the next reservation beyond what
\* that memory has itself made accessible, and a memory an instance can still
\* use is mapped: compiled 32-bit accesses rely on the guard pages
\* (runtime.c:218-221).
GuardsIntact ==
  /\ \A a \in 2 .. Len(mems) :
       mems[a].live /\ mems[a - 1].live => mems[a].pages <= Reserve + mems[a - 1].pages
  /\ \A i \in Held : \A k \in DOMAIN insts[i].mems : mems[insts[i].mems[k]].live
=============================================================================
