----------------------------- MODULE GcObjects -----------------------------
(***************************************************************************)
(* Programs over the GC heap.  A type section is read group by group; then *)
(* straight-line bodies run, one instruction at a time: an action types    *)
(* the instruction as ea_validate_module does, against the static types of *)
(* the operands, and executes it as ea_interp_call does (the JIT leaves    *)
(* these opcodes to the interpreter).  Objects are never freed.            *)
(*                                                                         *)
(* An operand is [t, v]: the type the validator has for it and the value.  *)
(* Only references are kept on the stack: number operands are chosen by    *)
(* the action, number results are dropped, and so are the contents of      *)
(* number fields.  A trap ends the body; the heap and the global stay.     *)
(*                                                                         *)
(* Uses names what programs may do that is known to go wrong:              *)
(*   "anydown"    an anyref is used as another reference type              *)
(*   "externup"   a struct or array reference is used as an externref      *)
(*   "constfill"  array.fill, copy or init of an immutable array           *)
(*   "foreign"    objects of other modules arrive                          *)
(***************************************************************************)
EXTENDS GcTypes, FiniteSets, SequencesExt

CONSTANTS
  Shapes,        \* entries a type section may have
  MaxTypes, MaxGroup,
  EdgesChecked,  \* TRUE: sections whose (sub ...) declarations hold
  Runnable,      \* modules whose bodies are run: [types, global], the type
                 \* section and the type of the one mutable global
  LabelTypes,    \* result types of the blocks br_on_* leave
  LabelArity,    \* numbers of results those blocks may have, 1 or 2
  Targets,       \* types tested and cast to
  NullTypes,     \* types of ref.null: TREFN(x), FUNCREF, EXTERNREF, ANYREF
  Exporters,     \* type sections of other modules whose objects arrive
  HostTags,      \* host references: small numbers as pointers
  Nums,          \* i32 operands: lengths and indices
  Width,         \* bytes of an element of a number array
  DataLen,       \* bytes of the data segment
  ElemLen,       \* items of the element segment, references to functions
  N32,           \* 2^32
  MaxObjs, MaxStack,
  Uses           \* constructs with a known departure that programs may use

ASSUME GcAssumption == /\ {MaxTypes, MaxGroup, Width, DataLen, ElemLen, N32} \subseteq Nat
                       /\ Nums \subseteq Nat /\ HostTags \subseteq Nat \ {0}

VARIABLES types, phase, heap, stack, global, alive, wild

vars == <<types, phase, heap, stack, global, alive, wild>>

Mod == [id |-> "m", types |-> types]

\* Values: null, a tagged i31, a heap object, a host reference, a function
\* of type n, and a number, whose value no property needs.
Null == [k |-> "null", n |-> 0]
Num == [k |-> "num", n |-> 0]
I31 == [k |-> "i31", n |-> 0]
Obj(a) == [k |-> "obj", n |-> a]
Host(n) == [k |-> "host", n |-> n]
Fn(x) == [k |-> "func", n |-> x]

\* A pointer with low bits 10 is an i31, and a host reference can be one.
ea_is_i31(v) == v.k = "i31" \/ (v.k = "host" /\ v.n % 4 = 2)
ea_gc_is_heap(v) == v.k = "obj"

Default(t) == IF ea_is_ref(t) THEN Null ELSE Num

Init ==
  /\ types = <<>> /\ phase = "decode" /\ heap = <<>> /\ stack = <<>>
  /\ global = [t |-> ANYREF, v |-> Null]
  /\ alive = {"data", "elem"} /\ wild = FALSE

(***************************************************************************)
(* The type section                                                        *)
(***************************************************************************)
Refs(t) ==
  ToSet(t.sup) \union
  ({vt.idx : vt \in {t.fields[i].vt : i \in 1 .. Len(t.fields)}
                      \union ToSet(t.params) \union ToSet(t.results)} \ {0})

\* A rec group (or a plain entry, a group of one).  References reach the end
\* of the group and supertypes come before; the decoder relies on both.
ReadGroup ==
  /\ phase = "decode"
  /\ \E n \in 1 .. MaxGroup : \E g \in [1 .. n -> Shapes] :
       LET base == Len(types)
           all == types \o [k \in 1 .. n |-> g[k] @@ [rec_pos |-> k - 1, rec_size |-> n]]
       IN  /\ base + n <= MaxTypes
           /\ \A k \in 1 .. n : /\ \A x \in Refs(g[k]) : x <= base + n
                                /\ \A x \in ToSet(g[k].sup) : x < base + k
           /\ EdgesChecked => \A k \in 1 .. n : \A y \in ToSet(g[k].sup) :
                                EdgeOK(all, base + k, y)
           /\ types' = all
  /\ UNCHANGED <<phase, heap, stack, global, alive, wild>>

Instantiate ==
  /\ phase = "decode"
  /\ \E r \in Runnable : r.types = types /\ global' = [t |-> r.global, v |-> Null]
  /\ phase' = "run"
  /\ UNCHANGED <<types, heap, stack, alive, wild>>

(***************************************************************************)
(* Typing and effects of one instruction                                   *)
(***************************************************************************)
\* Programs that need one of the conversions ty_match lets pass, and that
\* WebAssembly does not have, are built only on demand.
Known(expect, got) ==
  \/ expect = got
  \/ /\ (got = ANYREF /\ ea_abs_kind(expect) # "any") => "anydown" \in Uses
     /\ (expect = EXTERNREF /\ ea_tref_real(got)) => "externup" \in Uses

Pop(expect, got) == ty_match(Mod, expect, got) /\ Known(expect, got)

\* pop_vals: the operands on top have the types ts, the last on top.
Pops(ts) ==
  /\ phase = "run" /\ ~wild
  /\ Len(stack) >= Len(ts)
  /\ \A i \in 1 .. Len(ts) : Pop(ts[i], stack[Len(stack) - Len(ts) + i].t)

Arg(i) == stack[Len(stack) - i]     \* Arg(0) is the top operand
Below(n) == SubSeq(stack, 1, Len(stack) - n)

\* n operands are replaced by the operands in os.
Replace(n, os) ==
  /\ Len(stack) - n + Len(os) <= MaxStack
  /\ stack' = Below(n) \o os
  /\ UNCHANGED wild

Trap == stack' = <<>> /\ UNCHANGED <<heap, wild>>
Wild == wild' = TRUE /\ stack' = <<>> /\ UNCHANGED heap
Rest == UNCHANGED <<types, phase, global, alive>>

Structs == {x \in 1 .. Len(types) : types[x].kind = "struct"}
Arrays == {x \in 1 .. Len(types) : types[x].kind = "array"}
Funcs == {x \in 1 .. Len(types) : types[x].kind = "func"}
Elt(x) == types[x].fields[1]

\* ea_gc_alloc: home stands for the module whose type section ti indexes.
ea_gc_alloc(kind, x, data) ==
  /\ Len(heap) < MaxObjs
  /\ heap' = Append(heap, [kind |-> kind, ti |-> x, data |-> data, home |-> types])

New(n, x, data) ==
  /\ ea_gc_alloc(types[x].kind, x, data)
  /\ Replace(n, <<[t |-> TREF(x), v |-> Obj(Len(heap) + 1)]>>)

\* v is an object of the kind with the slots an access wants; of what is
\* not, null traps and anything else is a wild access.
Reaches(v, kind, slots) ==
  ea_gc_is_heap(v) /\ heap[v.n].kind = kind /\ Len(heap[v.n].data) >= slots
Fault(v) == IF v.k = "null" THEN Trap ELSE Wild

Put(a, i, v) == [heap EXCEPT ![a].data[i] = v]

\* The references among the fields, which are operands of struct.new.
RefFields(x) == SelectSeq([i \in 1 .. Len(types[x].fields) |-> types[x].fields[i].vt],
                          ea_is_ref)

StructNew(x) ==
  LET rf == RefFields(x)
      nth(i) == Len(SelectSeq([j \in 1 .. i |-> types[x].fields[j].vt], ea_is_ref))
  IN  /\ Pops(rf)
      /\ New(Len(rf), x, [i \in 1 .. Len(types[x].fields) |->
                            IF ea_is_ref(types[x].fields[i].vt)
                            THEN Arg(Len(rf) - nth(i)).v ELSE Num])
      /\ Rest

StructNewDefault(x) ==
  /\ Pops(<<>>)
  /\ \A i \in 1 .. Len(types[x].fields) : local_defaultable(types[x].fields[i].vt)
  /\ New(0, x, [i \in 1 .. Len(types[x].fields) |-> Default(types[x].fields[i].vt)])
  /\ Rest

\* A value read: a reference is pushed, a number dropped.
Read(n, t, v) == Replace(n, IF ea_is_ref(t) THEN <<[t |-> t, v |-> v]>> ELSE <<>>)

StructGet(x, f) ==
  LET o == Arg(0).v
  IN  /\ Pops(<<TREFN(x)>>)
      /\ IF Reaches(o, "struct", f)
         THEN Read(1, types[x].fields[f].vt, heap[o.n].data[f]) /\ UNCHANGED heap
         ELSE Fault(o)
      /\ Rest

StructSet(x, f) ==
  LET vt == types[x].fields[f].vt
      o == Arg(1).v
  IN  /\ types[x].fields[f].mut /\ ea_is_ref(vt)
      /\ Pops(<<TREFN(x), vt>>)
      /\ IF Reaches(o, "struct", f)
         THEN heap' = Put(o.n, f, Arg(0).v) /\ Replace(2, <<>>)
         ELSE Fault(o)
      /\ Rest

\* array.new and array.new_fixed: len copies of one value, or len values
\* that the body made equal; a number array takes none from the stack.
ArrayNew(x) ==
  LET used == IF ea_is_ref(Elt(x).vt) THEN 1 ELSE 0
  IN  /\ Pops(IF used = 1 THEN <<Elt(x).vt>> ELSE <<>>)
      /\ \E len \in Nums :
           New(used, x, [i \in 1 .. len |-> IF used = 1 THEN Arg(0).v ELSE Num])
      /\ Rest

ArrayNewDefault(x) ==
  /\ Pops(<<>>) /\ local_defaultable(Elt(x).vt)
  /\ \E len \in Nums : New(0, x, [i \in 1 .. len |-> Default(Elt(x).vt)])
  /\ Rest

\* len items of a segment from off.  The bytes wanted of the data segment
\* are a 32-bit product; the elements are references to one function.
Segment(x) == IF ea_is_ref(Elt(x).vt) THEN "elem" ELSE "data"
SegLen(s) == IF s \notin alive THEN 0 ELSE IF s = "elem" THEN ElemLen ELSE DataLen
Bytes(s, len) == IF s = "elem" THEN len ELSE len * Width

\* A mutant: the length of a segment counts after it was dropped.
SegTrapsDropped(s, off, len) ==
  off + (Bytes(s, len) % N32) > (IF s = "elem" THEN ElemLen ELSE DataLen)

SegTraps(s, off, len) == off + (Bytes(s, len) % N32) > SegLen(s)
SegWild(s, off, len) == len > 0 /\ off + Bytes(s, len) > SegLen(s)
SegOK(x) == Segment(x) = "elem" => Pop(Elt(x).vt, FUNCREF) /\ Funcs # {}
Item(x) == IF Segment(x) = "elem" THEN Fn(CHOOSE f \in Funcs : TRUE) ELSE Num

ArrayNewSeg(x) ==
  /\ Pops(<<>>) /\ SegOK(x)
  /\ \E len, off \in Nums :
       IF SegTraps(Segment(x), off, len) THEN Trap
       ELSE IF SegWild(Segment(x), off, len) THEN Wild
       ELSE New(0, x, [i \in 1 .. len |-> Item(x)])
  /\ Rest

ArrayGet(x) ==
  LET o == Arg(0).v
  IN  /\ Pops(<<TREFN(x)>>)
      /\ IF Reaches(o, "array", 0)
         THEN \E i \in Nums :
                IF i >= Len(heap[o.n].data) THEN Trap
                ELSE Read(1, Elt(x).vt, heap[o.n].data[i + 1]) /\ UNCHANGED heap
         ELSE Fault(o)
      /\ Rest

SetElement(o) ==
  IF Reaches(o, "array", 0)
  THEN \E i \in Nums :
         IF i >= Len(heap[o.n].data) THEN Trap
         ELSE heap' = Put(o.n, i + 1, Arg(0).v) /\ Replace(2, <<>>)
  ELSE Fault(o)

\* A mutant: the element need not be mutable.
ArraySetConst(x) ==
  /\ ea_is_ref(Elt(x).vt)
  /\ Pops(<<TREFN(x), Elt(x).vt>>)
  /\ SetElement(Arg(1).v)
  /\ Rest

ArraySet(x) ==
  /\ Elt(x).mut /\ ea_is_ref(Elt(x).vt)
  /\ Pops(<<TREFN(x), Elt(x).vt>>)
  /\ SetElement(Arg(1).v)
  /\ Rest

\* The data of array a with the slots from off set to vs.
Blit(a, off, vs) ==
  heap' = [heap EXCEPT ![a].data =
             [i \in DOMAIN @ |-> IF i \in (off + 1) .. (off + Len(vs)) THEN vs[i - off] ELSE @[i]]]

\* Writes of a range do not ask whether the array is mutable.
RangeWrites(x) == Elt(x).mut \/ "constfill" \in Uses

ArrayFill(x) ==
  LET o == Arg(1).v
  IN  /\ RangeWrites(x) /\ ea_is_ref(Elt(x).vt)
      /\ Pops(<<TREFN(x), Elt(x).vt>>)
      /\ IF Reaches(o, "array", 0)
         THEN \E off, len \in Nums :
                IF off + len > Len(heap[o.n].data) THEN Trap
                ELSE Blit(o.n, off, [i \in 1 .. len |-> Arg(0).v]) /\ Replace(2, <<>>)
         ELSE Fault(o)
      /\ Rest

\* The copy itself: the source array is the top operand.
CopyRange ==
  LET s == Arg(0).v
      d == Arg(1).v
      src == heap[s.n].data
  IN  IF "null" \in {s.k, d.k} THEN Trap
      ELSE IF ~Reaches(s, "array", 0) \/ ~Reaches(d, "array", 0) THEN Wild
      ELSE \E doff, soff, len \in Nums :
             IF doff + len > Len(heap[d.n].data) \/ soff + len > Len(src) THEN Trap
             ELSE Blit(d.n, doff, SubSeq(src, soff + 1, soff + len)) /\ Replace(2, <<>>)

\* A mutant: element types are not compared.
ArrayCopyUntyped(d, s) ==
  RangeWrites(d) /\ Pops(<<TREFN(d), TREFN(s)>>) /\ CopyRange /\ Rest

ArrayCopy(d, s) ==
  /\ RangeWrites(d) /\ Pop(Elt(d).vt, Elt(s).vt)
  /\ Pops(<<TREFN(d), TREFN(s)>>)
  /\ CopyRange
  /\ Rest

ArrayInit(x) ==
  LET o == Arg(0).v
  IN  /\ RangeWrites(x) /\ SegOK(x)
      /\ Pops(<<TREFN(x)>>)
      /\ IF Reaches(o, "array", 0)
         THEN \E off, soff, len \in Nums :
                IF off + len > Len(heap[o.n].data) THEN Trap
                ELSE IF SegTraps(Segment(x), soff, len) THEN Trap
                ELSE IF SegWild(Segment(x), soff, len) THEN Wild
                ELSE Blit(o.n, off, [i \in 1 .. len |-> Item(x)]) /\ Replace(1, <<>>)
         ELSE Fault(o)
      /\ Rest

\* data.drop, elem.drop (of a segment that some array can be made from).
SegDrop(s) ==
  /\ phase = "run" /\ ~wild
  /\ \E x \in Arrays : Segment(x) = s
  /\ alive' = alive \ {s}
  /\ UNCHANGED <<types, phase, heap, stack, global, wild>>

ArrayLen ==
  /\ phase = "run" /\ ~wild /\ stack # <<>>
  /\ \/ Arg(0).t \in {ABSN("array"), ABSREF("array"), ABSN("none")}
     \/ Arg(0).t.idx \in Arrays
  /\ IF Arg(0).v.k = "null" \/ ~ea_gc_is_heap(Arg(0).v) THEN Trap
     ELSE Replace(1, <<>>) /\ UNCHANGED heap
  /\ Rest

(***************************************************************************)
(* i31, extern, tests and casts                                            *)
(***************************************************************************)
Push(t, v) == /\ phase = "run" /\ ~wild
              /\ Replace(0, <<[t |-> t, v |-> v]>>)
              /\ UNCHANGED heap /\ Rest

\* The decoder keeps a type index, func and extern; every other heap type
\* becomes anyref.
RefNull == \E t \in NullTypes : t.idx <= Len(types) /\ Push(t, Null)
RefI31 == Push(ABSREF("i31"), I31)
RefFunc(x) == Push(TREF(x), Fn(x))

\* An externref argument of an exported function.
HostArg == \E n \in HostTags : Push(EXTERNREF, Host(n))

\* The result of an imported function: the import was accepted because the
\* exporter's type y is canonically equivalent to x.
Receive(x) ==
  /\ phase = "run" /\ ~wild /\ Len(heap) < MaxObjs
  /\ \E ex \in Exporters : \E y \in 1 .. Len(ex) :
       /\ ex = types \/ "foreign" \in Uses
       /\ ea_type_canon_eq([id |-> "x", types |-> ex], y, Mod, x)
       /\ ex[y].kind = "struct"
       /\ \A i \in 1 .. Len(ex[y].fields) : local_defaultable(ex[y].fields[i].vt)
       /\ heap' = Append(heap, [kind |-> "struct", ti |-> y, home |-> ex,
                                data |-> [i \in 1 .. Len(ex[y].fields) |->
                                            Default(ex[y].fields[i].vt)]])
  /\ Replace(0, <<[t |-> TREF(x), v |-> Obj(Len(heap) + 1)]>>)
  /\ Rest

I31Get ==
  /\ Pops(<<ABSN("i31")>>)
  /\ IF ea_is_i31(Arg(0).v) THEN Replace(1, <<>>) /\ UNCHANGED heap ELSE Trap
  /\ Rest

\* drop, ref.is_null, ref.eq (twice): the reference is only looked at.
Drop ==
  /\ phase = "run" /\ ~wild /\ stack # <<>>
  /\ Replace(1, <<>>)
  /\ UNCHANGED heap /\ Rest

GlobalSet ==
  /\ Pops(<<global.t>>)
  /\ global' = [global EXCEPT !.v = Arg(0).v]
  /\ Replace(1, <<>>)
  /\ UNCHANGED <<types, phase, heap, alive>>

GlobalGet == Push(global.t, global.v)

\* extern.convert_any wraps everything but null and raw host references;
\* any.convert_extern undoes the wrap.
ExternConvertAny ==
  /\ phase = "run" /\ ~wild /\ stack # <<>>
  /\ LET v == Arg(0).v
         t == IF Arg(0).t.null THEN EXTERNREF ELSE ABSREF("extern")
     IN  IF v.k = "null" \/ (v.k = "host" /\ ~ea_is_i31(v))
         THEN Replace(1, <<[t |-> t, v |-> v]>>) /\ UNCHANGED heap
         ELSE /\ Len(heap) < MaxObjs
              /\ heap' = Append(heap, [kind |-> "wrap", ti |-> 0, data |-> <<v>>, home |-> types])
              /\ Replace(1, <<[t |-> t, v |-> Obj(Len(heap) + 1)]>>)
  /\ Rest

AnyConvertExtern ==
  /\ phase = "run" /\ ~wild /\ stack # <<>>
  /\ LET v == Arg(0).v
         t == IF Arg(0).t.null THEN ANYREF ELSE ABSREF("any")
     IN  Replace(1, <<[t |-> t, v |-> IF ea_gc_is_heap(v) /\ heap[v.n].kind = "wrap"
                                      THEN heap[v.n].data[1] ELSE v]>>)
  /\ UNCHANGED heap /\ Rest

RECURSIVE OnChain(_, _)

\* A mutant: only the reference's own type is compared.
OnChainOwn(ti, x) == ti \in 1 .. Len(types) /\ ea_type_canon_eq(Mod, ti, Mod, x)

\* Type x is ti or one of its declared supertypes, in the executing module.
OnChain(ti, x) ==
  /\ ti \in 1 .. Len(types)
  /\ \/ ea_type_canon_eq(Mod, ti, Mod, x)
     \/ types[ti].sup # <<>> /\ OnChain(Head(types[ti].sup), x)

\* Does the value match the type at run time?
ea_gc_match(v, t) ==
  LET ht == ea_abs_kind(t)
  IN  CASE v.k = "null" -> t.null
        [] ea_is_i31(v) -> ht \in {"i31", "eq", "any"}
        [] v.k = "host" /\ ~ea_is_i31(v) -> ht \in {"extern", "any"}
        [] v.k = "func" -> IF ea_tref_real(t) THEN OnChain(v.n, t.idx) ELSE ht = "func"
        [] v.k = "obj" ->
             LET o == heap[v.n]
             IN  IF o.kind = "wrap" THEN ht = "extern"
                 ELSE IF ea_tref_real(t) THEN OnChain(o.ti, t.idx)
                 ELSE ht \in {"any", "eq", o.kind}

RefTest == \E t \in Targets : t.idx <= Len(types) /\ Pops(<<ANYREF>>) /\ Drop

RefCast ==
  \E t \in Targets :
    /\ t.idx <= Len(types) /\ Pops(<<ANYREF>>)
    /\ IF ea_gc_match(Arg(0).v, t)
       THEN Replace(1, <<[t |-> t, v |-> Arg(0).v]>>) /\ UNCHANGED heap
       ELSE Trap
    /\ Rest

\* br_on_cast and br_on_cast_fail out of a block with result type l.  With
\* two results the validator puts the remainder under the other operand.
BrOnCast(fail) ==
  \E s, dst \in Targets, l \in LabelTypes :
    LET src == gc_ht_valtype(s)
        taken == ea_gc_match(Arg(0).v, dst) = ~fail
        rem == IF dst.null THEN ea_narrow_ref(src) ELSE src
        fall == IF fail THEN gc_ht_valtype(dst) ELSE rem
    IN  /\ \A t \in {src, dst, l} : t.idx <= Len(types)
        /\ Pop(l, IF fail THEN src ELSE gc_ht_valtype(dst))
        /\ Pops(<<src>>)
        /\ \E n \in LabelArity :
             /\ Len(stack) >= n
             /\ LET top == [t |-> l, v |-> Arg(0).v]
                IN  Replace(n, IF n = 1
                               THEN <<IF taken THEN top ELSE [top EXCEPT !.t = fall]>>
                               ELSE IF taken THEN <<Arg(1), top>>
                               ELSE <<[t |-> fall, v |-> Arg(1).v], [top EXCEPT !.t = Arg(1).t]>>)
        /\ UNCHANGED heap /\ Rest

RefAsNonNull ==
  /\ phase = "run" /\ ~wild /\ stack # <<>>
  /\ IF Arg(0).v.k = "null" THEN Trap
     ELSE /\ Replace(1, <<[t |-> ea_narrow_ref(Arg(0).t), v |-> Arg(0).v]>>)
          /\ UNCHANGED heap
  /\ Rest

\* br_on_null to a block without results, br_on_non_null to one with l.
BrOnNull ==
  /\ phase = "run" /\ ~wild /\ stack # <<>>
  /\ Replace(1, IF Arg(0).v.k = "null" THEN <<>>
                ELSE <<[t |-> ea_narrow_ref(Arg(0).t), v |-> Arg(0).v]>>)
  /\ UNCHANGED heap /\ Rest

BrOnNonNull ==
  \E l \in LabelTypes :
    /\ phase = "run" /\ ~wild /\ stack # <<>>
    /\ l.idx <= Len(types) /\ Pop(l, ea_narrow_ref(Arg(0).t))
    /\ Replace(1, IF Arg(0).v.k = "null" THEN <<>> ELSE <<[t |-> l, v |-> Arg(0).v]>>)
    /\ UNCHANGED heap /\ Rest

Next ==
  \/ ReadGroup \/ Instantiate
  \/ \E x \in Structs :
       \/ StructNew(x) \/ StructNewDefault(x) \/ Receive(x)
       \/ \E f \in 1 .. Len(types[x].fields) : StructGet(x, f) \/ StructSet(x, f)
  \/ \E x \in Arrays :
       \/ ArrayNew(x) \/ ArrayNewDefault(x) \/ ArrayNewSeg(x) \/ ArrayGet(x)
       \/ ArraySet(x) \/ ArrayFill(x) \/ ArrayInit(x)
       \/ \E y \in Arrays : ArrayCopy(x, y)
  \/ \E x \in Funcs : RefFunc(x)
  \/ \E s \in {"data", "elem"} : SegDrop(s)
  \/ ArrayLen \/ RefNull \/ RefI31 \/ HostArg \/ I31Get \/ Drop \/ GlobalSet \/ GlobalGet
  \/ ExternConvertAny \/ AnyConvertExtern \/ RefTest \/ RefCast
  \/ BrOnCast(FALSE) \/ BrOnCast(TRUE) \/ RefAsNonNull \/ BrOnNull \/ BrOnNonNull

Spec == Init /\ [][Next]_vars

=============================================================================
