------------------------------ MODULE GcTypes ------------------------------
(***************************************************************************)
(* Types of the GC proposal as validate.c compares them.  A module is its  *)
(* identity and its type section, a sequence of entries                    *)
(*   [kind, is_final, sup, fields, params, results, rec_pos, rec_size]     *)
(* (EaType); indices count from 1.  A value type is                        *)
(*   [abs, idx, null]                                                      *)
(* where idx # 0 is a typed reference (EA_VT_TREF, EA_VT_TREFN) and abs is *)
(* otherwise the abstract kind.  FUNCREF, EXTERNREF and ANYREF, the plain  *)
(* members of the enum, are other encodings than EA_VT_ABSN of their kind, *)
(* as in the code.  The only number type is I32.                           *)
(***************************************************************************)
EXTENDS Integers, Sequences

CONSTANT CanonDepth      \* the recursion limit of comparisons, 12 in the code

ASSUME CanonDepthAssumption == CanonDepth \in Nat

AbsKinds == {"func", "extern", "any", "eq", "i31", "struct", "array", "none",
             "nofunc", "noextern", "exn"}

I32 == [abs |-> "i32", idx |-> 0, null |-> FALSE]
FUNCREF == [abs |-> "FUNCREF", idx |-> 0, null |-> TRUE]
EXTERNREF == [abs |-> "EXTERNREF", idx |-> 0, null |-> TRUE]
ANYREF == [abs |-> "ANYREF", idx |-> 0, null |-> TRUE]
TREF(x) == [abs |-> "", idx |-> x, null |-> FALSE]
TREFN(x) == [abs |-> "", idx |-> x, null |-> TRUE]
ABSREF(k) == [abs |-> k, idx |-> 0, null |-> FALSE]
ABSN(k) == [abs |-> k, idx |-> 0, null |-> TRUE]

ea_is_absref(t) == t.abs \in AbsKinds
ea_tref_real(t) == t.idx # 0
ea_is_ref(t) == t # I32

\* The abstract kind of an abstract type or of a plain enum.
ea_abs_kind(t) ==
  CASE t = FUNCREF -> "func" [] t = EXTERNREF -> "extern" [] t = ANYREF -> "any"
    [] OTHER -> t.abs

(***************************************************************************)
(* Canonical equivalence: two types are the same when their rec groups are *)
(* equal member by member, references into the own group compared by       *)
(* position and the others recursively.  st is the stack of group pairs    *)
(* under comparison, which count as equal.                                 *)
(***************************************************************************)
RECURSIVE groups_eq_st(_, _, _, _, _, _, _)

type_group(m, x) == x - m.types[x].rec_pos

type_canon_eq_st(ma, xa, mb, xb, st, depth) ==
  LET ga == type_group(ma, xa)
      gb == type_group(mb, xb)
  IN  /\ ma.types[xa].rec_size = mb.types[xb].rec_size
      /\ xa - ga = xb - gb
      /\ groups_eq_st(ma, ga, mb, gb, ma.types[xa].rec_size, st, depth)

\* A mutant: any two references into the own groups are the same.
refs_eq_stAnyPos(ma, sa, n, xa, mb, sb, xb, st, depth) ==
  LET ina == xa \in sa .. (sa + n - 1)
      inb == xb \in sb .. (sb + n - 1)
  IN  ina = inb /\ (ina \/ type_canon_eq_st(ma, xa, mb, xb, st, depth))

refs_eq_st(ma, sa, n, xa, mb, sb, xb, st, depth) ==
  LET ina == xa \in sa .. (sa + n - 1)
      inb == xb \in sb .. (sb + n - 1)
  IN  /\ ina = inb
      /\ IF ina THEN xa - sa = xb - sb
         ELSE type_canon_eq_st(ma, xa, mb, xb, st, depth)

vt_canon_eq_st(ma, a, mb, b, sa, n, sb, st, depth) ==
  IF ea_tref_real(a) /\ ea_tref_real(b)
  THEN refs_eq_st(ma, sa, n, a.idx, mb, sb, b.idx, st, depth)
  ELSE a = b

groups_eq_st(ma, sa, mb, sb, n, st, depth) ==
  \/ sa = sb /\ ma.id = mb.id
  \/ /\ depth <= CanonDepth
     /\ \/ <<ma.id, sa, mb.id, sb>> \in st
        \/ LET st1 == st \union {<<ma.id, sa, mb.id, sb>>}
               Vts(as, bs) ==
                 /\ Len(as) = Len(bs)
                 /\ \A i \in 1 .. Len(as) :
                      vt_canon_eq_st(ma, as[i], mb, bs[i], sa, n, sb, st1, depth + 1)
           IN  \A k \in 0 .. (n - 1) :
                 LET ta == ma.types[sa + k]
                     tb == mb.types[sb + k]
                 IN  /\ ta.kind = tb.kind /\ ta.is_final = tb.is_final
                     /\ Len(ta.sup) = Len(tb.sup)
                     /\ \A i \in 1 .. Len(ta.sup) :
                          refs_eq_st(ma, sa, n, ta.sup[i], mb, sb, tb.sup[i], st1, depth + 1)
                     /\ Vts(ta.params, tb.params) /\ Vts(ta.results, tb.results)
                     /\ Len(ta.fields) = Len(tb.fields)
                     /\ \A i \in 1 .. Len(ta.fields) :
                          /\ ta.fields[i].mut = tb.fields[i].mut
                          /\ ta.fields[i].packed_ = tb.fields[i].packed_
                          /\ vt_canon_eq_st(ma, ta.fields[i].vt, mb, tb.fields[i].vt,
                                            sa, n, sb, st1, depth + 1)

ea_type_canon_eq(ma, a, mb, b) == type_canon_eq_st(ma, a, mb, b, {}, 0)

(***************************************************************************)
(* Subtyping.                                                              *)
(***************************************************************************)
abs_kind_sub(gk, ek) ==
  \/ gk = ek
  \/ ek = "any" /\ gk \notin {"any", "exn"}
  \/ ek = "eq" /\ gk \in {"i31", "struct", "array", "none"}
  \/ ek \in {"i31", "struct", "array"} /\ gk = "none"
  \/ ek = "func" /\ gk = "nofunc"
  \/ ek = "extern" /\ gk = "noextern"

RECURSIVE ea_type_sub_mm(_, _, _, _, _)

\* Declared supertype chains, of which only the first supertype is followed.
ea_type_sub_mm(mg, g, me, e, depth) ==
  \/ g = e /\ mg.id = me.id
  \/ /\ depth <= CanonDepth
     /\ \/ ea_type_canon_eq(mg, g, me, e)
        \/ /\ mg.types[g].sup # <<>>
           /\ ea_type_sub_mm(mg, Head(mg.types[g].sup), me, e, depth + 1)

ea_type_sub(m, g, e) == ea_type_sub_mm(m, g, m, e, 0)

\* Whether a value of static type got may be used where expect is required.
ty_match(m, expect, got) ==
  LET ek == ea_abs_kind(expect)
      gk == ea_abs_kind(got)
      kind == IF ea_tref_real(got) THEN m.types[got.idx].kind ELSE "none"
      nulls == got.null => expect.null
  IN  \/ expect = got
      \/ expect = ANYREF /\ ea_is_ref(got)
      \/ got = ANYREF /\ ea_is_ref(expect)
      \/ /\ ea_is_absref(expect) /\ nulls
         /\ \/ ea_is_absref(got) /\ abs_kind_sub(gk, ek)
            \/ ea_tref_real(got) /\ abs_kind_sub(kind, ek)
      \/ /\ ea_is_absref(got) /\ ~ea_is_absref(expect)
         /\ \/ gk = "func" /\ expect = FUNCREF
            \/ gk = "extern" /\ expect = EXTERNREF
            \/ gk = "nofunc" /\ expect = FUNCREF
            \/ gk = "nofunc" /\ ea_tref_real(expect) /\ expect.null
               /\ m.types[expect.idx].kind = "func"
            \/ gk = "noextern" /\ expect = EXTERNREF
      \/ ea_tref_real(expect) /\ ea_tref_real(got) /\ nulls
         /\ ea_type_sub(m, got.idx, expect.idx)
      \/ expect = FUNCREF /\ ea_tref_real(got) /\ kind = "func"
      \/ expect = EXTERNREF /\ ea_tref_real(got) /\ kind # "func"

ea_narrow_ref(t) ==
  IF ea_is_ref(t) THEN [t EXCEPT !.null = FALSE, !.abs = ea_abs_kind(t)] ELSE t

\* The value type of a heap type immediate: nullable func, extern and any
\* become the plain enums.
gc_ht_valtype(t) ==
  CASE t = ABSN("func") -> FUNCREF [] t = ABSN("extern") -> EXTERNREF
    [] t = ABSN("any") -> ANYREF [] OTHER -> t

local_defaultable(t) == ~ea_is_ref(t) \/ t.null

(***************************************************************************)
(* The reference: what iso-recursive types mean.  The identity of a type   *)
(* is its rec group, with references into the group replaced by positions  *)
(* and the others by the identities they stand for, and its position.      *)
(***************************************************************************)
CanonIds(types) ==
  LET id[x \in 1 .. Len(types)] ==
        LET g == x - types[x].rec_pos
            n == types[x].rec_size
            Ref(y) == IF y \in g .. (g + n - 1) THEN [rec |-> y - g + 1, ext |-> <<>>]
                      ELSE [rec |-> 0, ext |-> <<id[y]>>]
            Vt(t) == [abs |-> t.abs, null |-> t.null,
                      ref |-> IF t.idx = 0 THEN <<>> ELSE <<Ref(t.idx)>>]
            Vts(ts) == [i \in 1 .. Len(ts) |-> Vt(ts[i])]
            Entry(t) == [kind |-> t.kind, is_final |-> t.is_final,
                         sup |-> [i \in 1 .. Len(t.sup) |-> Ref(t.sup[i])],
                         params |-> Vts(t.params), results |-> Vts(t.results),
                         fields |-> [i \in 1 .. Len(t.fields) |->
                                       [mut |-> t.fields[i].mut, packed_ |-> t.fields[i].packed_,
                                        vt |-> Vt(t.fields[i].vt)]]]
        IN  [group |-> [k \in 1 .. n |-> Entry(types[g + k - 1])], pos |-> x - g]
  IN  id

\* The identities of a type and of all its declared supertypes.
SuperIds(types) ==
  LET id == CanonIds(types)
      up[x \in 1 .. Len(types)] ==
        {id[x]} \union UNION {up[types[x].sup[i]] : i \in 1 .. Len(types[x].sup)}
  IN  up

\* Subtyping of value types by identities, in one section.
VtSub(types, a, b) ==
  \/ a = b
  \/ /\ ea_is_ref(a) /\ ea_is_ref(b) /\ (a.null => b.null)
     /\ IF ea_tref_real(b)
        THEN ea_tref_real(a) /\ CanonIds(types)[b.idx] \in SuperIds(types)[a.idx]
        ELSE abs_kind_sub(IF ea_tref_real(a) THEN types[a.idx].kind ELSE ea_abs_kind(a),
                          ea_abs_kind(b))

\* What a declaration (sub y ...) of type x promises: x can be used as y.
EdgeOK(types, x, y) ==
  LET tx == types[x]
      ty == types[y]
  IN  /\ tx.kind = ty.kind /\ ~ty.is_final
      /\ Len(tx.fields) >= Len(ty.fields)
      /\ \A i \in 1 .. Len(ty.fields) :
           /\ tx.fields[i].mut = ty.fields[i].mut
           /\ tx.fields[i].packed_ = ty.fields[i].packed_
           /\ VtSub(types, tx.fields[i].vt, ty.fields[i].vt)
           /\ tx.fields[i].mut => VtSub(types, ty.fields[i].vt, tx.fields[i].vt)
      /\ Len(tx.params) = Len(ty.params) /\ Len(tx.results) = Len(ty.results)
      /\ \A i \in 1 .. Len(tx.params) : VtSub(types, ty.params[i], tx.params[i])
      /\ \A i \in 1 .. Len(tx.results) : VtSub(types, tx.results[i], ty.results[i])

=============================================================================
