------------------------------ MODULE GcProps ------------------------------
(* What makes the GC heap and the type comparisons correct. *)
EXTENDS GcObjects

\* A value belongs to a type: the abstract kinds of its sort, or a concrete
\* type whose identity its own type or a declared supertype has.
Belongs(v, t) ==
  LET ht == ea_abs_kind(t)
  IN  CASE v.k = "null" -> t.null
        [] v.k = "i31" -> ht \in {"i31", "eq", "any"}
        [] v.k = "host" -> ht \in {"extern", "any"}
        [] v.k = "func" -> ht = "func" \/ (/\ ea_tref_real(t)
                                           /\ CanonIds(types)[t.idx] \in SuperIds(types)[v.n])
        [] v.k = "num" -> FALSE
        [] OTHER ->
             LET o == heap[v.n]
             IN  IF o.kind = "wrap" THEN ht = "extern"
                 ELSE \/ ht \in {"any", "eq", o.kind}
                      \/ /\ ea_tref_real(t)
                         /\ CanonIds(types)[t.idx] \in SuperIds(o.home)[o.ti]

\* anyref is the validator's bucket for some reference.
Sound(v, t) ==
  IF ~ea_is_ref(t) THEN v = Num
  ELSE IF ea_abs_kind(t) = "any" THEN v.k # "num" /\ (v.k = "null" => t.null)
  ELSE Belongs(v, t)

(***************************************************************************)
(* ea_type_canon_eq and ea_type_sub, which recurse through rec groups with *)
(* an in-progress stack and a depth limit, decide exactly the equality of  *)
(* iso-recursive types and the declared subtyping between them, whether    *)
(* the two indices are of one module or of two with the same section.      *)
(***************************************************************************)
TypesExact ==
  phase = "decode" =>
    LET ids == CanonIds(types)
        sups == SuperIds(types)
        Twin == [Mod EXCEPT !.id = "twin"]
    IN  \A x, y \in 1 .. Len(types) :
          /\ ea_type_canon_eq(Mod, x, Mod, y) <=> ids[x] = ids[y]
          /\ ea_type_canon_eq(Mod, x, Twin, y) <=> ids[x] = ids[y]
          /\ ea_type_sub(Mod, x, y) <=> ids[y] \in sups[x]

(***************************************************************************)
(* The validator is sound: every operand, the global and every field of    *)
(* every object holds a value of its static type, whatever sequence of     *)
(* stores through supertypes, casts and branches put it there.             *)
(***************************************************************************)
TypeSound ==
  /\ \A i \in 1 .. Len(stack) : Sound(stack[i].v, stack[i].t)
  /\ Sound(global.v, global.t)
  /\ \A a \in 1 .. Len(heap) :
       LET o == heap[a]
           ty == o.home[o.ti]
       IN  /\ o.kind # "wrap" /\ o.home = types
           => \A i \in 1 .. Len(o.data) :
                Sound(o.data[i], ty.fields[IF o.kind = "array" THEN 1 ELSE i].vt)

(***************************************************************************)
(* ref.test, ref.cast and br_on_cast decide by ea_gc_match: for every      *)
(* reference a program holds it answers what the reference's type is.      *)
(***************************************************************************)
MatchExact ==
  phase = "run" =>
    \A i \in 1 .. Len(stack) : \A t \in Targets :
      t.idx <= Len(types) => (ea_gc_match(stack[i].v, t) <=> Belongs(stack[i].v, t))

(***************************************************************************)
(* The engine reads and writes only slots that exist: field accesses are   *)
(* unchecked, and a segment is read by a 32-bit check.                     *)
(***************************************************************************)
AccessSafe == ~wild

(***************************************************************************)
(* A field that is not mutable never changes, and an object never changes  *)
(* its type or its length.                                                 *)
(***************************************************************************)
ImmutableKept ==
  [][\A a \in 1 .. Len(heap) :
       LET o == heap[a]
       IN  /\ [heap'[a] EXCEPT !.data = <<>>] = [o EXCEPT !.data = <<>>]
           /\ Len(heap'[a].data) = Len(o.data)
           /\ o.kind # "wrap" => \A i \in 1 .. Len(o.data) :
                \/ o.home[o.ti].fields[IF o.kind = "array" THEN 1 ELSE i].mut
                \/ heap'[a].data[i] = o.data[i]]_vars

=============================================================================
