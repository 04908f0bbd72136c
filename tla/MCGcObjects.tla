---------------------------- MODULE MCGcObjects ----------------------------
(* Type entries, type sections and programs for TLC. *)
EXTENDS GcProps

Type(kind, final, sup, fields, params) ==
  [kind |-> kind, is_final |-> final, sup |-> sup, fields |-> fields,
   params |-> params, results |-> <<>>]
Field(vt, mut) == [vt |-> vt, mut |-> mut, packed_ |-> 0]
Struct(sup, fields) == Type("struct", FALSE, sup, fields, <<>>)
Array(el) == Type("array", TRUE, <<>>, <<el>>, <<>>)
Func(params) == Type("func", TRUE, <<>>, <<>>, params)

Grouped(ts) == [i \in 1 .. Len(ts) |-> ts[i] @@ [rec_pos |-> 0, rec_size |-> 1]]

\* Entries for whole type sections: empty and one-field structs with a
\* reference to any index, under a supertype, a final struct and function types.
TypeMenu ==
  {Struct(sup, fs) : sup \in {<<>>, <<1>>, <<2>>},
                     fs \in {<<>>} \union {<<Field(TREFN(x), TRUE)>> : x \in 1 .. 4}}
    \union {Func(<<TREFN(1)>>), Func(<<TREFN(2)>>), Type("struct", TRUE, <<1>>, <<>>, <<>>)}

\* Sections bodies run on, each with the type of its global.
Base == Struct(<<>>, <<>>)
BaseSection == Grouped(<<Base>>)
TwinSection == Grouped(<<Base, Base, Struct(<<2>>, <<Field(TREFN(1), TRUE)>>)>>)
ArraySection == Grouped(<<Base, Array(Field(TREFN(1), TRUE)), Array(Field(ABSN("eq"), FALSE))>>)
ElemSection == Grouped(<<Func(<<>>), Array(Field(FUNCREF, TRUE))>>)
DataSection == Grouped(<<Array(Field(I32, TRUE))>>)

On(section, t) == [types |-> section, global |-> t]
RunMenu == {On(BaseSection, EXTERNREF), On(TwinSection, TREFN(1)), On(ArraySection, TREFN(1)),
            On(ElemSection, TREFN(1)), On(DataSection, TREFN(1))}
Sections == {r.types : r \in RunMenu}
Plain(t) == [f \in DOMAIN t \ {"rec_pos", "rec_size"} |-> t[f]]
RunShapes == TypeMenu \union UNION {{Plain(s[i]) : i \in 1 .. Len(s)} : s \in Sections}

Labels == {ABSN("eq")}
Tests == {TREF(2), TREFN(3), ABSREF("i31"), ABSN("extern")}
Nulls == {TREFN(1), ANYREF}
=============================================================================
