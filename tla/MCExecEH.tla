------------------------------ MODULE MCExecEH ------------------------------
(***************************************************************************)
(* Instances of ExecEH for TLC.  An instance is an alphabet of             *)
(* instructions per function, the signatures and the bounds; TLC builds    *)
(* every validated program over the alphabets and runs it.                 *)
(***************************************************************************)
EXTENDS ExecEHProps

Nil == <<>>
V   == <<"v">>
VV  == <<"v", "v">>
X   == <<"exn">>
VX  == <<"v", "exn">>
F(ps, rs, nl) == [ps |-> ps, rs |-> rs, nl |-> nl]
Ends(S) == S \cup {Op("end")}

NoPayload == [t \in Tags |-> Nil]
OneValue  == [t \in Tags |-> V]

OneEngine == {{}, Funcs}
AnyMix    == SUBSET Funcs

\* signatures: functions without operands, and with
Nil1 == <<F(Nil, Nil, 0)>>
Nil2 == <<F(Nil, Nil, 0), F(Nil, Nil, 0)>>
Nil3 == <<F(Nil, Nil, 0), F(Nil, Nil, 0), F(Nil, Nil, 0)>>
Nil4 == Nil3 \o Nil1
Ops2 == <<F(V, V, 0), F(V, V, 1)>>

\* bounds on the length of the bodies
Len4   == <<4>>
Len6   == <<6>>
Len8   == <<8>>
Len33  == <<3, 3>>
Len43  == <<4, 3>>
Len62  == <<6, 2>>
Len73  == <<7, 3>>
Len83  == <<8, 3>>
Len84  == <<8, 4>>
Len242 == <<2, 4, 2>>
Len442 == <<4, 4, 2>>
Len2222 == <<2, 2, 2, 2>>

----------------------------------------------------------------------------
(* Instances on which the properties hold. *)

\* branches and exceptions out of nested try_tables, in every mix of engines
ControlInstrs == <<
  Ends({Op("block"), OpN("br", 0), OpN("br", 1), OpN("br_if", 1), OpN("call", 2),
        OpThrow("a"), OpTry(Nil, <<Catch(0, "a", 0)>>),
        OpTry(Nil, <<Catch(0, "b", 0), Catch(2, NoTag, 1)>>)}),
  Ends({Op("return"), OpThrow("a"), OpThrow("b"), Op("unreachable")}) >>

\* operands, payloads and exnrefs
OperandsInstrs == <<
  Ends({Op("push"), Op("drop"), OpN("br", 1), OpN("call", 2), OpB("block", VX),
        OpThrow("a"), Op("throw_ref"), OpTry(V, <<Catch(0, "a", 0)>>),
        OpTry(V, <<Catch(1, "a", 1)>>), OpTry(V, <<Catch(2, NoTag, 1)>>)}),
  Ends({Op("push"), Op("popcnt"), OpThrow("a"), OpN("return_call", 2),
        OpN("host", 1), OpTry(V, <<Catch(0, "a", 0)>>)}) >>

\* calls, exceptions and traps across three functions; runaway recursion
ChainInstrs == <<
  Ends({OpN("call", 2), OpTry(Nil, <<Catch(0, "a", 0)>>),
        OpTry(Nil, <<Catch(2, NoTag, 0)>>)}),
  Ends({OpN("call", 3), OpN("call", 1), OpTry(Nil, <<Catch(0, "a", 0)>>)}),
  Ends({OpThrow("a"), OpThrow("b"), Op("unreachable"), OpN("host", 0),
        OpN("call_ref", 1), OpN("return_call", 2)}) >>

\* tail calls of functions that end in tail calls
TailsInstrs == <<
  Ends({OpN("return_call", 2)}), Ends({OpThrow("a"), OpN("return_call", 3)}),
  Ends({OpN("return_call", 4)}), Ends({OpThrow("a"), OpN("host", 0)}) >>

\* loop, if, br_table and a self tail call around handlers
LoopsInstrs == <<
  Ends({Op("loop"), Op("if"), OpN("br", 0), OpN("br_table", 1), OpN("br_if", 1),
        OpN("return_call", 1), OpThrow("a"), OpTry(Nil, <<Catch(0, "a", 0)>>),
        OpTry(Nil, <<Catch(0, "a", 1)>>)}) >>

----------------------------------------------------------------------------
(* Instances on which the program departs from what its documents say. *)

\* a catch label outside an enclosing try_table
CrossInstrs == <<
  Ends({Op("block"), OpThrow("a"), OpTry(Nil, <<Catch(0, "a", 1)>>),
        OpTry(Nil, <<Catch(0, "b", 0)>>)}) >>

\* a jump to the end of a try_table whose body ends in dead code
DeadEndInstrs == <<
  Ends({OpN("br_if", 0), OpN("br", 1), OpTry(Nil, <<Catch(0, "a", 0)>>)}) >>

\* a loop at a nesting level where a try_table was
StaleInstrs == << Ends({Op("loop"), OpTry(Nil, <<Catch(0, "a", 0)>>)}) >>

\* a catch label with two results for a clause that carries one value
WideSig == <<F(Nil, VV, 0)>>
WideInstrs == << Ends({Op("push"), OpThrow("a"), OpTry(VV, <<Catch(0, "a", 0)>>)}) >>

\* a function that returns right after a popcnt
PopcntSig == <<F(Nil, Nil, 0), F(Nil, V, 0)>>
PopcntInstrs == <<Ends({OpN("call", 2), Op("drop")}),
                  Ends({Op("push"), Op("popcnt")}) >>

\* an exception nobody catches, thrown above an operand
UncaughtInstrs == << Ends({Op("push"), OpThrow("a")}) >>

\* generated code catches the exception of an interpreted callee with a local
ResidueSig == <<F(Nil, Nil, 0), F(Nil, Nil, 0), F(Nil, Nil, 1)>>
ResidueInstrs == << Ends({OpN("call", 2)}),
                    Ends({OpN("call", 3), OpTry(Nil, <<Catch(0, "a", 0)>>)}),
                    Ends({OpThrow("a")}) >>

\* the caller catches the exception of a call_ref
CallRefInstrs == <<
  Ends({OpN("call_ref", 2), Op("block"), OpTry(Nil, <<Catch(0, "a", 0)>>)}),
  Ends({OpThrow("a")}) >>

\* catch_all_ref, and catch_all, of an exception with a payload
AllRefInstrs == <<
  Ends({Op("push"), Op("drop"), OpB("block", X), OpThrow("a"),
        OpTry(X, <<Catch(3, NoTag, 0)>>)}) >>
AllInstrs == << Ends({OpN("call", 2), OpTry(Nil, <<Catch(2, NoTag, 0)>>)}),
                Ends({Op("push"), OpThrow("a")}) >>

\* a tail call inside a try_table
TailInstrs == << Ends({OpN("return_call", 2), OpTry(Nil, <<Catch(0, "a", 0)>>)}),
                 Ends({OpThrow("a")}) >>

\* a host function that reports failure
HostInstrs == << Ends({OpN("host", 1)}) >>
=============================================================================
