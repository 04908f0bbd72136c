----------------------------- MODULE MCLinking -----------------------------
(***************************************************************************)
(* Instances of Linking for TLC: pages of 2 bytes, memories of at most 2   *)
(* pages in reservations of 3, 32-bit values below 8 and 64-bit sums       *)
(* modulo 64.                                                              *)
(*                                                                         *)
(* a exports a table, a memory, a global, a function and a tag.  b imports *)
(* them all and writes four segments, two of which fit only once the table *)
(* or the memory has been grown; c imports b's table under b's limits and  *)
(* owns a table, a 64-bit memory and a segment of expressions; d shares    *)
(* a's memory only.                                                        *)
(***************************************************************************)
EXTENDS LinkingProps

const(v) == [op |-> "const", v |-> v]
get(g) == [op |-> "get", g |-> g]
tab(min, max, is64, init) == [min |-> min, max |-> max, is64 |-> is64, init |-> init]
mem(min, max, is64) == [min |-> min, max |-> max, is64 |-> is64]
active(t, off, items) == [mode |-> "active", tab |-> t, off |-> off, items |-> items, expr |-> FALSE]
passive(items, expr) == [mode |-> "passive", tab |-> 0, off |-> const(0), items |-> items, expr |-> expr]
bytes(mode, off, len) == [mode |-> mode, mem |-> 1, off |-> off, len |-> len]
limits(kind, from, min, max) ==
  [kind |-> kind, from |-> from, idx |-> 1, min |-> min, max |-> max, is64 |-> FALSE]
typed(kind, from, ty) == [kind |-> kind, from |-> from, idx |-> 1, type |-> ty]
global(from) == [kind |-> "global", from |-> from, idx |-> 1, mut |-> FALSE]

ModA ==
  [imports |-> <<>>,
   exports |-> {<<k, 1>> : k \in {"func", "table", "memory", "global", "tag"}},
   funcs |-> <<"f">>, tags |-> <<"f">>, globals |-> <<const(1)>>, mut |-> <<FALSE>>,
   tables |-> <<tab(2, 3, FALSE, 0)>>, mems |-> <<mem(1, NoMax, FALSE)>>,
   elems |-> <<active(1, const(0), <<1>>)>>,
   datas |-> <<bytes("active", const(0), 1)>>, start |-> FALSE]

ModB ==
  [imports |-> <<typed("func", "a", "f"), limits("table", "a", 2, 3), limits("memory", "a", 1, NoMax),
                 global("a"), typed("tag", "a", "f")>>,
   exports |-> {<<"table", 1>>, <<"memory", 1>>},
   funcs |-> <<"g">>, tags |-> <<>>, globals |-> <<get(1)>>, mut |-> <<FALSE, FALSE>>,
   tables |-> <<>>, mems |-> <<>>,
   elems |-> <<active(1, get(2), <<2>>), active(1, const(1), <<1, 2>>)>>,
   datas |-> <<bytes("active", get(1), 1), bytes("passive", const(0), 1), bytes("active", const(3), 1)>>,
   start |-> TRUE]

ModC ==
  [imports |-> <<limits("table", "b", 3, NoMax)>>, exports |-> {<<"table", 1>>},
   funcs |-> <<"f">>, tags |-> <<>>, globals |-> <<>>, mut |-> <<>>,
   tables |-> <<tab(1, 1, FALSE, 1)>>, mems |-> <<mem(1, 3, TRUE)>>,
   elems |-> <<passive(<<1, 1>>, TRUE), [passive(<<1>>, FALSE) EXCEPT !.mode = "declarative"]>>,
   datas |-> <<>>, start |-> FALSE]

ModD ==
  [imports |-> <<limits("memory", "a", 1, NoMax)>>, exports |-> {},
   funcs |-> <<"g">>, tags |-> <<>>, globals |-> <<>>, mut |-> <<>>,
   tables |-> <<tab(1, NoMax, FALSE, 0)>>, mems |-> <<mem(1, 2, FALSE)>>,
   elems |-> <<>>, datas |-> <<>>, start |-> FALSE]

\* a 64-bit table, and a 64-bit memory whose maximum exceeds a reservation
ModW ==
  [imports |-> <<>>, exports |-> {}, funcs |-> <<"f">>, tags |-> <<>>, globals |-> <<>>,
   mut |-> <<>>, tables |-> <<tab(2, NoMax, TRUE, 0)>>,
   mems |-> <<mem(1, NoMax, FALSE), mem(1, 6, TRUE)>>,
   elems |-> <<>>, datas |-> <<>>, start |-> FALSE]

Wide == [m \in {"w"} |-> ModW]

Chain == [m \in {"a", "b", "c", "d"} |->
            CASE m = "a" -> ModA [] m = "b" -> ModB [] m = "c" -> ModC [] m = "d" -> ModD]
=============================================================================
