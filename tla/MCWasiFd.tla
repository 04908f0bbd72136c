------------------------------ MODULE MCWasiFd ------------------------------
EXTENDS WasiProps

OneDir == <<"d">>
DirFb == <<"d", "efb">>

Same == [p \in Paths |-> p]
CutLong == [p \in Paths |-> IF p = "g" THEN "f" ELSE p]

Plain == {{}, {"creat"}, {"creat", "trunc"}, {"trunc"}}
Creating == {{}, {"creat"}}
Clearing == {{"creat"}, {"clear"}}
Exclusive == {{"creat"}, {"creat", "excl"}}
Odd == {{"creat"}, {"oddptr"}}

Iovs == {<<<<1>>, <<2>>>>, <<<<1, 2>>, Bad>>, <<<<1>>, <<2>>, <<1>>, <<1>>>>}
OneByte == {<<<<1>>>>}

Near == {-1, 0, 1}
Back == {0}

Args == <<1, 2>>
Polls == {<<[tag |-> "fd", rel |-> TRUE, ns |-> 2], [tag |-> "fd", rel |-> FALSE, ns |-> 0]>>,
          <<[tag |-> "clock", rel |-> TRUE, ns |-> 1], Bad>>}
NoPolls == {}
=============================================================================
