--------------------------- MODULE MCLinearMemory ---------------------------
(***************************************************************************)
(* Instances of LinearMemory for TLC: pages of 4 bytes, 32-bit addresses   *)
(* below 16, a reservation of 48 bytes, 64-bit arithmetic modulo 256.      *)
(***************************************************************************)
EXTENDS LinearMemory

Both  == {FALSE, TRUE}
From1 == [is64 \in BOOLEAN |-> IF is64 THEN {1, 2} ELSE {0, 1, 2}]
From0 == [is64 \in BOOLEAN |-> {0}]
Huge  == [is64 \in BOOLEAN |-> {1, 64}]
=============================================================================
