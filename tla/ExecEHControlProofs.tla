------------------------ MODULE ExecEHControlProofs -------------------------
(***************************************************************************)
(* Interpreter and generated code together implement WasmControl: every    *)
(* step of ExecEH is a step of the control semantics of WebAssembly, or    *)
(* changes nothing the semantics sees.  An activation list is computed     *)
(* from the frames (Activations); each action is a combination of a few    *)
(* moves on it: stay, call, return, trap, catch, pass an exception on.     *)
(***************************************************************************)
EXTENDS ExecEHTriesProofs

----------------------------------------------------------------------------
(* The activations a list of frames stands for. *)

\* frame F is at a tail call
Tailing(cd, F) == F.pc <= Len(cd[F.fn]) /\ cd[F.fn][F.pc].op = "return_call"

\* the frames of fs that are activations when all of them wait for a callee,
\* and when the last one executes if m is not "exn"
Waiting(cd, fs) == {i \in 1 .. Len(fs) : ~Tailing(cd, fs[i])}
Showing(cd, fs, m) == {i \in 1 .. Len(fs) : ~((i < Len(fs) \/ m = "exn") /\ Tailing(cd, fs[i]))}

\* the activations of the frames with numbers in S, and of those that wait
Listed(fs, S) == [n \in 1 .. Cardinality(S) |-> ActOf(fs[Nth(S, n)])]
Rest(cd, fs) == Listed(fs, Waiting(cd, fs))

\* The list of activations.
LEMMA ActsAre ==
  ASSUME IsSeq(frames)
  PROVE  Activations = Listed(frames, Showing(code, frames, mode))
<1>1. DOMAIN frames = 1 .. Len(frames) BY SeqIs
<1>2. \A i \in 1 .. Len(frames) : Suspended(i) <=> (i < Len(frames) \/ mode = "exn") /\ Tailing(code, frames[i])
  BY DEF Suspended, Inside, Tailing
<1>3. Shown = Showing(code, frames, mode) BY <1>1, <1>2 DEF Shown, Showing
<1> QED BY <1>3 DEF Activations, Listed

\* And after a step.
LEMMA ActsAfter ==
  ASSUME IsSeq(frames'), UNCHANGED progvars
  PROVE  Activations' = Listed(frames', Showing(code, frames', mode'))
<1>1. DOMAIN frames' = 1 .. Len(frames') BY SeqIs
<1>2. code' = code BY DEF progvars
<1>3. \A i \in 1 .. Len(frames') : Suspended(i)' <=> (i < Len(frames') \/ mode' = "exn") /\ Tailing(code, frames'[i])
  BY <1>2 DEF Suspended, Inside, Tailing
<1>4. Shown' = Showing(code, frames', mode') BY <1>1, <1>3 DEF Shown, Showing
<1> QED BY <1>4 DEF Activations, Listed

\* One more index: the numbering of the others stays.
LEMMA NthMore ==
  ASSUME NEW n \in Nat, NEW S \in SUBSET (1 .. n), NEW N, N = n + 1
  PROVE  LET T == S \cup {N} IN
         /\ Cardinality(S) \in Nat /\ Cardinality(T) = Cardinality(S) + 1
         /\ \A k \in 1 .. Cardinality(S) : Nth(T, k) = Nth(S, k)
         /\ Nth(T, Cardinality(S) + 1) = N
<1> DEFINE T == S \cup {N}
           c == Cardinality(S)
           Lower(A, i) == {j \in A : j < i}
<1>1. IsFiniteSet(1 .. n) BY FS_Interval
<1>2. IsFiniteSet(S) BY <1>1, FS_Subset
<1>3. c \in Nat BY <1>2, FS_CardinalityType
<1>4. N \in Nat /\ N \notin S /\ \A i \in S : i \in Nat /\ i < N
  <2>1. \A i \in 1 .. n : i \in Nat /\ i < n + 1 /\ i # n + 1 OBVIOUS
  <2> QED BY <2>1
<1>5. Cardinality(T) = c + 1 BY <1>2, <1>4, FS_AddElement
<1>6. Lower(T, N) = S
  <2>0. ~(N < N) BY <1>4
  <2>1. \A j : j \in T /\ j < N <=> j \in S BY <1>4, <2>0, Zenon
  <2> HIDE DEF T
  <2> QED BY <2>1
<1>7. ASSUME NEW i \in S PROVE Lower(T, i) = Lower(S, i)
  <2>1. i \in Nat /\ i < N /\ N \in Nat BY <1>4
  <2>2. ~(N < i) BY <2>1
  <2>3. \A j : j \in T /\ j < i <=> j \in S /\ j < i BY <2>2
  <2> HIDE DEF T
  <2> QED BY <2>3
<1>8. ASSUME NEW i \in S PROVE Cardinality(Lower(S, i)) \in Nat /\ Cardinality(Lower(S, i)) < c
  <2>1. i \notin Lower(S, i) BY <1>4
  <2>2. Lower(S, i) \in SUBSET S /\ Lower(S, i) # S BY <2>1
  <2> HIDE DEF Lower
  <2>3. IsFiniteSet(Lower(S, i)) /\ Cardinality(Lower(S, i)) <= c /\ (Cardinality(Lower(S, i)) = c => Lower(S, i) = S)
    BY <1>2, <2>2, FS_Subset
  <2>4. Cardinality(Lower(S, i)) \in Nat BY <2>3, FS_CardinalityType
  <2> QED BY <1>3, <2>2, <2>3, <2>4
<1>9. ASSUME NEW k \in 1 .. c PROVE Nth(T, k) = Nth(S, k)
  <2>1. ASSUME NEW i
        PROVE  i \in T /\ Cardinality(Lower(T, i)) = k - 1 <=> i \in S /\ Cardinality(Lower(S, i)) = k - 1
    <3>1. i \in T <=> i \in S \/ i = N OBVIOUS
    <3>2. CASE i \in S BY <1>7, <3>1, <3>2
    <3>3. CASE i = N
      <4>1. c # k - 1 BY <1>3
      <4> QED BY <1>4, <1>6, <3>3, <4>1
    <3> QED BY <3>1, <3>2, <3>3
  <2> HIDE DEF T
  <2> QED BY <2>1, Zenon DEF Nth, Lower
<1>10. Nth(T, c + 1) = N
  <2>1. ASSUME NEW i PROVE i \in T /\ Cardinality(Lower(T, i)) = (c + 1) - 1 <=> i = N
    <3>0. (c + 1) - 1 = c BY <1>3
    <3>1. i \in T <=> i \in S \/ i = N OBVIOUS
    <3>2. CASE i \in S
      <4>1. Cardinality(Lower(T, i)) # c BY <1>3, <1>7, <1>8, <3>2
      <4> QED BY <1>4, <3>0, <3>2, <4>1
    <3>3. CASE i = N BY <1>6, <3>0, <3>3
    <3> QED BY <3>1, <3>2, <3>3
  <2>2. \E i \in T : Cardinality(Lower(T, i)) = (c + 1) - 1 BY <2>1
  <2>3. Nth(T, c + 1) \in T /\ Cardinality(Lower(T, Nth(T, c + 1))) = (c + 1) - 1
    <3> DEFINE P(i) == Cardinality(Lower(T, i)) = (c + 1) - 1
    <3>1. Nth(T, c + 1) = CHOOSE i \in T : P(i) BY Zenon DEF Nth
    <3>2. \E i \in T : P(i) BY <2>2
    <3> HIDE DEF T, P
    <3>3. P(Nth(T, c + 1)) /\ Nth(T, c + 1) \in T BY <3>1, <3>2
    <3> QED BY <3>3 DEF P
  <2> QED BY <2>1, <2>3
<1> QED BY <1>3, <1>5, <1>9, <1>10

\* The members of a set of numbers are counted off in order.
LEMMA NthIn ==
  ASSUME NEW n \in Nat, NEW S \in SUBSET (1 .. n), NEW k \in 1 .. Cardinality(S)
  PROVE  \E i \in S : Cardinality({j \in S : j < i}) = k - 1
<1> DEFINE Lower(i) == {j \in S : j < i}
           c == Cardinality(S)
           R == {i \in S : Cardinality(Lower(i)) >= k - 1}
<1>1. IsFiniteSet(S) /\ c \in Nat
  <2>1. IsFiniteSet(1 .. n) BY FS_Interval
  <2> QED BY <2>1, FS_Subset, FS_CardinalityType
<1>2. k \in Nat /\ k >= 1 /\ k <= c /\ k - 1 \in Nat BY <1>1
<1>3. \A i \in S : i \in Nat /\ i \in 0 .. n
  <2>1. \A i \in 1 .. n : i \in Nat /\ i \in 0 .. n OBVIOUS
  <2> QED BY <2>1
<1>4. ASSUME NEW T \in SUBSET S PROVE IsFiniteSet(T) /\ Cardinality(T) \in Nat
  BY <1>1, FS_Subset, FS_CardinalityType
<1>5. ASSUME NEW T \in SUBSET S, NEW m \in T, \A j \in T : j <= m, \A j \in S : j < m => j \in T
      PROVE  Cardinality(T) = Cardinality(Lower(m)) + 1
  <2>0. Lower(m) \in SUBSET S OBVIOUS
  <2>1. T = Lower(m) \cup {m}
    <3>1. \A j \in T : j = m \/ j < m BY <1>3, <1>5
    <3> QED BY <1>5, <3>1
  <2>2. m \notin Lower(m) BY <1>3
  <2> HIDE DEF Lower
  <2> QED BY <1>4, <2>0, <2>1, <2>2, FS_AddElement
<1>6. S # {}
  <2> SUFFICES ASSUME S = {} PROVE FALSE OBVIOUS
  <2>1. c = 0 BY FS_EmptySet
  <2> QED BY <1>2, <2>1
<1>7. S \in SUBSET (0 .. n) BY <1>3
<1>8. PICK m \in S : \A j \in S : j <= m BY <1>6, <1>7, Extremes
<1>9. m \in R
  <2>1. c = Cardinality(Lower(m)) + 1 BY <1>5, <1>8
  <2>2. Cardinality(Lower(m)) \in Nat
    <3>1. Lower(m) \in SUBSET S OBVIOUS
    <3> HIDE DEF Lower
    <3> QED BY <1>4, <3>1
  <2> HIDE DEF c, Lower
  <2>3. Cardinality(Lower(m)) >= k - 1 BY <1>1, <1>2, <2>1, <2>2
  <2> QED BY <2>3
<1>10. R \in SUBSET (0 .. n) /\ R # {} BY <1>7, <1>9
<1>11. PICK i \in R : \A j \in R : i <= j
  <2> HIDE DEF R
  <2> QED BY <1>10, Extremes
<1>12. i \in S /\ Cardinality(Lower(i)) >= k - 1 BY <1>11
<1>13. Lower(i) \in SUBSET S OBVIOUS
<1>14. Cardinality(Lower(i)) \in Nat
  <2> HIDE DEF Lower
  <2> QED BY <1>4, <1>13
<1>15. ~(Cardinality(Lower(i)) >= k)
  <2> SUFFICES ASSUME Cardinality(Lower(i)) >= k PROVE FALSE OBVIOUS
  <2>1. Lower(i) # {}
    <3> SUFFICES ASSUME Lower(i) = {} PROVE FALSE OBVIOUS
    <3>1. Cardinality(Lower(i)) = 0 BY FS_EmptySet
    <3> HIDE DEF Lower
    <3> QED BY <1>2, <3>1
  <2>2. Lower(i) \in SUBSET (0 .. n) BY <1>7
  <2>3. PICK x \in Lower(i) : \A j \in Lower(i) : j <= x
    <3> HIDE DEF Lower
    <3> QED BY <2>1, <2>2, Extremes
  <2>4. x \in S /\ x < i /\ x \in Nat /\ i \in Nat BY <1>3, <1>12, <2>3
  <2>5. \A j \in S : j < x => j \in Lower(i)
    <3> SUFFICES ASSUME NEW j \in S, j < x PROVE j < i OBVIOUS
    <3> QED BY <1>3, <2>4
  <2>6. Cardinality(Lower(i)) = Cardinality(Lower(x)) + 1 BY <1>5, <1>13, <2>3, <2>5
  <2>7. Lower(x) \in SUBSET S OBVIOUS
  <2>8. Cardinality(Lower(x)) >= k - 1
    <3> HIDE DEF Lower
    <3>1. Cardinality(Lower(x)) \in Nat BY <1>4, <2>7
    <3> QED BY <1>2, <1>14, <2>6, <3>1
  <2>9. x \in R BY <2>4, <2>8
  <2>10. i <= x BY <1>11, <2>9
  <2> QED BY <2>4, <2>10
<1>16. Cardinality(Lower(i)) = k - 1
  <2> HIDE DEF Lower
  <2> QED BY <1>2, <1>12, <1>14, <1>15
<1> QED BY <1>12, <1>16

\* A list has as many activations as the frames it is of.
LEMMA ListedSeq ==
  ASSUME NEW fs, NEW n \in Nat, NEW S \in SUBSET (1 .. n)
  PROVE  IsSeq(Listed(fs, S)) /\ Len(Listed(fs, S)) = Cardinality(S)
<1>1. IsFiniteSet(1 .. n) BY FS_Interval
<1>2. IsFiniteSet(S) BY <1>1, FS_Subset
<1>3. Cardinality(S) \in Nat BY <1>2, FS_CardinalityType
<1> DEFINE L == Listed(fs, S)
<1>4. DOMAIN L = 1 .. Cardinality(S) BY DEF Listed
<1>5. L \in [1 .. Cardinality(S) -> {L[i] : i \in 1 .. Cardinality(S)}] BY DEF Listed
<1> HIDE DEF L
<1>6. L \in Seq({L[i] : i \in 1 .. Cardinality(S)}) BY <1>3, <1>5
<1> QED BY <1>3, <1>4, <1>6 DEF L, IsSeq

\* the numbers of S go up to n, N is the next
NextIndex(n, S, N) == n \in Nat /\ S \in SUBSET (1 .. n) /\ N = n + 1

\* One more frame that shows.
LEMMA ListedMore ==
  ASSUME NEW fs, NEW gs, NEW n, NEW S, NEW N, NextIndex(n, S, N), \A i \in S : gs[i] = fs[i]
  PROVE  Listed(gs, S \cup {N}) = Append(Listed(fs, S), ActOf(gs[N]))
<1> DEFINE T == S \cup {N}
           c == Cardinality(S)
           L == Listed(fs, S)
           M == Listed(gs, T)
<1>0. n \in Nat /\ S \in SUBSET (1 .. n) /\ N = n + 1 BY DEF NextIndex
<1>1. /\ c \in Nat /\ Cardinality(T) = c + 1
      /\ \A k \in 1 .. c : Nth(T, k) = Nth(S, k)
      /\ Nth(T, c + 1) = N
  BY <1>0, NthMore
<1>2. IsSeq(L) /\ Len(L) = c BY <1>0, ListedSeq
<1>3. IsSeq(M) /\ Len(M) = c + 1
  <2>1. n + 1 \in Nat /\ T \in SUBSET (1 .. n + 1) BY <1>0
  <2> HIDE DEF T
  <2> QED BY <1>1, <2>1, ListedSeq
<1>4. /\ IsSeq(Append(L, ActOf(gs[N]))) /\ Len(Append(L, ActOf(gs[N]))) = c + 1
      /\ \A i \in 1 .. c : Append(L, ActOf(gs[N]))[i] = L[i]
      /\ Append(L, ActOf(gs[N]))[c + 1] = ActOf(gs[N])
  <2> HIDE DEF L
  <2> QED BY <1>2, SeqAppend
<1>5. ASSUME NEW k \in 1 .. c + 1 PROVE M[k] = Append(L, ActOf(gs[N]))[k]
  <2>1. M[k] = ActOf(gs[Nth(T, k)])
    <3> HIDE DEF T
    <3> QED BY <1>1 DEF Listed
  <2>2. CASE k = c + 1 BY <1>1, <1>4, <2>1, <2>2
  <2>3. CASE k \in 1 .. c
    <3>1. L[k] = ActOf(fs[Nth(S, k)]) BY <2>3 DEF Listed
    <3>2. Nth(S, k) \in S
      <4>1. \E i \in S : Cardinality({j \in S : j < i}) = k - 1
        BY <1>0, <2>3, NthIn
      <4> QED BY <4>1, Zenon DEF Nth
    <3> QED BY <1>1, <1>4, <2>1, <2>3, <3>1, <3>2
  <2>4. k = c + 1 \/ k \in 1 .. c
    <3>1. c \in Nat BY <1>1
    <3> HIDE DEF c
    <3> QED BY <3>1
  <2> QED BY <2>2, <2>3, <2>4
<1> HIDE DEF M, L, T
<1> QED BY <1>3, <1>4, <1>5, SeqSame DEF M, L, T
\* The same frames are listed as the same activations.
LEMMA ListedSame ==
  ASSUME NEW fs, NEW gs, NEW n \in Nat, NEW S \in SUBSET (1 .. n), \A i \in S : ActOf(gs[i]) = ActOf(fs[i])
  PROVE  Listed(gs, S) = Listed(fs, S)
<1>1. /\ IsSeq(Listed(fs, S)) /\ Len(Listed(fs, S)) = Cardinality(S)
      /\ IsSeq(Listed(gs, S)) /\ Len(Listed(gs, S)) = Cardinality(S)
  BY ListedSeq
<1>2. ASSUME NEW k \in 1 .. Cardinality(S) PROVE Listed(gs, S)[k] = Listed(fs, S)[k]
  <2>1. \E i \in S : Cardinality({j \in S : j < i}) = k - 1 BY NthIn
  <2>2. Nth(S, k) \in S BY <2>1, Zenon DEF Nth
  <2>3. Listed(gs, S)[k] = ActOf(gs[Nth(S, k)]) /\ Listed(fs, S)[k] = ActOf(fs[Nth(S, k)]) BY DEF Listed
  <2> QED BY <2>2, <2>3
<1> QED BY <1>1, <1>2, SeqSame

\* the activations of a list of frames in mode m
Acts(cd, fs, m) == Listed(fs, Showing(cd, fs, m))

\* A waiting frame adds its activation unless it is at a tail call.
LEMMA RestMore ==
  ASSUME NEW cd, NEW fs, IsSeq(fs), NEW F
  PROVE  /\ IsSeq(Rest(cd, fs))
         /\ Rest(cd, Append(fs, F)) =
              IF Tailing(cd, F) THEN Rest(cd, fs) ELSE Append(Rest(cd, fs), ActOf(F))
<1> DEFINE n == Len(fs)
           gs == Append(fs, F)
           S == Waiting(cd, fs)
           N == n + 1
<1>1. n \in Nat BY SeqIs
<1>2. IsSeq(gs) /\ Len(gs) = n + 1 /\ gs[n + 1] = F /\ \A i \in 1 .. n : gs[i] = fs[i] BY SeqAppend
<1>3. S \in SUBSET (1 .. n) BY DEF Waiting
<1>4. Waiting(cd, gs) = IF Tailing(cd, F) THEN S ELSE S \cup {N}
  <2>1. \A i : i \in 1 .. n + 1 <=> i \in 1 .. n \/ i = N
    <3>1. \A z \in Nat : \A i \in 1 .. z + 1 : i \in 1 .. z \/ i = z + 1 OBVIOUS
    <3>2. \A z \in Nat : (\A i \in 1 .. z : i \in 1 .. z + 1) /\ z + 1 \in 1 .. z + 1 OBVIOUS
    <3> HIDE DEF n
    <3> QED BY <1>1, <3>1, <3>2
  <2>2. \A i : i \in 1 .. n => i # N BY <1>1
  <2> HIDE DEF gs
  <2> QED BY <1>2, <2>1, <2>2 DEF Waiting
<1> HIDE DEF S, gs
<1>5. \A i \in S : gs[i] = fs[i] BY <1>2, <1>3
<1>6. Listed(gs, S) = Listed(fs, S) BY <1>1, <1>3, <1>5, ListedSame
<1>7. Listed(gs, S \cup {N}) = Append(Listed(fs, S), ActOf(gs[N]))
  <2>1. NextIndex(n, S, N) BY <1>1, <1>3 DEF NextIndex
  <2> HIDE DEF n, N
  <2> QED BY <1>5, <2>1, ListedMore
<1>8. IsSeq(Listed(fs, S)) BY <1>1, <1>3, ListedSeq
<1>9. Rest(cd, gs) = IF Tailing(cd, F) THEN Listed(fs, S) ELSE Append(Listed(fs, S), ActOf(F))
  BY <1>2, <1>4, <1>6, <1>7 DEF Rest
<1> QED BY <1>8, <1>9 DEF Rest, S, gs

\* The frame that executes adds its activation.
LEMMA ActsPush ==
  ASSUME NEW cd, NEW fs, IsSeq(fs), NEW F, NEW m, m # "exn"
  PROVE  Acts(cd, Append(fs, F), m) = Append(Rest(cd, fs), ActOf(F))
<1> DEFINE n == Len(fs)
           gs == Append(fs, F)
           S == Waiting(cd, fs)
           N == n + 1
<1>1. n \in Nat BY SeqIs
<1>2. IsSeq(gs) /\ Len(gs) = n + 1 /\ gs[n + 1] = F /\ \A i \in 1 .. n : gs[i] = fs[i] BY SeqAppend
<1>3. S \in SUBSET (1 .. n) BY DEF Waiting
<1>4. Showing(cd, gs, m) = S \cup {N}
  <2>1. \A i : i \in 1 .. n + 1 <=> i \in 1 .. n \/ i = N
    <3>1. \A z \in Nat : \A i \in 1 .. z + 1 : i \in 1 .. z \/ i = z + 1 OBVIOUS
    <3>2. \A z \in Nat : (\A i \in 1 .. z : i \in 1 .. z + 1) /\ z + 1 \in 1 .. z + 1 OBVIOUS
    <3> HIDE DEF n
    <3> QED BY <1>1, <3>1, <3>2
  <2>2. (\A i : i \in 1 .. n => i < N) /\ ~(N < N) BY <1>1
  <2> HIDE DEF gs
  <2>3. ASSUME NEW i PROVE i \in Showing(cd, gs, m) <=> i \in S \cup {N}
    <3>1. CASE i = N BY <1>2, <2>1, <2>2, <3>1 DEF Showing
    <3>2. CASE i \in 1 .. n
      <4>1. i < Len(gs) /\ gs[i] = fs[i] /\ i # N BY <1>2, <2>2, <3>2
      <4> QED BY <1>2, <2>1, <3>2, <4>1 DEF Showing, Waiting
    <3>3. CASE i # N /\ i \notin 1 .. n BY <1>2, <2>1, <3>3 DEF Showing, Waiting
    <3> QED BY <3>1, <3>2, <3>3
  <2> QED BY <2>3
<1> HIDE DEF S, gs
<1>5. \A i \in S : gs[i] = fs[i] BY <1>2, <1>3
<1>6. Listed(gs, S \cup {N}) = Append(Listed(fs, S), ActOf(gs[N]))
  <2>1. NextIndex(n, S, N) BY <1>1, <1>3 DEF NextIndex
  <2> HIDE DEF n, N
  <2> QED BY <1>5, <2>1, ListedMore
<1>7. Acts(cd, gs, m) = Append(Listed(fs, S), ActOf(F)) BY <1>2, <1>4, <1>6 DEF Acts
<1> QED BY <1>7 DEF Rest, S, gs

\* While an exception unwinds all frames wait.
LEMMA ActsExn == ASSUME NEW cd, NEW fs PROVE Acts(cd, fs, "exn") = Rest(cd, fs)
<1>1. Showing(cd, fs, "exn") = Waiting(cd, fs) BY DEF Showing, Waiting
<1> QED BY <1>1 DEF Acts, Rest

\* No frame, no activation.
LEMMA ActsNone == ASSUME NEW cd, NEW m PROVE Acts(cd, <<>>, m) = <<>> /\ Rest(cd, <<>>) = <<>>
<1>1. Len(<<>>) = 0 BY SeqEmpty
<1>2. Showing(cd, <<>>, m) = {} /\ Waiting(cd, <<>>) = {} BY <1>1 DEF Showing, Waiting
<1>3. IsSeq(Listed(<<>>, {})) /\ Len(Listed(<<>>, {})) = Cardinality({})
  <2>1. {} \in SUBSET (1 .. 0) /\ 0 \in Nat OBVIOUS
  <2> QED BY <2>1, ListedSeq
<1>4. Cardinality({}) = 0 BY FS_EmptySet
<1> QED BY <1>2, <1>3, <1>4, SeqEmpty DEF Acts, Rest

\* A list of frames is its front and its top.
LEMMA FrontTop ==
  ASSUME NEW fs, IsSeq(fs), fs # <<>>
  PROVE  /\ IsSeq(DropN(fs, 1)) /\ fs = Append(DropN(fs, 1), fs[Len(fs)])
         /\ \A G : [fs EXCEPT ![Len(fs)] = G] = Append(DropN(fs, 1), G)
         /\ Len(DropN(fs, 1)) = Len(fs) - 1 /\ \A i \in 1 .. Len(fs) - 1 : DropN(fs, 1)[i] = fs[i]
<1>1. Len(fs) \in Nat /\ Len(fs) \in 1 .. Len(fs) BY NonEmpty
<1> DEFINE n == Len(fs)
           d == SubSeq(fs, 1, n - 1)
<1>2. n - 1 \in 0 .. n /\ (n - 1) + 1 = n BY <1>1
<1>3. IsSeq(d) /\ Len(d) = n - 1 /\ \A i \in 1 .. n - 1 : d[i] = fs[i] BY <1>2, SeqCut
<1>4. DropN(fs, 1) = d BY DEF DropN
<1> HIDE DEF d
<1>5. ASSUME NEW G
      PROVE  /\ IsSeq(Append(d, G)) /\ Len(Append(d, G)) = n /\ Append(d, G)[n] = G
             /\ \A i \in 1 .. n - 1 : Append(d, G)[i] = fs[i]
  <2>1. /\ IsSeq(Append(d, G)) /\ Len(Append(d, G)) = Len(d) + 1
        /\ \A i \in 1 .. Len(d) : Append(d, G)[i] = d[i]
        /\ Append(d, G)[Len(d) + 1] = G
    BY <1>3, SeqAppend
  <2> HIDE DEF n
  <2> QED BY <1>2, <1>3, <2>1
<1>6. \A i \in 1 .. n : i = n \/ i \in 1 .. n - 1 BY <1>1
<1>7. fs = Append(d, fs[n])
  <2>1. \A i \in 1 .. n : Append(d, fs[n])[i] = fs[i] BY <1>5, <1>6
  <2> HIDE DEF n
  <2>2. Len(fs) = n BY DEF n
  <2> QED BY ZenonT(30), <1>5, <2>1, <2>2, SeqSame
<1>8. ASSUME NEW G PROVE [fs EXCEPT ![n] = G] = Append(d, G)
  <2>1. /\ IsSeq([fs EXCEPT ![n] = G]) /\ Len([fs EXCEPT ![n] = G]) = n
        /\ \A i \in 1 .. n : [fs EXCEPT ![n] = G][i] = IF i = n THEN G ELSE fs[i]
    BY <1>1, SeqExcept
  <2>2. \A i \in 1 .. n - 1 : i # n BY <1>1
  <2>3. \A i \in 1 .. n : Append(d, G)[i] = [fs EXCEPT ![n] = G][i] BY <1>5, <1>6, <2>1, <2>2
  <2> HIDE DEF n
  <2> QED BY <1>5, <2>1, <2>3, SeqSame
<1> QED BY <1>3, <1>4, <1>7, <1>8

----------------------------------------------------------------------------
(* The steps of WasmControl. *)

\* the innermost activation is at p of f, A are those below it
Stand(A, f, p) == IsSeq(A) /\ Activations = Append(A, <<f, p>>)

\* The activation on top, its instruction and what goes on in it.
LEMMA ActIs ==
  ASSUME NEW A, NEW f, NEW p, Stand(A, f, p)
  PROVE  /\ Control!Act = <<f, p>> /\ Control!Instr = code[f][p] /\ Control!Nest = snap[f][p]
         /\ \A q : Control!Goto(q) = Append(A, <<f, q>>)
         /\ Control!DropN(Activations, 1) = A /\ Len(Activations) = Len(A) + 1 /\ Len(A) \in Nat
         /\ Activations # <<>>
<1> DEFINE B == Append(A, <<f, p>>)
           n == Len(A)
<1>1. Activations = B /\ IsSeq(A) BY DEF Stand
<1>2. n \in Nat BY <1>1, SeqIs
<1>3. IsSeq(B) /\ Len(B) = n + 1 /\ B[n + 1] = <<f, p>> /\ \A i \in 1 .. n : B[i] = A[i]
  BY <1>1, SeqAppend
<1>4. Control!Act = <<f, p>> BY <1>1, <1>3 DEF Control!Act
<1>5. <<f, p>>[1] = f /\ <<f, p>>[2] = p OBVIOUS
<1>6. Control!Instr = code[f][p] /\ Control!Nest = snap[f][p]
  BY <1>4, <1>5 DEF Control!Instr, Control!Nest
<1> HIDE DEF B
<1>7. B # <<>> BY <1>2, <1>3, SeqEmpty
<1>8. DropN(B, 1) = A
  <2>1. Len(DropN(B, 1)) = n + 1 - 1 /\ IsSeq(DropN(B, 1)) /\ \A i \in 1 .. n + 1 - 1 : DropN(B, 1)[i] = B[i]
    <3>1. n + 1 - 1 \in 0 .. Len(B) BY <1>2, <1>3
    <3> QED BY <1>3, <3>1, SeqCut DEF DropN
  <2>2. n + 1 - 1 = n BY <1>2
  <2> QED BY <1>1, <1>3, <2>1, <2>2, SeqSame
<1>9. ASSUME NEW q PROVE Control!Goto(q) = Append(A, <<f, q>>)
  <2>1. [B EXCEPT ![Len(B)] = <<f, q>>] = Append(DropN(B, 1), <<f, q>>) BY <1>3, <1>7, FrontTop
  <2>2. Control!Goto(q) = [B EXCEPT ![Len(B)] = <<f, q>>] BY <1>1, <1>4, <1>5 DEF Control!Goto
  <2> QED BY <1>8, <2>1, <2>2
<1>10. Control!DropN(Activations, 1) = A BY <1>1, <1>8 DEF DropN, Control!DropN
<1> QED BY <1>1, <1>2, <1>3, <1>4, <1>6, <1>7, <1>9, <1>10

\* While something is active the phase is the mode.
LEMMA PhaseIs ==
  /\ Activations # <<>> \/ mode # "exn" =>
       (IF Ended THEN "idle" ELSE mode) = mode /\ (IF Ended THEN "exn" ELSE last) = last
  /\ (Activations # <<>> \/ mode # "exn" =>
       (IF Ended THEN "idle" ELSE mode) = mode /\ (IF Ended THEN "exn" ELSE last) = last)'
  BY DEF Ended

\* where an instruction that stays in its activation goes on
LocalTo(f, p, q) ==
  LET i == code[f][p] s == snap[f][p] IN
  \/ i.op \in Openers \cup {"end", "push", "drop", "popcnt", "br_if"} /\ q = p + 1
  \/ i.op = "host" /\ i.n = 0 /\ q = p + 1
  \/ i.op = "if" /\ q = end_idx[f][p]
  \/ /\ i.op \in {"br", "br_if", "br_table"}
     /\ \E l \in {i.n} \cup (IF i.op = "br_table" THEN {0} ELSE {}) :
          q = LabelPc(f, s, LabelLvl(s, l))

\* A local step.
LEMMA AbsLocal ==
  ASSUME NEW A, NEW f, NEW p, NEW q, Stand(A, f, p), mode = "run", p <= Len(code[f]), LocalTo(f, p, q),
         Activations' = Append(A, <<f, q>>), mode' = "run", UNCHANGED <<pending, last, ninv>>,
         UNCHANGED progvars
  PROVE  Control!ANext
<1>1. /\ Control!Act = <<f, p>> /\ Control!Instr = code[f][p] /\ Control!Nest = snap[f][p]
      /\ \A x : Control!Goto(x) = Append(A, <<f, x>>)
  BY ActIs
<1>2. Control!Act[1] = f /\ Control!Act[2] = p BY <1>1
<1>3. Control!Inside BY <1>2, PhaseIs DEF Control!Inside
<1>4. UNCHANGED <<pending, IF Ended THEN "idle" ELSE mode, IF Ended THEN "exn" ELSE last, ninv>>
  BY PhaseIs
<1>5. \A s, k : Control!LabelPc(f, s, k) = LabelPc(f, s, k) /\ Control!LabelLvl(s, k) = LabelLvl(s, k)
  BY DEF Control!LabelPc, LabelPc, Control!LabelLvl, LabelLvl
<1>6. Control!Openers = Openers BY DEF Control!Openers, Openers
<1> DEFINE i == code[f][p]
           s == snap[f][p]
<1>7. \/ i.op \in Openers \cup {"end", "push", "drop", "popcnt", "br_if"} /\ Activations' = Control!Goto(p + 1)
      \/ i.op = "host" /\ i.n = 0 /\ Activations' = Control!Goto(p + 1)
      \/ i.op = "if" /\ Activations' = Control!Goto(end_idx[f][p])
      \/ /\ i.op \in {"br", "br_if", "br_table"}
         /\ \E l \in {i.n} \cup (IF i.op = "br_table" THEN {0} ELSE {}) :
              Activations' = Control!Goto(Control!LabelPc(f, s, Control!LabelLvl(s, l)))
  BY <1>1, <1>5 DEF LocalTo
<1>8. Control!Local BY <1>1, <1>2, <1>3, <1>4, <1>6, <1>7 DEF Control!Local
<1> QED BY <1>8 DEF Control!ANext, Control!progvars, progvars

\* A trap.
LEMMA AbsTrap ==
  ASSUME NEW A, NEW f, NEW p, Stand(A, f, p), mode = "run", p <= Len(code[f]),
         code[f][p].op \in {"unreachable", "call", "call_ref", "return_call"} \/ (code[f][p].op = "host" /\ code[f][p].n # 0),
         Activations' = <<>>, mode' = "idle", last' = "trap", UNCHANGED <<pending, ninv>>,
         UNCHANGED progvars
  PROVE  Control!ANext
<1>1. Control!Act = <<f, p>> /\ Control!Instr = code[f][p] BY ActIs
<1>2. Control!Act[1] = f /\ Control!Act[2] = p BY <1>1
<1>3. Control!Inside BY <1>2, PhaseIs DEF Control!Inside
<1>4. (IF Ended THEN "idle" ELSE mode)' = "idle" /\ (IF Ended THEN "exn" ELSE last)' = "trap" BY PhaseIs
<1>5. Control!Traps BY <1>1, <1>3, <1>4 DEF Control!Traps
<1> QED BY <1>5 DEF Control!ANext, Control!progvars, progvars

\* A call and a tail call.
LEMMA AbsCall ==
  ASSUME NEW A, NEW f, NEW p, Stand(A, f, p), mode = "run", p <= Len(code[f]),
         \/ /\ code[f][p].op \in {"call", "call_ref"}
            /\ Activations' = Append(Append(A, <<f, p>>), <<code[f][p].n, 1>>)
         \/ code[f][p].op = "return_call" /\ Activations' = Append(A, <<code[f][p].n, 1>>),
         mode' = "run", UNCHANGED <<pending, last, ninv>>, UNCHANGED progvars
  PROVE  Control!ANext
<1>1. Control!Act = <<f, p>> /\ Control!Instr = code[f][p] /\ Control!DropN(Activations, 1) = A BY ActIs
<1>2. Control!Act[1] = f /\ Control!Act[2] = p BY <1>1
<1>3. Control!Inside BY <1>2, PhaseIs DEF Control!Inside
<1>4. UNCHANGED <<pending, IF Ended THEN "idle" ELSE mode, IF Ended THEN "exn" ELSE last, ninv>>
  BY PhaseIs
<1>5. Activations = Append(A, <<f, p>>) BY DEF Stand
<1>6. Control!Calls BY <1>1, <1>3, <1>4, <1>5 DEF Control!Calls
<1> QED BY <1>6 DEF Control!ANext, Control!progvars, progvars

\* A return ends the invocation or goes on in the caller.
LEMMA AbsReturn ==
  ASSUME NEW A, NEW f, NEW p, Stand(A, f, p), mode = "run",
         p <= Len(code[f]) => code[f][p].op = "return",
         UNCHANGED <<pending, ninv>>, UNCHANGED progvars,
         \/ A = <<>> /\ Activations' = <<>> /\ mode' = "idle" /\ last' = "ok"
         \/ \E B, g, r : /\ IsSeq(B) /\ A = Append(B, <<g, r>>) /\ Activations' = Append(B, <<g, r + 1>>)
                         /\ mode' = "run" /\ last' = last
  PROVE  Control!ANext
<1>1. /\ Control!Act = <<f, p>> /\ Control!Instr = code[f][p] /\ Control!DropN(Activations, 1) = A
      /\ Len(Activations) = Len(A) + 1 /\ Len(A) \in Nat
  BY ActIs
<1>2. Control!Act[1] = f /\ Control!Act[2] = p BY <1>1
<1>3. Control!Inside => Control!Instr.op = "return" BY <1>1, <1>2, PhaseIs DEF Control!Inside
<1>4. (IF Ended THEN "idle" ELSE mode) = "run" BY PhaseIs
<1>5. CASE A = <<>> /\ Activations' = <<>> /\ mode' = "idle" /\ last' = "ok"
  <2>1. (IF Ended THEN "idle" ELSE mode)' = "idle" /\ (IF Ended THEN "exn" ELSE last)' = "ok" BY <1>5, PhaseIs
  <2>2. Len(Activations) = 1 BY <1>1, <1>5, SeqEmpty
  <2>3. Control!Returns BY <1>3, <1>4, <1>5, <2>1, <2>2 DEF Control!Returns
  <2> QED BY <2>3 DEF Control!ANext, Control!progvars, progvars
<1>6. ASSUME NEW B, NEW g, NEW r, IsSeq(B), A = Append(B, <<g, r>>), Activations' = Append(B, <<g, r + 1>>),
             mode' = "run", last' = last
      PROVE  Control!ANext
  <2>1. UNCHANGED <<pending, IF Ended THEN "idle" ELSE mode, IF Ended THEN "exn" ELSE last, ninv>>
    BY <1>6, PhaseIs, ActIs
  <2>2. IsSeq(A) /\ Len(A) = Len(B) + 1 /\ A[Len(A)] = <<g, r>> /\ Len(B) \in Nat BY <1>6, SeqAppend, SeqIs
  <2>3. Len(Activations) # 1 BY <1>1, <2>2
  <2>4. A # <<>> BY <2>2, SeqEmpty
  <2>5. DropN(A, 1) = B
    <3>1. Len(DropN(A, 1)) = Len(A) - 1 /\ IsSeq(DropN(A, 1)) /\ \A i \in 1 .. Len(A) - 1 : DropN(A, 1)[i] = A[i]
      BY <2>2, <2>4, FrontTop
    <3>2. Len(A) - 1 = Len(B) BY <2>2
    <3>3. \A i \in 1 .. Len(B) : A[i] = B[i] BY <1>6, SeqAppend
    <3> QED BY <1>6, <3>1, <3>2, <3>3, SeqSame
  <2>6. [A EXCEPT ![Len(A)] = <<g, r + 1>>] = Append(B, <<g, r + 1>>) BY <2>2, <2>4, <2>5, FrontTop
  <2>7. <<g, r>>[1] = g /\ <<g, r>>[2] = r OBVIOUS
  <2>8. Control!Returns BY <1>1, <1>3, <1>4, <1>6, <2>1, <2>2, <2>3, <2>6, <2>7 DEF Control!Returns
  <2> QED BY <2>8 DEF Control!ANext, Control!progvars, progvars
<1> QED BY <1>5, <1>6

\* the levels around p of f that catch t
Catching(f, p, t) ==
  {k \in 1 .. Len(snap[f][p].ctrl) :
     /\ snap[f][p].ctrl[k].op = "try_table"
     /\ FirstClause(code[f][snap[f][p].ctrl[k].blk], t) # 0}

\* the clause of WasmControl
AClause(i, t) ==
  CHOOSE j \in DOMAIN i.cs : Matches(i.cs[j], t) /\ \A x \in 1 .. j - 1 : ~Matches(i.cs[x], t)

\* The first clause is the one with no matching clause before it.
LEMMA ClauseFirst ==
  ASSUME NEW i, IsSeq(i.cs), NEW t
  PROVE  /\ FirstClause(i, t) # 0 <=> \E j \in DOMAIN i.cs : Matches(i.cs[j], t)
         /\ FirstClause(i, t) # 0 => FirstClause(i, t) = AClause(i, t)
<1> DEFINE M == {c \in DOMAIN i.cs : Matches(i.cs[c], t)}
           n == Len(i.cs)
           m == CHOOSE c \in M : \A d \in M : c <= d
<1>1. n \in Nat /\ DOMAIN i.cs = 1 .. n BY SeqIs
<1>2. CASE M = {} 
  <2>1. FirstClause(i, t) = 0 BY <1>2 DEF FirstClause
  <2> QED BY <1>2, <2>1
<1>3. CASE M # {}
  <2>1. FirstClause(i, t) = m BY <1>3 DEF FirstClause
  <2>2. M \in SUBSET (0 .. n)
    <3>1. \A x \in 1 .. n : x \in 0 .. n OBVIOUS
    <3> QED BY <1>1, <3>1
  <2>3. m \in M /\ \A d \in M : m <= d
    <3>1. \E c \in M : \A d \in M : c <= d
      <4> HIDE DEF M, n
      <4> QED BY <1>1, <1>3, <2>2, Extremes
    <3> HIDE DEF M
    <3> QED BY <3>1
  <2> HIDE DEF m
  <2>4. m \in DOMAIN i.cs /\ Matches(i.cs[m], t) BY <2>3
  <2>5. m \in Nat /\ m # 0 /\ m <= n BY <1>1, <2>4
  <2>6. ASSUME NEW j \in DOMAIN i.cs
        PROVE  Matches(i.cs[j], t) /\ (\A x \in 1 .. j - 1 : ~Matches(i.cs[x], t)) <=> j = m
    <3>0. j \in Nat /\ j # 0 /\ j <= n BY <1>1
    <3>1. CASE j = m
      <4>1. ASSUME NEW x \in 1 .. j - 1, Matches(i.cs[x], t) PROVE FALSE
        <5>1. x \in DOMAIN i.cs /\ ~(m <= x) BY <1>1, <2>5, <3>0, <3>1
        <5>2. x \in M BY <4>1, <5>1
        <5> QED BY <2>3, <5>1, <5>2
      <4> QED BY <2>4, <3>1, <4>1
    <3>2. CASE j # m
      <4> SUFFICES ASSUME Matches(i.cs[j], t) PROVE \E x \in 1 .. j - 1 : Matches(i.cs[x], t) BY <3>2
      <4>1. j \in M OBVIOUS
      <4>2. m <= j BY <2>3, <4>1
      <4>3. m \in 1 .. j - 1 BY <2>5, <3>0, <3>2, <4>2
      <4> QED BY <2>4, <4>3
    <3> QED BY <3>1, <3>2
  <2>7. AClause(i, t) = m
    <3> DEFINE D == DOMAIN i.cs
               P(j) == Matches(i.cs[j], t) /\ (\A x \in 1 .. j - 1 : ~Matches(i.cs[x], t))
    <3>1. AClause(i, t) = CHOOSE j \in D : P(j) BY Zenon DEF AClause
    <3>2. m \in D /\ \A j \in D : P(j) <=> j = m BY <2>4, <2>6
    <3> HIDE DEF D, P
    <3> QED BY <3>1, <3>2
  <2> QED BY <2>1, <2>4, <2>5, <2>7
<1> QED BY <1>2, <1>3

\* The catching levels of WasmControl are these, and so are its clauses.
LEMMA CatchingAre ==
  ASSUME ProgInv, NEW f \in Funcs, NEW p \in 1 .. Len(code[f]), NEW t
  PROVE  /\ Control!ACatching(f, snap[f][p], t) = Catching(f, p, t)
         /\ Catching(f, p, t) \in SUBSET (0 .. Len(snap[f][p].ctrl)) /\ Len(snap[f][p].ctrl) \in Nat
         /\ \A k \in Catching(f, p, t) :
              LET i == code[f][snap[f][p].ctrl[k].blk]
              IN FirstClause(i, t) = AClause(i, t)
<1> DEFINE C == snap[f][p].ctrl
<1>1. Len(C) \in Nat
  <2>1. Len(code[f]) \in Nat BY BodyIs
  <2>2. p \in 1 .. Len(code[f]) + 1 BY <2>1
  <2> QED BY <2>2, BodyIs
<1>2. ASSUME NEW k \in 1 .. Len(C), C[k].op = "try_table" PROVE IsSeq(code[f][C[k].blk].cs)
  <2>1. C[k].blk \in 1 .. Len(code[f]) /\ Opens(code[f], snap[f], C[k].blk) BY BlockIs
  <2>2. At1(f, C[k].blk) BY <2>1 DEF At1, Reach, Opens
  <2>3. code[f][C[k].blk] \in InstrType BY <2>2, RunsIs
  <2>4. code[f][C[k].blk].cs \in Seq(Clauses) BY <2>3 DEF InstrType
  <2> QED BY <2>4 DEF IsSeq
<1>3. \A c : Control!Matches(c, t) <=> Matches(c, t) BY DEF Control!Matches, Matches
<1>4. ASSUME NEW k \in 1 .. Len(C), C[k].op = "try_table"
      PROVE  (\E j \in DOMAIN Control!AClauses(f, snap[f][p], k) : Control!Matches(Control!AClauses(f, snap[f][p], k)[j], t))
               <=> FirstClause(code[f][C[k].blk], t) # 0
  BY <1>2, <1>3, <1>4, ClauseFirst DEF Control!AClauses
<1>5. Control!ACatching(f, snap[f][p], t) = Catching(f, p, t)
  BY <1>4 DEF Control!ACatching, Catching
<1>6. \A k \in Catching(f, p, t) : FirstClause(code[f][C[k].blk], t) = AClause(code[f][C[k].blk], t)
  BY <1>2, ClauseFirst DEF Catching
<1>7. Catching(f, p, t) \in SUBSET (0 .. Len(C))
  <2>1. \A z \in Nat : \A x \in 1 .. z : x \in 0 .. z OBVIOUS
  <2> QED BY <1>1, <2>1 DEF Catching
<1> QED BY <1>1, <1>5, <1>6, <1>7

\* t is thrown in the innermost activation, or has reached it
Raising(A, f, p, t) ==
  /\ Stand(A, f, p)
  /\ \/ /\ mode = "run" /\ p <= Len(code[f])
        /\ \/ code[f][p].op = "throw" /\ code[f][p].t = t
           \/ code[f][p].op = "throw_ref" /\ t \in Tags
     \/ mode = "exn" /\ pending = t

\* What raises t is a step of WasmControl.
LEMMA RaiseStep ==
  ASSUME NEW A, NEW f, NEW p, NEW t, Raising(A, f, p, t), Control!Raise(t), UNCHANGED ninv, UNCHANGED progvars
  PROVE  Control!ANext
<1>1. Control!Act = <<f, p>> /\ Control!Instr = code[f][p] /\ Activations # <<>> BY ActIs DEF Raising
<1>2. Control!Act[1] = f /\ Control!Act[2] = p BY <1>1
<1>3. (IF Ended THEN "idle" ELSE mode) = mode BY <1>1, PhaseIs
<1>4. Control!Throws
  <2>1. CASE mode = "exn" /\ pending = t BY <1>3, <2>1 DEF Control!Throws
  <2>2. CASE mode = "run" /\ p <= Len(code[f]) /\ code[f][p].op = "throw" /\ code[f][p].t = t
    <3>1. Control!Inside BY <1>2, <1>3, <2>2 DEF Control!Inside
    <3> QED BY <1>1, <2>2, <3>1 DEF Control!Throws
  <2>3. CASE mode = "run" /\ p <= Len(code[f]) /\ code[f][p].op = "throw_ref" /\ t \in Tags
    <3>1. Control!Inside BY <1>2, <1>3, <2>3 DEF Control!Inside
    <3> QED BY <1>1, <2>3, <3>1 DEF Control!Throws
  <2> QED BY <2>1, <2>2, <2>3 DEF Raising
<1> QED BY <1>4 DEF Control!ANext, Control!progvars, progvars

\* where the innermost level that catches t goes on
LandsAt(f, p, t) ==
  LET k == CHOOSE k \in Catching(f, p, t) : \A j \in Catching(f, p, t) : j <= k
      i == code[f][snap[f][p].ctrl[k].blk]
  IN LabelPc(f, snap[f][p], k - 1 - i.cs[FirstClause(i, t)].label)

\* The exception is caught.
LEMMA AbsCaught ==
  ASSUME ProgInv, NEW A, NEW f \in Funcs, NEW p \in 1 .. Len(code[f]), NEW t, Raising(A, f, p, t),
         Catching(f, p, t) # {}, Activations' = Append(A, <<f, LandsAt(f, p, t)>>),
         mode' = "run", pending' = NoExn, UNCHANGED <<last, ninv>>, UNCHANGED progvars
  PROVE  Control!ANext
<1> DEFINE K == Catching(f, p, t)
           k == CHOOSE k \in K : \A j \in K : j <= k
           s == snap[f][p]
           i == code[f][s.ctrl[k].blk]
<1>1. /\ Control!Act = <<f, p>> /\ Control!Nest = s /\ Activations # <<>>
      /\ \A q : Control!Goto(q) = Append(A, <<f, q>>)
  BY ActIs DEF Raising
<1>2. Control!ACatching(f, s, t) = K /\ K \in SUBSET (0 .. Len(s.ctrl)) /\ Len(s.ctrl) \in Nat
  BY CatchingAre
<1>3. k \in K
  <2>1. \E x \in K : \A y \in K : y <= x
    <3> HIDE DEF K
    <3> QED BY <1>2, Extremes DEF K
  <2> QED BY <2>1
<1>4. FirstClause(i, t) = AClause(i, t) BY <1>3, CatchingAre
<1>5. LandsAt(f, p, t) = LabelPc(f, s, k - 1 - i.cs[AClause(i, t)].label)
  <2>1. LandsAt(f, p, t) = LabelPc(f, s, k - 1 - i.cs[FirstClause(i, t)].label) BY DEF LandsAt
  <2> QED BY <1>4, <2>1
<1>6. \A x : Control!LabelPc(f, s, x) = LabelPc(f, s, x) BY DEF Control!LabelPc, LabelPc
<1>7. \A c : Control!Matches(c, t) <=> Matches(c, t) BY DEF Control!Matches, Matches
<1>8. Control!AClauses(f, s, k) = i.cs BY DEF Control!AClauses
<1>9. (CHOOSE j \in DOMAIN i.cs : Control!Matches(i.cs[j], t) /\ \A x \in 1 .. j - 1 : ~Control!Matches(i.cs[x], t))
        = AClause(i, t)
  BY <1>7 DEF AClause
<1>10. (IF Ended THEN "idle" ELSE mode)' = "run" /\ UNCHANGED (IF Ended THEN "exn" ELSE last)
  BY <1>1, PhaseIs
<1>11. <<f, p>>[1] = f OBVIOUS
<1> DEFINE j == CHOOSE j \in DOMAIN i.cs : Control!Matches(i.cs[j], t) /\ \A x \in 1 .. j - 1 : ~Control!Matches(i.cs[x], t)
<1>12. Activations' = Control!Goto(Control!LabelPc(f, s, k - 1 - i.cs[j].label))
  <2>1. j = AClause(i, t) BY <1>9
  <2> HIDE DEF j, k, i
  <2> QED BY <1>1, <1>5, <1>6, <2>1
<1>13. Control!Raise(t)
  <2>1. pending' = Control!NoTag BY DEF NoExn, NoTag, Control!NoTag
  <2> QED BY ZenonT(30), <1>1, <1>2, <1>8, <1>10, <1>11, <1>12, <2>1 DEF Control!Raise
<1> QED BY <1>13, RaiseStep

\* Nothing around p catches it: the activation ends.
LEMMA AbsUncaught ==
  ASSUME ProgInv, NEW A, NEW f \in Funcs, NEW p \in 1 .. Len(code[f]), NEW t, Raising(A, f, p, t),
         Catching(f, p, t) = {}, Activations' = A, pending' = t, ninv' = ninv, UNCHANGED progvars,
         (mode' = "exn" /\ last' = last) \/ (A = <<>> /\ mode' = "idle" /\ last' = "exn")
  PROVE  Control!ANext
<1>1. /\ Control!Act = <<f, p>> /\ Control!Nest = snap[f][p] /\ Activations # <<>>
      /\ Control!DropN(Activations, 1) = A /\ Len(Activations) = Len(A) + 1 /\ Len(A) \in Nat
  BY ActIs DEF Raising
<1>2. Control!ACatching(f, snap[f][p], t) = {} BY CatchingAre
<1>3. <<f, p>>[1] = f OBVIOUS
<1>4. IsSeq(A) BY DEF Raising, Stand
<1>5. IF Len(Activations) = 1 THEN (IF Ended THEN "idle" ELSE mode)' = "idle" /\ (IF Ended THEN "exn" ELSE last)' = "exn"
      ELSE (IF Ended THEN "idle" ELSE mode)' = "exn" /\ UNCHANGED (IF Ended THEN "exn" ELSE last)
  <2>1. CASE A = <<>>
    <3>1. Len(Activations) = 1 BY <1>1, <2>1, SeqEmpty
    <3> QED BY <2>1, <3>1 DEF Ended
  <2>2. CASE A # <<>>
    <3>1. Len(Activations) # 1 BY <1>1, <1>4, <2>2, SeqEmpty
    <3> QED BY <1>1, <2>2, <3>1, PhaseIs
  <2> QED BY <2>1, <2>2
<1>6. Control!Raise(t) BY <1>1, <1>2, <1>3, <1>5 DEF Control!Raise
<1> QED BY <1>6, RaiseStep

----------------------------------------------------------------------------
(* What the frames keep, and the moves every action is made of.            *)

\* the flag of a function's control entry, which nothing initialises, happens to
\* be clear
EntryClear == Ctl0Garbage = {FALSE}

\* the control entries of F above the function's are flagged as their blocks are,
\* and the function's is not if it starts out so
Flagged(F) ==
  /\ \A k \in 2 .. Len(F.ctl) : F.ctl[k].is_try <=> code[F.fn][F.ctl[k].blk].op = "try_table"
  /\ EntryClear /\ 1 <= Len(F.ctl) => ~F.ctl[1].is_try

\* the activation a is about to return
Returning(a) == \E g, q : a = <<g, q>> /\ (q <= Len(code[g]) => code[g][q].op = "return")

\* Only functions that are not compiled are interpreted; a frame stands for
\* another activation only when it is done, and that one returns.
RefFrame(F) ==
  /\ F.k = "interp" => ~jit[F.fn] /\ Flagged(F)
  /\ F.as # <<>> => F.k = "interp" /\ ~InBody(F) /\ Returning(F.as)

\* An interpreter frame waits at a tail call only for generated code.
RefWait(F) == F.k = "interp" /\ Tailing(code, F) => jit[code[F.fn][F.pc].n]

\* what is asked of a list of frames, all of them waiting if all
RefFrames(fs, all) ==
  \A i \in 1 .. Len(fs) : RefFrame(fs[i]) /\ (i < Len(fs) \/ all => RefWait(fs[i]))
RefInv == RefFrames(frames, mode = "exn")
RefNext == RefFrames(frames', mode' = "exn")

\* a step of the control semantics, or none
AbsNext == Control!ANext \/ UNCHANGED Control!avars

\* Lists of such frames.
LEMMA RefAppend ==
  ASSUME NEW fs, IsSeq(fs), RefFrames(fs, TRUE), NEW G, RefFrame(G), NEW b, b => RefWait(G)
  PROVE  RefFrames(Append(fs, G), b)
<1> DEFINE n == Len(fs)
           gs == Append(fs, G)
<1>1. n \in Nat BY SeqIs
<1>2. Len(gs) = n + 1 /\ gs[n + 1] = G /\ \A i \in 1 .. n : gs[i] = fs[i] BY SeqAppend
<1>3. \A i \in 1 .. n + 1 : i \in 1 .. n \/ (i = n + 1 /\ ~(i < n + 1)) BY <1>1
<1> HIDE DEF gs
<1>4. ASSUME NEW i \in 1 .. n + 1 PROVE RefFrame(gs[i]) /\ (i < n + 1 \/ b => RefWait(gs[i]))
  <2>1. CASE i \in 1 .. n BY <1>2, <2>1 DEF RefFrames
  <2>2. CASE i = n + 1 /\ ~(i < n + 1) BY <1>2, <2>2
  <2> QED BY <1>3, <2>1, <2>2
<1>5. RefFrames(gs, b) BY <1>2, <1>4 DEF RefFrames
<1> QED BY <1>5 DEF gs

\* The frames below the top one wait.
LEMMA RefFront ==
  ASSUME NEW fs, IsSeq(fs), fs # <<>>, NEW b, RefFrames(fs, b)
  PROVE  RefFrames(DropN(fs, 1), TRUE) /\ RefFrame(fs[Len(fs)]) /\ (b => RefWait(fs[Len(fs)]))
<1> DEFINE n == Len(fs)
           d == DropN(fs, 1)
<1>1. Len(d) = n - 1 /\ \A i \in 1 .. n - 1 : d[i] = fs[i] BY FrontTop
<1>2. n \in Nat /\ n \in 1 .. n BY NonEmpty
<1>3. \A i \in 1 .. n - 1 : i \in 1 .. n /\ i < n BY <1>2
<1> HIDE DEF d
<1>4. RefFrames(d, TRUE) BY <1>1, <1>3 DEF RefFrames
<1> QED BY <1>2, <1>4 DEF RefFrames, d

\* what is known of an active machine
RefActive == Active /\ RefInv

\* The frames of an active machine.
LEMMA RefIs ==
  ASSUME RefActive
  PROVE  /\ ProgInv /\ built /\ IsSeq(frames) /\ frames # <<>> /\ IsSeq(Front) /\ frames = Append(Front, Top)
         /\ \A G : SetTop(G) = Append(Front, G)
         /\ RefFrames(Front, TRUE) /\ RefFrame(Top) /\ (mode = "exn" => RefWait(Top))
         /\ FrameOK(Top) /\ DOMAIN Top = FrameFields /\ IsSeq(Rest(code, Front))
         /\ mode \in {"run", "exn"}
<1>1. /\ ProgInv /\ built /\ frames # <<>> /\ Front = DropN(frames, 1) /\ FramesOK(frames, FALSE)
      /\ FrameOK(Top) /\ mode \in {"run", "exn"}
  BY ActiveIs DEF RefActive, Active
<1>2. IsSeq(frames) BY <1>1 DEF FramesOK
<1>3. IsSeq(Front) /\ frames = Append(Front, Top) BY <1>1, <1>2, FrontTop DEF Top
<1>4. \A G : SetTop(G) = Append(Front, G) BY <1>1, <1>2, FrontTop DEF SetTop
<1>5. RefFrames(Front, TRUE) /\ RefFrame(Top) /\ (mode = "exn" => RefWait(Top))
  BY <1>1, <1>2, RefFront DEF RefActive, RefInv, Top
<1>6. IsSeq(Rest(code, Front)) BY <1>3, RestMore
<1> QED BY <1>1, <1>2, <1>3, <1>4, <1>5, <1>6 DEF FrameOK

\* The activations of an active machine.
LEMMA StandIs ==
  ASSUME RefActive, mode = "run" \/ ~Tailing(code, Top)
  PROVE  LET a == ActOf(Top) IN
         /\ Activations = Append(Rest(code, Front), a)
         /\ Top.as = <<>> => Stand(Rest(code, Front), Top.fn, Top.pc)
<1>1. /\ IsSeq(frames) /\ frames = Append(Front, Top) /\ IsSeq(Front) /\ IsSeq(Rest(code, Front))
      /\ mode \in {"run", "exn"}
  BY RefIs
<1>2. Activations = Acts(code, frames, mode) BY <1>1, ActsAre DEF Acts
<1>3. CASE mode = "run" BY <1>1, <1>2, <1>3, ActsPush DEF Stand, ActOf
<1>4. CASE mode = "exn" /\ ~Tailing(code, Top)
  BY <1>1, <1>2, <1>4, ActsExn, RestMore DEF Stand, ActOf
<1> QED BY <1>1, <1>3, <1>4

\* The activations after a step.
LEMMA ActsThen ==
  ASSUME UNCHANGED progvars
  PROVE  /\ \A fs, G : IsSeq(fs) /\ frames' = Append(fs, G) /\ mode' = "run" =>
              Activations' = Append(Rest(code, fs), ActOf(G))
         /\ IsSeq(frames') /\ mode' = "exn" => Activations' = Rest(code, frames')
         /\ frames' = <<>> => Activations' = <<>>
<1>1. code' = code BY DEF progvars
<1>2. ASSUME NEW fs, NEW G, IsSeq(fs), frames' = Append(fs, G), mode' = "run"
      PROVE  Activations' = Append(Rest(code, fs), ActOf(G))
  <2>1. IsSeq(frames') BY <1>2, SeqAppend
  <2>2. Activations' = Acts(code, frames', mode') BY <1>1, <2>1, ActsAfter DEF Acts
  <2> QED BY <1>2, <2>2, ActsPush
<1>3. ASSUME IsSeq(frames'), mode' = "exn" PROVE Activations' = Rest(code, frames')
  <2>1. Activations' = Acts(code, frames', mode') BY <1>1, <1>3, ActsAfter DEF Acts
  <2> QED BY <1>3, <2>1, ActsExn
<1>4. ASSUME frames' = <<>> PROVE Activations' = <<>>
  <2>1. Activations' = Acts(code, frames', mode') BY <1>1, <1>4, SeqEmpty, ActsAfter DEF Acts
  <2> QED BY <1>4, <2>1, ActsNone
<1> QED BY <1>2, <1>3, <1>4

\* both results of a step
RefBoth == RefNext /\ AbsNext

\* A step inside the top activation.
LEMMA MoveRef ==
  ASSUME RefActive, mode = "run", InBody(Top), Top.as = <<>>, NEW G, frames' = SetTop(G), RefFrame(G),
         G.as = <<>>, G.fn = Top.fn, LocalTo(Top.fn, Top.pc, G.pc), mode' = "run",
         UNCHANGED <<pending, last, ninv>>, UNCHANGED progvars
  PROVE  RefBoth
<1> DEFINE A == Rest(code, Front)
<1>1. Stand(A, Top.fn, Top.pc) BY StandIs
<1>2. IsSeq(Front) /\ frames' = Append(Front, G) /\ RefFrames(Front, TRUE) BY RefIs
<1>3. Activations' = Append(A, ActOf(G)) BY <1>2, ActsThen
<1>4. ActOf(G) = <<Top.fn, G.pc>> BY DEF ActOf
<1>5. Top.pc <= Len(code[Top.fn]) BY DEF InBody
<1> HIDE DEF A
<1>6. Control!ANext BY <1>1, <1>3, <1>4, <1>5, AbsLocal
<1>7. RefFrames(Append(Front, G), FALSE) BY <1>2, RefAppend
<1> QED BY <1>2, <1>6, <1>7 DEF RefBoth, RefNext, AbsNext

\* A trap at an instruction that may trap.
LEMMA TrapRef ==
  ASSUME RefActive, mode = "run", InBody(Top), Top.as = <<>>, Trap, UNCHANGED progvars,
         \/ At.op \in {"unreachable", "call", "call_ref", "return_call"}
         \/ At.op = "host" /\ At.n # 0
  PROVE  RefBoth
<1> DEFINE A == Rest(code, Front)
<1>1. Stand(A, Top.fn, Top.pc) BY StandIs
<1>2. frames' = <<>> /\ mode' = "idle" /\ last' = "trap" /\ UNCHANGED <<pending, ninv>> BY DEF Trap
<1>3. Activations' = <<>> BY <1>2, ActsThen
<1>4. Top.pc <= Len(code[Top.fn]) /\ At = code[Top.fn][Top.pc] BY DEF InBody, At
<1> HIDE DEF A
<1>5. Control!ANext BY <1>1, <1>2, <1>3, <1>4, AbsTrap
<1>6. Len(<<>>) = 0 BY SeqEmpty
<1> QED BY <1>2, <1>5, <1>6 DEF RefBoth, RefNext, AbsNext, RefFrames

\* A call: fs are the frames below the callee's.
LEMMA EnteredRef ==
  ASSUME RefActive, mode = "run", InBody(Top), Top.as = <<>>,
         NEW fs, IsSeq(fs), RefFrames(fs, TRUE),
         \/ /\ At.op \in {"call", "call_ref"}
            /\ Rest(code, fs) = Append(Rest(code, Front), <<Top.fn, Top.pc>>)
         \/ At.op = "return_call" /\ Rest(code, fs) = Rest(code, Front),
         NEW G, frames' = Append(fs, G), RefFrame(G), G.fn = At.n, G.pc = 1, G.as = <<>>,
         mode' = "run", UNCHANGED <<pending, last, ninv>>, UNCHANGED progvars
  PROVE  RefBoth
<1> DEFINE A == Rest(code, Front)
<1>1. Stand(A, Top.fn, Top.pc) BY StandIs
<1>2. Activations' = Append(Rest(code, fs), ActOf(G)) BY ActsThen
<1>3. ActOf(G) = <<At.n, 1>> BY DEF ActOf
<1>4. Top.pc <= Len(code[Top.fn]) /\ At = code[Top.fn][Top.pc] BY DEF InBody, At
<1>5. \/ /\ code[Top.fn][Top.pc].op \in {"call", "call_ref"}
         /\ Activations' = Append(Append(A, <<Top.fn, Top.pc>>), <<code[Top.fn][Top.pc].n, 1>>)
      \/ code[Top.fn][Top.pc].op = "return_call" /\ Activations' = Append(A, <<code[Top.fn][Top.pc].n, 1>>)
  BY <1>2, <1>3, <1>4
<1> HIDE DEF A
<1>6. Control!ANext BY <1>1, <1>4, <1>5, AbsCall
<1>7. RefFrames(Append(fs, G), FALSE) BY RefAppend
<1> QED BY <1>6, <1>7 DEF RefBoth, RefNext, AbsNext

\* New frames of the interpreter.
LEMMA NewRef ==
  ASSUME NEW f, NEW b, NEW d, NEW g, EntryClear => ~g
  PROVE  ~jit[f] => RefFrame(InterpFrame(f, b, d, g))
<1>1. /\ InterpFrame(f, b, d, g).fn = f /\ InterpFrame(f, b, d, g).as = <<>>
      /\ InterpFrame(f, b, d, g).ctl = <<FuncCtl(f, b, g)>>
  BY DEF InterpFrame
<1>2. Flagged(InterpFrame(f, b, d, g))
  <2>1. Len(<<FuncCtl(f, b, g)>>) = 1 OBVIOUS
  <2>2. \A k \in 2 .. 1 : FALSE OBVIOUS
  <2>3. EntryClear => ~<<FuncCtl(f, b, g)>>[1].is_try BY DEF FuncCtl
  <2> QED BY <1>1, <2>1, <2>2, <2>3 DEF Flagged
<1> QED BY <1>1, <1>2 DEF RefFrame

\* New frames of generated code.
LEMMA NewJitRef == ASSUME NEW f, NEW d PROVE RefFrame(JitFrame(f, d))
<1>1. JitFrame(f, d).k = "jit" /\ JitFrame(f, d).as = <<>> BY DEF JitFrame
<1> QED BY <1>1 DEF RefFrame

\* Entering a callee, or running out of stack.
LEMMA EnterRef ==
  ASSUME RefActive, mode = "run", InBody(Top), Top.as = <<>>,
         NEW fs, IsSeq(fs), RefFrames(fs, TRUE),
         \/ /\ At.op \in {"call", "call_ref"}
            /\ Rest(code, fs) = Append(Rest(code, Front), <<Top.fn, Top.pc>>)
         \/ At.op = "return_call" /\ Rest(code, fs) = Rest(code, Front),
         NEW st, NEW dep, NEW e,
         (jit[At.n] /\ EnterJit(fs, st, At.n, dep, e)) \/ (~jit[At.n] /\ EnterInterp(fs, st, At.n, dep)),
         UNCHANGED progvars
  PROVE  RefBoth
<1>1. CASE Trap
  <2>1. At.op \in {"unreachable", "call", "call_ref", "return_call"} OBVIOUS
  <2> QED BY <1>1, <2>1, TrapRef
<1>2. ASSUME NEW G, frames' = Append(fs, G), RefFrame(G), G.fn = At.n, G.pc = 1, G.as = <<>>,
             mode' = mode, UNCHANGED <<pending, last, ninv>>
      PROVE  RefBoth
  <2>1. mode' = "run" BY <1>2
  <2> QED BY <1>2, <2>1, EnteredRef
<1>3. CASE jit[At.n] /\ EnterJit(fs, st, At.n, dep, e)
  <2>1. Trap \/ (frames' = Append(fs, JitFrame(At.n, dep)) /\ UNCHANGED <<mode, pending, last, ninv>>)
    BY <1>3 DEF EnterJit
  <2>2. JitFrame(At.n, dep).fn = At.n /\ JitFrame(At.n, dep).pc = 1 /\ JitFrame(At.n, dep).as = <<>>
    BY DEF JitFrame
  <2> QED BY <1>1, <1>2, <2>1, <2>2, NewJitRef
<1>4. CASE ~jit[At.n] /\ EnterInterp(fs, st, At.n, dep)
  <2>1. Trap \/ \E g \in Ctl0Garbage :
              /\ frames' = Append(fs, InterpFrame(At.n, Len(st) - NArgs(At.n), dep, g))
              /\ UNCHANGED <<mode, pending, last, ninv>>
    BY <1>4 DEF EnterInterp
  <2>2. ASSUME NEW g \in Ctl0Garbage, frames' = Append(fs, InterpFrame(At.n, Len(st) - NArgs(At.n), dep, g)),
               UNCHANGED <<mode, pending, last, ninv>>
        PROVE  RefBoth
    <3> DEFINE G == InterpFrame(At.n, Len(st) - NArgs(At.n), dep, g)
    <3>1. G.fn = At.n /\ G.pc = 1 /\ G.as = <<>> BY DEF InterpFrame
    <3>2. RefFrame(G) BY <1>4, <2>2, NewRef DEF EntryClear
    <3> HIDE DEF G
    <3>3. frames' = Append(fs, G) BY <2>2 DEF G
    <3> QED BY <1>2, <2>2, <3>1, <3>2, <3>3
  <2> QED BY <1>1, <2>1, <2>2
<1> QED BY <1>3, <1>4

\* A frame that is done hands over to the one below.
LEMMA DeliverRef ==
  ASSUME RefActive, mode = "run", ActOf(Top) = Top.as \/ ~InBody(Top) \/ At.op = "return",
         NEW vs, NEW st, NEW e, IF CallerIsJit THEN DeliverToJit(vs, st, e) ELSE DeliverToC(st, e),
         UNCHANGED progvars
  PROVE  RefBoth
<1> DEFINE A == Rest(code, Front)
           a == ActOf(Top)
           FF == DropN(Front, 1)
           C == Front[Len(Front)]
<1>1. /\ ProgInv /\ built /\ IsSeq(Front) /\ RefFrames(Front, TRUE) /\ RefFrame(Top) /\ IsSeq(A)
  BY RefIs
<1>2. Activations = Append(A, a) BY StandIs
<1>3. Returning(a)
  <2>1. CASE Top.as # <<>> BY <1>1, <2>1 DEF RefFrame, ActOf
  <2>2. CASE Top.as = <<>>
    <3>1. a = <<Top.fn, Top.pc>> BY <2>2 DEF ActOf
    <3>2. a # <<>>
      <4>1. Len(<<Top.fn, Top.pc>>) = 2 /\ Len(<<>>) = 0 OBVIOUS
      <4> QED BY <3>1, <4>1
    <3>3. ~InBody(Top) \/ At.op = "return" BY <2>2, <3>2
    <3> QED BY <3>1, <3>3 DEF Returning, InBody, At
  <2> QED BY <2>1, <2>2
<1>4. PICK g : \E q : a = <<g, q>> /\ (q <= Len(code[g]) => code[g][q].op = "return") BY <1>3 DEF Returning
<1>5. PICK q : a = <<g, q>> /\ (q <= Len(code[g]) => code[g][q].op = "return") BY <1>4
<1>6. Stand(A, g, q) BY <1>1, <1>2, <1>5 DEF Stand
<1>7. UNCHANGED <<pending, ninv>> BY DEF DeliverToJit, DeliverToC
<1>8. CASE Front = <<>>
  <2>1. ~CallerIsJit BY <1>8 DEF CallerIsJit
  <2>2. frames' = <<>> /\ mode' = "idle" /\ last' = "ok" BY <1>8, <2>1 DEF DeliverToC
  <2>3. A = <<>> BY <1>8, ActsNone
  <2>4. Activations' = <<>> BY <2>2, ActsThen
  <2> HIDE DEF A
  <2>5. Control!ANext BY <1>5, <1>6, <1>7, <2>2, <2>3, <2>4, AbsReturn
  <2>6. Len(<<>>) = 0 BY SeqEmpty
  <2> QED BY <2>2, <2>5, <2>6 DEF RefBoth, RefNext, AbsNext, RefFrames
<1>9. CASE Front # <<>>
  <2>1. IsSeq(FF) /\ Front = Append(FF, C) /\ \A G : [Front EXCEPT ![Len(Front)] = G] = Append(FF, G)
    BY <1>1, <1>9, FrontTop
  <2>2. RefFrames(FF, TRUE) /\ RefFrame(C) BY <1>1, <1>9, RefFront
  <2>3. FrameOK(C) /\ AtCall(C)
    <3>1. FramesOK(Front, TRUE) BY ActiveIs DEF RefActive
    <3>2. Len(Front) \in Nat /\ Len(Front) \in 1 .. Len(Front) BY <1>1, <1>9, NonEmpty
    <3> QED BY <3>1, <3>2 DEF FramesOK
  <2>4. /\ DOMAIN C = FrameFields /\ InBody(C) /\ C.as = <<>>
        /\ C.fn \in Funcs /\ C.pc \in Nat /\ Len(code[C.fn]) \in Nat
    BY <1>1, <2>2, <2>3, FrameIs DEF FrameOK, AtCall, RefFrame
  <2>5. A = IF Tailing(code, C) THEN Rest(code, FF) ELSE Append(Rest(code, FF), <<C.fn, C.pc>>)
    <3>1. ActOf(C) = <<C.fn, C.pc>> BY <2>4 DEF ActOf
    <3> HIDE DEF FF, C
    <3> QED BY <2>1, <3>1, RestMore
  <2>6. IsSeq(Rest(code, FF)) BY <2>1, RestMore
  <2> HIDE DEF FF, C
  <2>7. CASE ~CallerIsJit /\ Tailing(code, C)
    <3> DEFINE R == [C EXCEPT !.pc = Len(code[C.fn]) + 1, !.as = a]
    <3>1. code[C.fn][C.pc].op = "return_call" BY <2>7 DEF Tailing
    <3>2. frames' = [Front EXCEPT ![Len(Front)] = R] /\ mode' = "run" /\ last' = last
      BY <1>9, <2>7, <3>1 DEF DeliverToC, C
    <3>3. C.k = "interp"
      <4>1. ~(C.k = "jit") BY <1>9, <2>7 DEF CallerIsJit, C
      <4> QED BY <2>3, <4>1 DEF FrameOK
    <3>4. R.k = C.k /\ R.fn = C.fn /\ R.ctl = C.ctl /\ R.pc = Len(code[C.fn]) + 1 /\ R.as = a
      BY <2>4 DEF FrameFields
    <3> HIDE DEF R
    <3>5. RefFrame(R)
      <4>1. ~InBody(R) BY <2>4, <3>4 DEF InBody
      <4>2. ~jit[R.fn] /\ Flagged(R) BY <2>2, <3>3, <3>4 DEF RefFrame, Flagged
      <4> QED BY <1>3, <3>3, <3>4, <4>1, <4>2 DEF RefFrame
    <3>6. frames' = Append(FF, R) BY <2>1, <3>2
    <3>7. ActOf(R) = a
      <4>1. a # <<>>
        <5>1. Len(<<g, q>>) = 2 /\ Len(<<>>) = 0 OBVIOUS
        <5> QED BY <1>5, <5>1
      <4> QED BY <3>4, <4>1 DEF ActOf
    <3>8. Activations' = Append(Rest(code, FF), a)
      <4>1. IsSeq(FF) /\ mode' = "run" BY <2>1, <3>2
      <4>2. Activations' = Append(Rest(code, FF), ActOf(R)) BY <3>6, <4>1, ActsThen
      <4> QED BY <3>7, <4>2
    <3>9. Activations' = Activations BY <1>2, <2>5, <2>7, <3>8
    <3>10. RefFrames(Append(FF, R), FALSE) BY <2>1, <2>2, <3>5, RefAppend
    <3>11. Ended' = Ended BY <3>2 DEF Ended
    <3>12. UNCHANGED Control!avars
      BY <1>7, <3>2, <3>9, <3>11 DEF Control!avars, progvars
    <3> QED BY <3>2, <3>6, <3>10, <3>12 DEF RefBoth, RefNext, AbsNext
  <2>8. ASSUME NEW R, frames' = [Front EXCEPT ![Len(Front)] = R], mode' = "run", last' = last,
               R.k = C.k, R.fn = C.fn, R.ctl = C.ctl, R.pc = C.pc + 1, R.as = C.as, ~Tailing(code, C)
        PROVE  RefBoth
    <3>1. frames' = Append(FF, R) BY <2>1, <2>8
    <3>2. ActOf(R) = <<C.fn, C.pc + 1>> BY <2>4, <2>8 DEF ActOf
    <3>3. Activations' = Append(Rest(code, FF), <<C.fn, C.pc + 1>>)
      <4>1. IsSeq(FF) /\ mode' = "run" BY <2>1, <2>8
      <4>2. Activations' = Append(Rest(code, FF), ActOf(R)) BY <3>1, <4>1, ActsThen
      <4> QED BY <3>2, <4>2
    <3>4. RefFrame(R) BY <2>2, <2>4, <2>8 DEF RefFrame, Flagged
    <3>5. A = Append(Rest(code, FF), <<C.fn, C.pc>>) BY <2>5, <2>8
    <3>6. \E B, x, r : /\ IsSeq(B) /\ A = Append(B, <<x, r>>) /\ Activations' = Append(B, <<x, r + 1>>)
                       /\ mode' = "run" /\ last' = last
      BY <2>6, <2>8, <3>3, <3>5
    <3> HIDE DEF A
    <3>7. Control!ANext BY <1>5, <1>6, <1>7, <3>6, AbsReturn
    <3>8. RefFrames(Append(FF, R), FALSE) BY <2>1, <2>2, <3>4, RefAppend
    <3> QED BY <2>8, <3>1, <3>7, <3>8 DEF RefBoth, RefNext, AbsNext
  <2>9. CASE ~CallerIsJit /\ ~Tailing(code, C)
    <3> DEFINE R == [C EXCEPT !.pc = @ + 1]
    <3>1. code[C.fn][C.pc].op # "return_call" BY <2>4, <2>9 DEF Tailing, InBody
    <3>2. frames' = [Front EXCEPT ![Len(Front)] = R] /\ mode' = "run" /\ last' = last
      BY <1>9, <2>9, <3>1 DEF DeliverToC, C
    <3>3. R.k = C.k /\ R.fn = C.fn /\ R.ctl = C.ctl /\ R.pc = C.pc + 1 /\ R.as = C.as
      BY <2>4 DEF FrameFields
    <3> HIDE DEF R
    <3> QED BY <2>8, <2>9, <3>2, <3>3
  <2>10. CASE CallerIsJit
    <3> DEFINE R == [C EXCEPT !.pc = @ + 1, !.ops = @ \o vs]
    <3>1. frames' = [Front EXCEPT ![Len(Front)] = R] /\ mode' = "run" /\ last' = last
      BY <2>10 DEF DeliverToJit, C
    <3>2. R.k = C.k /\ R.fn = C.fn /\ R.ctl = C.ctl /\ R.pc = C.pc + 1 /\ R.as = C.as
      BY <2>4 DEF FrameFields
    <3>3. C.k = "jit" BY <2>10 DEF CallerIsJit, C
    <3>4. ~Tailing(code, C) BY <2>3, <3>3 DEF AtCall, Tailing
    <3> HIDE DEF R
    <3> QED BY <2>8, <3>1, <3>2, <3>4
  <2> QED BY <2>7, <2>9, <2>10
<1> QED BY <1>8, <1>9

----------------------------------------------------------------------------
(* Exceptions that are caught, or end an activation.                       *)

\* An exception that the top activation catches.
LEMMA CaughtRef ==
  ASSUME RefActive, Top.fn \in Funcs, Top.pc \in 1 .. Len(code[Top.fn]), NEW t,
         Raising(Rest(code, Front), Top.fn, Top.pc, t), Catching(Top.fn, Top.pc, t) # {},
         NEW G, frames' = SetTop(G), G.fn = Top.fn, G.pc = LandsAt(Top.fn, Top.pc, t), G.as = <<>>, RefFrame(G),
         mode' = "run", pending' = NoExn, UNCHANGED <<last, ninv>>, UNCHANGED progvars
  PROVE  RefBoth
<1> DEFINE A == Rest(code, Front)
<1>1. ProgInv /\ IsSeq(Front) /\ frames' = Append(Front, G) /\ RefFrames(Front, TRUE) BY RefIs
<1>2. Activations' = Append(A, ActOf(G)) BY <1>1, ActsThen
<1>3. ActOf(G) = <<Top.fn, LandsAt(Top.fn, Top.pc, t)>> BY DEF ActOf
<1>4. Raising(A, Top.fn, Top.pc, t) OBVIOUS
<1> HIDE DEF A
<1>5. Control!ANext BY <1>1, <1>2, <1>3, <1>4, AbsCaught
<1>6. RefFrames(Append(Front, G), FALSE) BY <1>1, RefAppend
<1> QED BY <1>1, <1>5, <1>6 DEF RefBoth, RefNext, AbsNext

\* The frames and activations after the top frame handed an exception on.
LEMMA GoneRef ==
  ASSUME RefActive, NEW st, NEW e, Propagate(st, e), UNCHANGED progvars
  PROVE  /\ RefNext /\ Activations' = Rest(code, Front) /\ ninv' = ninv
         /\ \/ mode' = "exn" /\ last' = last
            \/ Rest(code, Front) = <<>> /\ mode' = "idle" /\ last' = "exn"
<1>1. frames' = Front /\ ninv' = ninv BY DEF Propagate
<1>2. IsSeq(Front) /\ RefFrames(Front, TRUE) BY RefIs
<1>3. CASE Front = <<>>
  <2>1. mode' = "idle" /\ last' = "exn" BY <1>3 DEF Propagate
  <2>2. Activations' = <<>> /\ Rest(code, Front) = <<>> BY <1>1, <1>3, ActsThen, ActsNone
  <2>3. Len(<<>>) = 0 BY SeqEmpty
  <2> QED BY <1>1, <1>3, <2>1, <2>2, <2>3 DEF RefNext, RefFrames
<1>4. CASE Front # <<>>
  <2>1. mode' = "exn" /\ last' = last BY <1>4 DEF Propagate
  <2>2. Activations' = Rest(code, frames') BY <1>1, <1>2, <2>1, ActsThen
  <2> QED BY <1>1, <1>2, <2>1, <2>2 DEF RefNext
<1> QED BY <1>3, <1>4

\* An exception that nothing in the top activation catches.
LEMMA PassRef ==
  ASSUME RefActive, Top.fn \in Funcs, Top.pc \in 1 .. Len(code[Top.fn]), NEW t,
         Raising(Rest(code, Front), Top.fn, Top.pc, t), Catching(Top.fn, Top.pc, t) = {},
         NEW st, NEW e, Propagate(st, e), pending' = t, UNCHANGED progvars
  PROVE  RefBoth
<1>1. ProgInv BY RefIs
<1>2. /\ RefNext /\ Activations' = Rest(code, Front) /\ ninv' = ninv
      /\ \/ mode' = "exn" /\ last' = last
         \/ Rest(code, Front) = <<>> /\ mode' = "idle" /\ last' = "exn"
  BY GoneRef
<1>3. Control!ANext BY <1>1, <1>2, AbsUncaught
<1> QED BY <1>2, <1>3 DEF RefBoth, AbsNext

\* A frame that waits at a tail call is no activation any more: it goes unseen.
LEMMA UnseenRef ==
  ASSUME RefActive, mode = "exn", Tailing(code, Top),
         NEW st, NEW e, Propagate(st, e), pending' = pending, UNCHANGED progvars
  PROVE  RefBoth
<1> DEFINE A == Rest(code, Front)
<1>1. /\ RefNext /\ Activations' = A /\ ninv' = ninv
      /\ \/ mode' = "exn" /\ last' = last
         \/ A = <<>> /\ mode' = "idle" /\ last' = "exn"
  BY GoneRef
<1>2. IsSeq(frames) /\ frames = Append(Front, Top) /\ IsSeq(Front) BY RefIs
<1>3. Activations = A
  <2>1. Activations = Acts(code, frames, mode) BY <1>2, ActsAre DEF Acts
  <2> QED BY <1>2, <2>1, ActsExn, RestMore
<1> HIDE DEF A
<1>4. /\ (IF Ended THEN "idle" ELSE mode)' = (IF Ended THEN "idle" ELSE mode)
      /\ (IF Ended THEN "exn" ELSE last)' = (IF Ended THEN "exn" ELSE last)
  BY <1>1, <1>3 DEF Ended
<1>5. UNCHANGED Control!avars BY <1>1, <1>3, <1>4 DEF Control!avars, progvars
<1> QED BY <1>1, <1>5 DEF RefBoth, AbsNext

----------------------------------------------------------------------------
(* The interpreter.                                                        *)

\* What is known of the frame that executes an instruction.
LEMMA RefExec ==
  ASSUME RefActive, NEW e, NEW ops, Executes(e, ops)
  PROVE  /\ mode = "run" /\ Top.k = e /\ InBody(Top) /\ At.op \in ops /\ At = code[Top.fn][Top.pc]
         /\ Top.fn \in Funcs /\ Top.pc \in Nat /\ Top.pc \in 1 .. Len(code[Top.fn])
         /\ DOMAIN Top = FrameFields /\ IsSeq(Here.ctrl) /\ Len(Here.ctrl) \in Nat
         /\ Here = snap[Top.fn][Top.pc] /\ (At.op # "end" => ValidLive(Top.fn, Here, At))
         /\ Top.as = <<>> /\ RefFrame(Top)
         /\ e = "interp" => CtlOK(Top) /\ Flagged(Top) /\ ~jit[Top.fn]
<1>1. RefFrame(Top) /\ FrameOK(Top) BY RefIs
<1>2. Active BY DEF RefActive
<1>3. InBody(Top) /\ Top.k = e BY <1>2, ExecIs
<1>4. Top.as = <<>> BY <1>1, <1>3 DEF RefFrame
<1>5. e = "interp" => CtlOK(Top) /\ Flagged(Top) /\ ~jit[Top.fn] BY <1>1, <1>3 DEF RefFrame, FrameOK
<1> QED BY <1>1, <1>2, <1>4, <1>5, ExecIs

\* A control stack that is cut keeps its flags.
LEMMA FlagsCut ==
  ASSUME NEW F, Flagged(F), IsSeq(F.ctl), NEW m \in 0 .. Len(F.ctl),
         NEW G, G.fn = F.fn, G.ctl = SubSeq(F.ctl, 1, m)
  PROVE  Flagged(G)
<1>1. Len(F.ctl) \in Nat BY SeqIs
<1>2. Len(G.ctl) = m /\ \A k \in 1 .. m : G.ctl[k] = F.ctl[k] BY SeqCut
<1>3. \A k \in 2 .. m : k \in 1 .. m /\ k \in 2 .. Len(F.ctl) BY <1>1
<1>4. 1 <= m => 1 \in 1 .. m /\ 1 <= Len(F.ctl) BY <1>1
<1> QED BY <1>2, <1>3, <1>4 DEF Flagged

\* A frame of the interpreter that is no other activation.
LEMMA PlainRef ==
  ASSUME NEW F, RefFrame(F), F.k = "interp", NEW G, G.fn = F.fn, G.as = <<>>, Flagged(G)
  PROVE  RefFrame(G)
  BY DEF RefFrame

\* A jump to a control entry goes where the label says.
LEMMA CtlPcIs ==
  ASSUME ProgInv, NEW F, FrameOK(F), F.k = "interp", InBody(F), NEW m \in 1 .. Len(F.ctl)
  PROVE  CtlPc(F.fn, F.ctl[m]) = LabelPc(F.fn, snap[F.fn][F.pc], m - 1)
<1> DEFINE s == snap[F.fn][F.pc]
<1>1. F.fn \in Funcs /\ F.pc \in Nat /\ F.pc \in 1 .. Len(code[F.fn]) /\ CtlOK(F) /\ Len(code[F.fn]) \in Nat
  BY FrameIs DEF FrameOK
<1>2. Len(s.ctrl) \in Nat
  <2>1. F.pc \in 1 .. Len(code[F.fn]) + 1 BY <1>1
  <2> QED BY <1>1, <2>1, BodyIs
<1>3. Len(F.ctl) = Len(s.ctrl) + 1 /\ F.ctl[1].blk = 0 BY <1>1 DEF CtlOK
<1>4. CASE m = 1 BY <1>3, <1>4 DEF CtlPc, LabelPc
<1>5. CASE m # 1
  <2> DEFINE k == m - 1
             b == s.ctrl[k].blk
  <2>0. m \in 1 .. Len(s.ctrl) + 1 BY <1>3
  <2>1. k \in 1 .. Len(s.ctrl) /\ k + 1 = m /\ k # 0 BY <1>2, <2>0, <1>5
  <2>2. F.ctl[m].blk = b BY <1>1, <2>1 DEF CtlOK
  <2>3. b \in 1 .. F.pc - 1 /\ s.ctrl[k] = Entry(code[F.fn], snap[F.fn], b) BY <1>1, <2>1, LevelIs
  <2>4. b # 0
    <3>1. \A z \in Nat : \A x \in 1 .. z - 1 : x # 0 OBVIOUS
    <3> HIDE DEF b, s
    <3> QED BY <1>1, <2>3, <3>1
  <2>5. code[F.fn][b].op = s.ctrl[k].op
    <3>1. s.ctrl[k] = Entry(code[F.fn], snap[F.fn], b) BY <2>3
    <3> HIDE DEF b
    <3> QED BY <3>1 DEF Entry
  <2> QED BY <2>1, <2>2, <2>4, <2>5 DEF CtlPc, LabelPc
<1> QED BY <1>4, <1>5

\* A branch to label l.
LEMMA IJumpRef ==
  ASSUME RefActive, Executes("interp", {"br", "br_if", "br_table"}), NEW l \in 0 .. Len(Here.ctrl),
         l = At.n \/ (At.op = "br_table" /\ l = 0), IJump(l),
         UNCHANGED <<mode, pending, last, ninv>>, UNCHANGED progvars
  PROVE  RefBoth
<1> DEFINE m == Len(Top.ctl) - l
           q == CtlPc(Top.fn, Top.ctl[m])
           G == [Top EXCEPT !.ctl = DropN(@, l), !.pc = q]
<1>1. /\ mode = "run" /\ InBody(Top) /\ Top.k = "interp" /\ DOMAIN Top = FrameFields
      /\ Len(Here.ctrl) \in Nat /\ Here = snap[Top.fn][Top.pc] /\ At.op \in {"br", "br_if", "br_table"}
      /\ At = code[Top.fn][Top.pc] /\ Top.as = <<>> /\ RefFrame(Top) /\ CtlOK(Top) /\ Flagged(Top)
  BY RefExec
<1>2. ProgInv /\ FrameOK(Top) BY RefIs
<1>3. IsSeq(Top.ctl) /\ Len(Top.ctl) = Len(Here.ctrl) + 1 BY <1>1 DEF CtlOK
<1>4. m \in 1 .. Len(Top.ctl) /\ m \in 0 .. Len(Top.ctl) /\ m - 1 = Len(Here.ctrl) - l BY <1>1, <1>3
<1>5. frames' = SetTop(G) BY DEF IJump
<1>6. G.k = "interp" /\ G.fn = Top.fn /\ G.as = <<>> /\ G.ctl = SubSeq(Top.ctl, 1, m) /\ G.pc = q
  BY <1>1 DEF FrameFields, DropN
<1>7. q = LabelPc(Top.fn, Here, LabelLvl(Here, l))
  <2>1. q = LabelPc(Top.fn, Here, m - 1) BY <1>1, <1>2, <1>4, CtlPcIs
  <2> HIDE DEF q, m
  <2> QED BY <1>4, <2>1 DEF LabelLvl
<1> HIDE DEF G, q, m
<1>8. Flagged(G) BY <1>1, <1>3, <1>4, <1>6, FlagsCut
<1>9. RefFrame(G) BY <1>1, <1>6, <1>8, PlainRef
<1>10. LocalTo(Top.fn, Top.pc, G.pc)
  <2>1. l \in {At.n} \cup (IF At.op = "br_table" THEN {0} ELSE {}) OBVIOUS
  <2> QED BY <1>1, <1>6, <1>7, <2>1 DEF LocalTo
<1> QED BY <1>1, <1>5, <1>6, <1>9, <1>10, MoveRef

\* An instruction that goes on behind itself.
LEMMA AdvanceRef ==
  ASSUME RefActive, NEW e, NEW ops, Executes(e, ops),
         At.op \in Openers \cup {"end", "push", "drop", "popcnt", "br_if"} \/ (At.op = "host" /\ At.n = 0),
         NEW G, frames' = SetTop(G), G.k = Top.k, G.fn = Top.fn, G.pc = Top.pc + 1, G.as = <<>>,
         e = "interp" => Flagged(G),
         UNCHANGED <<mode, pending, last, ninv>>, UNCHANGED progvars
  PROVE  RefBoth
<1>1. mode = "run" /\ InBody(Top) /\ Top.as = <<>> /\ RefFrame(Top) /\ Top.k = e /\ At = code[Top.fn][Top.pc]
  BY RefExec
<1>2. LocalTo(Top.fn, Top.pc, G.pc) BY <1>1 DEF LocalTo
<1>3. RefFrame(G) BY <1>1 DEF RefFrame
<1> QED BY <1>1, <1>2, <1>3, MoveRef

\* The branches.
LEMMA IBrRef == ASSUME RefActive, IBr, UNCHANGED progvars PROVE RefBoth
<1>0. Executes("interp", {"br", "br_if", "br_table"}) /\ UNCHANGED <<mode, pending, last, ninv>> BY DEF IBr
<1>1. /\ mode = "run" /\ InBody(Top) /\ Top.k = "interp" /\ At.op \in {"br", "br_if", "br_table"}
      /\ Len(Here.ctrl) \in Nat /\ (At.op # "end" => ValidLive(Top.fn, Here, At))
      /\ DOMAIN Top = FrameFields /\ Top.as = <<>> /\ Flagged(Top)
  BY <1>0, RefExec
<1>2. ValidLive(Top.fn, Here, At) BY <1>1
<1>3. At.n <= Len(Here.ctrl) BY <1>1, <1>2, ValidIs
<1>4. At.n \in Nat
  <2>1. At \in InstrType BY <1>0, ExecIs DEF RefActive
  <2> QED BY <2>1 DEF InstrType
<1>5. At.n \in 0 .. Len(Here.ctrl) /\ 0 \in 0 .. Len(Here.ctrl) BY <1>1, <1>3, <1>4
<1>6. CASE IJump(At.n) BY <1>0, <1>5, <1>6, IJumpRef
<1>7. CASE At.op = "br_table" /\ IJump(0) BY <1>0, <1>5, <1>7, IJumpRef
<1>8. CASE At.op = "br_if" /\ frames' = SetTop(Advance)
  <2>1. Advance.k = Top.k /\ Advance.fn = Top.fn /\ Advance.pc = Top.pc + 1 /\ Advance.as = <<>> /\ Advance.ctl = Top.ctl
    BY <1>1 DEF Advance, FrameFields
  <2>2. Flagged(Advance) BY <1>1, <2>1 DEF Flagged
  <2> QED BY <1>0, <1>8, <2>1, <2>2, AdvanceRef
<1> QED BY <1>6, <1>7, <1>8 DEF IBr

\* One more control entry, flagged as its block is.
LEMMA FlagsOpen ==
  ASSUME NEW F, Flagged(F), IsSeq(F.ctl), F.ctl # <<>>, NEW c, c.is_try <=> code[F.fn][c.blk].op = "try_table",
         NEW G, G.fn = F.fn, G.ctl = Append(F.ctl, c)
  PROVE  Flagged(G)
<1> DEFINE n == Len(F.ctl)
<1>1. n \in Nat BY SeqIs
<1>2. Len(G.ctl) = n + 1 /\ G.ctl[n + 1] = c /\ \A k \in 1 .. n : G.ctl[k] = F.ctl[k] BY SeqAppend
<1>3. ASSUME NEW k \in 2 .. n + 1 PROVE G.ctl[k].is_try <=> code[F.fn][G.ctl[k].blk].op = "try_table"
  <2>1. (k \in 1 .. n /\ k \in 2 .. n) \/ k = n + 1 BY <1>1
  <2> QED BY <1>2, <2>1 DEF Flagged
<1>4. 1 \in 1 .. n /\ 1 <= n
  <2>1. n # 0 BY SeqEmpty
  <2> QED BY <1>1, <2>1
<1> QED BY <1>2, <1>3, <1>4 DEF Flagged

\* A block opens, or an if is passed over.
LEMMA IOpenRef == ASSUME RefActive, IOpen, UNCHANGED progvars PROVE RefBoth
<1> DEFINE lbl == [blk |-> Top.pc, h |-> HOff(Top) + Len(Here.tys),
                   ar |-> IF At.op = "loop" THEN 0 ELSE Len(At.bt),
                   rar |-> Len(At.bt), is_try |-> At.op = "try_table"]
           F == [Top EXCEPT !.ctl = Append(@, lbl), !.pc = @ + 1]
           E == [F EXCEPT !.pc = end_idx[Top.fn][Top.pc]]
<1>0. Executes("interp", Openers) /\ UNCHANGED <<mode, pending, last, ninv>> BY DEF IOpen
<1>1. /\ mode = "run" /\ InBody(Top) /\ Top.k = "interp" /\ At.op \in Openers /\ At = code[Top.fn][Top.pc]
      /\ DOMAIN Top = FrameFields /\ Top.as = <<>> /\ RefFrame(Top) /\ Flagged(Top) /\ CtlOK(Top)
      /\ Len(Here.ctrl) \in Nat /\ Here = snap[Top.fn][Top.pc]
  BY <1>0, RefExec
<1>2. frames' = SetTop(F) \/ (At.op = "if" /\ frames' = SetTop(E)) BY DEF IOpen
<1>3. lbl.blk = Top.pc /\ (lbl.is_try <=> At.op = "try_table") OBVIOUS
<1> HIDE DEF lbl
<1>4. F.k = "interp" /\ F.fn = Top.fn /\ F.as = <<>> /\ F.ctl = Append(Top.ctl, lbl) /\ F.pc = Top.pc + 1
      /\ DOMAIN F = FrameFields
  BY <1>1 DEF FrameFields
<1> HIDE DEF F
<1>5. E.k = "interp" /\ E.fn = Top.fn /\ E.as = <<>> /\ E.ctl = Append(Top.ctl, lbl) /\ E.pc = end_idx[Top.fn][Top.pc]
  BY <1>4 DEF FrameFields
<1> HIDE DEF E
<1>6. IsSeq(Top.ctl) /\ Top.ctl # <<>>
  <2>1. IsSeq(Top.ctl) /\ Len(Top.ctl) = Len(Here.ctrl) + 1 BY <1>1 DEF CtlOK
  <2>2. Len(Top.ctl) # 0 BY <1>1, <2>1
  <2> QED BY <2>1, <2>2, SeqEmpty
<1>7. ASSUME NEW G, G.fn = Top.fn, G.ctl = Append(Top.ctl, lbl) PROVE Flagged(G)
  <2>1. lbl.is_try <=> code[Top.fn][lbl.blk].op = "try_table" BY <1>1, <1>3
  <2> QED BY <1>1, <1>6, <1>7, <2>1, FlagsOpen
<1>8. CASE frames' = SetTop(F)
  <2>1. Flagged(F) BY <1>4, <1>7
  <2>2. F.k = Top.k BY <1>1, <1>4
  <2> QED BY <1>0, <1>1, <1>4, <1>8, <2>1, <2>2, AdvanceRef
<1>9. CASE At.op = "if" /\ frames' = SetTop(E)
  <2>1. Flagged(E) BY <1>5, <1>7
  <2>2. RefFrame(E) BY <1>1, <1>5, <2>1, PlainRef
  <2>3. LocalTo(Top.fn, Top.pc, E.pc) BY <1>1, <1>5, <1>9 DEF LocalTo
  <2>4. mode' = "run" /\ UNCHANGED <<pending, last, ninv>> BY <1>0, <1>1
  <2> QED BY <1>1, <1>5, <1>9, <2>2, <2>3, <2>4, MoveRef
<1> QED BY <1>2, <1>8, <1>9

\* A block ends.
LEMMA IEndRef == ASSUME RefActive, IEnd, UNCHANGED progvars PROVE RefBoth
<1> DEFINE c == Len(Top.ctl)
           A == [Advance EXCEPT !.ctl = DropN(@, 1)]
           B == [Advance EXCEPT !.ctl = <<>>]
<1>0. Executes("interp", {"end"}) /\ UNCHANGED <<mode, pending, last, ninv>> BY DEF IEnd
<1>1. /\ At.op \in {"end"} /\ Top.k = "interp" /\ DOMAIN Top = FrameFields /\ Top.as = <<>>
      /\ Flagged(Top) /\ CtlOK(Top) /\ Len(Here.ctrl) \in Nat /\ Here = snap[Top.fn][Top.pc]
  BY <1>0, RefExec
<1>2. IsSeq(Top.ctl) /\ c = Len(Here.ctrl) + 1 BY <1>1 DEF CtlOK
<1>3. frames' = SetTop(A) \/ frames' = SetTop(B) BY DEF IEnd
<1>4. /\ A.k = Top.k /\ A.fn = Top.fn /\ A.as = <<>> /\ A.pc = Top.pc + 1 /\ A.ctl = SubSeq(Top.ctl, 1, c - 1)
      /\ B.k = Top.k /\ B.fn = Top.fn /\ B.as = <<>> /\ B.pc = Top.pc + 1 /\ B.ctl = <<>>
  BY <1>1 DEF Advance, FrameFields, DropN
<1> HIDE DEF A, B
<1>5. c - 1 \in 0 .. c
  <2>1. \A z \in Nat : (z + 1) - 1 \in 0 .. z + 1 OBVIOUS
  <2> HIDE DEF c
  <2> QED BY <1>1, <1>2, <2>1
<1>6. Flagged(A) BY <1>1, <1>2, <1>4, <1>5, FlagsCut
<1>7. Flagged(B)
  <2>1. Len(B.ctl) = 0 BY <1>4, SeqEmpty
  <2>2. (\A k \in 2 .. 0 : FALSE) /\ ~(1 <= 0) OBVIOUS
  <2> QED BY <2>1, <2>2 DEF Flagged
<1> QED BY <1>0, <1>1, <1>3, <1>4, <1>6, <1>7, AdvanceRef

\* Simple instructions.
LEMMA ISimpleRef == ASSUME RefActive, ISimple, UNCHANGED progvars PROVE RefBoth
<1>0. Executes("interp", {"push", "drop", "popcnt"}) /\ UNCHANGED <<mode, pending, last, ninv>> BY DEF ISimple
<1>1. At.op \in {"push", "drop", "popcnt"} /\ DOMAIN Top = FrameFields /\ Top.as = <<>> /\ Flagged(Top)
  BY <1>0, RefExec
<1>2. Advance.k = Top.k /\ Advance.fn = Top.fn /\ Advance.pc = Top.pc + 1 /\ Advance.as = <<>> /\ Advance.ctl = Top.ctl
  BY <1>1 DEF Advance, FrameFields
<1>3. Flagged(Advance) BY <1>1, <1>2 DEF Flagged
<1>4. frames' = SetTop(Advance) BY DEF ISimple
<1> QED BY <1>0, <1>1, <1>2, <1>3, <1>4, AdvanceRef

\* A trap, or a host function that returns.
LEMMA ITrapRef == ASSUME RefActive, ITrap, UNCHANGED progvars PROVE RefBoth
<1>0. Executes("interp", {"unreachable", "host"}) BY DEF ITrap
<1>1. /\ mode = "run" /\ InBody(Top) /\ At.op \in {"unreachable", "host"}
      /\ DOMAIN Top = FrameFields /\ Top.as = <<>> /\ Flagged(Top)
  BY <1>0, RefExec
<1>2. CASE At.op = "host" /\ At.n = 0
  <2>1. Advance.k = Top.k /\ Advance.fn = Top.fn /\ Advance.pc = Top.pc + 1 /\ Advance.as = <<>> /\ Advance.ctl = Top.ctl
    BY <1>1 DEF Advance, FrameFields
  <2>2. Flagged(Advance) BY <1>1, <2>1 DEF Flagged
  <2>3. frames' = SetTop(Advance) /\ UNCHANGED <<mode, pending, last, ninv>> BY <1>2 DEF ITrap
  <2> QED BY <1>0, <1>2, <2>1, <2>2, <2>3, AdvanceRef
<1>3. CASE ~(At.op = "host" /\ At.n = 0)
  <2>1. Trap BY <1>3 DEF ITrap
  <2>2. \/ At.op \in {"unreachable", "call", "call_ref", "return_call"}
        \/ At.op = "host" /\ At.n # 0
    BY <1>1, <1>3
  <2> QED BY <1>1, <2>1, <2>2, TrapRef
<1> QED BY <1>2, <1>3

\* A return.
LEMMA IDoneRef == ASSUME RefActive, IDone, UNCHANGED progvars PROVE RefBoth
<1> DEFINE vs == LastN(stack, NRes(Top.fn))
           down == SubSeq(stack, 1, Top.base)
<1>1. mode = "run" /\ (~InBody(Top) \/ At.op = "return") BY DEF IDone, Running, InCode, InBody
<1>2. IF CallerIsJit THEN DeliverToJit(vs, down, eh) ELSE DeliverToC(down \o vs, eh) BY DEF IDone
<1> HIDE DEF vs, down
<1>3. CASE CallerIsJit
  <2>1. IF CallerIsJit THEN DeliverToJit(vs, down, eh) ELSE DeliverToC(down, eh) BY <1>2, <1>3
  <2> QED BY <1>1, <2>1, DeliverRef
<1>4. CASE ~CallerIsJit
  <2>1. IF CallerIsJit THEN DeliverToJit(vs, down \o vs, eh) ELSE DeliverToC(down \o vs, eh) BY <1>2, <1>4
  <2> QED BY <1>1, <2>1, DeliverRef
<1> QED BY <1>3, <1>4

\* The caller waits for its callee.
LEMMA WaitRef ==
  ASSUME RefActive, NEW e, NEW ops, Executes(e, ops),
         At.op \in {"call", "call_ref"} \/ (At.op = "return_call" /\ jit[At.n]),
         NEW S, S.k = Top.k, S.fn = Top.fn, S.pc = Top.pc, S.ctl = Top.ctl, S.as = Top.as
  PROVE  /\ IsSeq(SetTop(S)) /\ RefFrames(SetTop(S), TRUE)
         /\ Rest(code, SetTop(S)) =
              IF At.op = "return_call" THEN Rest(code, Front) ELSE Append(Rest(code, Front), <<Top.fn, Top.pc>>)
<1>1. InBody(Top) /\ Top.as = <<>> /\ RefFrame(Top) /\ At = code[Top.fn][Top.pc] BY RefExec
<1>2. IsSeq(Front) /\ SetTop(S) = Append(Front, S) /\ RefFrames(Front, TRUE) BY RefIs
<1>3. RefFrame(S) BY <1>1 DEF RefFrame, Flagged
<1>4. Tailing(code, S) <=> At.op = "return_call" BY <1>1 DEF Tailing, InBody
<1>5. RefWait(S) BY <1>1, <1>4 DEF RefWait
<1>6. ActOf(S) = <<Top.fn, Top.pc>> BY <1>1 DEF ActOf
<1>7. IsSeq(Append(Front, S)) BY <1>2, SeqAppend
<1>8. RefFrames(Append(Front, S), TRUE) BY <1>2, <1>3, <1>5, RefAppend
<1>9. Rest(code, Append(Front, S)) = IF Tailing(code, S) THEN Rest(code, Front) ELSE Append(Rest(code, Front), ActOf(S))
  BY <1>2, RestMore
<1> QED BY <1>2, <1>4, <1>6, <1>7, <1>8, <1>9

\* Calls.
LEMMA ICallRef == ASSUME RefActive, ICall, UNCHANGED progvars PROVE RefBoth
<1> DEFINE S == [Top EXCEPT !.sp = Len(stack)]
           g == At.n
<1>0. Executes("interp", {"call", "call_ref"}) BY DEF ICall
<1>1. mode = "run" /\ InBody(Top) /\ At.op \in {"call", "call_ref"} /\ Top.as = <<>> /\ DOMAIN Top = FrameFields
  BY <1>0, RefExec
<1>2. IF jit[g] THEN EnterJit(SetTop(S), DropN(stack, NArgs(g)), g, Top.dep, eh)
      ELSE EnterInterp(frames, stack, g, Top.dep + 1)
  BY DEF ICall
<1>3. S.k = Top.k /\ S.fn = Top.fn /\ S.pc = Top.pc /\ S.ctl = Top.ctl /\ S.as = Top.as BY <1>1 DEF FrameFields
<1> HIDE DEF S
<1>4. SetTop(Top) = frames BY RefIs
<1>5. ASSUME NEW F, F \in {S, Top}
      PROVE  /\ IsSeq(SetTop(F)) /\ RefFrames(SetTop(F), TRUE)
             /\ Rest(code, SetTop(F)) = Append(Rest(code, Front), <<Top.fn, Top.pc>>)
  <2>1. F.k = Top.k /\ F.fn = Top.fn /\ F.pc = Top.pc /\ F.ctl = Top.ctl /\ F.as = Top.as BY <1>3, <1>5
  <2>2. At.op # "return_call" BY <1>1
  <2> QED BY <1>0, <1>1, <2>1, <2>2, WaitRef
<1>6. CASE jit[g]
  <2> DEFINE fs == SetTop(S)
  <2>1. EnterJit(fs, DropN(stack, NArgs(g)), g, Top.dep, eh) BY <1>2, <1>6
  <2>2. IsSeq(fs) /\ RefFrames(fs, TRUE) /\ Rest(code, fs) = Append(Rest(code, Front), <<Top.fn, Top.pc>>) BY <1>5
  <2> HIDE DEF fs
  <2> QED BY <1>1, <1>6, <2>1, <2>2, EnterRef
<1>7. CASE ~jit[g]
  <2>1. EnterInterp(frames, stack, g, Top.dep + 1) BY <1>2, <1>7
  <2>2. /\ IsSeq(frames) /\ RefFrames(frames, TRUE)
        /\ Rest(code, frames) = Append(Rest(code, Front), <<Top.fn, Top.pc>>)
    BY <1>4, <1>5
  <2> QED BY <1>1, <1>7, <2>1, <2>2, EnterRef
<1> QED BY <1>6, <1>7

\* Tail calls.
LEMMA IReturnCallRef == ASSUME RefActive, IReturnCall, UNCHANGED progvars PROVE RefBoth
<1> DEFINE S == [Top EXCEPT !.sp = Len(stack)]
           g == At.n
<1>0. Executes("interp", {"return_call"}) BY DEF IReturnCall
<1>1. mode = "run" /\ InBody(Top) /\ At.op \in {"return_call"} /\ Top.as = <<>> /\ DOMAIN Top = FrameFields
  BY <1>0, RefExec
<1>2. CASE jit[g]
  <2> DEFINE fs == SetTop(S)
  <2>1. EnterJit(fs, DropN(stack, NArgs(g)), g, Top.dep, eh) BY <1>2 DEF IReturnCall
  <2>2. S.k = Top.k /\ S.fn = Top.fn /\ S.pc = Top.pc /\ S.ctl = Top.ctl /\ S.as = Top.as BY <1>1 DEF FrameFields
  <2> HIDE DEF S
  <2>3. IsSeq(fs) /\ RefFrames(fs, TRUE) /\ Rest(code, fs) = Rest(code, Front) BY <1>0, <1>1, <1>2, <2>2, WaitRef
  <2> HIDE DEF fs
  <2> QED BY <1>1, <1>2, <2>1, <2>3, EnterRef
<1>3. CASE ~jit[g]
  <2> DEFINE G == InterpFrame(g, Top.base, Top.dep, Top.ctl[1].is_try)
  <2>1. frames' = SetTop(G) /\ UNCHANGED <<mode, pending, last, ninv>> BY <1>3 DEF IReturnCall
  <2>2. G.fn = g /\ G.pc = 1 /\ G.as = <<>> BY DEF InterpFrame
  <2>3. RefFrame(G)
    <3>1. CtlOK(Top) /\ Flagged(Top) /\ Len(Here.ctrl) \in Nat /\ Here = snap[Top.fn][Top.pc] BY <1>0, RefExec
    <3>2. Len(Top.ctl) = Len(Here.ctrl) + 1 BY <3>1 DEF CtlOK
    <3>3. 1 <= Len(Top.ctl)
      <4>1. \A z \in Nat : 1 <= z + 1 OBVIOUS
      <4> QED BY <3>1, <3>2, <4>1
    <3>4. EntryClear => ~Top.ctl[1].is_try BY <3>1, <3>3 DEF Flagged
    <3> QED BY <1>3, <3>4, NewRef
  <2> HIDE DEF G
  <2>4. frames' = Append(Front, G) /\ IsSeq(Front) /\ RefFrames(Front, TRUE) BY <2>1, RefIs
  <2>5. mode' = "run" /\ UNCHANGED <<pending, last, ninv>> BY <1>1, <2>1
  <2> QED BY <1>1, <2>2, <2>3, <2>4, <2>5, EnteredRef
<1> QED BY <1>2, <1>3

----------------------------------------------------------------------------
(* Which handler takes an exception.                                       *)

\* the largest element of K
Largest(q, K) == q \in K /\ \A x \in K : x <= q

\* It is what the definitions choose.
LEMMA LargestIs ==
  ASSUME NEW n \in Nat, NEW K \in SUBSET (0 .. n), K # {}
  PROVE  LET q == CHOOSE q \in K : \A x \in K : x <= q IN
         /\ Largest(q, K) /\ \A y : Largest(y, K) => y = q
<1> DEFINE P(q) == \A x \in K : x <= q
           c == CHOOSE q \in K : P(q)
<1>1. \E q \in K : P(q) BY Extremes
<1>2. c \in K /\ P(c)
  <2> HIDE DEF P
  <2> QED BY <1>1
<1>3. c = CHOOSE q \in K : \A x \in K : x <= q BY Zenon
<1> HIDE DEF c
<1>4. \A y : Largest(y, K) => y = c
  <2> SUFFICES ASSUME NEW y, Largest(y, K) PROVE y = c OBVIOUS
  <2>1. y \in K /\ y <= c /\ c <= y BY <1>2 DEF Largest
  <2>2. y \in 0 .. n /\ c \in 0 .. n BY <1>2, <2>1
  <2> QED BY <2>1, <2>2
<1> QED BY <1>2, <1>3, <1>4 DEF Largest

\* q is the innermost level around p that catches t, b its try_table, m where its clause goes
Takes(f, p, t, q, b, m) ==
  /\ f \in Funcs /\ p \in 1 .. Len(code[f]) /\ Largest(q, Catching(f, p, t))
  /\ b = snap[f][p].ctrl[q].blk /\ m = q - 1 - code[f][b].cs[FirstClause(code[f][b], t)].label

\* What is known of it.
LEMMA TakesIs ==
  ASSUME ProgInv, built, NEW f, NEW p, NEW t, NEW q, NEW b, NEW m, Takes(f, p, t, q, b, m)
  PROVE  /\ q \in 1 .. Len(snap[f][p].ctrl) /\ snap[f][p].ctrl[q].op = "try_table" /\ Len(snap[f][p].ctrl) \in Nat
         /\ At1(f, b) /\ code[f][b].op = "try_table" /\ FirstClause(code[f][b], t) \in DOMAIN code[f][b].cs
         /\ FirstClause(code[f][b], t) # 0
         /\ Names(code[f][b].cs[FirstClause(code[f][b], t)].label, q, m)
         /\ m \in 0 .. q - 1 /\ m \in 0 .. Len(snap[f][p].ctrl)
         /\ LandsAt(f, p, t) = LabelPc(f, snap[f][p], m) /\ LandsAt(f, p, t) \in Nat
<1> DEFINE C == snap[f][p].ctrl
           K == Catching(f, p, t)
           c == FirstClause(code[f][b], t)
           l == code[f][b].cs[c].label
<1>1. f \in Funcs /\ p \in 1 .. Len(code[f]) /\ Largest(q, K) /\ b = C[q].blk /\ m = q - 1 - l BY DEF Takes
<1>2. K \in SUBSET (0 .. Len(C)) /\ Len(C) \in Nat BY <1>1, CatchingAre
<1>3. q \in 1 .. Len(C) /\ C[q].op = "try_table" /\ c # 0 BY <1>1 DEF Largest, Catching
<1>4. /\ b \in 1 .. Len(code[f]) /\ Opens(code[f], snap[f], b) /\ snap[f][b].skip = -1 /\ Len(snap[f][b].ctrl) = q - 1
  BY <1>1, <1>3, BlockIs
<1>5. At1(f, b) BY <1>4 DEF At1, Reach
<1>6. code[f][b].op = "try_table" /\ c \in DOMAIN code[f][b].cs /\ l \in 0 .. Len(snap[f][b].ctrl)
  <2> HIDE DEF C, K
  <2> QED BY <1>1, <1>3, <1>5, ClauseIs
<1>7. Names(l, q, m)
  <2>1. l \in 0 .. q - 1 BY <1>4, <1>6
  <2> HIDE DEF l
  <2> QED BY <1>1, <2>1 DEF Names
<1>8. m \in 0 .. q - 1 /\ m \in 0 .. Len(C) /\ m \in Nat
  <2>1. Len(C) \in Nat /\ q \in 1 .. Len(C) BY <1>2, <1>3
  <2> HIDE DEF C, l
  <2> QED BY <1>7, <2>1, NamesIs
<1>9. LandsAt(f, p, t) = LabelPc(f, snap[f][p], m)
  <2> DEFINE k == CHOOSE k \in K : \A j \in K : j <= k
             i == code[f][C[k].blk]
  <2>1. LandsAt(f, p, t) = LabelPc(f, snap[f][p], k - 1 - i.cs[FirstClause(i, t)].label) BY DEF LandsAt
  <2>2. k = q
    <3>1. K # {} BY <1>1 DEF Largest
    <3>2. Len(C) \in Nat /\ K \in SUBSET (0 .. Len(C)) /\ Largest(q, K) BY <1>1, <1>2
    <3> HIDE DEF C, K
    <3> QED BY <3>1, <3>2, LargestIs
  <2> HIDE DEF k
  <2> QED BY <1>1, <2>1, <2>2
<1>10. LabelPc(f, snap[f][p], m) \in Nat
  <2>1. Len(code[f]) \in Nat BY <1>1, BodyIs
  <2>2. CASE m = 0 BY <2>1, <2>2 DEF LabelPc
  <2>3. CASE m # 0
    <3>1. m \in 1 .. Len(C)
      <4> HIDE DEF C
      <4> QED BY <1>2, <1>8, <2>3
    <3>2. At1(f, LabelPc(f, snap[f][p], m)) BY <1>1, <3>1, TargetIs
    <3>3. LabelPc(f, snap[f][p], m) \in 1 .. Len(code[f]) BY <3>2 DEF At1
    <3>4. \A z \in Nat : \A x \in 1 .. z : x \in Nat OBVIOUS
    <3> QED BY <2>1, <3>3, <3>4
  <2> QED BY <2>2, <2>3
<1> QED BY <1>2, <1>3, <1>5, <1>6, <1>7, <1>8, <1>9, <1>10

\* The interpreter's handlers are the levels that catch.
LEMMA HandlersAre ==
  ASSUME ProgInv, NEW F, FrameOK(F), F.k = "interp", InBody(F), Flagged(F), NEW t
  PROVE  /\ Handlers(F, t) \in SUBSET (0 .. Len(F.ctl)) /\ Len(F.ctl) \in Nat
         /\ Len(F.ctl) = Len(snap[F.fn][F.pc].ctrl) + 1
         /\ \A k \in Nat : k + 1 \in Handlers(F, t) <=> k \in Catching(F.fn, F.pc, t)
         /\ \A k \in Nat : F.ctl[k + 1].blk = snap[F.fn][F.pc].ctrl[k].blk \/ k + 1 \notin Handlers(F, t)
         /\ \A k \in Handlers(F, t) : k - 1 \in Nat
<1> DEFINE C == snap[F.fn][F.pc].ctrl
<1>1. F.fn \in Funcs /\ F.pc \in 1 .. Len(code[F.fn]) /\ CtlOK(F) /\ Len(code[F.fn]) \in Nat
  BY FrameIs DEF FrameOK
<1>2. Len(C) \in Nat
  <2>1. F.pc \in 1 .. Len(code[F.fn]) + 1 BY <1>1
  <2> QED BY <1>1, <2>1, BodyIs
<1>3. /\ Len(F.ctl) = Len(C) + 1
      /\ \A k \in 1 .. Len(C) : F.ctl[k + 1].blk = C[k].blk
  BY <1>1 DEF CtlOK
<1>4. Len(F.ctl) \in Nat
  <2>1. \A z \in Nat : z + 1 \in Nat OBVIOUS
  <2> HIDE DEF C
  <2> QED BY <1>2, <1>3, <2>1
<1>5. \A k \in Nat : k + 1 \in 2 .. Len(F.ctl) <=> k \in 1 .. Len(C)
  <2>1. \A z, k \in Nat : k + 1 \in 2 .. z + 1 <=> k \in 1 .. z OBVIOUS
  <2> HIDE DEF C
  <2> QED BY <1>2, <1>3, <2>1
<1>6. \A k \in 2 .. Len(F.ctl) : k - 1 \in Nat /\ k \in 0 .. Len(F.ctl) BY <1>4
<1>7. ASSUME NEW k \in 1 .. Len(C)
      PROVE  /\ F.ctl[k + 1].is_try <=> C[k].op = "try_table"
             /\ F.ctl[k + 1].blk = C[k].blk
  <2>1. k + 1 \in 2 .. Len(F.ctl) BY <1>2, <1>3
  <2>2. C[k] = Entry(code[F.fn], snap[F.fn], C[k].blk) BY <1>1, LevelIs
  <2>3. C[k].op = code[F.fn][C[k].blk].op
    <3> DEFINE b == C[k].blk
    <3>1. C[k] = Entry(code[F.fn], snap[F.fn], b) BY <2>2
    <3> HIDE DEF b
    <3>2. C[k].op = code[F.fn][b].op BY <3>1 DEF Entry
    <3> QED BY <3>2 DEF b
  <2> QED BY <1>3, <2>1, <2>3 DEF Flagged
<1>8. ASSUME NEW k \in Nat PROVE k + 1 \in Handlers(F, t) <=> k \in Catching(F.fn, F.pc, t)
  <2>1. CASE k \in 1 .. Len(C) BY <1>5, <1>7, <2>1 DEF Handlers, Catching
  <2>2. CASE k \notin 1 .. Len(C) BY <1>5, <2>2 DEF Handlers, Catching
  <2> QED BY <2>1, <2>2
<1>9. \A k \in Nat : k + 1 \in Handlers(F, t) => k \in 1 .. Len(C) BY <1>5 DEF Handlers
<1>10. Handlers(F, t) \subseteq 2 .. Len(F.ctl) BY DEF Handlers
<1> HIDE DEF C
<1>11. Handlers(F, t) \in SUBSET (0 .. Len(F.ctl)) /\ \A k \in Handlers(F, t) : k - 1 \in Nat BY <1>6, <1>10
<1>12. \A k \in Nat : F.ctl[k + 1].blk = C[k].blk \/ k + 1 \notin Handlers(F, t) BY <1>7, <1>9
<1> QED BY <1>3, <1>4, <1>8, <1>11, <1>12 DEF C

\* eh_unwind takes an exception where the specification does, or passes it on.
LEMMA UnwindRef ==
  ASSUME RefActive, Top.k = "interp", InBody(Top), NEW st, NEW t, NEW skip,
         skip = 0 \/ (CallRefUncaught /\ At.op = "call_ref"),
         Raising(Rest(code, Front), Top.fn, Top.pc, t),
         eh_unwind(Top, st, t, skip), mode' # "crash", UNCHANGED progvars
  PROVE  RefBoth
<1> DEFINE F == Top
           s == snap[F.fn][F.pc]
           H == Handlers(F, t)
           K == Catching(F.fn, F.pc, t)
<1>1. /\ ProgInv /\ built /\ FrameOK(F) /\ RefFrame(F) /\ Flagged(F) /\ DOMAIN F = FrameFields
      /\ F.fn \in Funcs /\ F.pc \in 1 .. Len(code[F.fn]) /\ At1(F.fn, F.pc)
  BY RefIs, FrameIs DEF RefFrame
<1>2. /\ H \in SUBSET (0 .. Len(F.ctl)) /\ Len(F.ctl) \in Nat /\ Len(F.ctl) = Len(s.ctrl) + 1
      /\ \A k \in Nat : k + 1 \in H <=> k \in K
      /\ \A k \in Nat : F.ctl[k + 1].blk = s.ctrl[k].blk \/ k + 1 \notin H
      /\ \A k \in H : k - 1 \in Nat
  BY <1>1, HandlersAre
<1>3. K \in SUBSET (0 .. Len(s.ctrl)) /\ Len(s.ctrl) \in Nat BY <1>1, CatchingAre
<1>4. CASE H = {}
  <2>1. K = {}
    <3>1. \A k \in K : k \in Nat BY <1>3
    <3> HIDE DEF H, K
    <3> QED BY <1>2, <1>4, <3>1
  <2>2. ~F.ctl[1].is_try BY <1>4 DEF eh_unwind, Crash
  <2>3. Propagate(st, eh) /\ pending' = t BY <1>4, <2>2 DEF eh_unwind
  <2> QED BY <1>1, <2>1, <2>3, PassRef
<1>5. CASE H # {}
  <2> DEFINE k == CHOOSE k \in H : \A j \in H : j <= k
             i == code[F.fn][F.ctl[k].blk]
             c == i.cs[FirstClause(i, t)]
             m == k - 1 - c.label
             G == [F EXCEPT !.ctl = SubSeq(@, 1, m), !.pc = CtlPc(F.fn, F.ctl[m]) + skip]
  <2>1. frames' = SetTop(G) /\ mode' = "run" /\ pending' = NoExn /\ UNCHANGED <<last, ninv>>
    BY <1>5 DEF eh_unwind
  <2>2. Largest(k, H)
    <3>1. H \in SUBSET (0 .. Len(F.ctl)) /\ Len(F.ctl) \in Nat /\ H # {} BY <1>2, <1>5
    <3> HIDE DEF H, F
    <3> QED BY <3>1, LargestIs
  <2> HIDE DEF k
  <2>3. k \in H /\ k - 1 \in Nat /\ k \in Nat /\ (k - 1) + 1 = k
    <3>1. k \in H BY <2>2 DEF Largest
    <3>2. k \in 0 .. Len(F.ctl) /\ k - 1 \in Nat BY <1>2, <3>1
    <3> HIDE DEF F
    <3> QED BY <3>1, <3>2
  <2> DEFINE q == k - 1
             b == s.ctrl[q].blk
  <2>4. Largest(q, K)
    <3>1. q \in K BY <1>2, <2>3
    <3>2. ASSUME NEW x \in K PROVE x <= q
      <4>1. x \in Nat BY <1>3
      <4>2. x + 1 \in H BY <1>2, <4>1
      <4>3. x + 1 <= k BY <2>2, <4>2 DEF Largest
      <4> QED BY <2>3, <4>1, <4>3
    <3> QED BY <3>1, <3>2 DEF Largest
  <2>5. F.ctl[k].blk = b BY <1>2, <2>3
  <2>6. i = code[F.fn][b] BY <2>5
  <2>7. Takes(F.fn, F.pc, t, q, b, q - 1 - c.label)
    <3>1. q - 1 - c.label = q - 1 - code[F.fn][b].cs[FirstClause(code[F.fn][b], t)].label BY <2>6
    <3>2. b = snap[F.fn][F.pc].ctrl[q].blk OBVIOUS
    <3> HIDE DEF F, b, q, c, i, K
    <3> QED BY <1>1, <2>4, <3>1, <3>2 DEF Takes, K
  <2> DEFINE n == q - 1 - c.label
  <2> HIDE DEF b
  <2>8. /\ At1(F.fn, b) /\ code[F.fn][b].op = "try_table" /\ n \in 0 .. Len(s.ctrl)
        /\ LandsAt(F.fn, F.pc, t) = LabelPc(F.fn, s, n) /\ LandsAt(F.fn, F.pc, t) \in Nat
    <3>1. Takes(F.fn, F.pc, t, q, b, n) BY <2>7
    <3>2. s = snap[F.fn][F.pc] OBVIOUS
    <3> HIDE DEF F, q, n, s, c, i
    <3> QED BY <1>1, <3>1, <3>2, TakesIs
  <2>9. c.label \in Nat
    <3>1. Names(code[F.fn][b].cs[FirstClause(code[F.fn][b], t)].label, q, n) BY <1>1, <2>7, TakesIs
    <3>2. Names(c.label, q, n) BY <2>6, <3>1
    <3> HIDE DEF q, n, c
    <3>3. c.label \in 0 .. q - 1 BY <3>2 DEF Names
    <3>4. q \in Nat BY <2>3 DEF q
    <3> QED BY <3>3, <3>4
  <2>10. m = n + 1 /\ m - 1 = n /\ m \in 1 .. Len(F.ctl) /\ m \in 0 .. Len(F.ctl)
    <3>1. \A z, x \in Nat : (z - 1) - x + 1 = z - x OBVIOUS
    <3> DEFINE l == c.label
    <3>2. m = n + 1
      <4>1. m = k - 1 - l /\ n = (k - 1) - 1 - l OBVIOUS
      <4>2. k \in Nat /\ l \in Nat BY <2>3, <2>9
      <4> HIDE DEF m, n, l
      <4> QED BY <4>1, <4>2
    <3>3. n \in 0 .. Len(s.ctrl) /\ Len(s.ctrl) \in Nat /\ Len(F.ctl) = Len(s.ctrl) + 1 BY <1>2, <1>3, <2>8
    <3>4. \A z \in Nat : \A x \in 0 .. z : (x + 1) - 1 = x /\ x + 1 \in 1 .. z + 1 /\ x + 1 \in 0 .. z + 1 OBVIOUS
    <3> HIDE DEF m, n, s, F
    <3> QED BY <3>2, <3>3, <3>4
  <2>11. skip = 0
    <3> SUFFICES ASSUME CallRefUncaught, At.op = "call_ref" PROVE FALSE OBVIOUS
    <3>1. code[F.fn][F.pc] \in Instrs[F.fn] /\ code[F.fn][b] \in Instrs[F.fn] BY <1>1, <2>8, RunsIs
    <3> QED BY <1>1, <2>8, <3>1 DEF CallRefUncaught, At
  <2>12. CtlPc(F.fn, F.ctl[m]) = LandsAt(F.fn, F.pc, t)
    <3>1. CtlPc(F.fn, F.ctl[m]) = LabelPc(F.fn, s, m - 1)
      <4> HIDE DEF F, m
      <4>1. F.k = "interp" /\ InBody(F) BY DEF F
      <4> QED BY <1>1, <2>10, <4>1, CtlPcIs
    <3> HIDE DEF F, m, n, s
    <3> QED BY <2>8, <2>10, <3>1
  <2>13. CtlPc(F.fn, F.ctl[m]) + skip = LandsAt(F.fn, F.pc, t)
    <3>1. LandsAt(F.fn, F.pc, t) \in Nat BY <2>8
    <3> HIDE DEF F, m, s, n, c, i, q
    <3> QED BY <2>11, <2>12, <3>1
  <2> HIDE DEF m, n, c, i, q
  <2>14. /\ G.k = "interp" /\ G.fn = F.fn /\ G.as = F.as /\ G.pc = LandsAt(F.fn, F.pc, t)
         /\ G.ctl = SubSeq(F.ctl, 1, m)
    BY <1>1, <2>13 DEF FrameFields
  <2> HIDE DEF G
  <2>15. G.as = <<>> BY <1>1, <2>14 DEF RefFrame
  <2>16. Flagged(G)
    <3>1. IsSeq(F.ctl) BY <1>1 DEF FrameOK, CtlOK
    <3> QED BY <1>1, <2>10, <2>14, <3>1, FlagsCut
  <2>17. RefFrame(G) BY <1>1, <2>14, <2>15, <2>16, PlainRef
  <2>18. K # {} BY <2>4 DEF Largest
  <2> QED BY <1>1, <2>1, <2>14, <2>15, <2>17, <2>18, CaughtRef
<1> QED BY <1>4, <1>5

\* no function that may tail-call another one has a try_table
TailsApart ==
  \A f \in Funcs : \A i, j \in Instrs[f] : i.op = "return_call" /\ i.n # f => j.op # "try_table"

\* An interpreter frame that waits at a tail call has no handler.
LEMMA TailNoHandler ==
  ASSUME TailsApart, RefActive, mode = "exn", Top.k = "interp", InBody(Top), Tailing(code, Top), NEW t
  PROVE  Handlers(Top, t) = {}
<1> DEFINE f == Top.fn
           p == Top.pc
           C == snap[f][p].ctrl
           H == Handlers(Top, t)
           K == Catching(f, p, t)
<1>1. /\ ProgInv /\ FrameOK(Top) /\ RefFrame(Top) /\ RefWait(Top) /\ Flagged(Top) /\ ~jit[f]
      /\ f \in Funcs /\ p \in 1 .. Len(code[f]) /\ At1(f, p)
  BY RefIs, FrameIs DEF RefFrame
<1>2. code[f][p].op = "return_call" /\ code[f][p].n # f
  <2>1. code[f][p].op = "return_call" BY DEF Tailing
  <2>2. jit[code[f][p].n] BY <1>1 DEF RefWait
  <2> QED BY <1>1, <2>1, <2>2
<1>3. code[f][p] \in Instrs[f] BY <1>1, RunsIs
<1>4. \A j \in Instrs[f] : j.op # "try_table" BY <1>1, <1>2, <1>3 DEF TailsApart
<1>5. K = {}
  <2> SUFFICES ASSUME NEW q \in K PROVE FALSE OBVIOUS
  <2> DEFINE b == C[q].blk
  <2>1. q \in 1 .. Len(C) /\ C[q].op = "try_table" BY DEF Catching
  <2>2. C[q] = Entry(code[f], snap[f], b) /\ Opens(code[f], snap[f], b) /\ b \in 1 .. Len(code[f])
    <3>1. C[q] = Entry(code[f], snap[f], b) BY <1>1, <2>1, LevelIs
    <3>2. Opens(code[f], snap[f], b) /\ b \in 1 .. Len(code[f]) BY <1>1, <2>1, BlockIs
    <3> QED BY <3>1, <3>2
  <2>3. C[q].op = code[f][b].op
    <3>1. C[q] = Entry(code[f], snap[f], b) BY <2>2
    <3> HIDE DEF b
    <3> QED BY <3>1 DEF Entry
  <2>4. At1(f, b) BY <2>2 DEF At1, Reach, Opens
  <2>5. code[f][b] \in Instrs[f] BY <1>1, <2>4, RunsIs
  <2> QED BY <1>4, <2>1, <2>3, <2>5
<1>6. /\ H \in SUBSET (0 .. Len(Top.ctl)) /\ Len(Top.ctl) \in Nat
      /\ \A k \in Nat : k + 1 \in H <=> k \in K
      /\ \A k \in H : k - 1 \in Nat
  BY <1>1, HandlersAre
<1>7. ASSUME NEW k \in H PROVE FALSE
  <2>1. k - 1 \in Nat /\ k \in 0 .. Len(Top.ctl) BY <1>6
  <2>2. (k - 1) + 1 = k BY <1>6, <2>1
  <2>3. k - 1 \in K BY <1>6, <2>1, <2>2
  <2> QED BY <1>5, <2>3
<1> QED BY <1>7

\* Exceptions an interpreter frame throws or meets.
LEMMA IThrowsRef ==
  ASSUME CallRefUncaught, TailsApart, RefActive, IThrow \/ IThrowRef \/ ICallFailed, mode' # "crash", UNCHANGED progvars
  PROVE  RefBoth
<1> DEFINE A == Rest(code, Front)
<1>1. CASE IThrow
  <2>1. Executes("interp", {"throw"}) BY <1>1 DEF IThrow
  <2>2. mode = "run" /\ Top.k = "interp" /\ InBody(Top) /\ At.op = "throw" /\ At = code[Top.fn][Top.pc] /\ Top.as = <<>>
    BY <2>1, RefExec
  <2>3. Stand(A, Top.fn, Top.pc) BY <2>2, StandIs
  <2>4. Raising(A, Top.fn, Top.pc, At.t) BY <2>2, <2>3 DEF Raising, InBody
  <2>5. eh_unwind(Top, DropN(stack, Len(TagTys[At.t])), At.t, 0) BY <1>1 DEF IThrow
  <2> QED BY <2>2, <2>4, <2>5, UnwindRef
<1>2. CASE IThrowRef
  <2> DEFINE t == stack[Len(stack)]
  <2>1. Executes("interp", {"throw_ref"}) BY <1>2 DEF IThrowRef
  <2>2. mode = "run" /\ Top.k = "interp" /\ InBody(Top) /\ At.op = "throw_ref" /\ At = code[Top.fn][Top.pc] /\ Top.as = <<>>
    BY <2>1, RefExec
  <2>3. TyOf(t) = "exn" /\ eh_unwind(Top, DropN(stack, 1), t, 0) BY <1>2 DEF IThrowRef, Crash
  <2>4. t \in Tags BY <2>3 DEF TyOf
  <2>5. Stand(A, Top.fn, Top.pc) BY <2>2, StandIs
  <2> HIDE DEF t
  <2>6. Raising(A, Top.fn, Top.pc, t) BY <2>2, <2>4, <2>5 DEF Raising, InBody
  <2> QED BY <2>2, <2>3, <2>6, UnwindRef
<1>3. CASE ICallFailed
  <2> DEFINE st == IF jit[At.n] THEN Resize(stack, Top.sp) ELSE stack
             skip == IF At.op = "call_ref" /\ ~jit[At.n] THEN 1 ELSE 0
  <2>1. mode = "exn" /\ Top.k = "interp" /\ eh_unwind(Top, st, pending, skip) BY <1>3 DEF ICallFailed
  <2>2. InBody(Top) /\ RefFrame(Top) BY <2>1, ActiveIs, RefIs DEF AtCall, RefActive
  <2>3. skip = 0 \/ (CallRefUncaught /\ At.op = "call_ref") OBVIOUS
  <2> HIDE DEF st, skip
  <2>4. CASE Tailing(code, Top)
    <3>1. Handlers(Top, pending) = {} BY <2>1, <2>2, <2>4, TailNoHandler
    <3>2. Propagate(st, eh) /\ pending' = pending BY <2>1, <3>1 DEF eh_unwind, Crash
    <3> QED BY <2>1, <2>4, <3>2, UnseenRef
  <2>5. CASE ~Tailing(code, Top)
    <3>1. Stand(A, Top.fn, Top.pc) BY <2>2, <2>5, StandIs DEF RefFrame
    <3>2. Raising(A, Top.fn, Top.pc, pending) BY <2>1, <3>1 DEF Raising
    <3> QED BY <2>1, <2>2, <2>3, <3>2, UnwindRef
  <2> QED BY <2>4, <2>5
<1> QED BY <1>1, <1>2, <1>3

\* Every step of the interpreter.
LEMMA InterpRef ==
  ASSUME CallRefUncaught, TailsApart, RefActive, InterpNext, mode' # "crash", UNCHANGED progvars
  PROVE  RefBoth
  BY IOpenRef, IEndRef, IBrRef, ISimpleRef, ITrapRef, IDoneRef, ICallRef, IReturnCallRef, IThrowsRef DEF InterpNext

----------------------------------------------------------------------------
(* Generated code.                                                         *)

\* no host function fails: generated code takes no notice of a failure
HostsSucceed == \A f \in Funcs : \A i \in Instrs[f] : i.op = "host" => i.n = 0

\* A frame of generated code.
LEMMA JitRef ==
  ASSUME NEW G, G.k = "jit", G.as = <<>>
  PROVE  RefFrame(G)
  BY DEF RefFrame

\* Blocks, branches and simple instructions.
LEMMA JLocalRef ==
  ASSUME HostsSucceed, RefActive, JOpen \/ JEnd \/ JSimple \/ JTrap, UNCHANGED progvars
  PROVE  RefBoth
<1>1. CASE JOpen
  <2> DEFINE E == [Top EXCEPT !.pc = end_idx[Top.fn][Top.pc]]
  <2>1. Executes("jit", Openers) /\ UNCHANGED <<mode, pending, last, ninv>> BY <1>1 DEF JOpen
  <2>2. /\ mode = "run" /\ InBody(Top) /\ At.op \in Openers /\ At = code[Top.fn][Top.pc] /\ Top.k = "jit"
        /\ DOMAIN Top = FrameFields /\ Top.as = <<>>
    BY <2>1, RefExec
  <2>3. frames' = SetTop(Advance) \/ (At.op = "if" /\ frames' = SetTop(E)) BY <1>1 DEF JOpen
  <2>4. /\ Advance.k = Top.k /\ Advance.fn = Top.fn /\ Advance.pc = Top.pc + 1 /\ Advance.as = <<>>
        /\ E.k = Top.k /\ E.fn = Top.fn /\ E.pc = end_idx[Top.fn][Top.pc] /\ E.as = <<>>
    BY <2>2 DEF Advance, FrameFields
  <2> HIDE DEF E
  <2>5. CASE frames' = SetTop(Advance) BY <2>1, <2>2, <2>4, <2>5, AdvanceRef
  <2>6. CASE At.op = "if" /\ frames' = SetTop(E)
    <3>1. LocalTo(Top.fn, Top.pc, E.pc) BY <2>2, <2>4, <2>6 DEF LocalTo
    <3>2. RefFrame(E) BY <2>2, <2>4, JitRef
    <3>3. mode' = "run" BY <2>1, <2>2
    <3> QED BY <2>1, <2>2, <2>4, <2>6, <3>1, <3>2, <3>3, MoveRef
  <2> QED BY <2>3, <2>5, <2>6
<1>2. CASE JEnd
  <2>1. Executes("jit", {"end"}) /\ UNCHANGED <<mode, pending, last, ninv>> /\ frames' = SetTop(Advance)
    BY <1>2 DEF JEnd
  <2>2. At.op \in {"end"} /\ DOMAIN Top = FrameFields /\ Top.as = <<>> BY <2>1, RefExec
  <2>3. Advance.k = Top.k /\ Advance.fn = Top.fn /\ Advance.pc = Top.pc + 1 /\ Advance.as = <<>>
    BY <2>2 DEF Advance, FrameFields
  <2> QED BY <2>1, <2>2, <2>3, AdvanceRef
<1>3. CASE JSimple
  <2> DEFINE os == CASE At.op = "push" -> Append(Top.ops, "v")
                     [] At.op = "drop" -> DropN(Top.ops, 1)
                     [] OTHER -> Top.ops
             G == [Advance EXCEPT !.ops = os]
  <2>1. Executes("jit", {"push", "drop", "popcnt"}) /\ UNCHANGED <<mode, pending, last, ninv>>
    BY <1>3 DEF JSimple
  <2>2. At.op \in {"push", "drop", "popcnt"} /\ DOMAIN Top = FrameFields /\ Top.as = <<>> BY <2>1, RefExec
  <2>3. Advance.ops = Top.ops /\ DOMAIN Advance = FrameFields BY <2>2 DEF Advance, FrameFields
  <2>4. frames' = SetTop(G) BY <1>3, <2>3 DEF JSimple
  <2> HIDE DEF os
  <2>5. G.k = Top.k /\ G.fn = Top.fn /\ G.pc = Top.pc + 1 /\ G.as = <<>> BY <2>2 DEF Advance, FrameFields
  <2> HIDE DEF G
  <2> QED BY <2>1, <2>2, <2>4, <2>5, AdvanceRef
<1>4. CASE JTrap
  <2>1. Executes("jit", {"unreachable", "host"}) BY <1>4 DEF JTrap
  <2>2. /\ mode = "run" /\ InBody(Top) /\ At.op \in {"unreachable", "host"} /\ DOMAIN Top = FrameFields /\ Top.as = <<>>
        /\ Top.fn \in Funcs
    BY <2>1, RefExec
  <2>3. CASE At.op = "host"
    <3>1. At \in Instrs[Top.fn] BY <2>1, ExecIs DEF RefActive
    <3>2. At.n = 0 BY <2>2, <2>3, <3>1 DEF HostsSucceed
    <3>3. frames' = SetTop(Advance) /\ UNCHANGED <<mode, pending, last, ninv>> BY <1>4, <2>3 DEF JTrap
    <3>4. Advance.k = Top.k /\ Advance.fn = Top.fn /\ Advance.pc = Top.pc + 1 /\ Advance.as = <<>>
      BY <2>2 DEF Advance, FrameFields
    <3> QED BY <2>1, <2>3, <3>2, <3>3, <3>4, AdvanceRef
  <2>4. CASE At.op # "host"
    <3>1. Trap BY <1>4, <2>4 DEF JTrap
    <3>2. At.op \in {"unreachable", "call", "call_ref", "return_call"} BY <2>2, <2>4
    <3> QED BY <2>2, <3>1, <3>2, TrapRef
  <2> QED BY <2>3, <2>4
<1> QED BY <1>1, <1>2, <1>3, <1>4

\* The branches of generated code.
LEMMA JBrRef == ASSUME RefActive, JBr, UNCHANGED progvars PROVE RefBoth
<1>0. Executes("jit", {"br", "br_if", "br_table"}) /\ UNCHANGED <<mode, pending, last, ninv>> BY DEF JBr
<1>1. /\ mode = "run" /\ InBody(Top) /\ Top.k = "jit" /\ At.op \in {"br", "br_if", "br_table"}
      /\ At = code[Top.fn][Top.pc] /\ Here = snap[Top.fn][Top.pc]
      /\ DOMAIN Top = FrameFields /\ Top.as = <<>>
  BY <1>0, RefExec
<1>2. ASSUME NEW l, l = At.n \/ (At.op = "br_table" /\ l = 0), JJump(l) PROVE RefBoth
  <2> DEFINE k == LabelLvl(Here, l)
             q == LabelPc(Top.fn, Here, k)
             os == SubSeq(Top.ops, 1, LabelHeight(Here, k)) \o LastN(Top.ops, Len(LabelTys(Top.fn, Here, k)))
             G == [Top EXCEPT !.ops = os, !.pc = q]
  <2>1. frames' = SetTop(G) BY <1>2 DEF JJump
  <2> HIDE DEF os, q
  <2>2. G.k = "jit" /\ G.fn = Top.fn /\ G.as = <<>> /\ G.pc = q BY <1>1 DEF FrameFields
  <2> HIDE DEF G
  <2>3. l \in {At.n} \cup (IF At.op = "br_table" THEN {0} ELSE {}) BY <1>2
  <2>4. q = LabelPc(Top.fn, Here, LabelLvl(Here, l)) BY DEF q
  <2>5. LocalTo(Top.fn, Top.pc, G.pc) BY <1>1, <2>2, <2>3, <2>4 DEF LocalTo
  <2>6. RefFrame(G) BY <2>2, JitRef
  <2>7. mode' = "run" BY <1>0, <1>1
  <2> QED BY <1>0, <1>1, <2>1, <2>2, <2>5, <2>6, <2>7, MoveRef
<1>3. CASE At.op = "br_if" /\ frames' = SetTop(Advance)
  <2>1. Advance.k = Top.k /\ Advance.fn = Top.fn /\ Advance.pc = Top.pc + 1 /\ Advance.as = <<>>
    BY <1>1 DEF Advance, FrameFields
  <2> QED BY <1>0, <1>3, <2>1, AdvanceRef
<1> QED BY <1>2, <1>3 DEF JBr

\* A return from generated code: x0 never holds the marker.
LEMMA JDoneRef == ASSUME RefActive, PendInv, JDone, UNCHANGED progvars PROVE RefBoth
<1>1. mode = "run" /\ x0 = FALSE BY DEF JDone, Running, PendInv, PendingOK
<1>2. ASSUME NEW e, NEW one, one = FALSE, JReturnWith(e, one), ~InBody(Top) \/ At.op = "return" PROVE RefBoth
  <2> DEFINE vs == LastN(Top.ops, NRes(Top.fn))
  <2>1. IF CallerIsJit THEN DeliverToJit(vs, stack, e) ELSE DeliverToC(stack \o vs, e) BY <1>2 DEF JReturnWith
  <2> HIDE DEF vs
  <2>2. CASE CallerIsJit
    <3>1. IF CallerIsJit THEN DeliverToJit(vs, stack, e) ELSE DeliverToC(stack, e) BY <2>1, <2>2
    <3> QED BY <1>1, <1>2, <3>1, DeliverRef
  <2>3. CASE ~CallerIsJit
    <3>1. IF CallerIsJit THEN DeliverToJit(vs, stack \o vs, e) ELSE DeliverToC(stack \o vs, e) BY <2>1, <2>3
    <3> QED BY <1>1, <1>2, <3>1, DeliverRef
  <2> QED BY <2>2, <2>3
<1>3. CASE ~InCode /\ JReturnWith(eh, x0)
  <2>1. ~InBody(Top) BY <1>3 DEF InCode, InBody
  <2> QED BY <1>1, <1>2, <1>3, <2>1
<1>4. CASE ~(~InCode /\ JReturnWith(eh, x0))
  <2> DEFINE n == eh_crossings(Here, Len(Here.ctrl))
  <2>1. At.op = "return" /\ JReturnWith(ea_jit_eh_popn(n), x0 /\ n = 0) BY <1>4 DEF JDone
  <2>2. (x0 /\ n = 0) = FALSE BY <1>1
  <2> HIDE DEF n
  <2> QED BY <1>2, <2>1, <2>2
<1> QED BY <1>3, <1>4

\* Calls of generated code.
LEMMA JCallRef == ASSUME RefActive, JCall, UNCHANGED progvars PROVE RefBoth
<1> DEFINE g == At.n
           os == DropN(Top.ops, NArgs(g))
           S == [Top EXCEPT !.ops = os]
           fs == SetTop(S)
<1>0. Executes("jit", {"call"}) BY DEF JCall
<1>1. mode = "run" /\ InBody(Top) /\ At.op \in {"call"} /\ Top.as = <<>> /\ DOMAIN Top = FrameFields
  BY <1>0, RefExec
<1>2. IF jit[g] THEN EnterJit(fs, stack, g, Top.dep, eh)
      ELSE EnterInterp(fs, stack \o LastN(Top.ops, NArgs(g)), g, Top.dep + 1)
  BY DEF JCall
<1> HIDE DEF os
<1>3. S.k = Top.k /\ S.fn = Top.fn /\ S.pc = Top.pc /\ S.ctl = Top.ctl /\ S.as = Top.as BY <1>1 DEF FrameFields
<1> HIDE DEF S
<1>4. IsSeq(fs) /\ RefFrames(fs, TRUE) /\ Rest(code, fs) = Append(Rest(code, Front), <<Top.fn, Top.pc>>)
  <2>1. At.op \in {"call", "call_ref"} /\ At.op # "return_call" BY <1>1
  <2> QED BY <1>0, <1>1, <1>3, <2>1, WaitRef
<1> HIDE DEF fs
<1> DEFINE st == IF jit[g] THEN stack ELSE stack \o LastN(Top.ops, NArgs(g))
           d == IF jit[g] THEN Top.dep ELSE Top.dep + 1
<1>5. (jit[g] /\ EnterJit(fs, st, g, d, eh)) \/ (~jit[g] /\ EnterInterp(fs, st, g, d)) BY <1>2
<1> HIDE DEF st, d
<1>6. At.op \in {"call", "call_ref"} BY <1>1
<1> QED BY <1>1, <1>4, <1>5, <1>6, EnterRef

\* Tail calls of generated code.
LEMMA JReturnCallRef == ASSUME RefActive, JReturnCall, UNCHANGED progvars PROVE RefBoth
<1> DEFINE g == At.n
           e == ea_jit_eh_popn(eh_crossings(Here, Len(Here.ctrl)))
<1>0. Executes("jit", {"return_call"}) BY DEF JReturnCall
<1>1. mode = "run" /\ InBody(Top) /\ At.op \in {"return_call"} /\ Top.as = <<>> BY <1>0, RefExec
<1>2. IsSeq(Front) /\ RefFrames(Front, TRUE) BY RefIs
<1>3. \/ jit[g] /\ EnterJit(Front, stack, g, Top.dep, e)
      \/ Trap
      \/ /\ ~jit[g]
         /\ \E b \in Ctl0Garbage : /\ frames' = Append(Front, InterpFrame(g, Len(stack), Top.dep + 1, b))
                                  /\ UNCHANGED <<mode, pending, last, ninv>>
  BY DEF JReturnCall
<1> HIDE DEF e
<1>4. CASE jit[g] /\ EnterJit(Front, stack, g, Top.dep, e) BY <1>1, <1>2, <1>4, EnterRef
<1>5. CASE Trap
  <2>1. At.op \in {"unreachable", "call", "call_ref", "return_call"} BY <1>1
  <2> QED BY <1>1, <1>5, <2>1, TrapRef
<1>6. ASSUME ~jit[g], NEW b \in Ctl0Garbage, frames' = Append(Front, InterpFrame(g, Len(stack), Top.dep + 1, b)),
             UNCHANGED <<mode, pending, last, ninv>>
      PROVE  RefBoth
  <2> DEFINE G == InterpFrame(g, Len(stack), Top.dep + 1, b)
  <2>1. G.fn = g /\ G.pc = 1 /\ G.as = <<>> BY DEF InterpFrame
  <2>2. RefFrame(G) BY <1>6, NewRef DEF EntryClear
  <2> HIDE DEF G
  <2>3. frames' = Append(Front, G) BY <1>6 DEF G
  <2>4. mode' = "run" /\ UNCHANGED <<pending, last, ninv>> BY <1>1, <1>6
  <2> QED BY <1>1, <1>2, <2>1, <2>2, <2>3, <2>4, EnteredRef
<1> QED BY <1>3, <1>4, <1>5, <1>6

----------------------------------------------------------------------------
(* Exceptions in generated code.                                           *)

\* The entries of the top frame that match are the levels that catch.
LEMMA MatchesAre ==
  ASSUME Active, TryInv, Top.k = "jit", InBody(Top), NEW t
  PROVE  LET C == snap[Top.fn][Top.pc].ctrl
             K == Catching(Top.fn, Top.pc, t)
             M == MatchingEntries(t)
         IN
         /\ M \in SUBSET (0 .. Len(eh)) /\ Len(eh) \in Nat
         /\ \A j \in M : j \in 1 .. Len(eh) /\ eh[j].fp = Fp /\ eh[j].fn = Top.fn
         /\ \A j \in M : \E q \in K : eh[j].blk = C[q].blk
         /\ \A q \in K : \E j \in M : eh[j].blk = C[q].blk
<1> DEFINE f == Top.fn
           p == Top.pc
           C == snap[f][p].ctrl
           K == Catching(f, p, t)
           M == MatchingEntries(t)
<1>1. /\ TriesOK(frames, eh) /\ frames # <<>> /\ Fp = Len(frames) /\ frames[Fp] = Top
      /\ Fp \in Nat /\ IsSeq(eh) /\ Len(eh) \in Nat
  BY TriesNow
<1>2. Fp \in 1 .. Len(frames) BY ActiveIs DEF Fp
<1>3. \A j \in 1 .. Len(eh) : j \in OwnEntries <=> eh[j].fp = Fp BY OwnIs
<1>4. \A j \in 1 .. Len(eh) : EntryOK(frames, eh[j]) BY <1>1 DEF TriesOK
<1>5. \A j \in 1 .. Len(eh) : eh[j].fp = Fp => eh[j].fn = f /\ eh[j].blk \in Tried(Top) BY <1>1, <1>4 DEF EntryOK
<1>6. \A b \in Tried(Top) : \E j \in 1 .. Len(eh) : eh[j].fp = Fp /\ eh[j].blk = b
  BY <1>1, <1>2 DEF TriesOK, Entered
<1>7. \A b : b \in Tried(Top) <=> \E q \in 1 .. Len(C) : C[q].op = "try_table" /\ b = C[q].blk
  BY DEF Tried, TryLevels
<1>8. M = {j \in OwnEntries : FirstClause(code[eh[j].fn][eh[j].blk], t) # 0} BY DEF MatchingEntries
<1>9. OwnEntries \subseteq 1 .. Len(eh) BY DEF OwnEntries
<1>10. K = {k \in 1 .. Len(C) : C[k].op = "try_table" /\ FirstClause(code[f][C[k].blk], t) # 0} BY DEF Catching
<1> HIDE DEF M, K, C, f, p
<1>11. ASSUME NEW j \in M
       PROVE  j \in 1 .. Len(eh) /\ eh[j].fp = Fp /\ eh[j].fn = f /\ \E q \in K : eh[j].blk = C[q].blk
  <2>1. j \in 1 .. Len(eh) /\ eh[j].fp = Fp /\ FirstClause(code[eh[j].fn][eh[j].blk], t) # 0 BY <1>3, <1>8, <1>9
  <2>2. eh[j].fn = f /\ eh[j].blk \in Tried(Top) BY <1>5, <2>1
  <2>3. PICK q \in 1 .. Len(C) : C[q].op = "try_table" /\ eh[j].blk = C[q].blk BY <1>7, <2>2
  <2>4. q \in K BY <1>10, <2>1, <2>2, <2>3
  <2> QED BY <2>1, <2>2, <2>3, <2>4
<1>12. ASSUME NEW q \in K PROVE \E j \in M : eh[j].blk = C[q].blk
  <2>1. q \in 1 .. Len(C) /\ C[q].op = "try_table" /\ FirstClause(code[f][C[q].blk], t) # 0 BY <1>10
  <2>2. C[q].blk \in Tried(Top) BY <1>7, <2>1
  <2>3. PICK j \in 1 .. Len(eh) : eh[j].fp = Fp /\ eh[j].blk = C[q].blk BY <1>6, <2>2
  <2>4. eh[j].fn = f BY <1>5, <2>3
  <2>5. j \in M BY <1>3, <1>8, <2>1, <2>3, <2>4
  <2> QED BY <2>3, <2>5
<1>13. M \in SUBSET (0 .. Len(eh))
  <2>1. \A z \in Nat : \A x \in 1 .. z : x \in 0 .. z OBVIOUS
  <2> QED BY <1>1, <1>11, <2>1
<1> QED BY <1>1, <1>11, <1>12, <1>13 DEF M, K, C, f, p

\* The last matching entry is the innermost level that catches.
LEMMA LastIs ==
  ASSUME Active, TryInv, Top.k = "jit", InBody(Top), NEW t, NEW j, Largest(j, MatchingEntries(t))
  PROVE  /\ eh[j].fn = Top.fn
         /\ \E q : Largest(q, Catching(Top.fn, Top.pc, t)) /\ eh[j].blk = snap[Top.fn][Top.pc].ctrl[q].blk
<1> DEFINE f == Top.fn
           p == Top.pc
           C == snap[f][p].ctrl
           K == Catching(f, p, t)
           M == MatchingEntries(t)
<1>1. /\ M \in SUBSET (0 .. Len(eh)) /\ Len(eh) \in Nat
      /\ \A x \in M : x \in 1 .. Len(eh) /\ eh[x].fp = Fp /\ eh[x].fn = Top.fn
      /\ \A x \in M : \E q \in K : eh[x].blk = C[q].blk
      /\ \A q \in K : \E x \in M : eh[x].blk = C[q].blk
  BY MatchesAre
<1>2. TriesOK(frames, eh) /\ ProgInv /\ FrameOK(Top) /\ Fp \in Nat BY TriesNow
<1>3. f \in Funcs /\ p \in 1 .. Len(code[f]) BY <1>2, FrameIs
<1>4. /\ \A x \in 1 .. Len(C) : C[x].blk \in Nat
      /\ \A x, y \in 1 .. Len(C) : /\ x < y => C[x].blk < C[y].blk
                                   /\ C[x].blk = C[y].blk => x = y
  <2> HIDE DEF f, p
  <2> QED BY <1>2, <1>3, BlksRise
<1>5. K \subseteq 1 .. Len(C) BY DEF Catching
<1>6. K \in SUBSET (0 .. Len(C)) /\ Len(C) \in Nat BY <1>2, <1>3, CatchingAre
<1>7. j \in M /\ \A x \in M : x <= j BY DEF Largest
<1> HIDE DEF M, K, C, f, p
<1>8. PICK q \in K : eh[j].blk = C[q].blk BY <1>1, <1>7
<1>9. ASSUME NEW x \in K PROVE x <= q
  <2>1. PICK y \in M : eh[y].blk = C[x].blk BY <1>1
  <2>2. y \in 1 .. Len(eh) /\ j \in 1 .. Len(eh) /\ y <= j /\ eh[y].fp = Fp /\ eh[j].fp = Fp BY <1>1, <1>7
  <2>3. x \in 1 .. Len(C) /\ q \in 1 .. Len(C) BY <1>5
  <2>4. CASE y = j
    <3>1. C[x].blk = C[q].blk BY <1>8, <2>1, <2>4
    <3>2. x = q BY <1>4, <2>3, <3>1
    <3> QED BY <1>6, <2>3, <3>2
  <2>5. CASE y # j
    <3>1. y < j BY <1>1, <2>2, <2>5
    <3>2. Under(eh[y], eh[j]) BY <1>2, <2>2, <3>1 DEF TriesOK, Sorted
    <3>3. eh[y].blk < eh[j].blk BY <1>2, <2>2, <3>2 DEF Under
    <3>4. C[x].blk < C[q].blk BY <1>8, <2>1, <3>3
    <3>5. ~(q < x)
      <4>1. C[x].blk \in Nat /\ C[q].blk \in Nat BY <1>4, <2>3
      <4> QED BY <1>4, <2>3, <3>4, <4>1
    <3> QED BY <1>6, <2>3, <3>5
  <2> QED BY <2>4, <2>5
<1>10. Largest(q, K) BY <1>9 DEF Largest
<1> QED BY <1>1, <1>7, <1>8, <1>10 DEF K, C, f, p

\* eh_dispatch takes an exception where the specification does, or passes it on.
LEMMA DispatchRef ==
  ASSUME RefActive, TryInv, CleanTries, Top.k = "jit", InBody(Top), NEW t,
         Raising(Rest(code, Front), Top.fn, Top.pc, t), eh_dispatch(t), mode' # "crash", UNCHANGED progvars
  PROVE  RefBoth
<1> DEFINE f == Top.fn
           p == Top.pc
           C == snap[f][p].ctrl
           K == Catching(f, p, t)
           M == MatchingEntries(t)
           j == CHOOSE j \in M : \A x \in M : x <= j
           h == eh[j]
           i == code[h.fn][h.blk]
           c == i.cs[FirstClause(i, t)]
           s == snap[h.fn][h.blk]
           k == LabelLvl(s, c.label)
           ncarry == Carried(c, TagTys[t])
           up == Len(s.tys) - LabelHeight(s, k)
           vs == CASE c.kind = 0 -> Payload(t)
                   [] c.kind = 1 -> Append(Payload(t), t)
                   [] c.kind = 2 -> <<>>
                   [] c.kind = 3 -> <<t>>
           os == SubSeq(Top.ops, 1, h.sp0 - up) \o vs
           G == [Top EXCEPT !.fn = h.fn, !.pc = LabelPc(h.fn, s, k), !.ops = os]
<1>1. Active BY DEF RefActive
<1>2. /\ M \in SUBSET (0 .. Len(eh)) /\ Len(eh) \in Nat
      /\ \A x \in M : \E q \in K : eh[x].blk = C[q].blk
      /\ \A q \in K : \E x \in M : eh[x].blk = C[q].blk
  BY <1>1, MatchesAre
<1>3. /\ ProgInv /\ built /\ FrameOK(Top) /\ DOMAIN Top = FrameFields /\ RefFrame(Top)
      /\ f \in Funcs /\ p \in 1 .. Len(code[f]) /\ jit[f]
  BY RefIs, FrameIs DEF FrameOK
<1>4. CASE M = {}
  <2>1. K = {} BY <1>2, <1>4
  <2>2. Propagate(stack, SubSeq(eh, 1, Len(eh) - Cardinality(OwnEntries))) /\ pending' = t BY <1>4 DEF eh_dispatch
  <2> QED BY <1>3, <2>1, <2>2, PassRef
<1>5. CASE M # {}
  <2>1. Crash \/ (frames' = SetTop(G) /\ mode' = "run" /\ pending' = NoExn /\ UNCHANGED <<last, ninv>>)
    BY <1>5 DEF eh_dispatch
  <2>2. frames' = SetTop(G) /\ mode' = "run" /\ pending' = NoExn /\ UNCHANGED <<last, ninv>> BY <2>1 DEF Crash
  <2>3. Largest(j, M)
    <3>1. Len(eh) \in Nat /\ M \in SUBSET (0 .. Len(eh)) /\ M # {} BY <1>2, <1>5
    <3> HIDE DEF M
    <3> QED BY <3>1, LargestIs
  <2> HIDE DEF j
  <2>4. eh[j].fn = f /\ \E q : Largest(q, K) /\ eh[j].blk = C[q].blk BY <1>1, <2>3, LastIs
  <2>5. PICK q : Largest(q, K) /\ eh[j].blk = C[q].blk BY <2>4
  <2> DEFINE b == h.blk
             d == FirstClause(code[f][b], t)
             l == code[f][b].cs[d].label
             m == q - 1 - l
  <2>6. h.fn = f /\ b = snap[f][p].ctrl[q].blk BY <2>4, <2>5
  <2>7. Takes(f, p, t, q, b, m)
    <3>1. m = q - 1 - code[f][b].cs[FirstClause(code[f][b], t)].label OBVIOUS
    <3>2. Largest(q, Catching(f, p, t)) BY <2>5
    <3> HIDE DEF f, p, b, m, K
    <3> QED BY <1>3, <2>6, <3>1, <3>2 DEF Takes
  <2>8. k = LabelLvl(snap[f][b], l) BY <2>6
  <2>9. s = snap[f][b] BY <2>6
  <2> HIDE DEF m, l, d, b
  <2>10. /\ q \in 1 .. Len(snap[f][p].ctrl) /\ code[f][b].op = "try_table"
         /\ FirstClause(code[f][b], t) \in DOMAIN code[f][b].cs
         /\ Names(code[f][b].cs[FirstClause(code[f][b], t)].label, q, m)
         /\ LandsAt(f, p, t) = LabelPc(f, snap[f][p], m)
    <3> HIDE DEF f, p
    <3> QED BY <1>3, <2>7, TakesIs
  <2>11. CaughtTo(f, p, q, b, d, m)
    <3>1. d \in DOMAIN code[f][b].cs /\ Names(code[f][b].cs[d].label, q, m) BY <2>10 DEF d
    <3> HIDE DEF f, p
    <3>2. CaughtBy(f, p, q, b, d, m) BY <1>3, <2>6, <2>10, <3>1 DEF CaughtBy
    <3> QED BY <1>3, <3>2, CaughtAt
  <2>12. LabelLvl(snap[f][b], l) = m /\ LabelPc(f, snap[f][b], m) = LabelPc(f, snap[f][p], m)
    <3> HIDE DEF f, p
    <3> QED BY <2>11 DEF CaughtTo, l
  <2>13. LabelPc(h.fn, s, k) = LandsAt(f, p, t) BY <2>6, <2>8, <2>9, <2>10, <2>12
  <2> HIDE DEF os, k, s
  <2>14. G.k = Top.k /\ G.fn = f /\ G.pc = LandsAt(f, p, t) /\ G.as = Top.as BY <1>3, <2>6, <2>13 DEF FrameFields
  <2> HIDE DEF G
  <2>15. G.as = <<>> BY <1>3, <2>14 DEF RefFrame
  <2>16. RefFrame(G) BY <2>14, <2>15, JitRef
  <2>17. K # {} BY <2>5 DEF Largest
  <2> QED BY <1>3, <2>2, <2>14, <2>15, <2>16, <2>17, CaughtRef
<1> QED BY <1>4, <1>5

\* The throw with a handler known at compile time.
LEMMA FastRef ==
  ASSUME RefActive, TryInv, PendInv, CleanTries, JThrow, FastThrow(Top.fn, Here, At.t), UNCHANGED progvars
  PROVE  RefBoth
<1> DEFINE f == Top.fn
           p == Top.pc
           t == At.t
           s == snap[f][p]
           k == FastLvl(s)
           b == s.ctrl[k].blk
           c == code[f][b].cs[1]
           m == k - 1 - c.label
           n == IF c.kind = 2 THEN 0 ELSE Len(LabelTys(f, s, m))
           os == SubSeq(Top.ops, 1, LabelHeight(s, m)) \o LastN(Top.ops, n)
           G == [Top EXCEPT !.ops = os, !.pc = LabelPc(f, s, m)]
           K == Catching(f, p, t)
<1>0. Executes("jit", {"throw"}) BY DEF JThrow
<1>1. Active BY DEF RefActive
<1>2. /\ mode = "run" /\ Top.k = "jit" /\ InBody(Top) /\ DOMAIN Top = FrameFields /\ Top.as = <<>>
      /\ f \in Funcs /\ p \in 1 .. Len(code[f]) /\ Here = s /\ Len(s.ctrl) \in Nat
      /\ At = code[f][p] /\ At.op = "throw"
  BY <1>0, RefExec
<1>3. jit[f] /\ ProgInv /\ built /\ TryProg BY <1>0, <1>1, JitIs, TriesNow
<1>4. FastThrow(f, s, t) BY <1>2
<1>5. frames' = SetTop(G) /\ UNCHANGED <<mode, pending, last, ninv>> BY <1>2, <1>4 DEF JThrow
<1>6. /\ k \in 1 .. Len(s.ctrl) /\ At1(f, b) /\ code[f][b].op = "try_table" /\ 1 \in DOMAIN code[f][b].cs
      /\ Matches(code[f][b].cs[1], t)
  BY <1>2, <1>3, <1>4, FastClauseIs
<1>7. k # 0
  <2>1. \A z \in Nat : \A x \in 1 .. z : x # 0 OBVIOUS
  <2> HIDE DEF k, s
  <2> QED BY <1>2, <1>6, <2>1
<1>8. s.is_try[k] /\ \A x \in 1 .. Len(s.ctrl) : s.is_try[x] => x <= k BY <1>2, <1>7, FastIs
<1>9. \A x \in 1 .. Len(s.ctrl) : s.is_try[x] <=> s.ctrl[x].op = "try_table"
  <2> HIDE DEF f, p
  <2> QED BY <1>2, <1>3, FlagIs
<1>10. Len(code[f][b].cs) = 1 BY <1>4 DEF FastThrow
<1>11. FirstClause(code[f][b], t) = 1
  <2> DEFINE i == code[f][b]
  <2>1. i \in InstrType BY <1>2, <1>3, <1>6, RunsIs
  <2>2. IsSeq(i.cs) BY <2>1 DEF InstrType, IsSeq
  <2>3. FirstClause(i, t) # 0
    <3>1. \E j \in DOMAIN i.cs : Matches(i.cs[j], t) BY <1>6
    <3> HIDE DEF i, t
    <3> QED BY <2>2, <3>1, ClauseFirst
  <2>4. FirstClause(i, t) \in DOMAIN i.cs
    <3>1. FirstClause(code[f][b], t) # 0 BY <2>3
    <3> HIDE DEF i, f, b, t
    <3>2. FirstClause(code[f][b], t) \in DOMAIN code[f][b].cs BY <1>2, <1>3, <1>6, <3>1, ClauseIs
    <3> QED BY <3>2 DEF i
  <2>5. DOMAIN i.cs = 1 .. 1 BY <1>10, <2>2, SeqIs
  <2>6. \A x \in 1 .. 1 : x = 1 OBVIOUS
  <2> QED BY <2>4, <2>5, <2>6
<1>12. Largest(k, K)
  <2>1. K = {x \in 1 .. Len(s.ctrl) : s.ctrl[x].op = "try_table" /\ FirstClause(code[f][s.ctrl[x].blk], t) # 0}
    BY DEF Catching
  <2> DEFINE fc == FirstClause(code[f][s.ctrl[k].blk], t)
  <2>2. FirstClause(code[f][s.ctrl[k].blk], t) # 0
    <3>1. fc = 1 BY <1>11
    <3> HIDE DEF fc
    <3>2. fc # 0 BY <3>1
    <3> QED BY <3>2 DEF fc
  <2> HIDE DEF K, k, s, f, p, t
  <2>3. k \in K BY <1>6, <1>8, <1>9, <2>1, <2>2
  <2>4. \A x \in K : x <= k BY <1>8, <1>9, <2>1
  <2> QED BY <2>3, <2>4 DEF Largest
<1>13. Takes(f, p, t, k, b, m)
  <2>1. m = k - 1 - code[f][b].cs[FirstClause(code[f][b], t)].label BY <1>11
  <2>2. b = snap[f][p].ctrl[k].blk /\ Largest(k, Catching(f, p, t)) BY <1>12
  <2> HIDE DEF f, p, t, k, b, m
  <2> QED BY <1>2, <2>1, <2>2 DEF Takes
<1>14. LandsAt(f, p, t) = LabelPc(f, s, m)
  <2>1. LandsAt(f, p, t) = LabelPc(f, snap[f][p], m)
    <3> HIDE DEF f, p, t, k, b, m
    <3> QED BY <1>3, <1>13, TakesIs
  <2> QED BY <2>1
<1> HIDE DEF os, m, k
<1>15. G.k = "jit" /\ G.fn = f /\ G.as = <<>> /\ G.pc = LandsAt(f, p, t) BY <1>2, <1>14 DEF FrameFields
<1> HIDE DEF G
<1>16. RefFrame(G) BY <1>15, JitRef
<1>17. Raising(Rest(code, Front), f, p, t)
  <2>1. Stand(Rest(code, Front), f, p) BY <1>2, StandIs
  <2> QED BY <1>2, <2>1 DEF Raising, InBody
<1>18. K # {} BY <1>12 DEF Largest
<1>19. mode' = "run" /\ pending' = NoExn BY <1>2, <1>5 DEF PendInv, PendingOK
<1> QED BY <1>2, <1>5, <1>15, <1>16, <1>17, <1>18, <1>19, CaughtRef

\* Exceptions generated code throws or meets.
LEMMA JThrowsRef ==
  ASSUME RefActive, TryInv, PendInv, CleanTries, JThrow \/ JThrowRef \/ JResume, mode' # "crash", UNCHANGED progvars
  PROVE  RefBoth
<1> DEFINE A == Rest(code, Front)
<1>1. CASE JThrow
  <2>1. Executes("jit", {"throw"}) BY <1>1 DEF JThrow
  <2>2. mode = "run" /\ Top.k = "jit" /\ InBody(Top) /\ At.op = "throw" /\ At = code[Top.fn][Top.pc] /\ Top.as = <<>>
    BY <2>1, RefExec
  <2>3. CASE FastThrow(Top.fn, Here, At.t) BY <1>1, <2>3, FastRef
  <2>4. CASE ~FastThrow(Top.fn, Here, At.t)
    <3>1. eh_dispatch(At.t) BY <1>1, <2>4 DEF JThrow
    <3>2. Stand(A, Top.fn, Top.pc) BY <2>2, StandIs
    <3>3. Raising(A, Top.fn, Top.pc, At.t) BY <2>2, <3>2 DEF Raising, InBody
    <3> QED BY <2>2, <3>1, <3>3, DispatchRef
  <2> QED BY <2>3, <2>4
<1>2. CASE JThrowRef
  <2> DEFINE t == Top.ops[Len(Top.ops)]
  <2>1. Executes("jit", {"throw_ref"}) BY <1>2 DEF JThrowRef
  <2>2. mode = "run" /\ Top.k = "jit" /\ InBody(Top) /\ At.op = "throw_ref" /\ At = code[Top.fn][Top.pc] /\ Top.as = <<>>
    BY <2>1, RefExec
  <2>3. TyOf(t) = "exn" /\ eh_dispatch(t) BY <1>2 DEF JThrowRef, Crash
  <2>4. t \in Tags BY <2>3 DEF TyOf
  <2>5. Stand(A, Top.fn, Top.pc) BY <2>2, StandIs
  <2> HIDE DEF t
  <2>6. Raising(A, Top.fn, Top.pc, t) BY <2>2, <2>4, <2>5 DEF Raising, InBody
  <2> QED BY <2>2, <2>3, <2>6, DispatchRef
<1>3. CASE JResume
  <2>1. mode = "exn" /\ Top.k = "jit" BY <1>3 DEF JResume
  <2>2. pending # NoExn
    <3>1. pending \in Tags BY <2>1 DEF PendInv, PendingOK
    <3> QED BY <3>1, TagAssumption DEF NoExn
  <2>3. eh_dispatch(pending) BY <1>3, <2>2 DEF JResume
  <2>4. AtCall(Top) /\ RefFrame(Top) BY <2>1, ActiveIs, RefIs DEF RefActive
  <2>5. InBody(Top) /\ Top.as = <<>> /\ ~Tailing(code, Top) BY <2>1, <2>4 DEF AtCall, RefFrame, Tailing
  <2>6. Stand(A, Top.fn, Top.pc) BY <2>5, StandIs
  <2>7. Raising(A, Top.fn, Top.pc, pending) BY <2>1, <2>6 DEF Raising
  <2> QED BY <2>1, <2>3, <2>5, <2>7, DispatchRef
<1> QED BY <1>1, <1>2, <1>3

\* Every step of generated code.
LEMMA JitStepRef ==
  ASSUME HostsSucceed, CleanTries, RefActive, TryInv, PendInv, JitNext, mode' # "crash", UNCHANGED progvars
  PROVE  RefBoth
  BY JLocalRef, JBrRef, JDoneRef, JCallRef, JReturnCallRef, JThrowsRef DEF JitNext

----------------------------------------------------------------------------
(* When nothing is undefined.                                              *)

\* None of the three sources of undefined behaviour: a function's control entry
\* flagged by chance, a payload written for a clause that carries none, an
\* operand of throw_ref taken for an exception.
Harmless ==
  /\ EntryClear /\ "all_payload" \notin Shapes
  /\ \A f \in Funcs : \A i \in Instrs[f] : i.op # "throw_ref"

\* no live instruction of a compiled function is a catch_all of payloads
PayloadInv ==
  built => \A f \in Funcs : jit[f] => \A p \in 1 .. Len(code[f]) : snap[f][p].skip = -1 => ~AllPayload(code[f][p])

\* Compilation refuses those that have one.
LEMMA PayloadStep ==
  ASSUME Harmless, PayloadInv, [Next]_vars PROVE PayloadInv'
<1>1. CASE UNCHANGED progvars BY <1>1 DEF PayloadInv, progvars, AllPayload
<1>2. ASSUME NEW f, NEW i, Emit(f, i) PROVE PayloadInv' BY <1>2 DEF Emit, PayloadInv
<1>3. ASSUME NEW J, Publish(J) PROVE PayloadInv'
  <2>1. /\ UNCHANGED <<code, snap>> /\ jit' = [f \in Funcs |-> f \in J]
        /\ \A f \in J : ~HasJitShape(f)
    BY <1>3 DEF Publish
  <2>2. SUFFICES ASSUME NEW f \in Funcs, f \in J, NEW p \in 1 .. Len(code[f]), snap[f][p].skip = -1
                 PROVE  ~AllPayload(code[f][p])
    BY <2>1 DEF PayloadInv, AllPayload
  <2>3. JitShapes(f, p) \subseteq Shapes BY <2>1, <2>2 DEF HasJitShape
  <2>4. "all_payload" \notin JitShapes(f, p) BY <2>3 DEF Harmless
  <2> QED BY <2>2, <2>4 DEF JitShapes
<1> QED BY <1>1, <1>2, <1>3 DEF Next, ProgNext, Step, Finished, vars, progvars

\* eh_dispatch writes a payload only where the clause has room for it.
LEMMA DispatchSafe ==
  ASSUME Harmless, PayloadInv, Active, TryInv, Top.k = "jit", InBody(Top), NEW t \in Tags, eh_dispatch(t)
  PROVE  mode' # "crash"
<1> DEFINE M == MatchingEntries(t)
           j == CHOOSE j \in M : \A x \in M : x <= j
           f == eh[j].fn
           b == eh[j].blk
           i == code[f][b]
           c == i.cs[FirstClause(i, t)]
<1>1. CASE M # {}
  <2>1. M \in SUBSET (0 .. Len(eh)) /\ Len(eh) \in Nat /\ \A x \in M : x \in 1 .. Len(eh) BY MatchesAre
  <2>2. Largest(j, M)
    <3> HIDE DEF M, j
    <3>1. \E x \in M : \A y \in M : y <= x BY <1>1, <2>1, Extremes
    <3>2. j = CHOOSE x \in M : \A y \in M : y <= x BY DEF j
    <3> QED BY <3>1, <3>2 DEF Largest
  <2>3. j \in M BY <2>2 DEF Largest
  <2>4. FirstClause(i, t) # 0 BY <2>3 DEF MatchingEntries
  <2>5. j \in 1 .. Len(eh) BY <2>1, <2>3
  <2> HIDE DEF j, M
  <2>6. HandlerOK(eh[j]) /\ ProgInv /\ built BY <2>5, ActiveIs DEF HandlersOK
  <2>7. f \in Funcs /\ jit[f] /\ At1(f, b) /\ i.op = "try_table" BY <2>6 DEF HandlerOK
  <2> HIDE DEF f, b
  <2>8. FirstClause(code[f][b], t) # 0 BY <2>4
  <2>9. FirstClause(i, t) \in DOMAIN i.cs
    <3>1. FirstClause(code[f][b], t) \in DOMAIN code[f][b].cs BY <2>6, <2>7, <2>8, ClauseIs
    <3> QED BY <3>1
  <2>10. i \in InstrType /\ snap[f][b].skip = -1 BY <2>6, <2>7, RunsIs
  <2>11. ~AllPayload(i)
    <3>1. b \in 1 .. Len(code[f]) BY <2>7 DEF At1
    <3> QED BY <2>6, <2>7, <2>10, <3>1 DEF PayloadInv
  <2>12. c \in Clauses
    <3>1. i.cs \in Seq(Clauses) BY <2>10 DEF InstrType
    <3>2. IsSeq(i.cs) BY <3>1 DEF IsSeq
    <3>3. DOMAIN i.cs = 1 .. Len(i.cs) BY <3>2, SeqIs
    <3> HIDE DEF i
    <3> QED BY <2>9, <3>1, <3>3
  <2>13. c.kind \in 0 .. 3 BY <2>12 DEF Clauses
  <2>14. c.kind >= 2 => TagTys[t] = <<>>
    <3> HIDE DEF i
    <3> QED BY <2>7, <2>9, <2>11 DEF AllPayload
  <2>15. Len(TagTys[t]) \in Nat BY TagAssumption
  <2>16. Len(Payload(t)) = Len(TagTys[t]) BY <2>15 DEF Payload
  <2>17. c.kind = 1 => Carried(c, TagTys[t]) = Len(TagTys[t]) + 1 BY DEF Carried
  <2>18. c.kind = 0 => Carried(c, TagTys[t]) = Len(TagTys[t]) BY DEF Carried
  <2>19. c.kind = 2 => Carried(c, TagTys[t]) = 0 BY DEF Carried
  <2>20. c.kind = 3 => Carried(c, TagTys[t]) = 1 BY DEF Carried
  <2>21. ~(Len(Payload(t)) > Carried(c, TagTys[t]))
    <3>1. Len(<<>>) = 0 BY SeqEmpty
    <3> HIDE DEF c
    <3> QED BY <2>13, <2>14, <2>15, <2>16, <2>17, <2>18, <2>19, <2>20, <3>1
  <2>22. Len(Payload(t)) > Carried(c, TagTys[t]) \/ mode' = "run"
    BY <1>1 DEF eh_dispatch, j, M, f, b
  <2> QED BY <2>21, <2>22
<1>2. CASE M = {}
  <2>1. mode' \in {"idle", "exn"} BY <1>2 DEF eh_dispatch, Propagate
  <2> QED BY <2>1
<1> QED BY <1>1, <1>2

\* eh_unwind never reads a flag that is set by chance.
LEMMA UnwindSafe ==
  ASSUME Harmless, RefActive, Top.k = "interp", InBody(Top), NEW st, NEW t, NEW skip, eh_unwind(Top, st, t, skip)
  PROVE  mode' # "crash"
<1>1. RefFrame(Top) /\ FrameOK(Top) /\ ProgInv BY RefIs
<1>2. CtlOK(Top) /\ Flagged(Top) BY <1>1 DEF RefFrame, FrameOK
<1>3. Top.fn \in Funcs /\ Top.pc \in 1 .. Len(code[Top.fn]) BY <1>1, FrameIs
<1>4. Len(snap[Top.fn][Top.pc].ctrl) \in Nat
  <2>1. Len(code[Top.fn]) \in Nat BY <1>1, <1>3, BodyIs
  <2>2. \A z \in Nat : 1 .. z \subseteq 1 .. z + 1 OBVIOUS
  <2>3. Top.pc \in 1 .. Len(code[Top.fn]) + 1 BY <1>3, <2>1, <2>2
  <2> QED BY <1>1, <1>3, <2>3, BodyIs
<1>5. 1 <= Len(Top.ctl)
  <2>1. Len(Top.ctl) = Len(snap[Top.fn][Top.pc].ctrl) + 1 BY <1>2 DEF CtlOK
  <2>2. \A z \in Nat : 1 <= z + 1 OBVIOUS
  <2> QED BY <1>4, <2>1, <2>2
<1>6. ~Top.ctl[1].is_try BY <1>2, <1>5 DEF Flagged, Harmless
<1>7. mode' \in {"run", "idle", "exn"} BY <1>6 DEF eh_unwind, Propagate
<1> QED BY <1>7

\* Leaving and entering frames is defined.
LEMMA MoveSafe ==
  ASSUME mode # "crash",
         NEW vs, NEW st, NEW e, NEW fs, NEW f, NEW dep,
         \/ Trap \/ DeliverToC(st, e) \/ DeliverToJit(vs, st, e)
         \/ EnterInterp(fs, st, f, dep) \/ EnterJit(fs, st, f, dep, e)
  PROVE  mode' # "crash"
  BY DEF Trap, DeliverToC, DeliverToJit, EnterInterp, EnterJit

\* No throw_ref is executed.
LEMMA NoRethrow == ASSUME Harmless, Active, NEW e, Executes(e, {"throw_ref"}) PROVE FALSE
<1>1. At.op \in {"throw_ref"} /\ Top.fn \in Funcs /\ At \in Instrs[Top.fn] BY ExecIs
<1> QED BY <1>1 DEF Harmless

\* Every step of the interpreter is defined.
LEMMA InterpSafe == ASSUME Harmless, RefActive, PendInv, InterpNext PROVE mode' # "crash"
<1>0. mode \in {"run", "exn"} /\ Active BY RefIs DEF RefActive
<1>1. CASE IOpen \/ IEnd \/ IBr \/ ISimple BY <1>0, <1>1 DEF IOpen, IEnd, IBr, ISimple
<1>2. CASE ITrap BY <1>0, <1>2, MoveSafe DEF ITrap
<1>3. CASE IDone BY <1>0, <1>3 DEF IDone, DeliverToJit, DeliverToC
<1>4. CASE ICall BY <1>0, <1>4 DEF ICall, EnterJit, EnterInterp, Trap
<1>5. CASE IReturnCall BY <1>0, <1>5 DEF IReturnCall, EnterJit, Trap
<1>6. CASE IThrow
  <2>1. Executes("interp", {"throw"}) BY <1>6 DEF IThrow
  <2>2. Top.k = "interp" /\ InBody(Top) BY <2>1, RefExec
  <2> QED BY <1>6, <2>2, UnwindSafe DEF IThrow
<1>7. CASE IThrowRef
  <2>1. Executes("interp", {"throw_ref"}) BY <1>7 DEF IThrowRef
  <2> QED BY <1>0, <2>1, NoRethrow
<1>8. CASE ICallFailed
  <2>1. mode = "exn" /\ Top.k = "interp" BY <1>8 DEF ICallFailed
  <2>2. AtCall(Top) BY <2>1, ActiveIs DEF RefActive
  <2>3. InBody(Top) BY <2>2 DEF AtCall
  <2> QED BY <1>8, <2>1, <2>3, UnwindSafe DEF ICallFailed
<1> QED BY <1>1, <1>2, <1>3, <1>4, <1>5, <1>6, <1>7, <1>8 DEF InterpNext

\* Every step of generated code is defined.
LEMMA JitSafe ==
  ASSUME Harmless, PayloadInv, RefActive, TryInv, PendInv, JitNext PROVE mode' # "crash"
<1>0. mode \in {"run", "exn"} /\ Active BY RefIs DEF RefActive
<1>1. CASE JOpen \/ JEnd \/ JBr \/ JSimple BY <1>0, <1>1 DEF JOpen, JEnd, JBr, JSimple
<1>2. CASE JTrap BY <1>0, <1>2 DEF JTrap, Trap
<1>3. CASE JDone
  <2>1. \E e, one : JReturnWith(e, one) BY <1>3 DEF JDone
  <2> QED BY <1>0, <2>1 DEF JReturnWith, DeliverToJit, DeliverToC
<1>4. CASE JCall BY <1>0, <1>4 DEF JCall, EnterJit, EnterInterp, Trap
<1>5. CASE JReturnCall BY <1>0, <1>5 DEF JReturnCall, EnterJit, Trap
<1>6. CASE JThrow
  <2>1. Executes("jit", {"throw"}) BY <1>6 DEF JThrow
  <2>2. /\ mode = "run" /\ Top.k = "jit" /\ InBody(Top) /\ At.op \in {"throw"} /\ At = code[Top.fn][Top.pc]
        /\ Top.fn \in Funcs
    BY <2>1, RefExec
  <2>3. At.t \in Tags BY <1>0, <2>1, ThrownIs
  <2>4. CASE FastThrow(Top.fn, Here, At.t) BY <1>0, <1>6, <2>4 DEF JThrow
  <2>5. CASE ~FastThrow(Top.fn, Here, At.t)
    <3>1. eh_dispatch(At.t) BY <1>6, <2>5 DEF JThrow
    <3> QED BY <1>0, <2>2, <2>3, <3>1, DispatchSafe
  <2> QED BY <2>4, <2>5
<1>7. CASE JThrowRef
  <2>1. Executes("jit", {"throw_ref"}) BY <1>7 DEF JThrowRef
  <2> QED BY <1>0, <2>1, NoRethrow
<1>8. CASE JResume
  <2>1. mode = "exn" /\ Top.k = "jit" BY <1>8 DEF JResume
  <2>2. AtCall(Top) BY <1>0, <2>1, ActiveIs
  <2>3. InBody(Top) BY <2>2 DEF AtCall
  <2>4. pending \in Tags BY <2>1 DEF PendInv, PendingOK
  <2>5. pending # NoExn BY <2>4, TagAssumption DEF NoExn
  <2>6. eh_dispatch(pending) BY <1>8, <2>5 DEF JResume
  <2> QED BY <1>0, <2>1, <2>3, <2>4, <2>6, DispatchSafe
<1> QED BY <1>1, <1>2, <1>3, <1>4, <1>5, <1>6, <1>7, <1>8 DEF JitNext

----------------------------------------------------------------------------
(* The machine as a whole.                                                 *)

\* The frames keep what is asked of them while the program stays.
LEMMA RefSame == ASSUME UNCHANGED progvars, RefNext PROVE RefInv'
<1>1. \A F : RefFrame(F) => RefFrame(F)'
  BY DEF RefFrame, Flagged, Returning, InBody, progvars
<1>2. \A F : RefWait(F) => RefWait(F)' BY DEF RefWait, Tailing, progvars
<1>3. RefFrames(frames', mode' = "exn") BY DEF RefNext
<1> QED BY <1>1, <1>2, <1>3 DEF RefFrames, RefInv

\* No frames.
LEMMA RefNone ==
  /\ \A b : RefFrames(<<>>, b)
  /\ frames' = <<>> => RefInv'
<1>1. \A i \in 1 .. 0 : FALSE OBVIOUS
<1>2. Len(<<>>) = 0 BY SeqEmpty
<1>3. \A b : RefFrames(<<>>, b) BY <1>1, <1>2 DEF RefFrames
<1>4. frames' = <<>> => RefInv' BY <1>1, <1>2 DEF RefFrames, RefInv
<1> QED BY <1>3, <1>4

\* Outside an invoke the abstract machine is idle too.
LEMMA PhaseIdle == mode = "idle" => (IF Ended THEN "idle" ELSE mode) = "idle" /\ (IF Ended THEN "exn" ELSE last) = last
  BY DEF Ended

\* The initial states.
LEMMA AbsInit == Init => Control!AInit
<1> SUFFICES ASSUME Init PROVE Control!AInit OBVIOUS
<1>1. frames = <<>> /\ mode = "idle" /\ pending = NoExn /\ last = "none" /\ ninv = 0 /\ ProgInit BY DEF Init
<1>2. IsSeq(frames) BY <1>1, SeqEmpty
<1>3. Activations = <<>> BY <1>1, <1>2, ActsAre, ActsNone DEF Acts
<1>4. Control!ProgInit BY <1>1 DEF ProgInit, Control!ProgInit, Control!Funcs, Funcs, Control!InitSnap, InitSnap
<1> QED BY <1>1, <1>3, <1>4 DEF Control!AInit, Ended, NoExn, Control!NoTag, NoTag

\* A new invocation.
LEMMA InvokeRef ==
  ASSUME ExecInv, Invoke(1), UNCHANGED progvars PROVE RefBoth
<1>1. built /\ mode = "idle" /\ ninv < MaxInvoke /\ ninv' = ninv + 1 /\ pending' = NoExn /\ mode' = "run" /\ last' = "none"
  BY DEF Invoke
<1>2. PICK G : frames' = <<G>> /\ RefFrame(G) /\ G.as = <<>> /\ G.fn = 1 /\ G.pc = 1
  <2>1. CASE jit[1]
    <3>1. frames' = <<JitFrame(1, 0)>> BY <2>1 DEF Invoke
    <3>2. RefFrame(JitFrame(1, 0)) BY NewJitRef
    <3> QED BY <3>1, <3>2 DEF JitFrame
  <2>2. CASE ~jit[1]
    <3>1. PICK g \in Ctl0Garbage : frames' = <<InterpFrame(1, Len(stack), 0, g)>> BY <2>2 DEF Invoke
    <3>2. RefFrame(InterpFrame(1, Len(stack), 0, g)) BY <2>2, NewRef DEF EntryClear
    <3> QED BY <3>1, <3>2 DEF InterpFrame
  <2> QED BY <2>1, <2>2
<1>3. frames' = Append(<<>>, G) BY <1>2
<1>4. Rest(code, <<>>) = <<>> BY ActsNone
<1>5. Activations' = Append(<<>>, ActOf(G)) BY <1>1, <1>3, <1>4, ActsThen, SeqEmpty
<1>6. ActOf(G) = <<1, 1>> BY <1>2 DEF ActOf
<1>7. Activations' = <<<<1, 1>>>> BY <1>5, <1>6
<1>8. RefNext
  <2>1. RefFrames(Append(<<>>, G), FALSE) BY <1>2, RefNone, RefAppend, SeqEmpty
  <2> QED BY <1>1, <1>3, <2>1 DEF RefNext
<1>9. Control!Start(1)
  <2>1. (IF Ended THEN "idle" ELSE mode) = "idle" BY <1>1, PhaseIdle
  <2>2. (IF Ended THEN "idle" ELSE mode)' = "run" /\ (IF Ended THEN "exn" ELSE last)' = "none"
    BY <1>1 DEF Ended
  <2> QED BY <1>1, <1>7, <2>1, <2>2 DEF Control!Start, NoExn, Control!NoTag, NoTag
<1>10. Control!progvars' = Control!progvars BY DEF progvars, Control!progvars
<1>11. Control!ANext BY <1>9, <1>10 DEF Control!ANext
<1> QED BY <1>8, <1>11 DEF RefBoth, AbsNext

\* The program is built the same way.
LEMMA AbsBuild == ASSUME ProgNext PROVE Control!ProgNext
<1>1. ASSUME NEW f, NEW i PROVE Emit(f, i) <=> Control!Emit(f, i)
    BY DEF Emit, Control!Emit, Cur, Control!Cur, ValidDead, Control!ValidDead, ValidLive,
           Control!ValidLive, ClauseOK, Control!ClauseOK, CanPop, Control!CanPop, LastN,
           Control!LastN, DropN, Control!DropN, LabelLvl, Control!LabelLvl, LabelTys,
           Control!LabelTys, LabelHeight, Control!LabelHeight, LabelPc, Control!LabelPc,
           CurHeight, Control!CurHeight, Openers, Control!Openers, Terminators,
           Control!Terminators, Carried, Control!Carried, Opened, Control!Opened, Closed,
           Control!Closed, Kill, Control!Kill, IsTryAfter, Control!IsTryAfter, NextSnap,
           Control!NextSnap, EndIdxAfter, Control!EndIdxAfter, WideLabel,
           Control!WideLabel, Funcs, Control!Funcs
<1>2. ASSUME NEW J PROVE Publish(J) <=> Control!Publish(J)
    BY DEF Publish, Control!Publish, Cur, Control!Cur, Compiles, Control!Compiles,
           FastThrow, Control!FastThrow, FastLvl, Control!FastLvl, HasJitShape,
           Control!HasJitShape, JitShapes, Control!JitShapes, CrossesTry,
           Control!CrossesTry, StaleTry, Control!StaleTry, AllPayload,
           Control!AllPayload, DeadTryEnd, Control!DeadTryEnd, JumpsTo, Control!JumpsTo,
           Funcs, Control!Funcs, LabelLvl, Control!LabelLvl
<1> QED BY <1>1, <1>2 DEF ProgNext, Control!ProgNext, Control!Funcs, Funcs

\* While it is built there are no activations.
LEMMA BuildRef ==
  ASSUME ExecInv, NoCrash, ProgNext, UNCHANGED execvars PROVE RefInv' /\ AbsNext
<1>1. ~built BY DEF ProgNext, Emit, Publish
<1>2. frames = <<>> /\ frames' = <<>> /\ mode' = mode /\ UNCHANGED <<pending, last, ninv>>
  BY <1>1 DEF ExecInv, execvars
<1>3. mode = "idle" BY <1>1, <1>2 DEF ExecInv, Good, NoCrash
<1>4. DOMAIN <<>> = 1 .. 0 BY SeqEmpty, SeqIs
<1>5. Activations = <<>>
  <2>1. Activations = Acts(code, frames, mode) BY <1>2, SeqEmpty, ActsAre DEF Acts
  <2> QED BY <1>2, <2>1, ActsNone
<1>6. Activations' = <<>>
  <2>1. Shown' = {} BY <1>2, <1>4 DEF Shown
  <2>2. Cardinality(Shown') = 0 BY <2>1, FS_EmptySet
  <2>3. Activations' = [n \in 1 .. 0 |-> ActOf(frames[Nth(Shown, n)])'] BY <2>2 DEF Activations
  <2> QED BY <2>3
<1>7. RefInv' BY <1>2, RefNone
<1>8. Control!ProgNext BY AbsBuild
<1>9. Control!ANext BY <1>2, <1>3, <1>5, <1>6, <1>8 DEF Control!ANext, Ended
<1> QED BY <1>7, <1>9 DEF AbsNext

\* Nothing changes.
LEMMA StutterRef ==
  ASSUME RefInv, UNCHANGED vars PROVE RefInv' /\ AbsNext
<1>1. UNCHANGED progvars /\ UNCHANGED <<frames, mode, pending, last, ninv>> BY DEF vars, progvars
<1>2. RefNext BY <1>1 DEF RefInv, RefNext
<1>3. Shown' = Shown BY <1>1 DEF Shown, Suspended, Inside, progvars
<1>4. Activations' = Activations BY <1>1, <1>3 DEF Activations
<1>5. UNCHANGED Control!avars BY <1>1, <1>4 DEF Control!avars, Ended, progvars
<1> QED BY <1>1, <1>2, <1>5, RefSame DEF AbsNext

\* Every step of the machine is a step of the control semantics, or none.
LEMMA AbsStep ==
  ASSUME CallRefUncaught, CleanTries, TailsApart, HostsSucceed,
         ExecInv, PendInv, TryInv, RefInv, NoCrash, NoCrash', [Next]_vars
  PROVE  RefInv' /\ [Control!ANext]_(Control!avars)
<1>1. CASE Step
  <2>1. UNCHANGED progvars /\ mode' # "crash" BY <1>1 DEF Step, NoCrash
  <2>2. mode \in {"run", "exn"} BY <1>1, StepActive
  <2>3. RefActive BY <2>2 DEF RefActive, Active
  <2>4. RefBoth BY <1>1, <2>1, <2>3, InterpRef, JitStepRef DEF Step
  <2> QED BY <2>1, <2>4, RefSame DEF RefBoth, AbsNext
<1>2. CASE Invoke(1) /\ UNCHANGED progvars
  BY <1>2, InvokeRef, RefSame DEF RefBoth, AbsNext
<1>3. CASE ProgNext /\ UNCHANGED execvars BY <1>3, BuildRef DEF AbsNext
<1>4. CASE UNCHANGED vars BY <1>4, StutterRef DEF AbsNext
<1> QED BY <1>1, <1>2, <1>3, <1>4 DEF Next, Finished

\* Every step is defined.
LEMMA SafeStep ==
  ASSUME Harmless, PayloadInv, ExecInv, PendInv, TryInv, RefInv, NoCrash, [Next]_vars PROVE NoCrash'
<1>1. CASE Step
  <2>1. mode \in {"run", "exn"} BY <1>1, StepActive
  <2>2. RefActive BY <2>1 DEF RefActive, Active
  <2> QED BY <1>1, <2>2, InterpSafe, JitSafe DEF Step, NoCrash
<1>2. CASE Invoke(1) BY <1>2 DEF Invoke, NoCrash
<1>3. CASE UNCHANGED execvars BY <1>3 DEF execvars, NoCrash
<1>4. CASE UNCHANGED vars BY <1>4 DEF vars, NoCrash
<1> QED BY <1>1, <1>2, <1>3, <1>4 DEF Next, Finished

\* Both engines, in every mix, implement the control semantics of WebAssembly
\* as long as nothing undefined happens: every step of the machine is a step of
\* WasmControl or leaves its state alone.
THEOREM ControlIsImplemented ==
  ASSUME CallRefUncaught, NoResidue, CleanTries, TailsApart, HostsSucceed
  PROVE  Spec /\ []NoCrash => ImplementsControl
<1> DEFINE Inv == ExecInv /\ PendInv /\ TryInv /\ RefInv
<1>1. Init => Inv
  BY ExecInit, TryInit, RefNone DEF Init, PendInv, PendingOK, RefInv
<1>2. Inv /\ NoCrash /\ NoCrash' /\ [Next]_vars => Inv' /\ [Control!ANext]_(Control!avars)
  BY ExecStep, PendStep, TryStep, AbsStep
<1>3. Init => Control!AInit BY AbsInit
<1> QED BY <1>1, <1>2, <1>3, PTL DEF Spec, ImplementsControl, Control!ASpec

\* For programs without the sources of undefined behaviour nothing undefined
\* ever happens, so that they implement it outright.
THEOREM NothingUndefined ==
  ASSUME CallRefUncaught, NoResidue, CleanTries, TailsApart, HostsSucceed, Harmless
  PROVE  Spec => []NoCrash /\ ImplementsControl
<1> DEFINE Inv == ExecInv /\ PendInv /\ TryInv /\ RefInv /\ PayloadInv /\ NoCrash
<1>1. Init => Inv
  BY ExecInit, TryInit, RefNone DEF Init, ProgInit, PendInv, PendingOK, RefInv, PayloadInv, NoCrash
<1>2. Inv /\ [Next]_vars => Inv'
  BY ExecStep, PendStep, TryStep, PayloadStep, SafeStep, AbsStep
<1>3. Spec => []NoCrash BY <1>1, <1>2, PTL DEF Spec
<1> QED BY <1>3, ControlIsImplemented, PTL
=============================================================================
