---------------------------- MODULE ExecEHProofs ----------------------------
(***************************************************************************)
(* Theorems about ExecEH, for every program, every choice of compiled      *)
(* functions and every value of the bounds: what decoding leaves in a body *)
(* and its snapshots, the handler stack between invokes, the control stack *)
(* of an interpreter frame, and the pending exception.                     *)
(***************************************************************************)
EXTENDS ExecEHProps, SequenceTheorems, FiniteSetTheorems, WellFoundedInduction, TLAPS

----------------------------------------------------------------------------
(* Sequences of anything.                                                  *)

IsSeq(s) == \E S : s \in Seq(S)

\* Length and domain.
LEMMA SeqIs == ASSUME NEW s, IsSeq(s) PROVE Len(s) \in Nat /\ DOMAIN s = 1 .. Len(s)
<1>1. PICK S : s \in Seq(S) BY DEF IsSeq
<1> QED BY <1>1, LenProperties

\* The empty sequence.
LEMMA SeqEmpty == IsSeq(<<>>) /\ Len(<<>>) = 0 /\ \A s : IsSeq(s) /\ Len(s) = 0 => s = <<>>
<1>1. <<>> \in Seq({}) /\ Len(<<>>) = 0 BY EmptySeq
<1>2. ASSUME NEW s, IsSeq(s), Len(s) = 0 PROVE s = <<>>
  <2>1. PICK S : s \in Seq(S) BY <1>2 DEF IsSeq
  <2> QED BY <2>1, <1>2, EmptySeq
<1> QED BY <1>1, <1>2 DEF IsSeq

\* A sequence of one.
LEMMA SeqOne == ASSUME NEW e PROVE IsSeq(<<e>>) /\ Len(<<e>>) = 1 /\ <<e>>[1] = e
<1>1. <<e>> \in Seq({e}) OBVIOUS
<1> QED BY <1>1 DEF IsSeq

\* What Append does.
LEMMA SeqAppend ==
  ASSUME NEW s, IsSeq(s), NEW e
  PROVE  /\ IsSeq(Append(s, e)) /\ Len(Append(s, e)) = Len(s) + 1
         /\ \A i \in 1 .. Len(s) : Append(s, e)[i] = s[i]
         /\ Append(s, e)[Len(s) + 1] = e
<1>1. PICK S : s \in Seq(S) BY DEF IsSeq
<1> DEFINE T == S \cup {e}
<1>2. s \in Seq(T) /\ e \in T BY <1>1, SeqMonotonic
<1> HIDE DEF T
<1>3. /\ Append(s, e) \in Seq(T) /\ Len(Append(s, e)) = Len(s) + 1
      /\ \A i \in 1 .. Len(s) : Append(s, e)[i] = s[i]
      /\ Append(s, e)[Len(s) + 1] = e
  BY <1>2, AppendProperties
<1> QED BY <1>3 DEF IsSeq

\* What is left of a sequence that is cut.
LEMMA SeqCut ==
  ASSUME NEW s, IsSeq(s), NEW n \in 0 .. Len(s)
  PROVE  /\ IsSeq(SubSeq(s, 1, n)) /\ Len(SubSeq(s, 1, n)) = n
         /\ \A i \in 1 .. n : SubSeq(s, 1, n)[i] = s[i]
<1>1. PICK S : s \in Seq(S) BY DEF IsSeq
<1>2. /\ Len(s) \in Nat /\ 1 \in 1 .. Len(s) + 1 /\ n \in (1 - 1) .. Len(s) BY SeqIs
<1>3. /\ SubSeq(s, 1, n) \in Seq(S) /\ Len(SubSeq(s, 1, n)) = n
      /\ \A i \in 1 .. n : SubSeq(s, 1, n)[i] = s[i]
  <2>1. /\ SubSeq(s, 1, n) \in Seq(S)
        /\ Len(SubSeq(s, 1, n)) = IF n < 1 THEN 0 ELSE n - 1 + 1
        /\ \A i \in 1 .. n - 1 + 1 : SubSeq(s, 1, n)[i] = s[1 + i - 1]
    BY <1>1, <1>2, SubSeqProperties
  <2> QED BY <2>1, <1>2
<1> QED BY <1>3 DEF IsSeq

\* Replacing an element.
LEMMA SeqExcept ==
  ASSUME NEW s, IsSeq(s), NEW n \in 1 .. Len(s), NEW e
  PROVE  /\ IsSeq([s EXCEPT ![n] = e]) /\ Len([s EXCEPT ![n] = e]) = Len(s)
         /\ \A i \in 1 .. Len(s) : [s EXCEPT ![n] = e][i] = IF i = n THEN e ELSE s[i]
<1>1. PICK S : s \in Seq(S) BY DEF IsSeq
<1> DEFINE T == S \cup {e}
<1>2. s \in Seq(T) /\ e \in T BY <1>1, SeqMonotonic
<1> HIDE DEF T
<1>3. /\ [s EXCEPT ![n] = e] \in Seq(T) /\ Len([s EXCEPT ![n] = e]) = Len(s)
      /\ \A i \in 1 .. Len(s) : [s EXCEPT ![n] = e][i] = IF i = n THEN e ELSE s[i]
  BY <1>2, ExceptSeq
<1> QED BY <1>3 DEF IsSeq

\* Sequences are equal if their elements are.
LEMMA SeqSame ==
  ASSUME NEW s, NEW t, IsSeq(s), IsSeq(t), Len(s) = Len(t), \A i \in 1 .. Len(s) : s[i] = t[i]
  PROVE  s = t
<1>1. PICK S : s \in Seq(S) BY DEF IsSeq
<1>2. PICK T : t \in Seq(T) BY DEF IsSeq
<1>3. s \in Seq(S \cup T) /\ t \in Seq(S \cup T) BY <1>1, <1>2, SeqMonotonic
<1> QED BY <1>3, SeqEqual

\* A cut of a cut, a cut of an extension, a cut that leaves everything.
LEMMA SeqCuts ==
  ASSUME NEW s, IsSeq(s)
  PROVE  /\ \A n \in 0 .. Len(s), m \in 0 .. Len(s) :
              m <= n => SubSeq(SubSeq(s, 1, n), 1, m) = SubSeq(s, 1, m)
         /\ \A n \in 0 .. Len(s) : \A e : SubSeq(Append(s, e), 1, n) = SubSeq(s, 1, n)
         /\ SubSeq(s, 1, Len(s)) = s /\ SubSeq(s, 1, 0) = <<>>
<1>1. ASSUME NEW n \in 0 .. Len(s), NEW m \in 0 .. Len(s), m <= n
      PROVE  SubSeq(SubSeq(s, 1, n), 1, m) = SubSeq(s, 1, m)
  <2>0. Len(s) \in Nat BY SeqIs
  <2> DEFINE c == SubSeq(s, 1, n)
  <2>1. IsSeq(c) /\ Len(c) = n /\ \A i \in 1 .. n : c[i] = s[i] BY SeqCut
  <2> HIDE DEF c
  <2>2. m \in 0 .. Len(c) BY <2>0, <2>1, <1>1
  <2>3. IsSeq(SubSeq(c, 1, m)) /\ Len(SubSeq(c, 1, m)) = m /\ \A i \in 1 .. m : SubSeq(c, 1, m)[i] = c[i]
    BY <2>1, <2>2, SeqCut
  <2>4. IsSeq(SubSeq(s, 1, m)) /\ Len(SubSeq(s, 1, m)) = m /\ \A i \in 1 .. m : SubSeq(s, 1, m)[i] = s[i]
    BY SeqCut
  <2>5. SubSeq(c, 1, m) = SubSeq(s, 1, m)
    <3>1. \A i \in 1 .. m : i \in 1 .. n BY <1>1, <2>0
    <3>2. \A i \in 1 .. m : SubSeq(c, 1, m)[i] = SubSeq(s, 1, m)[i] BY <3>1, <2>1, <2>3, <2>4
    <3> QED BY <2>3, <2>4, <3>2, SeqSame
  <2> QED BY <2>5 DEF c
<1>2. ASSUME NEW n \in 0 .. Len(s), NEW e PROVE SubSeq(Append(s, e), 1, n) = SubSeq(s, 1, n)
  <2>0. Len(s) \in Nat BY SeqIs
  <2> DEFINE c == Append(s, e)
  <2>1. IsSeq(c) /\ Len(c) = Len(s) + 1 /\ \A i \in 1 .. Len(s) : c[i] = s[i] BY SeqAppend
  <2> HIDE DEF c
  <2>2. n \in 0 .. Len(c) BY <2>0, <2>1
  <2>3. IsSeq(SubSeq(c, 1, n)) /\ Len(SubSeq(c, 1, n)) = n /\ \A i \in 1 .. n : SubSeq(c, 1, n)[i] = c[i]
    BY <2>1, <2>2, SeqCut
  <2>4. IsSeq(SubSeq(s, 1, n)) /\ Len(SubSeq(s, 1, n)) = n /\ \A i \in 1 .. n : SubSeq(s, 1, n)[i] = s[i]
    BY SeqCut
  <2>5. SubSeq(c, 1, n) = SubSeq(s, 1, n)
    <3>1. \A i \in 1 .. n : i \in 1 .. Len(s) BY <2>0
    <3>2. \A i \in 1 .. n : SubSeq(c, 1, n)[i] = SubSeq(s, 1, n)[i] BY <3>1, <2>1, <2>3, <2>4
    <3> QED BY <2>3, <2>4, <3>2, SeqSame
  <2> QED BY <2>5 DEF c
<1>3. SubSeq(s, 1, Len(s)) = s
  <2>0. Len(s) \in 0 .. Len(s) BY SeqIs
  <2>1. LET c == SubSeq(s, 1, Len(s)) IN IsSeq(c) /\ Len(c) = Len(s) /\ \A i \in 1 .. Len(s) : c[i] = s[i]
    BY <2>0, SeqCut
  <2> QED BY <2>1, SeqSame
<1>4. SubSeq(s, 1, 0) = <<>> OBVIOUS
<1> QED BY <1>1, <1>2, <1>3, <1>4

\* A cut and the element behind it.
LEMMA SeqGrow ==
  ASSUME NEW s, IsSeq(s), NEW n \in 1 .. Len(s)
  PROVE  Append(SubSeq(s, 1, n - 1), s[n]) = SubSeq(s, 1, n)
<1> DEFINE a == SubSeq(s, 1, n - 1)
           z == Append(a, s[n])
           c == SubSeq(s, 1, n)
<1>1. Len(s) \in Nat /\ n - 1 \in 0 .. Len(s) /\ n \in 0 .. Len(s) /\ n \in Nat BY SeqIs
<1>2. IsSeq(a) /\ Len(a) = n - 1 /\ \A q \in 1 .. n - 1 : a[q] = s[q] BY <1>1, SeqCut
<1>3. IsSeq(c) /\ Len(c) = n /\ \A q \in 1 .. n : c[q] = s[q] BY <1>1, SeqCut
<1> HIDE DEF a, c
<1>4. /\ IsSeq(z) /\ Len(z) = (n - 1) + 1 /\ (\A q \in 1 .. n - 1 : z[q] = a[q])
      /\ z[(n - 1) + 1] = s[n]
  BY <1>2, SeqAppend
<1>5. Len(z) = n /\ z[n] = s[n] BY <1>1, <1>4
<1> HIDE DEF z
<1>6. ASSUME NEW q \in 1 .. n PROVE z[q] = c[q]
  <2>1. CASE q = n BY <2>1, <1>3, <1>5
  <2>2. CASE q # n
    <3>1. q \in 1 .. n - 1 BY <2>2, <1>1
    <3> QED BY <3>1, <1>2, <1>3, <1>4
  <2> QED BY <2>1, <2>2
<1>7. z = c BY <1>3, <1>4, <1>5, <1>6, SeqSame
<1> QED BY <1>7 DEF a, z, c

\* A set of positions has a least and a greatest element.
LEMMA Extremes ==
  ASSUME NEW n \in Nat, NEW K \in SUBSET (0 .. n), K # {}
  PROVE  (\E k \in K : \A j \in K : k <= j) /\ (\E k \in K : \A j \in K : j <= k)
<1>0. \A T \in SUBSET Nat : T # {} => \E m \in T : \A j \in T : m <= j
  <2> SUFFICES ASSUME NEW T \in SUBSET Nat, T # {} PROVE \E m \in T : \A j \in T : m <= j
    OBVIOUS
  <2>1. PICK m \in T : \A j \in T : ~(<<j, m>> \in OpToRel(<, Nat))
    BY NatLessThanWellFounded, WFMin
  <2>2. \A j \in T : ~(j < m) BY <2>1 DEF OpToRel
  <2>3. \A j \in T : m <= j
    <3> TAKE j \in T
    <3>1. j \in Nat /\ m \in Nat OBVIOUS
    <3> QED BY <3>1, <2>2
  <2> QED BY <2>3
<1>1. PICK x \in K : TRUE OBVIOUS
<1>2. \E k \in K : \A j \in K : k <= j
  BY <1>0
<1>3. \E k \in K : \A j \in K : j <= k
  <2> DEFINE D == {n - k : k \in K}
  <2>0. \A k \in K : n - k \in Nat
    <3>1. \A k \in 0 .. n : n - k \in Nat OBVIOUS
    <3> QED BY <3>1
  <2>1. D \in SUBSET Nat /\ D # {}
    <3>1. \A d \in D : d \in Nat BY <2>0
    <3>2. n - x \in D OBVIOUS
    <3> HIDE DEF D
    <3> QED BY <3>1, <3>2
  <2>2. PICK d \in D : \A e \in D : d <= e BY <2>1, <1>0
  <2>3. PICK k \in K : d = n - k BY <2>2
  <2>4. ASSUME NEW j \in K PROVE j <= k
    <3>1. n - j \in D OBVIOUS
    <3>2. n - k <= n - j BY <3>1, <2>2, <2>3
    <3>3. \A y \in K : y \in Int OBVIOUS
    <3>4. j \in Int /\ k \in Int BY <3>3
    <3> HIDE DEF D
    <3> QED BY <3>2, <3>4
  <2> QED BY <2>4
<1> QED BY <1>2, <1>3

----------------------------------------------------------------------------
(* Bodies.  What decoding, validation and code generation leave for a body *)
(* of any length: cd its instructions, sn the state before each pc, ei the *)
(* resolved ends.                                                          *)

SnapShape(s) ==
  /\ DOMAIN s = {"ctrl", "tys", "skip", "is_try", "closed"}
  /\ IsSeq(s.ctrl) /\ s.skip \in Int /\ s.skip >= -1 /\ s.closed \in BOOLEAN

\* instruction p was accepted in the state before it
Accepted(f, cd, sn, p) ==
  /\ cd[p] \in Instrs[f] /\ ~sn[p].closed
  /\ IF sn[p].skip >= 0 THEN ValidDead(cd[p]) ELSE ValidLive(f, sn[p], cd[p])
  /\ sn[p + 1] = NextSnap(f, sn[p], cd[p], p)

Entry(cd, sn, b) == [blk |-> b, op |-> cd[b].op, bt |-> cd[b].bt, h |-> Len(sn[b].tys)]

\* b opens a block that is executed
Opens(cd, sn, b) == cd[b].op \in Openers /\ sn[b].skip = -1

\* level k of the control stack before p is a block opened at an earlier pc
\* b; the levels below it are the ones b was opened in
BlockAt(cd, sn, p, k) ==
  \E b \in 1 .. p - 1 :
    /\ sn[p].ctrl[k] = Entry(cd, sn, b) /\ Opens(cd, sn, b)
    /\ sn[b].ctrl = SubSeq(sn[p].ctrl, 1, k - 1)

\* the end at e closes the block opened at b
Closes(cd, sn, b, e) ==
  /\ e \in b + 1 .. Len(cd) /\ cd[e].op = "end" /\ sn[e].skip <= 0
  /\ sn[e].ctrl = sn[b + 1].ctrl

\* s has b open
HasOpen(sn, b, s) ==
  LET k == Len(sn[b].ctrl) + 1 IN k <= Len(s.ctrl) /\ s.ctrl[k].blk = b

BodySeqs(cd, sn, ei) ==
  /\ IsSeq(cd) /\ IsSeq(sn) /\ IsSeq(ei)
  /\ Len(sn) = Len(cd) + 1 /\ Len(ei) = Len(cd)

BodySnaps(cd, sn) ==
  /\ sn[1] = InitSnap
  /\ \A p \in 1 .. Len(cd) + 1 : SnapShape(sn[p]) /\ (sn[p].closed => sn[p].ctrl = <<>>)

BodyBlocks(cd, sn) ==
  \A p \in 1 .. Len(cd) + 1 : \A k \in 1 .. Len(sn[p].ctrl) : BlockAt(cd, sn, p, k)

BodyEnds(cd, sn, ei) ==
  \A b \in 1 .. Len(cd) : Opens(cd, sn, b) =>
    HasOpen(sn, b, sn[Len(cd) + 1]) \/ Closes(cd, sn, b, ei[b])

BodyOK(f, cd, sn, ei) ==
  /\ BodySeqs(cd, sn, ei) /\ BodySnaps(cd, sn)
  /\ \A p \in 1 .. Len(cd) : Accepted(f, cd, sn, p)
  /\ BodyBlocks(cd, sn) /\ BodyEnds(cd, sn, ei)

\* n is what is left of s behind instruction i at pc: the control stack.
After(s, i, pc, n) ==
  /\ i.op \in Openers /\ s.skip = -1 =>
       /\ n.ctrl = Append(s.ctrl, [blk |-> pc, op |-> i.op, bt |-> i.bt, h |-> Len(s.tys)])
       /\ n.skip = -1 /\ n.closed = s.closed
  /\ i.op \in Openers /\ s.skip >= 0 =>
       n.ctrl = s.ctrl /\ n.skip = s.skip + 1 /\ n.closed = s.closed
  /\ i.op = "end" /\ s.skip > 0 =>
       n.ctrl = s.ctrl /\ n.skip = s.skip - 1 /\ n.closed = s.closed
  /\ i.op = "end" /\ s.skip <= 0 /\ s.ctrl = <<>> =>
       n.ctrl = <<>> /\ n.skip = -1 /\ n.closed
  /\ i.op = "end" /\ s.skip <= 0 /\ s.ctrl # <<>> =>
       n.ctrl = DropN(s.ctrl, 1) /\ n.skip = -1 /\ n.closed = s.closed
  /\ i.op \in Terminators => n.ctrl = s.ctrl /\ n.skip = 0 /\ n.closed = s.closed
  /\ i.op \notin Openers \cup Terminators \cup {"end"} =>
       n.ctrl = s.ctrl /\ n.skip = s.skip /\ n.closed = s.closed
  /\ DOMAIN n = DOMAIN s

\* NextSnap computes it.
LEMMA NextIs ==
  ASSUME NEW f, NEW s, SnapShape(s), NEW i, NEW pc
  PROVE  After(s, i, pc, NextSnap(f, s, i, pc))
<1> DEFINE n == NextSnap(f, s, i, pc)
           e == [blk |-> pc, op |-> i.op, bt |-> i.bt, h |-> Len(s.tys)]
<1> SUFFICES After(s, i, pc, n) OBVIOUS
<1>0. DOMAIN s = {"ctrl", "tys", "skip", "is_try", "closed"} /\ s.skip \in Int BY DEF SnapShape
<1>1. CASE i.op \in Openers
  <2>1. n = Opened(s, i, pc) /\ i.op # "end" /\ i.op \notin Terminators
    BY <1>1 DEF NextSnap, Openers, Terminators
  <2>2. CASE s.skip >= 0
    <3>1. n = [s EXCEPT !.skip = s.skip + 1] BY <2>1, <2>2 DEF Opened
    <3> HIDE DEF n
    <3> QED BY <3>1, <2>1, <2>2, <1>0, <1>1 DEF After
  <2>3. CASE ~(s.skip >= 0)
    <3>1. n = [s EXCEPT !.ctrl = Append(s.ctrl, e), !.is_try = IsTryAfter(s, i)]
      BY <2>1, <2>3 DEF Opened
    <3>2. s.skip = -1 => n.skip = -1 BY <3>1, <1>0
    <3>3. n.ctrl = Append(s.ctrl, e) /\ n.closed = s.closed /\ DOMAIN n = DOMAIN s BY <3>1, <1>0
    <3> HIDE DEF n
    <3> QED BY <3>2, <3>3, <2>1, <2>3, <1>0, <1>1 DEF After
  <2> QED BY <2>2, <2>3
<1>2. CASE i.op = "end"
  <2>1. n = Closed(f, s) /\ i.op \notin Openers /\ i.op \notin Terminators
    BY <1>2 DEF NextSnap, Openers, Terminators
  <2>2. CASE s.skip > 0
    <3>0. ~(s.skip <= 0 /\ s.ctrl = <<>>) BY <2>2, <1>0
    <3>1. n = [s EXCEPT !.skip = s.skip - 1]
      <4> HIDE DEF n
      <4> QED BY <2>1, <2>2, <3>0 DEF Closed
    <3> HIDE DEF n
    <3> QED BY <3>1, <2>1, <2>2, <1>0, <1>2 DEF After
  <2>3. CASE s.skip <= 0 /\ s.ctrl = <<>>
    <3>1. ~(s.skip > 0) BY <2>3, <1>0
    <3>2. n = [s EXCEPT !.tys = Sig[f].rs, !.skip = -1, !.closed = TRUE] BY <2>1, <2>3, <3>1 DEF Closed
    <3>3. n.ctrl = s.ctrl /\ n.skip = -1 /\ n.closed = TRUE /\ DOMAIN n = DOMAIN s BY <3>2, <1>0
    <3> HIDE DEF n
    <3> QED BY <3>3, <3>1, <2>1, <2>3, <1>0, <1>2 DEF After
  <2>4. CASE s.skip <= 0 /\ s.ctrl # <<>>
    <3>1. ~(s.skip > 0) BY <2>4, <1>0
    <3> DEFINE t == SubSeq(s.tys, 1, CurHeight(s)) \o s.ctrl[Len(s.ctrl)].bt
    <3>2. n = [s EXCEPT !.tys = t, !.skip = -1, !.ctrl = DropN(s.ctrl, 1)] BY <2>1, <2>4, <3>1 DEF Closed
    <3> HIDE DEF t
    <3>3. n.ctrl = DropN(s.ctrl, 1) /\ n.skip = -1 /\ n.closed = s.closed /\ DOMAIN n = DOMAIN s BY <3>2, <1>0
    <3> HIDE DEF n
    <3> QED BY <3>3, <3>1, <2>1, <2>4, <1>0, <1>2 DEF After
  <2> QED BY <2>2, <2>3, <2>4, <1>0
<1>3. CASE i.op \in Terminators
  <2>1. n = Kill(s) /\ i.op # "end" /\ i.op \notin Openers
    BY <1>3 DEF NextSnap, Openers, Terminators
  <2> DEFINE t == SubSeq(s.tys, 1, CurHeight(s))
  <2>2. n = [s EXCEPT !.skip = 0, !.tys = t] BY <2>1 DEF Kill
  <2> HIDE DEF t
  <2>3. n.ctrl = s.ctrl /\ n.skip = 0 /\ n.closed = s.closed /\ DOMAIN n = DOMAIN s BY <2>2, <1>0
  <2> HIDE DEF n
  <2> QED BY <2>3, <2>1, <1>3 DEF After
<1>4. CASE i.op \notin Openers \cup Terminators \cup {"end"}
  <2>1. n = s \/ \E t : n = [s EXCEPT !.tys = t]
    BY <1>4 DEF NextSnap
  <2>2. n.ctrl = s.ctrl /\ n.skip = s.skip /\ n.closed = s.closed /\ DOMAIN n = DOMAIN s BY <2>1, <1>0
  <2> HIDE DEF n
  <2> QED BY <2>2, <1>4 DEF After
<1> QED BY <1>1, <1>2, <1>3, <1>4

\* The empty body.
LEMMA BodyInit == ASSUME NEW f PROVE BodyOK(f, <<>>, <<InitSnap>>, <<>>)
<1> DEFINE sn == <<InitSnap>>
<1>1. IsSeq(<<>>) /\ Len(<<>>) = 0 BY SeqEmpty
<1>2. IsSeq(sn) /\ Len(sn) = 1 /\ sn[1] = InitSnap BY SeqOne
<1>3. SnapShape(InitSnap) /\ InitSnap.ctrl = <<>> BY <1>1 DEF SnapShape, InitSnap
<1> HIDE DEF sn
<1>4. BodySeqs(<<>>, sn, <<>>) BY <1>1, <1>2 DEF BodySeqs
<1>5. \A p \in 1 .. Len(<<>>) + 1 : p = 1 BY <1>1
<1>6. BodySnaps(<<>>, sn) BY <1>2, <1>3, <1>5 DEF BodySnaps
<1>7. BodyBlocks(<<>>, sn) BY <1>1, <1>2, <1>3, <1>5 DEF BodyBlocks
<1>8. BodyEnds(<<>>, sn, <<>>) BY <1>1 DEF BodyEnds
<1> QED BY <1>1, <1>4, <1>6, <1>7, <1>8 DEF BodyOK, sn

\* Positions before the last instruction see nothing of it.
LEMMA BlockKeep ==
  ASSUME NEW cd, NEW sn, NEW cd2, NEW sn2, NEW p \in Nat, NEW k \in Nat, BlockAt(cd, sn, p, k),
         \A q \in 1 .. p - 1 : cd2[q] = cd[q], \A q \in 1 .. p : sn2[q] = sn[q], p >= 1
  PROVE  BlockAt(cd2, sn2, p, k)
<1>1. PICK b \in 1 .. p - 1 : /\ sn[p].ctrl[k] = Entry(cd, sn, b) /\ Opens(cd, sn, b)
                              /\ sn[b].ctrl = SubSeq(sn[p].ctrl, 1, k - 1)
  BY DEF BlockAt
<1>2. cd2[b] = cd[b] /\ sn2[b] = sn[b] /\ sn2[p] = sn[p] BY <1>1
<1>3. Entry(cd2, sn2, b) = Entry(cd, sn, b) /\ Opens(cd2, sn2, b) BY <1>1, <1>2 DEF Entry, Opens
<1> QED BY <1>1, <1>2, <1>3 DEF BlockAt

\* A level of a control stack that was there before stands for the same block.
LEMMA BlockOn ==
  ASSUME NEW cd, NEW sn, NEW p \in Nat, p >= 1, NEW k \in Nat, BlockAt(cd, sn, p, k),
         sn[p + 1].ctrl[k] = sn[p].ctrl[k],
         SubSeq(sn[p + 1].ctrl, 1, k - 1) = SubSeq(sn[p].ctrl, 1, k - 1)
  PROVE  BlockAt(cd, sn, p + 1, k)
<1>1. PICK b \in 1 .. p - 1 : /\ sn[p].ctrl[k] = Entry(cd, sn, b) /\ Opens(cd, sn, b)
                              /\ sn[b].ctrl = SubSeq(sn[p].ctrl, 1, k - 1)
  BY DEF BlockAt
<1>2. b \in 1 .. (p + 1) - 1 BY <1>1
<1> QED BY <1>1, <1>2 DEF BlockAt

\* end_idx after one more instruction
NewEnds(ei, s, i, p) ==
  IF i.op = "end" /\ s.skip <= 0 /\ s.ctrl # <<>>
  THEN [Append(ei, 0) EXCEPT ![s.ctrl[Len(s.ctrl)].blk] = p] ELSE Append(ei, 0)

\* One more accepted instruction keeps the shape of the body.
LEMMA BodyEmit ==
  ASSUME NEW f, NEW cd, NEW sn, NEW ei, BodyOK(f, cd, sn, ei),
         NEW p, p = Len(cd) + 1, NEW i \in Instrs[f], ~sn[p].closed,
         IF sn[p].skip >= 0 THEN ValidDead(i) ELSE ValidLive(f, sn[p], i)
  PROVE  BodyOK(f, Append(cd, i), Append(sn, NextSnap(f, sn[p], i, p)), NewEnds(ei, sn[p], i, p))
<1> DEFINE s == sn[p]
           n == NextSnap(f, s, i, p)
           cd2 == Append(cd, i)
           sn2 == Append(sn, n)
           ei2 == NewEnds(ei, s, i, p)
           e == [blk |-> p, op |-> i.op, bt |-> i.bt, h |-> Len(s.tys)]
           g == Append(ei, 0)
<1>0. /\ BodySeqs(cd, sn, ei) /\ BodySnaps(cd, sn) /\ BodyBlocks(cd, sn) /\ BodyEnds(cd, sn, ei)
      /\ \A q \in 1 .. Len(cd) : Accepted(f, cd, sn, q)
  BY DEF BodyOK
<1>1. /\ Len(cd) \in Nat /\ Len(sn) = p /\ Len(ei) = p - 1 /\ p \in Nat /\ p >= 1 /\ Len(cd) = p - 1
      /\ IsSeq(cd) /\ IsSeq(sn) /\ IsSeq(ei)
  BY <1>0, SeqIs DEF BodySeqs
<1>2. IsSeq(cd2) /\ Len(cd2) = p /\ (\A q \in 1 .. p - 1 : cd2[q] = cd[q]) /\ cd2[p] = i
  BY <1>1, SeqAppend
<1>3. IsSeq(sn2) /\ Len(sn2) = p + 1 /\ (\A q \in 1 .. p : sn2[q] = sn[q]) /\ sn2[p + 1] = n
  BY <1>1, SeqAppend
<1>4. SnapShape(s) /\ IsSeq(s.ctrl) /\ Len(s.ctrl) \in Nat /\ s.skip \in Int /\ s.skip >= -1
  <2>1. SnapShape(s) BY <1>0, <1>1 DEF BodySnaps
  <2> QED BY <2>1, SeqIs DEF SnapShape
<1>5. After(s, i, p, n) BY <1>4, NextIs
<1>6. s.ctrl # <<>> => Len(s.ctrl) >= 1
  <2>1. Len(s.ctrl) = 0 => s.ctrl = <<>> BY <1>4, SeqEmpty
  <2> QED BY <2>1, <1>4
<1>7. \A k \in 1 .. Len(s.ctrl) : BlockAt(cd, sn, p, k) BY <1>0, <1>1 DEF BodyBlocks
<1>8. /\ IsSeq(g) /\ Len(g) = p /\ \A q \in 1 .. p - 1 : g[q] = ei[q]
      /\ i.op = "end" /\ s.skip <= 0 /\ s.ctrl # <<>> =>
           ei2 = [g EXCEPT ![s.ctrl[Len(s.ctrl)].blk] = p]
      /\ ~(i.op = "end" /\ s.skip <= 0 /\ s.ctrl # <<>>) => ei2 = g
  <2>1. IsSeq(g) /\ Len(g) = p /\ \A q \in 1 .. p - 1 : g[q] = ei[q] BY <1>1, SeqAppend
  <2> QED BY <2>1 DEF NewEnds
<1>9. i.op = "end" /\ s.skip <= 0 /\ s.ctrl # <<>> =>
        \E b \in 1 .. p - 1 : /\ s.ctrl[Len(s.ctrl)] = Entry(cd, sn, b) /\ Opens(cd, sn, b)
                              /\ sn[b].ctrl = SubSeq(s.ctrl, 1, Len(s.ctrl) - 1)
                              /\ s.ctrl[Len(s.ctrl)].blk = b
  <2> SUFFICES ASSUME s.ctrl # <<>>
               PROVE  \E b \in 1 .. p - 1 : /\ s.ctrl[Len(s.ctrl)] = Entry(cd, sn, b) /\ Opens(cd, sn, b)
                                            /\ sn[b].ctrl = SubSeq(s.ctrl, 1, Len(s.ctrl) - 1)
                                            /\ s.ctrl[Len(s.ctrl)].blk = b
    OBVIOUS
  <2>1. BlockAt(cd, sn, p, Len(s.ctrl)) BY <1>4, <1>6, <1>7
  <2>2. \A b : Entry(cd, sn, b).blk = b BY DEF Entry
  <2> QED BY <2>1, <2>2 DEF BlockAt
<1> HIDE DEF s, n, cd2, sn2, ei2, g
<1>10. BodySeqs(cd2, sn2, ei2)
  <2>1. IsSeq(ei2) /\ Len(ei2) = p
    <3>1. CASE i.op = "end" /\ s.skip <= 0 /\ s.ctrl # <<>>
      <4>1. PICK b \in 1 .. p - 1 : s.ctrl[Len(s.ctrl)].blk = b BY <3>1, <1>9
      <4>2. b \in 1 .. Len(g) BY <1>1, <1>8
      <4>3. ei2 = [g EXCEPT ![b] = p] BY <3>1, <4>1, <1>8
      <4>4. IsSeq([g EXCEPT ![b] = p]) /\ Len([g EXCEPT ![b] = p]) = Len(g) BY ZenonT(30), <4>2, <1>8, SeqExcept
      <4> QED BY <4>3, <4>4, <1>8
    <3>2. CASE ~(i.op = "end" /\ s.skip <= 0 /\ s.ctrl # <<>>) BY <3>2, <1>8
    <3> QED BY <3>1, <3>2
  <2> QED BY <2>1, <1>2, <1>3 DEF BodySeqs
<1>11. SnapShape(n) /\ (n.closed => n.ctrl = <<>>)
  <2>0. DOMAIN n = {"ctrl", "tys", "skip", "is_try", "closed"} /\ ~s.closed /\ s.closed \in BOOLEAN
    BY <1>4, <1>5 DEF After, SnapShape, s
  <2>1. CASE i.op \in Openers /\ s.skip = -1
    <3>1. n.ctrl = Append(s.ctrl, e) /\ n.skip = -1 /\ n.closed = s.closed BY <2>1, <1>5 DEF After
    <3>2. IsSeq(n.ctrl) BY <3>1, <1>4, SeqAppend
    <3> QED BY <3>1, <3>2, <2>0, <1>4 DEF SnapShape
  <2>2. CASE i.op \in Openers /\ s.skip >= 0
    <3>1. n.ctrl = s.ctrl /\ n.skip = s.skip + 1 /\ n.closed = s.closed BY <2>2, <1>5 DEF After
    <3> QED BY <3>1, <2>0, <2>2, <1>4 DEF SnapShape
  <2>3. CASE i.op = "end" /\ s.skip > 0 BY <2>0, <2>3, <1>4, <1>5 DEF After, SnapShape
  <2>4. CASE i.op = "end" /\ s.skip <= 0 /\ s.ctrl = <<>>
    <3>1. n.ctrl = <<>> /\ n.skip = -1 BY <2>4, <1>5 DEF After
    <3>2. n.closed \in BOOLEAN
      <4>1. n = Closed(f, s) BY <2>4 DEF n, NextSnap, Openers, Terminators
      <4>2. n = [s EXCEPT !.tys = Sig[f].rs, !.skip = -1, !.closed = TRUE]
        <5>1. ~(s.skip > 0) BY <2>4, <1>4
        <5> QED BY <4>1, <2>4, <5>1 DEF Closed
      <4>3. DOMAIN s = {"ctrl", "tys", "skip", "is_try", "closed"} BY <1>4 DEF SnapShape
      <4> QED BY <4>2, <4>3
    <3> QED BY <3>1, <3>2, <2>0, SeqEmpty DEF SnapShape
  <2>5. CASE i.op = "end" /\ s.skip <= 0 /\ s.ctrl # <<>>
    <3>1. n.ctrl = SubSeq(s.ctrl, 1, Len(s.ctrl) - 1) /\ n.skip = -1 /\ n.closed = s.closed
      BY <2>5, <1>5 DEF After, DropN
    <3>2. IsSeq(n.ctrl)
      <4>1. Len(s.ctrl) - 1 \in 0 .. Len(s.ctrl) BY <2>5, <1>4, <1>6
      <4> QED BY <4>1, <3>1, <1>4, SeqCut
    <3> QED BY <3>1, <3>2, <2>0 DEF SnapShape
  <2>6. CASE i.op \in Terminators BY <2>0, <2>6, <1>4, <1>5 DEF After, SnapShape
  <2>7. CASE i.op \notin Openers \cup Terminators \cup {"end"}
    BY <2>0, <2>7, <1>4, <1>5 DEF After, SnapShape
  <2> QED BY <2>1, <2>2, <2>3, <2>4, <2>5, <2>6, <2>7, <1>4
<1>12. BodySnaps(cd2, sn2)
  <2>1. ASSUME NEW q \in 1 .. p + 1
        PROVE  SnapShape(sn2[q]) /\ (sn2[q].closed => sn2[q].ctrl = <<>>)
    <3>1. CASE q = p + 1 BY <3>1, <1>3, <1>11
    <3>2. CASE q \in 1 .. p BY <3>2, <1>0, <1>1, <1>3 DEF BodySnaps
    <3> QED BY <3>1, <3>2, <1>1
  <2>2. sn2[1] = InitSnap
    <3>1. 1 \in 1 .. p BY <1>1
    <3> QED BY <3>1, <1>0, <1>3 DEF BodySnaps
  <2> QED BY <2>1, <2>2, <1>1, <1>2 DEF BodySnaps
<1>13. ASSUME NEW q \in 1 .. p PROVE Accepted(f, cd2, sn2, q)
  <2>1. CASE q = p
    <3>1. cd2[p] = i /\ sn2[p] = s /\ sn2[p + 1] = n BY <1>1, <1>2, <1>3 DEF s
    <3> QED BY <3>1, <2>1 DEF Accepted, n, s
  <2>2. CASE q \in 1 .. p - 1
    <3>1. cd2[q] = cd[q] /\ sn2[q] = sn[q] /\ sn2[q + 1] = sn[q + 1] BY <2>2, <1>1, <1>2, <1>3
    <3>2. Accepted(f, cd, sn, q) BY <2>2, <1>0, <1>1
    <3> QED BY <3>1, <3>2 DEF Accepted
  <2> QED BY <2>1, <2>2, <1>1
<1>14. \A k \in 1 .. Len(s.ctrl) : BlockAt(cd2, sn2, p, k)
  <2> SUFFICES ASSUME NEW k \in 1 .. Len(s.ctrl) PROVE BlockAt(cd2, sn2, p, k) OBVIOUS
  <2>1. BlockAt(cd, sn, p, k) /\ k \in Nat BY <1>4, <1>7
  <2> QED BY <2>1, <1>1, <1>2, <1>3, BlockKeep
<1>15. sn2[p] = s /\ sn2[p + 1] = n BY <1>1, <1>3 DEF s
<1>16. ASSUME NEW k \in 1 .. Len(n.ctrl) PROVE BlockAt(cd2, sn2, p + 1, k)
  <2>1. ASSUME IsSeq(n.ctrl), k <= Len(s.ctrl), n.ctrl[k] = s.ctrl[k],
               SubSeq(n.ctrl, 1, k - 1) = SubSeq(s.ctrl, 1, k - 1)
        PROVE  BlockAt(cd2, sn2, p + 1, k)
    <3>1. k \in 1 .. Len(s.ctrl) /\ k \in Nat BY <2>1, <1>4, SeqIs
    <3>2. BlockAt(cd2, sn2, p, k) BY <3>1, <1>14
    <3> QED BY <2>1, <3>1, <3>2, <1>1, <1>15, BlockOn
  <2>2. IsSeq(n.ctrl) /\ Len(n.ctrl) \in Nat BY <1>11, SeqIs DEF SnapShape
  <2>3. CASE n.ctrl = s.ctrl BY <2>1, <2>2, <2>3
  <2>4. CASE i.op \in Openers /\ s.skip = -1
    <3>1. n.ctrl = Append(s.ctrl, e) BY <2>4, <1>5 DEF After
    <3>2. /\ Len(n.ctrl) = Len(s.ctrl) + 1 /\ n.ctrl[Len(s.ctrl) + 1] = e
          /\ \A j \in 1 .. Len(s.ctrl) : n.ctrl[j] = s.ctrl[j]
      BY <3>1, <1>4, SeqAppend
    <3>3. k - 1 \in 0 .. Len(s.ctrl) BY <3>2, <1>4
    <3>4. SubSeq(n.ctrl, 1, k - 1) = SubSeq(s.ctrl, 1, k - 1) BY <3>1, <3>3, <1>4, SeqCuts
    <3>5. CASE k <= Len(s.ctrl) BY <3>2, <3>4, <3>5, <2>1, <2>2
    <3>6. CASE k = Len(s.ctrl) + 1
      <4>1. p \in 1 .. (p + 1) - 1 BY <1>1
      <4>2. n.ctrl[k] = Entry(cd2, sn2, p) BY <3>2, <3>6, <1>2, <1>15 DEF Entry
      <4>3. Opens(cd2, sn2, p) BY <2>4, <1>2, <1>15 DEF Opens
      <4>4. SubSeq(n.ctrl, 1, k - 1) = s.ctrl
        <5>1. k - 1 = Len(s.ctrl) BY <3>6, <1>4
        <5> QED BY <5>1, <3>4, <1>4, SeqCuts
      <4> QED BY <4>1, <4>2, <4>3, <4>4, <1>15 DEF BlockAt
    <3> QED BY <3>2, <3>5, <3>6, <1>4
  <2>5. CASE i.op = "end" /\ s.skip <= 0 /\ s.ctrl # <<>>
    <3>1. n.ctrl = SubSeq(s.ctrl, 1, Len(s.ctrl) - 1) BY <2>5, <1>5 DEF After, DropN
    <3>2. Len(s.ctrl) - 1 \in 0 .. Len(s.ctrl) BY <2>5, <1>4, <1>6
    <3>3. Len(n.ctrl) = Len(s.ctrl) - 1 /\ \A j \in 1 .. Len(s.ctrl) - 1 : n.ctrl[j] = s.ctrl[j]
      BY <3>1, <3>2, <1>4, SeqCut
    <3>4. k <= Len(s.ctrl) /\ n.ctrl[k] = s.ctrl[k] BY <3>3, <1>4
    <3>5. k - 1 \in 0 .. Len(s.ctrl) /\ k - 1 <= Len(s.ctrl) - 1 BY <3>3, <1>4
    <3>6. SubSeq(n.ctrl, 1, k - 1) = SubSeq(s.ctrl, 1, k - 1) BY <3>1, <3>2, <3>5, <1>4, SeqCuts
    <3> QED BY <3>4, <3>6, <2>1, <2>2
  <2>6. n.ctrl = s.ctrl \/ (i.op \in Openers /\ s.skip = -1)
          \/ (i.op = "end" /\ s.skip <= 0 /\ s.ctrl # <<>>)
    <3>1. s.skip = -1 \/ s.skip >= 0 BY <1>4
    <3>2. s.skip > 0 \/ s.skip <= 0 BY <1>4
    <3> QED BY <3>1, <3>2, <1>5 DEF After
  <2> QED BY <2>3, <2>4, <2>5, <2>6
<1>17. BodyBlocks(cd2, sn2)
  <2> SUFFICES ASSUME NEW q \in 1 .. p + 1, NEW k \in 1 .. Len(sn2[q].ctrl) PROVE BlockAt(cd2, sn2, q, k)
    BY <1>2 DEF BodyBlocks
  <2>1. CASE q = p + 1 BY <2>1, <1>15, <1>16
  <2>2. CASE q \in 1 .. p
    <3>1. sn2[q] = sn[q] /\ SnapShape(sn[q]) BY <2>2, <1>0, <1>1, <1>3 DEF BodySnaps
    <3>2. BlockAt(cd, sn, q, k) BY <2>2, <3>1, <1>0, <1>1 DEF BodyBlocks
    <3>3. k \in Nat /\ q \in Nat /\ q >= 1 BY <2>2, <3>1, SeqIs DEF SnapShape
    <3>4. (\A j \in 1 .. q - 1 : cd2[j] = cd[j]) /\ \A j \in 1 .. q : sn2[j] = sn[j]
      BY <2>2, <1>1, <1>2, <1>3
    <3> QED BY <3>2, <3>3, <3>4, BlockKeep
  <2> QED BY <2>1, <2>2, <1>1
<1>18. BodyEnds(cd2, sn2, ei2)
  <2> SUFFICES ASSUME NEW b \in 1 .. p, Opens(cd2, sn2, b)
               PROVE  HasOpen(sn2, b, n) \/ Closes(cd2, sn2, b, ei2[b])
    BY <1>2, <1>15 DEF BodyEnds
  <2> DEFINE L == Len(s.ctrl)
  <2>1. CASE b = p
    <3>1. i.op \in Openers /\ s.skip = -1 BY <2>1, <1>2, <1>15 DEF Opens
    <3>2. n.ctrl = Append(s.ctrl, e) BY <3>1, <1>5 DEF After
    <3>3. Len(n.ctrl) = L + 1 /\ n.ctrl[L + 1] = e BY <3>2, <1>4, SeqAppend
    <3> QED BY <2>1, <3>3, <1>4, <1>15 DEF HasOpen
  <2>2. CASE b \in 1 .. p - 1
    <3>1. cd2[b] = cd[b] /\ sn2[b] = sn[b] /\ sn2[b + 1] = sn[b + 1] BY <2>2, <1>1, <1>2, <1>3
    <3>2. Opens(cd, sn, b) /\ b \in 1 .. Len(cd) BY <3>1, <2>2, <1>1 DEF Opens
    <3>3. HasOpen(sn, b, s) \/ Closes(cd, sn, b, ei[b])
      BY <3>2, <1>0 DEF BodyEnds, s
    <3>4. SnapShape(sn[b]) /\ Len(sn[b].ctrl) \in Nat
      <4>1. SnapShape(sn[b]) BY <2>2, <1>0, <1>1 DEF BodySnaps
      <4> QED BY <4>1, SeqIs DEF SnapShape
    <3> DEFINE k == Len(sn[b].ctrl) + 1
    <3>5. CASE i.op = "end" /\ s.skip <= 0 /\ s.ctrl # <<>>
      <4>0. ei2 = [g EXCEPT ![s.ctrl[L].blk] = p] BY <3>5, <1>8
      <4>1. PICK c \in 1 .. p - 1 :
               /\ s.ctrl[L] = Entry(cd, sn, c) /\ Opens(cd, sn, c)
               /\ sn[c].ctrl = SubSeq(s.ctrl, 1, L - 1) /\ s.ctrl[L].blk = c
        BY <3>5, <1>9
      <4>2. c \in 1 .. Len(g) BY <1>1, <1>8
      <4>3. \A q \in 1 .. p - 1 : ei2[q] = IF q = c THEN p ELSE ei[q]
        <5>1. \A q \in 1 .. p : [g EXCEPT ![c] = p][q] = IF q = c THEN p ELSE g[q]
          BY <4>2, <1>8, SeqExcept
        <5>2. \A q \in 1 .. p - 1 : q \in 1 .. p BY <1>1
        <5> QED BY <4>0, <4>1, <5>1, <5>2, <1>8
      <4>4. CASE b = c
        <5>1. ei2[b] = p BY <4>3, <4>4
        <5>2. p \in b + 1 .. Len(cd2) /\ cd2[p].op = "end" /\ sn2[p].skip <= 0
          BY <2>2, <3>5, <1>1, <1>2, <1>15
        <5>3. sn[b + 1].ctrl = s.ctrl
          <6>1. Accepted(f, cd, sn, b) BY <3>2, <1>0
          <6>2. After(sn[b], cd[b], b, sn[b + 1]) BY <6>1, <3>4, NextIs DEF Accepted
          <6>3. sn[b + 1].ctrl = Append(sn[b].ctrl, Entry(cd, sn, b))
            BY <6>2, <3>2 DEF After, Opens, Entry
          <6>4. sn[b + 1].ctrl = Append(SubSeq(s.ctrl, 1, L - 1), s.ctrl[L]) BY <6>3, <4>1, <4>4
          <6>5. L \in 1 .. Len(s.ctrl) BY <3>5, <1>4, <1>6
          <6>6. Append(SubSeq(s.ctrl, 1, L - 1), s.ctrl[L]) = SubSeq(s.ctrl, 1, L) BY <6>5, <1>4, SeqGrow
          <6>7. SubSeq(s.ctrl, 1, L) = s.ctrl BY <1>4, SeqCuts
          <6> QED BY <6>4, <6>6, <6>7
        <5> QED BY <5>1, <5>2, <5>3, <3>1, <1>15 DEF Closes
      <4>5. CASE b # c
        <5>1. ei2[b] = ei[b] BY <4>3, <4>5, <2>2
        <5>2. CASE HasOpen(sn, b, s)
          <6>1. k <= L /\ s.ctrl[k].blk = b BY <5>2 DEF HasOpen
          <6>2. k # L
            <7> SUFFICES ASSUME k = L PROVE FALSE OBVIOUS
            <7> QED BY <6>1, <4>1, <4>5
          <6>3. n.ctrl = SubSeq(s.ctrl, 1, L - 1) BY <3>5, <1>5 DEF After, DropN
          <6>4. L - 1 \in 0 .. L BY <3>5, <1>4, <1>6
          <6>5. Len(n.ctrl) = L - 1 /\ \A q \in 1 .. L - 1 : n.ctrl[q] = s.ctrl[q]
            BY <6>3, <6>4, <1>4, SeqCut
          <6>6. k \in 1 .. L - 1 BY SMTT(30), <6>1, <6>2, <3>4, <1>4
          <6>7. n.ctrl[k] = s.ctrl[k] /\ k \in 1 .. Len(n.ctrl) BY <6>5, <6>6
          <6>8. k <= Len(n.ctrl) /\ n.ctrl[k].blk = b
            <7> HIDE DEF k
            <7> QED BY <6>7, <6>1
          <6> QED BY <6>8, <3>1 DEF HasOpen
        <5>3. CASE Closes(cd, sn, b, ei[b])
          <6>1. ei[b] \in b + 1 .. Len(cd2) /\ ei[b] \in 1 .. p - 1 BY <5>3, <2>2, <1>1, <1>2 DEF Closes
          <6>2. cd2[ei[b]] = cd[ei[b]] /\ sn2[ei[b]] = sn[ei[b]]
            BY <6>1, <1>1, <1>2, <1>3
          <6> QED BY <5>1, <5>3, <6>1, <6>2, <3>1 DEF Closes
        <5> QED BY <5>2, <5>3, <3>3
      <4> QED BY <4>4, <4>5
    <3>6. CASE ~(i.op = "end" /\ s.skip <= 0 /\ s.ctrl # <<>>)
      <4>1. ei2[b] = ei[b] BY <3>6, <2>2, <1>8
      <4>2. CASE HasOpen(sn, b, s)
        <5>1. k <= L /\ s.ctrl[k].blk = b BY <4>2 DEF HasOpen
        <5>2. n.ctrl = s.ctrl \/ n.ctrl = Append(s.ctrl, e)
          <6>1. s.skip = -1 \/ s.skip >= 0 BY <1>4
          <6>2. s.skip > 0 \/ s.skip <= 0 BY <1>4
          <6> QED BY <6>1, <6>2, <3>6, <1>5 DEF After
        <5>3. k <= Len(n.ctrl) /\ n.ctrl[k].blk = b
          <6>1. CASE n.ctrl = s.ctrl BY <6>1, <5>1
          <6>2. CASE n.ctrl = Append(s.ctrl, e)
            <7>1. Len(n.ctrl) = L + 1 /\ \A q \in 1 .. L : n.ctrl[q] = s.ctrl[q]
              BY <6>2, <1>4, SeqAppend
            <7>2. k \in 1 .. L BY <5>1, <3>4, <1>4
            <7> QED BY SMTT(30), <7>1, <7>2, <5>1, <1>4
          <6> QED BY <6>1, <6>2, <5>2
        <5> QED BY <5>3, <3>1 DEF HasOpen
      <4>3. CASE Closes(cd, sn, b, ei[b])
        <5>1. ei[b] \in b + 1 .. Len(cd2) /\ ei[b] \in 1 .. p - 1 BY <4>3, <2>2, <1>1, <1>2 DEF Closes
        <5>2. cd2[ei[b]] = cd[ei[b]] /\ sn2[ei[b]] = sn[ei[b]]
          BY <5>1, <1>1, <1>2, <1>3
        <5> QED BY <4>1, <4>3, <5>1, <5>2, <3>1 DEF Closes
      <4> QED BY <4>2, <4>3, <3>3
    <3> QED BY <3>5, <3>6
  <2> QED BY <2>1, <2>2, <1>1
<1>19. BodyOK(f, cd2, sn2, ei2) BY <1>2, <1>10, <1>12, <1>13, <1>17, <1>18 DEF BodyOK
<1> QED BY <1>19 DEF cd2, sn2, ei2, n, s

----------------------------------------------------------------------------
(* The program.                                                            *)

\* a jump from pc lands at the end of the block at level k
LeapsTo(cd, sn, pc, k) ==
  \/ cd[pc].op \in {"br", "br_if", "br_table"} /\ LabelLvl(sn[pc], cd[pc].n) = k
  \/ cd[pc].op = "br_table" /\ LabelLvl(sn[pc], 0) = k
  \/ /\ cd[pc].op = "try_table"
     /\ \E j \in DOMAIN cd[pc].cs : LabelLvl(sn[pc], cd[pc].cs[j].label) = k

\* the end at pc is dead code behind a try_table body, and something jumps to it
DeadEnd(cd, sn, pc) ==
  /\ cd[pc].op = "end" /\ sn[pc].skip = 0 /\ sn[pc].ctrl # <<>>
  /\ LET b == sn[pc].ctrl[Len(sn[pc].ctrl)]
     IN /\ b.op = "try_table"
        /\ \E q \in b.blk + 1 .. pc - 1 :
             sn[q].skip = -1 /\ LeapsTo(cd, sn, q, Len(sn[pc].ctrl))

\* what compile_one_function and the shapes the model admits leave out
JitBody(cd, sn) ==
  \A p \in 1 .. Len(cd) :
    /\ sn[p].skip = -1 =>
         /\ cd[p].op # "call_ref"
         /\ "popcnt" \notin Shapes => cd[p].op # "popcnt"
         /\ "crosses_try" \notin Shapes => ~CrossesTry(sn[p], cd[p])
         /\ "stale_try" \notin Shapes => ~StaleTry(sn[p], cd[p])
    /\ "dead_try_end" \notin Shapes => ~DeadEnd(cd, sn, p)

ProgInv ==
  /\ DOMAIN code = Funcs /\ DOMAIN end_idx = Funcs /\ DOMAIN snap = Funcs
  /\ \A f \in Funcs : BodyOK(f, code[f], snap[f], end_idx[f])
  /\ built => \A f \in Funcs : snap[f][Len(snap[f])].closed
  /\ \A f \in Funcs : jit[f] => built /\ JitBody(code[f], snap[f])

\* Nothing has been decoded yet.
LEMMA ProgInitInv == ProgInit => ProgInv
<1> SUFFICES ASSUME ProgInit PROVE ProgInv OBVIOUS
<1>1. \A f \in Funcs : BodyOK(f, code[f], snap[f], end_idx[f])
  BY BodyInit DEF ProgInit
<1> QED BY <1>1 DEF ProgInit, ProgInv

\* What the shapes say of a function that is compiled.
LEMMA JitBodyIs ==
  ASSUME NEW f, Compiles(f), ~HasJitShape(f) PROVE JitBody(code[f], snap[f])
<1> SUFFICES ASSUME NEW p \in 1 .. Len(code[f])
             PROVE  /\ snap[f][p].skip = -1 =>
                         /\ code[f][p].op # "call_ref"
                         /\ "popcnt" \notin Shapes => code[f][p].op # "popcnt"
                         /\ "crosses_try" \notin Shapes => ~CrossesTry(snap[f][p], code[f][p])
                         /\ "stale_try" \notin Shapes => ~StaleTry(snap[f][p], code[f][p])
                    /\ "dead_try_end" \notin Shapes => ~DeadEnd(code[f], snap[f], p)
  BY DEF JitBody
<1>1. snap[f][p].skip = -1 => code[f][p].op # "call_ref" BY DEF Compiles
<1>2. JitShapes(f, p) \subseteq Shapes BY DEF HasJitShape
<1>3. \A x : x \in JitShapes(f, p) => x \in Shapes BY <1>2
<1>4. snap[f][p].skip = -1 /\ code[f][p].op = "popcnt" => "popcnt" \in JitShapes(f, p)
  BY DEF JitShapes
<1>5. snap[f][p].skip = -1 /\ CrossesTry(snap[f][p], code[f][p]) => "crosses_try" \in JitShapes(f, p)
  BY DEF JitShapes
<1>6. snap[f][p].skip = -1 /\ StaleTry(snap[f][p], code[f][p]) => "stale_try" \in JitShapes(f, p)
  BY DEF JitShapes
<1>7. DeadEnd(code[f], snap[f], p) => "dead_try_end" \in JitShapes(f, p)
  <2>1. DeadEnd(code[f], snap[f], p) => DeadTryEnd(f, snap[f][p], p)
    BY DEF DeadEnd, DeadTryEnd, LeapsTo, JumpsTo
  <2> QED BY <2>1 DEF JitShapes
<1> QED BY <1>1, <1>3, <1>4, <1>5, <1>6, <1>7

\* Decoding, validating and publishing keep the program in shape.
LEMMA ProgStep == ASSUME ProgInv, ProgNext PROVE ProgInv'
<1>1. ASSUME NEW f \in Funcs, NEW i \in Instrs[f], Emit(f, i) PROVE ProgInv'
  <2> DEFINE p == Len(code[f]) + 1
             s == snap[f][p]
  <2>0. /\ DOMAIN code = Funcs /\ DOMAIN end_idx = Funcs /\ DOMAIN snap = Funcs
        /\ \A g \in Funcs : BodyOK(g, code[g], snap[g], end_idx[g]) /\ ~jit[g]
        /\ ~built
    BY <1>1 DEF ProgInv, Emit
  <2>1. Len(snap[f]) = p BY <2>0 DEF BodyOK, BodySeqs
  <2>2. Cur(f) = s BY <2>1 DEF Cur
  <2>3. ~s.closed /\ (IF s.skip >= 0 THEN ValidDead(i) ELSE ValidLive(f, s, i))
    BY <1>1, <2>2 DEF Emit
  <2>4. EndIdxAfter(f, s, i, p) = NewEnds(end_idx[f], s, i, p)
    BY DEF EndIdxAfter, NewEnds
  <2>5. /\ code' = [code EXCEPT ![f] = Append(code[f], i)]
        /\ end_idx' = [end_idx EXCEPT ![f] = NewEnds(end_idx[f], s, i, p)]
        /\ snap' = [snap EXCEPT ![f] = Append(snap[f], NextSnap(f, s, i, p))]
        /\ UNCHANGED <<jit, built>>
    BY <1>1, <2>2, <2>4 DEF Emit
  <2>6. BodyOK(f, Append(code[f], i), Append(snap[f], NextSnap(f, s, i, p)),
               NewEnds(end_idx[f], s, i, p))
    BY <2>0, <2>3, BodyEmit
  <2> HIDE DEF p, s
  <2>7. ASSUME NEW g \in Funcs PROVE BodyOK(g, code'[g], snap'[g], end_idx'[g])
    <3>1. CASE g = f BY <3>1, <2>0, <2>5, <2>6
    <3>2. CASE g # f BY <3>2, <2>0, <2>5
    <3> QED BY <3>1, <3>2
  <2>8. DOMAIN code' = Funcs /\ DOMAIN end_idx' = Funcs /\ DOMAIN snap' = Funcs BY <2>0, <2>5
  <2>9. ~built' /\ \A g \in Funcs : ~jit'[g] BY <2>0, <2>5
  <2> QED BY <2>7, <2>8, <2>9 DEF ProgInv
<1>2. ASSUME NEW J \in JitChoices, Publish(J) PROVE ProgInv'
  <2>1. UNCHANGED <<code, end_idx, snap>> /\ built' BY <1>2 DEF Publish
  <2>2. \A f \in Funcs : snap[f][Len(snap[f])].closed BY <1>2 DEF Publish, Cur
  <2>3. ASSUME NEW f \in Funcs, jit'[f] PROVE JitBody(code[f], snap[f])
    <3>1. f \in J BY <1>2, <2>3 DEF Publish
    <3>2. Compiles(f) /\ ~HasJitShape(f) BY <1>2, <3>1 DEF Publish
    <3> QED BY <3>2, JitBodyIs
  <2> QED BY <2>1, <2>2, <2>3 DEF ProgInv
<1> QED BY <1>1, <1>2 DEF ProgNext

\* Execution leaves the program alone.
LEMMA ProgSame == ASSUME ProgInv, UNCHANGED progvars PROVE ProgInv'
  BY DEF ProgInv, progvars

----------------------------------------------------------------------------
(* Reachable positions of a built program.                                 *)

\* execution gets to p: live code, or an end behind dead code
Reach(f, p) == snap[f][p].skip = -1 \/ (code[f][p].op = "end" /\ snap[f][p].skip = 0)

At1(f, p) == p \in 1 .. Len(code[f]) /\ Reach(f, p)

\* What the invariant says of one function.
LEMMA BodyIs ==
  ASSUME ProgInv, NEW f \in Funcs
  PROVE  /\ Len(code[f]) \in Nat /\ Len(snap[f]) = Len(code[f]) + 1
         /\ snap[f][1] = InitSnap
         /\ \A p \in 1 .. Len(code[f]) + 1 : /\ IsSeq(snap[f][p].ctrl) /\ Len(snap[f][p].ctrl) \in Nat
                                             /\ snap[f][p].skip \in Int /\ snap[f][p].skip >= -1
         /\ \A p \in 1 .. Len(code[f]) :
              /\ Accepted(f, code[f], snap[f], p)
              /\ After(snap[f][p], code[f][p], p, snap[f][p + 1])
<1>0. BodyOK(f, code[f], snap[f], end_idx[f]) BY DEF ProgInv
<1>1. Len(code[f]) \in Nat /\ Len(snap[f]) = Len(code[f]) + 1
  BY <1>0, SeqIs DEF BodyOK, BodySeqs
<1>2. snap[f][1] = InitSnap BY <1>0 DEF BodyOK, BodySnaps
<1>3. \A p \in 1 .. Len(code[f]) + 1 : SnapShape(snap[f][p]) BY <1>0 DEF BodyOK, BodySnaps
<1>4. \A p \in 1 .. Len(code[f]) + 1 : /\ IsSeq(snap[f][p].ctrl) /\ Len(snap[f][p].ctrl) \in Nat
                                       /\ snap[f][p].skip \in Int /\ snap[f][p].skip >= -1
  BY <1>3, SeqIs DEF SnapShape
<1>5. ASSUME NEW p \in 1 .. Len(code[f])
      PROVE  Accepted(f, code[f], snap[f], p) /\ After(snap[f][p], code[f][p], p, snap[f][p + 1])
  <2>1. Accepted(f, code[f], snap[f], p) BY <1>0 DEF BodyOK
  <2>2. p \in 1 .. Len(code[f]) + 1 BY <1>1
  <2>3. After(snap[f][p], code[f][p], p, NextSnap(f, snap[f][p], code[f][p], p))
    BY <1>3, <2>2, NextIs
  <2> QED BY <2>1, <2>3 DEF Accepted
<1> QED BY <1>1, <1>2, <1>4, <1>5

\* An instruction that is executed was validated as live code.
LEMMA RunsIs ==
  ASSUME ProgInv, NEW f \in Funcs, NEW p, At1(f, p)
  PROVE  /\ code[f][p] \in Instrs[f] /\ code[f][p] \in InstrType
         /\ snap[f][p].skip <= 0
         /\ code[f][p].op # "end" =>
              snap[f][p].skip = -1 /\ ValidLive(f, snap[f][p], code[f][p])
<1>1. p \in 1 .. Len(code[f]) /\ Reach(f, p) BY DEF At1
<1>2. Accepted(f, code[f], snap[f], p) BY <1>1, BodyIs
<1>3. code[f][p] \in Instrs[f] BY <1>2 DEF Accepted
<1>4. code[f][p] \in InstrType BY <1>3, InstrsAssumption
<1>5. snap[f][p].skip <= 0 BY <1>1 DEF Reach
<1>6. code[f][p].op # "end" => snap[f][p].skip = -1 BY <1>1 DEF Reach
<1>7. snap[f][p].skip = -1 => ~(snap[f][p].skip >= 0) OBVIOUS
<1> QED BY <1>2, <1>3, <1>4, <1>5, <1>6, <1>7 DEF Accepted

\* A level of the control stack: the block it stands for.
LEMMA LevelIs ==
  ASSUME ProgInv, NEW f \in Funcs, NEW p \in 1 .. Len(code[f]), NEW k \in 1 .. Len(snap[f][p].ctrl)
  PROVE  LET c == snap[f][p].ctrl[k] b == c.blk IN
         /\ b \in 1 .. p - 1 /\ Opens(code[f], snap[f], b) /\ c = Entry(code[f], snap[f], b)
         /\ snap[f][b].ctrl = SubSeq(snap[f][p].ctrl, 1, k - 1)
         /\ snap[f][b + 1].ctrl = SubSeq(snap[f][p].ctrl, 1, k) /\ snap[f][b + 1].skip = -1
<1> DEFINE C == snap[f][p].ctrl
<1>0. BodyOK(f, code[f], snap[f], end_idx[f]) BY DEF ProgInv
<1>1. /\ Len(code[f]) \in Nat /\ p \in 1 .. Len(code[f]) + 1 /\ IsSeq(C) /\ Len(C) \in Nat
  <2>1. Len(code[f]) \in Nat BY BodyIs
  <2>2. p \in 1 .. Len(code[f]) + 1 BY <2>1
  <2> QED BY <2>1, <2>2, BodyIs
<1>2. BlockAt(code[f], snap[f], p, k) BY <1>0, <1>1 DEF BodyOK, BodyBlocks
<1>3. PICK b \in 1 .. p - 1 : /\ C[k] = Entry(code[f], snap[f], b) /\ Opens(code[f], snap[f], b)
                              /\ snap[f][b].ctrl = SubSeq(C, 1, k - 1)
  BY <1>2 DEF BlockAt
<1>4. C[k].blk = b BY <1>3 DEF Entry
<1>5. b \in 1 .. Len(code[f]) BY <1>1
<1>6. After(snap[f][b], code[f][b], b, snap[f][b + 1]) BY <1>5, BodyIs
<1>7. snap[f][b + 1].ctrl = Append(snap[f][b].ctrl, Entry(code[f], snap[f], b)) /\ snap[f][b + 1].skip = -1
  BY <1>3, <1>6 DEF After, Opens, Entry
<1> HIDE DEF C
<1>8. Append(SubSeq(C, 1, k - 1), C[k]) = SubSeq(C, 1, k)
  BY <1>1, SeqGrow DEF C
<1> QED BY <1>3, <1>4, <1>7, <1>8 DEF C

\* Once the program is built every block is closed.
LEMMA EndIs ==
  ASSUME ProgInv, built, NEW f \in Funcs, NEW b \in 1 .. Len(code[f]), Opens(code[f], snap[f], b)
  PROVE  LET e == end_idx[f][b] IN
         /\ e \in b + 1 .. Len(code[f]) /\ At1(f, e) /\ code[f][e].op = "end"
         /\ snap[f][e].ctrl = snap[f][b + 1].ctrl
<1> DEFINE e == end_idx[f][b]
<1>0. /\ BodyOK(f, code[f], snap[f], end_idx[f]) /\ snap[f][Len(snap[f])].closed
      /\ Len(code[f]) \in Nat /\ Len(snap[f]) = Len(code[f]) + 1
  BY BodyIs DEF ProgInv
<1>1. snap[f][Len(code[f]) + 1].ctrl = <<>>
  <2>1. Len(code[f]) + 1 \in 1 .. Len(code[f]) + 1 BY <1>0
  <2> QED BY <2>1, <1>0 DEF BodyOK, BodySnaps
<1>2. ~HasOpen(snap[f], b, snap[f][Len(code[f]) + 1])
  <2>1. b \in 1 .. Len(code[f]) + 1 BY <1>0
  <2>2. Len(snap[f][b].ctrl) \in Nat BY <2>1, BodyIs
  <2> QED BY <2>2, <1>1, SeqEmpty DEF HasOpen
<1>3. Closes(code[f], snap[f], b, e) BY <1>0, <1>2 DEF BodyOK, BodyEnds
<1>4. e \in b + 1 .. Len(code[f]) /\ e \in 1 .. Len(code[f]) /\ e \in 1 .. Len(code[f]) + 1
  BY <1>3, <1>0 DEF Closes
<1>5. snap[f][e].skip \in Int /\ snap[f][e].skip >= -1 /\ snap[f][e].skip <= 0
  BY <1>3, <1>4, BodyIs DEF Closes
<1>6. At1(f, e) BY <1>3, <1>4, <1>5 DEF At1, Reach, Closes
<1> QED BY <1>3, <1>4, <1>6 DEF Closes

\* Where a branch to level k lands: at a position that is executed, with
\* exactly the k outermost blocks open.
LEMMA TargetIs ==
  ASSUME ProgInv, built, NEW f \in Funcs, NEW p \in 1 .. Len(code[f]), NEW k \in 1 .. Len(snap[f][p].ctrl)
  PROVE  LET t == LabelPc(f, snap[f][p], k) IN
         At1(f, t) /\ snap[f][t].ctrl = SubSeq(snap[f][p].ctrl, 1, k)
<1> DEFINE s == snap[f][p]
           b == s.ctrl[k].blk
           t == LabelPc(f, s, k)
<1>0. Len(code[f]) \in Nat /\ Len(s.ctrl) \in Nat
  <2>1. Len(code[f]) \in Nat BY BodyIs
  <2>2. p \in 1 .. Len(code[f]) + 1 BY <2>1
  <2> QED BY <2>1, <2>2, BodyIs
<1>1. /\ b \in 1 .. p - 1 /\ Opens(code[f], snap[f], b) /\ s.ctrl[k] = Entry(code[f], snap[f], b)
      /\ snap[f][b + 1].ctrl = SubSeq(s.ctrl, 1, k) /\ snap[f][b + 1].skip = -1
  BY LevelIs
<1>2. k # 0 BY <1>0
<1>3. CASE s.ctrl[k].op = "loop"
  <2>1. t = b + 1 BY <1>2, <1>3 DEF LabelPc
  <2>2. \A x \in 1 .. p - 1 : x + 1 \in 1 .. Len(code[f]) BY <1>0
  <2>3. b + 1 \in 1 .. Len(code[f]) BY <1>1, <2>2
  <2> QED BY <2>1, <2>3, <1>1 DEF At1, Reach
<1>4. CASE s.ctrl[k].op # "loop"
  <2>1. t = end_idx[f][b]
    <3> HIDE DEF s
    <3> QED BY <1>2, <1>4 DEF LabelPc
  <2>2. b \in 1 .. Len(code[f])
    <3>1. b \in 1 .. p - 1 BY <1>1
    <3>2. \A x \in Nat : \A y \in 1 .. x : \A z \in 1 .. y - 1 : z \in 1 .. x OBVIOUS
    <3> HIDE DEF b
    <3> QED BY <1>0, <3>1, <3>2
  <2>3. At1(f, end_idx[f][b]) /\ snap[f][end_idx[f][b]].ctrl = snap[f][b + 1].ctrl BY <2>2, <1>1, EndIs
  <2> QED BY <2>1, <2>3, <1>1
<1> QED BY <1>3, <1>4

\* Execution that falls through: behind an instruction that is neither an end
\* nor a terminator the code goes on, live.
LEMMA NextIn ==
  ASSUME ProgInv, built, NEW f \in Funcs, NEW p, At1(f, p),
         code[f][p].op \notin Terminators \cup {"end"}
  PROVE  /\ At1(f, p + 1)
         /\ code[f][p].op \notin Openers => snap[f][p + 1].ctrl = snap[f][p].ctrl
         /\ code[f][p].op \in Openers =>
              snap[f][p + 1].ctrl = Append(snap[f][p].ctrl, Entry(code[f], snap[f], p))
<1>0. /\ Len(code[f]) \in Nat /\ p \in 1 .. Len(code[f]) /\ snap[f][p].skip = -1
      /\ snap[f][Len(code[f]) + 1].closed
  BY BodyIs, RunsIs DEF ProgInv, At1
<1>1. After(snap[f][p], code[f][p], p, snap[f][p + 1]) /\ ~snap[f][p].closed
  BY <1>0, BodyIs DEF Accepted
<1>2. /\ ~snap[f][p + 1].closed /\ snap[f][p + 1].skip = -1
      /\ code[f][p].op \notin Openers => snap[f][p + 1].ctrl = snap[f][p].ctrl
      /\ code[f][p].op \in Openers =>
           snap[f][p + 1].ctrl = Append(snap[f][p].ctrl, Entry(code[f], snap[f], p))
  BY <1>0, <1>1 DEF After, Entry
<1>3. p # Len(code[f]) BY <1>0, <1>2
<1>4. p + 1 \in 1 .. Len(code[f]) BY <1>0, <1>3
<1> QED BY <1>2, <1>4 DEF At1, Reach

\* Behind an end one block less is open, or the body is over.
LEMMA EndNext ==
  ASSUME ProgInv, built, NEW f \in Funcs, NEW p, At1(f, p), code[f][p].op = "end"
  PROVE  /\ Len(snap[f][p].ctrl) = 0 => p = Len(code[f])
         /\ Len(snap[f][p].ctrl) # 0 =>
              /\ At1(f, p + 1)
              /\ snap[f][p + 1].ctrl = SubSeq(snap[f][p].ctrl, 1, Len(snap[f][p].ctrl) - 1)
<1>0. /\ Len(code[f]) \in Nat /\ p \in 1 .. Len(code[f]) /\ snap[f][p].skip <= 0
      /\ snap[f][Len(code[f]) + 1].closed
  BY BodyIs, RunsIs DEF ProgInv, At1
<1>1. p \in 1 .. Len(code[f]) + 1 BY <1>0
<1>2. IsSeq(snap[f][p].ctrl) BY <1>1, BodyIs
<1>3. After(snap[f][p], code[f][p], p, snap[f][p + 1]) /\ ~snap[f][p].closed
  BY <1>0, BodyIs DEF Accepted
<1>4. Len(snap[f][p].ctrl) = 0 => p = Len(code[f])
  <2> SUFFICES ASSUME Len(snap[f][p].ctrl) = 0, p # Len(code[f]) PROVE FALSE OBVIOUS
  <2>1. snap[f][p].ctrl = <<>> BY <1>2, SeqEmpty
  <2>2. snap[f][p + 1].closed BY <2>1, <1>0, <1>3 DEF After
  <2>3. p + 1 \in 1 .. Len(code[f]) BY <1>0
  <2>4. ~snap[f][p + 1].closed BY <2>3, BodyIs DEF Accepted
  <2> QED BY <2>2, <2>4
<1>5. ASSUME Len(snap[f][p].ctrl) # 0
      PROVE  /\ At1(f, p + 1)
             /\ snap[f][p + 1].ctrl = SubSeq(snap[f][p].ctrl, 1, Len(snap[f][p].ctrl) - 1)
  <2>1. snap[f][p].ctrl # <<>> BY <1>5, SeqEmpty
  <2>2. /\ snap[f][p + 1].ctrl = SubSeq(snap[f][p].ctrl, 1, Len(snap[f][p].ctrl) - 1)
        /\ snap[f][p + 1].skip = -1 /\ snap[f][p + 1].closed = snap[f][p].closed
    BY <2>1, <1>0, <1>3 DEF After, DropN
  <2>3. p # Len(code[f]) BY <2>2, <1>0, <1>3
  <2>4. p + 1 \in 1 .. Len(code[f]) BY <1>0, <2>3
  <2> QED BY <2>2, <2>4 DEF At1, Reach
<1> QED BY <1>4, <1>5

----------------------------------------------------------------------------
(* The handler stack between invokes.                                      *)

\* The handler stack is cut back to eh_base at the boundary, so it is empty
\* between invokes only if eh_base is 0, and eh_base is read from the handler
\* stack when an invoke starts: the two facts carry each other.
HandlerInv == eh_base = 0 /\ NoHandlersAtIdle

\* Cutting a handler stack back to 0 leaves none.
LEMMA CutBack == ASSUME NEW e PROVE SubSeq(e, 1, 0) = <<>>
  OBVIOUS

\* A trap ends the invoke and cuts the handlers back to eh_base.
LEMMA TrapInv == HandlerInv /\ Trap => HandlerInv'
  BY CutBack DEF HandlerInv, NoHandlersAtIdle, Trap

\* A crash ends the program: there is no later invoke to find handlers.
LEMMA CrashInv == HandlerInv /\ Crash => HandlerInv'
  BY DEF HandlerInv, NoHandlersAtIdle, Crash

\* An exception no frame of this activation catches goes on to the caller, or
\* ends the invoke at the boundary, where the handlers are cut back.
LEMMA PropagateInv ==
  ASSUME NEW st, NEW e, HandlerInv, Propagate(st, e) PROVE HandlerInv'
  BY CutBack DEF HandlerInv, NoHandlersAtIdle, Propagate

\* Results handed to C code: to an interpreter frame, or to the boundary.
LEMMA DeliverToCInv ==
  ASSUME NEW st, NEW e, HandlerInv, DeliverToC(st, e) PROVE HandlerInv'
  BY CutBack DEF HandlerInv, NoHandlersAtIdle, DeliverToC

\* Results handed to a JIT caller leave mode and handler base alone.
LEMMA DeliverToJitInv ==
  ASSUME NEW vs, NEW st, NEW e, HandlerInv, DeliverToJit(vs, st, e)
  PROVE HandlerInv'
  BY DEF HandlerInv, NoHandlersAtIdle, DeliverToJit

\* Entering an interpreter frame runs on or traps at max_depth.
LEMMA EnterInterpInv ==
  ASSUME NEW fs, NEW st, NEW f, NEW dep, mode = "run", HandlerInv,
         EnterInterp(fs, st, f, dep)
  PROVE HandlerInv'
  BY TrapInv DEF HandlerInv, NoHandlersAtIdle, EnterInterp

\* Entering a JIT frame runs on or traps in the stack probe.
LEMMA EnterJitInv ==
  ASSUME NEW fs, NEW st, NEW f, NEW dep, NEW e, mode = "run", HandlerInv,
         EnterJit(fs, st, f, dep, e)
  PROVE HandlerInv'
  BY TrapInv DEF HandlerInv, NoHandlersAtIdle, EnterJit

\* eh_unwind lands in the frame, crashes on a garbage ctl[0] or propagates.
LEMMA UnwindInv ==
  ASSUME NEW FF, NEW st, NEW t, NEW skip, HandlerInv, eh_unwind(FF, st, t, skip)
  PROVE HandlerInv'
<1>1. CASE Handlers(FF, t) # {}
  BY <1>1 DEF HandlerInv, NoHandlersAtIdle, eh_unwind
<1>2. CASE ~(Handlers(FF, t) # {}) /\ FF.ctl[1].is_try
  BY <1>2, CrashInv DEF eh_unwind
<1>3. CASE ~(Handlers(FF, t) # {}) /\ ~FF.ctl[1].is_try
  BY <1>3, PropagateInv DEF eh_unwind
<1> QED BY <1>1, <1>2, <1>3

\* eh_dispatch lands in the frame, crashes or propagates.
LEMMA DispatchInv ==
  ASSUME NEW t, HandlerInv, eh_dispatch(t) PROVE HandlerInv'
<1>1. CASE MatchingEntries(t) # {}
  <2>1. Crash \/ (mode' = "run" /\ eh_base' = eh_base)
    BY <1>1 DEF eh_dispatch
  <2> QED BY <2>1, CrashInv DEF HandlerInv, NoHandlersAtIdle
<1>2. CASE ~(MatchingEntries(t) # {})
  BY <1>2, PropagateInv DEF eh_dispatch
<1> QED BY <1>1, <1>2

\* An instruction that stays in its frame keeps the invariant.
LEMMA RunInv ==
  ASSUME HandlerInv, mode = "run", UNCHANGED <<mode, eh_base>> PROVE HandlerInv'
  BY DEF HandlerInv, NoHandlersAtIdle

\* Every step of an interpreter frame keeps the invariant.
LEMMA InterpInv == ASSUME HandlerInv, InterpNext PROVE HandlerInv'
<1>1. CASE IOpen BY <1>1, RunInv DEF IOpen, Executes, Running
<1>2. CASE IEnd BY <1>2, RunInv DEF IEnd, Executes, Running
<1>3. CASE IBr BY <1>3, RunInv DEF IBr, Executes, Running
<1>4. CASE ISimple BY <1>4, RunInv DEF ISimple, Executes, Running
<1>5. CASE ITrap BY <1>5, RunInv, TrapInv DEF ITrap, Executes, Running
<1>6. CASE IDone BY <1>6, DeliverToJitInv, DeliverToCInv DEF IDone
<1>7. CASE ICall BY <1>7, EnterJitInv, EnterInterpInv DEF ICall, Executes, Running
<1>8. CASE IReturnCall
  BY <1>8, EnterJitInv, RunInv DEF IReturnCall, Executes, Running
<1>9. CASE IThrow BY <1>9, UnwindInv DEF IThrow
<1>10. CASE IThrowRef BY <1>10, UnwindInv, CrashInv DEF IThrowRef
<1>11. CASE ICallFailed BY <1>11, UnwindInv DEF ICallFailed
<1> QED BY <1>1, <1>2, <1>3, <1>4, <1>5, <1>6, <1>7, <1>8, <1>9, <1>10, <1>11
        DEF InterpNext

\* Every step of generated code keeps the invariant.
LEMMA JitInv == ASSUME HandlerInv, JitNext PROVE HandlerInv'
<1>1. CASE JOpen BY <1>1, RunInv DEF JOpen, Executes, Running
<1>2. CASE JEnd BY <1>2, RunInv DEF JEnd, Executes, Running
<1>3. CASE JBr BY <1>3, RunInv DEF JBr, Executes, Running
<1>4. CASE JSimple BY <1>4, RunInv DEF JSimple, Executes, Running
<1>5. CASE JTrap BY <1>5, RunInv, TrapInv DEF JTrap, Executes, Running
<1>6. CASE JDone
  <2>1. ASSUME NEW e, NEW one, JReturnWith(e, one) PROVE HandlerInv'
    <3>1. \/ \E vs : DeliverToJit(vs, stack, e)
          \/ \E st : DeliverToC(st, e)
          \/ mode' = "exn" /\ UNCHANGED eh_base
      BY <2>1 DEF JReturnWith
    <3> QED BY <3>1, DeliverToJitInv, DeliverToCInv DEF HandlerInv, NoHandlersAtIdle
  <2> QED BY <1>6, <2>1 DEF JDone
<1>7. CASE JCall BY <1>7, EnterJitInv, EnterInterpInv DEF JCall, Executes, Running
<1>8. CASE JReturnCall
  BY <1>8, EnterJitInv, TrapInv, RunInv DEF JReturnCall, Executes, Running
<1>9. CASE JThrow BY <1>9, DispatchInv, RunInv DEF JThrow, Executes, Running
<1>10. CASE JThrowRef BY <1>10, DispatchInv, CrashInv DEF JThrowRef
<1>11. CASE JResume
  <2>1. CASE pending # NoExn BY <1>11, <2>1, DispatchInv DEF JResume
  <2>2. CASE pending = NoExn /\ CallerIsJit
    BY <1>11, <2>2 DEF JResume, HandlerInv, NoHandlersAtIdle
  <2>3. CASE pending = NoExn /\ ~CallerIsJit
    BY <1>11, <2>3, DeliverToCInv DEF JResume
  <2> QED BY <2>1, <2>2, <2>3
<1> QED BY <1>1, <1>2, <1>3, <1>4, <1>5, <1>6, <1>7, <1>8, <1>9, <1>10, <1>11
        DEF JitNext

\* An invoke that starts reads 0 as its handler base.
LEMMA InvokeInv == ASSUME NEW f, HandlerInv, Invoke(f) PROVE HandlerInv'
<1>1. eh_base' = 0
  BY DEF Invoke, HandlerInv, NoHandlersAtIdle
<1> QED BY <1>1 DEF Invoke, HandlerInv, NoHandlersAtIdle

\* Every step of the specification keeps the invariant.
LEMMA HandlerStep == HandlerInv /\ [Next]_vars => HandlerInv'
<1> SUFFICES ASSUME HandlerInv, [Next]_vars PROVE HandlerInv'
  OBVIOUS
<1>1. CASE UNCHANGED <<mode, eh, eh_base>>
  BY <1>1 DEF HandlerInv, NoHandlersAtIdle
<1>2. CASE InterpNext BY <1>2, InterpInv
<1>3. CASE JitNext BY <1>3, JitInv
<1>4. CASE Invoke(1) BY <1>4, InvokeInv
<1> QED BY <1>1, <1>2, <1>3, <1>4 DEF Next, Step, Finished, execvars, vars

\* Between invokes the handler stack ex->eh is empty, for every program and
\* every set of compiled functions: a trap or an uncaught exception may skip
\* any number of generated pops, and ea_instance_invoke still repairs it.
THEOREM HandlersEmptyAtIdle == Spec => []NoHandlersAtIdle
<1>1. Init => HandlerInv
  BY DEF Init, HandlerInv, NoHandlersAtIdle
<1>2. HandlerInv => NoHandlersAtIdle
  BY DEF HandlerInv
<1> QED BY <1>1, <1>2, HandlerStep, PTL DEF Spec

----------------------------------------------------------------------------
(* Frames.                                                                 *)

FrameFields == {"k", "fn", "pc", "base", "sp", "ctl", "ops", "dep", "as"}

\* the run-time control stack of F is the block nesting at its pc
CtlOK(F) ==
  LET s == snap[F.fn][F.pc] IN
  /\ IsSeq(F.ctl) /\ Len(F.ctl) = Len(s.ctrl) + 1 /\ F.ctl[1].blk = 0
  /\ \A k \in 1 .. Len(s.ctrl) :
       F.ctl[k + 1].blk = s.ctrl[k].blk /\ F.ctl[k + 1].h = HOff(F) + s.ctrl[k].h

InBody(F) == F.pc <= Len(code[F.fn])

FrameOK(F) ==
  /\ DOMAIN F = FrameFields /\ F.k \in {"interp", "jit"} /\ F.fn \in Funcs /\ F.pc \in Nat \ {0}
  /\ F.k = "jit" => jit[F.fn]
  /\ InBody(F) => Reach(F.fn, F.pc) /\ (F.k = "interp" => CtlOK(F))

\* F waits for a callee
AtCall(F) ==
  /\ InBody(F)
  /\ code[F.fn][F.pc].op \in IF F.k = "jit" THEN {"call"} ELSE {"call", "call_ref", "return_call"}

\* every frame is in shape, and all but the top one, or all, wait for a callee
FramesOK(fs, all) ==
  /\ IsSeq(fs)
  /\ \A i \in 1 .. Len(fs) : FrameOK(fs[i]) /\ (i < Len(fs) \/ all => AtCall(fs[i]))

\* a handler entry names a try_table of a compiled function
HandlerOK(h) ==
  h.fn \in Funcs /\ jit[h.fn] /\ At1(h.fn, h.blk) /\ code[h.fn][h.blk].op = "try_table"
HandlersOK(e) == IsSeq(e) /\ \A j \in 1 .. Len(e) : HandlerOK(e[j])

Good(fs, m, e) ==
  /\ FramesOK(fs, m = "exn") /\ HandlersOK(e)
  /\ m \in {"idle", "run", "exn", "crash"} /\ (m \in {"run", "exn"} => fs # <<>>)

ExecInv ==
  /\ ProgInv /\ HandlerInv /\ Good(frames, mode, eh)
  /\ ~built => frames = <<>> /\ eh = <<>>

\* The frames stay good while the program stays.
LEMMA GoodSame ==
  ASSUME UNCHANGED progvars, Good(frames', mode', eh') PROVE Good(frames, mode, eh)'
<1>1. \A F : FrameOK(F) => FrameOK(F)'
  BY DEF FrameOK, InBody, CtlOK, HOff, Reach, progvars
<1>2. \A F : AtCall(F) => AtCall(F)'
  BY DEF AtCall, InBody, progvars
<1>3. \A h : HandlerOK(h) => HandlerOK(h)'
  BY DEF HandlerOK, At1, Reach, progvars
<1>4. FramesOK(frames', mode' = "exn") /\ HandlersOK(eh') BY DEF Good
<1>5. FramesOK(frames, mode = "exn")' BY <1>1, <1>2, <1>4 DEF FramesOK
<1>6. HandlersOK(eh)' BY <1>3, <1>4 DEF HandlersOK
<1> QED BY <1>5, <1>6 DEF Good

\* A sequence of frames has a top one unless it is empty.
LEMMA NonEmpty == ASSUME NEW s, IsSeq(s) PROVE s # <<>> <=> Len(s) \in Nat /\ Len(s) \in 1 .. Len(s)
<1>1. Len(s) \in Nat BY SeqIs
<1>2. Len(s) = 0 => s = <<>> BY SeqEmpty
<1>3. s = <<>> => Len(s) = 0 BY SeqEmpty
<1> QED BY <1>1, <1>2, <1>3

\* The top frame moves within its function.
LEMMA TopGood ==
  ASSUME NEW fs, NEW b, FramesOK(fs, b), fs # <<>>, NEW F, FrameOK(F)
  PROVE  LET gs == [fs EXCEPT ![Len(fs)] = F] IN
         FramesOK(gs, FALSE) /\ gs # <<>> /\ (AtCall(F) => FramesOK(gs, TRUE))
<1> DEFINE gs == [fs EXCEPT ![Len(fs)] = F]
<1>1. IsSeq(fs) /\ Len(fs) \in Nat /\ Len(fs) \in 1 .. Len(fs) BY NonEmpty DEF FramesOK
<1>2. /\ IsSeq(gs) /\ Len(gs) = Len(fs)
      /\ \A i \in 1 .. Len(fs) : gs[i] = IF i = Len(fs) THEN F ELSE fs[i]
  BY <1>1, SeqExcept
<1> HIDE DEF gs
<1>3. ASSUME NEW i \in 1 .. Len(fs)
      PROVE  FrameOK(gs[i]) /\ (i < Len(fs) => AtCall(gs[i])) /\ (AtCall(F) => AtCall(gs[i]))
  <2>1. CASE i = Len(fs) BY <2>1, <1>1, <1>2
  <2>2. CASE i # Len(fs)
    <3>1. i < Len(fs) BY <2>2, <1>1
    <3>2. gs[i] = fs[i] BY <2>2, <1>2
    <3> QED BY <3>1, <3>2 DEF FramesOK
  <2> QED BY <2>1, <2>2
<1>4. gs # <<>> BY <1>1, <1>2, NonEmpty
<1> QED BY <1>2, <1>3, <1>4 DEF FramesOK, gs

\* The top frame is gone.
LEMMA FrontGood ==
  ASSUME NEW fs, NEW b, FramesOK(fs, b), fs # <<>>
  PROVE  FramesOK(DropN(fs, 1), TRUE)
<1> DEFINE gs == SubSeq(fs, 1, Len(fs) - 1)
<1>1. IsSeq(fs) /\ Len(fs) \in Nat /\ Len(fs) \in 1 .. Len(fs) BY NonEmpty DEF FramesOK
<1>2. Len(fs) - 1 \in 0 .. Len(fs) BY <1>1
<1>3. IsSeq(gs) /\ Len(gs) = Len(fs) - 1 /\ \A i \in 1 .. Len(fs) - 1 : gs[i] = fs[i]
  BY <1>1, <1>2, SeqCut
<1> HIDE DEF gs
<1>4. ASSUME NEW i \in 1 .. Len(fs) - 1 PROVE FrameOK(gs[i]) /\ AtCall(gs[i])
  <2>1. i \in 1 .. Len(fs) /\ i < Len(fs) BY <1>1
  <2>2. gs[i] = fs[i] BY <1>3
  <2> QED BY <2>1, <2>2 DEF FramesOK
<1>5. FramesOK(gs, TRUE) BY <1>3, <1>4 DEF FramesOK
<1> QED BY <1>5 DEF gs, DropN

\* A callee's frame is put on top.
LEMMA PushGood ==
  ASSUME NEW fs, FramesOK(fs, TRUE), NEW F, FrameOK(F)
  PROVE  FramesOK(Append(fs, F), FALSE) /\ Append(fs, F) # <<>>
<1> DEFINE gs == Append(fs, F)
<1>1. IsSeq(fs) /\ Len(fs) \in Nat BY SeqIs DEF FramesOK
<1>2. /\ IsSeq(gs) /\ Len(gs) = Len(fs) + 1 /\ (\A i \in 1 .. Len(fs) : gs[i] = fs[i])
      /\ gs[Len(fs) + 1] = F
  BY <1>1, SeqAppend
<1> HIDE DEF gs
<1>3. ASSUME NEW i \in 1 .. Len(fs) + 1 PROVE FrameOK(gs[i]) /\ (i < Len(fs) + 1 => AtCall(gs[i]))
  <2>1. CASE i = Len(fs) + 1 BY <2>1, <1>1, <1>2
  <2>2. CASE i \in 1 .. Len(fs) BY <2>2, <1>1, <1>2 DEF FramesOK
  <2> QED BY <2>1, <2>2, <1>1
<1>4. gs # <<>> BY <1>1, <1>2, NonEmpty
<1> QED BY <1>2, <1>3, <1>4 DEF FramesOK, gs

\* No frames, no handlers.
LEMMA NoneGood == FramesOK(<<>>, TRUE) /\ FramesOK(<<>>, FALSE) /\ HandlersOK(<<>>)
  BY SeqEmpty DEF FramesOK, HandlersOK

\* Frames that all wait are in shape as well when the top one runs.
LEMMA LessGood == ASSUME NEW fs, FramesOK(fs, TRUE) PROVE FramesOK(fs, FALSE)
  BY DEF FramesOK

\* Handlers are pushed and popped.
LEMMA HandlersCut ==
  ASSUME NEW e, HandlersOK(e), NEW n \in 0 .. Len(e) PROVE HandlersOK(SubSeq(e, 1, n))
<1>1. IsSeq(e) /\ Len(e) \in Nat BY SeqIs DEF HandlersOK
<1>2. /\ IsSeq(SubSeq(e, 1, n)) /\ Len(SubSeq(e, 1, n)) = n
      /\ \A i \in 1 .. n : SubSeq(e, 1, n)[i] = e[i]
  BY <1>1, SeqCut
<1>3. \A i \in 1 .. n : i \in 1 .. Len(e) BY <1>1
<1> QED BY <1>2, <1>3 DEF HandlersOK

\* A try_table of the top frame is pushed on top.
LEMMA HandlersPush ==
  ASSUME NEW e, HandlersOK(e), NEW h, HandlerOK(h) PROVE HandlersOK(Append(e, h))
<1>1. IsSeq(e) /\ Len(e) \in Nat BY SeqIs DEF HandlersOK
<1>2. /\ IsSeq(Append(e, h)) /\ Len(Append(e, h)) = Len(e) + 1
      /\ (\A i \in 1 .. Len(e) : Append(e, h)[i] = e[i]) /\ Append(e, h)[Len(e) + 1] = h
  BY <1>1, SeqAppend
<1>3. ASSUME NEW i \in 1 .. Len(e) + 1 PROVE HandlerOK(Append(e, h)[i])
  <2>1. CASE i = Len(e) + 1 BY <2>1, <1>2
  <2>2. CASE i \in 1 .. Len(e) BY <2>2, <1>2 DEF HandlersOK
  <2> QED BY <2>1, <2>2, <1>1
<1> QED BY <1>2, <1>3 DEF HandlersOK

\* Popping entries leaves those below.
LEMMA HandlersPop ==
  ASSUME HandlersOK(eh), NEW n \in Nat PROVE HandlersOK(ea_jit_eh_popn(n))
<1>1. Len(eh) \in Nat BY SeqIs DEF HandlersOK
<1>2. CASE n > Len(eh) BY <1>2, NoneGood DEF ea_jit_eh_popn
<1>3. CASE ~(n > Len(eh))
  <2>1. Len(eh) - n \in 0 .. Len(eh) BY <1>1, <1>3
  <2> QED BY <1>3, <2>1, HandlersCut DEF ea_jit_eh_popn, DropN
<1> QED BY <1>2, <1>3

\* The number of handlers a branch pops.
LEMMA CrossingsNat ==
  ASSUME NEW s, Len(s.ctrl) \in Nat, NEW l \in Int PROVE eh_crossings(s, l) \in Nat
<1> DEFINE K == {k \in LabelLvl(s, l) + 1 .. Len(s.ctrl) : s.is_try[k]}
<1>1. IsFiniteSet(LabelLvl(s, l) + 1 .. Len(s.ctrl)) BY FS_Interval DEF LabelLvl
<1>2. IsFiniteSet(K) BY <1>1, FS_Subset
<1>3. Cardinality(K) \in Nat BY <1>2, FS_CardinalityType
<1> QED BY <1>3 DEF eh_crossings

----------------------------------------------------------------------------
(* Frames that move.                                                       *)

\* What a frame in shape says of its function.
LEMMA FrameIs ==
  ASSUME ProgInv, NEW F, FrameOK(F)
  PROVE  /\ F.fn \in Funcs /\ F.pc \in Nat /\ Len(code[F.fn]) \in Nat
         /\ InBody(F) => At1(F.fn, F.pc) /\ F.pc \in 1 .. Len(code[F.fn])
<1>1. F.fn \in Funcs /\ F.pc \in Nat /\ F.pc # 0 BY DEF FrameOK
<1>2. Len(code[F.fn]) \in Nat BY <1>1, BodyIs
<1>3. InBody(F) => F.pc \in 1 .. Len(code[F.fn]) BY <1>1, <1>2 DEF InBody
<1> QED BY <1>1, <1>2, <1>3 DEF FrameOK, At1

\* G is F at another pc, with other operands
Moved(F, G) == DOMAIN G = FrameFields /\ G.k = F.k /\ G.fn = F.fn /\ G.base = F.base

\* A frame goes on behind an instruction.
LEMMA Advanced ==
  ASSUME ProgInv, built, NEW F, FrameOK(F), InBody(F), NEW G, Moved(F, G),
         G.ctl = F.ctl, G.pc = F.pc + 1,
         code[F.fn][F.pc].op \notin Terminators \cup {"end"},
         F.k = "interp" => code[F.fn][F.pc].op \notin Openers
  PROVE  FrameOK(G)
<1>1. F.fn \in Funcs /\ F.pc \in Nat /\ At1(F.fn, F.pc) BY FrameIs
<1>2. At1(F.fn, F.pc + 1) BY <1>1, NextIn
<1>3. F.k = "interp" => snap[F.fn][F.pc + 1].ctrl = snap[F.fn][F.pc].ctrl BY <1>1, NextIn
<1>4. HOff(G) = HOff(F) BY DEF HOff, Moved
<1>5. F.k = "interp" => CtlOK(G)
  <2>1. F.k = "interp" => CtlOK(F) BY DEF FrameOK
  <2> QED BY <2>1, <1>3, <1>4 DEF CtlOK, Moved
<1> QED BY <1>1, <1>2, <1>5 DEF FrameOK, Moved, At1

\* A frame that is done.
LEMMA Finishing ==
  ASSUME ProgInv, NEW F, FrameOK(F), NEW G, Moved(F, G), G.pc = Len(code[F.fn]) + 1
  PROVE  FrameOK(G)
<1>1. F.fn \in Funcs /\ Len(code[F.fn]) \in Nat BY FrameIs
<1> QED BY <1>1 DEF FrameOK, Moved, InBody

\* A compiled frame jumps.
LEMMA Landed ==
  ASSUME ProgInv, built, NEW F, FrameOK(F), F.k = "jit", NEW G, DOMAIN G = FrameFields, G.k = "jit",
         G.fn \in Funcs, jit[G.fn], NEW p \in 1 .. Len(code[G.fn]),
         NEW m \in 0 .. Len(snap[G.fn][p].ctrl), G.pc = LabelPc(G.fn, snap[G.fn][p], m)
  PROVE  FrameOK(G)
<1>1. Len(code[G.fn]) \in Nat BY BodyIs
<1>2. CASE m = 0
  <2>1. G.pc = Len(code[G.fn]) + 1 BY <1>2 DEF LabelPc
  <2> QED BY <2>1, <1>1 DEF FrameOK, InBody
<1>3. CASE m # 0
  <2>0. Len(snap[G.fn][p].ctrl) \in Nat
    <3>1. p \in 1 .. Len(code[G.fn]) + 1 BY <1>1
    <3> QED BY <3>1, BodyIs
  <2>1. m \in 1 .. Len(snap[G.fn][p].ctrl) BY <1>3, <2>0
  <2>2. At1(G.fn, G.pc) BY <2>1, TargetIs
  <2> QED BY <2>2, <1>1 DEF FrameOK, At1, InBody
<1> QED BY <1>2, <1>3

\* The control stack is cut to its m outermost entries when the frame jumps to
\* the label of the m-th.
LEMMA JumpOK ==
  ASSUME ProgInv, built, NEW F, FrameOK(F), F.k = "interp", InBody(F), NEW m \in 1 .. Len(F.ctl),
         NEW G, Moved(F, G), G.ctl = SubSeq(F.ctl, 1, m), G.pc = CtlPc(F.fn, F.ctl[m])
  PROVE  FrameOK(G)
<1> DEFINE s == snap[F.fn][F.pc]
<1>1. F.fn \in Funcs /\ F.pc \in Nat /\ F.pc \in 1 .. Len(code[F.fn]) /\ CtlOK(F) /\ Len(code[F.fn]) \in Nat
  BY FrameIs DEF FrameOK
<1>2. IsSeq(s.ctrl) /\ Len(s.ctrl) \in Nat
  <2>1. F.pc \in 1 .. Len(code[F.fn]) + 1 BY <1>1
  <2> QED BY <1>1, <2>1, BodyIs
<1>3. IsSeq(F.ctl) /\ Len(F.ctl) = Len(s.ctrl) + 1 /\ F.ctl[1].blk = 0 BY <1>1 DEF CtlOK
<1>4. CASE m = 1
  <2>1. G.pc = Len(code[F.fn]) + 1 BY <1>3, <1>4 DEF CtlPc
  <2> QED BY <2>1, Finishing
<1>5. CASE m # 1
  <2> DEFINE k == m - 1
             b == s.ctrl[k].blk
             t == LabelPc(F.fn, s, k)
  <2>0. m \in 1 .. Len(s.ctrl) + 1 BY <1>3
  <2>1. k \in 1 .. Len(s.ctrl) /\ k + 1 = m /\ k \in Nat /\ k # 0 BY <1>2, <2>0, <1>5
  <2>2. F.ctl[m].blk = b BY <1>1, <2>1 DEF CtlOK
  <2>3. b \in 1 .. F.pc - 1 /\ s.ctrl[k] = Entry(code[F.fn], snap[F.fn], b) BY <1>1, <2>1, LevelIs
  <2>4. b # 0 BY <2>3, <1>1
  <2>5. code[F.fn][b].op = s.ctrl[k].op
    <3>1. s.ctrl[k] = Entry(code[F.fn], snap[F.fn], b) BY <2>3
    <3> HIDE DEF b
    <3> QED BY <3>1 DEF Entry
  <2>6. G.pc = t BY <2>1, <2>2, <2>4, <2>5 DEF CtlPc, LabelPc
  <2>7. At1(F.fn, t) /\ snap[F.fn][t].ctrl = SubSeq(s.ctrl, 1, k) BY <1>1, <2>1, TargetIs
  <2>8. k \in 0 .. Len(s.ctrl) BY <2>1
  <2>9. Len(SubSeq(s.ctrl, 1, k)) = k /\ \A j \in 1 .. k : SubSeq(s.ctrl, 1, k)[j] = s.ctrl[j]
    BY <1>2, <2>8, SeqCut
  <2>10. m \in 0 .. Len(F.ctl) BY <1>2, <1>3
  <2>11. IsSeq(G.ctl) /\ Len(G.ctl) = m /\ \A j \in 1 .. m : G.ctl[j] = F.ctl[j]
    BY <1>3, <2>10, SeqCut
  <2>12. HOff(G) = HOff(F) BY DEF HOff, Moved
  <2>13. CtlOK(G)
    <3>1. G.ctl[1].blk = 0
      <4>1. 1 \in 1 .. m BY <2>1
      <4> QED BY <4>1, <2>11, <1>3
    <3>2. ASSUME NEW j \in 1 .. k
          PROVE  G.ctl[j + 1].blk = s.ctrl[j].blk /\ G.ctl[j + 1].h = HOff(F) + s.ctrl[j].h
      <4>1. j \in 1 .. Len(s.ctrl) /\ j + 1 \in 1 .. m BY <2>1, <1>2
      <4> QED BY <4>1, <2>11, <1>1 DEF CtlOK
    <3>3. G.fn = F.fn BY DEF Moved
    <3> HIDE DEF k, t, s
    <3>4. snap[G.fn][G.pc].ctrl = SubSeq(s.ctrl, 1, k) BY <3>3, <2>6, <2>7
    <3> QED BY <3>1, <3>2, <3>4, <2>1, <2>9, <2>11, <2>12 DEF CtlOK
  <2>14. G.pc \in Nat \ {0} /\ Reach(G.fn, G.pc)
    <3>1. G.fn = F.fn BY DEF Moved
    <3>2. At1(F.fn, G.pc) BY <2>6, <2>7
    <3>3. \A x \in 1 .. Len(code[F.fn]) : x \in Nat \ {0} OBVIOUS
    <3> QED BY <3>1, <3>2, <3>3 DEF At1
  <2> QED BY <2>13, <2>14 DEF FrameOK, Moved
<1> QED BY <1>4, <1>5

----------------------------------------------------------------------------
(* Leaving and entering frames.                                            *)

Active == ExecInv /\ mode \in {"run", "exn"}
GoodNext == Good(frames', mode', eh')

\* What an active machine is.
LEMMA ActiveIs ==
  ASSUME Active
  PROVE  /\ ProgInv /\ built /\ frames # <<>> /\ Front = DropN(frames, 1)
         /\ FramesOK(frames, FALSE) /\ HandlersOK(eh) /\ eh_base = 0
         /\ FrameOK(Top) /\ (mode = "exn" => AtCall(Top)) /\ FramesOK(Front, TRUE)
         /\ Len(frames) \in Nat /\ Len(frames) \in 1 .. Len(frames)
<1>1. ProgInv /\ built /\ frames # <<>> /\ HandlersOK(eh) /\ eh_base = 0 /\ FramesOK(frames, mode = "exn")
  BY DEF Active, ExecInv, Good, HandlerInv
<1>2. Len(frames) \in Nat /\ Len(frames) \in 1 .. Len(frames) BY <1>1, NonEmpty DEF FramesOK
<1>3. FramesOK(frames, FALSE) BY <1>1 DEF FramesOK
<1>4. FrameOK(Top) /\ (mode = "exn" => AtCall(Top)) BY <1>1, <1>2 DEF FramesOK, Top
<1>5. FramesOK(Front, TRUE) BY <1>1, FrontGood DEF Front
<1> QED BY <1>1, <1>2, <1>3, <1>4, <1>5 DEF Front

\* A trap leaves no frames and no handlers.
LEMMA TrapGood == ASSUME Active, Trap PROVE GoodNext
<1>1. eh' = <<>> BY ActiveIs, CutBack DEF Trap
<1> QED BY <1>1, NoneGood DEF Trap, GoodNext, Good

\* A crash leaves everything as it is.
LEMMA CrashGood == ASSUME Active, Crash PROVE GoodNext
  BY ActiveIs DEF Crash, GoodNext, Good

\* An exception goes on to the caller.
LEMMA PropagateGood ==
  ASSUME Active, NEW st, NEW e, HandlersOK(e), Propagate(st, e) PROVE GoodNext
<1>1. CASE Front = <<>>
  <2>1. frames' = <<>> /\ mode' = "idle" /\ eh' = <<>> BY <1>1, ActiveIs, CutBack DEF Propagate
  <2> QED BY <2>1, NoneGood DEF GoodNext, Good
<1>2. CASE Front # <<>>
  <2>1. frames' = Front /\ mode' = "exn" /\ eh' = e BY <1>2 DEF Propagate
  <2> QED BY <1>2, <2>1, ActiveIs DEF GoodNext, Good
<1> QED BY <1>1, <1>2

\* Results go to a JIT call site.
LEMMA DeliverToJitGood ==
  ASSUME Active, NEW vs, NEW st, NEW e, HandlersOK(e), CallerIsJit, DeliverToJit(vs, st, e)
  PROVE  GoodNext
<1> DEFINE C == Front[Len(Front)]
           G == [C EXCEPT !.pc = @ + 1, !.ops = @ \o vs]
<1>1. Front # <<>> /\ C.k = "jit" /\ FramesOK(Front, TRUE) /\ ProgInv /\ built
  BY ActiveIs DEF CallerIsJit
<1>2. Len(Front) \in 1 .. Len(Front) BY <1>1, NonEmpty DEF FramesOK
<1>3. FrameOK(C) /\ AtCall(C) BY <1>1, <1>2 DEF FramesOK
<1>4. frames' = [Front EXCEPT ![Len(Front)] = G] /\ eh' = e /\ mode' = "run" BY DEF DeliverToJit
<1>5. /\ DOMAIN C = FrameFields BY <1>3 DEF FrameOK
<1> HIDE DEF C
<1>6. Moved(C, G) /\ G.ctl = C.ctl /\ G.pc = C.pc + 1 BY <1>5 DEF Moved, FrameFields
<1>7. InBody(C) /\ code[C.fn][C.pc].op \notin Terminators \cup {"end"} BY <1>1, <1>3 DEF AtCall, Terminators
<1> HIDE DEF G
<1>8. FrameOK(G) BY <1>1, <1>3, <1>6, <1>7, Advanced
<1>9. FramesOK(frames', FALSE) /\ frames' # <<>> BY <1>1, <1>4, <1>8, TopGood
<1> QED BY <1>4, <1>9 DEF GoodNext, Good

\* Results go to an interpreter frame or to the boundary.
LEMMA DeliverToCGood ==
  ASSUME Active, NEW st, NEW e, HandlersOK(e), DeliverToC(st, e) PROVE GoodNext
<1>1. CASE Front = <<>>
  <2>1. frames' = <<>> /\ mode' = "idle" /\ eh' = <<>> BY <1>1, ActiveIs, CutBack DEF DeliverToC
  <2> QED BY <2>1, NoneGood DEF GoodNext, Good
<1>2. CASE Front # <<>>
  <2> DEFINE C == Front[Len(Front)]
             A == [C EXCEPT !.pc = Len(code[C.fn]) + 1, !.as = ActOf(Top)]
             B == [C EXCEPT !.pc = @ + 1]
  <2>1. FramesOK(Front, TRUE) /\ ProgInv /\ built BY ActiveIs
  <2>2. Len(Front) \in 1 .. Len(Front) BY <1>2, <2>1, NonEmpty DEF FramesOK
  <2>3. FrameOK(C) /\ AtCall(C) BY <2>1, <2>2 DEF FramesOK
  <2>4. /\ frames' = [Front EXCEPT ![Len(Front)] = IF code[C.fn][C.pc].op = "return_call" THEN A ELSE B]
        /\ eh' = e /\ mode' = "run"
    BY <1>2 DEF DeliverToC
  <2>5. DOMAIN C = FrameFields BY <2>3 DEF FrameOK
  <2> HIDE DEF C
  <2>6. Moved(C, A) /\ A.pc = Len(code[C.fn]) + 1 BY <2>5 DEF Moved, FrameFields
  <2>7. Moved(C, B) /\ B.ctl = C.ctl /\ B.pc = C.pc + 1 BY <2>5 DEF Moved, FrameFields
  <2> HIDE DEF A, B
  <2>8. FrameOK(A) BY <2>1, <2>3, <2>6, Finishing
  <2>9. ASSUME code[C.fn][C.pc].op # "return_call" PROVE FrameOK(B)
    <3>1. code[C.fn][C.pc].op \in {"call", "call_ref"} /\ InBody(C) BY <2>3, <2>9 DEF AtCall
    <3>2. code[C.fn][C.pc].op \notin Terminators \cup {"end"} /\ code[C.fn][C.pc].op \notin Openers
      BY <3>1 DEF Terminators, Openers
    <3> QED BY <2>1, <2>3, <2>7, <3>1, <3>2, Advanced
  <2>10. FramesOK(frames', FALSE) /\ frames' # <<>>
    <3>1. CASE code[C.fn][C.pc].op = "return_call"
      <4>1. frames' = [Front EXCEPT ![Len(Front)] = A] BY <2>4, <3>1
      <4> QED BY <1>2, <2>1, <4>1, <2>8, TopGood
    <3>2. CASE code[C.fn][C.pc].op # "return_call"
      <4>1. frames' = [Front EXCEPT ![Len(Front)] = B] BY <2>4, <3>2
      <4>2. FrameOK(B) BY <2>9, <3>2
      <4> QED BY <1>2, <2>1, <4>1, <4>2, TopGood
    <3> QED BY <3>1, <3>2
  <2> QED BY <2>4, <2>10 DEF GoodNext, Good
<1> QED BY <1>1, <1>2

\* A new interpreter frame is in shape.
LEMMA InterpFrameOK ==
  ASSUME ProgInv, NEW f \in Funcs, NEW b, NEW d, NEW g PROVE FrameOK(InterpFrame(f, b, d, g))
<1> DEFINE F == InterpFrame(f, b, d, g)
<1>1. snap[f][1].ctrl = <<>> /\ snap[f][1].skip = -1 BY BodyIs DEF InitSnap
<1>2. DOMAIN F = FrameFields /\ F.k = "interp" /\ F.fn = f /\ F.pc = 1 /\ F.ctl = <<FuncCtl(f, b, g)>>
  BY DEF InterpFrame, FrameFields
<1>3. FuncCtl(f, b, g).blk = 0 BY DEF FuncCtl
<1> HIDE DEF F
<1>4. CtlOK(F) BY <1>1, <1>2, <1>3, SeqEmpty, SeqOne DEF CtlOK
<1>5. FrameOK(F) BY <1>1, <1>2, <1>4 DEF FrameOK, Reach
<1> QED BY <1>5 DEF F

\* A new frame of generated code is in shape.
LEMMA JitFrameOK ==
  ASSUME ProgInv, NEW f \in Funcs, jit[f], NEW d PROVE FrameOK(JitFrame(f, d))
<1> DEFINE F == JitFrame(f, d)
<1>1. snap[f][1].ctrl = <<>> /\ snap[f][1].skip = -1 BY BodyIs DEF InitSnap
<1>2. DOMAIN F = FrameFields /\ F.k = "jit" /\ F.fn = f /\ F.pc = 1 BY DEF JitFrame, FrameFields
<1> HIDE DEF F
<1>3. FrameOK(F) BY <1>1, <1>2 DEF FrameOK, Reach
<1> QED BY <1>3 DEF F

\* An interpreted callee.
LEMMA EnterInterpGood ==
  ASSUME Active, mode = "run", NEW fs, FramesOK(fs, TRUE), NEW st, NEW f \in Funcs, NEW dep,
         EnterInterp(fs, st, f, dep)
  PROVE  GoodNext
<1>1. CASE dep >= MaxDepth BY <1>1, TrapGood DEF EnterInterp
<1>2. CASE ~(dep >= MaxDepth)
  <2>1. PICK g \in Ctl0Garbage :
          /\ frames' = Append(fs, InterpFrame(f, Len(st) - NArgs(f), dep, g))
          /\ UNCHANGED <<mode, eh>>
    BY <1>2 DEF EnterInterp
  <2>2. FrameOK(InterpFrame(f, Len(st) - NArgs(f), dep, g)) BY ActiveIs, InterpFrameOK
  <2>3. FramesOK(frames', FALSE) /\ frames' # <<>> BY <2>1, <2>2, PushGood
  <2> QED BY <2>1, <2>3, ActiveIs DEF GoodNext, Good
<1> QED BY <1>1, <1>2

\* A compiled callee.
LEMMA EnterJitGood ==
  ASSUME Active, mode = "run", NEW fs, FramesOK(fs, TRUE), NEW st, NEW f \in Funcs, jit[f], NEW dep,
         NEW e, HandlersOK(e), EnterJit(fs, st, f, dep, e)
  PROVE  GoodNext
<1>1. CASE Len(fs) >= MaxFrames BY <1>1, TrapGood DEF EnterJit
<1>2. CASE ~(Len(fs) >= MaxFrames)
  <2>1. frames' = Append(fs, JitFrame(f, dep)) /\ eh' = e /\ mode' = mode BY <1>2 DEF EnterJit
  <2>2. FrameOK(JitFrame(f, dep)) BY ActiveIs, JitFrameOK
  <2>3. FramesOK(frames', FALSE) /\ frames' # <<>> BY <2>1, <2>2, PushGood
  <2> QED BY <2>1, <2>3 DEF GoodNext, Good
<1> QED BY <1>1, <1>2

\* The top frame moves.
LEMMA StepGood ==
  ASSUME Active, NEW F, FrameOK(F), frames' = SetTop(F), mode' = "run", HandlersOK(eh')
  PROVE  GoodNext
<1>1. FramesOK(frames', FALSE) /\ frames' # <<>> BY ActiveIs, TopGood DEF SetTop
<1> QED BY <1>1 DEF GoodNext, Good

----------------------------------------------------------------------------
(* Catching.                                                               *)

\* A clause is found in a live try_table, and its label is in reach.
LEMMA ClauseIs ==
  ASSUME ProgInv, NEW f \in Funcs, NEW b, At1(f, b), NEW t, FirstClause(code[f][b], t) # 0
  PROVE  LET j == FirstClause(code[f][b], t) IN
         /\ code[f][b].op = "try_table" /\ j \in DOMAIN code[f][b].cs
         /\ Matches(code[f][b].cs[j], t)
         /\ code[f][b].cs[j].label \in 0 .. Len(snap[f][b].ctrl)
<1> DEFINE i == code[f][b]
           M == {c \in DOMAIN i.cs : Matches(i.cs[c], t)}
           j == FirstClause(i, t)
<1>1. i \in Instrs[f] /\ i \in InstrType BY RunsIs
<1>2. i.cs \in Seq(Clauses) BY <1>1 DEF InstrType
<1>3. DOMAIN i.cs = 1 .. Len(i.cs) /\ Len(i.cs) \in Nat BY <1>2, LenProperties
<1>4. M # {} BY DEF FirstClause
<1>5. j = CHOOSE c \in M : \A d \in M : c <= d BY <1>4 DEF FirstClause
<1>6. M \in SUBSET (0 .. Len(i.cs)) BY <1>3
<1>7. \E c \in M : \A d \in M : c <= d BY <1>3, <1>4, <1>6, Extremes
<1>8. j \in M BY <1>5, <1>7
<1>9. i.op = "try_table"
  <2> SUFFICES ASSUME i.op # "try_table" PROVE FALSE OBVIOUS
  <2>1. i.cs = <<>> BY <1>1, InstrsAssumption
  <2>2. Len(i.cs) = 0 BY <2>1, SeqEmpty
  <2> QED BY <2>2, <1>3, <1>8
<1>10. ValidLive(f, snap[f][b], i) BY <1>9, RunsIs
<1>11. \A q \in DOMAIN i.cs : ClauseOK(f, snap[f][b], i.cs[q])
  <2> HIDE DEF i
  <2> QED BY <1>9, <1>10 DEF ValidLive
<1>12. j \in DOMAIN i.cs /\ Matches(i.cs[j], t) BY <1>8
<1>13. ClauseOK(f, snap[f][b], i.cs[j]) BY <1>11, <1>12
<1>14. i.cs[j].label <= Len(snap[f][b].ctrl) BY <1>13 DEF ClauseOK
<1>15. i.cs[j] \in Clauses BY <1>2, <1>12, <1>3, ElementOfSeq
<1>16. i.cs[j].label \in Nat BY <1>15 DEF Clauses
<1>17. Len(snap[f][b].ctrl) \in Nat
  <2>1. b \in 1 .. Len(code[f]) /\ Len(code[f]) \in Nat BY BodyIs DEF At1
  <2>2. b \in 1 .. Len(code[f]) + 1 BY <2>1
  <2> QED BY <2>2, BodyIs
<1>18. i.cs[j].label \in 0 .. Len(snap[f][b].ctrl) BY <1>14, <1>16, <1>17
<1> QED BY <1>9, <1>12, <1>18

\* In no body are a call_ref and a try_table together: the interpreter steps
\* one instruction too far when it catches the exception of a call_ref.
CallRefUncaught ==
  \A f \in Funcs : \A i, j \in Instrs[f] : i.op = "call_ref" => j.op # "try_table"

\* eh_unwind lands in the frame with the control stack of the landing pc.
LEMMA UnwindGood ==
  ASSUME Active, Top.k = "interp", InBody(Top), NEW st, NEW t, NEW skip,
         skip = 0 \/ (CallRefUncaught /\ At.op = "call_ref"),
         eh_unwind(Top, st, t, skip)
  PROVE  GoodNext
<1> DEFINE F == Top
           s == snap[F.fn][F.pc]
           H == Handlers(F, t)
<1>1. /\ ProgInv /\ built /\ FrameOK(F) /\ HandlersOK(eh) /\ F.fn \in Funcs /\ At1(F.fn, F.pc)
      /\ F.pc \in 1 .. Len(code[F.fn]) /\ Len(code[F.fn]) \in Nat /\ F.pc \in Nat
  BY ActiveIs, FrameIs
<1>2. CASE H = {}
  <2>1. CASE F.ctl[1].is_try BY <1>2, <2>1, CrashGood DEF eh_unwind
  <2>2. CASE ~F.ctl[1].is_try
    <3>1. Propagate(st, eh) BY <1>2, <2>2 DEF eh_unwind
    <3> QED BY <3>1, <1>1, PropagateGood
  <2> QED BY <2>1, <2>2
<1>3. CASE H # {}
  <2> DEFINE k == CHOOSE k \in H : \A j \in H : j <= k
             i == code[F.fn][F.ctl[k].blk]
             c == i.cs[FirstClause(i, t)]
             m == k - 1 - c.label
             G == [F EXCEPT !.ctl = SubSeq(@, 1, m), !.pc = CtlPc(F.fn, F.ctl[m]) + skip]
  <2>0. frames' = SetTop(G) /\ mode' = "run" /\ eh' = eh BY <1>3 DEF eh_unwind
  <2>1. CtlOK(F) BY <1>1 DEF FrameOK
  <2>2. IsSeq(s.ctrl) /\ Len(s.ctrl) \in Nat
    <3>1. F.pc \in 1 .. Len(code[F.fn]) + 1 BY <1>1
    <3> QED BY <1>1, <3>1, BodyIs
  <2>3. Len(F.ctl) = Len(s.ctrl) + 1 BY <2>1 DEF CtlOK
  <2>4. H \in SUBSET (0 .. Len(F.ctl)) BY <2>2, <2>3 DEF Handlers
  <2>5. \E x \in H : \A y \in H : y <= x
    <3>1. Len(F.ctl) \in Nat BY <2>2, <2>3
    <3> HIDE DEF H, F
    <3> QED BY <3>1, <2>4, <1>3, Extremes
  <2>6. k \in H BY <2>5
  <2>7. k \in 2 .. Len(F.ctl) /\ FirstClause(i, t) # 0 BY <2>6 DEF Handlers
  <2> HIDE DEF k
  <2>8. k - 1 \in 1 .. Len(s.ctrl) /\ (k - 1) + 1 = k /\ k \in Nat BY <2>7, <2>2, <2>3
  <2>9. F.ctl[k].blk = s.ctrl[k - 1].blk BY <2>1, <2>8 DEF CtlOK
  <2> DEFINE b == s.ctrl[k - 1].blk
  <2>10. /\ b \in 1 .. F.pc - 1 /\ Opens(code[F.fn], snap[F.fn], b)
         /\ snap[F.fn][b].ctrl = SubSeq(s.ctrl, 1, (k - 1) - 1)
    BY <1>1, <2>8, LevelIs
  <2>11. i = code[F.fn][b] BY <2>9
  <2> HIDE DEF b, i
  <2>12. b \in 1 .. Len(code[F.fn]) /\ At1(F.fn, b)
    <3>1. b \in 1 .. Len(code[F.fn]) BY <1>1, <2>10
    <3> QED BY <3>1, <2>10 DEF At1, Reach, Opens
  <2>13. Len(snap[F.fn][b].ctrl) = k - 2
    <3>1. k - 2 \in 0 .. Len(s.ctrl) /\ (k - 1) - 1 = k - 2 BY <2>2, <2>8
    <3> QED BY <3>1, <2>2, <2>10, SeqCut
  <2>14. c.label \in 0 .. k - 2 /\ code[F.fn][b].op = "try_table"
    BY <1>1, <2>7, <2>11, <2>12, <2>13, ClauseIs
  <2>15. m \in 1 .. Len(F.ctl)
    <3>1. \A l \in 0 .. k - 2 : k - 1 - l \in 1 .. Len(F.ctl) BY <2>7, <2>8, <2>2, <2>3
    <3> HIDE DEF c
    <3> QED BY <3>1, <2>14
  <2>16. skip = 0
    <3> SUFFICES ASSUME CallRefUncaught, At.op = "call_ref" PROVE FALSE OBVIOUS
    <3>1. code[F.fn][F.pc] \in Instrs[F.fn] /\ code[F.fn][b] \in Instrs[F.fn]
      BY <1>1, <2>12, RunsIs
    <3> QED BY <3>1, <1>1, <2>14 DEF CallRefUncaught, At
  <2>17. DOMAIN F = FrameFields BY <1>1 DEF FrameOK
  <2>18. CtlPc(F.fn, F.ctl[m]) + skip = CtlPc(F.fn, F.ctl[m])
    <3> HIDE DEF m
    <3>1. CtlPc(F.fn, F.ctl[m]) \in Nat
      <4>1. CASE m = 1
        <5>1. F.ctl[1].blk = 0 BY <2>1 DEF CtlOK
        <5> QED BY <4>1, <5>1, <1>1 DEF CtlPc
      <4>2. CASE m # 1
        <5>0. m \in 1 .. Len(s.ctrl) + 1 BY <2>3, <2>15
        <5>1. m - 1 \in 1 .. Len(s.ctrl) /\ (m - 1) + 1 = m BY <4>2, <5>0, <2>2
        <5> DEFINE x == s.ctrl[m - 1].blk
        <5>2. F.ctl[m].blk = x BY <2>1, <5>1 DEF CtlOK
        <5>3. x \in 1 .. F.pc - 1 /\ Opens(code[F.fn], snap[F.fn], x) BY <1>1, <5>1, LevelIs
        <5> HIDE DEF x
        <5>4. x \in 1 .. Len(code[F.fn]) /\ x \in Nat /\ x # 0 BY <5>3, <1>1
        <5>5. end_idx[F.fn][x] \in x + 1 .. Len(code[F.fn]) BY <1>1, <5>3, <5>4, EndIs
        <5>6. end_idx[F.fn][x] \in Nat BY <5>4, <5>5, <1>1
        <5> QED BY <5>2, <5>4, <5>6 DEF CtlPc
      <4> QED BY <4>1, <4>2
    <3> QED BY <3>1, <2>16
  <2> HIDE DEF m
  <2>19. Moved(F, G) /\ G.ctl = SubSeq(F.ctl, 1, m) /\ G.pc = CtlPc(F.fn, F.ctl[m])
    <3> HIDE DEF F
    <3> QED BY <2>17, <2>18 DEF Moved, FrameFields
  <2> HIDE DEF G
  <2>20. FrameOK(G) BY <1>1, <2>15, <2>19, JumpOK
  <2> QED BY <2>0, <2>20, <1>1, StepGood
<1> QED BY <1>2, <1>3

\* eh_dispatch lands at a label of the try_table the entry names.
LEMMA DispatchGood ==
  ASSUME Active, Top.k = "jit", NEW t, eh_dispatch(t) PROVE GoodNext
<1> DEFINE M == MatchingEntries(t)
<1>1. ProgInv /\ built /\ FrameOK(Top) /\ HandlersOK(eh) /\ Len(eh) \in Nat /\ IsSeq(eh)
  BY ActiveIs, SeqIs DEF HandlersOK
<1>2. CASE M = {}
  <2>1. Propagate(stack, SubSeq(eh, 1, Len(eh) - Cardinality(OwnEntries))) BY <1>2 DEF eh_dispatch
  <2>2. OwnEntries \subseteq 1 .. Len(eh) BY DEF OwnEntries
  <2>3. IsFiniteSet(1 .. Len(eh)) /\ Cardinality(1 .. Len(eh)) = Len(eh)
    BY SMTT(30), <1>1, FS_Interval
  <2>4. IsFiniteSet(OwnEntries) /\ Cardinality(OwnEntries) <= Len(eh) BY <2>2, <2>3, FS_Subset
  <2>5. Cardinality(OwnEntries) \in Nat BY <2>4, FS_CardinalityType
  <2>6. Len(eh) - Cardinality(OwnEntries) \in 0 .. Len(eh) BY <1>1, <2>4, <2>5
  <2>7. HandlersOK(SubSeq(eh, 1, Len(eh) - Cardinality(OwnEntries))) BY <1>1, <2>6, HandlersCut
  <2> QED BY <2>1, <2>7, PropagateGood
<1>3. CASE M # {}
  <2> DEFINE j == CHOOSE j \in M : \A q \in M : q <= j
             h == eh[j]
             i == code[h.fn][h.blk]
             c == i.cs[FirstClause(i, t)]
             s == snap[h.fn][h.blk]
             k == LabelLvl(s, c.label)
             ncarry == Carried(c, TagTys[t])
             up == Len(s.tys) - LabelHeight(s, k)
             vs == CASE c.kind = 0 -> Payload(t)
                     [] c.kind = 1 -> Append(Payload(t), t)
                     [] c.kind = 2 -> <<>>
                     [] c.kind = 3 -> <<t>>
             G == [Top EXCEPT !.fn = h.fn, !.pc = LabelPc(h.fn, s, k),
                              !.ops = SubSeq(@, 1, h.sp0 - up) \o vs]
  <2>1. Crash \/ (eh' = SubSeq(eh, 1, j - 1) /\ frames' = SetTop(G) /\ mode' = "run")
    BY <1>3 DEF eh_dispatch
  <2>2. CASE Crash BY <2>2, CrashGood
  <2>3. CASE eh' = SubSeq(eh, 1, j - 1) /\ frames' = SetTop(G) /\ mode' = "run"
    <3>1. M \in SUBSET (0 .. Len(eh)) BY <1>1 DEF MatchingEntries, OwnEntries
    <3>2. \E x \in M : \A y \in M : y <= x
      <4> HIDE DEF M
      <4> QED BY <1>1, <1>3, <3>1, Extremes
    <3>3. j \in M BY <3>2
    <3>4. j \in 1 .. Len(eh) /\ FirstClause(i, t) # 0 BY <3>3 DEF MatchingEntries, OwnEntries
    <3> HIDE DEF j
    <3>5. h.fn \in Funcs /\ jit[h.fn] /\ At1(h.fn, h.blk) BY <1>1, <3>4 DEF HandlersOK, HandlerOK
    <3>6. c.label \in 0 .. Len(s.ctrl)
      <4> HIDE DEF h
      <4> QED BY <1>1, <3>4, <3>5, ClauseIs
    <3>7. h.blk \in 1 .. Len(code[h.fn]) BY <3>5 DEF At1
    <3>8. Len(s.ctrl) \in Nat
      <4>1. Len(code[h.fn]) \in Nat BY <1>1, <3>5, BodyIs
      <4>2. \A x \in 1 .. Len(code[h.fn]) : x \in 1 .. Len(code[h.fn]) + 1 BY <4>1
      <4>3. h.blk \in 1 .. Len(code[h.fn]) + 1 BY <3>7, <4>2
      <4> HIDE DEF h
      <4> QED BY <1>1, <3>5, <4>3, BodyIs
    <3>9. k \in 0 .. Len(s.ctrl)
      <4>1. \A x \in 0 .. Len(s.ctrl) : Len(s.ctrl) - x \in 0 .. Len(s.ctrl) BY <3>8
      <4> QED BY <3>6, <4>1 DEF LabelLvl
    <3> DEFINE os == SubSeq(Top.ops, 1, h.sp0 - up) \o vs
    <3>10. G = [Top EXCEPT !.fn = h.fn, !.pc = LabelPc(h.fn, s, k), !.ops = os] OBVIOUS
    <3>11. DOMAIN Top = FrameFields /\ Top.k = "jit" BY <1>1 DEF FrameOK
    <3> HIDE DEF h, s, c, i, k, G, os, up, vs
    <3>12. DOMAIN G = FrameFields /\ G.k = "jit" /\ G.fn = h.fn /\ G.pc = LabelPc(h.fn, s, k)
      BY <3>10, <3>11 DEF FrameFields
    <3>13. FrameOK(G)
      <4>1. G.fn \in Funcs /\ jit[G.fn] /\ h.blk \in 1 .. Len(code[G.fn]) BY <3>5, <3>7, <3>12
      <4>2. s = snap[G.fn][h.blk] BY <3>12 DEF s
      <4> QED BY <1>1, <3>9, <3>11, <3>12, <4>1, <4>2, Landed
    <3>14. HandlersOK(eh')
      <4>1. j - 1 \in 0 .. Len(eh) BY <1>1, <3>4
      <4> QED BY <1>1, <2>3, <4>1, HandlersCut
    <3> QED BY <2>3, <3>13, <3>14, StepGood
  <2> QED BY <2>1, <2>2, <2>3
<1> QED BY <1>2, <1>3

----------------------------------------------------------------------------
(* The interpreter.                                                        *)

\* What a frame that executes an instruction is.
LEMMA ExecIs ==
  ASSUME Active, NEW e, NEW ops, Executes(e, ops)
  PROVE  /\ mode = "run" /\ Top.k = e /\ InBody(Top) /\ At.op \in ops /\ At = code[Top.fn][Top.pc]
         /\ Top.fn \in Funcs /\ Top.pc \in Nat /\ Top.pc \in 1 .. Len(code[Top.fn])
         /\ Len(code[Top.fn]) \in Nat /\ At1(Top.fn, Top.pc)
         /\ At \in InstrType /\ At \in Instrs[Top.fn] /\ DOMAIN Top = FrameFields
         /\ IsSeq(Here.ctrl) /\ Len(Here.ctrl) \in Nat /\ Here = snap[Top.fn][Top.pc]
         /\ At.op # "end" => Here.skip = -1 /\ ValidLive(Top.fn, Here, At)
<1>1. mode = "run" /\ Top.k = e /\ InBody(Top) /\ At.op \in ops /\ At = code[Top.fn][Top.pc]
  BY DEF Executes, Running, InCode, InBody, At
<1>2. FrameOK(Top) /\ ProgInv BY ActiveIs
<1>3. /\ Top.fn \in Funcs /\ Top.pc \in Nat /\ Top.pc \in 1 .. Len(code[Top.fn])
      /\ Len(code[Top.fn]) \in Nat /\ At1(Top.fn, Top.pc)
  BY <1>1, <1>2, FrameIs
<1>4. /\ At \in InstrType /\ At \in Instrs[Top.fn]
      /\ At.op # "end" => Here.skip = -1 /\ ValidLive(Top.fn, Here, At)
  BY <1>2, <1>3, RunsIs DEF At, Here
<1>5. IsSeq(Here.ctrl) /\ Len(Here.ctrl) \in Nat
  <2>1. Top.pc \in 1 .. Len(code[Top.fn]) + 1 BY <1>3
  <2> QED BY <1>2, <1>3, <2>1, BodyIs DEF Here
<1> QED BY <1>1, <1>2, <1>3, <1>4, <1>5 DEF FrameOK, Here

\* Advance goes on behind an instruction that opens and closes no block.
LEMMA AdvanceOK ==
  ASSUME Active, InBody(Top), At.op \notin Terminators \cup {"end"},
         Top.k = "interp" => At.op \notin Openers
  PROVE  FrameOK(Advance)
<1>1. ProgInv /\ built /\ FrameOK(Top) BY ActiveIs
<1>2. DOMAIN Top = FrameFields BY <1>1 DEF FrameOK
<1>3. Moved(Top, Advance) /\ Advance.ctl = Top.ctl /\ Advance.pc = Top.pc + 1
  BY <1>2 DEF Moved, Advance, FrameFields
<1> QED BY <1>1, <1>3, Advanced DEF At

\* A block is opened, and a false if goes to its end.
LEMMA IOpenGood == ASSUME Active, IOpen PROVE GoodNext
<1> DEFINE lbl == [blk |-> Top.pc, h |-> HOff(Top) + Len(Here.tys),
                   ar |-> IF At.op = "loop" THEN 0 ELSE Len(At.bt),
                   rar |-> Len(At.bt), is_try |-> At.op = "try_table"]
           F == [Top EXCEPT !.ctl = Append(@, lbl), !.pc = @ + 1]
           E == [F EXCEPT !.pc = end_idx[Top.fn][Top.pc]]
           s == Here
           f == Top.fn
           p == Top.pc
<1>0. Executes("interp", Openers) BY DEF IOpen
<1>1. /\ mode = "run" /\ Top.k = "interp" /\ InBody(Top) /\ At.op \in Openers /\ At = code[f][p]
      /\ f \in Funcs /\ p \in Nat /\ p \in 1 .. Len(code[f])
      /\ Len(code[f]) \in Nat /\ At1(f, p) /\ DOMAIN Top = FrameFields
      /\ IsSeq(s.ctrl) /\ Len(s.ctrl) \in Nat /\ s = snap[f][p] /\ ProgInv /\ built /\ HandlersOK(eh)
      /\ CtlOK(Top) /\ s.skip = -1
  <2>1. At.op \in Openers => At.op # "end" BY DEF Openers
  <2> QED BY <1>0, <2>1, ExecIs, ActiveIs DEF FrameOK
<1>2. (frames' = SetTop(F) \/ frames' = SetTop(E)) /\ mode' = mode /\ eh' = eh BY DEF IOpen
<1>3. lbl.blk = p /\ lbl.h = HOff(Top) + Len(s.tys) OBVIOUS
<1> HIDE DEF lbl
<1>4. F = [Top EXCEPT !.ctl = Append(Top.ctl, lbl), !.pc = p + 1] OBVIOUS
<1>5. /\ DOMAIN F = FrameFields /\ F.k = "interp" /\ F.fn = f /\ F.base = Top.base
      /\ F.ctl = Append(Top.ctl, lbl) /\ F.pc = p + 1
  BY <1>1, <1>4 DEF FrameFields
<1>6. /\ DOMAIN E = FrameFields /\ E.k = "interp" /\ E.fn = f /\ E.base = Top.base
      /\ E.ctl = Append(Top.ctl, lbl) /\ E.pc = end_idx[f][p]
  <2> HIDE DEF F
  <2> QED BY <1>5 DEF FrameFields
<1> HIDE DEF F, E
<1> DEFINE e == Entry(code[f], snap[f], p)
<1>7. At1(f, p + 1) /\ snap[f][p + 1].ctrl = Append(s.ctrl, e)
  <2>1. code[f][p].op \notin Terminators \cup {"end"} BY <1>1 DEF Openers, Terminators
  <2> QED BY <1>1, <2>1, NextIn
<1>8. At1(f, end_idx[f][p]) /\ snap[f][end_idx[f][p]].ctrl = Append(s.ctrl, e)
  <2>1. Opens(code[f], snap[f], p) BY <1>1 DEF Opens
  <2> QED BY <1>1, <1>7, <2>1, EndIs
<1>9. e.blk = p /\ e.h = Len(s.tys) BY <1>1 DEF Entry
<1> HIDE DEF e
<1>10. ASSUME NEW G, DOMAIN G = FrameFields, G.k = "interp", G.fn = f, G.base = Top.base,
              G.ctl = Append(Top.ctl, lbl), At1(f, G.pc), snap[f][G.pc].ctrl = Append(s.ctrl, e)
       PROVE  FrameOK(G)
  <2>1. /\ Len(Append(s.ctrl, e)) = Len(s.ctrl) + 1 /\ Append(s.ctrl, e)[Len(s.ctrl) + 1] = e
        /\ \A k \in 1 .. Len(s.ctrl) : Append(s.ctrl, e)[k] = s.ctrl[k]
    <3>1. IsSeq(s.ctrl) BY <1>1
    <3> HIDE DEF s
    <3> QED BY <3>1, SeqAppend
  <2>2. IsSeq(Top.ctl) /\ Len(Top.ctl) = Len(s.ctrl) + 1 /\ Top.ctl[1].blk = 0
    BY <1>1 DEF CtlOK
  <2>3. /\ IsSeq(G.ctl) /\ Len(G.ctl) = Len(Top.ctl) + 1 /\ G.ctl[Len(Top.ctl) + 1] = lbl
        /\ \A k \in 1 .. Len(Top.ctl) : G.ctl[k] = Top.ctl[k]
    BY <1>10, <2>2, SeqAppend
  <2>4. HOff(G) = HOff(Top) BY <1>10 DEF HOff
  <2>5. G.ctl[1].blk = 0
    <3>1. 1 \in 1 .. Len(Top.ctl) BY <1>1, <2>2
    <3> QED BY <2>2, <2>3, <3>1
  <2>6. ASSUME NEW k \in 1 .. Len(s.ctrl) + 1
        PROVE  /\ G.ctl[k + 1].blk = Append(s.ctrl, e)[k].blk
               /\ G.ctl[k + 1].h = HOff(Top) + Append(s.ctrl, e)[k].h
    <3>1. CASE k = Len(s.ctrl) + 1
      <4>1. G.ctl[k + 1] = lbl BY <2>2, <2>3, <3>1
      <4>2. Append(s.ctrl, e)[k] = e BY <2>1, <3>1
      <4> QED BY <4>1, <4>2, <1>3, <1>9
    <3>2. CASE k \in 1 .. Len(s.ctrl)
      <4>1. k + 1 \in 1 .. Len(Top.ctl) BY <3>2, <1>1, <2>2
      <4>2. G.ctl[k + 1] = Top.ctl[k + 1] BY <2>3, <4>1
      <4>3. Append(s.ctrl, e)[k] = s.ctrl[k] BY <2>1, <3>2
      <4> QED BY <3>2, <4>2, <4>3, <1>1 DEF CtlOK
    <3>3. Len(s.ctrl) \in Nat BY <1>1
    <3>4. k = Len(s.ctrl) + 1 \/ k \in 1 .. Len(s.ctrl) BY <3>3
    <3> QED BY <3>1, <3>2, <3>4
  <2>7. CtlOK(G)
    <3>1. snap[G.fn][G.pc].ctrl = Append(s.ctrl, e) BY <1>10
    <3>2. Len(G.ctl) = Len(Append(s.ctrl, e)) + 1 BY <2>1, <2>2, <2>3
    <3>3. \A k \in 1 .. Len(Append(s.ctrl, e)) :
            /\ G.ctl[k + 1].blk = Append(s.ctrl, e)[k].blk
            /\ G.ctl[k + 1].h = HOff(G) + Append(s.ctrl, e)[k].h
      BY <2>1, <2>4, <2>6
    <3> HIDE DEF s, e
    <3> QED BY <2>3, <2>5, <3>1, <3>2, <3>3 DEF CtlOK
  <2>8. G.pc \in Nat \ {0} /\ Reach(f, G.pc)
    <3>1. G.pc \in 1 .. Len(code[f]) /\ Reach(f, G.pc) BY <1>10 DEF At1
    <3>2. \A x \in Nat : \A y \in 1 .. x : y \in Nat \ {0} OBVIOUS
    <3> QED BY <1>1, <3>1, <3>2
  <2> QED BY <1>10, <1>1, <2>7, <2>8 DEF FrameOK
<1>11. FrameOK(F) BY <1>5, <1>7, <1>10
<1>12. FrameOK(E) BY <1>6, <1>8, <1>10
<1> QED BY <1>1, <1>2, <1>11, <1>12, StepGood

\* What validation says of the labels and callees of live code.
LEMMA ValidIs ==
  ASSUME NEW f, NEW s, NEW i, ValidLive(f, s, i)
  PROVE  /\ i.op \in {"br", "br_if", "br_table"} => i.n <= Len(s.ctrl)
         /\ i.op \in {"call", "call_ref", "return_call"} => i.n \in Funcs
<1>1. i.op = "br_table" => i.n <= Len(s.ctrl) BY DEF ValidLive
<1>2. i.op \in {"br", "br_if"} => i.n <= Len(s.ctrl) BY DEF ValidLive
<1>3. i.op \in {"call", "call_ref"} => i.n \in Funcs BY DEF ValidLive
<1>4. i.op = "return_call" => i.n \in Funcs BY DEF ValidLive
<1> QED BY <1>1, <1>2, <1>3, <1>4

\* A frame keeps its shape when only operands and stack pointers change.
LEMMA SameOK ==
  ASSUME NEW F, FrameOK(F), NEW G, Moved(F, G), G.ctl = F.ctl, G.pc = F.pc
  PROVE  FrameOK(G) /\ (AtCall(F) => AtCall(G))
<1>1. HOff(G) = HOff(F) BY DEF HOff, Moved
<1>2. CtlOK(F) => CtlOK(G) BY <1>1 DEF CtlOK, Moved
<1> QED BY <1>2 DEF FrameOK, Moved, InBody, AtCall

\* All frames wait when the top one is at a call.
LEMMA AllWait == ASSUME Active, AtCall(Top) PROVE FramesOK(frames, TRUE)
<1>1. FramesOK(frames, FALSE) /\ Len(frames) \in Nat BY ActiveIs
<1>2. ASSUME NEW i \in 1 .. Len(frames) PROVE FrameOK(frames[i]) /\ AtCall(frames[i])
  <2>1. CASE i = Len(frames) BY <2>1, <1>1 DEF Top, FramesOK
  <2>2. CASE i < Len(frames) BY <2>2, <1>1 DEF FramesOK
  <2> QED BY <2>1, <2>2, <1>1
<1> QED BY <1>1, <1>2 DEF FramesOK

\* An end leaves one block, or the body.
LEMMA IEndGood == ASSUME Active, IEnd PROVE GoodNext
<1> DEFINE c == Len(Top.ctl)
           f == Top.fn
           p == Top.pc
           s == snap[f][p]
           A == [Advance EXCEPT !.ctl = DropN(@, 1)]
           B == [Advance EXCEPT !.ctl = <<>>]
<1>0. Executes("interp", {"end"}) BY DEF IEnd
<1>1. /\ mode = "run" /\ f \in Funcs /\ p \in Nat /\ p \in 1 .. Len(code[f])
      /\ Len(code[f]) \in Nat /\ At1(f, p) /\ code[f][p].op = "end"
      /\ DOMAIN Top = FrameFields /\ Top.k = "interp" /\ InBody(Top)
  BY <1>0, ExecIs
<1>2. ProgInv /\ built /\ HandlersOK(eh) /\ FrameOK(Top) BY ActiveIs
<1>3. CtlOK(Top) BY <1>1, <1>2 DEF FrameOK
<1>4. IsSeq(s.ctrl) /\ Len(s.ctrl) \in Nat BY <1>0, ExecIs
<1>5. IsSeq(Top.ctl) /\ c = Len(s.ctrl) + 1 /\ Top.ctl[1].blk = 0 BY <1>3 DEF CtlOK
<1>6. mode' = mode /\ eh' = eh /\ frames' = SetTop(IF c > 1 THEN A ELSE B) BY DEF IEnd
<1>7. /\ DOMAIN A = FrameFields /\ A.k = "interp" /\ A.fn = f /\ A.base = Top.base /\ A.pc = p + 1
      /\ A.ctl = SubSeq(Top.ctl, 1, c - 1)
  BY <1>1 DEF Advance, FrameFields, DropN
<1>8. Moved(Top, B) /\ B.pc = p + 1 BY <1>1 DEF Advance, FrameFields, Moved
<1> HIDE DEF A, B
<1>9. CASE c > 1
  <2>1. Len(s.ctrl) # 0 BY <1>4, <1>5, <1>9
  <2>2. At1(f, p + 1) /\ snap[f][p + 1].ctrl = SubSeq(s.ctrl, 1, Len(s.ctrl) - 1)
    BY <1>1, <1>2, <2>1, EndNext
  <2>3. Len(s.ctrl) - 1 \in 0 .. Len(s.ctrl) /\ c - 1 \in 0 .. c
    <3>1. \A m \in Nat : \A n : m # 0 /\ n = m + 1 => m - 1 \in 0 .. m /\ n - 1 \in 0 .. n OBVIOUS
    <3> HIDE DEF s, c
    <3> QED BY <1>4, <1>5, <2>1, <3>1
  <2> DEFINE t == SubSeq(s.ctrl, 1, Len(s.ctrl) - 1)
  <2>4. Len(t) = Len(s.ctrl) - 1 /\ \A k \in 1 .. Len(s.ctrl) - 1 : t[k] = s.ctrl[k]
    BY <1>4, <2>3, SeqCut
  <2>5. IsSeq(A.ctl) /\ Len(A.ctl) = c - 1 /\ \A k \in 1 .. c - 1 : A.ctl[k] = Top.ctl[k]
    BY <1>5, <1>7, <2>3, SeqCut
  <2> HIDE DEF t, c
  <2>6. A.ctl[1].blk = 0
    <3>1. 1 \in 1 .. c - 1 BY <1>4, <1>5, <1>9
    <3> QED BY <1>5, <2>5, <3>1
  <2>7. ASSUME NEW k \in 1 .. Len(t)
        PROVE  A.ctl[k + 1].blk = t[k].blk /\ A.ctl[k + 1].h = HOff(Top) + t[k].h
    <3>1. k \in 1 .. Len(s.ctrl) /\ k + 1 \in 1 .. c - 1 /\ t[k] = s.ctrl[k] BY SMTT(30), <1>4, <1>5, <2>4
    <3> QED BY <3>1, <2>5, <1>3 DEF CtlOK
  <2>8. HOff(A) = HOff(Top) BY <1>7 DEF HOff
  <2>9. snap[A.fn][A.pc].ctrl = t BY <1>7, <2>2 DEF t
  <2>10. Len(A.ctl) = Len(t) + 1 BY <1>4, <1>5, <2>4, <2>5
  <2>11. CtlOK(A) BY <2>5, <2>6, <2>7, <2>8, <2>9, <2>10 DEF CtlOK
  <2>12. FrameOK(A) BY <1>1, <1>7, <2>2, <2>11 DEF FrameOK, At1
  <2>13. frames' = SetTop(A) BY <1>6, <1>9 DEF c
  <2> QED BY <1>1, <1>2, <1>6, <2>12, <2>13, StepGood
<1>10. CASE ~(c > 1)
  <2>1. Len(s.ctrl) = 0 BY <1>4, <1>5, <1>10
  <2>2. p = Len(code[f]) BY <1>1, <1>2, <2>1, EndNext
  <2>3. FrameOK(B) BY <1>2, <1>8, <2>2, Finishing
  <2>4. frames' = SetTop(B) BY <1>6, <1>10
  <2> QED BY <1>1, <1>2, <1>6, <2>3, <2>4, StepGood
<1> QED BY <1>9, <1>10

\* A branch to label l.
LEMMA IJumpGood ==
  ASSUME Active, Executes("interp", {"br", "br_if", "br_table"}), NEW l \in 0 .. Len(Here.ctrl),
         IJump(l), UNCHANGED <<mode, eh>>
  PROVE  GoodNext
<1> DEFINE m == Len(Top.ctl) - l
           G == [Top EXCEPT !.ctl = DropN(@, l), !.pc = CtlPc(Top.fn, Top.ctl[m])]
<1>1. /\ mode = "run" /\ InBody(Top) /\ Top.k = "interp" /\ DOMAIN Top = FrameFields
      /\ Len(Here.ctrl) \in Nat /\ Here = snap[Top.fn][Top.pc]
  BY ExecIs
<1>2. ProgInv /\ built /\ HandlersOK(eh) /\ FrameOK(Top) BY ActiveIs
<1>3. CtlOK(Top) BY <1>1, <1>2 DEF FrameOK
<1>4. Len(Top.ctl) = Len(Here.ctrl) + 1 BY <1>1, <1>3 DEF CtlOK
<1>5. m \in 1 .. Len(Top.ctl) BY <1>1, <1>4
<1>6. frames' = SetTop(G) BY DEF IJump
<1>7. Moved(Top, G) /\ G.ctl = SubSeq(Top.ctl, 1, m) /\ G.pc = CtlPc(Top.fn, Top.ctl[m])
  BY <1>1 DEF Moved, FrameFields, DropN
<1> HIDE DEF G, m
<1>8. FrameOK(G) BY <1>1, <1>2, <1>5, <1>7, JumpOK
<1> QED BY <1>1, <1>2, <1>6, <1>8, StepGood

\* The branches.
LEMMA IBrGood == ASSUME Active, IBr PROVE GoodNext
<1>0. Executes("interp", {"br", "br_if", "br_table"}) /\ UNCHANGED <<mode, eh>> BY DEF IBr
<1>1. /\ mode = "run" /\ InBody(Top) /\ Top.k = "interp" /\ At.op \in {"br", "br_if", "br_table"}
      /\ Len(Here.ctrl) \in Nat /\ At \in InstrType
  BY <1>0, ExecIs
<1>2. At.op # "end" BY <1>1
<1>3. ValidLive(Top.fn, Here, At) BY <1>0, <1>2, ExecIs
<1>4. At.n <= Len(Here.ctrl) BY <1>1, <1>3, ValidIs
<1>5. At.n \in Nat BY <1>1 DEF InstrType
<1>6. At.n \in 0 .. Len(Here.ctrl) /\ 0 \in 0 .. Len(Here.ctrl) BY <1>1, <1>4, <1>5
<1>7. CASE IJump(At.n) BY <1>0, <1>6, <1>7, IJumpGood
<1>8. CASE IJump(0) BY <1>0, <1>6, <1>8, IJumpGood
<1>9. CASE At.op = "br_if" /\ frames' = SetTop(Advance)
  <2>1. At.op \notin Terminators \cup {"end"} /\ At.op \notin Openers BY <1>9 DEF Terminators, Openers
  <2>2. FrameOK(Advance) BY <1>1, <2>1, AdvanceOK
  <2> QED BY <1>0, <1>1, <1>9, <2>2, ActiveIs, StepGood
<1> QED BY <1>7, <1>8, <1>9 DEF IBr

\* Simple instructions, traps and returns.
LEMMA ISimpleGood == ASSUME Active, ISimple PROVE GoodNext
<1>0. Executes("interp", {"push", "drop", "popcnt"}) BY DEF ISimple
<1>1. mode = "run" /\ InBody(Top) /\ At.op \in {"push", "drop", "popcnt"} BY <1>0, ExecIs
<1>2. At.op \notin Terminators \cup {"end"} /\ At.op \notin Openers BY <1>1 DEF Terminators, Openers
<1>3. FrameOK(Advance) BY <1>1, <1>2, AdvanceOK
<1> QED BY <1>1, <1>3, ActiveIs, StepGood DEF ISimple

\* A trap of the interpreter drops the frames.
LEMMA ITrapGood == ASSUME Active, ITrap PROVE GoodNext
<1>0. Executes("interp", {"unreachable", "host"}) BY DEF ITrap
<1>1. mode = "run" /\ InBody(Top) BY <1>0, ExecIs
<1>2. CASE At.op = "host" /\ At.n = 0
  <2>1. At.op \notin Terminators \cup {"end"} /\ At.op \notin Openers BY <1>2 DEF Terminators, Openers
  <2>2. FrameOK(Advance) BY <1>1, <2>1, AdvanceOK
  <2> QED BY <1>1, <1>2, <2>2, ActiveIs, StepGood DEF ITrap
<1>3. CASE ~(At.op = "host" /\ At.n = 0) BY <1>3, TrapGood DEF ITrap
<1> QED BY <1>2, <1>3

\* The interpreter returns past the last instruction.
LEMMA IDoneGood == ASSUME Active, IDone PROVE GoodNext
  BY ActiveIs, DeliverToJitGood, DeliverToCGood DEF IDone

\* Calls.
LEMMA ICallGood ==
  ASSUME Active, ICall \/ IReturnCall PROVE GoodNext
<1> DEFINE G == [Top EXCEPT !.sp = Len(stack)]
<1>0. Executes("interp", {"call", "call_ref", "return_call"})
  BY DEF ICall, IReturnCall, Executes
<1>1. /\ mode = "run" /\ InBody(Top) /\ Top.k = "interp" /\ At.op \in {"call", "call_ref", "return_call"}
      /\ DOMAIN Top = FrameFields /\ At = code[Top.fn][Top.pc]
  BY <1>0, ExecIs
<1>2. At.op # "end" BY <1>1
<1>3. At.n \in Funcs BY <1>0, <1>1, <1>2, ExecIs, ValidIs
<1>4. AtCall(Top) BY <1>1 DEF AtCall
<1>5. Moved(Top, G) /\ G.ctl = Top.ctl /\ G.pc = Top.pc BY <1>1 DEF Moved, FrameFields
<1> HIDE DEF G
<1>6. FrameOK(G) /\ AtCall(G) BY <1>4, <1>5, ActiveIs, SameOK
<1>7. FramesOK(SetTop(G), TRUE) BY <1>6, ActiveIs, TopGood DEF SetTop
<1>8. CASE jit[At.n]
  <2>1. EnterJit(SetTop(G), DropN(stack, NArgs(At.n)), At.n, Top.dep, eh)
    BY <1>8 DEF ICall, IReturnCall, G
  <2> QED BY <1>1, <1>3, <1>7, <1>8, <2>1, ActiveIs, EnterJitGood
<1>9. CASE ~jit[At.n] /\ ICall
  <2>1. EnterInterp(frames, stack, At.n, Top.dep + 1) BY <1>9 DEF ICall
  <2> QED BY <1>1, <1>3, <1>4, <2>1, AllWait, EnterInterpGood
<1>10. CASE ~jit[At.n] /\ IReturnCall
  <2>1. frames' = SetTop(InterpFrame(At.n, Top.base, Top.dep, Top.ctl[1].is_try)) /\ UNCHANGED <<mode, eh>>
    BY <1>10 DEF IReturnCall
  <2>2. FrameOK(InterpFrame(At.n, Top.base, Top.dep, Top.ctl[1].is_try)) BY <1>3, ActiveIs, InterpFrameOK
  <2> QED BY <1>1, <2>1, <2>2, ActiveIs, StepGood
<1> QED BY <1>8, <1>9, <1>10

\* Exceptions.
LEMMA IThrowGood ==
  ASSUME Active, CallRefUncaught, IThrow \/ IThrowRef \/ ICallFailed PROVE GoodNext
<1>1. CASE IThrow
  <2>1. Executes("interp", {"throw"}) BY <1>1 DEF IThrow
  <2>2. Top.k = "interp" /\ InBody(Top) BY <2>1, ExecIs
  <2> QED BY <1>1, <2>2, UnwindGood DEF IThrow
<1>2. CASE IThrowRef
  <2>1. Executes("interp", {"throw_ref"}) BY <1>2 DEF IThrowRef
  <2>2. Top.k = "interp" /\ InBody(Top) BY <2>1, ExecIs
  <2> QED BY <1>2, <2>2, UnwindGood, CrashGood DEF IThrowRef
<1>3. CASE ICallFailed
  <2>1. mode = "exn" /\ Top.k = "interp" BY <1>3 DEF ICallFailed
  <2>2. InBody(Top) BY <2>1, ActiveIs DEF AtCall
  <2> QED BY <1>3, <2>1, <2>2, UnwindGood DEF ICallFailed
<1> QED BY <1>1, <1>2, <1>3

\* Every step of an interpreter frame.
LEMMA InterpGood == ASSUME Active, CallRefUncaught, InterpNext PROVE GoodNext
  BY IOpenGood, IEndGood, IBrGood, ISimpleGood, ITrapGood, IDoneGood, ICallGood, IThrowGood
  DEF InterpNext

----------------------------------------------------------------------------
(* Generated code.                                                         *)

\* JOpen pushes a handler in front of a try_table body.
LEMMA JOpenGood == ASSUME Active, JOpen PROVE GoodNext
<1> DEFINE f == Top.fn
           p == Top.pc
           E == [Top EXCEPT !.pc = end_idx[f][p]]
           h == [fp |-> Fp, fn |-> f, blk |-> p, sp0 |-> Len(Top.ops)]
<1>0. Executes("jit", Openers) BY DEF JOpen
<1>1. /\ mode = "run" /\ InBody(Top) /\ Top.k = "jit" /\ At.op \in Openers /\ At = code[f][p]
      /\ DOMAIN Top = FrameFields /\ f \in Funcs /\ p \in Nat /\ p \in 1 .. Len(code[f]) /\ At1(f, p)
      /\ Len(code[f]) \in Nat
  BY <1>0, ExecIs
<1>2. At.op \notin Terminators \cup {"end"} /\ At.op # "end" BY <1>1 DEF Openers, Terminators
<1>3. ProgInv /\ built /\ HandlersOK(eh) /\ FrameOK(Top) BY ActiveIs
<1>4. jit[f] BY <1>1, <1>3 DEF FrameOK
<1>5. FrameOK(Advance) BY <1>1, <1>2, AdvanceOK
<1>6. FrameOK(E)
  <2>1. snap[f][p].skip = -1 BY <1>0, <1>1, <1>2, ExecIs
  <2>2. Opens(code[f], snap[f], p) BY <1>1, <2>1 DEF Opens
  <2>3. At1(f, end_idx[f][p]) BY <1>1, <1>3, <2>2, EndIs
  <2>4. DOMAIN E = FrameFields /\ E.k = "jit" /\ E.fn = f /\ E.pc = end_idx[f][p]
    BY <1>1 DEF FrameFields
  <2> HIDE DEF E
  <2>5. E.pc \in Nat \ {0} /\ Reach(f, E.pc) BY <1>1, <2>3, <2>4 DEF At1
  <2> QED BY <1>1, <1>4, <2>4, <2>5 DEF FrameOK
<1>7. HandlersOK(eh')
  <2>1. CASE At.op = "try_table"
    <3>1. eh' = Append(eh, h) BY <2>1 DEF JOpen
    <3>2. HandlerOK(h) BY <1>1, <1>4, <2>1 DEF HandlerOK
    <3> HIDE DEF h
    <3> QED BY <1>3, <3>1, <3>2, HandlersPush
  <2>2. CASE At.op # "try_table" BY <1>3, <2>2 DEF JOpen
  <2> QED BY <2>1, <2>2
<1>8. (frames' = SetTop(Advance) \/ frames' = SetTop(E)) /\ mode' = mode BY DEF JOpen
<1> QED BY <1>1, <1>5, <1>6, <1>7, <1>8, StepGood

\* An end.
LEMMA JEndGood == ASSUME Active, JEnd PROVE GoodNext
<1> DEFINE f == Top.fn
           p == Top.pc
<1>0. Executes("jit", {"end"}) BY DEF JEnd
<1>1. /\ mode = "run" /\ InBody(Top) /\ Top.k = "jit" /\ At.op = "end" /\ At = code[f][p]
      /\ DOMAIN Top = FrameFields /\ f \in Funcs /\ p \in Nat /\ p \in 1 .. Len(code[f]) /\ At1(f, p)
      /\ Len(code[f]) \in Nat
  BY <1>0, ExecIs
<1>2. ProgInv /\ built /\ HandlersOK(eh) /\ FrameOK(Top) BY ActiveIs
<1>3. Moved(Top, Advance) /\ Advance.ctl = Top.ctl /\ Advance.pc = p + 1
  BY <1>1 DEF Moved, Advance, FrameFields
<1>4. FrameOK(Advance)
  <2>1. CASE Len(snap[f][p].ctrl) = 0
    <3>1. p = Len(code[f]) BY <1>1, <1>2, <2>1, EndNext
    <3> QED BY <1>2, <1>3, <3>1, Finishing
  <2>2. CASE Len(snap[f][p].ctrl) # 0
    <3>1. At1(f, p + 1) BY <1>1, <1>2, <2>2, EndNext
    <3> QED BY <1>1, <1>2, <1>3, <3>1 DEF FrameOK, Moved, At1
  <2> QED BY <2>1, <2>2
<1>5. HandlersOK(eh')
  <2>1. eh' = ea_jit_eh_popn(1) \/ eh' = eh BY DEF JEnd
  <2> QED BY <1>2, <2>1, HandlersPop
<1> QED BY <1>1, <1>4, <1>5, StepGood DEF JEnd

\* A branch to label l.
LEMMA JJumpGood ==
  ASSUME Active, Executes("jit", {"br", "br_if", "br_table"}), NEW l \in 0 .. Len(Here.ctrl),
         JJump(l), UNCHANGED mode
  PROVE  GoodNext
<1> DEFINE k == LabelLvl(Here, l)
           os == SubSeq(Top.ops, 1, LabelHeight(Here, k)) \o LastN(Top.ops, Len(LabelTys(Top.fn, Here, k)))
           G == [Top EXCEPT !.ops = os, !.pc = LabelPc(Top.fn, Here, k)]
<1>1. /\ mode = "run" /\ InBody(Top) /\ Top.k = "jit" /\ DOMAIN Top = FrameFields
      /\ Len(Here.ctrl) \in Nat /\ Here = snap[Top.fn][Top.pc] /\ Top.fn \in Funcs
      /\ Top.pc \in 1 .. Len(code[Top.fn])
  BY ExecIs
<1>2. ProgInv /\ built /\ HandlersOK(eh) /\ FrameOK(Top) BY ActiveIs
<1>3. k \in 0 .. Len(Here.ctrl) BY <1>1 DEF LabelLvl
<1>4. frames' = SetTop(G) /\ eh' = ea_jit_eh_popn(eh_crossings(Here, l)) BY DEF JJump, PopCrossings
<1> HIDE DEF os, k
<1>5. DOMAIN G = FrameFields /\ G.k = "jit" /\ G.fn = Top.fn /\ G.pc = LabelPc(Top.fn, Here, k)
  BY <1>1 DEF FrameFields
<1> HIDE DEF G
<1>6. jit[Top.fn] BY <1>1, <1>2 DEF FrameOK
<1>7. FrameOK(G)
  <2>1. G.fn \in Funcs /\ jit[G.fn] /\ Top.pc \in 1 .. Len(code[G.fn]) BY <1>1, <1>5, <1>6
  <2>2. k \in 0 .. Len(snap[G.fn][Top.pc].ctrl) /\ G.pc = LabelPc(G.fn, snap[G.fn][Top.pc], k)
    BY <1>1, <1>3, <1>5
  <2> QED BY <1>1, <1>2, <1>5, <2>1, <2>2, Landed
<1>8. eh_crossings(Here, l) \in Nat
  <2>1. \A n \in Nat : \A x \in 0 .. n : x \in Int OBVIOUS
  <2>2. l \in Int BY <1>1, <2>1
  <2> QED BY <1>1, <2>2, CrossingsNat
<1>9. HandlersOK(eh') BY <1>2, <1>4, <1>8, HandlersPop
<1> QED BY <1>1, <1>4, <1>7, <1>9, StepGood

\* The branches.
LEMMA JBrGood == ASSUME Active, JBr PROVE GoodNext
<1>0. Executes("jit", {"br", "br_if", "br_table"}) /\ UNCHANGED mode BY DEF JBr
<1>1. /\ mode = "run" /\ InBody(Top) /\ Top.k = "jit" /\ At.op \in {"br", "br_if", "br_table"}
      /\ Len(Here.ctrl) \in Nat /\ At \in InstrType
  BY <1>0, ExecIs
<1>2. At.op # "end" BY <1>1
<1>3. ValidLive(Top.fn, Here, At) BY <1>0, <1>2, ExecIs
<1>4. At.n <= Len(Here.ctrl) BY <1>1, <1>3, ValidIs
<1>5. At.n \in Nat BY <1>1 DEF InstrType
<1>6. At.n \in 0 .. Len(Here.ctrl) /\ 0 \in 0 .. Len(Here.ctrl) BY <1>1, <1>4, <1>5
<1>7. CASE JJump(At.n) BY <1>0, <1>6, <1>7, JJumpGood
<1>8. CASE JJump(0) BY <1>0, <1>6, <1>8, JJumpGood
<1>9. CASE At.op = "br_if" /\ frames' = SetTop(Advance) /\ UNCHANGED <<eh, x0>>
  <2>1. At.op \notin Terminators \cup {"end"} BY <1>9 DEF Terminators
  <2>2. FrameOK(Advance) BY <1>1, <2>1, AdvanceOK
  <2> QED BY <1>0, <1>1, <1>9, <2>2, ActiveIs, StepGood
<1> QED BY <1>7, <1>8, <1>9 DEF JBr

\* Straight-line generated code moves on.
LEMMA JSimpleGood == ASSUME Active, JSimple PROVE GoodNext
<1> DEFINE os == CASE At.op = "push" -> Append(Advance.ops, "v")
                   [] At.op = "drop" -> DropN(Advance.ops, 1)
                   [] OTHER -> Advance.ops
           G == [Advance EXCEPT !.ops = os]
<1>0. Executes("jit", {"push", "drop", "popcnt"}) BY DEF JSimple
<1>1. /\ mode = "run" /\ InBody(Top) /\ Top.k = "jit" /\ At.op \in {"push", "drop", "popcnt"}
      /\ DOMAIN Top = FrameFields
  BY <1>0, ExecIs
<1>2. At.op \notin Terminators \cup {"end"} BY <1>1 DEF Terminators
<1>3. FrameOK(Advance) BY <1>1, <1>2, AdvanceOK
<1>4. frames' = SetTop(G) /\ mode' = mode /\ eh' = eh BY DEF JSimple
<1>5. DOMAIN Advance = FrameFields BY <1>3 DEF FrameOK
<1> HIDE DEF os
<1>6. Moved(Advance, G) /\ G.ctl = Advance.ctl /\ G.pc = Advance.pc BY <1>5 DEF Moved, FrameFields
<1> HIDE DEF G
<1>7. FrameOK(G) BY <1>3, <1>6, SameOK
<1> QED BY <1>1, <1>4, <1>7, ActiveIs, StepGood

\* A trap of generated code drops the frames.
LEMMA JTrapGood == ASSUME Active, JTrap PROVE GoodNext
<1>0. Executes("jit", {"unreachable", "host"}) BY DEF JTrap
<1>1. mode = "run" /\ InBody(Top) /\ Top.k = "jit" BY <1>0, ExecIs
<1>2. CASE At.op = "host"
  <2>1. At.op \notin Terminators \cup {"end"} BY <1>2 DEF Terminators
  <2>2. FrameOK(Advance) BY <1>1, <2>1, AdvanceOK
  <2> QED BY <1>1, <1>2, <2>2, ActiveIs, StepGood DEF JTrap
<1>3. CASE At.op # "host" BY <1>3, TrapGood DEF JTrap
<1> QED BY <1>2, <1>3

\* Returns.
LEMMA JReturnGood ==
  ASSUME Active, NEW e, HandlersOK(e), NEW one, JReturnWith(e, one) PROVE GoodNext
<1>1. CASE ~CallerIsJit BY <1>1, DeliverToCGood DEF JReturnWith
<1>2. CASE CallerIsJit /\ ~one BY <1>2, DeliverToJitGood DEF JReturnWith
<1>3. CASE CallerIsJit /\ one
  <2>1. mode' = "exn" /\ frames' = Front /\ eh' = e BY <1>3 DEF JReturnWith
  <2> QED BY <1>3, <2>1, ActiveIs DEF GoodNext, Good, CallerIsJit
<1> QED BY <1>1, <1>2, <1>3

\* Generated code returns.
LEMMA JDoneGood == ASSUME Active, JDone PROVE GoodNext
<1>1. CASE ~InCode /\ JReturnWith(eh, x0) BY <1>1, ActiveIs, JReturnGood
<1>2. CASE InCode /\ At.op = "return"
  <2>0. Executes("jit", {"return"}) BY <1>2 DEF JDone, Executes
  <2> DEFINE n == eh_crossings(Here, Len(Here.ctrl))
  <2>1. n \in Nat BY <2>0, ExecIs, CrossingsNat
  <2>2. HandlersOK(ea_jit_eh_popn(n)) BY <2>1, ActiveIs, HandlersPop
  <2>3. JReturnWith(ea_jit_eh_popn(n), x0 /\ n = 0) BY <1>2 DEF JDone
  <2> HIDE DEF n
  <2> QED BY <2>2, <2>3, JReturnGood
<1> QED BY <1>1, <1>2 DEF JDone

\* Calls.
LEMMA JCallGood == ASSUME Active, JCall PROVE GoodNext
<1> DEFINE os == DropN(Top.ops, NArgs(At.n))
           G == [Top EXCEPT !.ops = os]
<1>0. Executes("jit", {"call"}) BY DEF JCall
<1>1. /\ mode = "run" /\ InBody(Top) /\ Top.k = "jit" /\ At.op = "call"
      /\ DOMAIN Top = FrameFields /\ At = code[Top.fn][Top.pc]
  BY <1>0, ExecIs
<1>2. At.op # "end" /\ At.op \in {"call", "call_ref", "return_call"} BY <1>1
<1>3. At.n \in Funcs BY <1>0, <1>2, ExecIs, ValidIs
<1>4. AtCall(Top) BY <1>1 DEF AtCall
<1> HIDE DEF os
<1>5. Moved(Top, G) /\ G.ctl = Top.ctl /\ G.pc = Top.pc BY <1>1 DEF Moved, FrameFields
<1> HIDE DEF G
<1>6. FrameOK(G) /\ AtCall(G) BY <1>4, <1>5, ActiveIs, SameOK
<1>7. FramesOK(SetTop(G), TRUE) BY <1>6, ActiveIs, TopGood DEF SetTop
<1>8. CASE jit[At.n]
  <2>1. EnterJit(SetTop(G), stack, At.n, Top.dep, eh) BY <1>8 DEF JCall, G, os
  <2> QED BY <1>1, <1>3, <1>7, <1>8, <2>1, ActiveIs, EnterJitGood
<1>9. CASE ~jit[At.n]
  <2>1. EnterInterp(SetTop(G), stack \o LastN(Top.ops, NArgs(At.n)), At.n, Top.dep + 1)
    BY <1>9 DEF JCall, G, os
  <2> QED BY <1>1, <1>3, <1>7, <2>1, EnterInterpGood
<1> QED BY <1>8, <1>9

\* Tail calls.
LEMMA JReturnCallGood == ASSUME Active, JReturnCall PROVE GoodNext
<1> DEFINE e == ea_jit_eh_popn(eh_crossings(Here, Len(Here.ctrl)))
<1>0. Executes("jit", {"return_call"}) BY DEF JReturnCall
<1>1. mode = "run" /\ At.op = "return_call" /\ Len(Here.ctrl) \in Nat BY <1>0, ExecIs
<1>2. At.op # "end" /\ At.op \in {"call", "call_ref", "return_call"} BY <1>1
<1>3. At.n \in Funcs BY <1>0, <1>2, ExecIs, ValidIs
<1>4. HandlersOK(e)
  <2>1. eh_crossings(Here, Len(Here.ctrl)) \in Nat BY <1>1, CrossingsNat
  <2> QED BY <2>1, ActiveIs, HandlersPop
<1> HIDE DEF e
<1>5. CASE jit[At.n]
  <2>1. EnterJit(Front, stack, At.n, Top.dep, e) BY <1>5 DEF JReturnCall, e
  <2> QED BY <1>1, <1>3, <1>4, <1>5, <2>1, ActiveIs, EnterJitGood
<1>6. CASE ~jit[At.n] /\ Top.dep + 1 >= MaxDepth BY <1>6, TrapGood DEF JReturnCall
<1>7. CASE ~jit[At.n] /\ ~(Top.dep + 1 >= MaxDepth)
  <2>1. PICK b \in Ctl0Garbage :
          /\ frames' = Append(Front, InterpFrame(At.n, Len(stack), Top.dep + 1, b))
          /\ eh' = e /\ mode' = mode
    BY <1>7 DEF JReturnCall, e
  <2>2. FrameOK(InterpFrame(At.n, Len(stack), Top.dep + 1, b)) BY <1>3, ActiveIs, InterpFrameOK
  <2>3. FramesOK(frames', FALSE) /\ frames' # <<>> BY <2>1, <2>2, ActiveIs, PushGood
  <2> QED BY <1>1, <1>4, <2>1, <2>3 DEF GoodNext, Good
<1> QED BY <1>5, <1>6, <1>7

\* The innermost level flagged is_try.
LEMMA FastIs ==
  ASSUME NEW s, Len(s.ctrl) \in Nat, FastLvl(s) # 0
  PROVE  FastLvl(s) \in 1 .. Len(s.ctrl) /\ s.is_try[FastLvl(s)]
         /\ \A j \in 1 .. Len(s.ctrl) : s.is_try[j] => j <= FastLvl(s)
<1> DEFINE K == {k \in 1 .. Len(s.ctrl) : s.is_try[k]}
<1>1. K # {} /\ FastLvl(s) = CHOOSE k \in K : \A j \in K : j <= k BY DEF FastLvl
<1>2. K \in SUBSET (0 .. Len(s.ctrl)) OBVIOUS
<1>3. \E k \in K : \A j \in K : j <= k
  <2> HIDE DEF K
  <2> QED BY <1>1, <1>2, Extremes
<1>4. FastLvl(s) \in K /\ \A j \in K : j <= FastLvl(s) BY <1>1, <1>3
<1> QED BY <1>4

\* The inlined dispatch: the one clause of the try_table it finds, and the level
\* of its label.
LEMMA FastClauseIs ==
  ASSUME ProgInv, NEW f \in Funcs, NEW p \in 1 .. Len(code[f]), NEW t,
         FastThrow(f, snap[f][p], t)
  PROVE  LET s == snap[f][p] k == FastLvl(s) b == s.ctrl[k].blk IN
         /\ k \in 1 .. Len(s.ctrl) /\ At1(f, b) /\ code[f][b].op = "try_table"
         /\ 1 \in DOMAIN code[f][b].cs
         /\ k - 1 - code[f][b].cs[1].label \in 0 .. k - 1
         /\ Matches(code[f][b].cs[1], t)
<1> DEFINE s == snap[f][p]
           k == FastLvl(s)
           b == s.ctrl[k].blk
           i == code[f][b]
<1>0. Len(code[f]) \in Nat /\ IsSeq(s.ctrl) /\ Len(s.ctrl) \in Nat
  <2>1. Len(code[f]) \in Nat BY BodyIs
  <2>2. p \in 1 .. Len(code[f]) + 1 BY <2>1
  <2> QED BY <2>1, <2>2, BodyIs
<1>1. k # 0 /\ Len(i.cs) = 1 /\ (i.cs[1].kind = 2 \/ (i.cs[1].kind = 0 /\ i.cs[1].tag = t))
  BY DEF FastThrow
<1>2. k \in 1 .. Len(s.ctrl) BY <1>0, <1>1, FastIs
<1>3. b \in 1 .. p - 1 /\ Opens(code[f], snap[f], b) /\ snap[f][b].ctrl = SubSeq(s.ctrl, 1, k - 1)
  BY <1>2, LevelIs
<1>4. At1(f, b)
  <2>1. \A x \in 1 .. p - 1 : x \in 1 .. Len(code[f]) BY <1>0
  <2> QED BY <1>3, <2>1 DEF At1, Reach, Opens
<1>5. Len(snap[f][b].ctrl) = k - 1
  <2>1. k - 1 \in 0 .. Len(s.ctrl) BY <1>0, <1>2
  <2> QED BY ZenonT(30), <1>0, <1>3, <2>1, SeqCut
<1> HIDE DEF b, k, s
<1>6. i \in InstrType /\ i \in Instrs[f] BY <1>4, RunsIs
<1>7. i.cs \in Seq(Clauses) BY <1>6 DEF InstrType
<1>8. DOMAIN i.cs = 1 .. Len(i.cs) BY <1>7, LenProperties
<1>9. 1 \in DOMAIN i.cs BY <1>1, <1>8
<1>10. i.op = "try_table"
  <2> SUFFICES ASSUME i.op # "try_table" PROVE FALSE OBVIOUS
  <2>1. i.cs = <<>> BY <1>6, InstrsAssumption
  <2> QED BY <2>1, <1>1, SeqEmpty
<1>11. ValidLive(f, snap[f][b], i) BY <1>4, <1>10, RunsIs
<1>12. ClauseOK(f, snap[f][b], i.cs[1])
  <2> HIDE DEF i
  <2> QED BY <1>9, <1>10, <1>11 DEF ValidLive
<1>13. i.cs[1].label <= k - 1 BY <1>5, <1>12 DEF ClauseOK
<1>14. i.cs[1] \in Clauses BY <1>1, <1>7, ElementOfSeq
<1>15. i.cs[1].label \in Nat BY <1>14 DEF Clauses
<1>16. k - 1 - i.cs[1].label \in 0 .. k - 1
  <2>1. k \in Nat BY <1>0, <1>2
  <2> QED BY <1>13, <1>15, <2>1
<1>17. Matches(i.cs[1], t)
  <2>1. i.cs[1].kind = 2 => i.cs[1].kind >= 2 OBVIOUS
  <2> HIDE DEF i
  <2> QED BY <1>1, <2>1 DEF Matches
<1> QED BY <1>2, <1>4, <1>9, <1>10, <1>16, <1>17 DEF b, k, s

\* Exceptions.
LEMMA JThrowGood == ASSUME Active, JThrow PROVE GoodNext
<1>0. Executes("jit", {"throw"}) BY DEF JThrow
<1>1. /\ mode = "run" /\ InBody(Top) /\ Top.k = "jit" /\ DOMAIN Top = FrameFields
      /\ Len(Here.ctrl) \in Nat /\ Here = snap[Top.fn][Top.pc] /\ Top.fn \in Funcs
      /\ Top.pc \in 1 .. Len(code[Top.fn])
  BY <1>0, ExecIs
<1>2. ProgInv /\ built /\ HandlersOK(eh) /\ FrameOK(Top) BY ActiveIs
<1>3. CASE ~FastThrow(Top.fn, Here, At.t) BY <1>1, <1>3, DispatchGood DEF JThrow
<1>4. CASE FastThrow(Top.fn, Here, At.t)
  <2> DEFINE k == FastLvl(Here)
             c == code[Top.fn][Here.ctrl[k].blk].cs[1]
             m == k - 1 - c.label
             n == IF c.kind = 2 THEN 0 ELSE Len(LabelTys(Top.fn, Here, m))
             os == SubSeq(Top.ops, 1, LabelHeight(Here, m)) \o LastN(Top.ops, n)
             G == [Top EXCEPT !.ops = os, !.pc = LabelPc(Top.fn, Here, m)]
  <2>1. eh' = ea_jit_eh_popn(1) /\ frames' = SetTop(G) /\ mode' = mode BY <1>4 DEF JThrow
  <2>2. k \in 1 .. Len(Here.ctrl) /\ m \in 0 .. k - 1 BY <1>1, <1>2, <1>4, FastClauseIs
  <2>3. m \in 0 .. Len(Here.ctrl)
    <3>1. \A a \in Nat : \A b \in 1 .. a : \A x \in 0 .. b - 1 : x \in 0 .. a OBVIOUS
    <3> HIDE DEF k, m
    <3> QED BY <1>1, <2>2, <3>1
  <2> HIDE DEF os, m
  <2>4. DOMAIN G = FrameFields /\ G.k = "jit" /\ G.fn = Top.fn /\ G.pc = LabelPc(Top.fn, Here, m)
    BY <1>1 DEF FrameFields
  <2> HIDE DEF G
  <2>5. jit[Top.fn] BY <1>1, <1>2 DEF FrameOK
  <2>6. FrameOK(G)
    <3>1. G.fn \in Funcs /\ jit[G.fn] /\ Top.pc \in 1 .. Len(code[G.fn]) BY <1>1, <2>4, <2>5
    <3>2. m \in 0 .. Len(snap[G.fn][Top.pc].ctrl) /\ G.pc = LabelPc(G.fn, snap[G.fn][Top.pc], m)
      BY <1>1, <2>3, <2>4
    <3> QED BY <1>1, <1>2, <2>4, <3>1, <3>2, Landed
  <2>7. HandlersOK(eh') BY <1>2, <2>1, HandlersPop
  <2> QED BY <1>1, <2>1, <2>6, <2>7, StepGood
<1> QED BY <1>3, <1>4

\* Generated code that rethrows, or finds the marker after a call.
LEMMA JResumeGood == ASSUME Active, JThrowRef \/ JResume PROVE GoodNext
<1>1. CASE JThrowRef
  <2>1. Executes("jit", {"throw_ref"}) BY <1>1 DEF JThrowRef
  <2>2. Top.k = "jit" BY <2>1, ExecIs
  <2> QED BY <1>1, <2>2, DispatchGood, CrashGood DEF JThrowRef
<1>2. CASE JResume
  <2>1. mode = "exn" /\ Top.k = "jit" BY <1>2 DEF JResume
  <2>2. CASE pending # NoExn BY <1>2, <2>1, <2>2, DispatchGood DEF JResume
  <2>3. CASE pending = NoExn /\ CallerIsJit
    <3>1. frames' = Front /\ mode' = "exn" /\ eh' = eh BY <1>2, <2>1, <2>3 DEF JResume
    <3> QED BY <2>3, <3>1, ActiveIs DEF GoodNext, Good, CallerIsJit
  <2>4. CASE pending = NoExn /\ ~CallerIsJit
    <3>1. DeliverToC(stack \o Fill(NRes(Top.fn)), eh) BY <1>2, <2>4 DEF JResume
    <3> QED BY <3>1, ActiveIs, DeliverToCGood
  <2> QED BY <2>2, <2>3, <2>4
<1> QED BY <1>1, <1>2

\* Every step of generated code.
LEMMA JitGood == ASSUME Active, JitNext PROVE GoodNext
  BY JOpenGood, JEndGood, JBrGood, JSimpleGood, JTrapGood, JDoneGood, JCallGood, JReturnCallGood,
     JThrowGood, JResumeGood
  DEF JitNext

----------------------------------------------------------------------------
(* The theorem.                                                            *)

\* Starting an invoke.
LEMMA InvokeGood == ASSUME ExecInv, NEW f \in Funcs, Invoke(f) PROVE GoodNext
<1>1. ProgInv /\ HandlersOK(eh) BY DEF ExecInv, Good
<1>2. mode' = "run" /\ eh' = eh BY DEF Invoke
<1>3. ASSUME NEW F, FrameOK(F), frames' = <<F>> PROVE GoodNext
  <2>1. IsSeq(<<F>>) /\ Len(<<F>>) = 1 /\ <<F>>[1] = F BY SeqOne
  <2>2. FramesOK(<<F>>, FALSE) BY <1>3, <2>1 DEF FramesOK
  <2>3. <<F>> # <<>> BY <2>1, SeqEmpty
  <2> QED BY <1>1, <1>2, <1>3, <2>2, <2>3 DEF GoodNext, Good
<1>4. CASE jit[f]
  <2>1. frames' = <<JitFrame(f, 0)>> BY <1>4 DEF Invoke
  <2>2. FrameOK(JitFrame(f, 0)) BY <1>1, <1>4, JitFrameOK
  <2> QED BY <2>1, <2>2, <1>3
<1>5. CASE ~jit[f]
  <2>1. PICK g \in Ctl0Garbage : frames' = <<InterpFrame(f, Len(stack), 0, g)>>
    BY <1>5 DEF Invoke
  <2>2. FrameOK(InterpFrame(f, Len(stack), 0, g)) BY <1>1, InterpFrameOK
  <2> QED BY <2>1, <2>2, <1>3
<1> QED BY <1>4, <1>5

\* Instructions and unwinding need an invoke that runs.
LEMMA StepActive == ASSUME Step PROVE mode \in {"run", "exn"}
  BY DEF Step, InterpNext, JitNext, IOpen, IEnd, IBr, ISimple, ITrap, IDone, ICall, IReturnCall,
     IThrow, IThrowRef, ICallFailed, JOpen, JEnd, JBr, JSimple, JTrap, JDone, JCall, JReturnCall,
     JThrow, JThrowRef, JResume, Executes, Running

\* Every step keeps the invariant.
LEMMA ExecStep == ASSUME CallRefUncaught, ExecInv, [Next]_vars PROVE ExecInv'
<1>0. HandlerInv' BY HandlerStep DEF ExecInv
<1>1. CASE Step
  <2>1. UNCHANGED progvars BY <1>1 DEF Step
  <2>2. mode \in {"run", "exn"} BY <1>1, StepActive
  <2>3. Active BY <2>2 DEF Active
  <2>4. GoodNext BY <1>1, <2>3, InterpGood, JitGood DEF Step
  <2>5. Good(frames, mode, eh)' BY <2>1, <2>4, GoodSame DEF GoodNext
  <2>6. built' BY <2>1, <2>3, ActiveIs DEF progvars
  <2>7. ProgInv' BY <2>1, ProgSame DEF ExecInv
  <2> QED BY <1>0, <2>5, <2>6, <2>7 DEF ExecInv
<1>2. CASE Invoke(1) /\ UNCHANGED progvars
  <2>1. 1 \in Funcs BY NFuncsAssumption DEF Funcs
  <2>2. GoodNext BY <1>2, <2>1, InvokeGood
  <2>3. Good(frames, mode, eh)' BY <1>2, <2>2, GoodSame DEF GoodNext
  <2>4. built' BY <1>2 DEF Invoke, progvars
  <2>5. ProgInv' BY <1>2, ProgSame DEF ExecInv
  <2> QED BY <1>0, <2>3, <2>4, <2>5 DEF ExecInv
<1>3. CASE ProgNext /\ UNCHANGED execvars
  <2>1. ProgInv' BY <1>3, ProgStep DEF ExecInv
  <2>2. ~built BY <1>3 DEF ProgNext, Emit, Publish
  <2>3. frames' = <<>> /\ eh' = <<>> /\ mode' = mode BY <1>3, <2>2 DEF ExecInv, execvars
  <2>4. mode' = "idle" \/ mode' = "crash"
    BY <2>2, <2>3 DEF ExecInv, Good
  <2>5. FramesOK(frames, mode = "exn")' /\ HandlersOK(eh)'
    BY <2>3, SeqEmpty DEF FramesOK, HandlersOK
  <2>6. Good(frames, mode, eh)' BY <2>4, <2>5 DEF Good
  <2> QED BY <1>0, <2>1, <2>3, <2>6 DEF ExecInv
<1>4. CASE UNCHANGED vars
  <2>1. UNCHANGED progvars /\ UNCHANGED <<frames, eh, mode>> BY <1>4 DEF vars, progvars
  <2>2. Good(frames', mode', eh') BY <2>1 DEF ExecInv
  <2>3. Good(frames, mode, eh)' BY <2>1, <2>2, GoodSame
  <2>4. ProgInv' BY <2>1, ProgSame DEF ExecInv
  <2>5. built' = built BY <2>1 DEF progvars
  <2> QED BY <1>0, <2>1, <2>3, <2>4, <2>5 DEF ExecInv
<1> QED BY <1>1, <1>2, <1>3, <1>4 DEF Next, Finished

\* At the start there are no frames.
LEMMA ExecInit == Init => ExecInv
<1> SUFFICES ASSUME Init PROVE ExecInv OBVIOUS
<1>1. ProgInv BY ProgInitInv DEF Init
<1>2. HandlerInv BY DEF Init, HandlerInv, NoHandlersAtIdle
<1>3. Good(frames, mode, eh) BY NoneGood DEF Init, Good
<1> QED BY <1>1, <1>2, <1>3 DEF Init, ExecInv

\* An interpreter frame's run-time control stack is the block nesting at its
\* pc.
THEOREM ControlStaysExact == ASSUME CallRefUncaught PROVE Spec => []CtlExact
<1>1. ExecInv => CtlExact
  <2> SUFFICES ASSUME ExecInv, NEW i \in DOMAIN frames, frames[i].k = "interp", Inside(i)
               PROVE  LET F == frames[i] s == SnapAt(i)
                      IN /\ Len(F.ctl) = Len(s.ctrl) + 1
                         /\ \A k \in 1 .. Len(s.ctrl) :
                              /\ F.ctl[k + 1].blk = s.ctrl[k].blk
                              /\ F.ctl[k + 1].h = HOff(F) + s.ctrl[k].h
    BY DEF CtlExact
  <2>1. FramesOK(frames, mode = "exn") BY DEF ExecInv, Good
  <2>2. i \in 1 .. Len(frames) BY <2>1, SeqIs DEF FramesOK
  <2>3. FrameOK(frames[i]) BY <2>1, <2>2 DEF FramesOK
  <2>4. CtlOK(frames[i]) BY <2>3 DEF FrameOK, InBody, Inside
  <2> QED BY <2>4 DEF CtlOK, SnapAt
<1>2. ExecInv /\ [Next]_vars => ExecInv' BY ExecStep
<1> QED BY <1>1, <1>2, ExecInit, PTL DEF Spec

----------------------------------------------------------------------------
(* The pending exception.                                                  *)

\* popcnt's helper may leave 1 in x0, which a call site takes for the marker
NoResidue == "popcnt" \notin Shapes

\* the pending exception, the marker and the mode agree
PendingOK(m, p, x) == x = FALSE /\ (m = "run" => p = NoExn) /\ (m = "exn" => p \in Tags)
PendInv == PendingOK(mode, pending, x0)
PendNext == PendingOK(mode', pending', x0')

\* Traps, crashes and deliveries keep the agreement.
LEMMA TrapPend == ASSUME PendInv, Trap PROVE PendNext
  BY DEF PendInv, PendNext, PendingOK, Trap

\* A crash leaves nothing to agree on.
LEMMA CrashPend == ASSUME PendInv, Crash PROVE PendNext
  BY DEF PendInv, PendNext, PendingOK, Crash

\* Returning leaves no marker and no pending exception.
LEMMA DeliverPend ==
  ASSUME PendInv, mode = "run", NEW vs, NEW st, NEW e, DeliverToC(st, e) \/ DeliverToJit(vs, st, e)
  PROVE  PendNext
  BY DEF PendInv, PendNext, PendingOK, DeliverToC, DeliverToJit

\* Neither does entering a function.
LEMMA EnterPend ==
  ASSUME PendInv, mode = "run", NEW fs, NEW st, NEW f, NEW dep, NEW e,
         EnterInterp(fs, st, f, dep) \/ EnterJit(fs, st, f, dep, e)
  PROVE  PendNext
  BY TrapPend DEF PendInv, PendNext, PendingOK, EnterInterp, EnterJit

\* An exception of a tag the module has is caught or goes on.
LEMMA UnwindPend ==
  ASSUME PendInv, NEW F, NEW st, NEW t \in Tags, NEW skip, eh_unwind(F, st, t, skip) PROVE PendNext
<1>1. CASE Handlers(F, t) # {} BY <1>1 DEF PendInv, PendNext, PendingOK, eh_unwind
<1>2. CASE ~(Handlers(F, t) # {}) /\ F.ctl[1].is_try BY <1>2, CrashPend DEF eh_unwind
<1>3. CASE ~(Handlers(F, t) # {}) /\ ~F.ctl[1].is_try
  BY <1>3 DEF PendInv, PendNext, PendingOK, eh_unwind, Propagate
<1> QED BY <1>1, <1>2, <1>3

\* eh_dispatch either takes the exception or leaves it pending.
LEMMA DispatchPend == ASSUME PendInv, NEW t \in Tags, eh_dispatch(t) PROVE PendNext
<1>1. CASE MatchingEntries(t) # {}
  <2>1. Crash \/ (mode' = "run" /\ pending' = NoExn /\ x0' = FALSE) BY <1>1 DEF eh_dispatch
  <2> QED BY <2>1, CrashPend DEF PendNext, PendingOK
<1>2. CASE ~(MatchingEntries(t) # {})
  BY <1>2 DEF PendInv, PendNext, PendingOK, eh_dispatch, Propagate
<1> QED BY <1>1, <1>2

\* What is thrown has a tag of the module.
LEMMA ThrownIs ==
  ASSUME Active, NEW e, Executes(e, {"throw"}) PROVE At.t \in Tags
<1>1. At \in Instrs[Top.fn] /\ Top.fn \in Funcs /\ At.op = "throw" BY ExecIs
<1> QED BY <1>1, InstrsAssumption

\* Every step keeps the agreement.
LEMMA InterpPend == ASSUME Active, PendInv, InterpNext PROVE PendNext
<1>1. ASSUME mode = "run", UNCHANGED <<mode, pending, x0>> PROVE PendNext
  BY <1>1 DEF PendInv, PendNext, PendingOK
<1>2. CASE IOpen \/ IEnd \/ IBr \/ ISimple
  BY <1>1, <1>2 DEF IOpen, IEnd, IBr, ISimple, Executes, Running
<1>3. CASE ITrap BY <1>1, <1>3, TrapPend DEF ITrap, Executes, Running
<1>4. CASE IDone BY <1>4, DeliverPend DEF IDone, Running
<1>5. CASE ICall BY <1>5, EnterPend DEF ICall, Executes, Running
<1>6. CASE IReturnCall BY <1>1, <1>6, EnterPend DEF IReturnCall, Executes, Running
<1>7. CASE IThrow BY <1>7, ThrownIs, UnwindPend DEF IThrow
<1>8. CASE IThrowRef
  <2>1. TyOf(stack[Len(stack)]) = "exn" => stack[Len(stack)] \in Tags BY DEF TyOf
  <2> QED BY <1>8, <2>1, UnwindPend, CrashPend DEF IThrowRef
<1>9. CASE ICallFailed
  <2>1. pending \in Tags BY <1>9 DEF ICallFailed, PendInv, PendingOK
  <2> QED BY <1>9, <2>1, UnwindPend DEF ICallFailed
<1> QED BY <1>2, <1>3, <1>4, <1>5, <1>6, <1>7, <1>8, <1>9 DEF InterpNext

\* Every step of generated code keeps the agreement.
LEMMA JitPend == ASSUME Active, NoResidue, PendInv, JitNext PROVE PendNext
<1>1. ASSUME mode = "run", UNCHANGED <<mode, pending>>, x0' = FALSE PROVE PendNext
  BY <1>1 DEF PendInv, PendNext, PendingOK
<1>x. x0 = FALSE /\ (mode = "run" => pending = NoExn) BY DEF PendInv, PendingOK
<1>2. CASE JOpen BY <1>1, <1>2, <1>x DEF JOpen, Executes, Running
<1>3. CASE JEnd
  <2>1. x0' = FALSE BY <1>3, <1>x DEF JEnd
  <2> QED BY <1>1, <1>3, <2>1 DEF JEnd, Executes, Running
<1>4. CASE JBr
  <2>1. x0' = FALSE BY <1>4, <1>x DEF JBr, JJump, PopCrossings
  <2> QED BY <1>1, <1>4, <2>1 DEF JBr, Executes, Running
<1>5. CASE JSimple
  <2>1. Executes("jit", {"push", "drop", "popcnt"}) BY <1>5 DEF JSimple
  <2>2. Top.fn \in Funcs /\ Top.pc \in 1 .. Len(code[Top.fn]) /\ At = code[Top.fn][Top.pc]
        /\ snap[Top.fn][Top.pc].skip = -1
    BY <2>1, ExecIs DEF Here
  <2>3. jit[Top.fn] /\ ProgInv
    <3>1. FrameOK(Top) /\ ProgInv BY ActiveIs
    <3>2. Top.k = "jit" BY <2>1, ExecIs
    <3> QED BY <3>1, <3>2 DEF FrameOK
  <2>4. JitBody(code[Top.fn], snap[Top.fn]) BY <2>2, <2>3 DEF ProgInv
  <2>5. At.op # "popcnt" BY <2>2, <2>4 DEF JitBody, NoResidue
  <2>6. x0' = FALSE BY <1>5, <1>x, <2>5 DEF JSimple
  <2> QED BY <1>1, <1>5, <2>6 DEF JSimple, Executes, Running
<1>6. CASE JTrap BY <1>1, <1>6, TrapPend DEF JTrap, Executes, Running
<1>7. CASE JDone
  <2>1. ASSUME NEW e, NEW one, one = FALSE, JReturnWith(e, one), mode = "run" PROVE PendNext
    BY <2>1, DeliverPend DEF JReturnWith
  <2> QED BY <1>7, <1>x, <2>1 DEF JDone, Running
<1>8. CASE JCall BY <1>8, EnterPend DEF JCall, Executes, Running
<1>9. CASE JReturnCall
  <2>1. CASE jit[At.n] BY <1>9, <2>1, EnterPend DEF JReturnCall, Executes, Running
  <2>2. CASE ~jit[At.n] BY <1>1, <1>9, <2>2, <1>x, TrapPend DEF JReturnCall, Executes, Running
  <2> QED BY <2>1, <2>2
<1>10. CASE JThrow
  <2>1. CASE FastThrow(Top.fn, Here, At.t) BY <1>1, <1>10, <2>1 DEF JThrow, Executes, Running
  <2>2. CASE ~FastThrow(Top.fn, Here, At.t) BY <1>10, <2>2, ThrownIs, DispatchPend DEF JThrow
  <2> QED BY <2>1, <2>2
<1>11. CASE JThrowRef
  <2>1. TyOf(Top.ops[Len(Top.ops)]) = "exn" => Top.ops[Len(Top.ops)] \in Tags BY DEF TyOf
  <2> QED BY <1>11, <2>1, DispatchPend, CrashPend DEF JThrowRef
<1>12. CASE JResume
  <2>1. pending \in Tags BY <1>12 DEF JResume, PendInv, PendingOK
  <2>2. pending # NoExn BY <2>1, TagAssumption DEF NoExn
  <2> QED BY <1>12, <2>1, <2>2, DispatchPend DEF JResume
<1> QED BY <1>2, <1>3, <1>4, <1>5, <1>6, <1>7, <1>8, <1>9, <1>10, <1>11, <1>12 DEF JitNext

\* So does every step.
LEMMA PendStep ==
  ASSUME NoResidue, ExecInv, PendInv, [Next]_vars PROVE PendInv'
<1> SUFFICES PendNext BY DEF PendInv, PendNext
<1>1. CASE Step
  <2>1. mode \in {"run", "exn"} BY <1>1, StepActive
  <2>2. Active BY <2>1 DEF Active
  <2> QED BY <1>1, <2>2, InterpPend, JitPend DEF Step
<1>2. CASE Invoke(1) BY <1>2 DEF Invoke, PendNext, PendingOK
<1>3. CASE UNCHANGED <<mode, pending, x0>> BY <1>3 DEF PendInv, PendNext, PendingOK
<1> QED BY <1>1, <1>2, <1>3 DEF Next, Finished, execvars, vars

\* Code runs only while no exception is pending, and unwinding always has one.
THEOREM PendingStaysExact == ASSUME CallRefUncaught, NoResidue PROVE Spec => []PendingExact
<1>1. Init => ExecInv /\ PendInv
  BY ExecInit DEF Init, PendInv, PendingOK
<1>2. ExecInv /\ PendInv /\ [Next]_vars => (ExecInv /\ PendInv)'
  BY ExecStep, PendStep
<1>3. ExecInv /\ PendInv => PendingExact
  BY TagAssumption DEF PendInv, PendingOK, PendingExact, NoExn
<1> QED BY <1>1, <1>2, <1>3, PTL DEF Spec
=============================================================================
