------------------------- MODULE ExecEHTriesProofs --------------------------
(***************************************************************************)
(* The handler stack of generated code holds the try_tables that are open, *)
(* for every program that has none of the shapes the compiler is known to  *)
(* miscount (CleanTries), and every choice of compiled functions.          *)
(***************************************************************************)
EXTENDS ExecEHProofs, FunctionTheorems

----------------------------------------------------------------------------
(* The compile-time is_try flags.                                          *)

\* no shape that makes generated code lose count of its handlers
CleanTries == {"crosses_try", "stale_try", "dead_try_end"} \cap Shapes = {}

\* a level is flagged when its block is a try_table, and may be flagged when
\* its block is a loop or an if that left the flag as it was
FlagAt(sn, p, k) ==
  sn[p].is_try[k] =
    (\/ sn[p].ctrl[k].op = "try_table"
     \/ sn[p].ctrl[k].op \in {"loop", "if"} /\ sn[sn[p].ctrl[k].blk].is_try[k])

FlagsOK(cd, sn) ==
  \A p \in 1 .. Len(cd) + 1 :
    /\ sn[p].is_try \in [1 .. MaxNest -> BOOLEAN] /\ Len(sn[p].ctrl) <= MaxNest
    /\ \A k \in 1 .. Len(sn[p].ctrl) : FlagAt(sn, p, k)

TryProg == \A f \in Funcs : FlagsOK(code[f], snap[f])

\* What an instruction does to the flags.
LEMMA FlagsNext ==
  ASSUME NEW f, NEW s, SnapShape(s), NEW i, NEW pc
  PROVE  NextSnap(f, s, i, pc).is_try = IF i.op \in Openers /\ s.skip = -1 THEN IsTryAfter(s, i) ELSE s.is_try
<1> DEFINE n == NextSnap(f, s, i, pc)
           e == [blk |-> pc, op |-> i.op, bt |-> i.bt, h |-> Len(s.tys)]
<1>0. DOMAIN s = {"ctrl", "tys", "skip", "is_try", "closed"} /\ s.skip \in Int /\ s.skip >= -1
  BY DEF SnapShape
<1>1. CASE i.op \in Openers
  <2>1. n = Opened(s, i, pc) BY <1>1 DEF NextSnap, Openers, Terminators
  <2>2. CASE s.skip >= 0
    <3>1. n = [s EXCEPT !.skip = s.skip + 1] BY <2>1, <2>2 DEF Opened
    <3>2. n.is_try = s.is_try /\ s.skip # -1
      <4> HIDE DEF n
      <4> QED BY <3>1, <2>2, <1>0
    <3> QED BY <3>2
  <2>3. CASE ~(s.skip >= 0)
    <3>1. n = [s EXCEPT !.ctrl = Append(s.ctrl, e), !.is_try = IsTryAfter(s, i)]
      BY <2>1, <2>3 DEF Opened
    <3>2. n.is_try = IsTryAfter(s, i) /\ s.skip = -1
      <4> HIDE DEF n
      <4> QED BY <3>1, <2>3, <1>0
    <3> QED BY <3>2, <1>1
  <2> QED BY <2>2, <2>3
<1>2. CASE i.op = "end"
  <2>1. n = Closed(f, s) /\ i.op \notin Openers BY <1>2 DEF NextSnap, Openers, Terminators
  <2>3. n.is_try = s.is_try
    <3>1. CASE s.skip > 0
      <4>0. ~(s.skip <= 0 /\ s.ctrl = <<>>) BY <3>1, <1>0
      <4> HIDE DEF n
      <4>1. n = [s EXCEPT !.skip = s.skip - 1] BY <2>1, <3>1, <4>0 DEF Closed
      <4> QED BY <4>1, <1>0
    <3>2. CASE s.skip <= 0 /\ s.ctrl = <<>>
      <4>1. ~(s.skip > 0) BY <3>2, <1>0
      <4>2. n = [s EXCEPT !.tys = Sig[f].rs, !.skip = -1, !.closed = TRUE] BY <2>1, <3>2, <4>1 DEF Closed
      <4> HIDE DEF n
      <4> QED BY <4>2, <1>0
    <3>3. CASE s.skip <= 0 /\ s.ctrl # <<>>
      <4>1. ~(s.skip > 0) BY <3>3, <1>0
      <4> DEFINE t == SubSeq(s.tys, 1, CurHeight(s)) \o s.ctrl[Len(s.ctrl)].bt
      <4>2. n = [s EXCEPT !.tys = t, !.skip = -1, !.ctrl = DropN(s.ctrl, 1)] BY <2>1, <3>3, <4>1 DEF Closed
      <4> HIDE DEF t
      <4>3. n.is_try = s.is_try BY <4>2, <1>0
      <4> QED BY <4>3
    <3> QED BY <3>1, <3>2, <3>3, <1>0
  <2> QED BY <2>1, <2>3
<1>3. CASE i.op \in Terminators
  <2>1. n = Kill(s) /\ i.op \notin Openers BY <1>3 DEF NextSnap, Openers, Terminators
  <2>2. \E a : n = [s EXCEPT !.skip = 0, !.tys = a] BY <2>1 DEF Kill
  <2>3. n.is_try = s.is_try
    <3> HIDE DEF n
    <3> QED BY <2>2, <1>0
  <2> QED BY <2>1, <2>3
<1>4. CASE i.op \notin Openers \cup Terminators \cup {"end"}
  <2>1. n = s \/ \E t : n = [s EXCEPT !.tys = t] BY <1>4 DEF NextSnap
  <2>2. n.is_try = s.is_try
    <3> HIDE DEF n
    <3> QED BY <2>1, <1>0
  <2> QED BY <1>4, <2>2
<1> QED BY <1>1, <1>2, <1>3, <1>4

\* One more instruction keeps the flags in shape.
LEMMA FlagsEmit ==
  ASSUME NEW f, NEW cd, NEW sn, NEW ei, BodyOK(f, cd, sn, ei), FlagsOK(cd, sn),
         NEW p, p = Len(cd) + 1, NEW i, i.op \in Openers => Len(sn[p].ctrl) < MaxNest
  PROVE  FlagsOK(Append(cd, i), Append(sn, NextSnap(f, sn[p], i, p)))
<1> DEFINE s == sn[p]
           n == NextSnap(f, s, i, p)
           cd2 == Append(cd, i)
           sn2 == Append(sn, n)
           e == [blk |-> p, op |-> i.op, bt |-> i.bt, h |-> Len(s.tys)]
<1>1. /\ IsSeq(cd) /\ IsSeq(sn) /\ Len(sn) = Len(cd) + 1 /\ Len(cd) \in Nat
      /\ \A q \in 1 .. p : SnapShape(sn[q])
  BY SeqIs DEF BodyOK, BodySeqs, BodySnaps
<1>2. p \in Nat /\ p \in 1 .. p /\ p \in 1 .. Len(cd) + 1 /\ p + 1 \in Nat BY <1>1
<1>3. SnapShape(s) /\ IsSeq(s.ctrl) /\ Len(s.ctrl) \in Nat BY <1>1, <1>2, SeqIs DEF SnapShape
<1>4. Len(cd2) = p /\ IsSeq(cd2) BY <1>1, SeqAppend
<1>5. (\A q \in 1 .. p : sn2[q] = sn[q]) /\ sn2[p + 1] = n
  <2>1. Len(sn) = p BY <1>1
  <2> HIDE DEF n
  <2> QED BY <1>1, <2>1, SeqAppend
<1>6. After(s, i, p, n) BY <1>3, NextIs
<1>7. n.is_try = IF i.op \in Openers /\ s.skip = -1 THEN IsTryAfter(s, i) ELSE s.is_try
  BY <1>3, FlagsNext
<1>8. ASSUME NEW q \in 1 .. p, NEW k \in 1 .. Len(sn[q].ctrl)
      PROVE  sn[q].ctrl[k].blk \in 1 .. p /\ FlagAt(sn, q, k)
  <2>1. q \in 1 .. Len(cd) + 1 BY <1>1
  <2>2. BlockAt(cd, sn, q, k) BY <2>1 DEF BodyOK, BodyBlocks
  <2>3. PICK b \in 1 .. q - 1 : sn[q].ctrl[k] = Entry(cd, sn, b) BY <2>2 DEF BlockAt
  <2>4. sn[q].ctrl[k].blk = b BY <2>3 DEF Entry
  <2>5. b \in 1 .. p BY <1>2
  <2> QED BY <2>1, <2>4, <2>5 DEF FlagsOK
<1>9. s.is_try \in [1 .. MaxNest -> BOOLEAN] /\ Len(s.ctrl) <= MaxNest /\ MaxNest \in Nat
  BY <1>2, MaxNestAssumption DEF FlagsOK
<1>10. n.is_try \in [1 .. MaxNest -> BOOLEAN]
  <2>1. IsTryAfter(s, i) \in [1 .. MaxNest -> BOOLEAN]
    <3> HIDE DEF s
    <3> QED BY <1>9 DEF IsTryAfter
  <2> HIDE DEF n, s
  <2> QED BY <2>1, <1>7, <1>9
<1>11. Len(n.ctrl) <= MaxNest /\ \A k \in 1 .. Len(n.ctrl) : FlagAt(sn2, p + 1, k)
  <2>1. CASE i.op \in Openers /\ s.skip = -1
    <3>1. n.ctrl = Append(s.ctrl, e) /\ n.is_try = IsTryAfter(s, i) BY <2>1, <1>6, <1>7 DEF After
    <3>2. /\ Len(n.ctrl) = Len(s.ctrl) + 1 /\ (\A k \in 1 .. Len(s.ctrl) : n.ctrl[k] = s.ctrl[k])
          /\ n.ctrl[Len(s.ctrl) + 1] = e
      BY SMTT(30), <3>1, <1>3, SeqAppend
    <3>3. Len(s.ctrl) < MaxNest BY <2>1
    <3>4. Len(n.ctrl) <= MaxNest BY <3>2, <3>3, <1>3, <1>9
    <3>5. ASSUME NEW k \in 1 .. Len(s.ctrl) PROVE FlagAt(sn2, p + 1, k)
      <4>1. FlagAt(sn, p, k) /\ s.ctrl[k].blk \in 1 .. p BY <1>2, <1>8
      <4>2. k # Len(s.ctrl) + 1 BY <1>3
      <4>3. IsTryAfter(s, i)[k] = s.is_try[k]
        <5> HIDE DEF s
        <5> QED BY <4>2, <1>9 DEF IsTryAfter
      <4>4. sn2[s.ctrl[k].blk] = sn[s.ctrl[k].blk] BY <4>1, <1>5
      <4> HIDE DEF n, sn2
      <4> QED BY <1>5, <3>1, <3>2, <4>1, <4>3, <4>4 DEF FlagAt
    <3>6. FlagAt(sn2, p + 1, Len(s.ctrl) + 1)
      <4> DEFINE k == Len(s.ctrl) + 1
      <4>1. k \in 1 .. MaxNest BY <1>3, <1>9, <3>3
      <4>2. IsTryAfter(s, i)[k] = (i.op = "try_table" \/ (i.op \in {"loop", "if"} /\ s.is_try[k]))
        <5>1. i.op \in {"block", "loop", "if", "try_table"} BY <2>1 DEF Openers
        <5>2. CASE i.op = "try_table"
          <6>1. IsTryAfter(s, i) = [s.is_try EXCEPT ![k] = TRUE] BY <5>2 DEF IsTryAfter
          <6> HIDE DEF s, k
          <6> QED BY <6>1, <5>2, <4>1, <1>9
        <5>3. CASE i.op = "block"
          <6>1. IsTryAfter(s, i) = [s.is_try EXCEPT ![k] = FALSE] BY <5>3 DEF IsTryAfter
          <6> HIDE DEF s, k
          <6> QED BY <6>1, <5>3, <4>1, <1>9
        <5>4. CASE i.op \in {"loop", "if"}
          <6>1. IsTryAfter(s, i) = s.is_try BY <5>4 DEF IsTryAfter
          <6>2. s.is_try[k] \in BOOLEAN BY <4>1, <1>9
          <6> HIDE DEF s, k
          <6> QED BY <6>1, <6>2, <5>4
        <5> QED BY <5>1, <5>2, <5>3, <5>4
      <4>3. n.ctrl[k] = e /\ e.blk = p /\ e.op = i.op BY <3>2
      <4>4. sn2[p] = s BY <1>2, <1>5
      <4> HIDE DEF n, sn2, k, e, s
      <4>5. FlagAt(sn2, p + 1, k) BY <1>5, <3>1, <4>2, <4>3, <4>4 DEF FlagAt
      <4> QED BY <4>5 DEF k
    <3>7. \A k \in 1 .. Len(n.ctrl) : k \in 1 .. Len(s.ctrl) \/ k = Len(s.ctrl) + 1 BY <3>2, <1>3
    <3> QED BY <3>4, <3>5, <3>6, <3>7
  <2>2. CASE ~(i.op \in Openers /\ s.skip = -1)
    <3>1. n.is_try = s.is_try BY <2>2, <1>7
    <3>2. n.ctrl = s.ctrl \/ (s.ctrl # <<>> /\ n.ctrl = DropN(s.ctrl, 1))
      <4>1. s.skip \in Int /\ s.skip >= -1 BY <1>3 DEF SnapShape
      <4>2. CASE i.op \in Openers
        <5>1. s.skip >= 0 BY <4>1, <4>2, <2>2
        <5> QED BY <5>1, <4>2, <1>6 DEF After
      <4>3. CASE i.op = "end"
        <5>1. s.skip > 0 \/ s.skip <= 0 BY <4>1
        <5> QED BY <5>1, <4>3, <1>6 DEF After
      <4>4. CASE i.op \in Terminators BY <4>4, <1>6 DEF After
      <4>5. CASE i.op \notin Openers \cup Terminators \cup {"end"} BY <4>5, <1>6 DEF After
      <4> QED BY <4>2, <4>3, <4>4, <4>5
    <3>3. Len(n.ctrl) <= Len(s.ctrl) /\ \A k \in 1 .. Len(n.ctrl) : k \in 1 .. Len(s.ctrl) /\ n.ctrl[k] = s.ctrl[k]
      <4>1. CASE n.ctrl = s.ctrl BY <4>1, <1>3
      <4>2. CASE s.ctrl # <<>> /\ n.ctrl = DropN(s.ctrl, 1)
        <5>1. Len(s.ctrl) # 0 BY <4>2, <1>3, SeqEmpty
        <5>2. Len(s.ctrl) - 1 \in 0 .. Len(s.ctrl) BY <5>1, <1>3
        <5>3. Len(n.ctrl) = Len(s.ctrl) - 1 /\ \A k \in 1 .. Len(s.ctrl) - 1 : n.ctrl[k] = s.ctrl[k]
          BY <4>2, <5>2, <1>3, SeqCut DEF DropN
        <5> QED BY <5>3, <1>3
      <4> QED BY <3>2, <4>1, <4>2
    <3>4. ASSUME NEW k \in 1 .. Len(n.ctrl) PROVE FlagAt(sn2, p + 1, k)
      <4>0. k \in 1 .. Len(s.ctrl) /\ n.ctrl[k] = s.ctrl[k] BY <3>3
      <4>1. FlagAt(sn, p, k) /\ s.ctrl[k].blk \in 1 .. p BY <4>0, <1>2, <1>8
      <4>4. sn2[s.ctrl[k].blk] = sn[s.ctrl[k].blk] BY <4>1, <1>5
      <4> HIDE DEF n, sn2
      <4> QED BY <1>5, <3>1, <4>0, <4>1, <4>4 DEF FlagAt
    <3>5. Len(n.ctrl) <= MaxNest
      <4>1. Len(n.ctrl) \in Nat
        <5>1. n.ctrl = s.ctrl \/ n.ctrl = SubSeq(s.ctrl, 1, Len(s.ctrl) - 1) BY <3>2 DEF DropN
        <5>2. s.ctrl # <<>> => Len(s.ctrl) - 1 \in 0 .. Len(s.ctrl) BY <1>3, SeqEmpty
        <5>3. IsSeq(n.ctrl) BY <3>2, <5>1, <5>2, <1>3, SeqCut
        <5> QED BY <5>3, SeqIs
      <4> HIDE DEF n, s
      <4> QED BY <4>1, <3>3, <1>3, <1>9
    <3> QED BY <3>4, <3>5
  <2> QED BY <2>1, <2>2
<1>12. ASSUME NEW q \in 1 .. p, NEW k \in 1 .. Len(sn[q].ctrl) PROVE FlagAt(sn2, q, k)
  <2>1. FlagAt(sn, q, k) /\ sn[q].ctrl[k].blk \in 1 .. p BY <1>8
  <2>2. sn2[q] = sn[q] /\ sn2[sn[q].ctrl[k].blk] = sn[sn[q].ctrl[k].blk] BY <2>1, <1>5
  <2> HIDE DEF sn2
  <2> QED BY <2>1, <2>2 DEF FlagAt
<1>13. \A q \in 1 .. p : sn[q].is_try \in [1 .. MaxNest -> BOOLEAN] /\ Len(sn[q].ctrl) <= MaxNest
  BY <1>1 DEF FlagsOK
<1>14. \A q \in 1 .. Len(cd2) + 1 : q \in 1 .. p \/ q = p + 1 BY <1>2, <1>4
<1> HIDE DEF n, sn2, cd2
<1>15. FlagsOK(cd2, sn2)
  <2> SUFFICES ASSUME NEW q \in 1 .. Len(cd2) + 1
               PROVE  /\ sn2[q].is_try \in [1 .. MaxNest -> BOOLEAN] /\ Len(sn2[q].ctrl) <= MaxNest
                      /\ \A k \in 1 .. Len(sn2[q].ctrl) : FlagAt(sn2, q, k)
    BY DEF FlagsOK
  <2>1. CASE q \in 1 .. p BY <2>1, <1>5, <1>12, <1>13
  <2>2. CASE q = p + 1 BY <2>2, <1>5, <1>10, <1>11
  <2> QED BY <2>1, <2>2, <1>14
<1> QED BY <1>15 DEF n, sn2, cd2


\* Nothing has been decoded yet; decoding keeps the flags in shape.
LEMMA TryProgInit == ProgInit => TryProg
<1> SUFFICES ASSUME ProgInit, NEW f \in Funcs PROVE FlagsOK(code[f], snap[f]) BY DEF TryProg
<1>1. Len(<<>>) = 0 /\ Len(<<InitSnap>>) = 1 /\ <<InitSnap>>[1] = InitSnap BY SeqEmpty, SeqOne
<1>2. code[f] = <<>> /\ snap[f] = <<InitSnap>> BY DEF ProgInit
<1>3. \A p \in 1 .. Len(<<>>) + 1 : p = 1 BY <1>1
<1>4. InitSnap.is_try \in [1 .. MaxNest -> BOOLEAN] /\ InitSnap.ctrl = <<>> BY DEF InitSnap
<1>5. Len(InitSnap.ctrl) = 0 BY <1>1, <1>4
<1>6. 0 <= MaxNest BY MaxNestAssumption
<1> QED BY <1>1, <1>2, <1>3, <1>4, <1>5, <1>6 DEF FlagsOK

\* Every step of decoding and publishing keeps them.
LEMMA TryProgStep == ASSUME ProgInv, TryProg, ProgNext PROVE TryProg'
<1>1. ASSUME NEW f \in Funcs, NEW i \in Instrs[f], Emit(f, i) PROVE TryProg'
  <2> DEFINE p == Len(code[f]) + 1
             s == snap[f][p]
  <2>0. DOMAIN code = Funcs /\ DOMAIN snap = Funcs /\ \A g \in Funcs : BodyOK(g, code[g], snap[g], end_idx[g])
    BY DEF ProgInv
  <2>1. Cur(f) = s BY <2>0 DEF Cur, BodyOK, BodySeqs
  <2>2. /\ code' = [code EXCEPT ![f] = Append(code[f], i)]
        /\ snap' = [snap EXCEPT ![f] = Append(snap[f], NextSnap(f, s, i, p))]
        /\ i.op \in Openers => Len(s.ctrl) < MaxNest
    BY <1>1, <2>1 DEF Emit
  <2>3. FlagsOK(Append(code[f], i), Append(snap[f], NextSnap(f, s, i, p)))
    BY <2>0, <2>2, FlagsEmit DEF TryProg
  <2> HIDE DEF p, s
  <2>4. ASSUME NEW g \in Funcs PROVE FlagsOK(code'[g], snap'[g])
    <3>1. CASE g = f BY <3>1, <2>0, <2>2, <2>3
    <3>2. CASE g # f BY <3>2, <2>0, <2>2 DEF TryProg
    <3> QED BY <3>1, <3>2
  <2> QED BY <2>4 DEF TryProg, FlagsOK, FlagAt
<1>2. ASSUME NEW J \in JitChoices, Publish(J) PROVE TryProg'
  BY <1>2 DEF Publish, TryProg
<1> QED BY <1>1, <1>2 DEF ProgNext

\* In a compiled function the flag of an open level says what its block is.
LEMMA FlagIs ==
  ASSUME ProgInv, TryProg, CleanTries, NEW f \in Funcs, jit[f], NEW p \in 1 .. Len(code[f])
  PROVE  /\ Len(snap[f][p].ctrl) <= MaxNest
         /\ \A k \in 1 .. Len(snap[f][p].ctrl) :
              snap[f][p].is_try[k] <=> snap[f][p].ctrl[k].op = "try_table"
<1> DEFINE s == snap[f][p]
<1>0. Len(code[f]) \in Nat /\ p \in 1 .. Len(code[f]) + 1
  <2>1. Len(code[f]) \in Nat BY BodyIs
  <2> QED BY <2>1
<1>1. Len(s.ctrl) <= MaxNest BY <1>0 DEF TryProg, FlagsOK
<1>2. IsSeq(s.ctrl) /\ Len(s.ctrl) \in Nat BY <1>0, BodyIs
<1>3. ASSUME NEW k \in 1 .. Len(s.ctrl) PROVE s.is_try[k] <=> s.ctrl[k].op = "try_table"
  <2> DEFINE b == s.ctrl[k].blk
  <2>1. FlagAt(snap[f], p, k) BY <1>0 DEF TryProg, FlagsOK
  <2>2. /\ b \in 1 .. p - 1 /\ Opens(code[f], snap[f], b) /\ s.ctrl[k] = Entry(code[f], snap[f], b)
        /\ snap[f][b].ctrl = SubSeq(s.ctrl, 1, k - 1)
    BY LevelIs
  <2>3. Len(snap[f][b].ctrl) + 1 = k
    <3>1. k - 1 \in 0 .. Len(s.ctrl) /\ k \in Nat BY <1>2
    <3>2. Len(SubSeq(s.ctrl, 1, k - 1)) = k - 1 BY <1>2, <3>1, SeqCut
    <3> HIDE DEF s, b
    <3> QED BY <2>2, <3>1, <3>2
  <2>4. s.ctrl[k].op = code[f][b].op
    <3> HIDE DEF b
    <3> QED BY <2>2 DEF Entry
  <2>5. ~StaleTry(snap[f][b], code[f][b])
    <3>1. JitBody(code[f], snap[f]) BY DEF ProgInv
    <3>2. b \in 1 .. Len(code[f])
      <4>1. \A x \in Nat : \A y \in 1 .. x + 1 : \A z \in 1 .. y - 1 : z \in 1 .. x OBVIOUS
      <4>2. b \in 1 .. p - 1 BY <2>2
      <4> HIDE DEF b
      <4> QED BY <1>0, <4>1, <4>2
    <3>3. "stale_try" \notin Shapes BY DEF CleanTries
    <3> QED BY <2>2, <3>1, <3>2, <3>3 DEF JitBody, Opens
  <2>6. s.ctrl[k].op \in {"loop", "if"} => ~snap[f][b].is_try[k] BY <2>3, <2>4, <2>5 DEF StaleTry
  <2> HIDE DEF b
  <2>7. s.is_try[k] = (s.ctrl[k].op = "try_table" \/ (s.ctrl[k].op \in {"loop", "if"} /\ snap[f][b].is_try[k]))
    BY <2>1 DEF FlagAt, b
  <2> HIDE DEF s
  <2> QED BY <2>6, <2>7
<1> QED BY <1>1, <1>3

\* The handlers a branch to label l pops are those of the try_tables it leaves.
LEMMA CrossingsAre ==
  ASSUME ProgInv, TryProg, CleanTries, NEW f \in Funcs, jit[f], NEW p \in 1 .. Len(code[f]), NEW l,
         LabelLvl(snap[f][p], l) \in 0 .. Len(snap[f][p].ctrl)
  PROVE  eh_crossings(snap[f][p], l) =
           Cardinality({k \in LabelLvl(snap[f][p], l) + 1 .. Len(snap[f][p].ctrl) :
                          snap[f][p].ctrl[k].op = "try_table"})
<1> DEFINE s == snap[f][p]
           m == LabelLvl(s, l)
<1>0. Len(s.ctrl) \in Nat
  <2>1. Len(code[f]) \in Nat BY BodyIs
  <2>2. p \in 1 .. Len(code[f]) + 1 BY <2>1
  <2> QED BY <2>2, BodyIs
<1>1. \A k \in 1 .. Len(s.ctrl) : s.is_try[k] <=> s.ctrl[k].op = "try_table" BY FlagIs
<1>2. \A k \in m + 1 .. Len(s.ctrl) : k \in 1 .. Len(s.ctrl)
  <2> HIDE DEF m, s
  <2> QED BY <1>0 DEF m, s
<1>3. {k \in m + 1 .. Len(s.ctrl) : s.is_try[k]} = {k \in m + 1 .. Len(s.ctrl) : s.ctrl[k].op = "try_table"}
  <2> HIDE DEF m, s
  <2> QED BY <1>1, <1>2
<1> QED BY <1>3 DEF eh_crossings

----------------------------------------------------------------------------
(* Jumps.                                                                  *)

\* A block is closed behind every position it is open at.
LEMMA OpenUntil ==
  ASSUME ProgInv, built, NEW f \in Funcs, NEW p \in 1 .. Len(code[f]), NEW k \in 1 .. Len(snap[f][p].ctrl)
  PROVE  end_idx[f][snap[f][p].ctrl[k].blk] >= p
<1> DEFINE sn == snap[f]
           s == sn[p]
           b == s.ctrl[k].blk
           e == end_idx[f][b]
<1>0. /\ Len(code[f]) \in Nat /\ p \in 1 .. Len(code[f]) + 1 /\ p \in Nat
      /\ IsSeq(s.ctrl) /\ Len(s.ctrl) \in Nat
  <2>1. Len(code[f]) \in Nat BY BodyIs
  <2>2. p \in 1 .. Len(code[f]) + 1 /\ p \in Nat BY <2>1
  <2>3. IsSeq(s.ctrl) /\ Len(s.ctrl) \in Nat BY <2>2, BodyIs
  <2> QED BY <2>1, <2>2, <2>3
<1>1. /\ b \in 1 .. p - 1 /\ Opens(code[f], sn, b) /\ sn[b + 1].ctrl = SubSeq(s.ctrl, 1, k)
  BY LevelIs
<1> HIDE DEF b
<1>2. b \in 1 .. Len(code[f]) BY <1>0, <1>1
<1>3. e \in b + 1 .. Len(code[f]) /\ code[f][e].op = "end" /\ At1(f, e) /\ sn[e].ctrl = sn[b + 1].ctrl
  BY <1>1, <1>2, EndIs
<1> HIDE DEF e
<1>4. k \in 0 .. Len(s.ctrl) BY <1>0
<1>5. IsSeq(sn[e].ctrl) /\ Len(sn[e].ctrl) = k BY <1>0, <1>1, <1>3, <1>4, SeqCut
<1>6. b \in Nat /\ e \in Nat /\ e > b /\ e \in 1 .. Len(code[f])
  <2> HIDE DEF sn, s
  <2> QED BY <1>0, <1>1, <1>2, <1>3
<1>7. SUFFICES ASSUME e < p PROVE FALSE BY SMTT(30), <1>0, <1>6 DEF e, b
<1> DEFINE Q == {q \in e + 1 .. p : Len(sn[q].ctrl) >= k /\ sn[q].ctrl[k].blk = b}
<1>8. Q \in SUBSET (0 .. p) /\ p \in Q
  <2>1. Len(sn[p].ctrl) >= k /\ sn[p].ctrl[k].blk = b BY <1>0 DEF b
  <2>2. p \in e + 1 .. p /\ \A x \in e + 1 .. p : x \in 0 .. p BY <1>0, <1>6, <1>7
  <2> HIDE DEF sn, s
  <2> QED BY <2>1, <2>2
<1>9. PICK q \in Q : \A r \in Q : q <= r
  <2> HIDE DEF Q
  <2> QED BY <1>0, <1>8, Extremes
<1>10. q \in e + 1 .. p /\ Len(sn[q].ctrl) >= k /\ sn[q].ctrl[k].blk = b OBVIOUS
<1> HIDE DEF sn, s, b, e
<1>11. sn[e + 1].ctrl = SubSeq(sn[e].ctrl, 1, k - 1) /\ Len(sn[e + 1].ctrl) = k - 1
  <2>1. Len(sn[e].ctrl) # 0 BY <1>5, <1>0
  <2>2. sn[e + 1].ctrl = SubSeq(sn[e].ctrl, 1, Len(sn[e].ctrl) - 1) BY <2>1, <1>3, EndNext DEF sn
  <2>3. k - 1 \in 0 .. Len(sn[e].ctrl) BY <1>0, <1>5
  <2> QED BY <2>2, <2>3, <1>5, SeqCut
<1>12. q # e + 1 BY <1>0, <1>10, <1>11
<1> DEFINE r == q - 1
<1>13. r \in e + 1 .. p /\ r + 1 = q /\ r < q /\ r \in 1 .. Len(code[f]) /\ r \in 1 .. Len(code[f]) + 1
       /\ r > b /\ k \in Nat
  BY <1>0, <1>6, <1>10, <1>12
<1>14. ~(Len(sn[r].ctrl) >= k /\ sn[r].ctrl[k].blk = b)
  <2>1. r \notin Q BY <1>9, <1>13
  <2> QED BY <2>1, <1>13
<1> HIDE DEF r, Q
<1>15. After(sn[r], code[f][r], r, sn[q]) /\ IsSeq(sn[r].ctrl) /\ Len(sn[r].ctrl) \in Nat
       /\ sn[r].skip \in Int /\ sn[r].skip >= -1
  BY <1>13, BodyIs DEF sn
<1>16. \/ sn[q].ctrl = sn[r].ctrl
       \/ sn[r].ctrl # <<>> /\ sn[q].ctrl = SubSeq(sn[r].ctrl, 1, Len(sn[r].ctrl) - 1)
       \/ \E x : sn[q].ctrl = Append(sn[r].ctrl, x) /\ x.blk = r
  <2> DEFINE i == code[f][r]
             x == [blk |-> r, op |-> i.op, bt |-> i.bt, h |-> Len(sn[r].tys)]
  <2>1. CASE i.op \in Openers
    <3>1. CASE sn[r].skip = -1
      <4>1. sn[q].ctrl = Append(sn[r].ctrl, x) /\ x.blk = r BY <2>1, <3>1, <1>15 DEF After
      <4> QED BY <4>1
    <3>2. CASE sn[r].skip # -1
      <4>1. sn[r].skip >= 0 BY <3>2, <1>15
      <4> QED BY <2>1, <4>1, <1>15 DEF After
    <3> QED BY <3>1, <3>2
  <2>2. CASE i.op = "end"
    <3>1. sn[r].skip > 0 \/ sn[r].skip <= 0 BY <1>15
    <3> QED BY <2>2, <3>1, <1>15 DEF After, DropN
  <2>3. CASE i.op \in Terminators BY <2>3, <1>15 DEF After
  <2>4. CASE i.op \notin Openers \cup Terminators \cup {"end"} BY <2>4, <1>15 DEF After
  <2> QED BY <2>1, <2>2, <2>3, <2>4
<1>17. CASE sn[q].ctrl = sn[r].ctrl BY <1>10, <1>14, <1>17
<1>18. CASE sn[r].ctrl # <<>> /\ sn[q].ctrl = SubSeq(sn[r].ctrl, 1, Len(sn[r].ctrl) - 1)
  <2>1. Len(sn[r].ctrl) # 0 BY <1>15, <1>18, SeqEmpty
  <2>2. Len(sn[r].ctrl) - 1 \in 0 .. Len(sn[r].ctrl) BY <2>1, <1>15
  <2>3. Len(sn[q].ctrl) = Len(sn[r].ctrl) - 1 /\ \A j \in 1 .. Len(sn[r].ctrl) - 1 : sn[q].ctrl[j] = sn[r].ctrl[j]
    BY <2>2, <1>15, <1>18, SeqCut
  <2>4. k \in 1 .. Len(sn[r].ctrl) - 1 /\ Len(sn[r].ctrl) >= k BY <2>2, <2>3, <1>0, <1>10, <1>15
  <2> QED BY <2>3, <2>4, <1>10, <1>14
<1>19. CASE \E x : sn[q].ctrl = Append(sn[r].ctrl, x) /\ x.blk = r
  <2>1. PICK x : sn[q].ctrl = Append(sn[r].ctrl, x) /\ x.blk = r BY <1>19
  <2>2. /\ Len(sn[q].ctrl) = Len(sn[r].ctrl) + 1 /\ (\A j \in 1 .. Len(sn[r].ctrl) : sn[q].ctrl[j] = sn[r].ctrl[j])
        /\ sn[q].ctrl[Len(sn[r].ctrl) + 1] = x
    BY <2>1, <1>15, SeqAppend
  <2>3. CASE k \in 1 .. Len(sn[r].ctrl)
    <3>1. Len(sn[r].ctrl) >= k BY <2>3, <1>15
    <3> QED BY <3>1, <2>2, <2>3, <1>10, <1>14
  <2>4. CASE k \notin 1 .. Len(sn[r].ctrl)
    <3>1. k = Len(sn[r].ctrl) + 1 BY <2>2, <2>4, <1>0, <1>10, <1>15
    <3>2. b = r BY <3>1, <2>1, <2>2, <1>10
    <3> QED BY <3>2, <1>13, <1>6
  <2> QED BY <2>3, <2>4
<1> QED BY <1>16, <1>17, <1>18, <1>19

----------------------------------------------------------------------------
(* The handler stack and the frames.                                       *)

\* the levels of the try_tables that enclose F's pc, if it is generated code
TryLevels(F) ==
  {k \in 1 .. Len(snap[F.fn][F.pc].ctrl) :
     F.k = "jit" /\ InBody(F) /\ snap[F.fn][F.pc].ctrl[k].op = "try_table"}

\* and the try_tables at these levels
Tried(F) == {snap[F.fn][F.pc].ctrl[k].blk : k \in TryLevels(F)}

\* generated code is not at an end that pops nothing though it closes a try_table
DeadTry(f, p) ==
  LET s == snap[f][p] IN
  code[f][p].op = "end" /\ s.skip = 0 /\ s.ctrl # <<>> /\ s.ctrl[Len(s.ctrl)].op = "try_table"
Live(F) == F.k = "jit" /\ InBody(F) => ~DeadTry(F.fn, F.pc)

\* handler entries are ordered outermost frame first, outermost block first
Under(g, h) == g.fp < h.fp \/ (g.fp = h.fp /\ g.blk < h.blk)

\* the entries are the try_tables that are open, in order
EntryOK(fs, h) == h.fp \in 1 .. Len(fs) /\ h.fn = fs[h.fp].fn /\ h.blk \in Tried(fs[h.fp])
Entered(fs, e) ==
  \A i \in 1 .. Len(fs) : \A b \in Tried(fs[i]) : \E j \in 1 .. Len(e) : e[j].fp = i /\ e[j].blk = b
Sorted(e) == \A i, j \in 1 .. Len(e) : i < j => Under(e[i], e[j])

TriesOK(fs, e) ==
  /\ IsSeq(fs) /\ IsSeq(e)
  /\ \A j \in 1 .. Len(e) : EntryOK(fs, e[j])
  /\ Entered(fs, e) /\ Sorted(e)
  /\ \A i \in 1 .. Len(fs) : Live(fs[i])

TryInv == TryProg /\ TriesOK(frames, eh)
TryNext == TriesOK(frames', eh')

\* Handlers and frames agree as long as the program stays.
LEMMA TriesSame == ASSUME UNCHANGED progvars, TriesOK(frames', eh') PROVE TriesOK(frames, eh)'
<1>1. \A F : TryLevels(F) = TryLevels(F)' BY DEF TryLevels, InBody, progvars
<1>2. \A F : Tried(F) = Tried(F)' BY <1>1 DEF Tried, progvars
<1>3. \A F : Live(F) => Live(F)' BY DEF Live, InBody, DeadTry, progvars
<1>4. \A j \in 1 .. Len(eh') : EntryOK(frames', eh'[j]) BY DEF TriesOK
<1>5. \A j \in 1 .. Len(eh') : EntryOK(frames, eh[j])' BY <1>2, <1>4 DEF EntryOK
<1>6. Entered(frames', eh') BY DEF TriesOK
<1>7. Entered(frames, eh)' BY <1>2, <1>6 DEF Entered
<1>8. Sorted(eh)' /\ IsSeq(frames') /\ IsSeq(eh') BY DEF TriesOK, Sorted, Under
<1>9. \A i \in 1 .. Len(frames') : Live(frames[i])' BY <1>3 DEF TriesOK
<1> QED BY <1>5, <1>7, <1>8, <1>9 DEF TriesOK

\* No frames and no handlers agree.
LEMMA TriesNone == TriesOK(<<>>, <<>>)
  BY SeqEmpty DEF TriesOK, Entered, Sorted

\* The last element of a sequence is replaced.
LEMMA TopSet ==
  ASSUME NEW fs, IsSeq(fs), fs # <<>>, NEW G
  PROVE  LET gs == [fs EXCEPT ![Len(fs)] = G] IN
         /\ IsSeq(gs) /\ Len(gs) = Len(fs)
         /\ \A i \in 1 .. Len(fs) : gs[i] = IF i = Len(fs) THEN G ELSE fs[i]
<1>1. Len(fs) \in 1 .. Len(fs) BY NonEmpty
<1> QED BY <1>1, SeqExcept

\* The top frame moves; the entries of the try_tables it leaves are cut off.
LEMMA TriesMove ==
  ASSUME NEW fs, NEW e, TriesOK(fs, e), NEW n, n = Len(fs), fs # <<>>, NEW G, Live(G),
         Tried(G) \subseteq Tried(fs[n]), Tried(G) # {} => G.fn = fs[n].fn,
         NEW m \in 0 .. Len(e),
         \A j \in 1 .. Len(e) : j <= m <=> (e[j].fp < n \/ e[j].blk \in Tried(G))
  PROVE  TriesOK([fs EXCEPT ![n] = G], SubSeq(e, 1, m))
<1> DEFINE gs == [fs EXCEPT ![n] = G]
           d == SubSeq(e, 1, m)
<1>0. IsSeq(fs) /\ IsSeq(e) /\ n \in Nat /\ n \in 1 .. Len(fs) /\ Len(e) \in Nat
  BY NonEmpty, SeqIs DEF TriesOK
<1>1. /\ IsSeq(gs) /\ Len(gs) = n
      /\ \A i \in 1 .. n : gs[i] = IF i = n THEN G ELSE fs[i]
  <2>1. LET z == [fs EXCEPT ![Len(fs)] = G] IN
        /\ IsSeq(z) /\ Len(z) = Len(fs)
        /\ \A i \in 1 .. Len(fs) : z[i] = IF i = Len(fs) THEN G ELSE fs[i]
    BY <1>0, TopSet
  <2>2. gs = [fs EXCEPT ![Len(fs)] = G] OBVIOUS
  <2> HIDE DEF gs
  <2> QED BY <2>1, <2>2
<1>2. IsSeq(d) /\ Len(d) = m /\ \A j \in 1 .. m : d[j] = e[j] BY <1>0, SeqCut
<1> HIDE DEF gs, d
<1>3. \A j \in 1 .. m : j \in 1 .. Len(e) BY <1>0
<1>4. ASSUME NEW j \in 1 .. m PROVE EntryOK(gs, d[j])
  <2>1. EntryOK(fs, e[j]) /\ d[j] = e[j] /\ (e[j].fp < n \/ e[j].blk \in Tried(G))
    BY <1>2, <1>3 DEF TriesOK
  <2>2. e[j].fp \in 1 .. n BY <2>1 DEF EntryOK
  <2>3. CASE e[j].fp < n
    <3>1. gs[e[j].fp] = fs[e[j].fp] BY <1>1, <2>2, <2>3
    <3> QED BY <1>1, <2>1, <2>2, <3>1 DEF EntryOK
  <2>4. CASE ~(e[j].fp < n)
    <3>1. e[j].fp = n BY <1>0, <2>2, <2>4
    <3>2. gs[e[j].fp] = G /\ fs[e[j].fp] = fs[n] BY <1>0, <1>1, <3>1
    <3>3. e[j].blk \in Tried(G) /\ Tried(G) # {} BY <2>1, <2>4
    <3> QED BY <1>1, <2>1, <2>2, <3>2, <3>3 DEF EntryOK
  <2> QED BY <2>3, <2>4
<1>5. ASSUME NEW i \in 1 .. n, NEW b \in Tried(gs[i])
      PROVE  \E j \in 1 .. m : d[j].fp = i /\ d[j].blk = b
  <2>1. b \in Tried(fs[i])
    <3>1. CASE i = n BY <3>1, <1>0, <1>1
    <3>2. CASE i # n BY <3>2, <1>1
    <3> QED BY <3>1, <3>2
  <2>2. PICK j \in 1 .. Len(e) : e[j].fp = i /\ e[j].blk = b BY <2>1 DEF TriesOK, Entered
  <2>3. e[j].fp < n \/ e[j].blk \in Tried(G)
    <3>1. CASE i = n BY <3>1, <2>2, <1>1, <1>0
    <3>2. CASE i # n BY <3>2, <2>2, <1>0
    <3> QED BY <3>1, <3>2
  <2>4. j \in 1 .. m BY <2>3, <1>0
  <2> QED BY <2>2, <2>4, <1>2
<1>6. Sorted(d)
  <2> SUFFICES ASSUME NEW i \in 1 .. m, NEW j \in 1 .. m, i < j PROVE Under(d[i], d[j])
    BY <1>2 DEF Sorted
  <2>1. Under(e[i], e[j]) BY <1>3 DEF TriesOK, Sorted
  <2> QED BY <2>1, <1>2
<1>7. ASSUME NEW i \in 1 .. n PROVE Live(gs[i])
  <2>1. CASE i = n BY <2>1, <1>0, <1>1
  <2>2. CASE i # n BY <2>2, <1>1 DEF TriesOK
  <2> QED BY <2>1, <2>2
<1>8. TriesOK(gs, d) BY <1>1, <1>2, <1>4, <1>5, <1>6, <1>7 DEF TriesOK, Entered
<1> QED BY <1>8 DEF gs, d

\* The top frame moves within its try_tables.
LEMMA TriesKeep ==
  ASSUME NEW fs, NEW e, TriesOK(fs, e), NEW n, n = Len(fs), fs # <<>>, NEW G, Live(G), G.fn = fs[n].fn \/ Tried(G) = {},
         Tried(G) = Tried(fs[n])
  PROVE  TriesOK([fs EXCEPT ![n] = G], e)
<1>0. IsSeq(e) /\ Len(e) \in Nat /\ Len(e) \in 0 .. Len(e) /\ SubSeq(e, 1, Len(e)) = e /\ IsSeq(fs) /\ n \in Nat
  BY SeqIs, SeqCuts DEF TriesOK
<1>1. ASSUME NEW j \in 1 .. Len(e) PROVE j <= Len(e) <=> (e[j].fp < n \/ e[j].blk \in Tried(G))
  <2>1. e[j].fp \in 1 .. n /\ e[j].blk \in Tried(fs[e[j].fp]) BY DEF TriesOK, EntryOK
  <2>2. CASE e[j].fp = n BY <2>1, <2>2, <1>0
  <2>3. CASE e[j].fp # n
    <3>1. e[j].fp < n BY <2>1, <2>3, <1>0
    <3> QED BY <3>1, <1>0
  <2> QED BY <2>2, <2>3
<1>2. TriesOK([fs EXCEPT ![n] = G], SubSeq(e, 1, Len(e))) BY <1>0, <1>1, TriesMove
<1> QED BY <1>0, <1>2

\* The top frame is gone, and so are its entries.
LEMMA TriesLeave ==
  ASSUME NEW fs, NEW e, TriesOK(fs, e), NEW n, n = Len(fs), fs # <<>>, NEW m \in 0 .. Len(e),
         \A j \in 1 .. Len(e) : j <= m <=> e[j].fp < n
  PROVE  TriesOK(DropN(fs, 1), SubSeq(e, 1, m))
<1> DEFINE gs == SubSeq(fs, 1, n - 1)
           d == SubSeq(e, 1, m)
<1>0. IsSeq(fs) /\ IsSeq(e) /\ n \in Nat /\ n \in 1 .. Len(fs) /\ n - 1 \in 0 .. Len(fs) /\ Len(e) \in Nat
  <2>1. IsSeq(fs) /\ IsSeq(e) /\ n \in Nat /\ n \in 1 .. Len(fs) /\ Len(e) \in Nat
    BY NonEmpty, SeqIs DEF TriesOK
  <2>2. n - 1 \in 0 .. Len(fs) BY <2>1
  <2> QED BY <2>1, <2>2
<1>1. IsSeq(gs) /\ Len(gs) = n - 1 /\ \A i \in 1 .. n - 1 : gs[i] = fs[i] BY <1>0, SeqCut
<1>2. IsSeq(d) /\ Len(d) = m /\ \A j \in 1 .. m : d[j] = e[j] BY <1>0, SeqCut
<1> HIDE DEF gs, d
<1>3. (\A j \in 1 .. m : j \in 1 .. Len(e)) /\ (\A i \in 1 .. n - 1 : i \in 1 .. n /\ i < n) BY <1>0
<1>4. ASSUME NEW j \in 1 .. m PROVE EntryOK(gs, d[j])
  <2>1. EntryOK(fs, e[j]) /\ d[j] = e[j] /\ e[j].fp < n BY <1>2, <1>3 DEF TriesOK
  <2>2. e[j].fp \in 1 .. n BY <2>1 DEF EntryOK
  <2>3. e[j].fp \in 1 .. n - 1 BY <2>1, <2>2, <1>0
  <2>4. gs[e[j].fp] = fs[e[j].fp] BY <1>1, <2>3
  <2> QED BY <1>1, <2>1, <2>3, <2>4 DEF EntryOK
<1>5. ASSUME NEW i \in 1 .. n - 1, NEW b \in Tried(gs[i])
      PROVE  \E j \in 1 .. m : d[j].fp = i /\ d[j].blk = b
  <2>1. b \in Tried(fs[i]) BY <1>1
  <2>2. PICK j \in 1 .. Len(e) : e[j].fp = i /\ e[j].blk = b BY <2>1, <1>3 DEF TriesOK, Entered
  <2>3. j \in 1 .. m BY <2>2, <1>3, <1>0
  <2> QED BY <2>2, <2>3, <1>2
<1>6. Sorted(d)
  <2> SUFFICES ASSUME NEW i \in 1 .. m, NEW j \in 1 .. m, i < j PROVE Under(d[i], d[j])
    BY <1>2 DEF Sorted
  <2>1. Under(e[i], e[j]) BY <1>3 DEF TriesOK, Sorted
  <2> QED BY <2>1, <1>2
<1>7. \A i \in 1 .. n - 1 : Live(gs[i]) BY <1>1, <1>3 DEF TriesOK
<1>8. TriesOK(gs, d) BY <1>1, <1>2, <1>4, <1>5, <1>6, <1>7 DEF TriesOK, Entered
<1> QED BY <1>8 DEF gs, d, DropN

\* A frame outside any try_table leaves no entries.
LEMMA TriesFront ==
  ASSUME NEW fs, NEW e, TriesOK(fs, e), fs # <<>>, Tried(fs[Len(fs)]) = {}
  PROVE  TriesOK(DropN(fs, 1), e)
<1> DEFINE n == Len(fs)
<1>0. IsSeq(e) /\ Len(e) \in Nat /\ Len(e) \in 0 .. Len(e) /\ SubSeq(e, 1, Len(e)) = e /\ IsSeq(fs) /\ n \in Nat
  BY SeqIs, SeqCuts DEF TriesOK
<1>1. ASSUME NEW j \in 1 .. Len(e) PROVE j <= Len(e) <=> e[j].fp < n
  <2>1. e[j].fp \in 1 .. n /\ e[j].blk \in Tried(fs[e[j].fp]) BY DEF TriesOK, EntryOK
  <2>2. e[j].fp # n BY <2>1
  <2>3. e[j].fp < n BY <2>1, <2>2, <1>0
  <2> QED BY <2>3, <1>0
<1>2. TriesOK(DropN(fs, 1), SubSeq(e, 1, Len(e))) BY <1>0, <1>1, TriesLeave
<1> QED BY <1>0, <1>2

\* A frame outside any try_table is put on top.
LEMMA TriesPush ==
  ASSUME NEW fs, NEW e, TriesOK(fs, e), NEW G, Live(G), Tried(G) = {}
  PROVE  TriesOK(Append(fs, G), e)
<1> DEFINE gs == Append(fs, G)
           n == Len(fs)
<1>0. IsSeq(fs) /\ IsSeq(e) /\ n \in Nat /\ Len(e) \in Nat BY SeqIs DEF TriesOK
<1>1. IsSeq(gs) /\ Len(gs) = n + 1 /\ (\A i \in 1 .. n : gs[i] = fs[i]) /\ gs[n + 1] = G
  BY <1>0, SeqAppend
<1> HIDE DEF gs
<1>2. \A i \in 1 .. n + 1 : i \in 1 .. n \/ i = n + 1 BY <1>0
<1>3. \A i \in 1 .. n : i \in 1 .. n + 1 BY <1>0
<1>4. ASSUME NEW j \in 1 .. Len(e) PROVE EntryOK(gs, e[j])
  <2>1. EntryOK(fs, e[j]) BY DEF TriesOK
  <2>2. e[j].fp \in 1 .. n BY <2>1 DEF EntryOK
  <2>3. gs[e[j].fp] = fs[e[j].fp] /\ e[j].fp \in 1 .. n + 1 BY <1>1, <1>3, <2>2
  <2> QED BY <1>1, <2>1, <2>3 DEF EntryOK
<1>5. ASSUME NEW i \in 1 .. n + 1, NEW b \in Tried(gs[i])
      PROVE  \E j \in 1 .. Len(e) : e[j].fp = i /\ e[j].blk = b
  <2>1. i \in 1 .. n /\ gs[i] = fs[i] BY <1>1, <1>2
  <2> QED BY <2>1 DEF TriesOK, Entered
<1>6. \A i \in 1 .. n + 1 : Live(gs[i]) BY <1>1, <1>2 DEF TriesOK
<1>7. TriesOK(gs, e) BY <1>0, <1>1, <1>4, <1>5, <1>6 DEF TriesOK, Entered
<1> QED BY <1>7 DEF gs

\* The top frame enters a try_table, and an entry is pushed.
LEMMA TriesOpen ==
  ASSUME NEW fs, NEW e, TriesOK(fs, e), NEW n, n = Len(fs), fs # <<>>, NEW G, Live(G), G.fn = fs[n].fn,
         NEW p, Tried(G) = Tried(fs[n]) \cup {p}, \A b \in Tried(fs[n]) : b < p,
         NEW h, h.fp = n, h.fn = G.fn, h.blk = p
  PROVE  TriesOK([fs EXCEPT ![n] = G], Append(e, h))
<1> DEFINE gs == [fs EXCEPT ![n] = G]
           d == Append(e, h)
           L == Len(e)
<1>0. IsSeq(fs) /\ IsSeq(e) /\ n \in Nat /\ n \in 1 .. Len(fs) /\ L \in Nat
  BY NonEmpty, SeqIs DEF TriesOK
<1>1. /\ IsSeq(gs) /\ Len(gs) = n
      /\ \A i \in 1 .. n : gs[i] = IF i = n THEN G ELSE fs[i]
  <2>1. LET z == [fs EXCEPT ![Len(fs)] = G] IN
        /\ IsSeq(z) /\ Len(z) = Len(fs)
        /\ \A i \in 1 .. Len(fs) : z[i] = IF i = Len(fs) THEN G ELSE fs[i]
    BY <1>0, TopSet
  <2>2. gs = [fs EXCEPT ![Len(fs)] = G] OBVIOUS
  <2> HIDE DEF gs
  <2> QED BY <2>1, <2>2
<1>2. IsSeq(d) /\ Len(d) = L + 1 /\ (\A j \in 1 .. L : d[j] = e[j]) /\ d[L + 1] = h BY <1>0, SeqAppend
<1> HIDE DEF gs, d
<1>3. (\A j \in 1 .. L + 1 : j \in 1 .. L \/ j = L + 1) /\ (\A j \in 1 .. L : j \in 1 .. L + 1)
      /\ L + 1 \in 1 .. L + 1
  BY <1>0
<1>4. ASSUME NEW j \in 1 .. L + 1 PROVE EntryOK(gs, d[j])
  <2>1. CASE j \in 1 .. L
    <3>1. EntryOK(fs, e[j]) /\ d[j] = e[j] BY <1>2, <2>1 DEF TriesOK
    <3>2. e[j].fp \in 1 .. n BY <3>1 DEF EntryOK
    <3>3. CASE e[j].fp = n
      <4>1. gs[e[j].fp] = G BY <1>0, <1>1, <3>3
      <4> QED BY <1>1, <3>1, <3>2, <3>3, <4>1 DEF EntryOK
    <3>4. CASE e[j].fp # n
      <4>1. gs[e[j].fp] = fs[e[j].fp] BY <1>1, <3>2, <3>4
      <4> QED BY <1>1, <3>1, <3>2, <4>1 DEF EntryOK
    <3> QED BY <3>3, <3>4
  <2>2. CASE j = L + 1
    <3>1. d[j] = h /\ gs[n] = G /\ n \in 1 .. Len(gs) BY <1>0, <1>1, <1>2, <2>2
    <3> QED BY <3>1 DEF EntryOK
  <2> QED BY <2>1, <2>2, <1>3
<1>5. ASSUME NEW i \in 1 .. n, NEW b \in Tried(gs[i])
      PROVE  \E j \in 1 .. L + 1 : d[j].fp = i /\ d[j].blk = b
  <2>1. CASE i = n /\ b = p BY <2>1, <1>2, <1>3
  <2>2. CASE ~(i = n /\ b = p)
    <3>1. b \in Tried(fs[i])
      <4>1. CASE i = n BY <4>1, <2>2, <1>0, <1>1
      <4>2. CASE i # n BY <4>2, <1>1
      <4> QED BY <4>1, <4>2
    <3>2. PICK j \in 1 .. L : e[j].fp = i /\ e[j].blk = b BY <3>1 DEF TriesOK, Entered
    <3> QED BY <3>2, <1>2, <1>3
  <2> QED BY <2>1, <2>2
<1>6. Sorted(d)
  <2> SUFFICES ASSUME NEW i \in 1 .. L + 1, NEW j \in 1 .. L + 1, i < j PROVE Under(d[i], d[j])
    BY <1>2 DEF Sorted
  <2>0. i \in 1 .. L /\ d[i] = e[i] BY <1>0, <1>2
  <2>1. CASE j \in 1 .. L BY <2>0, <2>1, <1>2 DEF TriesOK, Sorted
  <2>2. CASE j = L + 1
    <3>1. EntryOK(fs, e[i]) BY <2>0 DEF TriesOK
    <3>2. e[i].fp \in 1 .. n /\ e[i].blk \in Tried(fs[e[i].fp]) BY <3>1 DEF EntryOK
    <3>3. d[j] = h BY <2>2, <1>2
    <3>4. CASE e[i].fp = n BY <2>0, <3>2, <3>3, <3>4 DEF Under
    <3>5. CASE e[i].fp # n
      <4>1. e[i].fp < n BY <1>0, <3>2, <3>5
      <4> QED BY <2>0, <3>3, <4>1 DEF Under
    <3> QED BY <3>4, <3>5
  <2> QED BY <2>1, <2>2, <1>3
<1>7. ASSUME NEW i \in 1 .. n PROVE Live(gs[i])
  <2>1. CASE i = n BY <2>1, <1>0, <1>1
  <2>2. CASE i # n BY <2>2, <1>1 DEF TriesOK
  <2> QED BY <2>1, <2>2
<1>8. TriesOK(gs, d) BY <1>1, <1>2, <1>4, <1>5, <1>6, <1>7 DEF TriesOK, Entered
<1> QED BY <1>8 DEF gs, d

----------------------------------------------------------------------------
(* How many entries a set of levels has.                                   *)

\* A set of positions that goes up to the last one is the tail of its size.
LEMMA UpClosed ==
  ASSUME NEW N \in Nat, NEW K \in SUBSET (1 .. N),
         \A j \in K : \A i \in 1 .. N : i > j => i \in K
  PROVE  /\ Cardinality(K) \in 0 .. N /\ N - Cardinality(K) \in 0 .. N
         /\ \A j \in 1 .. N : j <= N - Cardinality(K) <=> j \notin K
<1>1. CASE K = {}
  <2>1. Cardinality(K) = 0 BY <1>1, FS_EmptySet
  <2> QED BY <1>1, <2>1
<1>2. CASE K # {}
  <2>1. K \in SUBSET (0 .. N) OBVIOUS
  <2>2. PICK q \in K : \A j \in K : q <= j BY <1>2, <2>1, Extremes
  <2>3. q \in 1 .. N /\ q \in Int OBVIOUS
  <2>4. K = q .. N
    <3>1. ASSUME NEW x \in K PROVE x \in q .. N BY <2>2, <2>3, <3>1
    <3>2. ASSUME NEW x \in q .. N PROVE x \in K
      <4>1. x = q \/ (x > q /\ x \in 1 .. N) BY <2>3
      <4> QED BY <4>1
    <3> QED BY <3>1, <3>2
  <2>5. Cardinality(q .. N) = IF q > N THEN 0 ELSE N - q + 1 BY <2>3, FS_Interval
  <2>6. Cardinality(K) = N - q + 1 BY <2>3, <2>4, <2>5
  <2>7. \A j \in 1 .. N : j \notin K <=> j < q BY <2>3, <2>4
  <2> QED BY <2>3, <2>6, <2>7
<1> QED BY <1>1, <1>2

\* Inner blocks open later.
LEMMA BlksRise ==
  ASSUME ProgInv, NEW f \in Funcs, NEW p \in 1 .. Len(code[f])
  PROVE  LET C == snap[f][p].ctrl IN
         /\ \A k \in 1 .. Len(C) : C[k].blk \in Nat /\ C[k].blk < p
         /\ \A k, l \in 1 .. Len(C) : /\ k < l => C[k].blk < C[l].blk
                                      /\ C[k].blk = C[l].blk => k = l
<1> DEFINE C == snap[f][p].ctrl
<1>0. Len(code[f]) \in Nat /\ IsSeq(C) /\ Len(C) \in Nat
  <2>1. Len(code[f]) \in Nat BY BodyIs
  <2>2. p \in 1 .. Len(code[f]) + 1 BY <2>1
  <2> QED BY <2>1, <2>2, BodyIs
<1>1. ASSUME NEW k \in 1 .. Len(C) PROVE C[k].blk \in 1 .. p - 1 /\ C[k].blk \in 1 .. Len(code[f]) /\ C[k].blk < p
  <2>1. C[k].blk \in 1 .. p - 1 BY LevelIs
  <2>2. \A x \in 1 .. p - 1 : x \in 1 .. Len(code[f]) /\ x < p BY <1>0
  <2> QED BY <2>1, <2>2
<1>2. ASSUME NEW k \in 1 .. Len(C), NEW l \in 1 .. Len(C), k < l PROVE C[k].blk < C[l].blk
  <2> DEFINE b == C[l].blk
  <2>1. b \in 1 .. Len(code[f]) BY <1>1
  <2>2. snap[f][b].ctrl = SubSeq(C, 1, l - 1) BY LevelIs
  <2>3. l - 1 \in 0 .. Len(C) /\ k \in 1 .. l - 1 BY <1>0, <1>2
  <2>4. Len(snap[f][b].ctrl) = l - 1 /\ snap[f][b].ctrl[k] = C[k] BY ZenonT(30), <1>0, <2>2, <2>3, SeqCut
  <2> HIDE DEF b, C
  <2>5. k \in 1 .. Len(snap[f][b].ctrl) BY <2>3, <2>4
  <2>6. snap[f][b].ctrl[k].blk \in 1 .. b - 1 BY <2>1, <2>5, LevelIs
  <2>7. \A x \in 1 .. b - 1 : x < b BY <2>1
  <2>8. C[k].blk < b BY <2>4, <2>6, <2>7
  <2> QED BY <2>8 DEF b
<1>3. ASSUME NEW k \in 1 .. Len(C), NEW l \in 1 .. Len(C), C[k].blk = C[l].blk PROVE k = l
  <2> SUFFICES ASSUME k # l PROVE FALSE OBVIOUS
  <2>0. C[k].blk \in Int
    <3>1. \A x \in 1 .. p - 1 : x \in Int OBVIOUS
    <3> QED BY <1>1, <3>1
  <2>1. k < l \/ l < k BY <1>0
  <2>2. C[k].blk < C[l].blk \/ C[l].blk < C[k].blk BY <1>2, <2>1
  <2> HIDE DEF C
  <2> QED BY <2>0, <2>2, <1>3
<1>4. \A k \in 1 .. Len(C) : C[k].blk \in Nat
  <2>1. \A x \in 1 .. p - 1 : x \in Nat OBVIOUS
  <2> QED BY <1>1, <2>1
<1> QED BY <1>1, <1>2, <1>3, <1>4

\* the try_tables among the m outermost levels at p
Outer(f, p, m) ==
  {snap[f][p].ctrl[k].blk : k \in {x \in 1 .. m : snap[f][p].ctrl[x].op = "try_table"}}

\* the levels above m that are try_tables
Inner(f, p, m) == {k \in m + 1 .. Len(snap[f][p].ctrl) : snap[f][p].ctrl[k].op = "try_table"}

\* The entries of the try_tables above level m are the last ones, one each.
LEMMA LevelCut ==
  ASSUME Active, TryInv, Top.k = "jit", InBody(Top), NEW m \in 0 .. Len(Here.ctrl)
  PROVE  LET n == Cardinality(Inner(Top.fn, Top.pc, m)) IN
         /\ Len(eh) - n \in 0 .. Len(eh)
         /\ ea_jit_eh_popn(n) = SubSeq(eh, 1, Len(eh) - n)
         /\ \A j \in 1 .. Len(eh) :
              j <= Len(eh) - n <=> (eh[j].fp < Fp \/ eh[j].blk \in Outer(Top.fn, Top.pc, m))
<1> DEFINE f == Top.fn
           p == Top.pc
           C == snap[f][p].ctrl
           T == Inner(f, p, m)
           N == Len(eh)
           O == Outer(f, p, m)
           K == {j \in 1 .. N : eh[j].fp = Fp /\ eh[j].blk \notin O}
<1>0. ProgInv /\ TriesOK(frames, eh) /\ FrameOK(Top) /\ Fp \in Nat /\ Fp \in 1 .. Len(frames) /\ frames[Fp] = Top
  BY ActiveIs DEF TryInv, Fp, Top
<1>1. f \in Funcs /\ p \in 1 .. Len(code[f]) /\ Len(code[f]) \in Nat BY <1>0, FrameIs
<1>2. Len(C) \in Nat /\ Here.ctrl = C /\ N \in Nat
  <2>1. p \in 1 .. Len(code[f]) + 1 BY <1>1
  <2> QED BY <1>0, <1>1, <2>1, BodyIs, SeqIs DEF Here, TriesOK
<1>3. /\ \A k \in 1 .. Len(C) : C[k].blk \in Nat
      /\ \A k, l \in 1 .. Len(C) : /\ k < l => C[k].blk < C[l].blk
                                   /\ C[k].blk = C[l].blk => k = l
  BY ZenonT(30), <1>0, <1>1, BlksRise
<1>4. T = {k \in m + 1 .. Len(C) : C[k].op = "try_table"} BY DEF Inner
<1>5. O = {C[k].blk : k \in {x \in 1 .. m : C[x].op = "try_table"}} BY DEF Outer
<1>6. Tried(Top) = {C[k].blk : k \in {x \in 1 .. Len(C) : C[x].op = "try_table"}}
  BY DEF Tried, TryLevels
<1>7. ASSUME NEW j \in 1 .. N
      PROVE  /\ eh[j].fp \in 1 .. Fp
             /\ eh[j].fp = Fp => \E k \in 1 .. Len(C) : C[k].op = "try_table" /\ eh[j].blk = C[k].blk
  <2>1. EntryOK(frames, eh[j]) BY <1>0 DEF TriesOK
  <2>2. eh[j].fp \in 1 .. Fp /\ eh[j].blk \in Tried(frames[eh[j].fp]) BY <2>1 DEF EntryOK, Fp
  <2> HIDE DEF C
  <2> QED BY <1>0, <1>6, <2>2
<1> HIDE DEF C, T, O, N
<1>8. ASSUME NEW j \in K PROVE \E k \in T : eh[j].blk = C[k].blk
  <2>1. PICK k \in 1 .. Len(C) : C[k].op = "try_table" /\ eh[j].blk = C[k].blk BY <1>7
  <2>2. k \notin 1 .. m BY <2>1, <1>5
  <2>3. k \in m + 1 .. Len(C) BY <1>2, <2>2
  <2> QED BY <2>1, <2>3, <1>4
<1>9. ASSUME NEW k \in T PROVE C[k].blk \notin O /\ k \in 1 .. Len(C) /\ C[k].blk \in Tried(Top)
  <2>1. k \in m + 1 .. Len(C) /\ C[k].op = "try_table" BY <1>4
  <2>2. k \in 1 .. Len(C) /\ \A x \in 1 .. m : x \in 1 .. Len(C) /\ x # k BY <1>2, <2>1
  <2>3. ASSUME C[k].blk \in O PROVE FALSE
    <3>1. PICK x \in 1 .. m : C[x].blk = C[k].blk BY <1>5, <2>3
    <3> QED BY <3>1, <2>2, <1>3
  <2> QED BY <2>1, <2>2, <2>3, <1>6
<1>10. ASSUME NEW j \in K, NEW i \in 1 .. N, i > j PROVE i \in K
  <2>1. Under(eh[j], eh[i]) BY <1>0, <1>10 DEF TriesOK, Sorted, N
  <2>2. eh[i].fp \in 1 .. Fp /\ eh[j].fp = Fp BY <1>7
  <2>3. eh[i].fp = Fp /\ eh[j].blk < eh[i].blk BY <1>0, <2>1, <2>2 DEF Under
  <2>4. PICK k \in T : eh[j].blk = C[k].blk BY <1>8
  <2>5. k \in m + 1 .. Len(C) /\ k \in 1 .. Len(C) BY <1>4, <1>9
  <2>6. ASSUME eh[i].blk \in O PROVE FALSE
    <3>1. PICK x \in 1 .. m : C[x].blk = eh[i].blk BY <1>5, <2>6
    <3>2. x < k /\ x \in 1 .. Len(C) BY <1>2, <2>5
    <3>3. C[x].blk < C[k].blk /\ C[x].blk \in Nat /\ C[k].blk \in Nat BY <1>3, <3>2, <2>5
    <3>4. C[k].blk < C[x].blk BY <2>3, <2>4, <3>1
    <3> QED BY <3>3, <3>4
  <2> QED BY <2>3, <2>6
<1>11. K \in SUBSET (1 .. N) OBVIOUS
<1>12. /\ Cardinality(K) \in 0 .. N /\ N - Cardinality(K) \in 0 .. N
       /\ \A j \in 1 .. N : j <= N - Cardinality(K) <=> j \notin K
  <2> HIDE DEF K
  <2> QED BY <1>2, <1>10, <1>11, UpClosed
<1>13. Cardinality(T) = Cardinality(K)
  <2> DEFINE At2(k) == CHOOSE j \in K : eh[j].blk = C[k].blk
             g == [k \in T |-> At2(k)]
  <2>1. ASSUME NEW k \in T PROVE At2(k) \in K /\ eh[At2(k)].blk = C[k].blk
    <3>1. C[k].blk \in Tried(Top) /\ C[k].blk \notin O BY <1>9
    <3>2. PICK j \in 1 .. N : eh[j].fp = Fp /\ eh[j].blk = C[k].blk
      BY <1>0, <3>1 DEF TriesOK, Entered, N
    <3>3. j \in K BY <3>1, <3>2
    <3> HIDE DEF K
    <3> QED BY <3>2, <3>3
  <2>2. ASSUME NEW i \in K, NEW j \in K, eh[i].blk = eh[j].blk PROVE i = j
    <3> SUFFICES ASSUME i # j PROVE FALSE OBVIOUS
    <3>1. i < j \/ j < i BY <1>2
    <3>2. Under(eh[i], eh[j]) \/ Under(eh[j], eh[i]) BY <3>1, <1>0 DEF TriesOK, Sorted, N
    <3>3. eh[i].fp = Fp /\ eh[j].fp = Fp OBVIOUS
    <3>4. PICK k \in T : eh[j].blk = C[k].blk BY <1>8
    <3>5. eh[j].blk \in Nat BY <3>4, <1>9, <1>3
    <3> HIDE DEF K
    <3> QED BY <3>2, <3>3, <3>5, <2>2, <1>0 DEF Under
  <2> HIDE DEF At2, K
  <2>3. g \in [T -> K] BY <2>1
  <2>4. \A k, l \in T : g[k] = g[l] => k = l
    <3> SUFFICES ASSUME NEW k \in T, NEW l \in T, g[k] = g[l] PROVE k = l OBVIOUS
    <3>1. C[k].blk = C[l].blk BY <2>1
    <3> QED BY <3>1, <1>9, <1>3
  <2>5. \A j \in K : \E k \in T : g[k] = j
    <3> SUFFICES ASSUME NEW j \in K PROVE \E k \in T : g[k] = j OBVIOUS
    <3>1. PICK k \in T : eh[j].blk = C[k].blk BY <1>8
    <3>2. g[k] \in K /\ eh[g[k]].blk = eh[j].blk BY <2>1, <3>1
    <3>3. g[k] = j BY <3>2, <2>2
    <3> QED BY <3>3
  <2> HIDE DEF g
  <2>6. g \in Bijection(T, K) BY <2>3, <2>4, <2>5, Fun_IsBij
  <2>7. IsFiniteSet(T)
    <3>1. m + 1 \in Int /\ Len(C) \in Int BY <1>2
    <3>2. IsFiniteSet(m + 1 .. Len(C)) BY <3>1, FS_Interval
    <3> QED BY <3>2, <1>4, FS_Subset
  <2> QED BY <2>6, <2>7, FS_Bijection DEF ExistsBijection
<1>14. ASSUME NEW j \in 1 .. N PROVE j \notin K <=> (eh[j].fp < Fp \/ eh[j].blk \in O)
  <2>1. eh[j].fp \in 1 .. Fp BY <1>7
  <2>2. eh[j].fp = Fp <=> ~(eh[j].fp < Fp) BY <1>0, <2>1
  <2> QED BY <2>2
<1> HIDE DEF K
<1>15. ea_jit_eh_popn(Cardinality(T)) = SubSeq(eh, 1, N - Cardinality(T))
  <2>1. ~(Cardinality(T) > Len(eh)) BY <1>2, <1>12, <1>13 DEF N
  <2> QED BY <2>1 DEF ea_jit_eh_popn, DropN, N
<1> QED BY <1>12, <1>13, <1>14, <1>15 DEF N, T, O

----------------------------------------------------------------------------
(* The try_tables of frames that move.                                     *)

\* Frames at the same place have the same try_tables open.
LEMMA TriedSame ==
  ASSUME NEW F, NEW G, G.k = F.k, G.fn = F.fn, G.pc = F.pc
  PROVE  Tried(G) = Tried(F) /\ (Live(F) => Live(G))
<1>1. InBody(G) <=> InBody(F) BY DEF InBody
<1>2. TryLevels(G) = TryLevels(F) BY <1>1 DEF TryLevels
<1> QED BY <1>1, <1>2 DEF Tried, Live

\* An interpreter frame has none on the handler stack.
LEMMA TriedInterp == ASSUME NEW F, F.k = "interp" PROVE Tried(F) = {} /\ Live(F)
<1>1. TryLevels(F) = {} BY DEF TryLevels
<1> QED BY <1>1 DEF Tried, Live

\* Nor has a frame that is through.
LEMMA TriedDone == ASSUME NEW F, ~InBody(F) PROVE Tried(F) = {} /\ Live(F)
<1>1. TryLevels(F) = {} BY DEF TryLevels
<1> QED BY <1>1 DEF Tried, Live

\* Nor has a new one.
LEMMA TriedNew ==
  ASSUME ProgInv, NEW f \in Funcs, NEW d PROVE Tried(JitFrame(f, d)) = {} /\ Live(JitFrame(f, d))
<1> DEFINE F == JitFrame(f, d)
<1>1. F.k = "jit" /\ F.fn = f /\ F.pc = 1 BY DEF JitFrame
<1>2. snap[f][1] = InitSnap BY BodyIs
<1>3. snap[f][1].ctrl = <<>> /\ snap[f][1].skip = -1 BY <1>2 DEF InitSnap
<1>4. 1 .. Len(snap[f][1].ctrl) = {} BY <1>3, SeqEmpty
<1> HIDE DEF F
<1>5. TryLevels(F) = {} BY <1>1, <1>4 DEF TryLevels
<1>6. Live(F) BY <1>1, <1>3 DEF Live, DeadTry
<1>7. Tried(F) = {} BY <1>5 DEF Tried
<1> QED BY <1>6, <1>7 DEF F

\* The try_tables of generated code at p are those of all levels there.
LEMMA TriedAll ==
  ASSUME NEW F, F.k = "jit", InBody(F), NEW p, F.pc = p, NEW m, m = Len(snap[F.fn][p].ctrl)
  PROVE  Tried(F) = Outer(F.fn, p, m)
  BY DEF Tried, TryLevels, Outer

\* A stretch of the levels is the same at another place.
LEMMA OuterSame ==
  ASSUME NEW f, NEW p, NEW q, NEW m,
         \A k \in 1 .. m : snap[f][p].ctrl[k] = snap[f][q].ctrl[k]
  PROVE  Outer(f, p, m) = Outer(f, q, m)
<1>1. {x \in 1 .. m : snap[f][p].ctrl[x].op = "try_table"} = {x \in 1 .. m : snap[f][q].ctrl[x].op = "try_table"}
  OBVIOUS
<1> QED BY <1>1 DEF Outer

\* Generated code that jumps to level m leaves the try_tables above it.
LEMMA TriedLand ==
  ASSUME ProgInv, built, NEW f \in Funcs, NEW p \in 1 .. Len(code[f]), NEW m \in 0 .. Len(snap[f][p].ctrl),
         NEW G, G.k = "jit", G.fn = f, G.pc = LabelPc(f, snap[f][p], m)
  PROVE  Tried(G) = Outer(f, p, m)
<1>0. Len(code[f]) \in Nat /\ IsSeq(snap[f][p].ctrl) /\ Len(snap[f][p].ctrl) \in Nat
  <2>1. Len(code[f]) \in Nat BY BodyIs
  <2>2. p \in 1 .. Len(code[f]) + 1 BY <2>1
  <2> QED BY <2>1, <2>2, BodyIs
<1>1. CASE m = 0
  <2>1. G.pc = Len(code[f]) + 1 BY <1>1 DEF LabelPc
  <2>2. ~InBody(G) BY <1>0, <2>1 DEF InBody
  <2>3. {x \in 1 .. m : snap[f][p].ctrl[x].op = "try_table"} = {} BY <1>1
  <2>4. Outer(f, p, m) = {} BY <2>3 DEF Outer
  <2> QED BY <2>2, <2>4, TriedDone
<1>2. CASE m # 0
  <2> DEFINE t == LabelPc(f, snap[f][p], m)
  <2>1. m \in 1 .. Len(snap[f][p].ctrl) BY <1>2
  <2>2. At1(f, t) /\ snap[f][t].ctrl = SubSeq(snap[f][p].ctrl, 1, m) BY <2>1, TargetIs
  <2> HIDE DEF t
  <2>3. Len(snap[f][t].ctrl) = m /\ \A k \in 1 .. m : snap[f][t].ctrl[k] = snap[f][p].ctrl[k]
    BY <1>0, <2>2, SeqCut
  <2>4. G.pc = t BY DEF t
  <2>5. InBody(G)
    <3>1. t \in 1 .. Len(code[f]) BY <2>2 DEF At1
    <3>2. \A x \in 1 .. Len(code[f]) : x <= Len(code[f]) BY <1>0
    <3> QED BY <2>4, <3>1, <3>2 DEF InBody
  <2>6. Tried(G) = Outer(f, t, m) BY <2>3, <2>4, <2>5, TriedAll
  <2>7. Outer(f, t, m) = Outer(f, p, m) BY <2>3, OuterSame
  <2> QED BY <2>6, <2>7
<1> QED BY <1>1, <1>2

\* No jump lands on an end that closes a try_table and does not pop.
LEMMA NotDead ==
  ASSUME ProgInv, built, CleanTries, NEW f \in Funcs, jit[f], NEW p \in 1 .. Len(code[f]),
         snap[f][p].skip = -1, code[f][p].op # "end",
         NEW k \in 1 .. Len(snap[f][p].ctrl), LeapsTo(code[f], snap[f], p, k)
  PROVE  ~DeadTry(f, LabelPc(f, snap[f][p], k))
<1> DEFINE s == snap[f][p]
           b == s.ctrl[k].blk
           t == LabelPc(f, s, k)
<1>0. Len(code[f]) \in Nat /\ IsSeq(s.ctrl) /\ Len(s.ctrl) \in Nat
  <2>1. Len(code[f]) \in Nat BY BodyIs
  <2>2. p \in 1 .. Len(code[f]) + 1 BY <2>1
  <2> QED BY <2>1, <2>2, BodyIs
<1>1. b \in 1 .. p - 1 /\ snap[f][b + 1].skip = -1 BY LevelIs
<1>2. At1(f, t) /\ snap[f][t].ctrl = SubSeq(s.ctrl, 1, k) BY TargetIs
<1>3. k # 0 BY <1>0
<1>4. CASE s.ctrl[k].op = "loop"
  <2>1. t = b + 1 BY <1>3, <1>4 DEF LabelPc
  <2>2. snap[f][t].skip = -1 BY <1>1, <2>1
  <2> HIDE DEF t
  <2>3. ~DeadTry(f, t) BY <2>2 DEF DeadTry
  <2> QED BY <2>3 DEF t
<1>5. CASE s.ctrl[k].op # "loop"
  <2>1. t = end_idx[f][b] BY <1>3, <1>5 DEF LabelPc
  <2>2. t >= p BY <2>1, OpenUntil
  <2>3. t \in 1 .. Len(code[f]) BY <1>2 DEF At1
  <2>4. k \in 0 .. Len(s.ctrl) BY <1>0
  <2> HIDE DEF t, s, b
  <2>5. Len(snap[f][t].ctrl) = k /\ \A x \in 1 .. k : snap[f][t].ctrl[x] = s.ctrl[x]
    BY <1>0, <1>2, <2>4, SeqCut
  <2>6. snap[f][t].ctrl[k].blk = b
    <3>1. k \in 1 .. k BY <1>0 DEF s
    <3> QED BY <2>5, <3>1 DEF b
  <2>7. ~DeadTry(f, t)
    <3> SUFFICES ASSUME DeadTry(f, t) PROVE FALSE OBVIOUS
    <3>1. /\ code[f][t].op = "end" /\ snap[f][t].skip = 0 /\ snap[f][t].ctrl # <<>>
          /\ snap[f][t].ctrl[Len(snap[f][t].ctrl)].op = "try_table"
      BY DEF DeadTry
    <3>2. t # p BY <3>1
    <3>3. p \in b + 1 .. t - 1 BY <1>0, <1>1, <2>2, <2>3, <3>2
    <3>4. p \in snap[f][t].ctrl[Len(snap[f][t].ctrl)].blk + 1 .. t - 1 BY <2>5, <2>6, <3>3
    <3>5. LeapsTo(code[f], snap[f], p, Len(snap[f][t].ctrl)) BY <2>5
    <3>6. DeadEnd(code[f], snap[f], t) BY <3>1, <3>4, <3>5 DEF DeadEnd
    <3>7. JitBody(code[f], snap[f]) BY DEF ProgInv
    <3>8. "dead_try_end" \notin Shapes BY DEF CleanTries
    <3> QED BY <2>3, <3>6, <3>7, <3>8 DEF JitBody
  <2> QED BY <2>7 DEF t, s
<1> QED BY <1>4, <1>5

\* Generated code is live where a jump lands.
LEMMA LiveLand ==
  ASSUME ProgInv, built, CleanTries, NEW f \in Funcs, jit[f], NEW p \in 1 .. Len(code[f]),
         snap[f][p].skip = -1, code[f][p].op # "end",
         NEW m \in 0 .. Len(snap[f][p].ctrl), m # 0 => LeapsTo(code[f], snap[f], p, m),
         NEW G, G.k = "jit", G.fn = f, G.pc = LabelPc(f, snap[f][p], m)
  PROVE  Live(G)
<1>1. CASE m = 0
  <2>0. Len(code[f]) \in Nat BY BodyIs
  <2>1. G.pc = Len(code[f]) + 1 BY <1>1 DEF LabelPc
  <2>2. ~InBody(G) BY <2>0, <2>1 DEF InBody
  <2> QED BY <2>2, TriedDone
<1>2. CASE m # 0
  <2>1. m \in 1 .. Len(snap[f][p].ctrl) BY <1>2
  <2>2. ~DeadTry(f, LabelPc(f, snap[f][p], m)) BY <1>2, <2>1, NotDead
  <2> QED BY <2>2 DEF Live
<1> QED BY <1>1, <1>2

\* Generated code that falls through goes on in the same try_tables, live.
LEMMA TriedNext ==
  ASSUME ProgInv, built, NEW F, FrameOK(F), InBody(F),
         code[F.fn][F.pc].op \notin Terminators \cup {"end"} \cup Openers,
         NEW G, G.k = F.k, G.fn = F.fn, G.pc = F.pc + 1
  PROVE  Tried(G) = Tried(F) /\ Live(G)
<1> DEFINE f == F.fn
           p == F.pc
<1>1. f \in Funcs /\ At1(f, p) /\ Len(code[f]) \in Nat /\ p \in 1 .. Len(code[f]) BY FrameIs
<1>2. code[f][p].op \notin Terminators \cup {"end"} /\ code[f][p].op \notin Openers OBVIOUS
<1>3. At1(f, p + 1) /\ snap[f][p + 1].ctrl = snap[f][p].ctrl BY <1>1, <1>2, NextIn
<1>4. snap[f][p].skip = -1 BY <1>1, <1>2, RunsIs
<1>5. snap[f][p + 1].skip = -1
  <2>1. After(snap[f][p], code[f][p], p, snap[f][p + 1]) BY <1>1, BodyIs
  <2> QED BY <1>2, <1>4, <2>1 DEF After
<1> HIDE DEF f, p
<1>6. G.fn = f /\ G.pc = p + 1 /\ F.fn = f /\ F.pc = p BY DEF f, p
<1>7. InBody(G) /\ InBody(F)
  <2>1. p + 1 \in 1 .. Len(code[f]) BY <1>3 DEF At1
  <2>2. p + 1 <= Len(code[f]) BY <1>1, <2>1
  <2> QED BY <1>6, <2>2 DEF InBody
<1>8. TryLevels(G) = TryLevels(F) BY <1>3, <1>6, <1>7 DEF TryLevels
<1>9. Tried(G) = Tried(F) BY <1>3, <1>6, <1>8 DEF Tried
<1>10. Live(G) BY <1>5, <1>6 DEF Live, DeadTry
<1> QED BY <1>9, <1>10

\* Behind an instruction that opens a block generated code has entered the
\* block's try_table, if it is one.
LEMMA TriedOpen ==
  ASSUME ProgInv, built, NEW F, FrameOK(F), F.k = "jit", InBody(F), code[F.fn][F.pc].op \in Openers,
         NEW G, G.k = "jit", G.fn = F.fn, G.pc = F.pc + 1
  PROVE  /\ Live(G) /\ \A b \in Tried(F) : b < F.pc
         /\ Tried(G) = Tried(F) \cup (IF code[F.fn][F.pc].op = "try_table" THEN {F.pc} ELSE {})
<1> DEFINE f == F.fn
           p == F.pc
           C == snap[f][p].ctrl
           D == snap[f][p + 1].ctrl
<1>1. f \in Funcs /\ At1(f, p) /\ Len(code[f]) \in Nat /\ p \in 1 .. Len(code[f]) BY FrameIs
<1>2. code[f][p].op \notin Terminators \cup {"end"} BY DEF Openers, Terminators
<1>3. At1(f, p + 1) /\ D = Append(C, Entry(code[f], snap[f], p)) BY <1>1, <1>2, NextIn
<1>4. snap[f][p].skip = -1 BY <1>1, <1>2, RunsIs
<1>5. snap[f][p + 1].skip = -1
  <2>1. After(snap[f][p], code[f][p], p, snap[f][p + 1]) BY <1>1, BodyIs
  <2> QED BY <1>2, <1>4, <2>1 DEF After
<1>6. IsSeq(C) /\ Len(C) \in Nat
  <2>1. p \in 1 .. Len(code[f]) + 1 BY <1>1
  <2> QED BY <1>1, <2>1, BodyIs
<1>7. Len(D) = Len(C) + 1 /\ (\A k \in 1 .. Len(C) : D[k] = C[k])
      /\ D[Len(C) + 1].blk = p /\ D[Len(C) + 1].op = code[f][p].op
  <2>1. Len(D) = Len(C) + 1 /\ (\A k \in 1 .. Len(C) : D[k] = C[k])
        /\ D[Len(C) + 1] = Entry(code[f], snap[f], p)
    <3> DEFINE x == Entry(code[f], snap[f], p)
    <3>1. D = Append(C, x) BY <1>3
    <3> HIDE DEF D, C, x
    <3>2. Len(D) = Len(C) + 1 /\ (\A k \in 1 .. Len(C) : D[k] = C[k]) /\ D[Len(C) + 1] = x
      BY <3>1, <1>6, SeqAppend
    <3> QED BY <3>2 DEF x
  <2> HIDE DEF D
  <2> QED BY <2>1 DEF Entry
<1>8. \A k \in 1 .. Len(C) : C[k].blk < p BY <1>1, BlksRise
<1> HIDE DEF C, D, f, p
<1>9. G.fn = f /\ G.pc = p + 1 /\ F.fn = f /\ F.pc = p BY DEF f, p
<1>10. InBody(G) /\ InBody(F)
  <2>1. p + 1 \in 1 .. Len(code[f]) BY <1>3 DEF At1
  <2>2. p + 1 <= Len(code[f]) BY <1>1, <2>1
  <2> QED BY <1>9, <2>2 DEF InBody
<1>11. Live(G) BY <1>5, <1>9 DEF Live, DeadTry
<1>12. TryLevels(F) = {k \in 1 .. Len(C) : C[k].op = "try_table"} BY <1>9, <1>10 DEF TryLevels, C
<1>13. TryLevels(G) = {k \in 1 .. Len(C) + 1 : D[k].op = "try_table"} BY <1>7, <1>9, <1>10 DEF TryLevels, D
<1>14. Tried(F) = {C[k].blk : k \in TryLevels(F)} /\ Tried(G) = {D[k].blk : k \in TryLevels(G)}
  BY <1>9 DEF Tried, C, D
<1>15. \A k \in 1 .. Len(C) + 1 : k \in 1 .. Len(C) \/ k = Len(C) + 1 BY <1>6
<1>16. (\A k \in 1 .. Len(C) : k \in 1 .. Len(C) + 1) /\ Len(C) + 1 \in 1 .. Len(C) + 1 BY <1>6
<1>17. \A b \in Tried(F) : b < p BY <1>8, <1>12, <1>14
<1>18. ASSUME NEW b \in Tried(F) PROVE b \in Tried(G)
  <2>1. PICK k \in 1 .. Len(C) : C[k].op = "try_table" /\ C[k].blk = b BY <1>12, <1>14
  <2>2. k \in TryLevels(G) /\ D[k].blk = b BY <2>1, <1>7, <1>13, <1>16
  <2> QED BY <2>2, <1>14
<1>19. code[f][p].op = "try_table" => p \in Tried(G)
  <2> SUFFICES ASSUME code[f][p].op = "try_table" PROVE p \in Tried(G) OBVIOUS
  <2>1. Len(C) + 1 \in TryLevels(G) /\ D[Len(C) + 1].blk = p BY <1>7, <1>13, <1>16
  <2> QED BY <2>1, <1>14
<1>20. ASSUME NEW b \in Tried(G) PROVE b \in Tried(F) \/ (b = p /\ code[f][p].op = "try_table")
  <2>1. PICK k \in 1 .. Len(C) + 1 : D[k].op = "try_table" /\ D[k].blk = b BY <1>13, <1>14
  <2>2. CASE k \in 1 .. Len(C)
    <3>1. k \in TryLevels(F) /\ C[k].blk = b BY <2>1, <2>2, <1>7, <1>12
    <3> QED BY <3>1, <1>14
  <2>3. CASE k = Len(C) + 1 BY <2>1, <2>3, <1>7
  <2> QED BY <2>2, <2>3, <1>15
<1> QED BY <1>9, <1>11, <1>17, <1>18, <1>19, <1>20

----------------------------------------------------------------------------
(* Steps that leave or enter a frame.                                      *)

\* The handlers and frames of an active machine agree.
LEMMA TriesNow ==
  ASSUME Active, TryInv
  PROVE  /\ TriesOK(frames, eh) /\ frames # <<>> /\ Fp = Len(frames) /\ frames[Fp] = Top
         /\ FrameOK(Top) /\ DOMAIN Top = FrameFields /\ ProgInv /\ built /\ TryProg
         /\ Fp \in Nat /\ IsSeq(eh) /\ Len(eh) \in Nat
<1>1. FrameOK(Top) BY ActiveIs
<1>2. IsSeq(eh) /\ Len(eh) \in Nat BY SeqIs DEF TryInv, TriesOK
<1> QED BY <1>1, <1>2, ActiveIs DEF TryInv, Fp, Top, FrameOK

\* A trap leaves no frames and no handlers.
LEMMA TrapTry == ASSUME Active, Trap PROVE TryNext
<1>1. eh' = <<>> BY ActiveIs, CutBack DEF Trap
<1> QED BY <1>1, TriesNone DEF TryNext, Trap

\* A crash leaves everything as it is.
LEMMA CrashTry == ASSUME TryInv, Crash PROVE TryNext
  BY DEF TryInv, TryNext, Crash

\* An exception goes on with the entries of the frames below.
LEMMA PropagateTry ==
  ASSUME Active, NEW st, NEW e, TriesOK(Front, e), Propagate(st, e) PROVE TryNext
<1>1. CASE Front = <<>>
  <2>1. frames' = <<>> /\ eh' = <<>> BY <1>1, ActiveIs, CutBack DEF Propagate
  <2> QED BY <2>1, TriesNone DEF TryNext
<1>2. CASE Front # <<>> BY <1>2 DEF Propagate, TryNext
<1> QED BY <1>1, <1>2

\* Results go to the frame below, which goes on within its try_tables.
LEMMA DeliverTry ==
  ASSUME Active, NEW vs, NEW st, NEW e, TriesOK(Front, e),
         IF CallerIsJit THEN DeliverToJit(vs, st, e) ELSE DeliverToC(st, e)
  PROVE  TryNext
<1> DEFINE C == Front[Len(Front)]
<1>0. ProgInv /\ built /\ FramesOK(Front, TRUE) BY ActiveIs
<1>1. CASE Front = <<>>
  <2>1. ~CallerIsJit BY <1>1 DEF CallerIsJit
  <2>2. frames' = <<>> /\ eh' = <<>> BY <1>1, <2>1, ActiveIs, CutBack DEF DeliverToC
  <2> QED BY <2>2, TriesNone DEF TryNext
<1>2. ASSUME Front # <<>> PROVE FrameOK(C) /\ AtCall(C) /\ DOMAIN C = FrameFields
  <2>1. Len(Front) \in 1 .. Len(Front) BY <1>0, <1>2, NonEmpty DEF FramesOK
  <2> QED BY <1>0, <2>1 DEF FramesOK, FrameOK
<1>3. CASE Front # <<>> /\ CallerIsJit
  <2>1. C.k = "jit" BY <1>3 DEF CallerIsJit
  <2> DEFINE G == [C EXCEPT !.pc = @ + 1, !.ops = @ \o vs]
  <2>2. frames' = [Front EXCEPT ![Len(Front)] = G] /\ eh' = e BY <1>3 DEF DeliverToJit
  <2>3. DOMAIN C = FrameFields /\ FrameOK(C) /\ AtCall(C) BY <1>2, <1>3
  <2>4. InBody(C) /\ code[C.fn][C.pc].op = "call" BY <2>1, <2>3 DEF AtCall
  <2> HIDE DEF C
  <2>5. G.k = C.k /\ G.fn = C.fn /\ G.pc = C.pc + 1 BY <2>3 DEF FrameFields
  <2> HIDE DEF G
  <2>6. code[C.fn][C.pc].op \notin Terminators \cup {"end"} \cup Openers
    BY <2>4 DEF Terminators, Openers
  <2>7. Tried(G) = Tried(C) /\ Live(G) BY <1>0, <2>3, <2>4, <2>5, <2>6, TriedNext
  <2>8. TriesOK([Front EXCEPT ![Len(Front)] = G], e) BY <1>3, <2>5, <2>7, TriesKeep DEF C
  <2> QED BY <2>2, <2>8 DEF TryNext
<1>4. CASE Front # <<>> /\ ~CallerIsJit
  <2>0. DOMAIN C = FrameFields /\ FrameOK(C) /\ AtCall(C) BY <1>2, <1>4
  <2>1. C.k = "interp" BY <1>4, <2>0 DEF CallerIsJit, FrameOK
  <2>2. eh' = e /\ \E G : G.k = "interp" /\ frames' = [Front EXCEPT ![Len(Front)] = G]
    <3> DEFINE A == [C EXCEPT !.pc = Len(code[C.fn]) + 1, !.as = ActOf(Top)]
               B == [C EXCEPT !.pc = @ + 1]
    <3>1. frames' = [Front EXCEPT ![Len(Front)] = IF code[C.fn][C.pc].op = "return_call" THEN A ELSE B]
          /\ eh' = e
      BY <1>4 DEF DeliverToC
    <3> HIDE DEF C
    <3>2. A.k = "interp" /\ B.k = "interp" BY <2>0, <2>1 DEF FrameFields
    <3> HIDE DEF A, B
    <3>3. CASE code[C.fn][C.pc].op = "return_call"
      <4>1. frames' = [Front EXCEPT ![Len(Front)] = A] BY <3>1, <3>3
      <4> QED BY <4>1, <3>1, <3>2
    <3>4. CASE code[C.fn][C.pc].op # "return_call"
      <4>1. frames' = [Front EXCEPT ![Len(Front)] = B] BY <3>1, <3>4
      <4> QED BY <4>1, <3>1, <3>2
    <3> QED BY <3>3, <3>4
  <2>3. PICK G : G.k = "interp" /\ frames' = [Front EXCEPT ![Len(Front)] = G] BY <2>2
  <2>4. Tried(G) = {} /\ Live(G) /\ Tried(C) = {} BY <2>1, <2>3, TriedInterp
  <2> HIDE DEF C
  <2>5. TriesOK([Front EXCEPT ![Len(Front)] = G], e) BY <1>4, <2>4, TriesKeep DEF C
  <2> QED BY <2>2, <2>3, <2>5 DEF TryNext
<1> QED BY <1>1, <1>3, <1>4

\* A callee starts outside any try_table.
LEMMA EnterTry ==
  ASSUME Active, NEW fs, NEW st, NEW f \in Funcs, NEW dep, NEW e, TriesOK(fs, e),
         EnterJit(fs, st, f, dep, e) \/ (e = eh /\ EnterInterp(fs, st, f, dep))
  PROVE  TryNext
<1>0. ProgInv BY ActiveIs
<1>1. CASE Trap BY <1>1, TrapTry
<1>2. CASE EnterJit(fs, st, f, dep, e) /\ ~Trap
  <2>1. frames' = Append(fs, JitFrame(f, dep)) /\ eh' = e BY <1>2 DEF EnterJit
  <2> QED BY <1>0, <2>1, TriedNew, TriesPush DEF TryNext
<1>3. CASE e = eh /\ EnterInterp(fs, st, f, dep) /\ ~Trap
  <2>1. PICK g : frames' = Append(fs, InterpFrame(f, Len(st) - NArgs(f), dep, g)) /\ eh' = e
    BY <1>3 DEF EnterInterp
  <2> DEFINE G == InterpFrame(f, Len(st) - NArgs(f), dep, g)
  <2>2. G.k = "interp" BY DEF InterpFrame
  <2> HIDE DEF G
  <2>3. TriesOK(Append(fs, G), e) BY <2>2, TriedInterp, TriesPush
  <2> QED BY <2>1, <2>3 DEF TryNext, G
<1> QED BY <1>1, <1>2, <1>3

\* The top frame moves within its try_tables.
LEMMA MoveTry ==
  ASSUME Active, TryInv, NEW G, Live(G), Tried(G) = Tried(Top), G.fn = Top.fn \/ Tried(G) = {},
         frames' = SetTop(G), eh' = eh
  PROVE  TryNext
<1>1. TriesOK(frames, eh) /\ frames # <<>> /\ Fp = Len(frames) /\ frames[Fp] = Top BY TriesNow
<1>2. TriesOK([frames EXCEPT ![Fp] = G], eh) BY <1>1, TriesKeep
<1> QED BY <1>1, <1>2 DEF TryNext, SetTop

\* A frame outside any try_table goes.
LEMMA FrontTry ==
  ASSUME Active, TryInv, Tried(Top) = {} PROVE TriesOK(Front, eh)
<1>1. TriesOK(frames, eh) /\ frames # <<>> /\ Fp = Len(frames) /\ frames[Fp] = Top BY TriesNow
<1> QED BY <1>1, TriesFront DEF Front

----------------------------------------------------------------------------
(* The interpreter.                                                        *)

\* An interpreter frame moves.
LEMMA InterpTopTry ==
  ASSUME Active, TryInv, Top.k = "interp", NEW G, G.k = "interp", frames' = SetTop(G), eh' = eh
  PROVE  TryNext
<1>1. Tried(G) = {} /\ Live(G) /\ Tried(Top) = {} BY TriedInterp
<1> QED BY <1>1, MoveTry

\* Control instructions and operators of the interpreter.
LEMMA InterpLocalTry ==
  ASSUME Active, TryInv, IOpen \/ IEnd \/ IBr \/ ISimple PROVE TryNext
<1>0. DOMAIN Top = FrameFields BY TriesNow
<1>1. Top.k = "interp" /\ eh' = eh
  BY DEF IOpen, IEnd, IBr, ISimple, Executes, Running
<1>2. \A c, p : LET G == [Top EXCEPT !.ctl = c, !.pc = p] IN G.k = "interp"
  BY <1>0, <1>1 DEF FrameFields
<1>3. ASSUME NEW c, NEW p, frames' = SetTop([Top EXCEPT !.ctl = c, !.pc = p]) PROVE TryNext
  BY <1>1, <1>2, <1>3, InterpTopTry
<1>4. Advance.k = "interp" BY <1>0, <1>1 DEF FrameFields, Advance
<1>5. ASSUME frames' = SetTop(Advance) PROVE TryNext BY <1>1, <1>4, <1>5, InterpTopTry
<1>6. CASE IOpen
  <2> DEFINE lbl == [blk |-> Top.pc, h |-> HOff(Top) + Len(Here.tys),
                     ar |-> IF At.op = "loop" THEN 0 ELSE Len(At.bt),
                     rar |-> Len(At.bt), is_try |-> At.op = "try_table"]
             F == [Top EXCEPT !.ctl = Append(@, lbl), !.pc = @ + 1]
             E == [F EXCEPT !.pc = end_idx[Top.fn][Top.pc]]
  <2>1. frames' = SetTop(F) \/ frames' = SetTop(E) BY <1>6 DEF IOpen
  <2> HIDE DEF lbl
  <2>2. F.k = "interp" /\ E.k = "interp" BY <1>0, <1>1 DEF FrameFields
  <2> HIDE DEF F, E
  <2>3. CASE frames' = SetTop(F) BY <1>1, <2>2, <2>3, InterpTopTry
  <2>4. CASE frames' = SetTop(E) BY <1>1, <2>2, <2>4, InterpTopTry
  <2> QED BY <2>1, <2>3, <2>4
<1>7. CASE IEnd
  <2> DEFINE A == [Advance EXCEPT !.ctl = DropN(@, 1)]
             B == [Advance EXCEPT !.ctl = <<>>]
  <2>1. frames' = SetTop(A) \/ frames' = SetTop(B) BY <1>7 DEF IEnd
  <2>2. A.k = "interp" /\ B.k = "interp" BY <1>0, <1>1 DEF FrameFields, Advance
  <2> HIDE DEF A, B
  <2>3. CASE frames' = SetTop(A) BY <1>1, <2>2, <2>3, InterpTopTry
  <2>4. CASE frames' = SetTop(B) BY <1>1, <2>2, <2>4, InterpTopTry
  <2> QED BY <2>1, <2>3, <2>4
<1>8. ASSUME NEW l, IJump(l) PROVE TryNext
  <2>1. \E c, p : frames' = SetTop([Top EXCEPT !.ctl = c, !.pc = p]) BY <1>8 DEF IJump
  <2> QED BY <2>1, <1>3
<1>9. CASE IBr
  <2>1. IJump(At.n) \/ IJump(0) \/ frames' = SetTop(Advance) BY <1>9 DEF IBr
  <2> QED BY <2>1, <1>5, <1>8
<1>10. CASE ISimple BY <1>10, <1>5 DEF ISimple
<1> QED BY <1>6, <1>7, <1>9, <1>10

\* eh_unwind lands in the frame, or goes on to its caller.
LEMMA UnwindTry ==
  ASSUME Active, TryInv, Top.k = "interp", NEW st, NEW t, NEW skip, eh_unwind(Top, st, t, skip)
  PROVE  TryNext
<1>0. DOMAIN Top = FrameFields BY TriesNow
<1>1. CASE Handlers(Top, t) # {}
  <2>1. eh' = eh /\ \E c, p : frames' = SetTop([Top EXCEPT !.ctl = c, !.pc = p]) BY <1>1 DEF eh_unwind
  <2>2. PICK c, p : frames' = SetTop([Top EXCEPT !.ctl = c, !.pc = p]) BY <2>1
  <2> DEFINE G == [Top EXCEPT !.ctl = c, !.pc = p]
  <2>3. G.k = "interp" BY <1>0 DEF FrameFields
  <2> HIDE DEF G
  <2>4. frames' = SetTop(G) BY <2>2 DEF G
  <2> QED BY <2>1, <2>3, <2>4, InterpTopTry
<1>2. CASE ~(Handlers(Top, t) # {}) /\ Top.ctl[1].is_try BY <1>2, CrashTry DEF eh_unwind
<1>3. CASE ~(Handlers(Top, t) # {}) /\ ~Top.ctl[1].is_try
  <2>1. TriesOK(Front, eh) BY TriedInterp, FrontTry
  <2> QED BY <1>3, <2>1, PropagateTry DEF eh_unwind
<1> QED BY <1>1, <1>2, <1>3

\* Every step of an interpreter frame leaves the handlers exact.
LEMMA InterpTry == ASSUME Active, TryInv, InterpNext PROVE TryNext
<1>0. DOMAIN Top = FrameFields /\ TriesOK(frames, eh) BY TriesNow
<1>1. CASE IOpen \/ IEnd \/ IBr \/ ISimple BY <1>1, InterpLocalTry
<1>2. CASE ITrap
  <2>1. Top.k = "interp" BY <1>2 DEF ITrap, Executes, Running
  <2>2. Advance.k = "interp" BY <1>0, <2>1 DEF FrameFields, Advance
  <2>3. Trap \/ (frames' = SetTop(Advance) /\ eh' = eh) BY <1>2 DEF ITrap
  <2> QED BY <2>1, <2>2, <2>3, TrapTry, InterpTopTry
<1>3. CASE IDone
  <2>1. Top.k = "interp" BY <1>3 DEF IDone, Running
  <2>2. TriesOK(Front, eh) BY <2>1, TriedInterp, FrontTry
  <2>3. \E vs, st : IF CallerIsJit THEN DeliverToJit(vs, st, eh) ELSE DeliverToC(st, eh)
    <3>1. CASE CallerIsJit BY <1>3, <3>1 DEF IDone
    <3>2. CASE ~CallerIsJit BY <1>3, <3>2 DEF IDone
    <3> QED BY <3>1, <3>2
  <2> QED BY <2>2, <2>3, DeliverTry
<1>4. CASE ICall \/ IReturnCall
  <2>1. Executes("interp", {"call", "call_ref", "return_call"})
    BY <1>4 DEF ICall, IReturnCall, Executes
  <2>2. Top.k = "interp" /\ At.n \in Funcs BY <2>1, ExecIs, ValidIs
  <2> DEFINE S == [Top EXCEPT !.sp = Len(stack)]
             I == InterpFrame(At.n, Top.base, Top.dep, Top.ctl[1].is_try)
  <2>3. S.k = "interp" /\ I.k = "interp" BY <1>0, <2>2 DEF FrameFields, InterpFrame
  <2>4. \/ EnterJit(SetTop(S), DropN(stack, NArgs(At.n)), At.n, Top.dep, eh)
        \/ EnterInterp(frames, stack, At.n, Top.dep + 1)
        \/ frames' = SetTop(I) /\ eh' = eh
    <3>1. CASE ICall BY <3>1 DEF ICall
    <3>2. CASE IReturnCall BY <3>2 DEF IReturnCall
    <3> QED BY <1>4, <3>1, <3>2
  <2> HIDE DEF S, I
  <2>5. TriesOK(SetTop(S), eh)
    <3>1. Tried(S) = {} /\ Live(S) /\ Tried(Top) = {} BY <2>2, <2>3, TriedInterp
    <3>2. frames # <<>> /\ Fp = Len(frames) /\ frames[Fp] = Top BY TriesNow
    <3>3. TriesOK([frames EXCEPT ![Fp] = S], eh) BY <1>0, <3>1, <3>2, TriesKeep
    <3> QED BY <3>2, <3>3 DEF SetTop
  <2>6. CASE frames' = SetTop(I) /\ eh' = eh BY <2>2, <2>3, <2>6, InterpTopTry
  <2> QED BY <1>0, <2>2, <2>4, <2>5, <2>6, EnterTry
<1>5. CASE IThrow \/ IThrowRef \/ ICallFailed
  <2>1. Top.k = "interp" BY <1>5 DEF IThrow, IThrowRef, ICallFailed, Executes, Running
  <2>2. Crash \/ \E st, t, skip : eh_unwind(Top, st, t, skip)
    <3>1. CASE IThrow BY <3>1 DEF IThrow
    <3>2. CASE IThrowRef BY <3>2 DEF IThrowRef
    <3>3. CASE ICallFailed BY <3>3 DEF ICallFailed
    <3> QED BY <1>5, <3>1, <3>2, <3>3
  <2> QED BY <2>1, <2>2, CrashTry, UnwindTry
<1> QED BY <1>1, <1>2, <1>3, <1>4, <1>5 DEF InterpNext

----------------------------------------------------------------------------
(* Generated code.                                                         *)

\* Generated code that executes an instruction.
LEMMA JitIs ==
  ASSUME Active, TryInv, NEW ops, Executes("jit", ops)
  PROVE  /\ Top.k = "jit" /\ InBody(Top) /\ jit[Top.fn] /\ FrameOK(Top) /\ DOMAIN Top = FrameFields
         /\ Top.fn \in Funcs /\ Top.pc \in 1 .. Len(code[Top.fn]) /\ Here = snap[Top.fn][Top.pc]
         /\ Len(Here.ctrl) \in Nat /\ At = code[Top.fn][Top.pc] /\ At.op \in ops
         /\ At.op # "end" => Here.skip = -1 /\ ValidLive(Top.fn, Here, At)
         /\ Tried(Top) = Outer(Top.fn, Top.pc, Len(Here.ctrl))
<1>1. /\ Top.k = "jit" /\ InBody(Top) /\ DOMAIN Top = FrameFields
      /\ Top.fn \in Funcs /\ Top.pc \in 1 .. Len(code[Top.fn]) /\ Here = snap[Top.fn][Top.pc]
      /\ Len(Here.ctrl) \in Nat /\ At = code[Top.fn][Top.pc] /\ At.op \in ops
      /\ At.op # "end" => Here.skip = -1 /\ ValidLive(Top.fn, Here, At)
  BY ExecIs
<1>2. FrameOK(Top) /\ jit[Top.fn] BY <1>1, ActiveIs DEF FrameOK
<1>3. Tried(Top) = Outer(Top.fn, Top.pc, Len(Here.ctrl)) BY <1>1, TriedAll
<1> QED BY <1>1, <1>2, <1>3

\* A frame lands at a level, and the entries of the try_tables above are cut.
LEMMA CutTry ==
  ASSUME Active, TryInv, Top.k = "jit", InBody(Top), NEW m \in 0 .. Len(Here.ctrl),
         NEW G, Live(G), G.fn = Top.fn, Tried(G) = Outer(Top.fn, Top.pc, m), frames' = SetTop(G),
         eh' = ea_jit_eh_popn(Cardinality(Inner(Top.fn, Top.pc, m)))
  PROVE  TryNext
<1> DEFINE d == Len(eh) - Cardinality(Inner(Top.fn, Top.pc, m))
<1>0. TriesOK(frames, eh) /\ frames # <<>> /\ Fp = Len(frames) /\ frames[Fp] = Top /\ FrameOK(Top)
      /\ ProgInv /\ Len(Here.ctrl) \in Nat
  <2>1. ProgInv /\ FrameOK(Top) BY TriesNow
  <2>2. Top.fn \in Funcs /\ Top.pc \in 1 .. Len(code[Top.fn]) /\ Len(code[Top.fn]) \in Nat
    BY <2>1, FrameIs
  <2>3. Top.pc \in 1 .. Len(code[Top.fn]) + 1 BY <2>2
  <2>4. Len(Here.ctrl) \in Nat BY <2>1, <2>2, <2>3, BodyIs DEF Here
  <2> QED BY <2>4, TriesNow
<1>1. /\ d \in 0 .. Len(eh) /\ eh' = SubSeq(eh, 1, d)
      /\ \A j \in 1 .. Len(eh) : j <= d <=> (eh[j].fp < Fp \/ eh[j].blk \in Tried(G))
  BY LevelCut
<1> HIDE DEF d
<1>2. Tried(G) \subseteq Tried(Top)
  <2>1. Tried(Top) = Outer(Top.fn, Top.pc, Len(Here.ctrl)) BY TriedAll DEF Here
  <2>2. \A x \in 1 .. m : x \in 1 .. Len(Here.ctrl) BY <1>0
  <2>3. Outer(Top.fn, Top.pc, m) \subseteq Outer(Top.fn, Top.pc, Len(Here.ctrl)) BY <2>2 DEF Outer
  <2> QED BY <2>1, <2>3
<1>3. TriesOK([frames EXCEPT ![Fp] = G], SubSeq(eh, 1, d)) BY <1>0, <1>1, <1>2, TriesMove
<1> QED BY <1>0, <1>1, <1>3 DEF TryNext, SetTop

\* A frame is gone with the entries of all its try_tables.
LEMMA CutFront ==
  ASSUME Active, TryInv, Top.k = "jit", InBody(Top)
  PROVE  TriesOK(Front, ea_jit_eh_popn(Cardinality(Inner(Top.fn, Top.pc, 0))))
<1> DEFINE d == Len(eh) - Cardinality(Inner(Top.fn, Top.pc, 0))
<1>0. TriesOK(frames, eh) /\ frames # <<>> /\ Fp = Len(frames) /\ FrameOK(Top) /\ ProgInv BY TriesNow
<1>1. 0 \in 0 .. Len(Here.ctrl)
  <2>2. Top.fn \in Funcs /\ Top.pc \in 1 .. Len(code[Top.fn]) /\ Len(code[Top.fn]) \in Nat
    BY <1>0, FrameIs
  <2>3. Top.pc \in 1 .. Len(code[Top.fn]) + 1 BY <2>2
  <2>4. Len(Here.ctrl) \in Nat BY <1>0, <2>2, <2>3, BodyIs DEF Here
  <2> QED BY <2>4
<1>2. /\ d \in 0 .. Len(eh)
      /\ ea_jit_eh_popn(Cardinality(Inner(Top.fn, Top.pc, 0))) = SubSeq(eh, 1, d)
      /\ \A j \in 1 .. Len(eh) : j <= d <=> (eh[j].fp < Fp \/ eh[j].blk \in Outer(Top.fn, Top.pc, 0))
  BY <1>1, LevelCut
<1> HIDE DEF d
<1>3. Outer(Top.fn, Top.pc, 0) = {} BY DEF Outer
<1>4. TriesOK(DropN(frames, 1), SubSeq(eh, 1, d)) BY <1>0, <1>2, <1>3, TriesLeave
<1> QED BY <1>2, <1>4 DEF Front

\* eh_crossings counts the try_tables above the level of its label.
LEMMA CrossingsInner ==
  ASSUME Active, TryInv, CleanTries, NEW ops, Executes("jit", ops), NEW l, LabelLvl(Here, l) \in 0 .. Len(Here.ctrl)
  PROVE  eh_crossings(Here, l) = Cardinality(Inner(Top.fn, Top.pc, LabelLvl(Here, l)))
<1>1. Top.fn \in Funcs /\ jit[Top.fn] /\ Top.pc \in 1 .. Len(code[Top.fn]) /\ Here = snap[Top.fn][Top.pc]
  BY JitIs
<1>2. ProgInv /\ TryProg BY TriesNow
<1> QED BY <1>1, <1>2, CrossingsAre DEF Inner

\* A try_table is entered with its entry, other blocks without.
LEMMA JOpenTry == ASSUME Active, TryInv, JOpen PROVE TryNext
<1> DEFINE f == Top.fn
           p == Top.pc
           E == [Top EXCEPT !.pc = end_idx[f][p]]
           h == [fp |-> Fp, fn |-> f, blk |-> p, sp0 |-> Len(Top.ops)]
<1>0. Executes("jit", Openers) BY DEF JOpen
<1>1. /\ Top.k = "jit" /\ InBody(Top) /\ FrameOK(Top) /\ DOMAIN Top = FrameFields /\ f \in Funcs
      /\ p \in 1 .. Len(code[f]) /\ At = code[f][p] /\ At.op \in Openers /\ jit[f] /\ Here.skip = -1
      /\ Here = snap[f][p]
  <2>1. \A x \in Openers : x # "end" BY DEF Openers
  <2> QED BY <1>0, <2>1, JitIs
<1>2. ProgInv /\ built /\ TriesOK(frames, eh) /\ frames # <<>> /\ Fp = Len(frames) /\ frames[Fp] = Top
  BY TriesNow
<1>3. Advance.k = "jit" /\ Advance.fn = f /\ Advance.pc = p + 1
  BY <1>1 DEF Advance, FrameFields
<1>4. E.k = "jit" /\ E.fn = f /\ E.pc = end_idx[f][p] BY <1>1 DEF FrameFields
<1> DEFINE A == Advance
<1>5. frames' = SetTop(A) \/ (At.op = "if" /\ frames' = SetTop(E)) BY DEF JOpen
<1>6. IF At.op = "try_table" THEN eh' = Append(eh, h) ELSE eh' = eh BY DEF JOpen
<1>7. /\ Live(A) /\ \A b \in Tried(Top) : b < p
      /\ Tried(A) = Tried(Top) \cup (IF At.op = "try_table" THEN {p} ELSE {})
  BY <1>1, <1>2, <1>3, TriedOpen
<1>8. CASE frames' = SetTop(A) /\ At.op = "try_table"
  <2>1. eh' = Append(eh, h) BY <1>6, <1>8
  <2>2. Tried(A) = Tried(frames[Fp]) \cup {p} BY <1>2, <1>7, <1>8
  <2>3. h.fp = Fp /\ h.fn = A.fn /\ h.blk = p /\ A.fn = frames[Fp].fn BY <1>2, <1>3
  <2> HIDE DEF h, A, p
  <2>4. TriesOK([frames EXCEPT ![Fp] = A], Append(eh, h)) BY <1>2, <1>7, <2>2, <2>3, TriesOpen
  <2> QED BY <1>2, <1>8, <2>1, <2>4 DEF TryNext, SetTop
<1>9. CASE frames' = SetTop(A) /\ At.op # "try_table"
  <2>1. eh' = eh /\ Tried(A) = Tried(Top) /\ A.fn = Top.fn BY <1>3, <1>6, <1>7, <1>9
  <2> HIDE DEF A
  <2> QED BY <1>7, <1>9, <2>1, MoveTry
<1>10. CASE At.op = "if" /\ frames' = SetTop(E)
  <2>1. eh' = eh BY <1>6, <1>10
  <2>2. Opens(code[f], snap[f], p) BY <1>1 DEF Opens
  <2> DEFINE e == end_idx[f][p]
  <2>3. At1(f, e) /\ snap[f][e].ctrl = snap[f][p + 1].ctrl BY <1>1, <1>2, <2>2, EndIs
  <2>4. InBody(E)
    <3>1. e \in 1 .. Len(code[f]) /\ Len(code[f]) \in Nat BY <1>1, <1>2, <2>3, BodyIs DEF At1
    <3>2. \A x \in 1 .. Len(code[f]) : x <= Len(code[f]) BY <3>1
    <3> HIDE DEF E, f
    <3> QED BY <1>4, <3>1, <3>2 DEF InBody
  <2>5. At.op \notin Terminators \cup {"end"} BY <1>10 DEF Terminators
  <2>6. At1(f, p) BY <1>1, <1>2, FrameIs
  <2>7. /\ At1(f, p + 1)
        /\ snap[f][p + 1].ctrl = Append(snap[f][p].ctrl, Entry(code[f], snap[f], p))
    BY <1>1, <1>2, <2>5, <2>6, NextIn
  <2>8. InBody(A)
    <3>1. p + 1 \in 1 .. Len(code[f]) /\ Len(code[f]) \in Nat BY <1>1, <1>2, <2>7, BodyIs DEF At1
    <3>2. p + 1 <= Len(code[f]) BY <3>1
    <3> HIDE DEF A, f, p
    <3> QED BY <1>3, <3>2 DEF InBody, A
  <2>9. Tried(E) = Tried(Top)
    <3> HIDE DEF E, f, p, e
    <3>1. E.pc = e /\ A.fn = f /\ A.pc = p + 1 /\ A.k = "jit" BY <1>3, <1>4 DEF e
    <3> HIDE DEF A
    <3>2. TryLevels(E) = TryLevels(A) BY <1>4, <2>3, <2>4, <2>8, <3>1 DEF TryLevels
    <3>3. Tried(E) = Tried(A) BY <1>4, <2>3, <3>1, <3>2 DEF Tried
    <3> QED BY <1>7, <1>10, <3>3
  <2>10. Live(E)
    <3>0. Len(snap[f][p].ctrl) \in Nat /\ IsSeq(snap[f][p].ctrl)
      <4>1. Len(code[f]) \in Nat BY <1>1, <1>2, BodyIs
      <4>2. p \in 1 .. Len(code[f]) + 1 BY <1>1, <4>1
      <4> QED BY <1>1, <1>2, <4>2, BodyIs
    <3> DEFINE C == snap[f][p].ctrl
               x == Entry(code[f], snap[f], p)
    <3>1. x.op = "if" BY <1>1, <1>10 DEF Entry
    <3> HIDE DEF C, x
    <3>2. snap[f][e].ctrl = Append(C, x)
      <4> HIDE DEF e, f, p
      <4> QED BY <2>3, <2>7 DEF C, x
    <3>3. Len(snap[f][e].ctrl) = Len(C) + 1 /\ snap[f][e].ctrl[Len(C) + 1] = x
      <4>1. IsSeq(C) BY <3>0 DEF C
      <4> HIDE DEF E, f, p, e, A
      <4>2. IsSeq(C) /\ snap[f][e].ctrl = Append(C, x) BY <4>1, <3>2
      <4> QED BY <4>2, SeqAppend
    <3> HIDE DEF E, f, e
    <3>4. ~DeadTry(f, e) BY <3>1, <3>3 DEF DeadTry
    <3> QED BY <1>4, <3>4 DEF Live, e
  <2> HIDE DEF E
  <2> QED BY <1>4, <1>10, <2>1, <2>9, <2>10, MoveTry
<1> QED BY <1>5, <1>8, <1>9, <1>10

\* An end pops the entry of the try_table it closes.
LEMMA JEndTry == ASSUME Active, TryInv, CleanTries, JEnd PROVE TryNext
<1> DEFINE f == Top.fn
           p == Top.pc
           s == snap[f][p]
           n == Len(s.ctrl)
           A == Advance
<1>0. Executes("jit", {"end"}) BY DEF JEnd
<1>1. /\ Top.k = "jit" /\ InBody(Top) /\ FrameOK(Top) /\ DOMAIN Top = FrameFields /\ f \in Funcs
      /\ p \in 1 .. Len(code[f]) /\ code[f][p].op = "end" /\ jit[f] /\ Here = s
      /\ Tried(Top) = Outer(f, p, n) /\ n \in Nat
  BY <1>0, JitIs
<1>2. ProgInv /\ built /\ TriesOK(frames, eh) /\ TryProg /\ frames # <<>> /\ Fp = Len(frames)
      /\ frames[Fp] = Top
  BY TriesNow
<1>3. A.k = "jit" /\ A.fn = f /\ A.pc = p + 1 BY <1>1 DEF Advance, FrameFields
<1>4. frames' = SetTop(A) BY DEF JEnd
<1>5. At1(f, p) /\ IsSeq(s.ctrl) /\ Len(code[f]) \in Nat
  <2>1. At1(f, p) /\ Len(code[f]) \in Nat BY <1>1, <1>2, FrameIs
  <2>2. p \in 1 .. Len(code[f]) + 1 BY <1>1, <2>1
  <2> QED BY <1>1, <1>2, <2>1, <2>2, BodyIs
<1>6. (n = 0 => p = Len(code[f])) /\
      (n # 0 => At1(f, p + 1) /\ snap[f][p + 1].ctrl = SubSeq(s.ctrl, 1, n - 1))
  BY <1>1, <1>2, <1>5, EndNext
<1>7. n # 0 <=> s.ctrl # <<>> BY <1>5, SeqEmpty
<1>8. /\ eh' = IF s.skip = -1 /\ s.ctrl # <<>> /\ s.is_try[n] THEN ea_jit_eh_popn(1) ELSE eh
  BY <1>1 DEF JEnd
<1>9. \A k \in 1 .. n : s.is_try[k] <=> s.ctrl[k].op = "try_table"
  <2>1. ProgInv /\ TryProg /\ CleanTries /\ f \in Funcs /\ jit[f] /\ p \in 1 .. Len(code[f])
    BY <1>1, <1>2
  <2> HIDE DEF f, p
  <2> QED BY <2>1, FlagIs
<1>10. s.skip = -1 \/ s.skip = 0 BY <1>5 DEF At1, Reach
<1>11. ~DeadTry(f, p)
  <2>1. Fp \in 1 .. Len(frames) BY <1>2, NonEmpty DEF TriesOK
  <2>2. Live(Top) BY <1>2, <2>1 DEF TriesOK
  <2> QED BY <1>1, <2>2 DEF Live
<1>12. CASE n = 0
  <2>1. ~InBody(A)
    <3>1. \A x \in Nat : ~(x + 1 <= x) OBVIOUS
    <3>2. p = Len(code[f]) /\ Len(code[f]) \in Nat BY <1>5, <1>6, <1>12
    <3> HIDE DEF A, f, p
    <3>3. ~(A.pc <= Len(code[A.fn])) BY <1>3, <3>1, <3>2
    <3> QED BY <3>3 DEF InBody
  <2>2. Tried(A) = {} /\ Live(A) BY <2>1, TriedDone
  <2>3. Tried(Top) = {} BY <1>1, <1>12 DEF Outer
  <2>4. eh' = eh BY <1>7, <1>8, <1>12
  <2> HIDE DEF A
  <2> QED BY <1>3, <1>4, <2>2, <2>3, <2>4, MoveTry
<1>13. CASE n # 0
  <2>1. At1(f, p + 1) /\ snap[f][p + 1].ctrl = SubSeq(s.ctrl, 1, n - 1) BY <1>6, <1>13
  <2>2. n \in 1 .. n /\ n - 1 \in 0 .. n
    <3>1. \A x \in Nat : x # 0 => x \in 1 .. x /\ x - 1 \in 0 .. x OBVIOUS
    <3>2. n \in Nat BY <1>1
    <3> HIDE DEF n
    <3> QED BY <3>1, <3>2, <1>13
  <2>3. Len(snap[f][p + 1].ctrl) = n - 1 /\ \A k \in 1 .. n - 1 : snap[f][p + 1].ctrl[k] = s.ctrl[k]
    <3> DEFINE B == s.ctrl
               D == snap[f][p + 1].ctrl
               m == n - 1
    <3>1. IsSeq(B) /\ m \in 0 .. Len(B) BY <1>5, <2>2
    <3>2. D = SubSeq(B, 1, m) BY <2>1
    <3> HIDE DEF B, D, m
    <3>3. Len(D) = m /\ \A k \in 1 .. m : D[k] = B[k] BY <3>1, <3>2, SeqCut
    <3> QED BY <3>3 DEF B, D, m
  <2>4. InBody(A)
    <3>1. p + 1 \in 1 .. Len(code[f]) BY <2>1 DEF At1
    <3>2. p + 1 <= Len(code[f]) BY <1>5, <3>1
    <3> HIDE DEF A, f, p
    <3> QED BY <1>3, <3>2 DEF InBody
  <2>5. Tried(A) = Outer(f, p, n - 1)
    <3> HIDE DEF A, f, p, s, n
    <3>1. Tried(A) = Outer(f, p + 1, n - 1) BY <1>3, <2>3, <2>4, TriedAll
    <3>2. Outer(f, p + 1, n - 1) = Outer(f, p, n - 1) BY <2>3, OuterSame DEF s
    <3> QED BY <3>1, <3>2
  <2>6. Live(A)
    <3>1. snap[f][p + 1].skip = -1
      <4>1. After(s, code[f][p], p, snap[f][p + 1]) BY <1>1, <1>2, BodyIs
      <4>2. s.skip <= 0 BY <1>10
      <4> QED BY <1>1, <1>7, <1>13, <4>1, <4>2 DEF After
    <3> HIDE DEF A
    <3> QED BY <1>3, <3>1 DEF Live, DeadTry
  <2>7. CASE s.skip = -1 /\ s.ctrl[n].op = "try_table"
    <3>1. eh' = ea_jit_eh_popn(1) BY <1>7, <1>8, <1>9, <1>13, <2>2, <2>7
    <3>2. Inner(f, p, n - 1) = {n}
      <4>1. \A k \in n - 1 + 1 .. n : k = n BY <1>1
      <4>2. n \in n - 1 + 1 .. n BY <1>1
      <4> QED BY <2>7, <4>1, <4>2 DEF Inner
    <3>3. Cardinality(Inner(f, p, n - 1)) = 1 BY <3>2, FS_Singleton
    <3>4. n - 1 \in 0 .. Len(Here.ctrl) BY <1>1, <2>2
    <3> HIDE DEF A
    <3> QED BY <1>1, <1>3, <1>4, <2>5, <2>6, <3>1, <3>3, <3>4, CutTry
  <2>8. CASE ~(s.skip = -1 /\ s.ctrl[n].op = "try_table")
    <3>1. s.ctrl[n].op # "try_table"
      BY <1>1, <1>7, <1>10, <1>11, <1>13, <2>8 DEF DeadTry
    <3>2. eh' = eh BY <1>8, <1>9, <2>2, <3>1
    <3>3. Tried(A) = Tried(Top)
      <4>1. \A x \in 1 .. n : x \in 1 .. n - 1 \/ x = n BY <1>1
      <4>2. \A x \in 1 .. n - 1 : x \in 1 .. n BY <1>1
      <4> HIDE DEF A, s, n
      <4>3. {x \in 1 .. n - 1 : s.ctrl[x].op = "try_table"} = {x \in 1 .. n : s.ctrl[x].op = "try_table"}
        BY <3>1, <4>1, <4>2
      <4> QED BY <1>1, <2>5, <4>3 DEF Outer, s
    <3> HIDE DEF A
    <3> QED BY <1>3, <1>4, <2>6, <3>2, <3>3, MoveTry
  <2> QED BY <2>7, <2>8
<1> QED BY <1>12, <1>13

\* A branch pops the entries of the try_tables it leaves.
LEMMA JJumpTry ==
  ASSUME Active, TryInv, CleanTries, Executes("jit", {"br", "br_if", "br_table"}),
         NEW l \in 0 .. Len(Here.ctrl), l = At.n \/ (At.op = "br_table" /\ l = 0), JJump(l)
  PROVE  TryNext
<1> DEFINE f == Top.fn
           p == Top.pc
           m == LabelLvl(Here, l)
           os == SubSeq(Top.ops, 1, LabelHeight(Here, m)) \o LastN(Top.ops, Len(LabelTys(f, Here, m)))
           G == [Top EXCEPT !.ops = os, !.pc = LabelPc(f, Here, m)]
<1>1. /\ Top.k = "jit" /\ InBody(Top) /\ FrameOK(Top) /\ DOMAIN Top = FrameFields /\ f \in Funcs
      /\ p \in 1 .. Len(code[f]) /\ At = code[f][p] /\ jit[f] /\ Here = snap[f][p]
      /\ Len(Here.ctrl) \in Nat /\ At.op \in {"br", "br_if", "br_table"} /\ At.op # "end" /\ Here.skip = -1
  <2>1. At.op \in {"br", "br_if", "br_table"} BY JitIs
  <2>2. At.op # "end" BY <2>1
  <2> QED BY <2>1, <2>2, JitIs
<1>2. ProgInv /\ built BY TriesNow
<1>3. m \in 0 .. Len(Here.ctrl) /\ m = Len(Here.ctrl) - l BY <1>1 DEF LabelLvl
<1>4. eh' = ea_jit_eh_popn(eh_crossings(Here, l)) /\ frames' = SetTop(G) BY DEF JJump, PopCrossings
<1>5. eh' = ea_jit_eh_popn(Cardinality(Inner(f, p, m))) BY <1>3, <1>4, CrossingsInner
<1>6. LeapsTo(code[f], snap[f], p, m) BY <1>1 DEF LeapsTo
<1> HIDE DEF os, m
<1>7. G.k = "jit" /\ G.fn = f /\ G.pc = LabelPc(f, snap[f][p], m) BY <1>1 DEF FrameFields
<1> HIDE DEF G
<1>8. m \in 0 .. Len(snap[f][p].ctrl) BY <1>1, <1>3
<1>9. Tried(G) = Outer(f, p, m) BY <1>1, <1>2, <1>7, <1>8, TriedLand
<1>10. Live(G)
  <2>1. snap[f][p].skip = -1 /\ code[f][p].op # "end" BY <1>1
  <2> QED BY <1>1, <1>2, <1>6, <1>7, <1>8, <2>1, LiveLand
<1> QED BY <1>1, <1>3, <1>4, <1>5, <1>7, <1>9, <1>10, CutTry

\* Branches taken or not.
LEMMA JBrTry == ASSUME Active, TryInv, CleanTries, JBr PROVE TryNext
<1>0. Executes("jit", {"br", "br_if", "br_table"}) BY DEF JBr
<1>1. /\ FrameOK(Top) /\ DOMAIN Top = FrameFields /\ InBody(Top) /\ Top.k = "jit" /\ At = code[Top.fn][Top.pc]
      /\ Len(Here.ctrl) \in Nat /\ At.op \in {"br", "br_if", "br_table"} /\ ValidLive(Top.fn, Here, At)
  <2>1. At.op \in {"br", "br_if", "br_table"} BY <1>0, JitIs
  <2>2. At.op # "end" BY <2>1
  <2> QED BY <1>0, <2>1, <2>2, JitIs
<1>2. ProgInv /\ built BY TriesNow
<1>3. At \in InstrType BY <1>0, ExecIs
<1>4. CASE JJump(At.n)
  <2>1. At.n <= Len(Here.ctrl) BY <1>1, ValidIs
  <2>2. At.n \in Nat BY <1>3 DEF InstrType
  <2>3. At.n \in 0 .. Len(Here.ctrl) BY <1>1, <2>1, <2>2
  <2> QED BY <1>0, <1>4, <2>3, JJumpTry
<1>5. CASE At.op = "br_table" /\ JJump(0)
  <2>1. 0 \in 0 .. Len(Here.ctrl) BY <1>1
  <2> QED BY <1>0, <1>5, <2>1, JJumpTry
<1>6. CASE At.op = "br_if" /\ frames' = SetTop(Advance) /\ eh' = eh
  <2>1. At.op \notin Terminators \cup {"end"} \cup Openers BY <1>6 DEF Terminators, Openers
  <2>2. Advance.k = Top.k /\ Advance.fn = Top.fn /\ Advance.pc = Top.pc + 1
    BY <1>1 DEF Advance, FrameFields
  <2>3. Tried(Advance) = Tried(Top) /\ Live(Advance) BY <1>1, <1>2, <2>1, <2>2, TriedNext
  <2> QED BY <1>6, <2>2, <2>3, MoveTry
<1> QED BY <1>4, <1>5, <1>6 DEF JBr

----------------------------------------------------------------------------
(* Generated code: operators, returns and calls.                           *)

\* Generated code goes on behind an instruction.
LEMMA JNextTry ==
  ASSUME Active, TryInv, InBody(Top), At.op \notin Terminators \cup {"end"} \cup Openers,
         NEW G, G.k = Top.k, G.fn = Top.fn, G.pc = Top.pc + 1, frames' = SetTop(G), eh' = eh
  PROVE  TryNext
<1>1. ProgInv /\ built /\ FrameOK(Top) BY TriesNow
<1>2. code[Top.fn][Top.pc].op \notin Terminators \cup {"end"} \cup Openers BY DEF At
<1>3. Tried(G) = Tried(Top) /\ Live(G) BY <1>1, <1>2, TriedNext
<1> QED BY <1>3, MoveTry

\* Operators.
LEMMA JSimpleTry == ASSUME Active, TryInv, JSimple PROVE TryNext
<1> DEFINE os == CASE At.op = "push" -> Append(Advance.ops, "v")
                   [] At.op = "drop" -> DropN(Advance.ops, 1)
                   [] OTHER -> Advance.ops
           G == [Advance EXCEPT !.ops = os]
<1>1. Executes("jit", {"push", "drop", "popcnt"}) BY DEF JSimple
<1>2. InBody(Top) /\ DOMAIN Top = FrameFields /\ At.op \in {"push", "drop", "popcnt"} BY <1>1, JitIs
<1>3. At.op \notin Terminators \cup {"end"} \cup Openers BY <1>2 DEF Terminators, Openers
<1>4. frames' = SetTop(G) /\ eh' = eh BY DEF JSimple
<1> HIDE DEF os
<1>5. G.k = Top.k /\ G.fn = Top.fn /\ G.pc = Top.pc + 1 BY <1>2 DEF Advance, FrameFields
<1> HIDE DEF G
<1> QED BY <1>2, <1>3, <1>4, <1>5, JNextTry

\* unreachable, and host functions.
LEMMA JTrapTry == ASSUME Active, TryInv, JTrap PROVE TryNext
<1>1. Executes("jit", {"unreachable", "host"}) BY DEF JTrap
<1>2. InBody(Top) /\ DOMAIN Top = FrameFields /\ At.op \in {"unreachable", "host"} BY <1>1, JitIs
<1>3. CASE At.op = "host"
  <2>1. At.op \notin Terminators \cup {"end"} \cup Openers BY <1>3 DEF Terminators, Openers
  <2>2. frames' = SetTop(Advance) /\ eh' = eh BY <1>3 DEF JTrap
  <2>3. Advance.k = Top.k /\ Advance.fn = Top.fn /\ Advance.pc = Top.pc + 1
    BY <1>2 DEF Advance, FrameFields
  <2> QED BY <1>2, <2>1, <2>2, <2>3, JNextTry
<1>4. CASE At.op # "host" BY <1>4, TrapTry DEF JTrap
<1> QED BY <1>3, <1>4

\* A frame that returns leaves its try_tables.
LEMMA ReturnCut ==
  ASSUME Active, TryInv, CleanTries, NEW ops, Executes("jit", ops)
  PROVE  TriesOK(Front, ea_jit_eh_popn(eh_crossings(Here, Len(Here.ctrl))))
<1>1. Top.k = "jit" /\ InBody(Top) /\ Len(Here.ctrl) \in Nat BY JitIs
<1>2. LabelLvl(Here, Len(Here.ctrl)) = 0 /\ 0 \in 0 .. Len(Here.ctrl) BY <1>1 DEF LabelLvl
<1>3. eh_crossings(Here, Len(Here.ctrl)) = Cardinality(Inner(Top.fn, Top.pc, 0))
  BY <1>2, CrossingsInner
<1> QED BY <1>1, <1>3, CutFront

\* The epilogue.
LEMMA JDoneTry == ASSUME Active, TryInv, CleanTries, PendInv, JDone PROVE TryNext
<1>0. Top.k = "jit" /\ mode = "run" /\ x0 = FALSE BY DEF JDone, Running, PendInv, PendingOK
<1>1. ASSUME NEW e, TriesOK(Front, e), NEW one, one = FALSE, JReturnWith(e, one) PROVE TryNext
  <2> DEFINE vs == LastN(Top.ops, NRes(Top.fn))
  <2>1. IF CallerIsJit THEN DeliverToJit(vs, stack, e) ELSE DeliverToC(stack \o vs, e)
    BY <1>1 DEF JReturnWith
  <2> DEFINE st == IF CallerIsJit THEN stack ELSE stack \o vs
  <2>2. IF CallerIsJit THEN DeliverToJit(vs, st, e) ELSE DeliverToC(st, e)
    <3>1. CASE CallerIsJit BY <2>1, <3>1
    <3>2. CASE ~CallerIsJit BY <2>1, <3>2
    <3> QED BY <3>1, <3>2
  <2> HIDE DEF vs, st
  <2> QED BY <1>1, <2>2, DeliverTry
<1>2. CASE ~InCode /\ JReturnWith(eh, x0)
  <2>1. ~InBody(Top) BY <1>2 DEF InCode, InBody
  <2>2. TriesOK(Front, eh) BY <2>1, TriedDone, FrontTry
  <2> QED BY <1>0, <1>1, <1>2, <2>2
<1>3. CASE InCode /\ At.op = "return"
  <2> DEFINE n == eh_crossings(Here, Len(Here.ctrl))
  <2>1. Executes("jit", {"return"}) BY <1>0, <1>3 DEF Executes, Running
  <2>2. TriesOK(Front, ea_jit_eh_popn(n)) BY <2>1, ReturnCut
  <2>3. JReturnWith(ea_jit_eh_popn(n), x0 /\ n = 0) BY <1>3, <1>2 DEF JDone
  <2>4. (x0 /\ n = 0) = FALSE BY <1>0
  <2> HIDE DEF n
  <2> QED BY <1>1, <2>2, <2>3, <2>4
<1> QED BY <1>2, <1>3 DEF JDone

\* A call.
LEMMA JCallTry == ASSUME Active, TryInv, JCall PROVE TryNext
<1> DEFINE os == DropN(Top.ops, NArgs(At.n))
           G == [Top EXCEPT !.ops = os]
<1>0. Executes("jit", {"call"}) BY DEF JCall
<1>1. /\ DOMAIN Top = FrameFields /\ At.op \in {"call"} /\ ValidLive(Top.fn, Here, At)
  <2>1. At.op \in {"call"} BY <1>0, JitIs
  <2> QED BY <1>0, <2>1, JitIs
<1>2. At.n \in Funcs BY <1>1, ValidIs
<1>3. TriesOK(frames, eh) /\ frames # <<>> /\ Fp = Len(frames) /\ frames[Fp] = Top BY TriesNow
<1>4. \/ EnterJit(SetTop(G), stack, At.n, Top.dep, eh)
      \/ EnterInterp(SetTop(G), stack \o LastN(Top.ops, NArgs(At.n)), At.n, Top.dep + 1)
  BY DEF JCall
<1> HIDE DEF os
<1>5. G.k = Top.k /\ G.fn = Top.fn /\ G.pc = Top.pc BY <1>1 DEF FrameFields
<1> HIDE DEF G
<1>6. Fp \in 1 .. Len(frames) BY <1>3, NonEmpty DEF TriesOK
<1>7. Live(Top) BY <1>3, <1>6 DEF TriesOK
<1>8. Tried(G) = Tried(Top) /\ Live(G) BY <1>5, <1>7, TriedSame
<1>9. TriesOK([frames EXCEPT ![Fp] = G], eh) BY <1>3, <1>5, <1>8, TriesKeep
<1>10. TriesOK(SetTop(G), eh) BY <1>3, <1>9 DEF SetTop
<1> QED BY <1>2, <1>4, <1>10, EnterTry

\* A tail call.
LEMMA JReturnCallTry == ASSUME Active, TryInv, CleanTries, JReturnCall PROVE TryNext
<1> DEFINE e == ea_jit_eh_popn(eh_crossings(Here, Len(Here.ctrl)))
<1>0. Executes("jit", {"return_call"}) BY DEF JReturnCall
<1>1. /\ DOMAIN Top = FrameFields /\ At.op \in {"return_call"} /\ ValidLive(Top.fn, Here, At)
  <2>1. At.op \in {"return_call"} BY <1>0, JitIs
  <2> QED BY <1>0, <2>1, JitIs
<1>2. At.n \in Funcs BY <1>1, ValidIs
<1>3. TriesOK(Front, e) BY <1>0, ReturnCut
<1>4. \/ EnterJit(Front, stack, At.n, Top.dep, e)
      \/ Trap
      \/ \E b : frames' = Append(Front, InterpFrame(At.n, Len(stack), Top.dep + 1, b)) /\ eh' = e
  BY DEF JReturnCall
<1> HIDE DEF e
<1>5. CASE EnterJit(Front, stack, At.n, Top.dep, e) BY <1>2, <1>3, <1>5, EnterTry
<1>6. ASSUME NEW b, frames' = Append(Front, InterpFrame(At.n, Len(stack), Top.dep + 1, b)), eh' = e
      PROVE  TryNext
  <2> DEFINE F == InterpFrame(At.n, Len(stack), Top.dep + 1, b)
  <2>1. F.k = "interp" BY DEF InterpFrame
  <2>2. frames' = Append(Front, F) BY <1>6
  <2> HIDE DEF F
  <2>3. Tried(F) = {} /\ Live(F) BY <2>1, TriedInterp
  <2>4. TriesOK(Append(Front, F), e) BY <1>3, <2>3, TriesPush
  <2> QED BY <1>6, <2>2, <2>4 DEF TryNext
<1> QED BY <1>4, <1>5, <1>6, TrapTry

----------------------------------------------------------------------------
(* Generated code: exceptions.                                             *)

\* The block at a level.
LEMMA BlockIs ==
  ASSUME ProgInv, NEW f \in Funcs, NEW p \in 1 .. Len(code[f]), NEW q \in 1 .. Len(snap[f][p].ctrl)
  PROVE  LET b == snap[f][p].ctrl[q].blk IN
         /\ IsSeq(snap[f][p].ctrl) /\ Len(snap[f][p].ctrl) \in Nat /\ q \in Nat /\ q # 0
         /\ b \in 1 .. Len(code[f]) /\ Opens(code[f], snap[f], b) /\ snap[f][b].skip = -1
         /\ Len(snap[f][b].ctrl) = q - 1 /\ \A x \in 1 .. q - 1 : snap[f][b].ctrl[x] = snap[f][p].ctrl[x]
<1> DEFINE C == snap[f][p].ctrl
           b == C[q].blk
           D == snap[f][b].ctrl
<1>0. Len(code[f]) \in Nat /\ IsSeq(C) /\ Len(C) \in Nat
  <2>1. Len(code[f]) \in Nat BY BodyIs
  <2>2. p \in 1 .. Len(code[f]) + 1 BY <2>1
  <2> QED BY <2>1, <2>2, BodyIs
<1>1. b \in 1 .. p - 1 /\ Opens(code[f], snap[f], b) /\ D = SubSeq(C, 1, q - 1) BY LevelIs
<1>2. b \in 1 .. Len(code[f])
  <2>1. \A x \in 1 .. p - 1 : x \in 1 .. Len(code[f]) BY <1>0
  <2> QED BY <1>1, <2>1
<1>3. q \in Nat /\ q # 0 /\ q - 1 \in 0 .. Len(C)
  <2> HIDE DEF D
  <2>1. \A n \in Nat : \A x \in 1 .. n : x \in Nat /\ x # 0 /\ x - 1 \in 0 .. n OBVIOUS
  <2> QED BY <1>0, <2>1
<1>4. Len(D) = q - 1 /\ \A x \in 1 .. q - 1 : D[x] = C[x]
  <2> HIDE DEF D, C
  <2> QED BY <1>0, <1>1, <1>3, SeqCut
<1>5. snap[f][b].skip = -1 BY <1>1 DEF Opens
<1> QED BY <1>0, <1>1, <1>2, <1>3, <1>4, <1>5

\* l is a label of a clause of the block at level q, m the level it names
Names(l, q, m) == l \in 0 .. q - 1 /\ m = q - 1 - l

\* What a label names is a level outside the block.
LEMMA NamesIs ==
  ASSUME NEW n \in Nat, NEW q \in 1 .. n, NEW l, NEW m, Names(l, q, m)
  PROVE  /\ m \in 0 .. q - 1 /\ m \in 0 .. n /\ m \in Nat /\ q - 1 - l = m
         /\ m # 0 => m \in 1 .. q - 1
         /\ \A x \in 1 .. q - 1 : x <= m \/ x \in m + 1 .. q - 1
<1>1. q \in Nat /\ 1 <= q /\ q <= n OBVIOUS
<1>2. l \in 0 .. q - 1 /\ m = q - 1 - l BY DEF Names
<1>3. l \in Nat /\ l <= q - 1 BY <1>1, <1>2
<1>4. m \in Nat /\ m <= q - 1 BY <1>1, <1>2, <1>3
<1>5. q - 1 - l = m BY <1>2
<1> QED BY <1>1, <1>4, <1>5

\* Clause j of b, the try_table at level q where function f stands at p, names level m.
CaughtBy(f, p, q, b, j, m) ==
  /\ f \in Funcs /\ jit[f] /\ p \in 1 .. Len(code[f]) /\ q \in 1 .. Len(snap[f][p].ctrl)
  /\ b = snap[f][p].ctrl[q].blk /\ code[f][b].op = "try_table" /\ j \in DOMAIN code[f][b].cs
  /\ Names(code[f][b].cs[j].label, q, m)

\* Level m is outside level q, and no try_table but the one at level q is left on the way.
CaughtTo(f, p, q, b, j, m) ==
  /\ m \in 0 .. q - 1 /\ m \in 0 .. Len(snap[f][p].ctrl) /\ m \in Nat
  /\ LabelLvl(snap[f][b], code[f][b].cs[j].label) = m
  /\ LabelPc(f, snap[f][b], m) = LabelPc(f, snap[f][p], m)
  /\ \A x \in 1 .. q - 1 : snap[f][p].ctrl[x].op = "try_table" => x <= m
  /\ \A G : G.k = "jit" /\ G.fn = f /\ G.pc = LabelPc(f, snap[f][p], m)
               => Tried(G) = Outer(f, p, m) /\ Live(G)

\* A clause of an open try_table lands outside it, in the same try_tables but
\* this one.
LEMMA CaughtAt ==
  ASSUME ProgInv, built, CleanTries, NEW f, NEW p, NEW q, NEW b, NEW j, NEW m,
         CaughtBy(f, p, q, b, j, m)
  PROVE  CaughtTo(f, p, q, b, j, m)
<1> DEFINE C == snap[f][p].ctrl
           D == snap[f][b].ctrl
           l == code[f][b].cs[j].label
<1>0. /\ f \in Funcs /\ jit[f] /\ p \in 1 .. Len(code[f]) /\ q \in 1 .. Len(C) /\ b = C[q].blk
      /\ code[f][b].op = "try_table" /\ j \in DOMAIN code[f][b].cs /\ Names(l, q, m)
  BY DEF CaughtBy
<1>1. /\ IsSeq(C) /\ Len(C) \in Nat /\ q \in Nat /\ q # 0 /\ b \in 1 .. Len(code[f])
      /\ Opens(code[f], snap[f], b) /\ snap[f][b].skip = -1
      /\ Len(D) = q - 1 /\ \A x \in 1 .. q - 1 : D[x] = C[x]
  <2>1. IsSeq(C) /\ Len(C) \in Nat /\ q \in Nat /\ q # 0 BY <1>0, BlockIs
  <2>2. b \in 1 .. Len(code[f]) /\ Opens(code[f], snap[f], b) /\ snap[f][b].skip = -1 BY <1>0, BlockIs
  <2>3. Len(D) = q - 1 BY <1>0, BlockIs
  <2>4. \A x \in 1 .. q - 1 : D[x] = C[x]
    <3>1. \A x \in 1 .. q - 1 : snap[f][C[q].blk].ctrl[x] = C[x] BY <1>0, BlockIs
    <3> QED BY <1>0, <3>1, Zenon
  <2> QED BY <2>1, <2>2, <2>3, <2>4
<1>2. /\ m \in 0 .. q - 1 /\ m \in 0 .. Len(C) /\ m \in Nat /\ q - 1 - l = m
      /\ m # 0 => m \in 1 .. q - 1
      /\ \A x \in 1 .. q - 1 : x <= m \/ x \in m + 1 .. q - 1
  <2>1. q \in 1 .. Len(C) /\ Len(C) \in Nat /\ Names(l, q, m) BY <1>0, <1>1
  <2> HIDE DEF C, l
  <2> QED BY <2>1, NamesIs
<1>3. LabelLvl(snap[f][b], l) = m
  <2>1. Len(snap[f][b].ctrl) - l = m BY <1>1, <1>2
  <2> QED BY <2>1 DEF LabelLvl
<1> HIDE DEF C, D, l
<1>5. m \in 0 .. Len(C) /\ m \in 0 .. Len(D) BY <1>1, <1>2
<1>6. LabelPc(f, snap[f][b], m) = LabelPc(f, snap[f][p], m)
  <2>1. m # 0 => D[m] = C[m] BY <1>1, <1>2
  <2> QED BY <2>1 DEF LabelPc, C, D
<1>7. JitBody(code[f], snap[f]) BY <1>0 DEF ProgInv
<1>8. ~CrossesTry(snap[f][b], code[f][b])
  <2>1. "crosses_try" \notin Shapes BY DEF CleanTries
  <2>2. b \in 1 .. Len(code[f]) /\ snap[f][b].skip = -1 /\ code[f][b].op = "try_table"
    BY <1>0, <1>1
  <2> QED BY <1>7, <2>1, <2>2 DEF JitBody
<1>9. \A x \in m + 1 .. Len(D) : D[x].op # "try_table" 
  <2> DEFINE g == code[f][b].cs[j].label
  <2>1. g = l /\ D = snap[f][b].ctrl BY DEF l, D
  <2>2. \A x \in LabelLvl(snap[f][b], g) + 1 .. Len(snap[f][b].ctrl) : snap[f][b].ctrl[x].op # "try_table"
    BY <1>0, <1>8 DEF CrossesTry
  <2> QED BY <1>3, <2>1, <2>2
<1>10. ASSUME NEW x \in 1 .. q - 1, C[x].op = "try_table" PROVE x <= m
  <2>1. D[x].op = "try_table" BY <1>1, <1>10
  <2>2. ~(x \in m + 1 .. q - 1) BY <1>1, <1>9, <2>1
  <2> QED BY <1>2, <2>2
<1>11. LeapsTo(code[f], snap[f], b, m) BY <1>0, <1>3 DEF LeapsTo, l
<1>12. ASSUME NEW G, G.k = "jit", G.fn = f, G.pc = LabelPc(f, snap[f][p], m)
       PROVE  Tried(G) = Outer(f, p, m) /\ Live(G)
  <2>1. m \in 0 .. Len(snap[f][p].ctrl) BY <1>5 DEF C
  <2>2. Tried(G) = Outer(f, p, m) BY <1>0, <1>12, <2>1, TriedLand
  <2>3. G.pc = LabelPc(f, snap[f][b], m) BY <1>6, <1>12
  <2>4. m \in 0 .. Len(snap[f][b].ctrl) BY <1>5 DEF D
  <2>5. code[f][b].op # "end" BY <1>0
  <2>6. Live(G) BY <1>0, <1>1, <1>11, <1>12, <2>3, <2>4, <2>5, LiveLand
  <2> QED BY <2>2, <2>6
<1> QED BY <1>2, <1>3, <1>5, <1>6, <1>10, <1>12 DEF C, l, CaughtTo

\* The entries of the top frame are the last ones.
LEMMA OwnIs ==
  ASSUME Active, TryInv
  PROVE  LET m == Len(eh) - Cardinality(OwnEntries) IN
         /\ \A j \in 1 .. Len(eh) : j \in OwnEntries <=> eh[j].fp = Fp
         /\ m \in 0 .. Len(eh) /\ \A j \in 1 .. Len(eh) : j <= m <=> eh[j].fp < Fp
<1> DEFINE N == Len(eh)
           O == OwnEntries
<1>1. TriesOK(frames, eh) /\ Fp = Len(frames) /\ Fp \in Nat /\ N \in Nat BY TriesNow
<1>2. \A j \in 1 .. N : eh[j].fp \in 1 .. Fp BY <1>1 DEF TriesOK, EntryOK
<1>3. ASSUME NEW j \in 1 .. N, eh[j].fp = Fp, NEW i \in 1 .. N, i >= j PROVE eh[i].fp = Fp
  <2>1. CASE i = j BY <1>3, <2>1
  <2>2. CASE i # j
    <3>1. j < i BY <1>3, <2>2
    <3>2. Under(eh[j], eh[i]) BY <1>1, <3>1 DEF TriesOK, Sorted
    <3>3. eh[j].fp <= eh[i].fp BY <1>1, <1>2, <3>2 DEF Under
    <3> QED BY <1>1, <1>2, <1>3, <3>3
  <2> QED BY <2>1, <2>2
<1>4. ASSUME NEW j \in 1 .. N PROVE j \in O <=> eh[j].fp = Fp
  <2>1. j \in j .. N BY <1>1
  <2>2. \A i \in j .. N : i \in 1 .. N /\ i >= j BY <1>1
  <2> QED BY <1>3, <2>1, <2>2 DEF OwnEntries
<1>5. O \in SUBSET (1 .. N) BY DEF OwnEntries
<1> HIDE DEF O, N
<1>6. \A j \in O : \A i \in 1 .. N : i > j => i \in O
  <2> SUFFICES ASSUME NEW j \in O, NEW i \in 1 .. N, i > j PROVE i \in O OBVIOUS
  <2>1. j \in 1 .. N /\ i >= j BY <1>1, <1>5
  <2> QED BY <1>3, <1>4, <2>1
<1>7. /\ N - Cardinality(O) \in 0 .. N
      /\ \A j \in 1 .. N : j <= N - Cardinality(O) <=> j \notin O
  BY <1>1, <1>5, <1>6, UpClosed
<1>8. \A j \in 1 .. N : j \notin O <=> eh[j].fp < Fp BY <1>1, <1>2, <1>4
<1> QED BY <1>4, <1>7, <1>8 DEF O, N

\* No entry of the frame has a clause: they all go, and the frame.
LEMMA MissTry ==
  ASSUME Active, TryInv, NEW t, MatchingEntries(t) = {}, eh_dispatch(t) PROVE TryNext
<1> DEFINE m == Len(eh) - Cardinality(OwnEntries)
<1>1. Propagate(stack, SubSeq(eh, 1, m)) BY DEF eh_dispatch
<1>2. m \in 0 .. Len(eh) /\ \A j \in 1 .. Len(eh) : j <= m <=> eh[j].fp < Fp BY OwnIs
<1> HIDE DEF m
<1>3. TriesOK(frames, eh) /\ frames # <<>> /\ Fp = Len(frames) BY TriesNow
<1>4. TriesOK(DropN(frames, 1), SubSeq(eh, 1, m)) BY <1>2, <1>3, TriesLeave
<1> QED BY <1>1, <1>4, PropagateTry DEF Front

\* An entry of the frame has a clause: it goes, with those above it.
LEMMA MatchTry ==
  ASSUME Active, TryInv, CleanTries, Top.k = "jit", NEW t, MatchingEntries(t) # {}, eh_dispatch(t)
  PROVE  TryNext
<1> DEFINE M == MatchingEntries(t)
           j == CHOOSE j \in M : \A x \in M : x <= j
           h == eh[j]
           i == code[h.fn][h.blk]
           c == i.cs[FirstClause(i, t)]
           s == snap[h.fn][h.blk]
           k == LabelLvl(s, c.label)
           ncarry == Carried(c, TagTys[t])
           up == Len(s.tys) - LabelHeight(s, k)
           vs == CASE c.kind = 0 -> Payload(t)
                   [] c.kind = 1 -> Append(Payload(t), t)
                   [] c.kind = 2 -> <<>>
                   [] c.kind = 3 -> <<t>>
           os == SubSeq(Top.ops, 1, h.sp0 - up) \o vs
           G == [Top EXCEPT !.fn = h.fn, !.pc = LabelPc(h.fn, s, k), !.ops = os]
<1>0. /\ TriesOK(frames, eh) /\ frames # <<>> /\ Fp = Len(frames) /\ frames[Fp] = Top
      /\ FrameOK(Top) /\ DOMAIN Top = FrameFields /\ ProgInv /\ built /\ TryProg
      /\ Fp \in Nat /\ IsSeq(eh) /\ Len(eh) \in Nat /\ HandlersOK(eh)
  BY TriesNow, ActiveIs
<1>1. Crash \/ (eh' = SubSeq(eh, 1, j - 1) /\ frames' = SetTop(G)) BY DEF eh_dispatch
<1>2. M \in SUBSET (0 .. Len(eh)) BY <1>0 DEF MatchingEntries, OwnEntries
<1>3. \E x \in M : \A y \in M : y <= x
  <2>1. Len(eh) \in Nat /\ M # {} BY <1>0
  <2> DEFINE N == Len(eh)
  <2>2. M \in SUBSET (0 .. N) BY <1>2
  <2>3. N \in Nat /\ M # {} BY <2>1
  <2> HIDE DEF M, N
  <2> QED BY <2>2, <2>3, Extremes
<1>4. j \in M BY <1>3
<1>5. j \in OwnEntries /\ j \in 1 .. Len(eh) /\ FirstClause(i, t) # 0
  BY <1>4 DEF MatchingEntries, OwnEntries
<1> HIDE DEF j
<1>6. h.fp = Fp BY <1>5, OwnIs
<1>7. EntryOK(frames, h) BY <1>0, <1>5 DEF TriesOK
<1>8. h.fn = Top.fn /\ h.blk \in Tried(Top) BY <1>0, <1>6, <1>7 DEF EntryOK
<1> DEFINE f == Top.fn
           p == Top.pc
           C == snap[f][p].ctrl
           b == h.blk
<1>9. InBody(Top) /\ \E q \in 1 .. Len(C) : C[q].op = "try_table" /\ b = C[q].blk
  BY <1>8 DEF Tried, TryLevels
<1>10. PICK q \in 1 .. Len(C) : C[q].op = "try_table" /\ b = C[q].blk BY <1>9
<1>11. f \in Funcs /\ p \in 1 .. Len(code[f]) /\ Len(code[f]) \in Nat /\ jit[f]
  BY <1>0, <1>9, FrameIs DEF FrameOK
<1>12. IsSeq(C) /\ Len(C) \in Nat
  <2>1. p \in 1 .. Len(code[f]) + 1 BY <1>11
  <2> QED BY <1>0, <1>11, <2>1, BodyIs
<1>13. At1(f, b) /\ code[f][b].op = "try_table" /\ h.fn = f
  BY <1>0, <1>5, <1>8 DEF HandlersOK, HandlerOK
<1>14. /\ FirstClause(code[f][b], t) \in DOMAIN code[f][b].cs
       /\ code[f][b].cs[FirstClause(code[f][b], t)].label \in 0 .. Len(snap[f][b].ctrl)
  <2>1. FirstClause(code[f][b], t) # 0 BY <1>5, <1>8
  <2> HIDE DEF b, f
  <2> QED BY <1>0, <1>11, <1>13, <2>1, ClauseIs
<1> DEFINE l == code[f][b].cs[FirstClause(code[f][b], t)].label
<1>15. c.label = l /\ s = snap[f][b] BY <1>8
<1> DEFINE m == q - 1 - l
<1>16. Names(l, q, m)
  <2>1. Len(snap[f][b].ctrl) = q - 1
    <3>1. b = snap[f][p].ctrl[q].blk /\ q \in 1 .. Len(snap[f][p].ctrl) BY <1>10
    <3>2. ProgInv /\ f \in Funcs /\ p \in 1 .. Len(code[f]) BY <1>0, <1>11
    <3> HIDE DEF b, f, p
    <3> QED BY <3>1, <3>2, BlockIs
  <2>2. l \in 0 .. q - 1 BY <1>14, <2>1
  <2> HIDE DEF l
  <2> QED BY <2>2 DEF Names
<1> HIDE DEF m
<1>18. /\ m \in 0 .. q - 1 /\ m \in 0 .. Len(C) /\ m \in Nat
       /\ LabelLvl(snap[f][b], l) = m
       /\ LabelPc(f, snap[f][b], m) = LabelPc(f, snap[f][p], m)
       /\ \A x \in 1 .. q - 1 : C[x].op = "try_table" => x <= m
       /\ \A H : H.k = "jit" /\ H.fn = f /\ H.pc = LabelPc(f, snap[f][p], m)
                   => Tried(H) = Outer(f, p, m) /\ Live(H)
  <2> DEFINE d == FirstClause(code[f][b], t)
  <2>1. b = snap[f][p].ctrl[q].blk /\ q \in 1 .. Len(snap[f][p].ctrl) BY <1>10
  <2>2. code[f][b].op = "try_table" BY <1>13
  <2>3. d \in DOMAIN code[f][b].cs BY <1>14
  <2>4. Names(code[f][b].cs[d].label, q, m) BY <1>16
  <2>5. ProgInv /\ built /\ CleanTries /\ f \in Funcs /\ jit[f] /\ p \in 1 .. Len(code[f])
    BY <1>0, <1>11
  <2>6. CaughtBy(f, p, q, b, d, m) BY <2>1, <2>2, <2>3, <2>4, <2>5 DEF CaughtBy
  <2>7. CaughtTo(f, p, q, b, d, m)
    <3> HIDE DEF f, p, b, d
    <3> QED BY <2>5, <2>6, CaughtAt
  <2> HIDE DEF f, p, b
  <2> QED BY <2>7 DEF CaughtTo, d
<1>19. k = m BY <1>15, <1>18
<1>20. G = [Top EXCEPT !.fn = f, !.pc = LabelPc(f, snap[f][p], m), !.ops = os]
  BY <1>8, <1>15, <1>18, <1>19
<1> HIDE DEF os, G, k
<1>21. G.k = "jit" /\ G.fn = f /\ G.pc = LabelPc(f, snap[f][p], m) BY <1>0, <1>20 DEF FrameFields
<1>22. Tried(G) = Outer(f, p, m) /\ Live(G) BY <1>18, <1>21
<1>23. Tried(Top) = Outer(f, p, Len(C)) BY <1>9, TriedAll
<1>24. Tried(G) \subseteq Tried(Top)
  <2>1. \A x \in 1 .. m : x \in 1 .. Len(C)
    <3>1. m \in 0 .. Len(C) /\ Len(C) \in Nat BY <1>12, <1>18
    <3> HIDE DEF C
    <3> QED BY <3>1
  <2>2. Outer(f, p, m) \subseteq Outer(f, p, Len(C)) BY <2>1 DEF Outer
  <2> QED BY <1>22, <1>23, <2>2
<1>25. /\ \A x \in 1 .. Len(C) : C[x].blk \in Nat
       /\ \A x, y \in 1 .. Len(C) : /\ x < y => C[x].blk < C[y].blk
                                    /\ C[x].blk = C[y].blk => x = y
  <2>1. ProgInv /\ f \in Funcs /\ p \in 1 .. Len(code[f]) BY <1>0, <1>11
  <2> HIDE DEF f, p
  <2> QED BY <2>1, BlksRise
<1>26. Outer(f, p, m) = {C[x].blk : x \in {y \in 1 .. m : C[y].op = "try_table"}} BY DEF Outer
<1>27. Tried(Top) = {C[x].blk : x \in {y \in 1 .. Len(C) : C[y].op = "try_table"}} BY <1>23 DEF Outer
<1>28. j \in Nat /\ q \in Nat /\ m \in Nat
  <2>1. j \in Nat BY <1>0, <1>5
  <2>2. m \in Nat BY <1>18
  <2>3. Len(C) \in Nat BY <1>12
  <2> HIDE DEF C
  <2> QED BY <2>1, <2>2, <2>3
<1>29. b = C[q].blk /\ q \in 1 .. Len(C) BY <1>10
<1>30. \A x \in 1 .. q - 1 : C[x].op = "try_table" => x <= m BY <1>18
<1>31. h.fp = Fp /\ h.blk = b /\ h = eh[j] BY <1>6
<1>32. m \in 0 .. q - 1 BY <1>18
<1> HIDE DEF C, f, p, b, h
<1>33. ASSUME NEW x \in 1 .. Len(eh) PROVE x <= j - 1 <=> (eh[x].fp < Fp \/ eh[x].blk \in Tried(G))
  <2>0. EntryOK(frames, eh[x]) BY <1>0 DEF TriesOK
  <2>1. eh[x].fp \in 1 .. Fp BY <1>0, <2>0 DEF EntryOK
  <2>2. CASE x <= j - 1
    <3>1. x < j BY <1>28, <2>2
    <3>2. Under(eh[x], h) BY <1>0, <1>5, <1>31, <3>1 DEF TriesOK, Sorted
    <3>3. eh[x].fp < Fp \/ (eh[x].fp = Fp /\ eh[x].blk < b) BY <1>31, <3>2 DEF Under
    <3>4. ASSUME eh[x].fp = Fp, eh[x].blk < b PROVE eh[x].blk \in Tried(G)
      <4>1. eh[x].blk \in Tried(Top) BY <1>0, <2>0, <3>4 DEF EntryOK
      <4>2. PICK y \in 1 .. Len(C) : C[y].op = "try_table" /\ eh[x].blk = C[y].blk BY <1>27, <4>1
      <4>3. ~(q < y) /\ ~(q = y) BY <1>25, <1>29, <3>4, <4>2
      <4>4. y \in 1 .. q - 1 BY <1>12, <1>28, <4>3
      <4>5. y \in 1 .. m BY <1>28, <1>30, <4>2, <4>4
      <4> QED BY <1>22, <1>26, <4>2, <4>5
    <3> QED BY <2>2, <3>3, <3>4
  <2>3. CASE ~(x <= j - 1)
    <3>1. x = j \/ j < x BY <1>28, <2>3
    <3>2. x = j \/ Under(h, eh[x]) BY <1>0, <1>5, <1>31, <3>1 DEF TriesOK, Sorted
    <3>3. ~(eh[x].fp < Fp) BY <1>0, <1>31, <2>1, <3>2 DEF Under
    <3>4. x = j \/ b < eh[x].blk BY <1>0, <1>31, <2>1, <3>2 DEF Under
    <3>5. ASSUME eh[x].blk \in Tried(G) PROVE FALSE
      <4>1. PICK y \in 1 .. m : C[y].op = "try_table" /\ eh[x].blk = C[y].blk BY <1>22, <1>26, <3>5
      <4>2. y \in 1 .. Len(C) /\ y < q BY <1>12, <1>28, <1>29, <1>32
      <4>3. C[y].blk < b /\ C[y].blk \in Nat /\ b \in Nat BY <1>25, <1>29, <4>2
      <4>4. eh[x].blk = b \/ b < eh[x].blk BY <1>31, <3>4
      <4> QED BY <4>1, <4>3, <4>4
    <3> QED BY <2>3, <3>3, <3>5
  <2> QED BY <2>2, <2>3
<1>34. CASE eh' = SubSeq(eh, 1, j - 1) /\ frames' = SetTop(G)
  <2>1. j - 1 \in 0 .. Len(eh) BY <1>0, <1>5
  <2>2. G.fn = frames[Fp].fn /\ Tried(G) \subseteq Tried(frames[Fp]) BY <1>0, <1>21, <1>24 DEF f
  <2>3. TriesOK([frames EXCEPT ![Fp] = G], SubSeq(eh, 1, j - 1))
    BY <1>0, <1>22, <1>33, <2>1, <2>2, TriesMove
  <2> QED BY <1>0, <1>34, <2>3 DEF TryNext, SetTop
<1> QED BY <1>1, <1>34, CrashTry

\* eh_dispatch leaves the entries of the try_tables that stay open.
LEMMA DispatchTry ==
  ASSUME Active, TryInv, CleanTries, Top.k = "jit", NEW t, eh_dispatch(t) PROVE TryNext
  BY MissTry, MatchTry

\* A throw whose handler is known at compile time pops one entry.
LEMMA FastTry ==
  ASSUME Active, TryInv, CleanTries, JThrow, FastThrow(Top.fn, Here, At.t) PROVE TryNext
<1> DEFINE f == Top.fn
           p == Top.pc
           s == snap[f][p]
           k == FastLvl(s)
           b == s.ctrl[k].blk
           c == code[f][b].cs[1]
           m == k - 1 - c.label
           n == IF c.kind = 2 THEN 0 ELSE Len(LabelTys(f, s, m))
           os == SubSeq(Top.ops, 1, LabelHeight(s, m)) \o LastN(Top.ops, n)
           G == [Top EXCEPT !.ops = os, !.pc = LabelPc(f, s, m)]
<1>0. Executes("jit", {"throw"}) BY DEF JThrow
<1>1. /\ Top.k = "jit" /\ InBody(Top) /\ FrameOK(Top) /\ DOMAIN Top = FrameFields
      /\ f \in Funcs /\ p \in 1 .. Len(code[f]) /\ jit[f] /\ Here = s /\ Len(s.ctrl) \in Nat
  BY <1>0, JitIs
<1>2. ProgInv /\ built /\ TryProg BY TriesNow
<1>3. eh' = ea_jit_eh_popn(1) /\ frames' = SetTop(G) BY <1>1 DEF JThrow
<1>4. FastThrow(f, s, At.t) BY <1>1
<1>5. /\ k \in 1 .. Len(s.ctrl) /\ code[f][b].op = "try_table" /\ 1 \in DOMAIN code[f][b].cs
      /\ m \in 0 .. k - 1
  BY <1>1, <1>2, <1>4, FastClauseIs
<1>6. k \in Nat /\ k # 0
  <2>1. \A z \in Nat : \A x \in 1 .. z : x \in Nat /\ x # 0 OBVIOUS
  <2> HIDE DEF k, s
  <2> QED BY <1>1, <1>5, <2>1
<1>7. s.is_try[k] /\ \A x \in 1 .. Len(s.ctrl) : s.is_try[x] => x <= k BY <1>1, <1>6, FastIs
<1>8. \A x \in 1 .. Len(s.ctrl) : s.is_try[x] <=> s.ctrl[x].op = "try_table" BY <1>1, <1>2, FlagIs
<1>9. c.label \in 0 .. k - 1
  <2>1. c.label \in Nat
    <3>1. At1(f, b) BY <1>1, <1>2, <1>4, FastClauseIs
    <3>2. code[f][b] \in InstrType BY <1>1, <1>2, <3>1, RunsIs
    <3>3. code[f][b].cs \in Seq(Clauses) BY <3>2 DEF InstrType
    <3>4. DOMAIN code[f][b].cs = 1 .. Len(code[f][b].cs) BY <3>3, LenProperties
    <3>5. c \in Clauses BY <1>5, <3>3, <3>4, ElementOfSeq
    <3> QED BY <3>5 DEF Clauses
  <2>2. \A y \in Nat, x \in 1 .. Len(s.ctrl) : x - 1 - y \in 0 .. x - 1 => y \in 0 .. x - 1 BY <1>1
  <2> QED BY <1>5, <2>1, <2>2
<1> DEFINE l == c.label
<1>10. /\ m \in 0 .. k - 1 /\ m \in 0 .. Len(s.ctrl) /\ m \in Nat
       /\ \A x \in 1 .. k - 1 : s.ctrl[x].op = "try_table" => x <= m
       /\ \A H : H.k = "jit" /\ H.fn = f /\ H.pc = LabelPc(f, s, m)
                   => Tried(H) = Outer(f, p, m) /\ Live(H)
  <2>1. b = snap[f][p].ctrl[k].blk /\ k \in 1 .. Len(snap[f][p].ctrl) BY <1>5
  <2>2. Names(l, k, m)
    <3>1. m = k - 1 - l /\ l \in 0 .. k - 1 BY <1>9
    <3> HIDE DEF l, k, m
    <3> QED BY <3>1 DEF Names
  <2>3. l = code[f][b].cs[1].label OBVIOUS
  <2>4. /\ ProgInv /\ built /\ CleanTries /\ f \in Funcs /\ jit[f] /\ p \in 1 .. Len(code[f])
        /\ code[f][b].op = "try_table" /\ 1 \in DOMAIN code[f][b].cs
    BY <1>1, <1>2, <1>5
  <2> HIDE DEF b, k, l, f, p, m
  <2>5. CaughtBy(f, p, k, b, 1, m) BY <2>1, <2>2, <2>3, <2>4 DEF CaughtBy
  <2>6. CaughtTo(f, p, k, b, 1, m) BY <2>4, <2>5, CaughtAt
  <2> QED BY <2>6 DEF CaughtTo
<1> HIDE DEF os, m, k
<1>11. G.k = "jit" /\ G.fn = f /\ G.pc = LabelPc(f, s, m) BY <1>1 DEF FrameFields
<1> HIDE DEF G
<1>12. Tried(G) = Outer(f, p, m) /\ Live(G) BY <1>10, <1>11
<1>13. Inner(f, p, m) = {k}
  <2>1. k \in m + 1 .. Len(s.ctrl)
    <3>1. \A z \in Nat : \A x \in 1 .. z : \A y \in 0 .. x - 1 : x \in y + 1 .. z OBVIOUS
    <3> HIDE DEF s
    <3> QED BY <1>1, <1>5, <1>10, <3>1
  <2>2. s.ctrl[k].op = "try_table" BY <1>5, <1>7, <1>8
  <2>3. ASSUME NEW x \in m + 1 .. Len(s.ctrl), s.ctrl[x].op = "try_table" PROVE x = k
    <3>1. x \in 1 .. Len(s.ctrl) /\ ~(x <= m) BY <1>1, <1>10
    <3>2. x <= k BY <1>7, <1>8, <2>3, <3>1
    <3>3. ~(x \in 1 .. k - 1) BY <1>10, <2>3, <3>1
    <3> HIDE DEF s
    <3> QED BY <1>1, <1>5, <3>1, <3>2, <3>3
  <2> QED BY <2>1, <2>2, <2>3 DEF Inner
<1>14. Cardinality(Inner(f, p, m)) = 1 BY <1>13, FS_Singleton
<1>15. m \in 0 .. Len(Here.ctrl) BY <1>1, <1>10
<1> QED BY <1>1, <1>3, <1>11, <1>12, <1>14, <1>15, CutTry

\* Every exception generated code meets.
LEMMA JThrowTry ==
  ASSUME Active, TryInv, CleanTries, PendInv, JThrow \/ JThrowRef \/ JResume PROVE TryNext
<1>1. CASE JThrow
  <2>1. Executes("jit", {"throw"}) BY <1>1 DEF JThrow
  <2>2. Top.k = "jit" BY <2>1, ExecIs
  <2>3. FastThrow(Top.fn, Here, At.t) \/ eh_dispatch(At.t) BY <1>1 DEF JThrow
  <2> QED BY <1>1, <2>2, <2>3, FastTry, DispatchTry
<1>2. CASE JThrowRef
  <2>1. Executes("jit", {"throw_ref"}) BY <1>2 DEF JThrowRef
  <2>2. Top.k = "jit" BY <2>1, ExecIs
  <2> QED BY <1>2, <2>2, DispatchTry, CrashTry DEF JThrowRef
<1>3. CASE JResume
  <2>1. Top.k = "jit" /\ pending \in Tags BY <1>3 DEF JResume, PendInv, PendingOK
  <2>2. pending # NoExn BY <2>1, TagAssumption DEF NoExn
  <2> QED BY <1>3, <2>1, <2>2, DispatchTry DEF JResume
<1> QED BY <1>1, <1>2, <1>3

\* Every step of generated code leaves the handlers exact.
LEMMA JitTry == ASSUME Active, TryInv, CleanTries, PendInv, JitNext PROVE TryNext
  BY JOpenTry, JEndTry, JBrTry, JSimpleTry, JTrapTry, JDoneTry, JCallTry, JReturnCallTry, JThrowTry
  DEF JitNext

----------------------------------------------------------------------------
(* The invariant.                                                          *)

\* Starting an invoke opens no try_table.
LEMMA InvokeTry == ASSUME ExecInv, TryInv, NEW f \in Funcs, Invoke(f) PROVE TryNext
<1>1. ProgInv /\ eh = <<>> /\ eh' = eh
  <2>1. mode = "idle" /\ eh' = eh BY DEF Invoke
  <2>2. eh = <<>> BY <2>1 DEF ExecInv, HandlerInv, NoHandlersAtIdle
  <2> QED BY <2>1, <2>2 DEF ExecInv
<1>2. ASSUME NEW F, Tried(F) = {}, Live(F), frames' = <<F>> PROVE TryNext
  <2>1. TriesOK(Append(<<>>, F), <<>>) BY <1>2, TriesNone, TriesPush
  <2>2. Append(<<>>, F) = <<F>> OBVIOUS
  <2> QED BY <1>1, <1>2, <2>1, <2>2 DEF TryNext
<1>3. CASE jit[f]
  <2>1. frames' = <<JitFrame(f, 0)>> BY <1>3 DEF Invoke
  <2>2. Tried(JitFrame(f, 0)) = {} /\ Live(JitFrame(f, 0)) BY <1>1, TriedNew
  <2> QED BY <2>1, <2>2, <1>2
<1>4. CASE ~jit[f]
  <2>1. PICK g \in Ctl0Garbage : frames' = <<InterpFrame(f, Len(stack), 0, g)>>
    BY <1>4 DEF Invoke
  <2>2. InterpFrame(f, Len(stack), 0, g).k = "interp" BY DEF InterpFrame
  <2> QED BY <2>1, <2>2, <1>2, TriedInterp
<1> QED BY <1>3, <1>4

\* Every step keeps the handlers those of the open try_tables.
LEMMA TryStep ==
  ASSUME CleanTries, ExecInv, PendInv, TryInv, [Next]_vars PROVE TryInv'
<1>0. ProgInv BY DEF ExecInv
<1>1. ASSUME UNCHANGED progvars, TryNext PROVE TryInv'
  <2>1. TriesOK(frames, eh)' BY <1>1, TriesSame DEF TryNext
  <2>2. TryProg' BY <1>1 DEF TryInv, TryProg, progvars
  <2> QED BY <2>1, <2>2 DEF TryInv
<1>2. CASE Step
  <2>1. UNCHANGED progvars BY <1>2 DEF Step
  <2>2. mode \in {"run", "exn"} BY <1>2, StepActive
  <2>3. Active BY <2>2 DEF Active
  <2>4. TryNext BY <1>2, <2>3, InterpTry, JitTry DEF Step
  <2> QED BY <1>1, <2>1, <2>4
<1>3. CASE Invoke(1) /\ UNCHANGED progvars
  <2>1. 1 \in Funcs BY NFuncsAssumption DEF Funcs
  <2>2. TryNext BY <1>3, <2>1, InvokeTry
  <2> QED BY <1>1, <1>3, <2>2
<1>4. CASE ProgNext /\ UNCHANGED execvars
  <2>1. TryProg' BY <1>0, <1>4, TryProgStep DEF TryInv
  <2>2. ~built BY <1>4 DEF ProgNext, Emit, Publish
  <2>3. frames' = <<>> /\ eh' = <<>> BY <1>4, <2>2 DEF ExecInv, execvars
  <2>4. TriesOK(frames, eh)'
    <3>1. IsSeq(frames') /\ Len(frames') = 0 /\ Len(eh') = 0 /\ IsSeq(eh') BY <2>3, SeqEmpty
    <3> QED BY <3>1 DEF TriesOK, Entered, Sorted
  <2> QED BY <2>1, <2>4 DEF TryInv
<1>5. CASE UNCHANGED vars
  <2>1. UNCHANGED progvars /\ frames' = frames /\ eh' = eh BY <1>5 DEF vars, progvars
  <2>2. TryNext BY <2>1 DEF TryNext, TryInv
  <2> QED BY <1>1, <2>1, <2>2
<1> QED BY <1>2, <1>3, <1>4, <1>5 DEF Next, Finished

\* At the start there are none.
LEMMA TryInit == Init => TryInv
<1> SUFFICES ASSUME Init PROVE TryInv OBVIOUS
<1>1. TryProg BY TryProgInit DEF Init
<1>2. frames = <<>> /\ eh = <<>> BY DEF Init
<1> QED BY <1>1, <1>2, TriesNone DEF TryInv

----------------------------------------------------------------------------
(* The theorem.                                                            *)

\* the members of S that come before x
Earlier(S, x) == {y \in S : Before(y, x)}

\* A set of levels that is listed in order is counted by its list.
LEMMA CountedInOrder ==
  ASSUME NEW n \in Nat, NEW S \in SUBSET (Nat \X Nat), NEW g \in [1 .. n -> S],
         \A x \in S : \E j \in 1 .. n : g[j] = x,
         \A i, j \in 1 .. n : i < j => Before(g[i], g[j])
  PROVE  /\ Cardinality(S) = n
         /\ \A j \in 1 .. n : Cardinality(Earlier(S, g[j])) = j - 1
<1>1. ASSUME NEW x \in S, NEW y \in S, Before(x, y) PROVE x # y /\ ~Before(y, x)
  <2>1. x[1] \in Nat /\ x[2] \in Nat /\ y[1] \in Nat /\ y[2] \in Nat OBVIOUS
  <2> QED BY <1>1, <2>1 DEF Before
<1>2. ASSUME NEW i \in 1 .. n, NEW j \in 1 .. n
      PROVE  (g[i] = g[j] => i = j) /\ (Before(g[i], g[j]) <=> i < j)
  <2>1. i < j \/ i = j \/ j < i OBVIOUS
  <2>2. g[i] \in S /\ g[j] \in S OBVIOUS
  <2>3. CASE i < j BY <1>1, <2>2, <2>3
  <2>4. CASE i = j BY <1>1, <2>2, <2>4
  <2>5. CASE j < i BY <1>1, <2>2, <2>5
  <2> QED BY <2>1, <2>3, <2>4, <2>5
<1>3. ASSUME NEW k \in 0 .. n PROVE Cardinality({g[i] : i \in 1 .. k}) = k
  <2> DEFINE T == {g[i] : i \in 1 .. k}
             h == [i \in 1 .. k |-> g[i]]
  <2>1. k \in Int /\ \A i \in 1 .. k : i \in 1 .. n OBVIOUS
  <2>2. h \in [1 .. k -> T] /\ \A x \in T : \E i \in 1 .. k : h[i] = x OBVIOUS
  <2>3. \A i, j \in 1 .. k : h[i] = h[j] => i = j BY <1>2, <2>1
  <2> HIDE DEF T, h
  <2>4. h \in Bijection(1 .. k, T) BY <2>2, <2>3, Fun_IsBij
  <2>5. IsFiniteSet(1 .. k) /\ Cardinality(1 .. k) = IF 1 > k THEN 0 ELSE k - 1 + 1 BY <2>1, FS_Interval
  <2>6. Cardinality(1 .. k) = k BY <2>5
  <2>7. Cardinality(T) = Cardinality(1 .. k) BY <2>4, <2>5, FS_Bijection DEF ExistsBijection
  <2> QED BY <2>6, <2>7 DEF T
<1>4. S = {g[i] : i \in 1 .. n} OBVIOUS
<1>5. ASSUME NEW j \in 1 .. n PROVE Earlier(S, g[j]) = {g[i] : i \in 1 .. j - 1}
  <2>1. \A i \in 1 .. j - 1 : i \in 1 .. n /\ i < j OBVIOUS
  <2>2. \A i \in 1 .. n : i < j => i \in 1 .. j - 1 OBVIOUS
  <2>3. ASSUME NEW y \in S, Before(y, g[j]) PROVE y \in {g[i] : i \in 1 .. j - 1}
    <3>1. PICK i \in 1 .. n : g[i] = y OBVIOUS
    <3>2. i < j BY <1>2, <2>3, <3>1
    <3> QED BY <2>2, <3>1, <3>2
  <2>4. ASSUME NEW i \in 1 .. j - 1 PROVE g[i] \in S /\ Before(g[i], g[j])
    BY <1>2, <2>1
  <2> QED BY <2>3, <2>4 DEF Earlier
<1>6. n \in 0 .. n /\ \A j \in 1 .. n : j - 1 \in 0 .. n OBVIOUS
<1>7. Cardinality(S) = n BY <1>3, <1>4, <1>6
<1>8. ASSUME NEW j \in 1 .. n PROVE Cardinality(Earlier(S, g[j])) = j - 1
  <2>1. j - 1 \in 0 .. n BY <1>6
  <2>2. Cardinality({g[i] : i \in 1 .. j - 1}) = j - 1 BY <1>3, <2>1
  <2> QED BY <1>5, <2>2
<1> QED BY <1>7, <1>8

\* entry j of the handler stack is that of x
IsEntry(j, x) ==
  /\ eh[j].fp = x[1] /\ eh[j].fn = frames[x[1]].fn
  /\ eh[j].blk = SnapAt(x[1]).ctrl[x[2]].blk

\* A frame of generated code has every level open that its snapshot records.
LEMMA LevelsOfFrame ==
  ASSUME CleanTries, ExecInv, TryInv, NEW i \in 1 .. Len(frames), frames[i].k = "jit", Inside(i)
  PROVE  /\ Len(SnapAt(i).ctrl) \in Nat /\ Len(SnapAt(i).ctrl) <= MaxNest
         /\ Tried(frames[i]) = {SnapAt(i).ctrl[k].blk :
                                  k \in {x \in 1 .. Len(SnapAt(i).ctrl) : SnapAt(i).ctrl[x].op = "try_table"}}
         /\ \A k, l \in 1 .. Len(SnapAt(i).ctrl) :
              /\ SnapAt(i).ctrl[k].blk < SnapAt(i).ctrl[l].blk => k < l
              /\ SnapAt(i).ctrl[k].blk = SnapAt(i).ctrl[l].blk => k = l
<1> DEFINE F == frames[i]
           f == F.fn
           p == F.pc
           C == snap[f][p].ctrl
<1>1. FrameOK(F) BY DEF ExecInv, Good, FramesOK
<1>2. InBody(F) BY DEF InBody, Inside
<1>3. ProgInv /\ TryProg BY DEF ExecInv, TryInv
<1>4. f \in Funcs /\ jit[f] /\ p \in 1 .. Len(code[f]) /\ Len(code[f]) \in Nat
  BY <1>1, <1>2, <1>3, FrameIs DEF FrameOK
<1>5. IsSeq(C) /\ Len(C) \in Nat
  <2>1. p \in 1 .. Len(code[f]) + 1 BY <1>4
  <2> HIDE DEF f, p
  <2> QED BY <1>3, <1>4, <2>1, BodyIs
<1>6. Len(C) <= MaxNest
  <2> HIDE DEF f, p
  <2> QED BY <1>3, <1>4, FlagIs
<1>7. SnapAt(i).ctrl = C BY DEF SnapAt
<1>8. Tried(F) = {C[k].blk : k \in {x \in 1 .. Len(C) : C[x].op = "try_table"}}
  BY <1>2 DEF Tried, TryLevels
<1>9. /\ \A k \in 1 .. Len(C) : C[k].blk \in Nat
      /\ \A k, l \in 1 .. Len(C) : /\ k < l => C[k].blk < C[l].blk
                                   /\ C[k].blk = C[l].blk => k = l
  <2> HIDE DEF f, p
  <2> QED BY <1>3, <1>4, BlksRise
<1> HIDE DEF C
<1>10. ASSUME NEW k \in 1 .. Len(C), NEW l \in 1 .. Len(C), C[k].blk < C[l].blk PROVE k < l
  <2>1. k < l \/ k = l \/ l < k BY <1>5
  <2>2. ~(k = l) BY <1>9, <1>10
  <2>3. ~(l < k) BY <1>9, <1>10
  <2> QED BY <2>1, <2>2, <2>3
<1> QED BY <1>5, <1>6, <1>7, <1>8, <1>9, <1>10

\* The handlers list the open try_tables in order.
LEMMA EntriesAre ==
  ASSUME CleanTries, ExecInv, TryInv
  PROVE  /\ \A j \in 1 .. Len(eh) : \E x \in OpenTries : IsEntry(j, x)
         /\ \A x \in OpenTries : \E j \in 1 .. Len(eh) : IsEntry(j, x)
         /\ \A i, j \in 1 .. Len(eh), x, y \in OpenTries :
              i < j /\ IsEntry(i, x) /\ IsEntry(j, y) => Before(x, y)
<1>0. TriesOK(frames, eh) BY DEF TryInv
<1>1. ASSUME NEW j \in 1 .. Len(eh) PROVE \E x \in OpenTries : IsEntry(j, x)
  <2> DEFINE i == eh[j].fp
             C == SnapAt(i).ctrl
  <2>1. EntryOK(frames, eh[j]) BY <1>0 DEF TriesOK
  <2>2. i \in 1 .. Len(frames) /\ eh[j].fn = frames[i].fn /\ eh[j].blk \in Tried(frames[i])
    BY <2>1 DEF EntryOK
  <2>3. frames[i].k = "jit" /\ Inside(i) BY <2>2 DEF Tried, TryLevels, InBody, Inside
  <2> HIDE DEF i
  <2>4. /\ Len(C) \in Nat /\ Len(C) <= MaxNest
        /\ Tried(frames[i]) = {C[k].blk : k \in {x \in 1 .. Len(C) : C[x].op = "try_table"}}
    BY <2>2, <2>3, LevelsOfFrame
  <2> HIDE DEF C
  <2>5. PICK q \in 1 .. Len(C) : C[q].op = "try_table" /\ eh[j].blk = C[q].blk BY <2>2, <2>4
  <2>6. q \in 1 .. MaxNest /\ q <= Len(C) BY <2>4, MaxNestAssumption
  <2>7. <<i, q>> \in OpenTries BY <2>2, <2>3, <2>5, <2>6 DEF OpenTries, C
  <2>8. IsEntry(j, <<i, q>>) BY <2>2, <2>5 DEF IsEntry, i, C
  <2> QED BY <2>7, <2>8
<1>2. ASSUME NEW x \in OpenTries
      PROVE  /\ x[1] \in 1 .. Len(frames) /\ frames[x[1]].k = "jit" /\ Inside(x[1])
             /\ x[2] \in 1 .. Len(SnapAt(x[1]).ctrl) /\ SnapAt(x[1]).ctrl[x[2]].op = "try_table"
  <2>1. /\ x[1] \in 1 .. Len(frames) /\ x[2] \in 1 .. MaxNest /\ x[2] <= Len(SnapAt(x[1]).ctrl)
        /\ frames[x[1]].k = "jit" /\ Inside(x[1]) /\ SnapAt(x[1]).ctrl[x[2]].op = "try_table"
    BY DEF OpenTries
  <2>2. Len(SnapAt(x[1]).ctrl) \in Nat BY <2>1, LevelsOfFrame
  <2> QED BY <2>1, <2>2, MaxNestAssumption
<1>3. ASSUME NEW x \in OpenTries PROVE \E j \in 1 .. Len(eh) : IsEntry(j, x)
  <2> DEFINE i == x[1]
             C == SnapAt(i).ctrl
             b == C[x[2]].blk
  <2>0. i \in 1 .. Len(frames) /\ frames[i].k = "jit" /\ Inside(i) BY <1>2
  <2>1. b \in Tried(frames[i])
    <3>1. x[2] \in 1 .. Len(C) /\ C[x[2]].op = "try_table" BY <1>2
    <3> HIDE DEF i
    <3>2. Tried(frames[i]) = {C[k].blk : k \in {z \in 1 .. Len(C) : C[z].op = "try_table"}}
      BY <2>0, LevelsOfFrame
    <3> HIDE DEF C
    <3> QED BY <3>1, <3>2
  <2> HIDE DEF b
  <2>2. PICK j \in 1 .. Len(eh) : eh[j].fp = x[1] /\ eh[j].blk = b
    BY <1>0, <2>0, <2>1 DEF TriesOK, Entered
  <2>3. EntryOK(frames, eh[j]) BY <1>0 DEF TriesOK
  <2>4. eh[j].fn = frames[x[1]].fn BY <2>2, <2>3 DEF EntryOK
  <2> QED BY <2>2, <2>4 DEF IsEntry, b
<1>4. ASSUME NEW i \in 1 .. Len(eh), NEW j \in 1 .. Len(eh), NEW x \in OpenTries, NEW y \in OpenTries,
             i < j, IsEntry(i, x), IsEntry(j, y)
      PROVE  Before(x, y)
  <2>1. Under(eh[i], eh[j]) BY <1>0, <1>4 DEF TriesOK, Sorted
  <2> DEFINE C == SnapAt(x[1]).ctrl
  <2>2. \/ x[1] < y[1]
        \/ x[1] = y[1] /\ C[x[2]].blk < C[y[2]].blk
    BY <1>4, <2>1 DEF Under, IsEntry
  <2>3. CASE x[1] < y[1] BY <2>3 DEF Before
  <2>4. CASE x[1] = y[1] /\ C[x[2]].blk < C[y[2]].blk
    <3>1. x[2] \in 1 .. Len(C) /\ y[2] \in 1 .. Len(C) BY <1>2, <2>4
    <3>2. \A k, l \in 1 .. Len(C) : C[k].blk < C[l].blk => k < l BY <1>2, LevelsOfFrame
    <3> HIDE DEF C
    <3> QED BY <2>4, <3>1, <3>2 DEF Before
  <2> QED BY <2>2, <2>3, <2>4
<1> QED BY <1>1, <1>3, <1>4

\* Two levels that share an entry are one.
LEMMA SameEntry ==
  ASSUME CleanTries, ExecInv, TryInv, NEW x \in OpenTries, NEW y \in OpenTries, NEW j,
         IsEntry(j, x), IsEntry(j, y)
  PROVE  x = y
<1> DEFINE C == SnapAt(x[1]).ctrl
<1>1. x \in (1 .. Len(frames)) \X (1 .. MaxNest) /\ y \in (1 .. Len(frames)) \X (1 .. MaxNest)
  BY DEF OpenTries
<1>2. x[1] = y[1] /\ C[x[2]].blk = C[y[2]].blk BY DEF IsEntry
<1>3. /\ x[1] \in 1 .. Len(frames) /\ frames[x[1]].k = "jit" /\ Inside(x[1])
      /\ x[2] \in 1 .. Len(C) /\ y[2] \in 1 .. Len(C)
  <2>1. /\ x[1] \in 1 .. Len(frames) /\ x[2] \in 1 .. MaxNest /\ x[2] <= Len(C)
        /\ frames[x[1]].k = "jit" /\ Inside(x[1])
    BY DEF OpenTries
  <2>2. y[2] \in 1 .. MaxNest /\ y[2] <= Len(C) BY <1>2 DEF OpenTries
  <2>3. Len(C) \in Nat BY <2>1, LevelsOfFrame
  <2> HIDE DEF C
  <2> QED BY <2>1, <2>2, <2>3, MaxNestAssumption
<1>4. \A k, l \in 1 .. Len(C) : C[k].blk = C[l].blk => k = l BY <1>3, LevelsOfFrame
<1> HIDE DEF C
<1>5. x[2] = y[2] BY <1>2, <1>3, <1>4
<1> QED BY <1>1, <1>2, <1>5

\* So there are as many of them, and each is where it belongs.
LEMMA TriesExact == ASSUME CleanTries, ExecInv, TryInv PROVE HandlersExact
<1> DEFINE n == Len(eh)
           S == OpenTries
           g == [j \in 1 .. n |-> CHOOSE x \in S : IsEntry(j, x)]
<1>1. n \in Nat BY SeqIs DEF TryInv, TriesOK
<1>2. /\ \A j \in 1 .. n : \E x \in S : IsEntry(j, x)
      /\ \A x \in S : \E j \in 1 .. n : IsEntry(j, x)
      /\ \A i, j \in 1 .. n, x, y \in S : i < j /\ IsEntry(i, x) /\ IsEntry(j, y) => Before(x, y)
  BY EntriesAre
<1>3. S \in SUBSET (Nat \X Nat)
  <2>1. \A a, b \in Nat : (1 .. a) \X (1 .. b) \subseteq Nat \X Nat OBVIOUS
  <2>2. Len(frames) \in Nat BY SeqIs DEF TryInv, TriesOK
  <2> QED BY <2>1, <2>2, MaxNestAssumption DEF OpenTries
<1> HIDE DEF S, n
<1>4. \A j \in 1 .. n : g[j] \in S /\ IsEntry(j, g[j]) BY <1>2
<1>5. g \in [1 .. n -> S] BY <1>4
<1> HIDE DEF g
<1>6. \A i, j \in 1 .. n : i < j => Before(g[i], g[j]) BY <1>2, <1>4
<1>7. ASSUME NEW x \in S, NEW j \in 1 .. n, IsEntry(j, x) PROVE g[j] = x
  <2>1. g[j] \in S /\ IsEntry(j, g[j]) BY <1>4
  <2> QED BY <1>7, <2>1, SameEntry DEF S
<1>8. \A x \in S : \E j \in 1 .. n : g[j] = x BY <1>2, <1>7
<1>9. /\ Cardinality(S) = n
      /\ \A j \in 1 .. n : Cardinality(Earlier(S, g[j])) = j - 1
  BY <1>1, <1>3, <1>5, <1>6, <1>8, CountedInOrder
<1>10. ASSUME NEW x \in S
       PROVE  IsEntry(Cardinality(Earlier(S, x)) + 1, x)
  <2>1. PICK j \in 1 .. n : g[j] = x BY <1>8
  <2>2. Cardinality(Earlier(S, x)) = j - 1 BY <1>9, <2>1
  <2>3. j - 1 + 1 = j BY <1>1
  <2> QED BY <1>4, <2>1, <2>2, <2>3
<1>11. Len(eh) = Cardinality(OpenTries) BY <1>9 DEF S, n
<1>12. ASSUME NEW x \in OpenTries
       PROVE  LET p == Cardinality({y \in OpenTries : Before(y, x)}) + 1
              IN /\ eh[p].fp = x[1] /\ eh[p].fn = frames[x[1]].fn
                 /\ eh[p].blk = SnapAt(x[1]).ctrl[x[2]].blk
  BY <1>10 DEF IsEntry, Earlier, S
<1> QED BY <1>11, <1>12 DEF HandlersExact

\* The handler stack lists the try_tables that are open, in order.
THEOREM HandlersStayExact ==
  ASSUME CallRefUncaught, NoResidue, CleanTries PROVE Spec => []HandlersExact
<1>1. Init => ExecInv /\ PendInv /\ TryInv
  BY ExecInit, TryInit DEF Init, PendInv, PendingOK
<1>2. ExecInv /\ PendInv /\ TryInv /\ [Next]_vars => (ExecInv /\ PendInv /\ TryInv)'
  BY ExecStep, PendStep, TryStep
<1>3. ExecInv /\ PendInv /\ TryInv => HandlersExact BY TriesExact
<1> QED BY <1>1, <1>2, <1>3, PTL DEF Spec
=============================================================================
