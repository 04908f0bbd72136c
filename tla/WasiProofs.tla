----------------------------- MODULE WasiProofs -----------------------------
(***************************************************************************)
(* Theorems about WasiFd, for every set of preopens, every size of the     *)
(* tables, files and memory, and every guest.                              *)
(***************************************************************************)
EXTENDS WasiProps, FiniteSetTheorems, WellFoundedInduction, SequenceTheorems, TLAPS

----------------------------------------------------------------------------
(* Facts about the helpers.                                                *)

\* The least element of a set of naturals exists (the searches for a free
\* descriptor, a free file and a file of a name take it).
LEMMA FirstIs ==
  ASSUME NEW S, S \subseteq Nat, S # {}
  PROVE  First(S) \in S /\ \A y \in S : First(S) <= y
<1>1. PICK R : IsWellFoundedOn(R, Nat) /\ \A x, y \in Nat : y < x => <<y, x>> \in R
  BY NatLessThanWellFounded DEF OpToRel
<1>2. PICK x \in S : \A y \in S : ~ (<<y, x>> \in R) BY <1>1, WFMin
<1>3. \A y \in S : x <= y
  <2> TAKE y \in S
  <2>1. x \in Nat /\ y \in Nat OBVIOUS
  <2>2. ~ (y < x) BY <1>1, <1>2, <2>1
  <2> QED BY <2>1, <2>2
<1> QED BY <1>3 DEF First

\* Contents are the sequences of bytes of at most MaxSize elements.
LEMMA ContentsAreSeqs ==
  ASSUME NEW c PROVE c \in Contents <=> c \in Seq(Bytes) /\ Len(c) <= MaxSize
<1>1. ASSUME c \in Contents PROVE c \in Seq(Bytes) /\ Len(c) <= MaxSize
  <2>1. PICK n \in 0 .. MaxSize : c \in [1 .. n -> Bytes] BY <1>1 DEF Contents
  <2>2. n \in Nat BY <2>1, RamBounds
  <2>3. c \in Seq(Bytes) /\ Len(c) = n BY <2>1, <2>2
  <2> QED BY <2>1, <2>3, RamBounds
<1>2. ASSUME c \in Seq(Bytes), Len(c) <= MaxSize PROVE c \in Contents
  <2>1. Len(c) \in 0 .. MaxSize /\ c \in [1 .. Len(c) -> Bytes] BY <1>2, LenProperties, RamBounds
  <2> QED BY <2>1 DEF Contents
<1> QED BY <1>1, <1>2

\* Writing inside or at the end of a file yields a sequence.
LEMMA WrittenIs ==
  ASSUME NEW S, NEW data \in Seq(S), NEW buf \in Seq(S), NEW off \in 0 .. Len(data)
  PROVE  /\ Written(data, off, buf) \in Seq(S)
         /\ Len(Written(data, off, buf)) =
              IF off + Len(buf) > Len(data) THEN off + Len(buf) ELSE Len(data)
         /\ \A x \in 1 .. Len(Written(data, off, buf)) :
              Written(data, off, buf)[x] =
                IF x \in off + 1 .. off + Len(buf) THEN buf[x - off] ELSE data[x]
<1> DEFINE n == IF off + Len(buf) > Len(data) THEN off + Len(buf) ELSE Len(data)
           e(x) == IF x \in off + 1 .. off + Len(buf) THEN buf[x - off] ELSE data[x]
<1>1. Len(data) \in Nat /\ Len(buf) \in Nat /\ n \in Nat BY LenProperties
<1>2. \A x \in 1 .. n : e(x) \in S
  <2> TAKE x \in 1 .. n
  <2>1. CASE x \in off + 1 .. off + Len(buf)
    <3>1. x - off \in 1 .. Len(buf) BY <1>1, <2>1
    <3> QED BY <2>1, <3>1, ElementOfSeq
  <2>2. CASE x \notin off + 1 .. off + Len(buf)
    <3>1. x \in 1 .. Len(data) BY <1>1, <2>2
    <3> QED BY <2>2, <3>1, ElementOfSeq
  <2> QED BY <2>1, <2>2
<1>3. Written(data, off, buf) = [x \in 1 .. n |-> e(x)] BY DEF Written
<1> HIDE DEF n, e
<1>4. [x \in 1 .. n |-> e(x)] \in Seq(S) BY <1>1, <1>2, IsASeq
<1>5. Len([x \in 1 .. n |-> e(x)]) = n BY <1>1, <1>4, LenProperties
<1> QED BY <1>3, <1>4, <1>5 DEF n, e

\* What an iovec inside the memory holds are bytes.
LEMMA IovBytes ==
  ASSUME NEW v \in Bufs, NEW j \in DOMAIN v, v[j] # Bad
  PROVE  v[j] \in Seq(Bytes) /\ v[j] \in Seq(Nat)
<1>1. v \in Seq(Seq(Nat) \cup {Bad}) BY WasiBounds
<1>2. v[j] \in Seq(Nat) BY <1>1, ElementOfSeq, LenProperties
<1>3. Range(v[j]) \subseteq Bytes BY DEF Bytes
<1>4. v[j] \in Seq(Range(v[j])) BY <1>2, SeqOfRange
<1>5. v[j] \in Seq(Bytes) BY <1>3, <1>4, SeqMonotonic
<1> QED BY <1>2, <1>5

----------------------------------------------------------------------------
(* The type invariant.                                                     *)

FdRec == [used : BOOLEAN, kind : {"unknown", "reg", "dir"}, pf : Nat,
          base : Range(Setup) \cup {Efb, None}, pre : BOOLEAN, fb : BOOLEAN, fb_len : 0 .. FbCap]

\* names of files inside the preopened directories
Inside == {<<b, p>> : b \in Range(Setup) \ {Efb}, p \in Paths \ Escapes}
FileRec == [used : BOOLEAN, name : Inside \cup {<<>>}, data : Contents, ofs : Nat]

\* what the RAM file system keeps about an array of files
RamOK(fs) == fs \in [Slots -> FileRec] /\ \A s \in Slots : fs[s].used => fs[s].name \in Inside

\* the table is an initial segment, and descriptors in use lie below next_fd
FdsOK ==
  /\ next_fd \in Nat /\ Cap \in Nat /\ next_fd <= Cap
  /\ fds \in [0 .. Cap - 1 -> FdRec]
  /\ \A i \in 0 .. Cap - 1 : fds[i].used => i < next_fd

IoCall(c) ==
  /\ DOMAIN c = {"op", "fd", "v", "k", "rc", "total", "got", "short"}
  /\ c.op \in {"read", "write"} /\ c.fd \in GuestFds /\ c.v \in Bufs /\ c.k \in Nat \ {0}

PollCall(c) ==
  /\ DOMAIN c = {"op", "v", "k", "events", "target", "rc", "slept", "asked", "short"}
  /\ c.op = "poll" /\ c.v \in Subs /\ c.k \in Nat \ {0}

CallOK == call = Idle \/ IoCall(call) \/ PollCall(call)

WantOK ==
  /\ want = [cont |-> want.cont, open |-> want.open]
  /\ DOMAIN want.cont \subseteq Names /\ DOMAIN want.open \subseteq 0 .. MaxFd

TypeInv ==
  /\ FdsOK /\ RamOK(files) /\ CallOK /\ WantOK
  /\ clock \in Nat /\ crash \in BOOLEAN
  /\ phase \in {"setup", "start", "guest", "freed"}

\* The invariant implies the two properties the run checks.
LEMMA TypeInvOK == TypeInv => TypeOK /\ Sandbox
<1> SUFFICES ASSUME TypeInv PROVE TypeOK /\ Sandbox OBVIOUS
<1>1. DOMAIN fds = 0 .. Cap - 1 BY DEF TypeInv, FdsOK
<1>2. \A i \in DOMAIN fds : fds[i].pf \in Nat /\ fds[i].fb_len \in 0 .. FbCap
  BY <1>1 DEF TypeInv, FdsOK, FdRec
<1>3. \A i \in DOMAIN fds : fds[i].used => i < next_fd BY <1>1 DEF TypeInv, FdsOK
<1>4. \A s \in Slots : files[s].used => files[s].name \in Inside /\ files[s].data \in Contents
  BY DEF TypeInv, RamOK, FileRec
<1>5. Inside \subseteq Names BY DEF Inside, Names
<1>6. TypeOK BY <1>1, <1>2, <1>3, <1>4, <1>5 DEF TypeInv, TypeOK, WantOK
<1>7. Sandbox BY <1>4 DEF Sandbox, Inside
<1> QED BY <1>6, <1>7

----------------------------------------------------------------------------
(* What the operations on the two tables do.                               *)

\* The slots of the RAM file system are numbered.
LEMMA SlotsAreNat == Slots \subseteq Nat BY RamBounds DEF Slots

\* ew_open finds the file of the name or takes an unused one, and starts it at
\* offset 0.
LEMMA RamOpenIs ==
  ASSUME NEW fs, RamOK(fs), NEW path \in Inside, NEW create \in BOOLEAN, NEW trunc \in BOOLEAN
  PROVE  LET r == ew_open(fs, path, create, trunc)
             hit == Found(fs, path) # {}
         IN  /\ RamOK(r.fs)
             /\ r.rc = IF hit \/ (create /\ Unused(fs) # {}) THEN "ok"
                      ELSE IF create THEN "full" ELSE "noent"
             /\ r.rc # "ok" => r.fs = fs
             /\ r.rc = "ok" =>
                  /\ r.out \in Slots
                  /\ IF hit THEN fs[r.out].used /\ fs[r.out].name = path ELSE ~fs[r.out].used
                  /\ r.fs[r.out].used /\ r.fs[r.out].name = path /\ r.fs[r.out].ofs = 0
                  /\ r.fs[r.out].data = IF hit /\ ~trunc THEN fs[r.out].data ELSE <<>>
                  /\ \A s \in Slots : s # r.out => r.fs[s] = fs[s]
<1> DEFINE r == ew_open(fs, path, create, trunc)
           hit == Found(fs, path)
           free == First(Unused(fs))
           new == ew_create(fs, path)
<1>1. fs \in [Slots -> FileRec] /\ \A s \in Slots : fs[s].used => fs[s].name \in Inside BY DEF RamOK
<1>2. <<>> \in Contents
  <2>1. <<>> \in [1 .. 0 -> Bytes] /\ 0 \in 0 .. MaxSize BY RamBounds
  <2> QED BY <2>1 DEF Contents
<1>3. CASE hit # {}
  <2> DEFINE s == First(hit)
  <2>1. hit \subseteq Nat BY SlotsAreNat DEF Found
  <2>2. s \in Slots /\ fs[s].used /\ fs[s].name = path BY <1>3, <2>1, FirstIs DEF Found
  <2> DEFINE f == Opened(fs[s], trunc)
  <2>3. r = [rc |-> "ok", fs |-> [fs EXCEPT ![s] = f], out |-> s]
    BY <1>1, <1>3 DEF ew_open, Answer
  <2>4. /\ f.used /\ f.name = path /\ f.ofs = 0
        /\ f.data = IF ~trunc THEN fs[s].data ELSE <<>>
    BY <1>1, <2>2 DEF Opened, FileRec
  <2>5. f \in FileRec BY <1>1, <1>2, <2>2 DEF Opened, FileRec
  <2> HIDE DEF f, s
  <2>6. r.fs = [fs EXCEPT ![s] = f] /\ r.out = s /\ r.rc = "ok" BY <2>3
  <2> HIDE DEF r
  <2>7. RamOK(r.fs) BY <1>1, <2>2, <2>4, <2>5, <2>6 DEF RamOK
  <2> QED BY <1>1, <1>3, <2>2, <2>4, <2>6, <2>7 DEF r
<1>4. CASE hit = {} /\ (~create \/ Unused(fs) = {})
  BY <1>4 DEF ew_open, Answer
<1>5. CASE hit = {} /\ create /\ Unused(fs) # {}
  <2>1. Unused(fs) \subseteq Nat BY SlotsAreNat DEF Unused
  <2>2. free \in Slots /\ ~fs[free].used BY <1>5, <2>1, FirstIs DEF Unused
  <2> DEFINE f == [fs[free] EXCEPT !.used = TRUE, !.name = path, !.data = <<>>]
             g == Opened(f, FALSE)
  <2>3. new = [fs EXCEPT ![free] = f] BY <1>1, <2>2 DEF ew_create
  <2>4. f \in FileRec BY <1>1, <1>2, <2>2 DEF FileRec
  <2>5. f.used /\ f.name = path /\ f.data = <<>> BY <1>1, <2>2 DEF FileRec
  <2> HIDE DEF f
  <2>6. g \in FileRec BY <2>4 DEF Opened, FileRec
  <2>7. g.used /\ g.name = path /\ g.data = <<>> /\ g.ofs = 0 BY <2>4, <2>5 DEF Opened, FileRec
  <2>8. Found(new, path) = {free} BY <1>1, <1>5, <2>2, <2>3, <2>5 DEF Found
  <2>9. First({free}) = free BY <2>2, SlotsAreNat, FirstIs
  <2>10. r = [rc |-> "ok", fs |-> [new EXCEPT ![free] = Opened(@, FALSE)], out |-> free]
    BY <1>5, <2>8, <2>9 DEF ew_open, Answer
  <2>11. [new EXCEPT ![free] = Opened(@, FALSE)] = [fs EXCEPT ![free] = g] BY <1>1, <2>2, <2>3
  <2> HIDE DEF g, free, new
  <2>12. r.fs = [fs EXCEPT ![free] = g] /\ r.out = free /\ r.rc = "ok" BY <2>10, <2>11
  <2> HIDE DEF r
  <2>13. RamOK(r.fs) BY <1>1, <2>2, <2>6, <2>7, <2>12 DEF RamOK
  <2> QED BY <1>1, <1>5, <2>2, <2>7, <2>12, <2>13, ZenonT(30) DEF r
<1> QED BY <1>3, <1>4, <1>5

\* Moving the offset of a file changes nothing else; no file is behind a
\* handle outside the array.
LEMMA MovedIs ==
  ASSUME NEW fs, RamOK(fs), NEW fd, NEW n, fd \in Slots => n \in Nat
  PROVE  LET g == [fs EXCEPT ![fd].ofs = n]
         IN  /\ RamOK(g)
             /\ fd \in Slots => /\ g[fd].used = fs[fd].used /\ g[fd].name = fs[fd].name
                                /\ g[fd].data = fs[fd].data /\ g[fd].ofs = n
             /\ \A s \in Slots : s # fd => g[s] = fs[s]
<1> DEFINE g == [fs EXCEPT ![fd].ofs = n]
<1>1. fs \in [Slots -> FileRec] /\ \A s \in Slots : fs[s].used => fs[s].name \in Inside BY DEF RamOK
<1>2. CASE fd \in Slots
  <2> DEFINE f == [fs[fd] EXCEPT !.ofs = n]
  <2>1. f \in FileRec BY <1>1, <1>2 DEF FileRec
  <2>2. f.used = fs[fd].used /\ f.name = fs[fd].name /\ f.data = fs[fd].data /\ f.ofs = n
    BY <1>1, <1>2 DEF FileRec
  <2>3. g = [fs EXCEPT ![fd] = f] BY <1>1, <1>2
  <2> HIDE DEF f, g
  <2>4. RamOK(g) BY <1>1, <1>2, <2>1, <2>2, <2>3 DEF RamOK
  <2> QED BY <1>1, <1>2, <2>2, <2>3, <2>4 DEF g
<1>3. CASE fd \notin Slots
  <2>1. g = fs BY <1>1, <1>3
  <2> QED BY <1>3, <2>1
<1> QED BY <1>2, <1>3

\* A write goes to the offset, or to the end of a shorter file.
LEMMA PlaceIs ==
  ASSUME NEW fs, RamOK(fs), NEW fd \in Slots
  PROVE  /\ fs[fd].data \in Seq(Bytes) /\ Len(fs[fd].data) \in Nat
         /\ Place(fs[fd]) \in 0 .. Len(fs[fd].data)
         /\ fs[fd].ofs <= Len(fs[fd].data) => Place(fs[fd]) = fs[fd].ofs
<1>1. fs[fd].data \in Contents /\ fs[fd].ofs \in Nat BY DEF RamOK, FileRec
<1>2. fs[fd].data \in Seq(Bytes) BY <1>1, ContentsAreSeqs
<1>3. Len(fs[fd].data) \in Nat BY <1>2, LenProperties
<1> QED BY <1>1, <1>2, <1>3 DEF Place, Least

\* ew_read answers with what lies between the offset and the end, at most len
\* bytes, and moves the offset over it.
LEMMA RamReadIs ==
  ASSUME NEW fs, RamOK(fs), NEW fd, NEW len \in Nat
  PROVE  LET r == ew_read(fs, fd, len)
             n == Least(Len(fs[fd].data) - Place(fs[fd]), len)
         IN  /\ RamOK(r.fs)
             /\ fd \in Slots /\ fs[fd].used =>
                  /\ r.rc = "ok"
                  /\ r.out = SubSeq(fs[fd].data, Place(fs[fd]) + 1, Place(fs[fd]) + n)
                  /\ r.fs = [fs EXCEPT ![fd].ofs = Place(fs[fd]) + n]
<1> DEFINE n == Least(Len(fs[fd].data) - Place(fs[fd]), len)
<1>1. fd \in Slots => Place(fs[fd]) + n \in Nat BY PlaceIs DEF Least
<1> HIDE DEF n
<1>2. RamOK([fs EXCEPT ![fd].ofs = Place(fs[fd]) + n]) BY <1>1, MovedIs
<1>3. CASE fs[fd].used BY <1>2, <1>3 DEF ew_read, Answer, n
<1>4. CASE ~fs[fd].used BY <1>4 DEF ew_read, Answer
<1> QED BY <1>3, <1>4

\* ew_write puts the bytes at the offset and moves the offset behind them, or
\* refuses all of them.
LEMMA RamWriteIs ==
  ASSUME NEW fs, RamOK(fs), NEW fd, NEW buf \in Seq(Bytes)
  PROVE  LET r == ew_write(fs, fd, buf)
             off == Place(fs[fd])
         IN  /\ RamOK(r.fs)
             /\ fd \in Slots /\ fs[fd].used =>
                  /\ r.rc = IF off + Len(buf) <= MaxSize THEN "ok" ELSE "full"
                  /\ r.rc # "ok" => r.fs = fs
                  /\ r.rc = "ok" =>
                       /\ r.out = Len(buf)
                       /\ r.fs[fd].used /\ r.fs[fd].name = fs[fd].name
                       /\ r.fs[fd].data = Written(fs[fd].data, off, buf)
                       /\ r.fs[fd].ofs = off + Len(buf)
                       /\ \A s \in Slots : s # fd => r.fs[s] = fs[s]
<1> DEFINE off == Place(fs[fd])
           r == ew_write(fs, fd, buf)
<1>1. fs \in [Slots -> FileRec] /\ \A s \in Slots : fs[s].used => fs[s].name \in Inside BY DEF RamOK
<1>2. CASE ~fs[fd].used \/ ~WriteFits(off, Len(buf))
  BY <1>2 DEF ew_write, Answer, WriteFits
<1>3. CASE fs[fd].used /\ WriteFits(off, Len(buf)) /\ fd \notin Slots
  <2>1. r.fs = [fs EXCEPT ![fd].data = Written(fs[fd].data, off, buf), ![fd].ofs = off + Len(buf)]
    BY <1>3 DEF ew_write, Answer
  <2>2. r.fs = fs BY <1>1, <1>3, <2>1
  <2> QED BY <1>3, <2>2
<1>4. CASE fs[fd].used /\ WriteFits(off, Len(buf)) /\ fd \in Slots
  <2> DEFINE d == Written(fs[fd].data, off, buf)
             f == [fs[fd] EXCEPT !.data = d, !.ofs = off + Len(buf)]
  <2>1. r = [rc |-> "ok", out |-> Len(buf),
             fs |-> [fs EXCEPT ![fd].data = d, ![fd].ofs = off + Len(buf)]]
    BY <1>4 DEF ew_write, Answer
  <2>2. off \in 0 .. Len(fs[fd].data) /\ fs[fd].data \in Seq(Bytes) /\ Len(fs[fd].data) \in Nat
    BY <1>4, PlaceIs
  <2>3. Len(fs[fd].data) <= MaxSize BY <1>1, <1>4, ContentsAreSeqs DEF FileRec
  <2>4. d \in Seq(Bytes) /\ Len(d) = IF off + Len(buf) > Len(fs[fd].data) THEN off + Len(buf)
                                     ELSE Len(fs[fd].data)
    <3> DEFINE a == fs[fd].data
    <3> HIDE DEF off, a
    <3>1. off \in 0 .. Len(a) /\ a \in Seq(Bytes) /\ buf \in Seq(Bytes) BY <2>2 DEF a
    <3>2. Written(a, off, buf) \in Seq(Bytes)
          /\ Len(Written(a, off, buf)) = IF off + Len(buf) > Len(a) THEN off + Len(buf) ELSE Len(a)
      BY <3>1, WrittenIs
    <3> QED BY <3>2 DEF a
  <2>5. Len(buf) \in Nat BY LenProperties
  <2>6. off + Len(buf) <= MaxSize BY <1>4 DEF WriteFits
  <2> HIDE DEF d, off, r
  <2>7. d \in Contents BY <2>2, <2>3, <2>4, <2>5, <2>6, ContentsAreSeqs
  <2>8. f \in FileRec
    <3>1. off + Len(buf) \in Nat BY <2>2, <2>5
    <3> QED BY <1>1, <1>4, <2>7, <3>1 DEF FileRec
  <2>9. f.used /\ f.name = fs[fd].name /\ f.data = d /\ f.ofs = off + Len(buf)
    BY <1>1, <1>4 DEF FileRec
  <2>10. [fs EXCEPT ![fd].data = d, ![fd].ofs = off + Len(buf)] = [fs EXCEPT ![fd] = f]
    BY <1>1, <1>4
  <2> HIDE DEF f
  <2>11. r.rc = "ok" /\ r.out = Len(buf) /\ r.fs = [fs EXCEPT ![fd] = f] BY <2>1, <2>10
  <2>12. RamOK(r.fs) BY <1>1, <1>4, <2>8, <2>9, <2>11 DEF RamOK
  <2> QED BY <1>1, <1>4, <2>6, <2>9, <2>11, <2>12 DEF r, off, d
<1> QED BY <1>2, <1>3, <1>4

\* ew_seek moves the offset or refuses.
LEMMA RamSeekIs ==
  ASSUME NEW fs, RamOK(fs), NEW fd, NEW off \in Int, NEW whence \in {"set", "cur", "end"}
  PROVE  LET r == ew_seek(fs, fd, off, whence)
             np == SeekBase(fs[fd], whence) + off
         IN  /\ RamOK(r.fs)
             /\ r.rc = IF np < 0 THEN "inval" ELSE "ok"
             /\ r.out = IF np < 0 THEN 0 ELSE np
             /\ r.fs = IF np < 0 THEN fs ELSE [fs EXCEPT ![fd].ofs = np]
<1> DEFINE np == SeekBase(fs[fd], whence) + off
<1>1. fd \in Slots => SeekBase(fs[fd], whence) \in Int
  <2> SUFFICES ASSUME fd \in Slots PROVE SeekBase(fs[fd], whence) \in Int OBVIOUS
  <2>1. fs[fd].ofs \in Nat BY DEF RamOK, FileRec
  <2>2. Len(fs[fd].data) \in Nat BY PlaceIs
  <2> QED BY <2>1, <2>2 DEF SeekBase
<1>2. fd \in Slots => np \in Int BY <1>1
<1> HIDE DEF np
<1>3. CASE np < 0 BY <1>3 DEF ew_seek, Answer, np
<1>4. CASE ~(np < 0)
  <2>1. fd \in Slots => np \in Nat BY <1>2, <1>4
  <2>2. RamOK([fs EXCEPT ![fd].ofs = np]) BY <2>1, MovedIs
  <2> QED BY <1>4, <2>2 DEF ew_seek, Answer, np
<1> QED BY <1>3, <1>4

\* The descriptors the code fills in.
LEMMA ZeroIs ==
  /\ Zero \in FdRec
  /\ Zero.used = FALSE /\ Zero.kind = "unknown" /\ Zero.base = None /\ Zero.fb = FALSE
<1>1. 0 \in 0 .. FbCap BY WasiBounds
<1> QED BY <1>1 DEF Zero, FdRec

\* A standard stream as InitStd makes it.
LEMMA StdRec ==
  ASSUME NEW i \in Nat
  PROVE  LET rec == [Zero EXCEPT !.pf = i] IN
         rec \in FdRec /\ rec.base = None /\ rec.fb = FALSE /\ rec.kind = "unknown"
  BY ZeroIs DEF FdRec

\* A preopen as the host adds it.
LEMMA HostRec ==
  ASSUME NEW b \in Range(Setup)
  PROVE  LET rec == [Zero EXCEPT !.kind = IF b = Efb THEN "reg" ELSE "dir", !.pre = TRUE,
                                 !.base = b, !.fb = (b = Efb)] IN
         rec \in FdRec /\ rec.base = b /\ rec.fb = (b = Efb)
  BY ZeroIs DEF FdRec

\* A descriptor of an opened file.
LEMMA FileFd ==
  ASSUME NEW i \in Nat
  PROVE  LET rec == [Zero EXCEPT !.kind = "reg", !.pf = i] IN
         rec \in FdRec /\ rec.base = None /\ rec.fb = FALSE /\ rec.pf = i /\ rec.kind = "reg"
  BY ZeroIs DEF FdRec

\* A descriptor of the framebuffer.
LEMMA FbFd ==
  ASSUME NEW n \in 0 .. FbCap
  PROVE  [Zero EXCEPT !.used = TRUE, !.kind = "reg", !.base = Efb, !.fb = TRUE, !.fb_len = n] \in FdRec
  BY ZeroIs DEF FdRec

\* The number of entries of a table.
LEMMA CapIs == ASSUME NEW n \in Nat, DOMAIN fds' = 0 .. n - 1 PROVE Cap' = n
<1>1. Cardinality(0 .. n - 1) = n BY FS_Interval
<1> QED BY <1>1 DEF Cap

\* Growth of the table keeps the entries and adds zeroed ones.
LEMMA EnlargedIs ==
  ASSUME FdsOK, NEW i \in Nat
  PROVE  \E n \in Nat : /\ Cap <= n /\ i < n
                        /\ Enlarged(i) \in [0 .. n - 1 -> FdRec]
                        /\ Enlarged(i) = [j \in 0 .. n - 1 |-> IF j < Cap THEN fds[j] ELSE Zero]
<1> DEFINE tab == Enlarged(i)
<1>1. Cap \in Nat /\ fds \in [0 .. Cap - 1 -> FdRec] BY DEF FdsOK
<1>2. PICK n \in Nat : /\ Cap <= n /\ i < n
                       /\ tab = [j \in 0 .. n - 1 |-> IF j < Cap THEN fds[j] ELSE Zero]
  <2>1. CASE i < Cap
    <3>1. fds = [j \in 0 .. Cap - 1 |-> IF j < Cap THEN fds[j] ELSE Zero] BY <1>1
    <3> QED BY <1>1, <2>1, <3>1 DEF Enlarged
  <2>2. CASE ~ (i < Cap)
    <3> DEFINE nc == IF Cap = 0 THEN Cap0 ELSE 2 * Cap
               m == IF nc <= i THEN i + 1 ELSE nc
    <3>1. nc \in Nat /\ Cap <= nc BY <1>1, WasiBounds
    <3>2. m \in Nat /\ Cap <= m /\ i < m BY <1>1, <2>2, <3>1
    <3>3. tab = [j \in 0 .. m - 1 |-> IF j < Cap THEN fds[j] ELSE Zero] BY <2>2 DEF Enlarged
    <3> HIDE DEF m
    <3> QED BY <3>2, <3>3
  <2> QED BY <2>1, <2>2
<1>3. Zero \in FdRec BY ZeroIs
<1>4. tab \in [0 .. n - 1 -> FdRec] BY <1>1, <1>2, <1>3
<1> QED BY <1>2, <1>4

\* fd_alloc keeps every entry but the one it fills, which exists afterwards.
LEMMA AllocIs ==
  ASSUME FdsOK, NEW i \in Nat, NEW rec \in FdRec, fd_alloc(i, rec)
  PROVE  /\ FdsOK'
         /\ Cap <= Cap' /\ i < Cap'
         /\ DOMAIN fds' = 0 .. Cap' - 1
         /\ fds'[i] = [rec EXCEPT !.used = TRUE]
         /\ \A j \in 0 .. Cap - 1 : j # i => fds'[j] = fds[j]
         /\ \A j \in 0 .. Cap' - 1 : j # i /\ j >= Cap => fds'[j] = Zero
<1> DEFINE tab == Enlarged(i)
           entry == [rec EXCEPT !.used = TRUE]
<1>1. Cap \in Nat /\ fds \in [0 .. Cap - 1 -> FdRec] /\ next_fd \in Nat /\ next_fd <= Cap BY DEF FdsOK
<1>2. PICK n \in Nat : /\ Cap <= n /\ i < n
                       /\ tab \in [0 .. n - 1 -> FdRec]
                       /\ tab = [j \in 0 .. n - 1 |-> IF j < Cap THEN fds[j] ELSE Zero]
  BY EnlargedIs
<1>4. entry \in FdRec BY DEF FdRec
<1>6. fds' = [tab EXCEPT ![i] = entry] BY DEF fd_alloc
<1> HIDE DEF tab, entry
<1>7. fds' \in [0 .. n - 1 -> FdRec] BY <1>2, <1>4, <1>6
<1>8. Cap' = n BY <1>7, CapIs
<1>9. fds'[i] = entry BY <1>2, <1>6
<1>10. \A j \in 0 .. n - 1 : j # i => fds'[j] = IF j < Cap THEN fds[j] ELSE Zero
  BY <1>2, <1>6
<1>11. next_fd' \in Nat /\ next_fd' <= n /\ i < next_fd' /\ next_fd <= next_fd'
  BY <1>1, <1>2 DEF fd_alloc
<1>12. \A j \in 0 .. n - 1 : fds'[j].used => j < next_fd'
  <2> TAKE j \in 0 .. n - 1
  <2>1. CASE j = i BY <2>1, <1>11
  <2>2. CASE j # i /\ j < Cap
    <3>1. fds[j].used => j < next_fd BY <2>2, <1>1 DEF FdsOK
    <3> QED BY <2>2, <3>1, <1>1, <1>10, <1>11
  <2>3. CASE j # i /\ ~(j < Cap) BY <2>3, <1>10 DEF Zero
  <2> QED BY <2>1, <2>2, <2>3
<1>13. FdsOK' BY <1>7, <1>8, <1>11, <1>12 DEF FdsOK
<1> QED BY <1>1, <1>2, <1>7, <1>8, <1>9, <1>10, <1>13 DEF entry

\* fd_alloc_any never answers with a descriptor in use.
LEMMA AnyIsFree ==
  ASSUME FdsOK
  PROVE  /\ fd_alloc_any \in Nat /\ 3 <= fd_alloc_any
         /\ fd_alloc_any <= 3 \/ fd_alloc_any <= next_fd
         /\ fd_alloc_any \in 0 .. Cap - 1 => ~fds[fd_alloc_any].used
<1> DEFINE free == {i \in 3 .. next_fd - 1 : ~fds[i].used}
<1>1. next_fd \in Nat /\ \A i \in 0 .. Cap - 1 : fds[i].used => i < next_fd BY DEF FdsOK
<1>2. CASE free # {}
  <2>1. free \subseteq Nat BY <1>1
  <2>2. First(free) \in free BY <1>2, <2>1, FirstIs
  <2>3. fd_alloc_any = First(free) BY <1>2 DEF fd_alloc_any
  <2> QED BY <1>1, <2>2, <2>3
<1>3. CASE free = {}
  <2>1. fd_alloc_any = IF next_fd < 3 THEN 3 ELSE next_fd BY <1>3 DEF fd_alloc_any
  <2> QED BY <1>1, <2>1
<1> QED BY <1>2, <1>3

----------------------------------------------------------------------------
(* Every action preserves the type invariant.                              *)

\* A step that leaves the descriptors alone keeps their types.
LEMMA KeepFds == FdsOK /\ UNCHANGED <<fds, next_fd>> => FdsOK'
  BY DEF FdsOK, Cap
\* The same for the call under way.
LEMMA KeepCall == CallOK /\ UNCHANGED call => CallOK'
  BY DEF CallOK
\* The same for the expected state.
LEMMA KeepWant == WantOK /\ UNCHANGED want => WantOK'
  BY DEF WantOK

\* A change of the expected descriptors or contents keeps the shape of `want'.
LEMMA WantOpen_ ==
  ASSUME WantOK, NEW X, want' = [want EXCEPT !.open = X], DOMAIN X \subseteq 0 .. MaxFd
  PROVE  WantOK' /\ want'.cont = want.cont /\ want'.open = X
<1>1. want' = [cont |-> want.cont, open |-> X] BY DEF WantOK
<1> QED BY <1>1 DEF WantOK

\* The expected descriptors after an open.
LEMMA NewOpenIs ==
  ASSUME NEW fd, NEW kind, NEW name
  PROVE  /\ DOMAIN NewOpen(fd, kind, name) = DOMAIN want.open \cup {fd}
         /\ NewOpen(fd, kind, name)[fd] = [kind |-> kind, name |-> name, ofs |-> 0]
         /\ \A d \in DOMAIN want.open : d # fd => NewOpen(fd, kind, name)[d] = want.open[d]
  BY DEF NewOpen, Put

\* They have the shape of `want'.
LEMMA WantNewOpen ==
  ASSUME WantOK, NEW fd \in 0 .. MaxFd, NEW kind, NEW name,
         want' = [want EXCEPT !.open = NewOpen(fd, kind, name)]
  PROVE  WantOK' /\ want'.cont = want.cont /\ want'.open = NewOpen(fd, kind, name)
<1>1. DOMAIN NewOpen(fd, kind, name) = DOMAIN want.open \cup {fd} BY NewOpenIs
<1>2. DOMAIN NewOpen(fd, kind, name) \subseteq 0 .. MaxFd BY <1>1 DEF WantOK
<1> QED BY <1>2, WantOpen_

\* The bound on descriptors leaves room for the standard streams and the setup.
LEMMA SetupFits == Len(Setup) \in Nat /\ MaxFd \in Nat /\ Len(Setup) + 2 <= MaxFd
<1>1. Setup \in Seq(STRING) BY WasiBounds
<1>2. Len(Setup) \in Nat BY <1>1, LenProperties
<1> QED BY <1>2, WasiBounds

\* The host's steps before the guest runs.
LEMMA HostType ==
  ASSUME TypeInv, (\E i \in 0 .. 2 : InitStd(i)) \/ HostAdds \/ Instantiate \/ ea_wasi_bind \/ Exit
  PROVE  TypeInv'
<1>0. FdsOK /\ WantOK /\ CallOK BY DEF TypeInv
<1>1. ASSUME NEW i \in 0 .. 2, InitStd(i) PROVE TypeInv'
  <2> DEFINE rec == [Zero EXCEPT !.pf = i]
  <2>1. i \in Nat /\ i \in 0 .. MaxFd BY SetupFits
  <2>2. rec \in FdRec BY <2>1, StdRec
  <2>3. fd_alloc(i, rec) BY <1>1 DEF InitStd
  <2> HIDE DEF rec
  <2>5. FdsOK' BY <1>0, <2>1, <2>2, <2>3, AllocIs
  <2>4. WantOK' BY <1>0, <1>1, <2>1, WantNewOpen DEF InitStd
  <2> QED BY <1>0, <1>1, <2>4, <2>5, KeepCall DEF InitStd, TypeInv
<1>2. CASE HostAdds
  <2> DEFINE b == Setup[next_fd - 2]
             rec == [Zero EXCEPT !.kind = IF b = Efb THEN "reg" ELSE "dir", !.pre = TRUE,
                                 !.base = b, !.fb = (b = Efb)]
  <2>1. next_fd \in Nat /\ next_fd >= 3 /\ next_fd - 2 <= Len(Setup) BY <1>0, <1>2 DEF HostAdds, FdsOK
  <2>2. b \in Range(Setup)
    <3>1. next_fd - 2 \in 1 .. Len(Setup) BY <2>1, WasiBounds, LenProperties
    <3>2. next_fd - 2 \in DOMAIN Setup BY <3>1, WasiBounds, LenProperties
    <3> QED BY <3>2 DEF Range
  <2>3. rec \in FdRec BY <2>2, HostRec
  <2>4. fd_alloc_any \in Nat /\ fd_alloc_any <= next_fd BY <1>0, <2>1, AnyIsFree
  <2>5. fd_alloc(fd_alloc_any, rec) BY <1>2 DEF HostAdds
  <2> HIDE DEF rec
  <2>6. FdsOK' BY <1>0, <2>3, <2>4, <2>5, AllocIs
  <2>7. fd_alloc_any \in 0 .. MaxFd BY <2>1, <2>4, SetupFits
  <2> DEFINE kind == IF b = Efb THEN "fb" ELSE "dir"
  <2>8. want' = [want EXCEPT !.open = NewOpen(fd_alloc_any, kind, <<b>>)] BY <1>2 DEF HostAdds
  <2> HIDE DEF kind
  <2>9. WantOK' BY <1>0, <2>7, <2>8, WantNewOpen
  <2> QED BY <1>0, <1>2, <2>6, <2>9, KeepCall DEF HostAdds, TypeInv
<1>3. CASE Instantiate BY <1>3, KeepFds, KeepCall, KeepWant DEF Instantiate, TypeInv
<1>4. CASE ea_wasi_bind BY <1>4, KeepFds, KeepCall, KeepWant DEF ea_wasi_bind, TypeInv
<1>5. CASE Exit
  <2>1. DOMAIN fds' = 0 .. 0 - 1 BY <1>5 DEF Exit
  <2>2. Cap' = 0 BY <2>1, CapIs
  <2>3. fds' \in [0 .. 0 - 1 -> FdRec] BY <1>5 DEF Exit
  <2>4. FdsOK' BY <1>5, <2>2, <2>3 DEF FdsOK, Exit
  <2>5. WantOK' BY <1>0, <1>5, WantOpen_ DEF Exit
  <2>6. crash' \in BOOLEAN BY <1>5 DEF Exit, FreedTwice
  <2> QED BY <1>0, <1>5, <2>4, <2>5, <2>6, KeepCall DEF Exit, TypeInv
<1> QED BY <1>1, <1>2, <1>3, <1>4, <1>5

\* What resolve_path lets through starts at a preopen.
LEMMA ResolvedIs ==
  ASSUME NEW dirfd, NEW p, resolve_path(dirfd, p) = "ok"
  PROVE  bound /\ fd_get(dirfd) /\ fds[dirfd].base # None /\ ~Refused(p)
  BY DEF resolve_path

\* path_open through the framebuffer's preopen.
LEMMA OpenFbType ==
  ASSUME TypeInv, NEW dirfd \in GuestFds, fd_get(dirfd), NEW flags, fd_alloc_any <= MaxFd,
         OpenFb(dirfd, fd_alloc_any, flags)
  PROVE  TypeInv'
<1> DEFINE fd == fd_alloc_any
           tab == Enlarged(fd)
           len == IF "clear" \in flags THEN 0 ELSE fds[dirfd].fb_len
           rec == [Zero EXCEPT !.used = TRUE, !.kind = "reg", !.base = Efb, !.fb = TRUE, !.fb_len = len]
<1>1. FdsOK /\ WantOK /\ CallOK BY DEF TypeInv
<1>2. fd \in Nat /\ fd \in 0 .. MaxFd BY <1>1, AnyIsFree, SetupFits
<1>3. Cap \in Nat /\ fds \in [0 .. Cap - 1 -> FdRec] /\ dirfd \in 0 .. Cap - 1 /\ fds[dirfd].used
      /\ next_fd \in Nat /\ next_fd <= Cap
  BY <1>1, WasiBounds DEF FdsOK, fd_get
<1>4. len \in 0 .. FbCap BY <1>3, WasiBounds DEF FdRec
<1> HIDE DEF len
<1>5. rec \in FdRec BY <1>4, FbFd
<1>6. fds' = [tab EXCEPT ![fd] = rec, ![dirfd].fb_len = len] BY DEF OpenFb, len
<1> HIDE DEF rec
<1>7. PICK n \in Nat : /\ Cap <= n /\ fd < n
                       /\ tab \in [0 .. n - 1 -> FdRec]
                       /\ tab = [j \in 0 .. n - 1 |-> IF j < Cap THEN fds[j] ELSE Zero]
  BY <1>1, <1>2, EnlargedIs
<1> DEFINE new == [tab EXCEPT ![fd] = rec]
           entry == [new[dirfd] EXCEPT !.fb_len = len]
<1> HIDE DEF tab, fd
<1>8. new \in [0 .. n - 1 -> FdRec] BY <1>5, <1>7
<1>9. fds' = [new EXCEPT ![dirfd] = entry] BY <1>3, <1>6, <1>7, <1>8
<1> HIDE DEF new
<1>10. entry \in FdRec /\ entry.used = new[dirfd].used
  <2>1. dirfd \in 0 .. n - 1 BY <1>3, <1>7
  <2>2. new[dirfd] \in FdRec BY <1>8, <2>1
  <2> QED BY <1>4, <2>2 DEF FdRec
<1> HIDE DEF entry
<1>11. fds' \in [0 .. n - 1 -> FdRec] BY <1>8, <1>9, <1>10
<1>12. Cap' = n BY <1>11, CapIs
<1>13. next_fd' \in Nat /\ next_fd' <= n /\ fd < next_fd' /\ next_fd <= next_fd'
  BY <1>2, <1>3, <1>7 DEF OpenFb, fd
<1>14. \A j \in 0 .. n - 1 : fds'[j].used => j < next_fd'
  <2> TAKE j \in 0 .. n - 1
  <2>1. fds'[j].used = new[j].used BY <1>8, <1>9, <1>10
  <2>2. CASE j = fd BY <2>2, <1>13
  <2>3. CASE j # fd /\ j < Cap
    <3>1. fds[j].used => j < next_fd BY <2>3, <1>1, <1>3 DEF FdsOK
    <3>2. new[j] = fds[j] BY <2>3, <1>7 DEF new
    <3> QED BY <2>1, <3>1, <3>2, <1>3, <1>13
  <2>4. CASE j # fd /\ ~(j < Cap)
    <3>1. new[j] = Zero BY <2>4, <1>7 DEF new
    <3> QED BY <2>1, <3>1, ZeroIs
  <2> QED BY <2>2, <2>3, <2>4
<1>15. FdsOK' BY <1>11, <1>12, <1>13, <1>14 DEF FdsOK
<1>16. WantOK' BY <1>1, <1>2, WantNewOpen DEF OpenFb, fd
<1>17. crash' \in BOOLEAN BY DEF OpenFb
<1> QED BY <1>1, <1>15, <1>16, <1>17, KeepCall DEF OpenFb, Returns, TypeInv

\* path_open: only names below a preopened directory, without "..", reach the
\* file system.
LEMMA OpenType ==
  ASSUME TypeInv, NEW dirfd \in GuestFds, NEW p \in Paths, NEW flags, PathOpen(dirfd, p, flags)
  PROVE  TypeInv'
<1> DEFINE base == IF fd_get(dirfd) THEN fds[dirfd].base ELSE None
           path == <<base, Cut[p]>>
           create == Creates(flags)
           trunc == Truncates(flags)
           r == ew_open(files, path, create, trunc)
           name == <<base, p>>
           wrc == WantOpen(dirfd, name, p, flags)
           fd == fd_alloc_any
<1>1. FdsOK /\ WantOK /\ CallOK /\ RamOK(files) BY DEF TypeInv
<1>2. fd <= MaxFd BY DEF PathOpen
<1>3. ASSUME NEW rc, NEW w, OpenFails(rc, w) PROVE TypeInv'
  BY <1>1, <1>3, KeepFds, KeepCall, KeepWant DEF OpenFails, Returns, TypeInv
<1>4. CASE resolve_path(dirfd, p) # "ok" BY <1>3, <1>4 DEF PathOpen
<1>5. CASE resolve_path(dirfd, p) = "ok" /\ base = Efb
  <2>1. OpenFb(dirfd, fd, flags) BY <1>5 DEF PathOpen
  <2>2. fd_get(dirfd) BY <1>5, ResolvedIs
  <2> QED BY <1>2, <2>1, <2>2, OpenFbType
<1>6. CASE resolve_path(dirfd, p) = "ok" /\ base # Efb
  <2>1. fd_get(dirfd) /\ fds[dirfd].base # None /\ ~Refused(p) BY <1>6, ResolvedIs
  <2>2. base \in Range(Setup) \ {Efb}
    <3>1. dirfd \in 0 .. Cap - 1 BY <1>1, <2>1, WasiBounds DEF fd_get, FdsOK
    <3>2. fds[dirfd].base \in Range(Setup) \cup {Efb, None} BY <1>1, <3>1 DEF FdsOK, FdRec
    <3> QED BY <1>6, <2>1, <3>2
  <2>3. path \in Inside BY <2>1, <2>2, WasiBounds DEF Inside, Refused
  <2>4. name \in Names BY <2>2 DEF Names
  <2>5. create \in BOOLEAN /\ trunc \in BOOLEAN BY DEF Creates, Truncates
  <2>6. IF r.rc # "ok" THEN OpenFails(r.rc, wrc) ELSE OpenFile(fd, name, r, wrc, "trunc" \in flags)
    BY <1>6 DEF PathOpen
  <2> HIDE DEF path, create, trunc, name
  <2>7. RamOK(r.fs) /\ (r.rc = "ok" => r.out \in Slots) BY <1>1, <2>3, <2>5, RamOpenIs
  <2> HIDE DEF r, wrc
  <2>8. CASE r.rc # "ok" BY <1>3, <2>6, <2>8
  <2>9. CASE r.rc = "ok"
    <3> DEFINE rec == [Zero EXCEPT !.kind = "reg", !.pf = r.out]
    <3>1. OpenFile(fd, name, r, wrc, "trunc" \in flags) BY <2>6, <2>9
    <3>2. r.out \in Nat BY <2>7, <2>9, SlotsAreNat
    <3>3. rec \in FdRec BY <3>2, FileFd
    <3>4. fd_alloc(fd, rec) BY <3>1 DEF OpenFile
    <3> HIDE DEF rec
    <3>5. fd \in Nat /\ fd \in 0 .. MaxFd BY <1>1, <1>2, AnyIsFree, SetupFits
    <3>6. FdsOK' BY <1>1, <3>3, <3>4, <3>5, AllocIs
    <3> HIDE DEF fd
    <3> DEFINE c == Put(want.cont, name, IF name \in DOMAIN want.cont /\ ~("trunc" \in flags)
                                        THEN want.cont[name] ELSE <<>>)
    <3>7. want' = [cont |-> c, open |-> NewOpen(fd, "file", name)] BY <3>1 DEF OpenFile
    <3>8. DOMAIN c \subseteq Names BY <1>1, <2>4 DEF Put, WantOK
    <3>9. DOMAIN NewOpen(fd, "file", name) \subseteq 0 .. MaxFd
      <4>1. DOMAIN NewOpen(fd, "file", name) = DOMAIN want.open \cup {fd} BY NewOpenIs
      <4> QED BY <1>1, <3>5, <4>1 DEF WantOK
    <3> HIDE DEF c
    <3>10. WantOK' BY <3>7, <3>8, <3>9 DEF WantOK
    <3>11. files' = r.fs /\ UNCHANGED <<clock, phase, call, crash>> BY <3>1 DEF OpenFile, Returns
    <3> QED BY <1>1, <2>7, <3>6, <3>10, <3>11, KeepCall DEF TypeInv
  <2> QED BY <2>8, <2>9
<1> QED BY <1>4, <1>5, <1>6

\* The calls that change no table but keep the types of what they touch.
LEMMA CloseType == ASSUME TypeInv, NEW fd \in GuestFds, FdClose(fd) PROVE TypeInv'
<1>1. FdsOK /\ WantOK /\ CallOK BY DEF TypeInv
<1>2. CASE fd_get(fd)
  <2>1. fds' = [fds EXCEPT ![fd] = Zero] /\ next_fd' = next_fd BY <1>2 DEF FdClose, Closed
  <2>2. Cap \in Nat /\ fds \in [0 .. Cap - 1 -> FdRec] BY <1>1 DEF FdsOK
  <2>3. fds' \in [0 .. Cap - 1 -> FdRec] BY <2>1, <2>2, ZeroIs
  <2>4. Cap' = Cap BY <2>2, <2>3, CapIs
  <2>5. \A i \in 0 .. Cap - 1 : fds'[i].used => fds[i].used BY <2>1, <2>2, ZeroIs
  <2>6. FdsOK' BY <1>1, <2>1, <2>3, <2>4, <2>5 DEF FdsOK
  <2> DEFINE o == [d \in DOMAIN want.open \ {fd} |-> want.open[d]]
  <2>7. want' = [want EXCEPT !.open = o] BY <1>1, <1>2 DEF FdClose, WantOK
  <2>8. DOMAIN o \subseteq 0 .. MaxFd BY <1>1 DEF WantOK
  <2> HIDE DEF o
  <2>9. WantOK' BY <1>1, <2>7, <2>8, WantOpen_
  <2> QED BY <1>1, <1>2, <2>6, <2>9, KeepCall DEF FdClose, Returns, TypeInv
<1>3. CASE ~fd_get(fd)
  BY <1>1, <1>3, KeepFds, KeepCall, KeepWant DEF FdClose, Returns, TypeInv
<1> QED BY <1>2, <1>3

\* fd_seek.
LEMMA SeekType ==
  ASSUME TypeInv, NEW fd \in GuestFds, NEW off \in Int, NEW whence \in {"set", "cur", "end"},
         FdSeek(fd, off, whence)
  PROVE  TypeInv'
<1> DEFINE r == ew_seek(files, fds[fd].pf, off, whence)
<1>1. FdsOK /\ WantOK /\ CallOK /\ RamOK(files) BY DEF TypeInv
<1>2. RamOK(r.fs) BY <1>1, RamSeekIs
<1>3. files' \in {r.fs, files} BY DEF FdSeek
<1>4. RamOK(files') BY <1>1, <1>2, <1>3
<1>5. want' = want \/ \E n : want' = [want EXCEPT !.open = [want.open EXCEPT ![fd].ofs = n]]
  BY <1>1 DEF FdSeek, WantOK
<1>6. ASSUME NEW n PROVE DOMAIN [want.open EXCEPT ![fd].ofs = n] \subseteq 0 .. MaxFd
  BY <1>1 DEF WantOK
<1>7. WantOK' BY <1>1, <1>5, <1>6, KeepWant, WantOpen_
<1>8. UNCHANGED <<fds, next_fd, clock, phase, call, crash>> BY DEF FdSeek, Returns
<1> QED BY <1>1, <1>4, <1>7, <1>8, KeepFds, KeepCall DEF TypeInv

\* The calls that only ask.
LEMMA QueryType ==
  ASSUME TypeInv,
         NEW fd, FdFilestat(fd) \/ FdPrestatGet(fd) \/ FdPrestatDirName(fd) \/ FdSync(fd)
  PROVE  TypeInv'
<1>1. UNCHANGED <<fds, next_fd, files, clock, phase, call, want, crash>>
  BY DEF FdFilestat, FdPrestatGet, FdPrestatDirName, Prestat, FdSync, Returns
<1> QED BY <1>1, KeepFds, KeepCall, KeepWant DEF TypeInv

\* args_get.
LEMMA ArgsType == ASSUME TypeInv, NEW ptr, NEW buf, ArgsGet(ptr, buf) PROVE TypeInv'
<1>1. UNCHANGED <<fds, next_fd, files, clock, phase, call, want, crash>> BY DEF ArgsGet, Returns
<1> QED BY <1>1, KeepFds, KeepCall, KeepWant DEF TypeInv

\* A call with a loop begins at the first element.
LEMMA BeginType ==
  ASSUME TypeInv, (\E op \in {"read", "write"}, fd \in GuestFds, v \in Bufs : BeginIov(op, fd, v))
                  \/ ClockTimeGet \/ (\E v \in Subs : BeginPoll(v))
  PROVE  TypeInv'
<1>1. FdsOK /\ WantOK /\ CallOK BY DEF TypeInv
<1>2. ASSUME NEW op \in {"read", "write"}, NEW fd \in GuestFds, NEW v \in Bufs, BeginIov(op, fd, v)
      PROVE  TypeInv'
  <2>1. UNCHANGED <<fds, next_fd, files, clock, phase, want, crash>> BY <1>2 DEF BeginIov
  <2>2. \/ UNCHANGED call
        \/ call' = [op |-> op, fd |-> fd, v |-> v, k |-> 1, rc |-> "ok", total |-> 0, got |-> <<>>,
                    short |-> FALSE]
    BY <1>2 DEF BeginIov
  <2>3. CallOK' BY <1>1, <2>2, KeepCall DEF CallOK, IoCall
  <2> QED BY <1>1, <2>1, <2>3, KeepFds, KeepWant DEF TypeInv
<1>3. CASE ClockTimeGet
  BY <1>1, <1>3, KeepFds, KeepCall, KeepWant DEF ClockTimeGet, Ticked, TypeInv
<1>4. ASSUME NEW v \in Subs, BeginPoll(v) PROVE TypeInv'
  <2>1. UNCHANGED <<fds, next_fd, files, clock, phase, want, crash>> BY <1>4 DEF BeginPoll
  <2>2. \/ UNCHANGED call
        \/ call' = [op |-> "poll", v |-> v, k |-> 1, events |-> <<>>, target |-> None, rc |-> "ok",
                    slept |-> 0, asked |-> 0, short |-> FALSE]
    BY <1>4 DEF BeginPoll
  <2>3. CallOK' BY <1>1, <2>2, KeepCall DEF CallOK, PollCall
  <2> QED BY <1>1, <2>1, <2>3, KeepFds, KeepWant DEF TypeInv
<1> QED BY <1>2, <1>3, <1>4

\* A call under way is what its operation says.
LEMMA CallIs ==
  ASSUME CallOK
  PROVE  /\ call.op \in {"read", "write"} => IoCall(call)
         /\ call.op = "poll" => PollCall(call)
  BY DEF CallOK, IoCall, PollCall, Idle

\* The steps of the loops keep the operands of a call.
SameCall == call'.op = call.op /\ call'.fd = call.fd /\ call'.v = call.v

\* The loop over iovecs goes on with the same call.
LEMMA SameIo ==
  ASSUME IoCall(call), SameCall, DOMAIN call' = DOMAIN call, call'.k \in {call.k, call.k + 1}
  PROVE  IoCall(call')
  BY DEF IoCall, SameCall

\* An iovec was transferred.
LEMMA AdvanceIs ==
  ASSUME IoCall(call), NEW n, Advance(n)
  PROVE  /\ IoCall(call') /\ SameCall
         /\ call'.k = call.k + 1 /\ call'.total = call.total + n
         /\ call'.rc = call.rc /\ call'.short = call.short
<1>1. DOMAIN call' = DOMAIN call /\ SameCall BY DEF IoCall, Advance, SameCall
<1>2. call'.k = call.k + 1 /\ call'.total = call.total + n BY DEF IoCall, Advance
<1>3. call'.rc = call.rc /\ call'.short = call.short BY DEF IoCall, Advance
<1> QED BY <1>1, <1>2, <1>3, SameIo

\* The loop is left early.
LEMMA BreakIs ==
  ASSUME IoCall(call), NEW rc, Break(rc)
  PROVE  /\ IoCall(call') /\ SameCall
         /\ call'.k = call.k /\ call'.total = call.total
         /\ call'.rc = rc /\ call'.short = call.short
<1>1. DOMAIN call' = DOMAIN call /\ SameCall BY DEF IoCall, Break, SameCall
<1>2. call'.k = call.k /\ call'.total = call.total BY DEF IoCall, Break
<1>3. call'.rc = rc /\ call'.short = call.short BY DEF IoCall, Break
<1> QED BY <1>1, <1>2, <1>3, SameIo

\* An iovec was read.
LEMMA ReadStepIs ==
  ASSUME IoCall(call), NEW out, NEW short,
         call' = [call EXCEPT !.k = @ + 1, !.total = @ + Len(out), !.got = @ \o out, !.short = short]
  PROVE  /\ IoCall(call') /\ SameCall
         /\ call'.k = call.k + 1 /\ call'.total = call.total + Len(out) /\ call'.rc = call.rc
         /\ call'.short = short /\ call'.got = call.got \o out
<1>1. DOMAIN call' = DOMAIN call /\ SameCall BY DEF IoCall, SameCall
<1>2. call'.k = call.k + 1 /\ call'.total = call.total + Len(out) BY DEF IoCall
<1>3. call'.rc = call.rc /\ call'.short = short /\ call'.got = call.got \o out BY DEF IoCall
<1> QED BY <1>1, <1>2, <1>3, SameIo

\* One iovec of fd_write.
LEMMA WriteType == ASSUME TypeInv, WriteIov PROVE TypeInv'
<1> DEFINE b == call.v[call.k]
           f == fds[call.fd]
           r == ew_write(files, f.pf, b)
<1>1. FdsOK /\ WantOK /\ CallOK /\ RamOK(files) BY DEF TypeInv
<1>2. IoCall(call) BY <1>1, CallIs DEF WriteIov
<1>3. UNCHANGED <<next_fd, clock, phase, want, crash>> BY DEF WriteIov
<1>4. (\E n : Advance(n)) \/ (\E rc : Break(rc)) BY DEF WriteIov
<1>5. CallOK' BY <1>2, <1>4, AdvanceIs, BreakIs DEF CallOK
<1>6. WantOK' BY <1>1, <1>3, KeepWant
<1>7. b # Bad => b \in Seq(Bytes) /\ Len(b) \in Nat
  <2>1. call.v \in Bufs /\ call.k \in DOMAIN call.v
    <3>1. call.v \in Seq(Seq(Nat) \cup {Bad}) BY <1>2, WasiBounds DEF IoCall
    <3>2. Len(call.v) \in Nat /\ DOMAIN call.v = 1 .. Len(call.v) BY <3>1, LenProperties
    <3>3. call.k <= Len(call.v) BY DEF WriteIov, More
    <3> QED BY <1>2, <3>2, <3>3 DEF IoCall
  <2>2. b # Bad => b \in Seq(Bytes) BY <2>1, IovBytes
  <2> QED BY <2>2, LenProperties
<1>8. CASE UNCHANGED <<fds, files>>
  <2>1. FdsOK' BY <1>1, <1>3, <1>8, KeepFds
  <2> QED BY <1>1, <1>3, <1>5, <1>6, <1>8, <2>1 DEF TypeInv
<1>9. CASE b # Bad /\ fds' = [fds EXCEPT ![call.fd].fb_len = @ + Len(b)] /\ UNCHANGED files
           /\ ~(f.fb_len + Len(b) > FbCap)
  <2>1. Cap \in Nat /\ fds \in [0 .. Cap - 1 -> FdRec] BY <1>1 DEF FdsOK
  <2> HIDE DEF b
  <2>2. /\ fds' \in [0 .. Cap - 1 -> FdRec]
        /\ \A i \in 0 .. Cap - 1 : fds'[i].used = fds[i].used
    <3>1. CASE call.fd \in 0 .. Cap - 1
      <4> DEFINE g == [f EXCEPT !.fb_len = @ + Len(b)]
      <4>1. f \in FdRec BY <2>1, <3>1
      <4> HIDE DEF f
      <4>2. f.fb_len \in 0 .. FbCap BY <4>1 DEF FdRec
      <4>3. f.fb_len + Len(b) \in 0 .. FbCap
        <5>1. Len(b) \in Nat /\ ~(f.fb_len + Len(b) > FbCap) BY <1>7, <1>9 DEF f
        <5>2. FbCap \in Nat BY WasiBounds
        <5> QED BY <4>2, <5>1, <5>2
      <4>4. g \in FdRec /\ g.used = f.used BY <4>1, <4>3 DEF FdRec
      <4>5. fds' = [fds EXCEPT ![call.fd] = g] BY <1>9, <2>1, <3>1 DEF f
      <4> HIDE DEF g
      <4> QED BY <2>1, <3>1, <4>4, <4>5 DEF f
    <3>2. CASE call.fd \notin 0 .. Cap - 1
      <4>1. fds' = fds BY <1>9, <2>1, <3>2
      <4> QED BY <2>1, <4>1
    <3> QED BY <3>1, <3>2
  <2>3. Cap' = Cap BY <2>1, <2>2, CapIs
  <2>4. FdsOK' BY <1>1, <1>3, <2>2, <2>3 DEF FdsOK
  <2> QED BY <1>1, <1>3, <1>5, <1>6, <1>9, <2>4 DEF TypeInv
<1>10. CASE b # Bad /\ files' = r.fs /\ UNCHANGED fds
  <2>1. RamOK(files') BY <1>1, <1>7, <1>10, RamWriteIs
  <2>2. FdsOK' BY <1>1, <1>3, <1>10, KeepFds
  <2> QED BY <1>3, <1>5, <1>6, <2>1, <2>2 DEF TypeInv
<1> QED BY <1>8, <1>9, <1>10 DEF WriteIov

\* One iovec of fd_read.
LEMMA ReadType == ASSUME TypeInv, ReadIov PROVE TypeInv'
<1> DEFINE b == call.v[call.k]
           r == ew_read(files, fds[call.fd].pf, Len(b))
<1>1. FdsOK /\ WantOK /\ CallOK /\ RamOK(files) BY DEF TypeInv
<1>2. IoCall(call) BY <1>1, CallIs DEF ReadIov
<1>3. UNCHANGED <<fds, next_fd, clock, phase, want, crash>> BY DEF ReadIov
<1>4. FdsOK' /\ WantOK' BY <1>1, <1>3, KeepFds, KeepWant
<1>5. CallOK'
  <2>1. \/ \E rc : Break(rc)
        \/ call' = [call EXCEPT !.k = @ + 1, !.total = @ + Len(r.out), !.got = @ \o r.out,
                               !.short = Len(r.out) < Len(b)]
    BY DEF ReadIov
  <2> DEFINE short == Len(r.out) < Len(b)
             out == r.out
  <2> HIDE DEF short, out
  <2>2. IoCall(call') BY <1>2, <2>1, BreakIs, ReadStepIs DEF short, out
  <2> QED BY <2>2 DEF CallOK
<1>6. RamOK(files')
  <2>1. CASE b = Bad /\ UNCHANGED files BY <1>1, <2>1
  <2>2. CASE b # Bad /\ files' = r.fs
    <3>1. call.v \in Bufs /\ call.k \in DOMAIN call.v
      <4>1. call.v \in Seq(Seq(Nat) \cup {Bad}) BY <1>2, WasiBounds DEF IoCall
      <4>2. Len(call.v) \in Nat /\ DOMAIN call.v = 1 .. Len(call.v) BY <4>1, LenProperties
      <4>3. call.k <= Len(call.v) BY DEF ReadIov, More
      <4> QED BY <1>2, <4>2, <4>3 DEF IoCall
    <3>2. b \in Seq(Bytes) BY <2>2, <3>1, IovBytes
    <3>3. Len(b) \in Nat BY <3>2, LenProperties
    <3> QED BY <1>1, <2>2, <3>3, RamReadIs
  <2> QED BY <2>1, <2>2 DEF ReadIov
<1> QED BY <1>3, <1>4, <1>5, <1>6 DEF TypeInv

\* The end of a read or a write moves the offset the guest may expect.
LEMMA WantMoved ==
  ASSUME WantOK, NEW fd, NEW ofs, want' = [want EXCEPT !.open[fd].ofs = ofs]
  PROVE  /\ WantOK' /\ want'.cont = want.cont
         /\ want'.open = [want.open EXCEPT ![fd].ofs = ofs]
<1> DEFINE o == [want.open EXCEPT ![fd].ofs = ofs]
<1>1. DOMAIN o \subseteq 0 .. MaxFd BY DEF WantOK
<1>2. want' = [want EXCEPT !.open = o] BY DEF WantOK
<1> HIDE DEF o
<1>3. WantOK' /\ want'.cont = want.cont /\ want'.open = o BY <1>1, <1>2, WantOpen_
<1> QED BY <1>3 DEF o

\* The end of a write also changes the content the guest may expect.
LEMMA WantWritten ==
  ASSUME WantOK, NEW fd, NEW ofs, NEW name, NEW data,
         want' = [want EXCEPT !.open[fd].ofs = ofs, !.cont[name] = data]
  PROVE  /\ WantOK' /\ want'.cont = [want.cont EXCEPT ![name] = data]
         /\ want'.open = [want.open EXCEPT ![fd].ofs = ofs]
<1> DEFINE o == [want.open EXCEPT ![fd].ofs = ofs]
           c == [want.cont EXCEPT ![name] = data]
<1>1. DOMAIN o \subseteq 0 .. MaxFd /\ DOMAIN c \subseteq Names BY DEF WantOK
<1>2. DOMAIN want' = {"cont", "open"} BY DEF WantOK
<1>3. want'.cont = c BY DEF WantOK
<1>4. want'.open = o BY DEF WantOK
<1>5. want' = [x \in DOMAIN want' |-> want'[x]] OBVIOUS
<1> HIDE DEF o, c
<1>6. want' = [cont |-> want'.cont, open |-> want'.open] BY <1>2, <1>5
<1>7. WantOK' BY <1>1, <1>3, <1>4, <1>6 DEF WantOK
<1> QED BY <1>3, <1>4, <1>7 DEF o, c

\* The answer of a call with a loop.
LEMMA EndType == ASSUME TypeInv, EndWrite \/ EndRead \/ EndPoll PROVE TypeInv'
<1>1. FdsOK /\ WantOK /\ CallOK /\ RamOK(files) BY DEF TypeInv
<1>2. UNCHANGED <<fds, next_fd, files, clock, phase, crash>> /\ call' = Idle
  BY DEF EndWrite, EndRead, EndPoll
<1>3. WantOK'
  <2>1. CASE EndWrite
    <3>1. \/ UNCHANGED want
          \/ \E n : want' = [want EXCEPT !.open[call.fd].ofs = n]
          \/ \E n, m, d : want' = [want EXCEPT !.open[call.fd].ofs = n, !.cont[m] = d]
      BY <2>1 DEF EndWrite
    <3>2. CASE UNCHANGED want BY <1>1, <3>2, KeepWant
    <3>3. ASSUME NEW n, want' = [want EXCEPT !.open[call.fd].ofs = n] PROVE WantOK'
      BY <1>1, <3>3, WantMoved
    <3>4. ASSUME NEW n, NEW m, NEW d, want' = [want EXCEPT !.open[call.fd].ofs = n, !.cont[m] = d]
          PROVE  WantOK'
      BY <1>1, <3>4, WantWritten
    <3> QED BY <3>1, <3>2, <3>3, <3>4
  <2>2. CASE EndRead
    <3>1. \E n : want' = [want EXCEPT !.open[call.fd].ofs = n] BY <2>2 DEF EndRead
    <3> QED BY <1>1, <3>1, WantMoved
  <2>3. CASE EndPoll BY <1>1, <2>3, KeepWant DEF EndPoll
  <2> QED BY <2>1, <2>2, <2>3
<1>4. CallOK' BY <1>2 DEF CallOK
<1> QED BY <1>1, <1>2, <1>3, <1>4, KeepFds DEF TypeInv

----------------------------------------------------------------------------
(* Sleeping.                                                               *)

\* A poll has slept what was asked of it so far, or will have once its target
\* has come; the bound on the clock leaves room for the rest of it.
SleepInv ==
  call.op = "poll" =>
    /\ call.slept \in Int /\ call.asked \in Int /\ call.k \in 1 .. Len(call.v) + 1
    /\ call.target = None => /\ call.slept >= call.asked
                             /\ clock + Ticks(Len(call.v) + 1 - call.k) < MaxClock
    /\ call.target # None => /\ call.target \in Nat /\ clock <= call.target /\ More
                             /\ call.slept + call.target >= call.asked
                             /\ call.target + Ticks(Len(call.v) - call.k) < MaxClock
                             /\ clock + 1 + Ticks(Len(call.v) - call.k) < MaxClock

\* The clock's readings are numbers that grow.
LEMMA TicksIs == ASSUME NEW n \in Nat PROVE Ticks(n) \in Nat /\ Ticks(n + 1) = Ticks(n) + 1 + MaxNs
  BY WasiBounds DEF Ticks

\* The fields of a poll after a step of its loop.
LEMMA PollStepIs ==
  ASSUME PollCall(call), NEW e, NEW n
  PROVE  /\ call' = Event(e) =>
              /\ PollCall(call') /\ call'.v = call.v /\ call'.k = call.k + 1 /\ call'.target = None
              /\ call'.slept = call.slept /\ call'.asked = call.asked
         /\ Break(e) =>
              /\ PollCall(call') /\ call'.v = call.v /\ call'.k = call.k /\ call'.target = call.target
              /\ call'.slept = call.slept /\ call'.asked = call.asked
         /\ call' = [Event(e) EXCEPT !.slept = @ + n] =>
              /\ PollCall(call') /\ call'.v = call.v /\ call'.k = call.k + 1 /\ call'.target = None
              /\ call'.slept = call.slept + n /\ call'.asked = call.asked
<1>1. ASSUME call' = Event(e)
      PROVE  /\ PollCall(call') /\ call'.v = call.v /\ call'.k = call.k + 1 /\ call'.target = None
             /\ call'.slept = call.slept /\ call'.asked = call.asked
  <2>1. DOMAIN call' = DOMAIN call /\ call'.op = call.op /\ call'.v = call.v BY <1>1 DEF PollCall, Event
  <2>2. call'.k = call.k + 1 /\ call'.target = None BY <1>1 DEF PollCall, Event
  <2>3. call'.slept = call.slept /\ call'.asked = call.asked BY <1>1 DEF PollCall, Event
  <2> QED BY <2>1, <2>2, <2>3 DEF PollCall
<1>2. ASSUME Break(e)
      PROVE  /\ PollCall(call') /\ call'.v = call.v /\ call'.k = call.k /\ call'.target = call.target
             /\ call'.slept = call.slept /\ call'.asked = call.asked
  <2>1. DOMAIN call' = DOMAIN call /\ call'.op = call.op /\ call'.v = call.v BY <1>2 DEF PollCall, Break
  <2>2. call'.k = call.k /\ call'.target = call.target BY <1>2 DEF PollCall, Break
  <2>3. call'.slept = call.slept /\ call'.asked = call.asked BY <1>2 DEF PollCall, Break
  <2> QED BY <2>1, <2>2, <2>3 DEF PollCall
<1>3. ASSUME call' = [Event(e) EXCEPT !.slept = @ + n]
      PROVE  /\ PollCall(call') /\ call'.v = call.v /\ call'.k = call.k + 1 /\ call'.target = None
             /\ call'.slept = call.slept + n /\ call'.asked = call.asked
  <2> DEFINE c == Event(e)
  <2>1. DOMAIN c = DOMAIN call /\ c.op = call.op /\ c.v = call.v BY DEF PollCall, Event
  <2>2. c.k = call.k + 1 /\ c.target = None BY DEF PollCall, Event
  <2>3. c.slept = call.slept /\ c.asked = call.asked BY DEF PollCall, Event
  <2>4. call' = [c EXCEPT !.slept = c.slept + n] BY <1>3
  <2> HIDE DEF c
  <2>5. DOMAIN call' = DOMAIN call /\ call'.op = call.op /\ call'.v = call.v
    BY <2>1, <2>4 DEF PollCall
  <2>6. call'.k = call.k + 1 /\ call'.target = None BY <2>1, <2>2, <2>4 DEF PollCall
  <2>7. call'.slept = call.slept + n /\ call'.asked = call.asked BY <2>1, <2>3, <2>4 DEF PollCall
  <2> QED BY <2>5, <2>6, <2>7 DEF PollCall
<1> QED BY <1>1, <1>2, <1>3

\* The fields of a poll when a sleep starts.
LEMMA SleepStartIs ==
  ASSUME PollCall(call), NEW t, NEW a, NEW z,
         call' = [call EXCEPT !.target = t, !.asked = a, !.slept = z]
  PROVE  /\ PollCall(call') /\ call'.v = call.v /\ call'.k = call.k /\ call'.target = t
         /\ call'.slept = z /\ call'.asked = a /\ call'.rc = call.rc /\ call'.short = call.short
<1>1. DOMAIN call' = DOMAIN call /\ call'.op = call.op /\ call'.v = call.v BY DEF PollCall
<1>2. call'.k = call.k /\ call'.target = t BY DEF PollCall
<1>3. call'.slept = z /\ call'.asked = a BY DEF PollCall
<1>4. call'.rc = call.rc /\ call'.short = call.short BY DEF PollCall
<1> QED BY <1>1, <1>2, <1>3, <1>4 DEF PollCall

\* The cases of a step of poll_oneoff's loop.
LEMMA PollCases ==
  ASSUME PollSub
  PROVE  LET s == call.v[call.k] IN
         \/ \E e : Break(e) /\ UNCHANGED clock
         \/ \E e : call' = Event(e) /\ UNCHANGED clock
         \/ /\ s # Bad /\ clock' = clock + 1
            /\ call' = [call EXCEPT !.target = (clock' + s.ns) % Range64,
                                    !.asked = call.asked + s.ns, !.slept = call.slept - clock']
  BY DEF PollSub, Ticked

\* One subscription, or one round of a sleep.
LEMMA PollType == ASSUME TypeInv, PollSub \/ SleepTick PROVE TypeInv'
<1>1. FdsOK /\ WantOK /\ CallOK /\ RamOK(files) /\ clock \in Nat BY DEF TypeInv
<1>2. PollCall(call) BY <1>1, CallIs DEF PollSub, SleepTick
<1>3. UNCHANGED <<fds, next_fd, files, phase, want, crash>> BY DEF PollSub, SleepTick
<1>4. PollCall(call') /\ clock' \in Nat
  <2>1. CASE PollSub
    <3> DEFINE s == call.v[call.k]
    <3>1. ASSUME NEW e, Break(e) /\ UNCHANGED clock PROVE PollCall(call') /\ clock' \in Nat
      BY <1>1, <1>2, <3>1, PollStepIs
    <3>2. ASSUME NEW e, call' = Event(e) /\ UNCHANGED clock PROVE PollCall(call') /\ clock' \in Nat
      BY <1>1, <1>2, <3>2, PollStepIs
    <3>3. ASSUME NEW t, NEW a, NEW z, clock' = clock + 1,
                 call' = [call EXCEPT !.target = t, !.asked = a, !.slept = z]
          PROVE  PollCall(call') /\ clock' \in Nat
      <4>1. PollCall(call') BY <1>2, <3>3, SleepStartIs
      <4> QED BY <1>1, <3>3, <4>1
    <3> DEFINE t == (clock' + s.ns) % Range64
               a == call.asked + s.ns
               z == call.slept - clock'
    <3>4. \/ \E e : Break(e) /\ UNCHANGED clock
          \/ \E e : call' = Event(e) /\ UNCHANGED clock
          \/ clock' = clock + 1 /\ call' = [call EXCEPT !.target = t, !.asked = a, !.slept = z]
      BY <2>1, PollCases
    <3> HIDE DEF t, a, z
    <3> QED BY <3>1, <3>2, <3>3, <3>4
  <2>2. CASE SleepTick
    <3>1. clock' = clock + 1 BY <2>2 DEF SleepTick, Ticked
    <3>2. UNCHANGED call \/ call' = [Event("ok") EXCEPT !.slept = @ + clock'] BY <2>2 DEF SleepTick
    <3> QED BY <1>1, <1>2, <3>1, <3>2, PollStepIs
  <2> QED BY <2>1, <2>2
<1>5. CallOK' BY <1>4 DEF CallOK
<1> QED BY <1>1, <1>3, <1>4, <1>5, KeepFds, KeepWant DEF TypeInv

\* The initial state.
LEMMA InitType == Init => TypeInv
<1> SUFFICES ASSUME Init PROVE TypeInv OBVIOUS
<1>1. DOMAIN fds = 0 .. 0 - 1 BY DEF Init
<1>2. Cap = 0 BY <1>1, FS_EmptySet DEF Cap
<1>3. fds \in [0 .. 0 - 1 -> FdRec] BY DEF Init
<1>4. FdsOK BY <1>2, <1>3 DEF FdsOK, Init
<1>5. NoFile \in FileRec
  <2>1. <<>> \in [1 .. 0 -> Bytes] /\ 0 \in 0 .. MaxSize BY RamBounds
  <2>2. <<>> \in Contents BY <2>1 DEF Contents
  <2> QED BY <2>2 DEF NoFile, FileRec
<1>6. RamOK(files) BY <1>5 DEF RamOK, Init, NoFile
<1>7. WantOK BY DEF WantOK, Init
<1> QED BY <1>4, <1>6, <1>7 DEF TypeInv, Init, CallOK

\* A guest's seek goes by an integer, and telling the offset is a seek by zero.
LEMMA TellsAndSeeks ==
  ASSUME NEW fd, FdTell(fd) \/ \E off \in Offs, whence \in Whences : FdSeek(fd, off, whence)
  PROVE  \E off \in Int, whence \in {"set", "cur", "end"} : FdSeek(fd, off, whence)
<1>1. Offs \subseteq Int /\ Whences \subseteq {"set", "cur", "end"} BY WasiBounds
<1>2. CASE FdTell(fd)
  <2>1. FdSeek(fd, 0, "cur") BY <1>2 DEF FdTell
  <2>2. 0 \in Int /\ "cur" \in {"set", "cur", "end"} OBVIOUS
  <2> QED BY <2>1, <2>2
<1>3. CASE \E off \in Offs, whence \in Whences : FdSeek(fd, off, whence) BY <1>1, <1>3
<1> QED BY <1>2, <1>3

\* Every step keeps the types.
LEMMA NextType == TypeInv /\ [Next]_vars => TypeInv'
<1> SUFFICES ASSUME TypeInv, [Next]_vars PROVE TypeInv' OBVIOUS
<1>1. CASE (\E i \in 0 .. 2 : InitStd(i)) \/ HostAdds \/ Instantiate \/ ea_wasi_bind \/ Exit
  BY <1>1, HostType
<1>2. CASE \E fd \in GuestFds, p \in Paths, flags \in Flags : PathOpen(fd, p, flags)
  BY <1>2, OpenType
<1>3. CASE \E fd \in GuestFds : FdClose(fd) BY <1>3, CloseType
<1>4. CASE \E fd \in GuestFds : FdTell(fd) \/ \E off \in Offs, whence \in Whences : FdSeek(fd, off, whence)
  <2>1. \E fd \in GuestFds, off \in Int, whence \in {"set", "cur", "end"} : FdSeek(fd, off, whence)
    BY <1>4, TellsAndSeeks
  <2> QED BY <2>1, SeekType
<1>5. CASE \E fd \in GuestFds : FdFilestat(fd) \/ FdPrestatGet(fd) \/ FdPrestatDirName(fd) \/ FdSync(fd)
  BY <1>5, QueryType
<1>6. CASE \E fd \in GuestFds, op \in {"read", "write"}, v \in Bufs : BeginIov(op, fd, v)
  BY <1>6, BeginType
<1>7. CASE ClockTimeGet \/ \E v \in Subs : BeginPoll(v) BY <1>7, BeginType
<1>8. CASE \E ptr, buf \in Ptrs : ArgsGet(ptr, buf) BY <1>8, ArgsType
<1>9. CASE Loop BY <1>9, WriteType, ReadType, EndType, PollType DEF Loop
<1>10. CASE UNCHANGED vars BY <1>10, KeepFds, KeepCall, KeepWant DEF vars, TypeInv
<1> QED BY <1>1, <1>2, <1>3, <1>4, <1>5, <1>6, <1>7, <1>8, <1>9, <1>10 DEF Next

\* Whatever the guest does, the descriptor table is a full array whose
\* entries in use lie below next_fd, every file holds at most MaxSize bytes
\* under a name below a preopen, and the framebuffer is never overrun
\* (fd_alloc, ew_write, sys_fd_write).
THEOREM WasiTypeOK == Spec => []TypeOK
<1>1. Spec => []TypeInv BY InitType, NextType, PTL DEF Spec
<1> QED BY <1>1, TypeInvOK, PTL

\* Whatever the guest does, no file outside the preopened directories is ever
\* created: resolve_path lets no other name through (wasi.c:335).
THEOREM NoEscape == Spec => []Sandbox
<1>1. Spec => []TypeInv BY InitType, NextType, PTL DEF Spec
<1> QED BY <1>1, TypeInvOK, PTL

\* An answer other than a poll's tells of no sleep.
LastInv == last.slept \in Int /\ last.asked \in Int /\ SleptEnough
Answers == UNCHANGED last \/ \E a, b, c, d : last' = Result(a, b, c, d)
NoPoll == UNCHANGED <<call, clock>> \/ call'.op # "poll"

\* An answer of a call other than poll_oneoff mentions no sleep.
LEMMA ResultIs ==
  ASSUME NEW a, NEW b, NEW c, NEW d
  PROVE  Result(a, b, c, d).slept = 0 /\ Result(a, b, c, d).asked = 0
  BY DEF Result, Right

\* So such an answer keeps what is said of sleeps.
LEMMA AnswersKeep == LastInv /\ Answers => LastInv'
  BY ResultIs DEF LastInv, Answers, SleptEnough

\* Steps outside of polls keep the sleep's invariant.
LEMMA NoPollKeeps == SleepInv /\ NoPoll => SleepInv'
  BY DEF SleepInv, NoPoll, More

\* Only polls sleep.
LEMMA OtherSteps ==
  ASSUME TypeInv, [Next]_vars,
         ~ (\E v \in Subs : BeginPoll(v)), ~PollSub, ~SleepTick, ~EndPoll
  PROVE  NoPoll /\ Answers
<1>1. ASSUME NEW i \in 0 .. 2, InitStd(i) PROVE NoPoll /\ Answers
  BY <1>1 DEF InitStd, NoPoll, Answers
<1>2. CASE HostAdds \/ Instantiate \/ ea_wasi_bind \/ Exit
  BY <1>2 DEF HostAdds, Instantiate, ea_wasi_bind, Exit, NoPoll, Answers
<1>3. ASSUME NEW fd, NEW p, NEW flags, PathOpen(fd, p, flags) PROVE NoPoll /\ Answers
  <2>1. ASSUME NEW a, NEW b, OpenFails(a, b) PROVE NoPoll /\ Answers
    BY <2>1 DEF OpenFails, Returns, NoPoll, Answers
  <2>2. ASSUME NEW a, NEW b, OpenFb(a, b, flags) PROVE NoPoll /\ Answers
    BY <2>2 DEF OpenFb, Returns, NoPoll, Answers
  <2>3. ASSUME NEW a, NEW b, NEW c, NEW d, NEW e, OpenFile(a, b, c, d, e) PROVE NoPoll /\ Answers
    BY <2>3 DEF OpenFile, Returns, NoPoll, Answers
  <2>4. \/ \E a, b : OpenFails(a, b) \/ OpenFb(a, b, flags)
        \/ \E a, b, c, d, e : OpenFile(a, b, c, d, e)
    BY <1>3 DEF PathOpen
  <2> QED BY <2>1, <2>2, <2>3, <2>4
<1>4. ASSUME NEW fd, FdClose(fd) PROVE NoPoll /\ Answers
  BY <1>4 DEF FdClose, Returns, NoPoll, Answers
<1>5. ASSUME NEW fd, NEW off, NEW whence, FdSeek(fd, off, whence) PROVE NoPoll /\ Answers
  <2>1. \E r : Returns(r) BY <1>5 DEF FdSeek
  <2>2. \E a, b, c, d : last' = Result(a, b, c, d) BY <1>5 DEF FdSeek, Returns
  <2> QED BY <2>1, <2>2 DEF Returns, NoPoll, Answers
<1>6. ASSUME NEW fd, FdFilestat(fd) PROVE NoPoll /\ Answers
  <2>1. \E r : Returns(r) BY <1>6 DEF FdFilestat
  <2>2. \E a, b, c, d : last' = Result(a, b, c, d) BY <1>6 DEF FdFilestat, Returns
  <2> QED BY <2>1, <2>2 DEF Returns, NoPoll, Answers
<1>7. ASSUME NEW fd, NEW ok, NEW wok, Prestat(fd, ok, wok) PROVE NoPoll /\ Answers
  BY <1>7 DEF Prestat, Returns, NoPoll, Answers
<1>8. ASSUME NEW fd, FdSync(fd) PROVE NoPoll /\ Answers
  BY <1>8 DEF FdSync, Returns, NoPoll, Answers
<1>9. ASSUME NEW op \in {"read", "write"}, NEW fd, NEW v, BeginIov(op, fd, v) PROVE NoPoll /\ Answers
  BY <1>9 DEF BeginIov, NoPoll, Answers
<1>10. ASSUME NEW ptr, NEW buf, ArgsGet(ptr, buf) PROVE NoPoll /\ Answers
  <2>1. \E r : Returns(r) BY <1>10 DEF ArgsGet
  <2>2. \E a, b, c, d : last' = Result(a, b, c, d) BY <1>10 DEF ArgsGet, Returns
  <2> QED BY <2>1, <2>2 DEF Returns, NoPoll, Answers
<1>11. CASE ClockTimeGet BY <1>11 DEF ClockTimeGet, Runs, Idle, NoPoll, Answers
<1>12. CASE WriteIov
  <2>1. UNCHANGED last BY <1>12 DEF WriteIov
  <2>2. IoCall(call) BY <1>12, CallIs DEF WriteIov, TypeInv
  <2>3. (\E n : Advance(n)) \/ (\E rc : Break(rc)) BY <1>12 DEF WriteIov
  <2>4. IoCall(call') BY <2>2, <2>3, AdvanceIs, BreakIs
  <2> QED BY <2>1, <2>4 DEF IoCall, NoPoll, Answers
<1>13. CASE ReadIov
  <2>1. UNCHANGED last BY <1>13 DEF ReadIov
  <2>2. IoCall(call) BY <1>13, CallIs DEF ReadIov, TypeInv
  <2>3. \/ \E rc : Break(rc)
        \/ \E out, short : call' = [call EXCEPT !.k = @ + 1, !.total = @ + Len(out), !.got = @ \o out,
                                                !.short = short]
    BY <1>13 DEF ReadIov
  <2>4. IoCall(call') BY <2>2, <2>3, BreakIs, ReadStepIs
  <2> QED BY <2>1, <2>4 DEF IoCall, NoPoll, Answers
<1>14. CASE EndWrite
  <2>1. call' = Idle /\ \E a, b, c, d : last' = Result(a, b, c, d) BY <1>14 DEF EndWrite
  <2> QED BY <2>1 DEF Idle, NoPoll, Answers
<1>15. CASE EndRead
  <2>1. call' = Idle /\ \E a, b, c, d : last' = Result(a, b, c, d) BY <1>15 DEF EndRead
  <2> QED BY <2>1 DEF Idle, NoPoll, Answers
<1>16. CASE UNCHANGED vars BY <1>16 DEF vars, NoPoll, Answers
<1> QED BY <1>1, <1>2, <1>3, <1>4, <1>5, <1>6, <1>7, <1>8, <1>9, <1>10, <1>11, <1>12, <1>13, <1>14,
           <1>15, <1>16 DEF Next, Loop, FdTell, FdPrestatGet, FdPrestatDirName

\* The steps of a poll.
LEMMA SleepStep ==
  ASSUME MaxClock <= Range64, TypeInv, [Next]_vars, SleepInv, LastInv
  PROVE  SleepInv' /\ LastInv'
<1>0. clock \in Nat /\ CallOK BY DEF TypeInv
<1>1. ASSUME NEW v \in Subs, BeginPoll(v) PROVE SleepInv' /\ LastInv'
  <2>1. Len(v) \in Nat
    <3>1. v \in Seq([tag : STRING, rel : BOOLEAN, ns : 0 .. MaxNs] \cup {Bad}) BY WasiBounds
    <3> QED BY <3>1, LenProperties
  <2>2. CASE UNCHANGED call /\ last' = Result("inval", "inval", None, None)
    <3>1. UNCHANGED clock BY <1>1 DEF BeginPoll
    <3> QED BY <2>2, <3>1, AnswersKeep, NoPollKeeps DEF Answers, NoPoll
  <2>3. CASE UNCHANGED last /\ call' = [op |-> "poll", v |-> v, k |-> 1, events |-> <<>>, target |-> None,
                      rc |-> "ok", slept |-> 0, asked |-> 0, short |-> FALSE]
    <3>1. clock' = clock /\ clock + Ticks(Len(v)) < MaxClock BY <1>1 DEF BeginPoll
    <3>2. call'.slept = 0 /\ call'.asked = 0 /\ call'.k = 1 /\ call'.v = v /\ call'.target = None BY <2>3
    <3>3. Len(v) + 1 - 1 = Len(v) /\ 1 \in 1 .. Len(v) + 1 BY <2>1
    <3>4. SleepInv' BY <3>1, <3>2, <3>3 DEF SleepInv
    <3>5. LastInv' BY <2>3, AnswersKeep DEF Answers
    <3> QED BY <3>4, <3>5
  <2> QED BY <1>1, <2>2, <2>3 DEF BeginPoll
<1>2. CASE PollSub \/ SleepTick
  <2>1. LastInv' BY <1>2, AnswersKeep DEF PollSub, SleepTick, Answers
  <2>2. PollCall(call) BY <1>0, <1>2, CallIs DEF PollSub, SleepTick
  <2>3. call.v \in Seq([tag : STRING, rel : BOOLEAN, ns : 0 .. MaxNs] \cup {Bad})
    BY <2>2, WasiBounds DEF PollCall
  <2>4. Len(call.v) \in Nat /\ call.k \in 1 .. Len(call.v)
    <3>1. Len(call.v) \in Nat BY <2>3, LenProperties
    <3>2. call.k <= Len(call.v) BY <1>2 DEF PollSub, SleepTick, More
    <3> QED BY <2>2, <3>1, <3>2 DEF PollCall
  <2> DEFINE n == Len(call.v) - call.k
  <2>5. n \in Nat /\ n + 1 = Len(call.v) + 1 - call.k /\ n = Len(call.v) + 1 - (call.k + 1) BY <2>4
  <2>6. Ticks(n) \in Nat /\ Ticks(n + 1) = Ticks(n) + 1 + MaxNs BY <2>5, TicksIs
  <2>7. /\ call.slept \in Int /\ call.asked \in Int
        /\ call.target = None => /\ call.slept >= call.asked /\ clock + Ticks(n + 1) < MaxClock
        /\ call.target # None => /\ call.target \in Nat /\ clock <= call.target
                                 /\ call.slept + call.target >= call.asked
                                 /\ call.target + Ticks(n) < MaxClock
                                 /\ clock + 1 + Ticks(n) < MaxClock
    BY <2>2, <2>5 DEF SleepInv, PollCall
  <2>8. MaxClock \in Nat /\ Range64 \in Nat \ {0} /\ MaxNs \in Nat \ {0} BY WasiBounds
  <2>9. ASSUME PollCall(call'), call'.v = call.v, call'.k = call.k + 1, call'.target = None,
               call'.slept \in Int, call'.asked \in Int, call'.slept >= call'.asked,
               clock' + Ticks(n) < MaxClock
        PROVE  SleepInv'
    <3>1. call'.k \in 1 .. Len(call'.v) + 1 BY <2>4, <2>9
    <3>2. Len(call'.v) + 1 - call'.k = n BY <2>5, <2>9
    <3> HIDE DEF n
    <3> QED BY <2>9, <3>1, <3>2 DEF SleepInv
  <2>10. CASE PollSub
    <3>1. call.target = None BY <2>10 DEF PollSub
    <3>2. ASSUME NEW e, Break(e) /\ UNCHANGED clock PROVE SleepInv'
      <4>1. /\ call'.v = call.v /\ call'.k = call.k /\ call'.target = call.target
            /\ call'.slept = call.slept /\ call'.asked = call.asked /\ call'.op = call.op
        BY <2>2, <3>2, PollStepIs DEF PollCall
      <4> QED BY <3>1, <3>2, <4>1 DEF SleepInv
    <3>3. ASSUME NEW e, call' = Event(e) /\ UNCHANGED clock PROVE SleepInv'
      <4>1. /\ PollCall(call') /\ call'.v = call.v /\ call'.k = call.k + 1 /\ call'.target = None
            /\ call'.slept = call.slept /\ call'.asked = call.asked
        BY <2>2, <3>3, PollStepIs
      <4>2. clock' + Ticks(n) < MaxClock BY <1>0, <2>6, <2>7, <2>8, <3>1, <3>3
      <4> HIDE DEF n
      <4> QED BY <2>7, <2>9, <3>1, <4>1, <4>2
    <3> DEFINE s == call.v[call.k]
               t == (clock' + s.ns) % Range64
               a == call.asked + s.ns
               z == call.slept - clock'
    <3>4. CASE s # Bad /\ clock' = clock + 1
               /\ call' = [call EXCEPT !.target = t, !.asked = a, !.slept = z]
      <4>1. s.ns \in 0 .. MaxNs BY <2>3, <2>4, <3>4, ElementOfSeq
      <4>2. s.ns \in Nat /\ clock' \in Nat BY <1>0, <2>8, <3>4, <4>1
      <4> HIDE DEF s, n
      <4>3. clock' + s.ns + Ticks(n) < MaxClock BY <1>0, <2>6, <2>7, <2>8, <3>1, <3>4, <4>1, <4>2
      <4>4. clock' + s.ns \in Nat /\ clock' + s.ns < Range64 BY <2>6, <2>8, <4>2, <4>3
      <4>5. t = clock' + s.ns BY <2>8, <4>4
      <4> HIDE DEF t, a, z
      <4>6. /\ PollCall(call') /\ call'.v = call.v /\ call'.k = call.k /\ call'.target = t
            /\ call'.slept = z /\ call'.asked = a /\ call'.rc = call.rc /\ call'.short = call.short
        BY <2>2, <3>4, SleepStartIs
      <4>7. t # None /\ t \in Nat BY <4>4, <4>5, WasiBounds
      <4>8. z \in Int /\ a \in Int /\ z + t >= a BY <2>7, <3>1, <4>2, <4>5 DEF a, z
      <4>9. clock' <= t BY <4>2, <4>5
      <4>10. t + Ticks(n) < MaxClock BY <4>3, <4>5
      <4>11. clock' + 1 + Ticks(n) < MaxClock BY <1>0, <2>6, <2>7, <2>8, <3>1, <3>4
      <4>12. call'.k \in 1 .. Len(call'.v) + 1 /\ Len(call'.v) - call'.k = n
        BY <2>4, <4>6 DEF n
      <4>13. More' BY <2>10, <4>6 DEF PollSub, More
      <4> QED BY <2>1, <4>6, <4>7, <4>8, <4>9, <4>10, <4>11, <4>12, <4>13 DEF SleepInv
    <3>5. \/ \E e : Break(e) /\ UNCHANGED clock
          \/ \E e : call' = Event(e) /\ UNCHANGED clock
          \/ s # Bad /\ clock' = clock + 1 /\ call' = [call EXCEPT !.target = t, !.asked = a, !.slept = z]
      BY <2>10, PollCases
    <3> HIDE DEF t, a, z, s
    <3> QED BY <2>1, <3>2, <3>3, <3>4, <3>5
  <2>11. CASE SleepTick
    <3>1. call.target # None /\ clock' = clock + 1 BY <2>11 DEF SleepTick, Ticked
    <3>2. CASE Awake(clock')
      <4>1. call' = [Event("ok") EXCEPT !.slept = @ + clock'] BY <2>11, <3>2 DEF SleepTick
      <4>2. /\ PollCall(call') /\ call'.v = call.v /\ call'.k = call.k + 1 /\ call'.target = None
            /\ call'.slept = call.slept + clock' /\ call'.asked = call.asked
        BY <2>2, <4>1, PollStepIs
      <4>3. clock' >= call.target BY <3>2 DEF Awake
      <4> HIDE DEF n
      <4>4. clock' + Ticks(n) < MaxClock BY <1>0, <2>6, <2>7, <2>8, <3>1
      <4>5. call'.slept \in Int /\ call'.slept >= call'.asked BY <1>0, <2>7, <3>1, <4>2, <4>3
      <4> QED BY <2>1, <2>7, <2>9, <4>2, <4>4, <4>5
    <3>3. CASE ~Awake(clock')
      <4>1. call' = call BY <2>11, <3>3 DEF SleepTick
      <4>2. clock' < call.target BY <1>0, <2>7, <3>1, <3>3 DEF Awake
      <4> HIDE DEF n
      <4>3. clock' + 1 + Ticks(n) < MaxClock /\ clock' <= call.target
        BY <1>0, <2>6, <2>7, <2>8, <3>1, <4>2
      <4>4. More' BY <2>11, <4>1 DEF SleepTick, More
      <4> QED BY <2>1, <3>1, <4>1, <4>3, <4>4 DEF SleepInv, n
    <3> QED BY <2>1, <3>2, <3>3
  <2> QED BY <1>2, <2>10, <2>11
<1>3. CASE EndPoll
  <2>1. PollCall(call) BY <1>0, <1>3, CallIs DEF EndPoll
  <2>2. call.slept \in Int /\ call.asked \in Int BY <2>1 DEF SleepInv, PollCall
  <2>3. call' = Idle BY <1>3 DEF EndPoll
  <2>4. SleepInv' BY <2>3 DEF Idle, SleepInv
  <2>5. call.slept >= call.asked BY <1>3, <2>1, <2>2 DEF SleepInv, PollCall, EndPoll
  <2>6. \E a, b, c, d : last' = Result(a, b, c, d) BY <1>3, <2>5 DEF EndPoll
  <2> QED BY <2>4, <2>6, AnswersKeep DEF Answers
<1> QED BY <1>1, <1>2, <1>3, OtherSteps, AnswersKeep, NoPollKeeps

\* As long as the clock and the timeouts stay below 2^64, a relative
\* subscription has slept at least its timeout when poll_oneoff returns
\* (ep_sleep_ns, wasi.c).
THEOREM PollsSleepEnough == ASSUME MaxClock <= Range64 PROVE Spec => []SleptEnough
<1>1. Init => SleepInv /\ LastInv BY DEF Init, SleepInv, Idle, LastInv, SleptEnough, Right
<1>2. TypeInv /\ SleepInv /\ LastInv /\ [Next]_vars => SleepInv' /\ LastInv' BY SleepStep
<1>3. LastInv => SleptEnough BY DEF LastInv
<1> QED BY <1>1, <1>2, <1>3, InitType, NextType, PTL DEF Spec

----------------------------------------------------------------------------
(* What the descriptors and the files hold, for every guest that keeps to  *)
(* the uses the code answers as WASI asks (Uses).                          *)

\* No use after which descriptors or files are other than WASI has them, no path
\* that the buffer of resolve_path cuts, no pointer read where flags should be.
Proper ==
  /\ Uses \subseteq {"clock", "high", "size"}
  /\ \A p \in Paths : Cut[p] = p
  /\ \A flags \in Flags : "oddptr" \in flags => "trunc" \in flags

----------------------------------------------------------------------------
(* The pieces of a call laid end to end.                                   *)

\* f holds the concatenations of the first elements of v
Joins(v, n, f) == f = [i \in 1 .. n |-> IF i = 1 THEN v[i] ELSE f[i - 1] \o v[i]]

\* The concatenation of iovecs is determined.
LEMMA JoinsOnce ==
  ASSUME NEW v, NEW n \in Nat, NEW f, NEW g, Joins(v, n, f), Joins(v, n, g)
  PROVE  f = g
<1> DEFINE D == {i \in 1 .. n : f[i] # g[i]}
<1>1. ASSUME D # {} PROVE FALSE
  <2>1. D \subseteq Nat OBVIOUS
  <2> DEFINE m == First(D)
  <2>2. m \in D /\ \A y \in D : m <= y BY <1>1, <2>1, FirstIs
  <2> HIDE DEF m
  <2>3. m \in 1 .. n /\ f[m] # g[m] BY <2>2
  <2>4. f[m] = IF m = 1 THEN v[m] ELSE f[m - 1] \o v[m] BY <2>3 DEF Joins
  <2>5. g[m] = IF m = 1 THEN v[m] ELSE g[m - 1] \o v[m] BY <2>3 DEF Joins
  <2>6. m # 1 BY <2>3, <2>4, <2>5
  <2>7. m - 1 \in 1 .. n /\ ~ (m <= m - 1) BY <2>3, <2>6
  <2>8. f[m - 1] = g[m - 1] BY <2>2, <2>7
  <2> QED BY <2>3, <2>4, <2>5, <2>8
<1>2. \A i \in 1 .. n : f[i] = g[i] BY <1>1
<1> QED BY <1>2 DEF Joins

\* There always is one.
LEMMA JoinsExist == ASSUME NEW v, NEW n \in Nat PROVE \E f : Joins(v, n, f)
<1> DEFINE D == {m \in Nat : ~ \E f : Joins(v, m, f)}
<1>1. ASSUME D # {} PROVE FALSE
  <2> DEFINE m == First(D)
  <2>1. m \in D /\ \A y \in D : m <= y BY <1>1, FirstIs
  <2> HIDE DEF m
  <2>2. m \in Nat /\ ~ \E f : Joins(v, m, f) BY <2>1
  <2>3. Joins(v, 0, <<>>) BY DEF Joins
  <2>4. m # 0 BY <2>2, <2>3
  <2>5. m - 1 \in Nat /\ ~ (m <= m - 1) BY <2>2, <2>4
  <2>6. PICK f : Joins(v, m - 1, f) BY <2>1, <2>5
  <2> DEFINE g == [i \in 1 .. m |-> IF i < m THEN f[i] ELSE IF i = 1 THEN v[i] ELSE f[i - 1] \o v[i]]
  <2>7. \A i \in 1 .. m : g[i] = IF i = 1 THEN v[i] ELSE g[i - 1] \o v[i]
    <3> TAKE i \in 1 .. m
    <3>1. CASE i < m
      <4>1. i \in 1 .. m - 1 BY <2>2, <2>5, <3>1
      <4>2. f[i] = IF i = 1 THEN v[i] ELSE f[i - 1] \o v[i] BY <2>6, <4>1 DEF Joins
      <4>3. g[i] = f[i] BY <3>1
      <4>4. i # 1 => g[i - 1] = f[i - 1] BY <2>2, <3>1
      <4> QED BY <4>2, <4>3, <4>4
    <3>2. CASE ~ (i < m)
      <4>1. i # 1 => i - 1 \in 1 .. m /\ i - 1 < m BY <2>2
      <4>2. i # 1 => g[i - 1] = f[i - 1] BY <4>1
      <4> QED BY <3>2, <4>2
    <3> QED BY <3>1, <3>2
  <2>8. Joins(v, m, g)
    <3>1. g = [i \in 1 .. m |-> g[i]] OBVIOUS
    <3> HIDE DEF g
    <3> QED BY <2>7, <3>1 DEF Joins
  <2> QED BY <2>2, <2>8
<1> QED BY <1>1

\* FlattenSeq computes it.
LEMMA FlattenIs ==
  ASSUME NEW w, NEW n \in Nat \ {0}, Len(w) = n, NEW f, Joins(w, n, f)
  PROVE  FlattenSeq(w) = f[n]
<1> DEFINE g == CHOOSE g : g = [i \in 1 .. Len(w) |-> IF i = 1 THEN w[i] ELSE g[i - 1] \o w[i]]
<1>1. Joins(w, n, g) BY DEF Joins
<1>2. FlattenSeq(w) = g[Len(w)] BY DEF FlattenSeq
<1> HIDE DEF g
<1>3. g = f BY <1>1, JoinsOnce
<1> QED BY <1>2, <1>3

\* Before the first iovec nothing was transferred.
LEMMA BeforeFirst == ASSUME NEW v PROVE Before(v, 1) = <<>>
<1>1. SubSeq(v, 1, 0) = <<>> BY SubSeqEmpty
<1>2. Before(v, 1) = FlattenSeq(SubSeq(v, 1, 0)) BY DEF Before
<1>3. Len(SubSeq(v, 1, 0)) = 0 BY <1>1, EmptySeq
<1> QED BY <1>1, <1>2, <1>3 DEF FlattenSeq

\* The pieces before the next one are those before this one, and this one.
LEMMA BeforeNext ==
  ASSUME NEW S, NEW T, NEW v \in Seq(T), NEW k \in 1 .. Len(v), v[k] \in Seq(S)
  PROVE  Before(v, k + 1) = Before(v, k) \o v[k]
<1> DEFINE w(n) == SubSeq(v, 1, n)
<1>1. Len(v) \in Nat /\ \A i \in 1 .. Len(v) : v[i] \in T BY LenProperties
<1>2. ASSUME NEW n \in 0 .. Len(v)
      PROVE  Len(w(n)) = n /\ \A i \in 1 .. n : w(n)[i] = v[i]
  <2>1. \A i \in 1 .. n : v[i] \in T BY <1>1
  <2>2. n \in Int /\ n - 1 + 1 = n BY <1>1
  <2>3. Len(w(n)) = IF 1 <= n THEN n - 1 + 1 ELSE 0 BY <2>1, <2>2, SubSeqProperties
  <2>4. \A i \in 1 .. n - 1 + 1 : w(n)[i] = v[1 + i - 1] BY <2>1, <2>2, SubSeqProperties
  <2>5. \A i \in 1 .. n : 1 + i - 1 = i BY <2>2
  <2> QED BY <2>2, <2>3, <2>4, <2>5
<1>3. Before(v, 1) = <<>> BY BeforeFirst
<1>4. k \in Nat \ {0} /\ k \in 0 .. Len(v) /\ k - 1 \in 0 .. Len(v) BY <1>1
<1>5. Before(v, k + 1) = FlattenSeq(w(k)) /\ Before(v, k) = FlattenSeq(w(k - 1))
  <2>1. k + 1 - 1 = k BY <1>4
  <2> QED BY <2>1 DEF Before
<1>6. PICK f : Joins(w(k), k, f) BY <1>4, JoinsExist
<1>7. Len(w(k)) = k /\ \A i \in 1 .. k : w(k)[i] = v[i] BY <1>2, <1>4
<1>8. Len(w(k - 1)) = k - 1 /\ \A i \in 1 .. k - 1 : w(k - 1)[i] = v[i] BY <1>2, <1>4
<1> HIDE DEF w
<1>9. Before(v, k + 1) = f[k] BY <1>4, <1>5, <1>6, <1>7, FlattenIs
<1>10. CASE k = 1
  <2>1. f[1] = v[1] BY <1>4, <1>6, <1>7, <1>10 DEF Joins
  <2>2. <<>> \o v[1] = v[1] BY <1>10, ConcatEmptySeq
  <2> QED BY <1>3, <1>9, <1>10, <2>1, <2>2
<1>11. CASE k # 1
  <2> DEFINE g == [i \in 1 .. k - 1 |-> f[i]]
  <2>1. \A i \in 1 .. k : f[i] = IF i = 1 THEN v[i] ELSE f[i - 1] \o v[i] BY <1>6, <1>7 DEF Joins
  <2>2. \A i \in 1 .. k - 1 : g[i] = IF i = 1 THEN w(k - 1)[i] ELSE g[i - 1] \o w(k - 1)[i]
    BY <1>4, <1>8, <2>1
  <2>3. Joins(w(k - 1), k - 1, g)
    <3>1. g = [i \in 1 .. k - 1 |-> g[i]] OBVIOUS
    <3> HIDE DEF g
    <3> QED BY <2>2, <3>1 DEF Joins
  <2>4. k - 1 \in Nat \ {0} BY <1>4, <1>11
  <2> HIDE DEF g
  <2>5. Before(v, k) = g[k - 1] BY <1>5, <1>8, <2>3, <2>4, FlattenIs
  <2>6. g[k - 1] = f[k - 1] BY <2>4 DEF g
  <2>7. f[k] = f[k - 1] \o v[k]
    <3>1. k \in 1 .. k BY <1>4
    <3> QED BY <1>11, <2>1, <3>1
  <2> QED BY <1>3, <1>9, <2>5, <2>6, <2>7
<1> QED BY <1>10, <1>11

\* Writing nothing changes nothing, and writing two pieces one after the other
\* is writing them joined.
LEMMA WrittenNone ==
  ASSUME NEW S, NEW data \in Seq(S), NEW off \in 0 .. Len(data)
  PROVE  Written(data, off, <<>>) = data
<1> DEFINE e == <<>>
           w == Written(data, off, e)
<1>0. Len(e) = 0 BY EmptySeq
<1>1. e \in Seq(S) BY EmptySeq
<1>2. Len(data) \in Nat BY LenProperties
<1> HIDE DEF e
<1>3. w \in Seq(S) /\ Len(w) = IF off + Len(e) > Len(data) THEN off + Len(e) ELSE Len(data)
  BY <1>1, WrittenIs
<1>4. \A x \in 1 .. Len(w) : w[x] = IF x \in off + 1 .. off + Len(e) THEN e[x - off] ELSE data[x]
  BY <1>1, WrittenIs
<1> HIDE DEF w
<1>5. Len(w) = Len(data) BY <1>0, <1>2, <1>3
<1>6. \A x \in 1 .. Len(w) : w[x] = data[x] BY <1>0, <1>2, <1>4, <1>5
<1>7. w = data BY <1>3, <1>5, <1>6, SeqEqual
<1> QED BY <1>7 DEF w, e

\* Two writes in a row are one write of both.
LEMMA WrittenTwice ==
  ASSUME NEW S, NEW data \in Seq(S), NEW off \in 0 .. Len(data), NEW a \in Seq(S), NEW b \in Seq(S)
  PROVE  /\ off + Len(a) \in 0 .. Len(Written(data, off, a))
         /\ Written(Written(data, off, a), off + Len(a), b) = Written(data, off, a \o b)
<1> DEFINE w == Written(data, off, a)
           c == a \o b
           x2 == Written(w, off + Len(a), b)
           y2 == Written(data, off, c)
<1>1. Len(data) \in Nat /\ Len(a) \in Nat /\ Len(b) \in Nat /\ off \in Nat /\ off <= Len(data)
  BY LenProperties
<1>2. w \in Seq(S) /\ Len(w) = IF off + Len(a) > Len(data) THEN off + Len(a) ELSE Len(data)
  BY WrittenIs
<1>3. \A x \in 1 .. Len(w) : w[x] = IF x \in off + 1 .. off + Len(a) THEN a[x - off] ELSE data[x]
  BY WrittenIs
<1> HIDE DEF w
<1>4. Len(w) \in Nat /\ off + Len(a) \in 0 .. Len(w) BY <1>1, <1>2
<1> DEFINE m == off + Len(a)
<1> HIDE DEF m
<1>5. /\ Written(w, m, b) \in Seq(S)
      /\ Len(Written(w, m, b)) = IF m + Len(b) > Len(w) THEN m + Len(b) ELSE Len(w)
      /\ \A x \in 1 .. Len(Written(w, m, b)) :
           Written(w, m, b)[x] = IF x \in m + 1 .. m + Len(b) THEN b[x - m] ELSE w[x]
  BY <1>2, <1>4, WrittenIs DEF m
<1>6. x2 = Written(w, m, b) BY DEF m
<1> HIDE DEF x2
<1>7. x2 \in Seq(S) /\ Len(x2) = IF m + Len(b) > Len(w) THEN m + Len(b) ELSE Len(w) BY <1>5, <1>6
<1>8. \A x \in 1 .. Len(x2) : x2[x] = IF x \in m + 1 .. m + Len(b) THEN b[x - m] ELSE w[x]
  BY <1>5, <1>6
<1>9. c \in Seq(S) /\ Len(c) = Len(a) + Len(b) BY ConcatProperties
<1>10. \A i \in 1 .. Len(a) + Len(b) : c[i] = IF i <= Len(a) THEN a[i] ELSE b[i - Len(a)]
  BY ConcatProperties
<1> HIDE DEF c
<1>11. y2 \in Seq(S) /\ Len(y2) = IF off + Len(c) > Len(data) THEN off + Len(c) ELSE Len(data)
  BY <1>9, WrittenIs
<1>12. \A x \in 1 .. Len(y2) : y2[x] = IF x \in off + 1 .. off + Len(c) THEN c[x - off] ELSE data[x]
  BY <1>9, WrittenIs
<1> HIDE DEF y2
<1>13. m = off + Len(a) /\ m \in Nat BY <1>1 DEF m
<1>14. Len(x2) = Len(y2)
  <2>1. \A d, u, v, o \in Nat :
          (IF o + u + v > (IF o + u > d THEN o + u ELSE d) THEN o + u + v ELSE IF o + u > d THEN o + u ELSE d)
            = IF o + (u + v) > d THEN o + (u + v) ELSE d
    OBVIOUS
  <2>2. Len(x2) = IF off + Len(a) + Len(b) > Len(w) THEN off + Len(a) + Len(b) ELSE Len(w)
    BY <1>7, <1>13
  <2>3. Len(y2) = IF off + (Len(a) + Len(b)) > Len(data) THEN off + (Len(a) + Len(b)) ELSE Len(data)
    BY <1>9, <1>11
  <2>4. Len(w) = IF off + Len(a) > Len(data) THEN off + Len(a) ELSE Len(data) BY <1>2
  <2> QED BY <1>1, <2>1, <2>2, <2>3, <2>4, SMTT(30)
<1>15. \A x \in 1 .. Len(x2) : x2[x] = y2[x]
  <2> TAKE x \in 1 .. Len(x2)
  <2>0. Len(x2) \in Nat /\ x \in Nat \ {0} /\ x \in 1 .. Len(y2) BY <1>7, <1>14, LenProperties
  <2>1. x2[x] = IF x \in m + 1 .. m + Len(b) THEN b[x - m] ELSE w[x] BY <1>8
  <2>2. y2[x] = IF x \in off + 1 .. off + Len(c) THEN c[x - off] ELSE data[x] BY <1>12, <2>0
  <2>3. x \in 1 .. Len(w) => w[x] = IF x \in off + 1 .. off + Len(a) THEN a[x - off] ELSE data[x] BY <1>3
  <2>4. x - off \in 1 .. Len(a) + Len(b) =>
          c[x - off] = IF x - off <= Len(a) THEN a[x - off] ELSE b[x - off - Len(a)]
    BY <1>10
  <2>5. x - m = x - off - Len(a) BY <1>1, <1>13, <2>0
  <2>6. CASE x <= off
    <3>1. x \in 1 .. Len(w) /\ x \notin m + 1 .. m + Len(b) /\ x \notin off + 1 .. off + Len(a)
          /\ x \notin off + 1 .. off + Len(c)
      BY <1>1, <1>4, <1>9, <1>13, <2>0, <2>6
    <3> QED BY <2>1, <2>2, <2>3, <3>1
  <2>7. CASE x > off /\ x <= m
    <3>1. x \in 1 .. Len(w) /\ x \notin m + 1 .. m + Len(b) /\ x \in off + 1 .. off + Len(a)
          /\ x \in off + 1 .. off + Len(c) /\ x - off \in 1 .. Len(a) + Len(b) /\ x - off <= Len(a)
      BY <1>1, <1>4, <1>9, <1>13, <2>0, <2>7
    <3> QED BY <2>1, <2>2, <2>3, <2>4, <3>1
  <2>8. CASE x > m /\ x <= m + Len(b)
    <3>1. x \in m + 1 .. m + Len(b) /\ x \in off + 1 .. off + Len(c)
          /\ x - off \in 1 .. Len(a) + Len(b) /\ ~ (x - off <= Len(a))
      BY <1>1, <1>4, <1>9, <1>13, <2>0, <2>8
    <3> QED BY <2>1, <2>2, <2>4, <2>5, <3>1
  <2>9. CASE x > m + Len(b)
    <3>1. x \in 1 .. Len(w) /\ x \notin m + 1 .. m + Len(b) /\ x \notin off + 1 .. off + Len(a)
          /\ x \notin off + 1 .. off + Len(c)
      BY <1>1, <1>4, <1>7, <1>9, <1>13, <2>0, <2>9
    <3> QED BY <2>1, <2>2, <2>3, <3>1
  <2> QED BY <1>1, <1>13, <2>0, <2>6, <2>7, <2>8, <2>9
<1>16. x2 = y2 BY <1>7, <1>11, <1>14, <1>15, SeqEqual
<1> QED BY <1>4, <1>16 DEF w, x2, y2, c

----------------------------------------------------------------------------
(* The invariant.  f, fs and w stand for the descriptor table, the files   *)
(* and what the guest may expect.                                          *)

\* what is open is in the table, and is what its number says
Opens(f, w) ==
  /\ \A i : i \in DOMAIN w.open <=> i \in DOMAIN f /\ f[i].used
  /\ \A i \in DOMAIN w.open :
       /\ DOMAIN w.open[i] = {"kind", "name", "ofs"}
       /\ w.open[i].kind \in {"std", "dir", "fb", "file"}
       /\ w.open[i].kind = "std" <=> i < 3
       /\ w.open[i].kind = "fb" <=> f[i].fb

IsFile(w, i) == i \in DOMAIN w.open /\ w.open[i].kind = "file"

\* the handle s leads to the file of the descriptor o, at its offset
Leads(fs, s, o) ==
  /\ s \in Slots /\ fs[s].used /\ fs[s].name = o.name
  /\ fs[s].ofs = o.ofs /\ o.ofs <= Len(fs[s].data)

\* no two files have one name, and each holds what was written to it
Holds(fs, w) ==
  /\ \A s, t \in Slots : fs[s].used /\ fs[t].used /\ fs[s].name = fs[t].name => s = t
  /\ \A n : n \in DOMAIN w.cont <=> \E s \in Slots : fs[s].used /\ fs[s].name = n
  /\ \A s \in Slots : fs[s].used => fs[s].data = w.cont[fs[s].name]

\* descriptors are exact, and no two have one file
Exact(f, fs, w) ==
  /\ RamOK(fs) /\ Opens(f, w) /\ Holds(fs, w)
  /\ \A i : IsFile(w, i) => Leads(fs, f[i].pf, w.open[i])
  /\ \A i, j : IsFile(w, i) /\ IsFile(w, j) /\ w.open[i].name = w.open[j].name => i = j

\* gs is fs after a read or a write of n bytes from the offset at on: the
\* offset is behind them, and a write has put the bytes done there
Did(fs, gs, s, at, n, op, done) ==
  /\ \A t \in Slots : t # s => gs[t] = fs[t]
  /\ gs[s].used /\ gs[s].name = fs[s].name
  /\ gs[s].ofs = at + n /\ gs[s].ofs <= Len(gs[s].data)
  /\ gs[s].data = IF op = "write" THEN Written(fs[s].data, at, done) ELSE fs[s].data

\* the call c has done its part to the files fs it began with, which are gs now
Since(c, f, w, fs, gs) ==
  LET o == w.open[c.fd]
      done == Before(c.v, c.k)
  IN  /\ c.fd \in DOMAIN w.open /\ c.total \in Nat
      /\ c.op = "read" => o.kind = "file"
      /\ c.op = "write" => o.kind # "dir" /\ c.fd # 0 /\ done \in Seq(Bytes) /\ c.total = Len(done)
      /\ IF o.kind = "file" THEN Did(fs, gs, f[c.fd].pf, o.ofs, c.total, c.op, done) ELSE gs = fs

InIo == call.op \in {"read", "write"}

DataInv ==
  /\ call # Idle => phase = "guest"
  /\ ~InIo => Exact(fds, files, want)
  /\ InIo => \E fs : Exact(fds, fs, want) /\ Since(call, fds, want, fs, files)

----------------------------------------------------------------------------
(* What keeps descriptors and files exact.                                 *)

\* A new descriptor of no file.
LEMMA ExactAdd ==
  ASSUME NEW f, NEW fs, NEW w, NEW g, NEW x, NEW i \in Nat, NEW k \in {"std", "dir", "fb"}, NEW n,
         Exact(f, fs, w), x.cont = w.cont,
         DOMAIN x.open = DOMAIN w.open \cup {i}, i \notin DOMAIN w.open,
         \A d \in DOMAIN w.open : x.open[d] = w.open[d],
         x.open[i] = [kind |-> k, name |-> n, ofs |-> 0], k = "std" <=> i < 3,
         \A j \in DOMAIN f : j # i => j \in DOMAIN g /\ g[j] = f[j],
         \A j \in DOMAIN g : j # i /\ j \notin DOMAIN f => ~g[j].used,
         i \in DOMAIN g, g[i].used, k = "fb" <=> g[i].fb
  PROVE  Exact(g, fs, x)
<1>1. Opens(f, w) /\ Holds(fs, w) BY DEF Exact
<1>2. ASSUME NEW j PROVE j \in DOMAIN x.open <=> j \in DOMAIN g /\ g[j].used
  <2>1. j \in DOMAIN w.open <=> j \in DOMAIN f /\ f[j].used BY <1>1 DEF Opens
  <2> QED BY <2>1
<1>3. ASSUME NEW j \in DOMAIN x.open
      PROVE  /\ DOMAIN x.open[j] = {"kind", "name", "ofs"}
             /\ x.open[j].kind \in {"std", "dir", "fb", "file"}
             /\ x.open[j].kind = "std" <=> j < 3
             /\ x.open[j].kind = "fb" <=> g[j].fb
  <2>1. CASE j = i BY <2>1
  <2>2. CASE j # i
    <3>1. j \in DOMAIN w.open /\ x.open[j] = w.open[j] BY <2>2
    <3>2. j \in DOMAIN f /\ g[j] = f[j] BY <1>1, <2>2, <3>1 DEF Opens
    <3> QED BY <1>1, <3>1, <3>2 DEF Opens
  <2> QED BY <2>1, <2>2
<1>4. Opens(g, x) BY <1>2, <1>3 DEF Opens
<1>5. Holds(fs, x) BY <1>1 DEF Holds
<1>6. \A j : IsFile(x, j) => IsFile(w, j) /\ x.open[j] = w.open[j] /\ g[j] = f[j]
  <2> SUFFICES ASSUME NEW j, IsFile(x, j) PROVE IsFile(w, j) /\ x.open[j] = w.open[j] /\ g[j] = f[j]
    OBVIOUS
  <2>1. x.open[i].kind = k OBVIOUS
  <2>2. j # i /\ j \in DOMAIN w.open /\ x.open[j] = w.open[j] BY <2>1 DEF IsFile
  <2>3. j \in DOMAIN f BY <1>1, <2>2 DEF Opens
  <2> QED BY <2>2, <2>3 DEF IsFile
<1> QED BY <1>4, <1>5, <1>6 DEF Exact

\* A file that is opened: the handle s leads to it, at offset 0.
LEMMA ExactOpen ==
  ASSUME NEW f, NEW fs, NEW w, NEW g, NEW gs, NEW x, NEW i \in Nat, NEW n, NEW s \in Slots,
         Exact(f, fs, w), RamOK(gs), 3 <= i,
         DOMAIN x.open = DOMAIN w.open \cup {i}, i \notin DOMAIN w.open,
         \A d \in DOMAIN w.open : x.open[d] = w.open[d],
         x.open[i] = [kind |-> "file", name |-> n, ofs |-> 0],
         \A d \in DOMAIN w.open : w.open[d].name # n,
         \A j \in DOMAIN f : j # i => j \in DOMAIN g /\ g[j] = f[j],
         \A j \in DOMAIN g : j # i /\ j \notin DOMAIN f => ~g[j].used,
         i \in DOMAIN g, g[i].used, ~g[i].fb, g[i].pf = s,
         IF Found(fs, n) # {} THEN fs[s].used /\ fs[s].name = n ELSE ~fs[s].used,
         gs[s].used, gs[s].name = n, gs[s].ofs = 0,
         \A t \in Slots : t # s => gs[t] = fs[t],
         DOMAIN x.cont = DOMAIN w.cont \cup {n}, x.cont[n] = gs[s].data,
         \A m \in DOMAIN w.cont : m # n => x.cont[m] = w.cont[m]
  PROVE  Exact(g, gs, x)
<1>1. Opens(f, w) /\ Holds(fs, w) BY DEF Exact
<1>2. ASSUME NEW j PROVE j \in DOMAIN x.open <=> j \in DOMAIN g /\ g[j].used
  <2>1. j \in DOMAIN w.open <=> j \in DOMAIN f /\ f[j].used BY <1>1 DEF Opens
  <2> QED BY <2>1
<1>3. ASSUME NEW j \in DOMAIN x.open
      PROVE  /\ DOMAIN x.open[j] = {"kind", "name", "ofs"}
             /\ x.open[j].kind \in {"std", "dir", "fb", "file"}
             /\ x.open[j].kind = "std" <=> j < 3
             /\ x.open[j].kind = "fb" <=> g[j].fb
  <2>1. CASE j = i BY <2>1
  <2>2. CASE j # i
    <3>1. j \in DOMAIN w.open /\ x.open[j] = w.open[j] BY <2>2
    <3>2. j \in DOMAIN f /\ g[j] = f[j] BY <1>1, <2>2, <3>1 DEF Opens
    <3> QED BY <1>1, <3>1, <3>2 DEF Opens
  <2> QED BY <2>1, <2>2
<1>4. Opens(g, x) BY <1>2, <1>3 DEF Opens
<1>5. \A t \in Slots : fs[t].used /\ fs[t].name = n => t = s
  <2> SUFFICES ASSUME NEW t \in Slots, fs[t].used, fs[t].name = n PROVE t = s OBVIOUS
  <2>1. Found(fs, n) # {} BY DEF Found
  <2> QED BY <1>1, <2>1 DEF Holds
<1>6. Holds(gs, x)
  <2>1. \A t, u \in Slots : gs[t].used /\ gs[u].used /\ gs[t].name = gs[u].name => t = u
    BY <1>1, <1>5 DEF Holds
  <2>2. ASSUME NEW m PROVE m \in DOMAIN x.cont <=> \E t \in Slots : gs[t].used /\ gs[t].name = m
    <3>1. CASE m = n BY <3>1
    <3>2. CASE m # n
      <4>1. m \in DOMAIN w.cont <=> \E t \in Slots : fs[t].used /\ fs[t].name = m BY <1>1 DEF Holds
      <4>2. ASSUME NEW t \in Slots, fs[t].used, fs[t].name = m PROVE gs[t] = fs[t]
        <5>1. t # s
          <6>1. CASE Found(fs, n) # {} BY <3>2, <4>2, <6>1
          <6>2. CASE Found(fs, n) = {} BY <4>2, <6>2
          <6> QED BY <6>1, <6>2
        <5> QED BY <5>1
      <4>3. ASSUME NEW t \in Slots, gs[t].used, gs[t].name = m PROVE gs[t] = fs[t] BY <3>2, <4>3
      <4> QED BY <3>2, <4>1, <4>2, <4>3
    <3> QED BY <3>1, <3>2
  <2>3. ASSUME NEW t \in Slots, gs[t].used PROVE gs[t].data = x.cont[gs[t].name]
    <3>1. CASE t = s BY <3>1
    <3>2. CASE t # s
      <4>1. gs[t] = fs[t] /\ fs[t].name # n BY <1>5, <2>3, <3>2
      <4>2. fs[t].name \in DOMAIN w.cont BY <1>1, <2>3, <4>1 DEF Holds
      <4>3. fs[t].data = w.cont[fs[t].name] BY <1>1, <2>3, <4>1 DEF Holds
      <4> QED BY <4>1, <4>2, <4>3
    <3> QED BY <3>1, <3>2
  <2> QED BY <2>1, <2>2, <2>3 DEF Holds
<1>7. ASSUME NEW j, IsFile(x, j), j # i
      PROVE  IsFile(w, j) /\ x.open[j] = w.open[j] /\ g[j] = f[j] /\ Leads(gs, g[j].pf, x.open[j])
  <2>1. j \in DOMAIN w.open /\ x.open[j] = w.open[j] BY <1>7 DEF IsFile
  <2>2. j \in DOMAIN f BY <1>1, <2>1 DEF Opens
  <2>3. IsFile(w, j) /\ g[j] = f[j] BY <1>7, <2>1, <2>2 DEF IsFile
  <2>4. Leads(fs, f[j].pf, w.open[j]) BY <2>3 DEF Exact
  <2>5. w.open[j].name # n BY <2>1
  <2>6. f[j].pf # s BY <2>4, <2>5 DEF Leads
  <2> QED BY <2>1, <2>3, <2>4, <2>6 DEF Leads
<1>8. Leads(gs, g[i].pf, x.open[i])
  <2>1. gs[s].data \in Contents BY DEF RamOK, FileRec
  <2>2. Len(gs[s].data) \in Nat BY <2>1, ContentsAreSeqs, LenProperties
  <2> QED BY <2>2 DEF Leads
<1>9. \A j : IsFile(x, j) => Leads(gs, g[j].pf, x.open[j]) BY <1>7, <1>8
<1>10. ASSUME NEW j, NEW k, IsFile(x, j), IsFile(x, k), x.open[j].name = x.open[k].name PROVE j = k
  <2>1. x.open[i].name = n OBVIOUS
  <2>2. CASE j # i /\ k # i
    <3>1. IsFile(w, j) /\ IsFile(w, k) /\ w.open[j].name = w.open[k].name BY <1>7, <1>10, <2>2
    <3> QED BY <3>1 DEF Exact
  <2>3. CASE j = i /\ k # i
    <3>1. k \in DOMAIN w.open /\ x.open[k] = w.open[k] BY <1>10, <2>3 DEF IsFile
    <3> QED BY <1>10, <2>1, <2>3, <3>1
  <2>4. CASE j # i /\ k = i
    <3>1. j \in DOMAIN w.open /\ x.open[j] = w.open[j] BY <1>10, <2>4 DEF IsFile
    <3> QED BY <1>10, <2>1, <2>4, <3>1
  <2> QED BY <2>2, <2>3, <2>4
<1> QED BY <1>4, <1>6, <1>9, <1>10 DEF Exact

\* A descriptor that is closed.
LEMMA ExactClose ==
  ASSUME NEW f, NEW fs, NEW w, NEW g, NEW x, NEW i,
         Exact(f, fs, w), x.cont = w.cont,
         DOMAIN x.open = DOMAIN w.open \ {i}, \A d \in DOMAIN x.open : x.open[d] = w.open[d],
         DOMAIN g = DOMAIN f, \A j \in DOMAIN f : j # i => g[j] = f[j], i \in DOMAIN f => ~g[i].used
  PROVE  Exact(g, fs, x)
<1>1. Opens(f, w) /\ Holds(fs, w) BY DEF Exact
<1>2. ASSUME NEW j PROVE j \in DOMAIN x.open <=> j \in DOMAIN g /\ g[j].used
  <2>1. j \in DOMAIN w.open <=> j \in DOMAIN f /\ f[j].used BY <1>1 DEF Opens
  <2> QED BY <2>1
<1>3. ASSUME NEW j \in DOMAIN x.open PROVE j \in DOMAIN w.open /\ x.open[j] = w.open[j] /\ g[j] = f[j]
  <2>1. j \in DOMAIN w.open /\ j # i OBVIOUS
  <2>2. j \in DOMAIN f BY <1>1, <2>1 DEF Opens
  <2> QED BY <2>1, <2>2
<1>4. Opens(g, x) BY <1>1, <1>2, <1>3 DEF Opens
<1>5. Holds(fs, x) BY <1>1 DEF Holds
<1>6. \A j : IsFile(x, j) => IsFile(w, j) /\ x.open[j] = w.open[j] /\ g[j] = f[j] BY <1>3 DEF IsFile
<1> QED BY <1>4, <1>5, <1>6 DEF Exact

\* A file whose offset or content a call has changed, through its descriptor i.
LEMMA ExactChanged ==
  ASSUME NEW f, NEW fs, NEW w, NEW gs, NEW x, NEW i, NEW n \in Nat, NEW d, NEW c,
         Exact(f, fs, w), RamOK(gs), IsFile(w, i), c = w.open[i].name,
         \A t \in Slots : t # f[i].pf => gs[t] = fs[t],
         gs[f[i].pf].used, gs[f[i].pf].name = fs[f[i].pf].name, gs[f[i].pf].data = d, gs[f[i].pf].ofs = n,
         n <= Len(d), x.open = [w.open EXCEPT ![i].ofs = n],
         DOMAIN x.cont = DOMAIN w.cont, x.cont[c] = d,
         \A m \in DOMAIN w.cont : m # c => x.cont[m] = w.cont[m]
  PROVE  Exact(f, gs, x)
<1> DEFINE s == f[i].pf
<1>1. Opens(f, w) /\ Holds(fs, w) BY DEF Exact
<1>2. Leads(fs, s, w.open[i]) BY DEF Exact
<1>3. s \in Slots /\ fs[s].used /\ fs[s].name = c BY <1>2 DEF Leads
<1>4. i \in DOMAIN w.open /\ w.open[i].kind = "file" BY DEF IsFile
<1>5. /\ DOMAIN x.open = DOMAIN w.open
      /\ \A j \in DOMAIN w.open : j # i => x.open[j] = w.open[j]
  OBVIOUS
<1>6. x.open[i] = [w.open[i] EXCEPT !.ofs = n] BY <1>4
<1>7. DOMAIN w.open[i] = {"kind", "name", "ofs"} BY <1>1, <1>4 DEF Opens
<1>8. DOMAIN x.open[i] = {"kind", "name", "ofs"} /\ x.open[i].kind = "file" /\ x.open[i].name = c
      /\ x.open[i].ofs = n
  BY <1>4, <1>6, <1>7
<1> HIDE DEF s
<1>9. ASSUME NEW j \in DOMAIN x.open
      PROVE  /\ DOMAIN x.open[j] = DOMAIN w.open[j]
             /\ x.open[j].kind = w.open[j].kind /\ x.open[j].name = w.open[j].name
  <2>1. CASE j = i BY <1>4, <1>7, <1>8, <2>1
  <2>2. CASE j # i BY <1>5, <2>2
  <2> QED BY <2>1, <2>2
<1>10. Opens(f, x) BY <1>1, <1>5, <1>9 DEF Opens
<1>11. \A t \in Slots : gs[t].used = fs[t].used /\ gs[t].name = fs[t].name
  <2> TAKE t \in Slots
  <2>1. CASE t = s
    <3>1. fs \in [Slots -> FileRec] /\ gs \in [Slots -> FileRec] BY DEF RamOK, Exact
    <3>2. fs[t].used \in BOOLEAN /\ gs[t].used \in BOOLEAN BY <3>1 DEF FileRec
    <3> QED BY <1>3, <2>1, <3>2 DEF s
  <2>2. CASE t # s BY <2>2 DEF s
  <2> QED BY <2>1, <2>2
<1>12. Holds(gs, x)
  <2>1. ASSUME NEW t \in Slots, gs[t].used PROVE gs[t].data = x.cont[gs[t].name]
    <3>1. CASE t = s BY <1>3, <1>11, <3>1 DEF s
    <3>2. CASE t # s
      <4>1. gs[t] = fs[t] /\ fs[t].used BY <2>1, <3>2 DEF s
      <4>2. fs[t].name # c BY <1>1, <1>3, <3>2, <4>1 DEF Holds
      <4>3. fs[t].name \in DOMAIN w.cont /\ fs[t].data = w.cont[fs[t].name] BY <1>1, <4>1 DEF Holds
      <4> QED BY <4>1, <4>2, <4>3
    <3> QED BY <3>1, <3>2
  <2> QED BY <1>1, <1>11, <2>1 DEF Holds
<1>13. \A j : IsFile(x, j) => IsFile(w, j) /\ x.open[j].name = w.open[j].name BY <1>5, <1>9 DEF IsFile
<1>14. ASSUME NEW j, IsFile(x, j) PROVE Leads(gs, f[j].pf, x.open[j])
  <2>1. CASE j = i BY <1>3, <1>8, <1>11, <2>1 DEF Leads, s
  <2>2. CASE j # i
    <3>1. IsFile(w, j) /\ x.open[j] = w.open[j] BY <1>5, <1>13, <1>14, <2>2 DEF IsFile
    <3>2. Leads(fs, f[j].pf, w.open[j]) BY <3>1 DEF Exact
    <3>3. w.open[j].name # c BY <2>2, <3>1 DEF Exact
    <3>4. f[j].pf # s BY <1>3, <3>2, <3>3 DEF Leads
    <3> QED BY <3>1, <3>2, <3>4 DEF Leads, s
  <2> QED BY <2>1, <2>2
<1>15. \A j, k : IsFile(x, j) /\ IsFile(x, k) /\ x.open[j].name = x.open[k].name => j = k
  BY <1>13 DEF Exact
<1> QED BY <1>10, <1>12, <1>14, <1>15 DEF Exact

----------------------------------------------------------------------------
(* Every action preserves the invariant.                                   *)

\* While no call is under way.
LEMMA IdleIs ==
  ASSUME Proper, DataInv, Runs
  PROVE  call = Idle /\ ~InIo /\ phase = "guest" /\ bound /\ Exact(fds, files, want)
<1>1. "start" \notin Uses BY DEF Proper
<1> QED BY <1>1 DEF Runs, DataInv, InIo, Idle, bound

\* Between calls agreement is all the invariant asks.
LEMMA IdleData ==
  ASSUME DataInv, call = Idle, UNCHANGED call, Exact(fds', files', want')
  PROVE  DataInv'
  BY DEF DataInv, InIo, Idle

\* A step that leaves descriptors, files and call alone keeps it.
LEMMA DataKeep ==
  ASSUME DataInv, UNCHANGED <<fds, files, want, call>>, phase' = phase \/ call = Idle
  PROVE  DataInv'
<1>1. CASE InIo
  <2>1. PICK fs : Exact(fds, fs, want) /\ Since(call, fds, want, fs, files) BY <1>1 DEF DataInv
  <2>2. Since(call', fds', want', fs, files') BY <2>1
  <2>3. phase' = phase BY <1>1 DEF InIo, Idle
  <2> QED BY <1>1, <2>1, <2>2, <2>3 DEF DataInv, InIo
<1>2. CASE ~InIo BY <1>2 DEF DataInv, InIo
<1> QED BY <1>1, <1>2

\* fd_get answers whether the descriptor is open.
LEMMA GetIs ==
  ASSUME FdsOK, NEW fd \in Nat
  PROVE  /\ fd_get(fd) <=> fd \in DOMAIN fds /\ fds[fd].used
         /\ \A fs : Exact(fds, fs, want) => (fd_get(fd) <=> fd \in DOMAIN want.open)
<1>1. fd \in DOMAIN fds <=> fd < Cap BY DEF FdsOK
<1>2. fd_get(fd) <=> fd \in DOMAIN fds /\ fds[fd].used BY <1>1 DEF fd_get
<1> QED BY <1>2 DEF Exact, Opens

\* The table after fd_alloc, as ExactAdd and ExactOpen ask for it.
LEMMA AllocatedIs ==
  ASSUME FdsOK, NEW i \in Nat, NEW rec \in FdRec, fd_alloc(i, rec)
  PROVE  /\ \A j \in DOMAIN fds : j # i => j \in DOMAIN fds' /\ fds'[j] = fds[j]
         /\ \A j \in DOMAIN fds' : j # i /\ j \notin DOMAIN fds => ~fds'[j].used
         /\ i \in DOMAIN fds' /\ fds'[i].used /\ fds'[i].fb = rec.fb /\ fds'[i].pf = rec.pf
<1>1. Cap \in Nat /\ DOMAIN fds = 0 .. Cap - 1 BY DEF FdsOK
<1>2. /\ Cap <= Cap' /\ i < Cap'
      /\ DOMAIN fds' = 0 .. Cap' - 1
      /\ fds'[i] = [rec EXCEPT !.used = TRUE]
      /\ \A j \in 0 .. Cap - 1 : j # i => fds'[j] = fds[j]
      /\ \A j \in 0 .. Cap' - 1 : j # i /\ j >= Cap => fds'[j] = Zero
  BY AllocIs
<1>3. Cap' \in Nat BY AllocIs DEF FdsOK
<1>4. fds'[i].used /\ fds'[i].fb = rec.fb /\ fds'[i].pf = rec.pf BY <1>2 DEF FdRec
<1>5. \A j \in DOMAIN fds' : j # i /\ j \notin DOMAIN fds => ~fds'[j].used BY <1>1, <1>2, <1>3, ZeroIs
<1>6. \A j \in DOMAIN fds : j # i => j \in DOMAIN fds' /\ fds'[j] = fds[j] BY <1>1, <1>2, <1>3
<1>7. i \in DOMAIN fds' BY <1>2, <1>3
<1> QED BY <1>4, <1>5, <1>6, <1>7

\* A host's step that adds a descriptor.
LEMMA AddData ==
  ASSUME TypeInv, DataInv, call = Idle, UNCHANGED <<call, files>>,
         NEW i \in Nat, NEW rec \in FdRec, fd_alloc(i, rec), i \in 0 .. MaxFd,
         i \in 0 .. Cap - 1 => ~fds[i].used,
         NEW k \in {"std", "dir", "fb"}, NEW n, k = "std" <=> i < 3, k = "fb" <=> rec.fb,
         want'.cont = want.cont, want'.open = NewOpen(i, k, n)
  PROVE  DataInv'
<1>1. FdsOK BY DEF TypeInv
<1>2. Exact(fds, files, want) BY DEF DataInv, InIo, Idle
<1> DEFINE no == NewOpen(i, k, n)
<1>3. /\ DOMAIN no = DOMAIN want.open \cup {i}
      /\ no[i] = [kind |-> k, name |-> n, ofs |-> 0]
      /\ \A d \in DOMAIN want.open : d # i => no[d] = want.open[d]
  BY DEF NewOpen, Put
<1> HIDE DEF no
<1>4. /\ DOMAIN want'.open = DOMAIN want.open \cup {i}
      /\ want'.open[i] = [kind |-> k, name |-> n, ofs |-> 0]
      /\ \A d \in DOMAIN want.open : d # i => want'.open[d] = want.open[d]
  BY <1>3 DEF no
<1>5. i \notin DOMAIN want.open BY <1>1, <1>2 DEF Exact, Opens, FdsOK
<1>6. /\ \A j \in DOMAIN fds : j # i => j \in DOMAIN fds' /\ fds'[j] = fds[j]
      /\ \A j \in DOMAIN fds' : j # i /\ j \notin DOMAIN fds => ~fds'[j].used
      /\ i \in DOMAIN fds' /\ fds'[i].used /\ fds'[i].fb = rec.fb
  BY <1>1, AllocatedIs
<1>7. \A d \in DOMAIN want.open : want'.open[d] = want.open[d] BY <1>4, <1>5
<1>8. k = "fb" <=> fds'[i].fb BY <1>6
<1>9. Exact(fds', files, want') BY <1>2, <1>4, <1>5, <1>6, <1>7, <1>8, ExactAdd
<1> QED BY <1>9, IdleData

\* The host's steps.
LEMMA HostData ==
  ASSUME Proper, TypeInv, DataInv,
         (\E i \in 0 .. 2 : InitStd(i)) \/ HostAdds \/ Instantiate \/ ea_wasi_bind \/ Exit
  PROVE  DataInv'
<1>1. FdsOK /\ WantOK BY DEF TypeInv
<1>2. phase = "setup" => call = Idle BY DEF DataInv
<1>3. ASSUME NEW i \in 0 .. 2, InitStd(i) PROVE DataInv'
  <2> DEFINE rec == [Zero EXCEPT !.pf = i]
             kind == "std"
  <2>1. i \in Nat /\ i \in 0 .. MaxFd /\ i < 3 BY SetupFits
  <2>2. rec \in FdRec /\ rec.fb = FALSE BY <2>1, StdRec
  <2>3. fd_alloc(i, rec) /\ UNCHANGED <<call, files>> /\ call = Idle BY <1>2, <1>3 DEF InitStd
  <2> DEFINE n == <<>>
  <2>4. want'.cont = want.cont /\ want'.open = NewOpen(i, kind, n)
    <3>1. want' = [want EXCEPT !.open = NewOpen(i, kind, n)] BY <1>3 DEF InitStd
    <3> HIDE DEF n, kind
    <3> QED BY <1>1, <2>1, <3>1, WantNewOpen
  <2>5. i \in 0 .. Cap - 1 => ~fds[i].used BY <1>1, <1>3 DEF InitStd, FdsOK
  <2>6. kind \in {"std", "dir", "fb"} /\ (kind = "std" <=> i < 3) /\ (kind = "fb" <=> rec.fb) BY <2>1, <2>2
  <2> HIDE DEF rec, kind, n
  <2> QED BY <2>1, <2>2, <2>3, <2>4, <2>5, <2>6, AddData
<1>4. CASE HostAdds
  <2> DEFINE b == Setup[next_fd - 2]
             rec == [Zero EXCEPT !.kind = IF b = Efb THEN "reg" ELSE "dir", !.pre = TRUE,
                                 !.base = b, !.fb = (b = Efb)]
             kind == IF b = Efb THEN "fb" ELSE "dir"
             i == fd_alloc_any
             n == <<b>>
  <2>1. next_fd \in Nat /\ next_fd >= 3 /\ next_fd - 2 <= Len(Setup) BY <1>1, <1>4 DEF HostAdds, FdsOK
  <2>2. b \in Range(Setup)
    <3>1. next_fd - 2 \in 1 .. Len(Setup) BY <2>1, WasiBounds, LenProperties
    <3>2. next_fd - 2 \in DOMAIN Setup BY <3>1, WasiBounds, LenProperties
    <3> QED BY <3>2 DEF Range
  <2>3. rec \in FdRec /\ rec.fb = (b = Efb) BY <2>2, HostRec
  <2>4. i \in Nat /\ i <= next_fd /\ 3 <= i /\ (i \in 0 .. Cap - 1 => ~fds[i].used)
    BY <1>1, <2>1, AnyIsFree
  <2>5. i \in 0 .. MaxFd BY <2>1, <2>4, SetupFits
  <2>6. fd_alloc(i, rec) /\ UNCHANGED <<call, files>> /\ call = Idle BY <1>2, <1>4 DEF HostAdds
  <2>7. want'.cont = want.cont /\ want'.open = NewOpen(i, kind, n)
    <3>1. want' = [want EXCEPT !.open = NewOpen(i, kind, n)] BY <1>4 DEF HostAdds
    <3> HIDE DEF n, kind, i
    <3> QED BY <1>1, <2>5, <3>1, WantNewOpen
  <2> HIDE DEF rec, i, n
  <2>8. kind \in {"std", "dir", "fb"} /\ (kind = "std" <=> i < 3) /\ (kind = "fb" <=> rec.fb)
    <3>1. kind = "fb" <=> b = Efb OBVIOUS
    <3>2. rec.fb <=> b = Efb BY <2>3
    <3>3. kind \in {"dir", "fb"} /\ ~ (i < 3) BY <2>4
    <3> HIDE DEF kind
    <3> QED BY <3>1, <3>2, <3>3
  <2> HIDE DEF rec, kind, i, n
  <2> QED BY <2>3, <2>4, <2>5, <2>6, <2>7, <2>8, AddData
<1>5. CASE Instantiate \/ ea_wasi_bind
  <2>1. UNCHANGED <<fds, files, want, call>> /\ call = Idle
    BY <1>2, <1>5 DEF Instantiate, ea_wasi_bind
  <2> QED BY <2>1, DataKeep
<1>6. CASE Exit
  <2>1. Exact(fds, files, want) /\ call = Idle BY <1>6, IdleIs DEF Exit
  <2>2. fds' = <<>> /\ files' = files /\ call' = call /\ want' = [want EXCEPT !.open = <<>>]
    BY <1>6 DEF Exit
  <2>3. DOMAIN <<>> = {} OBVIOUS
  <2>4. want'.cont = want.cont /\ want'.open = <<>> BY <1>1, <2>2, <2>3, WantOpen_
  <2>5. Opens(fds', want') BY <2>2, <2>3, <2>4 DEF Opens
  <2>6. Holds(files, want') BY <2>1, <2>4 DEF Exact, Holds
  <2>7. \A i : ~IsFile(want', i) BY <2>3, <2>4 DEF IsFile
  <2>8. Exact(fds', files, want') BY <2>1, <2>5, <2>6, <2>7 DEF Exact
  <2> QED BY <2>1, <2>2, <2>8, IdleData
<1> QED BY <1>3, <1>4, <1>5, <1>6

\* path_open of a file: the name is the path, and the content that truncation
\* leaves is what the guest may expect.
LEMMA OpenFileData ==
  ASSUME TypeInv, DataInv, call = Idle, fd_alloc_any <= MaxFd,
         NEW name \in Inside, NEW create \in BOOLEAN, NEW trunc \in BOOLEAN, NEW r, NEW wrc,
         r = ew_open(files, name, create, trunc), r.rc = "ok",
         \A d \in DOMAIN want.open : want.open[d].name # name,
         OpenFile(fd_alloc_any, name, r, wrc, trunc)
  PROVE  DataInv'
<1> DEFINE fd == fd_alloc_any
           rec == [Zero EXCEPT !.kind = "reg", !.pf = r.out]
           c0 == IF name \in DOMAIN want.cont /\ ~trunc THEN want.cont[name] ELSE <<>>
           no == NewOpen(fd, "file", name)
           c == Put(want.cont, name, c0)
<1>1. FdsOK /\ WantOK /\ RamOK(files) BY DEF TypeInv
<1>2. Exact(fds, files, want) /\ Opens(fds, want) /\ Holds(files, want) BY DEF DataInv, InIo, Idle, Exact
<1>3. fd \in Nat /\ 3 <= fd /\ (fd \in 0 .. Cap - 1 => ~fds[fd].used) BY <1>1, AnyIsFree
<1>4. /\ RamOK(r.fs) /\ r.out \in Slots
      /\ IF Found(files, name) # {} THEN files[r.out].used /\ files[r.out].name = name
         ELSE ~files[r.out].used
      /\ r.fs[r.out].used /\ r.fs[r.out].name = name /\ r.fs[r.out].ofs = 0
      /\ r.fs[r.out].data = IF Found(files, name) # {} /\ ~trunc THEN files[r.out].data ELSE <<>>
      /\ \A s \in Slots : s # r.out => r.fs[s] = files[s]
  <2>1. RamOK(r.fs) /\ r.out \in Slots BY <1>1, RamOpenIs
  <2>2. IF Found(files, name) # {} THEN files[r.out].used /\ files[r.out].name = name
        ELSE ~files[r.out].used
    BY <1>1, RamOpenIs
  <2>3. r.fs[r.out].used /\ r.fs[r.out].name = name /\ r.fs[r.out].ofs = 0 BY <1>1, RamOpenIs
  <2>4. r.fs[r.out].data = IF Found(files, name) # {} /\ ~trunc THEN files[r.out].data ELSE <<>>
    BY <1>1, RamOpenIs
  <2>5. \A s \in Slots : s # r.out => r.fs[s] = files[s] BY <1>1, RamOpenIs
  <2> QED BY <2>1, <2>2, <2>3, <2>4, <2>5
<1>5. name \in DOMAIN want.cont <=> Found(files, name) # {} BY <1>2 DEF Holds, Found
<1>6. c0 = r.fs[r.out].data
  <2>1. CASE Found(files, name) # {} /\ ~trunc
    <3>1. files[r.out].data = want.cont[name] BY <1>2, <1>4, <2>1 DEF Holds
    <3> QED BY <1>4, <1>5, <2>1, <3>1
  <2>2. CASE ~ (Found(files, name) # {} /\ ~trunc) BY <1>4, <1>5, <2>2
  <2> QED BY <2>1, <2>2
<1>7. r.out \in Nat BY <1>4, SlotsAreNat
<1>8. rec \in FdRec /\ rec.fb = FALSE /\ rec.pf = r.out BY <1>7, FileFd
<1>9. fd_alloc(fd, rec) /\ files' = r.fs /\ UNCHANGED call /\ want' = [cont |-> c, open |-> no]
  BY DEF OpenFile, Returns
<1> HIDE DEF fd, rec, c0
<1>10. DOMAIN c = DOMAIN want.cont \cup {name} /\ c[name] = c0
       /\ \A m \in DOMAIN want.cont : m # name => c[m] = want.cont[m]
  BY DEF Put
<1>11. DOMAIN no = DOMAIN want.open \cup {fd}
       /\ no[fd] = [kind |-> "file", name |-> name, ofs |-> 0]
       /\ \A d \in DOMAIN want.open : d # fd => no[d] = want.open[d]
  BY DEF NewOpen, Put
<1> HIDE DEF c, no
<1>12. want'.cont = c /\ want'.open = no BY <1>9
<1>13. /\ \A j \in DOMAIN fds : j # fd => j \in DOMAIN fds' /\ fds'[j] = fds[j]
       /\ \A j \in DOMAIN fds' : j # fd /\ j \notin DOMAIN fds => ~fds'[j].used
       /\ fd \in DOMAIN fds' /\ fds'[fd].used /\ fds'[fd].fb = rec.fb /\ fds'[fd].pf = rec.pf
  BY <1>1, <1>3, <1>8, <1>9, AllocatedIs
<1>14. fd \notin DOMAIN want.open BY <1>1, <1>2, <1>3 DEF Opens, FdsOK
<1>15. \A d \in DOMAIN want.open : no[d] = want.open[d] BY <1>11, <1>14
<1>16. ~fds'[fd].fb /\ fds'[fd].pf = r.out BY <1>8, <1>13
<1> DEFINE s == r.out
           gs == r.fs
<1> HIDE DEF s, gs
<1>17. Exact(fds', gs, want')
  <2>1. /\ s \in Slots /\ RamOK(gs) /\ fds'[fd].pf = s
        /\ IF Found(files, name) # {} THEN files[s].used /\ files[s].name = name ELSE ~files[s].used
        /\ gs[s].used /\ gs[s].name = name /\ gs[s].ofs = 0
        /\ \A t \in Slots : t # s => gs[t] = files[t]
    BY <1>4, <1>16 DEF s, gs
  <2>2. DOMAIN want'.cont = DOMAIN want.cont \cup {name} /\ want'.cont[name] = gs[s].data
        /\ \A m \in DOMAIN want.cont : m # name => want'.cont[m] = want.cont[m]
    BY <1>6, <1>10, <1>12 DEF s, gs
  <2>3. DOMAIN want'.open = DOMAIN want.open \cup {fd}
        /\ want'.open[fd] = [kind |-> "file", name |-> name, ofs |-> 0]
        /\ \A d \in DOMAIN want.open : want'.open[d] = want.open[d]
    BY <1>11, <1>12, <1>15
  <2> QED BY <1>2, <1>3, <1>13, <1>14, <1>16, <2>1, <2>2, <2>3, ExactOpen
<1> QED BY <1>9, <1>17, IdleData DEF gs

\* path_open makes the descriptor, and the file, WebAssembly's side expects.
LEMMA OpenData ==
  ASSUME Proper, TypeInv, DataInv,
         NEW dirfd \in GuestFds, NEW p \in Paths, NEW flags \in Flags, PathOpen(dirfd, p, flags)
  PROVE  DataInv'
<1> DEFINE base == IF fd_get(dirfd) THEN fds[dirfd].base ELSE None
           create == Creates(flags)
           trunc == Truncates(flags)
           name == <<base, p>>
           r == ew_open(files, <<base, Cut[p]>>, create, trunc)
           wrc == WantOpen(dirfd, name, p, flags)
           fd == fd_alloc_any
<1>1. FdsOK /\ WantOK /\ RamOK(files) BY DEF TypeInv
<1>2. call = Idle BY DEF PathOpen, Runs
<1>3. ASSUME NEW rc, NEW w, OpenFails(rc, w) PROVE DataInv'
  BY <1>3, DataKeep DEF OpenFails, Returns
<1>4. base # Efb BY DEF PathOpen, Proper
<1>5. CASE resolve_path(dirfd, p) # "ok" BY <1>3, <1>5 DEF PathOpen
<1>6. CASE resolve_path(dirfd, p) = "ok"
  <2>1. fd_get(dirfd) /\ fds[dirfd].base # None /\ ~Refused(p) BY <1>6, ResolvedIs
  <2>2. base \in Range(Setup) \ {Efb}
    <3>1. dirfd \in 0 .. Cap - 1 BY <1>1, <2>1, WasiBounds DEF fd_get, FdsOK
    <3>2. fds[dirfd].base \in Range(Setup) \cup {Efb, None} BY <1>1, <3>1 DEF FdsOK, FdRec
    <3> QED BY <1>4, <2>1, <3>2
  <2>3. Cut[p] = p BY DEF Proper
  <2>4. name \in Inside BY <2>1, <2>2, <2>3 DEF Inside, Refused
  <2>5. create \in BOOLEAN /\ trunc \in BOOLEAN BY DEF Creates, Truncates
  <2>6. trunc = ("trunc" \in flags) BY DEF Truncates, Proper
  <2>7. IF r.rc # "ok" THEN OpenFails(r.rc, wrc) ELSE OpenFile(fd, name, r, wrc, "trunc" \in flags)
    BY <1>4, <1>6 DEF PathOpen
  <2>8. r = ew_open(files, name, create, trunc) BY <2>3
  <2>9. fd <= MaxFd /\ \A d \in DOMAIN want.open : want.open[d].name # name BY DEF PathOpen, Proper
  <2> HIDE DEF name, create, trunc, r, wrc
  <2>10. CASE r.rc # "ok" BY <1>3, <2>7, <2>10
  <2>11. CASE r.rc = "ok"
    <3>1. OpenFile(fd, name, r, wrc, trunc) BY <2>6, <2>7, <2>11
    <3> QED BY <1>2, <2>4, <2>5, <2>8, <2>9, <2>11, <3>1, OpenFileData
  <2> QED BY <2>10, <2>11
<1> QED BY <1>5, <1>6

\* fd_close.
LEMMA CloseData ==
  ASSUME Proper, TypeInv, DataInv, NEW fd \in GuestFds, FdClose(fd)
  PROVE  DataInv'
<1>1. FdsOK /\ WantOK BY DEF TypeInv
<1>2. call = Idle /\ UNCHANGED <<call, files, phase>> BY DEF FdClose, Runs, Returns
<1>3. CASE ~fd_get(fd)
  <2>1. UNCHANGED <<fds, want>> BY <1>3 DEF FdClose
  <2> QED BY <1>2, <2>1, DataKeep
<1>4. CASE fd_get(fd)
  <2> DEFINE o == [d \in DOMAIN want.open \ {fd} |-> want.open[d]]
  <2>1. fds' = [fds EXCEPT ![fd] = Zero] BY <1>4 DEF FdClose, Closed
  <2>2. want' = [want EXCEPT !.open = o] BY <1>1, <1>4 DEF FdClose, WantOK
  <2>3. DOMAIN o \subseteq 0 .. MaxFd BY <1>1 DEF WantOK
  <2>4. DOMAIN o = DOMAIN want.open \ {fd} /\ \A d \in DOMAIN o : o[d] = want.open[d] OBVIOUS
  <2> HIDE DEF o
  <2>5. want'.cont = want.cont /\ want'.open = o BY <1>1, <2>2, <2>3, WantOpen_
  <2>6. DOMAIN fds' = DOMAIN fds /\ \A j \in DOMAIN fds : j # fd => fds'[j] = fds[j] BY <2>1
  <2>7. fd \in DOMAIN fds => ~fds'[fd].used BY <2>1, ZeroIs
  <2>8. Exact(fds, files, want) BY <1>2 DEF DataInv, InIo, Idle
  <2>9. Exact(fds', files, want') BY <2>4, <2>5, <2>6, <2>7, <2>8, ExactClose
  <2> QED BY <1>2, <2>9, IdleData
<1> QED BY <1>3, <1>4

\* What holds of an open file.
LEMMA FileIs ==
  ASSUME NEW f, NEW fs, NEW w, Exact(f, fs, w), NEW i, IsFile(w, i)
  PROVE  LET s == f[i].pf
             o == w.open[i]
         IN  /\ s \in Slots /\ fs[s].used /\ fs[s].name = o.name /\ o.name \in DOMAIN w.cont
             /\ fs[s].ofs = o.ofs /\ o.ofs \in Nat /\ o.ofs <= Len(fs[s].data)
             /\ fs[s].data = w.cont[o.name] /\ fs[s].data \in Seq(Bytes) /\ Len(fs[s].data) \in Nat
<1> DEFINE s == f[i].pf
           o == w.open[i]
<1>1. Leads(fs, s, o) /\ RamOK(fs) /\ Holds(fs, w) BY DEF Exact
<1>2. s \in Slots /\ fs[s].used /\ fs[s].name = o.name /\ fs[s].ofs = o.ofs /\ o.ofs <= Len(fs[s].data)
  BY <1>1 DEF Leads
<1> HIDE DEF s, o
<1>3. fs[s].ofs \in Nat BY <1>1, <1>2 DEF RamOK, FileRec
<1>4. fs[s].data = w.cont[o.name] /\ o.name \in DOMAIN w.cont BY <1>1, <1>2 DEF Holds
<1>5. fs[s].data \in Seq(Bytes) /\ Len(fs[s].data) \in Nat BY <1>1, <1>2, PlaceIs
<1> QED BY <1>2, <1>3, <1>4, <1>5 DEF s, o

\* fd_seek moves both offsets alike.
LEMMA SeekData ==
  ASSUME Proper, TypeInv, DataInv,
         NEW fd \in GuestFds, NEW off \in Int, NEW whence \in {"set", "cur", "end"}, FdSeek(fd, off, whence)
  PROVE  DataInv'
<1> DEFINE s == fds[fd].pf
           r == ew_seek(files, s, off, whence)
           o == want.open[fd]
           c == IF o.kind = "file" THEN want.cont[o.name] ELSE <<>>
           np == SeekBase([ofs |-> o.ofs, data |-> c], whence) + off
<1>1. FdsOK /\ WantOK /\ RamOK(files) /\ fd \in Nat BY WasiBounds DEF TypeInv
<1>2. call = Idle /\ UNCHANGED <<call, fds, phase>> BY DEF FdSeek, Runs, Returns
<1>3. Exact(fds, files, want) BY <1>2 DEF DataInv, InIo, Idle
<1>4. CASE ~fd_get(fd)
  <2>1. UNCHANGED <<files, want>> BY <1>4 DEF FdSeek
  <2> QED BY <1>2, <2>1, DataKeep
<1>5. CASE fd_get(fd)
  <2>1. IsFile(want, fd) BY <1>5 DEF FdSeek, Usable, Proper, Is, IsFile
  <2>2. files' = r.fs /\ want' = (IF np < 0 THEN want ELSE [want EXCEPT !.open[fd].ofs = np])
    BY <1>5 DEF FdSeek
  <2>3. np <= Len(c) BY <1>5 DEF FdSeek, Proper
  <2>4. /\ s \in Slots /\ files[s].used /\ files[s].name = o.name /\ o.name \in DOMAIN want.cont
        /\ files[s].ofs = o.ofs /\ o.ofs \in Nat /\ files[s].data = want.cont[o.name]
        /\ Len(files[s].data) \in Nat
    BY <1>3, <2>1, FileIs
  <2>5. c = files[s].data BY <2>1, <2>4 DEF IsFile
  <2>6. SeekBase([ofs |-> o.ofs, data |-> c], whence) = SeekBase(files[s], whence)
    BY <2>4, <2>5 DEF SeekBase
  <2>7. np = SeekBase(files[s], whence) + off BY <2>6
  <2>8. np \in Int
    <3>1. SeekBase(files[s], whence) \in Int BY <2>4 DEF SeekBase
    <3> QED BY <2>7, <3>1
  <2> HIDE DEF np, c, o, s
  <2>9. RamOK(r.fs) /\ r.fs = IF np < 0 THEN files ELSE [files EXCEPT ![s].ofs = np]
    <3> DEFINE q == SeekBase(files[s], whence) + off
    <3>1. RamOK(r.fs) BY <1>1, RamSeekIs
    <3>2. r.fs = IF q < 0 THEN files ELSE [files EXCEPT ![s].ofs = q] BY DEF ew_seek, Answer
    <3> QED BY <2>7, <3>1, <3>2
  <2> HIDE DEF r
  <2>10. CASE np < 0
    <3>1. UNCHANGED <<files, want>> BY <2>2, <2>9, <2>10
    <3> QED BY <1>2, <3>1, DataKeep
  <2>11. CASE ~ (np < 0)
    <3>1. np \in Nat BY <2>8, <2>11
    <3>2. files' = [files EXCEPT ![s].ofs = np] /\ RamOK(files') BY <2>2, <2>9, <2>11
    <3>3. files'[s].used /\ files'[s].name = files[s].name /\ files'[s].data = files[s].data
          /\ files'[s].ofs = np /\ \A t \in Slots : t # s => files'[t] = files[t]
      <4> DEFINE g == [files EXCEPT ![s].ofs = np]
      <4>1. g[s].used = files[s].used /\ g[s].name = files[s].name /\ g[s].data = files[s].data
            /\ g[s].ofs = np
        BY <1>1, <2>4, <3>1 DEF RamOK, FileRec
      <4>3. \A t \in Slots : t # s => g[t] = files[t] BY <1>1 DEF RamOK
      <4>2. files' = g BY <3>2
      <4> HIDE DEF g
      <4> QED BY <2>4, <4>1, <4>2, <4>3
    <3>4. want'.cont = want.cont /\ want'.open = [want.open EXCEPT ![fd].ofs = np]
      BY <1>1, <2>2, <2>11, WantMoved
    <3> DEFINE d == files[s].data
               nm == want.open[fd].name
    <3>5. files'[s].data = d /\ np <= Len(d) /\ want'.cont[nm] = d BY <2>3, <2>4, <2>5, <3>3, <3>4 DEF o
    <3>6. RamOK(files') /\ DOMAIN want'.cont = DOMAIN want.cont
          /\ \A m \in DOMAIN want.cont : m # nm => want'.cont[m] = want.cont[m]
      BY <3>2, <3>4
    <3>7. want'.open = [want.open EXCEPT ![fd].ofs = np] BY <3>4
    <3> DEFINE g == files'
               x == want'
    <3> HIDE DEF d, g, x
    <3>8. Exact(fds, g, x)
      BY <1>3, <2>1, <3>1, <3>3, <3>5, <3>6, <3>7, ExactChanged DEF s, nm, g, x
    <3> QED BY <1>2, <3>8, IdleData DEF g, x
  <2> QED BY <2>10, <2>11
<1> QED BY <1>4, <1>5

\* What a call under way has done, field by field.
LEMMA SinceIs ==
  ASSUME NEW c, NEW f, NEW w, NEW fs, NEW gs, NEW i, NEW n \in Nat, NEW op, NEW k, NEW done,
         c.fd = i, c.op = op, c.total = n, Before(c.v, c.k) = done,
         i \in DOMAIN w.open, w.open[i].kind = k, op = "read" => k = "file",
         op = "write" => k # "dir" /\ i # 0 /\ done \in Seq(Bytes) /\ n = Len(done),
         k = "file" => Did(fs, gs, f[i].pf, w.open[i].ofs, n, op, done),
         k # "file" => gs = fs
  PROVE  Since(c, f, w, fs, gs)
  BY DEF Since

\* A read or write begins: the state it starts from agrees.
LEMMA BeginData ==
  ASSUME Proper, TypeInv, DataInv,
         NEW op \in {"read", "write"}, NEW fd \in GuestFds, NEW v \in Bufs, BeginIov(op, fd, v)
  PROVE  DataInv'
<1>1. FdsOK /\ RamOK(files) /\ fd \in Nat BY WasiBounds DEF TypeInv
<1>2. call = Idle /\ phase = "guest" /\ bound /\ Exact(fds, files, want) BY IdleIs DEF BeginIov
<1>3. UNCHANGED <<fds, files, phase, want>> BY DEF BeginIov
<1>4. CASE UNCHANGED call BY <1>2, <1>3, <1>4, DataKeep
<1>5. CASE ~ UNCHANGED call
  <2>1. fd_get(fd) /\ call' = [op |-> op, fd |-> fd, v |-> v, k |-> 1, rc |-> "ok", total |-> 0,
                               got |-> <<>>, short |-> FALSE]
    BY <1>5 DEF BeginIov
  <2>2. call'.op = op /\ call'.fd = fd /\ call'.v = v /\ call'.k = 1 /\ call'.total = 0 BY <2>1
  <2>3. fd \in DOMAIN want.open BY <1>1, <1>2, <2>1, GetIs
  <2>4. fd # 0 /\ (op = "read" => want.open[fd].kind = "file") /\ want.open[fd].kind # "dir"
    BY <2>1, <2>3 DEF BeginIov, Usable, Is, Proper
  <2> DEFINE e == <<>>
  <2>5. Before(v, 1) = e BY BeforeFirst
  <2>6. e \in Seq(Bytes) /\ Len(e) = 0 BY EmptySeq
  <2>7. ASSUME want.open[fd].kind = "file"
        PROVE  Did(files, files, fds[fd].pf, want.open[fd].ofs, 0, op, e)
    <3> DEFINE s == fds[fd].pf
               o == want.open[fd]
    <3>1. IsFile(want, fd) BY <2>3, <2>7 DEF IsFile
    <3>2. /\ files[s].used /\ files[s].ofs = o.ofs /\ o.ofs \in Nat /\ o.ofs <= Len(files[s].data)
          /\ files[s].data \in Seq(Bytes) /\ Len(files[s].data) \in Nat
      BY <1>2, <3>1, FileIs
    <3> HIDE DEF s, o
    <3>3. o.ofs \in 0 .. Len(files[s].data) BY <3>2
    <3>4. Written(files[s].data, o.ofs, e) = files[s].data BY <3>2, <3>3, WrittenNone DEF e
    <3>5. o.ofs + 0 = o.ofs BY <3>2
    <3>6. Did(files, files, s, o.ofs, 0, op, e) BY <3>2, <3>4, <3>5 DEF Did
    <3> QED BY <3>6 DEF s, o
  <2> HIDE DEF e
  <2> DEFINE i == fd
             n == 0
             k == want.open[fd].kind
             c == call'
  <2>8. Since(call', fds, want, files, files)
    <3>1. Before(call'.v, call'.k) = e BY <2>2, <2>5
    <3>2. n \in Nat /\ n = Len(e) BY <2>6
    <3>3. k = "file" => Did(files, files, fds[i].pf, want.open[i].ofs, n, op, e) BY <2>7
    <3>4. c.fd = i /\ c.op = op /\ c.total = n /\ Before(c.v, c.k) = e /\ want.open[i].kind = k BY <2>2, <3>1
    <3> HIDE DEF n, k, c
    <3>5. Since(c, fds, want, files, files) BY <2>3, <2>4, <2>6, <3>2, <3>3, <3>4, SinceIs DEF k
    <3> QED BY <3>5 DEF c
  <2>9. InIo' /\ phase' = "guest" BY <1>2, <1>3, <2>2 DEF InIo
  <2>10. Exact(fds', files, want') /\ Since(call', fds', want', files, files') BY <1>2, <1>3, <2>8
  <2> QED BY <2>9, <2>10 DEF DataInv
<1> QED BY <1>4, <1>5

\* A table that differs only in what the framebuffer holds.
LEMMA ExactFb ==
  ASSUME NEW f, NEW fs, NEW w, NEW g, Exact(f, fs, w), DOMAIN g = DOMAIN f,
         \A j \in DOMAIN f : g[j].used = f[j].used /\ g[j].fb = f[j].fb /\ g[j].pf = f[j].pf
  PROVE  Exact(g, fs, w)
<1>1. Opens(f, w) BY DEF Exact
<1>2. \A j \in DOMAIN w.open : j \in DOMAIN f BY <1>1 DEF Opens
<1>3. Opens(g, w) BY <1>1, <1>2 DEF Opens
<1>4. \A j : IsFile(w, j) => g[j].pf = f[j].pf BY <1>2 DEF IsFile
<1> QED BY <1>3, <1>4 DEF Exact

\* What a call under way writes to or reads from.
LEMMA IoIs ==
  ASSUME TypeInv, DataInv, InIo
  PROVE  /\ IoCall(call) /\ call.fd \in Nat /\ call.k \in Nat \ {0}
         /\ call.v \in Seq(Seq(Nat) \cup {Bad}) /\ Len(call.v) \in Nat
         /\ More => call.k \in 1 .. Len(call.v)
         /\ More /\ call.v[call.k] # Bad => call.v[call.k] \in Seq(Bytes) /\ Len(call.v[call.k]) \in Nat
<1>1. IoCall(call) BY CallIs DEF InIo, TypeInv
<1>2. call.v \in Bufs /\ call.v \in Seq(Seq(Nat) \cup {Bad}) /\ call.fd \in Nat /\ call.k \in Nat \ {0}
  BY <1>1, WasiBounds DEF IoCall
<1>3. Len(call.v) \in Nat /\ DOMAIN call.v = 1 .. Len(call.v) BY <1>2, LenProperties
<1>4. More => call.k \in 1 .. Len(call.v) BY <1>2, <1>3 DEF More
<1>5. More /\ call.v[call.k] # Bad => call.v[call.k] \in Seq(Bytes) BY <1>2, <1>3, <1>4, IovBytes
<1>6. More /\ call.v[call.k] # Bad => Len(call.v[call.k]) \in Nat BY <1>5, LenProperties
<1> QED BY <1>1, <1>2, <1>3, <1>4, <1>5, <1>6

\* A loop that breaks off has done nothing more.
LEMMA BreakData ==
  ASSUME TypeInv, DataInv, InIo, NEW rc, Break(rc), UNCHANGED <<fds, files, want, phase>>
  PROVE  DataInv'
<1>1. PICK fs : Exact(fds, fs, want) /\ Since(call, fds, want, fs, files) BY DEF DataInv
<1>2. call'.op = call.op /\ call'.fd = call.fd /\ call'.v = call.v /\ call'.k = call.k
      /\ call'.total = call.total
  BY IoIs, BreakIs DEF SameCall
<1>3. Since(call', fds, want, fs, files) BY <1>1, <1>2 DEF Since
<1>4. InIo' /\ phase' = "guest" BY <1>2 DEF InIo, DataInv, Idle
<1> QED BY <1>1, <1>3, <1>4 DEF DataInv

\* A write behind the bytes done is a write of all of them.
LEMMA DidMore ==
  ASSUME NEW fs, NEW gs, NEW hs, NEW s \in Slots, NEW at \in Nat, NEW n \in Nat, NEW m \in Nat,
         NEW done \in Seq(Bytes), NEW b \in Seq(Bytes), NEW c, n = Len(done), m = Len(b), c = done \o b,
         fs[s].data \in Seq(Bytes), at <= Len(fs[s].data),
         Did(fs, gs, s, at, n, "write", done),
         \A t \in Slots : t # s => hs[t] = gs[t],
         hs[s].used, hs[s].name = gs[s].name, hs[s].ofs = at + n + m,
         hs[s].data = Written(gs[s].data, at + n, b)
  PROVE  c \in Seq(Bytes) /\ n + m = Len(c) /\ Did(fs, hs, s, at, n + m, "write", c)
<1> DEFINE d == fs[s].data
<1>1. Len(d) \in Nat BY LenProperties
<1>2. at \in 0 .. Len(d) BY <1>1
<1>3. c \in Seq(Bytes) /\ Len(c) = n + m BY ConcatProperties
<1>4. gs[s].data = Written(d, at, done) BY DEF Did
<1> HIDE DEF d
<1>5. Written(Written(d, at, done), at + Len(done), b) = Written(d, at, c) BY <1>2, WrittenTwice DEF d
<1>6. hs[s].data = Written(d, at, c) BY <1>4, <1>5
<1>7. at + Len(c) \in 0 .. Len(Written(d, at, c)) BY <1>2, <1>3, WrittenTwice DEF d
<1>8. hs[s].ofs = at + (n + m) /\ hs[s].ofs <= Len(hs[s].data)
  <2>1. at + n + m = at + (n + m) /\ at + (n + m) \in Nat OBVIOUS
  <2>2. Len(Written(d, at, c)) \in Nat BY <1>2, <1>3, WrittenIs, LenProperties DEF d
  <2> QED BY <1>3, <1>6, <1>7, <2>1, <2>2
<1>9. \A t \in Slots : t # s => hs[t] = fs[t] BY DEF Did
<1>10. hs[s].name = fs[s].name BY DEF Did
<1> QED BY <1>3, <1>6, <1>8, <1>9, <1>10 DEF Did, d

\* One iovec of fd_write: the file is ahead by it.
LEMMA WriteData == ASSUME Proper, TypeInv, DataInv, WriteIov PROVE DataInv'
<1> DEFINE b == call.v[call.k]
           i == call.fd
           s == fds[i].pf
           o == want.open[i]
           r == ew_write(files, s, b)
           done == Before(call.v, call.k)
           c == Before(call.v, call.k + 1)
           n == call.total
           m == Len(b)
<1>1. FdsOK /\ RamOK(files) /\ InIo /\ More BY DEF TypeInv, WriteIov, InIo
<1>2. UNCHANGED <<want, phase>> /\ call.op = "write" BY DEF WriteIov
<1>3. IoCall(call) /\ i \in Nat /\ call.k \in 1 .. Len(call.v) /\ call.v \in Seq(Seq(Nat) \cup {Bad})
      /\ (b # Bad => b \in Seq(Bytes) /\ m \in Nat)
  BY <1>1, IoIs
<1>4. PICK fs : Exact(fds, fs, want) /\ Since(call, fds, want, fs, files) BY <1>1 DEF DataInv
<1>5. /\ i \in DOMAIN want.open /\ n \in Nat /\ o.kind # "dir" /\ i # 0 /\ done \in Seq(Bytes)
      /\ n = Len(done)
      /\ IF o.kind = "file" THEN Did(fs, files, s, o.ofs, n, "write", done) ELSE files = fs
  BY <1>2, <1>4 DEF Since
<1>6. /\ o.kind \in {"std", "dir", "fb", "file"} /\ (o.kind = "std" <=> i < 3)
      /\ (o.kind = "fb" <=> fds[i].fb) /\ i \in DOMAIN fds
  BY <1>4, <1>5 DEF Exact, Opens
<1>7. i \notin {1, 2} => ~ (i < 3) BY <1>3, <1>5
<1>8. b # Bad => c = done \o b
  <2>1. b # Bad => b \in Seq(Bytes) BY <1>3
  <2> QED BY <1>3, <2>1, BeforeNext
<1>9. phase = "guest" BY <1>1 DEF DataInv, InIo, Idle
<1> HIDE DEF b, i, s, o, done, c, n, m
\* what an iovec that is written makes of the call
<1>10. ASSUME Advance(m), b # Bad, NEW g, NEW hs, fds' = g, files' = hs, Exact(g, fs, want), g[i].pf = s,
              o.kind # "file" => hs = fs,
              o.kind = "file" => Did(fs, hs, s, o.ofs, n + m, "write", c)
       PROVE  DataInv'
  <2>1. call'.op = "write" /\ call'.fd = i /\ call'.v = call.v /\ call'.k = call.k + 1
        /\ call'.total = n + m
    BY <1>2, <1>3, <1>10, AdvanceIs DEF SameCall, n, i
  <2>2. Before(call'.v, call'.k) = c BY <2>1 DEF c
  <2>3. c \in Seq(Bytes) /\ n + m = Len(c) /\ n + m \in Nat
    <3>1. b \in Seq(Bytes) /\ m = Len(b) /\ m \in Nat BY <1>3, <1>10 DEF m
    <3>2. done \o b \in Seq(Bytes) /\ Len(done \o b) = Len(done) + Len(b) BY <1>5, <3>1, ConcatProperties
    <3>3. c = done \o b BY <1>8, <1>10
    <3>4. c \in Seq(Bytes) /\ Len(c) = Len(done) + Len(b) BY <3>2, <3>3
    <3>5. n + m = Len(c) BY <1>5, <3>1, <3>4
    <3>6. n + m \in Nat BY <1>5, <3>1
    <3> QED BY <3>4, <3>5, <3>6
  <2> DEFINE d == call'
             k == o.kind
             op == "write"
             q == n + m
  <2>4. /\ d.fd = i /\ d.op = op /\ d.total = q /\ Before(d.v, d.k) = c /\ want.open[i].kind = k
        /\ op # "read" /\ k # "dir" /\ i # 0 /\ q = Len(c) /\ q \in Nat
        /\ (k = "file" => Did(fs, hs, g[i].pf, want.open[i].ofs, q, op, c))
        /\ (k # "file" => hs = fs)
    BY <1>5, <1>10, <2>1, <2>2, <2>3 DEF o
  <2> HIDE DEF d, k, op, q
  <2>5. Since(d, g, want, fs, hs) BY <1>5, <2>3, <2>4, SinceIs
  <2>6. Since(call', fds', want', fs, files') /\ Exact(fds', fs, want') BY <1>2, <1>10, <2>5 DEF d
  <2>7. InIo' /\ phase' = "guest" BY <1>2, <1>9, <2>1 DEF InIo
  <2> QED BY <2>6, <2>7 DEF DataInv
<1>11. CASE b = Bad
  <2>1. Break("inval") /\ UNCHANGED <<fds, files>> BY <1>11 DEF WriteIov, b
  <2> QED BY <1>1, <1>2, <2>1, BreakData
<1>12. CASE b # Bad /\ i \in {1, 2}
  <2>1. Advance(m) /\ UNCHANGED <<fds, files>> BY <1>12 DEF WriteIov, b, i, m
  <2>2. o.kind = "std" BY <1>6, <1>12
  <2>3. files = fs BY <1>5, <2>2
  <2> QED BY <1>4, <1>10, <1>12, <2>1, <2>2, <2>3 DEF s
<1>13. CASE b # Bad /\ i \notin {1, 2} /\ fds[i].fb
  <2>1. \/ Break("full") /\ UNCHANGED fds
        \/ Advance(m) /\ fds' = [fds EXCEPT ![i].fb_len = @ + m]
    BY <1>13 DEF WriteIov, b, i, m
  <2>2. UNCHANGED files BY <1>13 DEF WriteIov, b, i
  <2>3. CASE Break("full") /\ UNCHANGED fds BY <1>1, <1>2, <2>2, <2>3, BreakData
  <2>4. CASE Advance(m) /\ fds' = [fds EXCEPT ![i].fb_len = @ + m]
    <3> DEFINE g == fds'
    <3>1. o.kind = "fb" BY <1>6, <1>13
    <3>2. files = fs BY <1>5, <3>1
    <3>3. DOMAIN g = DOMAIN fds
          /\ \A j \in DOMAIN fds : g[j].used = fds[j].used /\ g[j].fb = fds[j].fb /\ g[j].pf = fds[j].pf
      <4>1. DOMAIN g = DOMAIN fds /\ \A j \in DOMAIN fds : j # i => g[j] = fds[j] BY <2>4
      <4>2. fds[i] \in FdRec BY <1>1, <1>6 DEF FdsOK
      <4>3. g[i] = [fds[i] EXCEPT !.fb_len = @ + m] BY <1>6, <2>4
      <4>4. g[i].used = fds[i].used /\ g[i].fb = fds[i].fb /\ g[i].pf = fds[i].pf
        BY <4>2, <4>3 DEF FdRec
      <4> QED BY <4>1, <4>4
    <3> HIDE DEF g
    <3>4. Exact(g, fs, want) BY <1>4, <3>3, ExactFb
    <3>5. fds' = g /\ g[i].pf = s BY <1>6, <3>3 DEF s, g
    <3> QED BY <1>10, <1>13, <2>2, <2>4, <3>1, <3>2, <3>4, <3>5
  <2> QED BY <2>1, <2>3, <2>4
<1>14. CASE b # Bad /\ i \notin {1, 2} /\ ~fds[i].fb
  <2>1. (IF r.rc = "ok" THEN Advance(r.out) ELSE Break(r.rc)) /\ files' = r.fs /\ UNCHANGED fds
    BY <1>14 DEF WriteIov, b, i, s
  <2>2. o.kind = "file" BY <1>5, <1>6, <1>7, <1>14
  <2>3. Did(fs, files, s, o.ofs, n, "write", done) BY <1>5, <2>2
  <2>4. IsFile(want, i) BY <1>5, <2>2 DEF IsFile, o
  <2>5. /\ s \in Slots /\ o.ofs \in Nat /\ o.ofs <= Len(fs[s].data) /\ fs[s].data \in Seq(Bytes)
    BY <1>4, <2>4, FileIs DEF s, o
  <2>6. files[s].used /\ files[s].ofs = o.ofs + n /\ files[s].ofs <= Len(files[s].data) BY <2>3 DEF Did
  <2>7. b \in Seq(Bytes) /\ m \in Nat /\ m = Len(b) BY <1>3, <1>14 DEF m
  <2>8. Place(files[s]) = o.ofs + n BY <1>1, <2>5, <2>6, PlaceIs
  <2>9. /\ r.rc # "ok" => r.fs = files
        /\ r.rc = "ok" => /\ r.out = Len(b)
                          /\ r.fs[s].used /\ r.fs[s].name = files[s].name
                          /\ r.fs[s].data = Written(files[s].data, Place(files[s]), b)
                          /\ r.fs[s].ofs = Place(files[s]) + Len(b)
                          /\ \A t \in Slots : t # s => r.fs[t] = files[t]
    BY <1>1, <2>5, <2>6, <2>7, RamWriteIs
  <2> HIDE DEF r
  <2>10. CASE r.rc # "ok"
    <3>1. Break(r.rc) /\ UNCHANGED <<fds, files>> BY <2>1, <2>9, <2>10
    <3> QED BY <1>1, <1>2, <3>1, BreakData
  <2>11. CASE r.rc = "ok"
    <3> DEFINE hs == r.fs
               at == o.ofs
    <3>1. Advance(m) /\ files' = hs BY <2>1, <2>7, <2>9, <2>11
    <3>2. hs[s].used /\ hs[s].name = files[s].name /\ hs[s].ofs = at + n + m
          /\ hs[s].data = Written(files[s].data, at + n, b)
          /\ \A t \in Slots : t # s => hs[t] = files[t]
      BY <2>7, <2>8, <2>9, <2>11
    <3>3. c = done \o b BY <1>8, <1>14
    <3> HIDE DEF hs
    <3>4. Did(fs, hs, s, at, n + m, "write", c)
      <4>1. at \in Nat /\ at <= Len(fs[s].data) /\ Did(fs, files, s, at, n, "write", done) BY <2>3, <2>5
      <4> HIDE DEF at
      <4> QED BY <1>5, <2>5, <2>7, <3>2, <3>3, <4>1, DidMore, ZenonT(30)
    <3> QED BY <1>4, <1>10, <1>14, <2>1, <2>2, <3>1, <3>4 DEF s
  <2> QED BY <2>10, <2>11
<1> QED BY <1>11, <1>12, <1>13, <1>14

\* One iovec of fd_read: the offset is ahead by it.
LEMMA ReadData == ASSUME Proper, TypeInv, DataInv, ReadIov PROVE DataInv'
<1> DEFINE b == call.v[call.k]
           i == call.fd
           s == fds[i].pf
           o == want.open[i]
           r == ew_read(files, s, Len(b))
           n == call.total
<1>1. FdsOK /\ RamOK(files) /\ InIo /\ More BY DEF TypeInv, ReadIov, InIo
<1>2. UNCHANGED <<fds, want, phase>> /\ call.op = "read" BY DEF ReadIov
<1>3. IoCall(call) /\ (b # Bad => Len(b) \in Nat) BY <1>1, IoIs
<1>4. PICK fs : Exact(fds, fs, want) /\ Since(call, fds, want, fs, files) BY <1>1 DEF DataInv
<1>5. i \in DOMAIN want.open /\ n \in Nat /\ o.kind = "file"
      /\ Did(fs, files, s, o.ofs, n, "read", Before(call.v, call.k))
  BY <1>2, <1>4 DEF Since
<1>6. phase = "guest" BY <1>1 DEF DataInv, InIo, Idle
<1>7. CASE b = Bad
  <2>1. Break("inval") /\ UNCHANGED files BY <1>7 DEF ReadIov
  <2> QED BY <1>1, <1>2, <2>1, BreakData
<1>8. CASE b # Bad
  <2> DEFINE at == Place(files[s])
             m == Least(Len(files[s].data) - at, Len(b))
             out == r.out
             short == Len(out) < Len(b)
  <2>1. IsFile(want, i) BY <1>5 DEF IsFile
  <2>2. s \in Slots /\ o.ofs \in Nat BY <1>4, <2>1, FileIs
  <2>3. files[s].used /\ files[s].ofs = o.ofs + n /\ files[s].ofs <= Len(files[s].data)
        /\ files[s].name = fs[s].name /\ files[s].data = fs[s].data
        /\ \A t \in Slots : t # s => files[t] = fs[t]
    BY <1>5 DEF Did
  <2> HIDE DEF b, i, s, o, n
  <2>4. at = o.ofs + n /\ files[s].data \in Seq(Bytes) /\ Len(files[s].data) \in Nat BY <1>1, <2>2, <2>3, PlaceIs
  <2>5. at \in Nat /\ m \in Nat /\ at + m <= Len(files[s].data)
    BY <1>3, <1>5, <1>8, <2>2, <2>3, <2>4 DEF Least
  <2>6. r.rc = "ok" /\ out = SubSeq(files[s].data, at + 1, at + m) /\ r.fs = [files EXCEPT ![s].ofs = at + m]
    BY <2>3 DEF ew_read, Answer
  <2> HIDE DEF at, m
  <2>7. Len(out) = m
    <3> DEFINE d == files[s].data
    <3>1. d \in Seq(Bytes) /\ at + 1 \in 1 .. Len(d) + 1 /\ at + m \in at .. Len(d) BY <2>4, <2>5
    <3> HIDE DEF d
    <3>2. \A x \in at + 1 .. at + m : d[x] \in Bytes
      BY <2>5, <3>1, ElementOfSeq, LenProperties
    <3> DEFINE lo == at + 1
               hi == at + m
    <3>3. lo \in Int /\ hi \in Int /\ \A x \in lo .. hi : d[x] \in Bytes BY <2>5, <3>2
    <3>5. (IF lo <= hi THEN hi - lo + 1 ELSE 0) = m BY <2>5
    <3>6. out = SubSeq(d, lo, hi) BY <2>6 DEF d
    <3> HIDE DEF lo, hi
    <3>4. Len(SubSeq(d, lo, hi)) = IF lo <= hi THEN hi - lo + 1 ELSE 0 BY <3>3, SubSeqProperties
    <3> QED BY <3>4, <3>5, <3>6
  <2>8. files' = r.fs /\ call' = [call EXCEPT !.k = @ + 1, !.total = @ + Len(out), !.got = @ \o out,
                                            !.short = short]
    BY <1>8, <2>6 DEF ReadIov, b, i, s
  <2> HIDE DEF short, out, r
  <2>9. call'.op = "read" /\ call'.fd = i /\ call'.total = n + m
    BY <1>2, <1>3, <2>7, <2>8, ReadStepIs DEF SameCall, i, n
  <2> DEFINE c == call'
             hs == [files EXCEPT ![s].ofs = at + m]
             q == n + m
             k == o.kind
             op == "read"
             done == Before(c.v, c.k)
  <2>10. q \in Nat /\ at + m \in Nat /\ at + m = o.ofs + q BY <1>5, <2>2, <2>4, <2>5
  <2>11. /\ hs[s].used = files[s].used /\ hs[s].name = files[s].name
         /\ hs[s].data = files[s].data /\ hs[s].ofs = at + m
         /\ \A t \in Slots : t # s => hs[t] = files[t]
    <3>1. hs[s].used = files[s].used /\ hs[s].name = files[s].name /\ hs[s].data = files[s].data
          /\ hs[s].ofs = at + m
      BY <1>1, <2>2, <2>10 DEF RamOK, FileRec
    <3>2. \A t \in Slots : t # s => hs[t] = files[t] BY <1>1 DEF RamOK
    <3> QED BY <3>1, <3>2
  <2>12. files' = hs BY <2>6, <2>8
  <2> HIDE DEF hs, done, c
  <2>13. Did(fs, hs, s, o.ofs, q, "read", done) BY <2>3, <2>5, <2>10, <2>11 DEF Did
  <2>14. c.fd = i /\ c.op = op /\ c.total = q /\ Before(c.v, c.k) = done /\ want.open[i].kind = k
         /\ op # "write" /\ k = "file" /\ Did(fs, hs, fds[i].pf, want.open[i].ofs, q, op, done)
    BY <1>5, <2>9, <2>13 DEF c, done, o, s
  <2> HIDE DEF q, k, op
  <2>15. Since(c, fds, want, fs, hs) BY <1>5, <2>10, <2>14, SinceIs
  <2>16. Since(call', fds', want', fs, files') /\ Exact(fds', fs, want') BY <1>2, <1>4, <2>12, <2>15 DEF c
  <2>17. InIo' /\ phase' = "guest" BY <1>2, <1>6, <2>9 DEF InIo
  <2> QED BY <2>16, <2>17 DEF DataInv
<1> QED BY <1>7, <1>8

\* The end of a call that has moved the offset of a descriptor of no file.
LEMMA ExactMovedFb ==
  ASSUME NEW f, NEW fs, NEW w, NEW x, NEW i, NEW n, Exact(f, fs, w), i \in DOMAIN w.open, ~IsFile(w, i),
         x.cont = w.cont, x.open = [w.open EXCEPT ![i].ofs = n]
  PROVE  Exact(f, fs, x)
<1>1. Opens(f, w) /\ Holds(fs, w) BY DEF Exact
<1>2. DOMAIN x.open = DOMAIN w.open /\ \A j \in DOMAIN w.open : j # i => x.open[j] = w.open[j] OBVIOUS
<1>3. DOMAIN w.open[i] = {"kind", "name", "ofs"} BY <1>1 DEF Opens
<1>4. x.open[i] = [w.open[i] EXCEPT !.ofs = n] OBVIOUS
<1>5. DOMAIN x.open[i] = {"kind", "name", "ofs"} /\ x.open[i].kind = w.open[i].kind BY <1>3, <1>4
<1>6. Opens(f, x) BY <1>1, <1>2, <1>3, <1>5 DEF Opens
<1>7. Holds(fs, x) BY <1>1 DEF Holds
<1>8. \A j : IsFile(x, j) => j # i /\ IsFile(w, j) /\ x.open[j] = w.open[j] BY <1>2, <1>5 DEF IsFile
<1> QED BY <1>6, <1>7, <1>8 DEF Exact

\* The answer: what was transferred is what `want' now gets.
LEMMA EndData == ASSUME Proper, TypeInv, DataInv, EndWrite \/ EndRead PROVE DataInv'
<1> DEFINE i == call.fd
           s == fds[i].pf
           o == want.open[i]
           n == call.total
           done == Before(call.v, call.k)
<1>1. WantOK /\ RamOK(files) /\ InIo BY DEF TypeInv, EndWrite, EndRead, InIo
<1>2. call' = Idle /\ UNCHANGED <<fds, files, phase>> BY DEF EndWrite, EndRead
<1>3. PICK fs : Exact(fds, fs, want) /\ Since(call, fds, want, fs, files) BY <1>1 DEF DataInv
<1>4. i \in DOMAIN want.open /\ n \in Nat
      /\ IF o.kind = "file" THEN Did(fs, files, s, o.ofs, n, call.op, done) ELSE files = fs
  BY <1>3 DEF Since
<1>5. ASSUME Exact(fds', files', want') PROVE DataInv' BY <1>2, <1>5 DEF DataInv, InIo, Idle
<1>6. o.kind = "file" => IsFile(want, i) /\ o.name \in DOMAIN want.cont /\ o.ofs \in Nat
                         /\ o.ofs <= Len(want.cont[o.name])
  <2>1. o.kind = "file" => IsFile(want, i) BY <1>4 DEF IsFile
  <2> QED BY <1>3, <2>1, FileIs
<1> DEFINE q == o.ofs + n
<1>7. CASE EndWrite
  <2>1. call.op = "write" BY <1>7 DEF EndWrite
  <2>2. done \in Seq(Bytes) /\ n = Len(done) /\ o.kind # "dir" BY <1>3, <2>1 DEF Since
  <2>3. SubSeq(done, 1, n) = done BY <2>2, SubSeqFull
  <2>4. o.kind \in {"std", "dir", "fb", "file"} BY <1>3, <1>4 DEF Exact, Opens
  <2>5. CASE o.kind = "std"
    <3>1. UNCHANGED want BY <1>7, <2>5 DEF EndWrite
    <3>2. files = fs BY <1>4, <2>5
    <3> QED BY <1>2, <1>3, <1>5, <3>1, <3>2
  <2>6. CASE o.kind = "fb"
    <3>1. want' = [want EXCEPT !.open[i].ofs = @ + n] BY <1>7, <2>6 DEF EndWrite
    <3>2. want' = [want EXCEPT !.open[i].ofs = q] BY <1>1, <1>4, <3>1 DEF WantOK
    <3> HIDE DEF q
    <3>3. want'.cont = want.cont /\ want'.open = [want.open EXCEPT ![i].ofs = q] BY <1>1, <3>2, WantMoved
    <3>4. ~IsFile(want, i) /\ files = fs BY <1>4, <2>6 DEF IsFile
    <3> DEFINE x == want'
    <3>5. x.cont = want.cont /\ x.open = [want.open EXCEPT ![i].ofs = q] BY <3>3
    <3> HIDE DEF x, i
    <3>6. Exact(fds, fs, x) BY <1>3, <1>4, <3>4, <3>5, ExactMovedFb
    <3> QED BY <1>2, <1>5, <3>4, <3>6 DEF x
  <2>7. CASE o.kind = "file"
    <3> DEFINE c == o.name
               d == Written(want.cont[c], o.ofs, done)
    <3>1. want' = [want EXCEPT !.open[i].ofs = @ + n,
                               !.cont[c] = Written(IF o.ofs > Len(@) THEN Holed(@, o.ofs) ELSE @, o.ofs,
                                                   SubSeq(done, 1, n))]
      BY <1>7, <2>7 DEF EndWrite
    <3>2. ~ (o.ofs > Len(want.cont[c]))
      <4>1. fs[s].data = want.cont[c] /\ Len(fs[s].data) \in Nat BY <1>3, <1>6, <2>7, FileIs
      <4> QED BY <1>6, <2>7, <4>1
    <3>3. want' = [want EXCEPT !.open[i].ofs = q, !.cont[c] = d]
      BY <1>1, <1>4, <1>6, <2>3, <2>7, <3>1, <3>2 DEF WantOK
    <3> HIDE DEF q, d, c
    <3>4. want'.cont = [want.cont EXCEPT ![c] = d] /\ want'.open = [want.open EXCEPT ![i].ofs = q]
      <4>1. want'.cont = [want.cont EXCEPT ![c] = d] BY <1>1, <3>3 DEF WantOK
      <4>2. want'.open = [want.open EXCEPT ![i].ofs = q] BY <1>1, <3>3 DEF WantOK
      <4> QED BY <4>1, <4>2
    <3>5. DOMAIN want'.cont = DOMAIN want.cont /\ want'.cont[c] = d
          /\ \A m \in DOMAIN want.cont : m # c => want'.cont[m] = want.cont[m]
      BY <1>6, <2>7, <3>4 DEF c
    <3>6. want'.open = [want.open EXCEPT ![i].ofs = q] /\ q = want.open[i].ofs + n BY <3>4 DEF q
    <3>7. Did(fs, files, fds[i].pf, want.open[i].ofs, n, "write", done) BY <1>4, <2>1, <2>7
    <3>8. want'.cont[want.open[i].name] = files[s].data
      <4>1. fs[s].data = want.cont[c] BY <1>3, <1>6, <2>7, FileIs DEF c
      <4>2. files[s].data = Written(fs[s].data, o.ofs, done) BY <3>7 DEF Did
      <4> QED BY <3>5, <4>1, <4>2 DEF c, d
    <3> DEFINE x == want'
               z == files[s].data
               nm == o.name
    <3>9. Exact(fds, files, x)
      <4>1. /\ \A t \in Slots : t # s => files[t] = fs[t]
            /\ files[s].used /\ files[s].name = fs[s].name /\ files[s].ofs = o.ofs + n
            /\ files[s].ofs <= Len(z) /\ files[s].data = z
        BY <3>7 DEF Did
      <4>2. DOMAIN x.cont = DOMAIN want.cont /\ x.cont[nm] = z /\ nm = want.open[i].name
            /\ \A m \in DOMAIN want.cont : m # nm => x.cont[m] = want.cont[m]
        BY <3>5, <3>8 DEF c
      <4>3. IsFile(want, i) /\ q \in Nat /\ q = o.ofs + n BY <1>4, <1>6, <2>7 DEF q
      <4>4. x.open = [want.open EXCEPT ![i].ofs = q] BY <3>6
      <4>5. files[s].ofs = q /\ q <= Len(z) BY <4>1, <4>3
      <4>6. Exact(fds, fs, want) /\ RamOK(files) BY <1>1, <1>3
      <4> HIDE DEF x, z, nm, i, n
      <4> QED BY <4>1, <4>2, <4>3, <4>4, <4>5, <4>6, ExactChanged
    <3>10. Exact(fds', files', want') BY <1>2, <3>9
    <3> QED BY <1>5, <3>10
  <2> QED BY <2>2, <2>4, <2>5, <2>6, <2>7
<1>8. CASE EndRead
  <2>1. call.op = "read" BY <1>8 DEF EndRead
  <2>2. o.kind = "file" BY <1>3, <2>1 DEF Since
  <2>3. want' = [want EXCEPT !.open[i].ofs = @ + n] BY <1>8 DEF EndRead
  <2>4. want' = [want EXCEPT !.open[i].ofs = q] BY <1>1, <1>4, <2>3 DEF WantOK
  <2> HIDE DEF q
  <2>5. want'.cont = want.cont /\ want'.open = [want.open EXCEPT ![i].ofs = q] BY <1>1, <2>4, WantMoved
  <2>6. want'.open = [want.open EXCEPT ![i].ofs = q] /\ q = want.open[i].ofs + n BY <2>5 DEF q
  <2>7. Did(fs, files, fds[i].pf, want.open[i].ofs, n, "read", done) BY <1>4, <2>1, <2>2
  <2>8. want'.cont[want.open[i].name] = files[s].data
    <3>1. fs[s].data = want.cont[o.name] BY <1>3, <1>6, <2>2, FileIs
    <3>2. files[s].data = fs[s].data BY <2>7 DEF Did
    <3> QED BY <2>5, <3>1, <3>2
  <2> DEFINE x == want'
             z == files[s].data
             nm == o.name
  <2>9. Exact(fds, files, x)
    <3>1. /\ \A t \in Slots : t # s => files[t] = fs[t]
          /\ files[s].used /\ files[s].name = fs[s].name /\ files[s].ofs = o.ofs + n
          /\ files[s].ofs <= Len(z) /\ files[s].data = z
      BY <2>7 DEF Did
    <3>2. DOMAIN x.cont = DOMAIN want.cont /\ x.cont[nm] = z /\ nm = want.open[i].name
          /\ \A m \in DOMAIN want.cont : m # nm => x.cont[m] = want.cont[m]
      BY <2>5, <2>8
    <3>3. IsFile(want, i) /\ q \in Nat /\ q = o.ofs + n BY <1>4, <1>6, <2>2 DEF q
    <3>4. x.open = [want.open EXCEPT ![i].ofs = q] BY <2>6
    <3>5. files[s].ofs = q /\ q <= Len(z) BY <3>1, <3>3
    <3>6. Exact(fds, fs, want) /\ RamOK(files) BY <1>1, <1>3
    <3> HIDE DEF x, z, nm, i, n
    <3> QED BY <3>1, <3>2, <3>3, <3>4, <3>5, <3>6, ExactChanged
  <2>10. Exact(fds', files', want') BY <1>2, <2>9
  <2> QED BY <1>5, <2>10
<1> QED BY <1>7, <1>8

\* A poll touches neither table.
LEMMA PollData ==
  ASSUME Proper, TypeInv, DataInv, (\E v \in Subs : BeginPoll(v)) \/ PollSub \/ SleepTick \/ EndPoll
  PROVE  DataInv'
<1>1. UNCHANGED <<fds, files, want, phase>> BY DEF BeginPoll, PollSub, SleepTick, EndPoll
<1>2. ~InIo /\ (call # Idle \/ phase = "guest")
  <2>1. ASSUME NEW v \in Subs, BeginPoll(v) PROVE ~InIo /\ phase = "guest"
    BY <2>1, IdleIs DEF BeginPoll
  <2>2. CASE PollSub \/ SleepTick \/ EndPoll BY <2>2 DEF PollSub, SleepTick, EndPoll, InIo, Idle
  <2> QED BY <2>1, <2>2
<1>3. phase = "guest" BY <1>2 DEF DataInv
<1>4. ~InIo'
  <2>1. ASSUME NEW v \in Subs, BeginPoll(v) PROVE call' = call \/ call'.op = "poll"
    BY <2>1 DEF BeginPoll
  <2>2. CASE PollSub \/ SleepTick
    <3>1. PollCall(call) BY <2>2, CallIs DEF PollSub, SleepTick, TypeInv
    <3>2. TypeInv' BY <2>2, PollType
    <3>3. call'.op = "poll"
      <4>1. CASE PollSub
        <5> DEFINE s == call.v[call.k]
                   t == (clock' + s.ns) % Range64
                   a == call.asked + s.ns
                   z == call.slept - clock'
        <5>1. ASSUME NEW e, Break(e) PROVE call'.op = "poll" BY <3>1, <5>1 DEF Break, PollCall
        <5>2. ASSUME NEW e, call' = Event(e) PROVE call'.op = "poll" BY <3>1, <5>2 DEF Event, PollCall
        <5>3. \/ \E e : Break(e) \/ call' = Event(e)
              \/ call' = [call EXCEPT !.target = t, !.asked = a, !.slept = z]
          BY <4>1, PollCases
        <5> HIDE DEF t, a, z
        <5>4. CASE call' = [call EXCEPT !.target = t, !.asked = a, !.slept = z]
          BY <3>1, <5>4, SleepStartIs DEF PollCall
        <5> QED BY <5>1, <5>2, <5>3, <5>4
      <4>2. CASE SleepTick
        <5>1. CASE call' = call BY <3>1, <5>1 DEF PollCall
        <5>2. CASE call' = [Event("ok") EXCEPT !.slept = @ + clock']
          BY <3>1, <5>2 DEF Event, PollCall
        <5> QED BY <4>2, <5>1, <5>2 DEF SleepTick
      <4> QED BY <2>2, <4>1, <4>2
    <3> QED BY <3>3 DEF InIo
  <2>3. CASE EndPoll BY <2>3 DEF EndPoll, InIo, Idle
  <2> QED BY <1>2, <2>1, <2>2, <2>3 DEF InIo
<1> QED BY <1>1, <1>2, <1>3, <1>4 DEF DataInv

\* Nothing is open at first.
LEMMA InitData == Init => DataInv
<1> SUFFICES ASSUME Init PROVE DataInv OBVIOUS
<1>1. RamOK(files) BY InitType DEF TypeInv
<1>2. want.cont = <<>> /\ want.open = <<>> /\ fds = <<>> BY DEF Init
<1>3. DOMAIN <<>> = {} OBVIOUS
<1>4. \A s \in Slots : ~files[s].used BY DEF Init, NoFile
<1>5. Opens(fds, want) BY <1>2, <1>3 DEF Opens
<1>6. Holds(files, want) BY <1>2, <1>3, <1>4 DEF Holds
<1>7. \A i : ~IsFile(want, i) BY <1>2, <1>3 DEF IsFile
<1>8. Exact(fds, files, want) BY <1>1, <1>5, <1>6, <1>7 DEF Exact
<1> QED BY <1>8 DEF DataInv, Init, InIo, Idle

\* Every step keeps the invariant.
LEMMA NextData == ASSUME Proper PROVE TypeInv /\ DataInv /\ [Next]_vars => DataInv'
<1> SUFFICES ASSUME TypeInv, DataInv, [Next]_vars PROVE DataInv' OBVIOUS
<1>1. CASE (\E i \in 0 .. 2 : InitStd(i)) \/ HostAdds \/ Instantiate \/ ea_wasi_bind \/ Exit
  BY <1>1, HostData
<1>2. CASE \E fd \in GuestFds, p \in Paths, flags \in Flags : PathOpen(fd, p, flags)
  BY <1>2, OpenData
<1>3. CASE \E fd \in GuestFds : FdClose(fd) BY <1>3, CloseData
<1>4. CASE \E fd \in GuestFds : FdTell(fd) \/ \E off \in Offs, whence \in Whences : FdSeek(fd, off, whence)
  <2>1. \E fd \in GuestFds, off \in Int, whence \in {"set", "cur", "end"} : FdSeek(fd, off, whence)
    BY <1>4, TellsAndSeeks
  <2> QED BY <2>1, SeekData
<1>5. CASE \E fd \in GuestFds : FdFilestat(fd) \/ FdPrestatGet(fd) \/ FdPrestatDirName(fd) \/ FdSync(fd)
  <2>1. UNCHANGED <<fds, files, want, call, phase>>
    BY <1>5 DEF FdFilestat, FdPrestatGet, FdPrestatDirName, Prestat, FdSync, Returns
  <2> QED BY <2>1, DataKeep
<1>6. CASE \E fd \in GuestFds, op \in {"read", "write"}, v \in Bufs : BeginIov(op, fd, v)
  BY <1>6, BeginData
<1>7. CASE (\E ptr, buf \in Ptrs : ArgsGet(ptr, buf)) \/ ClockTimeGet
  <2>1. UNCHANGED <<fds, files, want, call, phase>> BY <1>7 DEF ArgsGet, ClockTimeGet, Returns
  <2> QED BY <2>1, DataKeep
<1>8. CASE (\E v \in Subs : BeginPoll(v)) \/ PollSub \/ SleepTick \/ EndPoll BY <1>8, PollData
<1>9. CASE WriteIov \/ ReadIov \/ EndWrite \/ EndRead BY <1>9, WriteData, ReadData, EndData
<1>10. CASE UNCHANGED vars BY <1>10, DataKeep DEF vars
<1> QED BY <1>1, <1>2, <1>3, <1>4, <1>5, <1>6, <1>7, <1>8, <1>9, <1>10 DEF Next, Loop

\* Between calls the invariant says what the two properties say.
LEMMA DataInvExact == DataInv => DescriptorsExact /\ ContentExact
<1> SUFFICES ASSUME DataInv, Settled PROVE DescriptorsExact /\ ContentExact
  BY DEF DescriptorsExact, ContentExact
<1>1. Exact(fds, files, want) BY DEF DataInv, InIo, Settled, Idle
<1>2. Opens(fds, want) /\ Holds(files, want) BY <1>1 DEF Exact
<1>3. {i \in DOMAIN fds : fds[i].used} = DOMAIN want.open BY <1>2 DEF Opens
<1>4. ASSUME NEW i \in DOMAIN want.open, want.open[i].kind = "file"
      PROVE  /\ fds[i].pf \in Slots
             /\ files[fds[i].pf].used /\ files[fds[i].pf].name = want.open[i].name
             /\ files[fds[i].pf].ofs = want.open[i].ofs
  <2>1. IsFile(want, i) BY <1>4 DEF IsFile
  <2> QED BY <1>1, <2>1, FileIs
<1>5. DescriptorsExact BY <1>3, <1>4 DEF DescriptorsExact
<1>6. {files[s].name : s \in {r \in Slots : files[r].used}} = DOMAIN want.cont BY <1>2 DEF Holds
<1>7. ContentExact BY <1>2, <1>6 DEF ContentExact, Holds
<1> QED BY <1>5, <1>7

\* For a guest that opens no file twice at once, seeks no further than the end
\* and reads files only, the descriptor table holds exactly the descriptors
\* the guest was given and has not closed, each on its own file at its own
\* offset, whatever the order of opens, closes, reads, writes and seeks
\* (fd_alloc_any, sys_path_open, sys_fd_close, wasi.c).
THEOREM DescriptorsStayExact == ASSUME Proper PROVE Spec => []DescriptorsExact
<1>1. Init => TypeInv /\ DataInv BY InitType, InitData
<1>2. TypeInv /\ DataInv /\ [Next]_vars => TypeInv' /\ DataInv' BY NextType, NextData
<1>3. DataInv => DescriptorsExact BY DataInvExact
<1> QED BY <1>1, <1>2, <1>3, PTL DEF Spec

\* For the same guests, every file holds exactly the bytes the writes reported
\* as written, at the offsets of the descriptors they went through, however
\* the calls were cut into iovecs and wherever one of them failed (ew_write,
\* wasi_ewok.c; sys_fd_write, wasi.c).
THEOREM ContentStaysExact == ASSUME Proper PROVE Spec => []ContentExact
<1>1. Init => TypeInv /\ DataInv BY InitType, InitData
<1>2. TypeInv /\ DataInv /\ [Next]_vars => TypeInv' /\ DataInv' BY NextType, NextData
<1>3. DataInv => ContentExact BY DataInvExact
<1> QED BY <1>1, <1>2, <1>3, PTL DEF Spec

----------------------------------------------------------------------------
(* What each call answers, for guests that also open no file exclusively   *)
(* and expect no clock subscription to be served.                          *)

\* Neither EXCL, which the code ignores, nor a directory to be created where
\* none is named, nor a use the code is known to answer differently; paths have
\* a ".." exactly if WASI refuses them; and a word holds every offset in a file.
Honest ==
  /\ Proper /\ Uses = {} /\ Outside = Escapes /\ MaxSize < Word
  /\ \A flags \in Flags : /\ ~({"creat", "excl"} \subseteq flags)
                          /\ "directory" \in flags => "creat" \in flags

\* the pieces of v before the k-th lie inside the memory
GoodTo(v, k) == k \in 1 .. Len(v) + 1 /\ \A j \in 1 .. k - 1 : v[j] # Bad

\* The pieces before one are bytes.
LEMMA BeforeSeq ==
  ASSUME NEW v \in Bufs, NEW k, GoodTo(v, k)
  PROVE  Before(v, k) \in Seq(Bytes) /\ Len(Before(v, k)) \in Nat
<1>0. v \in Seq(Seq(Nat) \cup {Bad}) /\ Len(v) \in Nat /\ DOMAIN v = 1 .. Len(v)
  BY WasiBounds, LenProperties
<1>1. k \in 1 .. Len(v) + 1 /\ \A j \in 1 .. k - 1 : v[j] # Bad BY DEF GoodTo
<1> DEFINE D == {m \in 1 .. k : Before(v, m) \notin Seq(Bytes)}
<1>2. ASSUME D # {} PROVE FALSE
  <2>1. D \subseteq Nat OBVIOUS
  <2> DEFINE m == First(D)
  <2>2. m \in D /\ \A y \in D : m <= y BY <1>2, <2>1, FirstIs
  <2> HIDE DEF m
  <2>3. m \in 1 .. k /\ Before(v, m) \notin Seq(Bytes) BY <2>2
  <2>4. m # 1 BY <2>3, BeforeFirst, EmptySeq
  <2> DEFINE p == m - 1
  <2>5. p \in 1 .. k /\ p \in 1 .. k - 1 /\ p \in 1 .. Len(v) /\ ~ (m <= p) /\ p + 1 = m
    BY <1>0, <1>1, <2>3, <2>4
  <2> HIDE DEF p
  <2>6. Before(v, p) \in Seq(Bytes) BY <2>2, <2>5
  <2>7. v[p] \in Seq(Bytes) BY <1>0, <1>1, <2>5, IovBytes
  <2>8. Before(v, p + 1) = Before(v, p) \o v[p] BY <1>0, <2>5, <2>7, BeforeNext
  <2>9. Before(v, p) \o v[p] \in Seq(Bytes) BY <2>6, <2>7, ConcatProperties
  <2> QED BY <2>3, <2>5, <2>8, <2>9
<1>3. k \in 1 .. k BY <1>0, <1>1
<1>4. Before(v, k) \in Seq(Bytes) BY <1>2, <1>3
<1> QED BY <1>4, LenProperties

\* The next piece adds its length.
LEMMA BeforeStep ==
  ASSUME NEW v \in Bufs, NEW k \in 1 .. Len(v), GoodTo(v, k), v[k] # Bad
  PROVE  /\ GoodTo(v, k + 1)
         /\ Len(Before(v, k)) \in Nat /\ Len(v[k]) \in Nat /\ v[k] \in Seq(Bytes)
         /\ Len(Before(v, k + 1)) = Len(Before(v, k)) + Len(v[k])
<1>0. v \in Seq(Seq(Nat) \cup {Bad}) /\ Len(v) \in Nat /\ DOMAIN v = 1 .. Len(v)
  BY WasiBounds, LenProperties
<1>1. v[k] \in Seq(Bytes) BY <1>0, IovBytes
<1>2. Len(v[k]) \in Nat BY <1>1, LenProperties
<1>3. Before(v, k) \in Seq(Bytes) /\ Len(Before(v, k)) \in Nat BY BeforeSeq
<1>4. Before(v, k + 1) = Before(v, k) \o v[k] BY <1>0, <1>1, BeforeNext
<1>5. Len(Before(v, k) \o v[k]) = Len(Before(v, k)) + Len(v[k]) BY <1>1, <1>3, ConcatProperties
<1>6. GoodTo(v, k + 1)
  <2>1. \A j \in 1 .. k + 1 - 1 : j \in 1 .. k - 1 \/ j = k BY <1>0
  <2>2. k + 1 \in 1 .. Len(v) + 1 BY <1>0
  <2> QED BY <2>1, <2>2 DEF GoodTo
<1> QED BY <1>1, <1>2, <1>3, <1>4, <1>5, <1>6

\* More pieces are at least as long.
LEMMA BeforeGrows ==
  ASSUME NEW v \in Bufs, NEW k \in 1 .. Len(v) + 1, NEW j, GoodTo(v, j), k <= j
  PROVE  Len(Before(v, k)) <= Len(Before(v, j))
<1>0. Len(v) \in Nat BY WasiBounds, LenProperties
<1>1. j \in 1 .. Len(v) + 1 /\ \A i \in 1 .. j - 1 : v[i] # Bad BY DEF GoodTo
<1> DEFINE l(m) == Len(Before(v, m))
           D == {m \in k .. j : ~ (l(k) <= l(m))}
<1>2. ASSUME NEW m \in k .. j PROVE GoodTo(v, m) /\ l(m) \in Nat
  <2>1. GoodTo(v, m) BY <1>0, <1>1 DEF GoodTo
  <2> QED BY <2>1, BeforeSeq
<1>3. ASSUME D # {} PROVE FALSE
  <2>1. D \subseteq Nat BY <1>0
  <2> DEFINE m == First(D)
  <2>2. m \in D /\ \A y \in D : m <= y BY <1>3, <2>1, FirstIs
  <2> HIDE DEF m
  <2>3. m \in k .. j /\ ~ (l(k) <= l(m)) BY <2>2
  <2>4. k \in k .. j BY <1>0, <1>1
  <2>5. l(k) \in Nat BY <1>2, <2>4
  <2>6. m # k BY <2>3, <2>5
  <2> DEFINE p == m - 1
  <2>7. p \in k .. j /\ p \in 1 .. j - 1 /\ p \in 1 .. Len(v) /\ ~ (m <= p) /\ p + 1 = m
    BY <1>0, <1>1, <2>3, <2>6
  <2> HIDE DEF p
  <2>8. l(k) <= l(p) BY <2>2, <2>7
  <2>9. GoodTo(v, p) /\ v[p] # Bad BY <1>1, <1>2, <2>7
  <2>10. l(p) \in Nat /\ Len(v[p]) \in Nat /\ l(p + 1) = l(p) + Len(v[p]) BY <2>7, <2>9, BeforeStep
  <2>11. l(m) = l(p) + Len(v[p]) BY <2>7, <2>10
  <2> HIDE DEF l
  <2> QED BY <2>3, <2>5, <2>8, <2>10, <2>11
<1>4. j \in k .. j BY <1>0, <1>1
<1> QED BY <1>3, <1>4

\* The first piece that cannot be written is where the loop stops.
LEMMA FailsIs ==
  ASSUME NEW v \in Bufs, NEW b \in BOOLEAN, NEW room, NEW k, GoodTo(v, k),
         \A j \in 1 .. k - 1 : ~ (b /\ Len(Before(v, j + 1)) > room)
  PROVE  /\ k > Len(v) => FailsAt(v, b, room) = 0
         /\ k <= Len(v) /\ (v[k] = Bad \/ (b /\ Len(Before(v, k + 1)) > room)) => FailsAt(v, b, room) = k
<1> DEFINE F == {j \in DOMAIN v : \/ v[j] = Bad
                                  \/ /\ b /\ \A i \in 1 .. j : v[i] # Bad
                                     /\ Len(Before(v, j + 1)) > room}
<1>0. Len(v) \in Nat /\ DOMAIN v = 1 .. Len(v) BY WasiBounds, LenProperties
<1>1. k \in 1 .. Len(v) + 1 /\ \A j \in 1 .. k - 1 : v[j] # Bad BY DEF GoodTo
<1>2. \A j \in F : k <= j
  <2>1. \A j \in 1 .. k - 1 : j \notin F BY <1>1
  <2> QED BY <1>0, <1>1, <2>1
<1>3. FailsAt(v, b, room) = IF F = {} THEN 0 ELSE First(F) BY DEF FailsAt
<1>4. ASSUME k > Len(v) PROVE F = {} BY <1>0, <1>1, <1>2, <1>4
<1>5. ASSUME k <= Len(v), v[k] = Bad \/ (b /\ Len(Before(v, k + 1)) > room)
      PROVE  k \in F
  <2>1. k \in DOMAIN v BY <1>0, <1>1, <1>5
  <2>2. v[k] # Bad => \A i \in 1 .. k : v[i] # Bad
    <3>1. \A i \in 1 .. k : i \in 1 .. k - 1 \/ i = k BY <1>0, <1>1
    <3> QED BY <1>1, <3>1
  <2> QED BY <1>5, <2>1, <2>2
<1>6. F \subseteq Nat BY <1>0
<1> HIDE DEF F
<1>7. ASSUME k \in F PROVE F # {} /\ First(F) = k
  <2>1. First(F) \in F /\ First(F) <= k BY <1>6, <1>7, FirstIs
  <2>2. First(F) \in Nat /\ k \in Nat /\ k <= First(F) BY <1>2, <1>6, <1>7, <2>1
  <2> QED BY <1>7, <2>1, <2>2
<1> QED BY <1>3, <1>4, <1>5, <1>7

\* What a part of a sequence is.
LEMMA PartIs ==
  ASSUME NEW T, NEW c \in Seq(T), NEW s \in 0 .. Len(c), NEW t \in Nat, s + t <= Len(c)
  PROVE  LET y == SubSeq(c, s + 1, s + t)
         IN  y \in Seq(T) /\ Len(y) = t /\ \A i \in 1 .. t : y[i] = c[s + i]
<1>0. Len(c) \in Nat /\ \A i \in 1 .. Len(c) : c[i] \in T BY LenProperties
<1> DEFINE p == s + 1
           q == s + t
<1>1. p \in Int /\ q \in Int /\ \A i \in p .. q : c[i] \in T BY <1>0
<1>2. (IF p <= q THEN q - p + 1 ELSE 0) = t BY <1>0
<1>3. \A i \in 1 .. t : i \in 1 .. q - p + 1 /\ p + i - 1 = s + i BY <1>0
<1> HIDE DEF p, q
<1>4. SubSeq(c, p, q) \in Seq(T) BY <1>1, SubSeqProperties
<1>5. Len(SubSeq(c, p, q)) = IF p <= q THEN q - p + 1 ELSE 0 BY <1>1, SubSeqProperties
<1>6. \A i \in 1 .. q - p + 1 : SubSeq(c, p, q)[i] = c[p + i - 1] BY <1>1, SubSeqProperties
<1> QED BY <1>2, <1>3, <1>4, <1>5, <1>6 DEF p, q

\* A part of a part is a part.
LEMMA PartOfPart ==
  ASSUME NEW T, NEW c \in Seq(T), NEW a \in 0 .. Len(c), NEW n \in 0 .. Len(c) - a
  PROVE  SubSeq(SubSeq(c, a + 1, Len(c)), 1, n) = SubSeq(c, a + 1, a + n)
<1> DEFINE rest == SubSeq(c, a + 1, Len(c))
           x == SubSeq(rest, 1, n)
           y == SubSeq(c, a + 1, a + n)
<1>0. Len(c) \in Nat /\ \A i \in 1 .. Len(c) : c[i] \in T BY LenProperties
<1>1. rest \in Seq(T) /\ Len(rest) = Len(c) - a /\ \A i \in 1 .. Len(c) - a : rest[i] = c[a + i]
  <2> DEFINE p == a + 1
             q == Len(c)
  <2>1. p \in Int /\ q \in Int /\ \A i \in p .. q : c[i] \in T BY <1>0
  <2>2. (IF p <= q THEN q - p + 1 ELSE 0) = Len(c) - a BY <1>0
  <2>3. \A i \in 1 .. Len(c) - a : i \in 1 .. q - p + 1 /\ p + i - 1 = a + i BY <1>0
  <2> HIDE DEF p, q
  <2>4. SubSeq(c, p, q) \in Seq(T) BY <2>1, SubSeqProperties
  <2>5. Len(SubSeq(c, p, q)) = IF p <= q THEN q - p + 1 ELSE 0 BY <2>1, SubSeqProperties
  <2>6. \A i \in 1 .. q - p + 1 : SubSeq(c, p, q)[i] = c[p + i - 1] BY <2>1, SubSeqProperties
  <2> QED BY <2>2, <2>3, <2>4, <2>5, <2>6 DEF p, q
<1>2. y \in Seq(T) /\ Len(y) = n /\ \A i \in 1 .. n : y[i] = c[a + i]
  <2>1. n \in Nat /\ a + n <= Len(c) BY <1>0
  <2> QED BY <2>1, PartIs
<1> HIDE DEF rest, y
<1>3. x \in Seq(T) /\ Len(x) = n /\ \A i \in 1 .. n : x[i] = rest[i]
  <2> DEFINE p == 1
             q == n
  <2>1. p \in Int /\ q \in Int /\ \A i \in p .. q : rest[i] \in T BY <1>0, <1>1
  <2>2. (IF p <= q THEN q - p + 1 ELSE 0) = n BY <1>0
  <2>3. \A i \in 1 .. n : i \in 1 .. q - p + 1 /\ p + i - 1 = i BY <1>0
  <2> HIDE DEF p, q
  <2>4. SubSeq(rest, p, q) \in Seq(T) BY <2>1, SubSeqProperties
  <2>5. Len(SubSeq(rest, p, q)) = IF p <= q THEN q - p + 1 ELSE 0 BY <2>1, SubSeqProperties
  <2>6. \A i \in 1 .. q - p + 1 : SubSeq(rest, p, q)[i] = rest[p + i - 1] BY <2>1, SubSeqProperties
  <2> QED BY <2>2, <2>3, <2>4, <2>5, <2>6 DEF p, q
<1> HIDE DEF x
<1>4. \A i \in 1 .. n : i \in 1 .. Len(c) - a BY <1>0
<1>5. x = y BY <1>1, <1>2, <1>3, <1>4, SeqEqual
<1> QED BY <1>5 DEF x, y, rest

\* Adjacent parts join.
LEMMA PartsJoin ==
  ASSUME NEW T, NEW c \in Seq(T), NEW a \in 0 .. Len(c), NEW n \in Nat, NEW m \in Nat, a + n + m <= Len(c)
  PROVE  SubSeq(c, a + 1, a + n) \o SubSeq(c, a + n + 1, a + n + m) = SubSeq(c, a + 1, a + (n + m))
<1>0. Len(c) \in Nat /\ \A i \in 1 .. Len(c) : c[i] \in T BY LenProperties
<1> DEFINE x == SubSeq(c, a + 1, a + n)
           y == SubSeq(c, a + n + 1, a + n + m)
           z == SubSeq(c, a + 1, a + (n + m))
           xy == x \o y
<1>2. a + n \in 0 .. Len(c) /\ n + m \in Nat /\ a + (n + m) <= Len(c) /\ a + n <= Len(c) BY <1>0
<1>3. x \in Seq(T) /\ Len(x) = n /\ \A i \in 1 .. n : x[i] = c[a + i] BY <1>2, PartIs
<1>4. y \in Seq(T) /\ Len(y) = m /\ \A i \in 1 .. m : y[i] = c[a + n + i] BY <1>2, PartIs
<1>5. z \in Seq(T) /\ Len(z) = n + m /\ \A i \in 1 .. n + m : z[i] = c[a + i] BY <1>2, PartIs
<1> HIDE DEF x, y, z
<1>6. xy \in Seq(T) /\ Len(xy) = n + m BY <1>3, <1>4, ConcatProperties
<1>7. \A i \in 1 .. n + m : xy[i] = IF i <= n THEN x[i] ELSE y[i - n]
  <2>1. \A i \in 1 .. Len(x) + Len(y) : (x \o y)[i] = IF i <= Len(x) THEN x[i] ELSE y[i - Len(x)]
    BY <1>3, <1>4, ConcatProperties
  <2>2. Len(x) = n /\ Len(y) = m BY <1>3, <1>4
  <2> QED BY <2>1, <2>2
<1> HIDE DEF xy
<1>8. \A i \in 1 .. n + m : xy[i] = z[i]
  <2> TAKE i \in 1 .. n + m
  <2>1. CASE i <= n
    <3>1. i \in 1 .. n BY <2>1
    <3> QED BY <1>3, <1>5, <1>7, <2>1, <3>1
  <2>2. CASE ~ (i <= n)
    <3>1. i - n \in 1 .. m /\ a + n + (i - n) = a + i BY <2>2
    <3> QED BY <1>4, <1>5, <1>7, <2>2, <3>1
  <2> QED BY <2>1, <2>2
<1>9. xy = z BY <1>5, <1>6, <1>8, SeqEqual
<1> QED BY <1>9 DEF xy, x, y, z

\* what the table says of a descriptor the guest may expect
RecIs(f, o) ==
  /\ o.kind = "std" => f.kind = "unknown" /\ ~f.pre /\ f.base = None
  /\ o.kind = "dir" => f.kind = "dir" /\ f.pre /\ f.base \in Range(Setup) \ {Efb} /\ o.name = <<f.base>>
  /\ o.kind = "fb" => f.kind = "reg" /\ f.pre /\ f.base = Efb /\ o.name = <<Efb>> /\ o.ofs \in Nat
  /\ o.kind = "file" => f.kind = "reg" /\ ~f.pre /\ f.base = None

\* what the call under way has written through a descriptor
Moved(i) == IF call.op = "write" /\ call.fd = i THEN call.total ELSE 0

\* the framebuffer is filled as far as its offset and the call under way say
RecInv ==
  \A i \in DOMAIN want.open :
    /\ RecIs(fds[i], want.open[i])
    /\ want.open[i].kind = "fb" => fds[i].fb_len = want.open[i].ofs + Moved(i)

\* the last answer was right
Truthful == last.rc = "ok" /\ last.wrc = "ok" /\ last.same = TRUE

\* An answer is right that succeeds when it should and hands back what it should.
LEMMA TruthIs ==
  ASSUME NEW rc, NEW wrc, NEW out, NEW wout, rc = "ok" <=> wrc = "ok", out = wout,
         last' = Result(rc, wrc, out, wout)
  PROVE  Truthful'
<1>1. last' = Right BY DEF Result
<1> QED BY <1>1 DEF Truthful, Right

\* A step that leaves the descriptors alone, and what was written to the
\* framebuffer, keeps the records.
LEMMA RecKeep ==
  ASSUME RecInv, UNCHANGED fds, want'.open = want.open,
         \A i \in DOMAIN want.open : want.open[i].kind = "fb" => Moved(i)' = Moved(i)
  PROVE  RecInv'
<1> SUFFICES ASSUME NEW i \in DOMAIN want'.open
             PROVE  /\ RecIs(fds'[i], want'.open[i])
                    /\ want'.open[i].kind = "fb" => fds'[i].fb_len = want'.open[i].ofs + Moved(i)'
  BY DEF RecInv, RecIs
<1>1. i \in DOMAIN want.open /\ fds'[i] = fds[i] /\ want'.open[i] = want.open[i] OBVIOUS
<1> QED BY <1>1 DEF RecInv

\* The same of steps that neither begin nor go on with a write.
LEMMA RecSame ==
  ASSUME RecInv, UNCHANGED fds, want'.open = want.open,
         call' = call \/ (call.op # "write" /\ (call'.op = "write" => call'.total = 0))
  PROVE  RecInv'
<1>1. ASSUME NEW i PROVE Moved(i)' = Moved(i) BY DEF Moved
<1> QED BY <1>1, RecKeep

\* A descriptor that is added.
LEMMA RecAdd ==
  ASSUME TypeInv, DataInv, RecInv, call = Idle, UNCHANGED call,
         NEW i \in Nat, NEW rec \in FdRec, fd_alloc(i, rec), i \notin DOMAIN want.open,
         NEW k, NEW n, want'.open = NewOpen(i, k, n),
         RecIs(rec, [kind |-> k, name |-> n, ofs |-> 0]), k = "fb" => rec.fb_len = 0
  PROVE  RecInv'
<1>1. FdsOK BY DEF TypeInv
<1>2. Exact(fds, files, want) BY DEF DataInv, InIo, Idle
<1>3. DOMAIN want.open \subseteq DOMAIN fds /\ DOMAIN fds = 0 .. Cap - 1 BY <1>1, <1>2 DEF Exact, Opens, FdsOK
<1>4. /\ fds'[i] = [rec EXCEPT !.used = TRUE]
      /\ \A j \in 0 .. Cap - 1 : j # i => fds'[j] = fds[j]
  BY <1>1, AllocIs
<1>5. fds'[i].kind = rec.kind /\ fds'[i].pre = rec.pre /\ fds'[i].base = rec.base /\ fds'[i].fb_len = rec.fb_len
  BY <1>4 DEF FdRec
<1>6. /\ DOMAIN want'.open = DOMAIN want.open \cup {i}
      /\ want'.open[i] = [kind |-> k, name |-> n, ofs |-> 0]
      /\ \A d \in DOMAIN want.open : d # i => want'.open[d] = want.open[d]
  <2> DEFINE no == NewOpen(i, k, n)
  <2>1. /\ DOMAIN no = DOMAIN want.open \cup {i}
        /\ no[i] = [kind |-> k, name |-> n, ofs |-> 0]
        /\ \A d \in DOMAIN want.open : d # i => no[d] = want.open[d]
    BY DEF NewOpen, Put
  <2>2. want'.open = no OBVIOUS
  <2> HIDE DEF no
  <2> QED BY <2>1, <2>2
<1>7. \A j : Moved(j) = 0 /\ Moved(j)' = 0
  <2> TAKE j
  <2>1. Moved(j) = 0 BY DEF Moved, Idle
  <2>2. Moved(j)' = 0 BY DEF Moved, Idle
  <2> QED BY <2>1, <2>2
<1> DEFINE o == [kind |-> k, name |-> n, ofs |-> 0]
<1>8. ASSUME NEW j \in DOMAIN want'.open
      PROVE  /\ RecIs(fds'[j], want'.open[j])
             /\ want'.open[j].kind = "fb" => fds'[j].fb_len = want'.open[j].ofs + Moved(j)'
  <2>1. CASE j = i
    <3>1. RecIs(fds'[i], o) BY <1>5 DEF RecIs
    <3>2. k = "fb" => fds'[i].fb_len = 0 BY <1>5
    <3>3. o.kind = k /\ o.ofs = 0 OBVIOUS
    <3>4. want'.open[j] = o /\ Moved(j)' = 0 BY <1>6, <1>7, <2>1
    <3> HIDE DEF o
    <3> QED BY <2>1, <3>1, <3>2, <3>3, <3>4
  <2>2. CASE j # i
    <3>1. j \in DOMAIN want.open /\ want'.open[j] = want.open[j] /\ fds'[j] = fds[j]
      BY <1>3, <1>4, <1>6, <2>2
    <3>2. Moved(j)' = Moved(j) BY <1>7
    <3> QED BY <3>1, <3>2 DEF RecInv
  <2> QED BY <2>1, <2>2
<1> QED BY <1>8 DEF RecInv, RecIs

\* An offset that is moved, and what the call has written with it.
LEMMA RecMoved ==
  ASSUME RecInv, NEW fs, Exact(fds, fs, want), UNCHANGED fds, NEW i \in DOMAIN want.open, NEW n,
         want'.open = [want.open EXCEPT ![i].ofs = n],
         call'.op # "write", call.op = "write" => call.fd = i,
         want.open[i].kind = "fb" => n \in Nat /\ n = want.open[i].ofs + Moved(i)
  PROVE  RecInv'
<1>1. Opens(fds, want) BY DEF Exact
<1>2. DOMAIN want'.open = DOMAIN want.open /\ \A j \in DOMAIN want.open : j # i => want'.open[j] = want.open[j]
  OBVIOUS
<1>3. DOMAIN want.open[i] = {"kind", "name", "ofs"} BY <1>1 DEF Opens
<1>4. want'.open[i] = [want.open[i] EXCEPT !.ofs = n] OBVIOUS
<1>5. want'.open[i].kind = want.open[i].kind /\ want'.open[i].name = want.open[i].name /\ want'.open[i].ofs = n
  BY <1>3, <1>4
<1>6. ASSUME NEW j PROVE Moved(j)' = 0 BY DEF Moved
<1>7. ASSUME NEW j, j # i PROVE Moved(j) = 0 BY <1>7 DEF Moved
<1>8. ASSUME NEW j \in DOMAIN want'.open
      PROVE  /\ RecIs(fds'[j], want'.open[j])
             /\ want'.open[j].kind = "fb" => fds'[j].fb_len = want'.open[j].ofs + Moved(j)'
  <2>1. CASE j = i
    <3>1. RecIs(fds[i], want.open[i]) /\ (want.open[i].kind = "fb" => fds[i].fb_len = n) BY DEF RecInv
    <3>2. RecIs(fds'[i], want'.open[i]) BY <1>5, <3>1 DEF RecIs
    <3>3. want'.open[i].kind = "fb" => fds'[i].fb_len = want'.open[i].ofs + 0 BY <1>5, <3>1
    <3> QED BY <1>6, <2>1, <3>2, <3>3
  <2>2. CASE j # i
    <3>1. j \in DOMAIN want.open /\ want'.open[j] = want.open[j] /\ fds'[j] = fds[j] BY <1>2, <2>2
    <3>2. Moved(j)' = Moved(j) BY <1>6, <1>7, <2>2
    <3> QED BY <3>1, <3>2 DEF RecInv
  <2> QED BY <2>1, <2>2
<1> QED BY <1>8 DEF RecInv, RecIs

\* The host adds a standard stream, a directory or the framebuffer; the guest's
\* end takes all of them away.
LEMMA HostRecs ==
  ASSUME Proper, TypeInv, DataInv, RecInv,
         (\E i \in 0 .. 2 : InitStd(i)) \/ HostAdds \/ Instantiate \/ ea_wasi_bind \/ Exit
  PROVE  RecInv'
<1>0. FdsOK /\ WantOK BY DEF TypeInv
<1>1. ASSUME NEW i \in 0 .. 2, InitStd(i) PROVE RecInv'
  <2> DEFINE rec == [Zero EXCEPT !.pf = i]
             n == <<>>
  <2>1. i \in Nat /\ i \in 0 .. MaxFd /\ i = next_fd BY <1>1, SetupFits DEF InitStd
  <2>2. rec \in FdRec /\ rec.base = None /\ rec.kind = "unknown" BY <2>1, StdRec
  <2>3. rec.pre = FALSE BY DEF Zero
  <2>4. fd_alloc(i, rec) /\ phase = "setup" /\ UNCHANGED call BY <1>1 DEF InitStd
  <2>5. want'.open = NewOpen(i, "std", n) BY <1>0, <1>1, <2>1, WantNewOpen DEF InitStd
  <2>6. RecIs(rec, [kind |-> "std", name |-> n, ofs |-> 0]) BY <2>2, <2>3 DEF RecIs
  <2>7. call = Idle BY <2>4 DEF DataInv
  <2>8. Exact(fds, files, want) BY <2>7 DEF DataInv, InIo, Idle
  <2>9. i \notin DOMAIN want.open BY <1>0, <2>1, <2>8 DEF Exact, Opens, FdsOK
  <2> HIDE DEF rec, n
  <2> QED BY <2>1, <2>2, <2>4, <2>5, <2>6, <2>7, <2>9, RecAdd
<1>2. CASE HostAdds
  <2> DEFINE b == Setup[next_fd - 2]
             rec == [Zero EXCEPT !.kind = IF b = Efb THEN "reg" ELSE "dir", !.pre = TRUE,
                                 !.base = b, !.fb = (b = Efb)]
             k == IF b = Efb THEN "fb" ELSE "dir"
             n == <<b>>
             fd == fd_alloc_any
  <2>1. next_fd \in Nat /\ next_fd >= 3 /\ next_fd - 2 <= Len(Setup) BY <1>0, <1>2 DEF HostAdds, FdsOK
  <2>2. b \in Range(Setup)
    <3>1. next_fd - 2 \in 1 .. Len(Setup) BY <2>1, WasiBounds, LenProperties
    <3>2. next_fd - 2 \in DOMAIN Setup BY <3>1, WasiBounds, LenProperties
    <3> QED BY <3>2 DEF Range
  <2>3. fd_alloc(fd, rec) /\ phase = "setup" /\ UNCHANGED call
        /\ want' = [want EXCEPT !.open = NewOpen(fd, k, n)]
    BY <1>2 DEF HostAdds
  <2> HIDE DEF b
  <2>4. rec \in FdRec /\ rec.base = b BY <2>2, HostRec
  <2>5. rec.pre = TRUE /\ rec.fb_len = 0 /\ rec.kind = IF b = Efb THEN "reg" ELSE "dir" BY DEF Zero
  <2>6. fd \in Nat /\ fd <= next_fd /\ (fd \in 0 .. Cap - 1 => ~fds[fd].used) BY <1>0, <2>1, AnyIsFree
  <2>7. fd \in 0 .. MaxFd BY <2>1, <2>6, SetupFits
  <2> HIDE DEF rec, fd
  <2>8. RecIs(rec, [kind |-> k, name |-> n, ofs |-> 0]) BY <2>2, <2>4, <2>5 DEF RecIs
  <2> HIDE DEF k, n
  <2>9. want'.open = NewOpen(fd, k, n) BY <1>0, <2>3, <2>7, WantNewOpen
  <2>10. call = Idle BY <2>3 DEF DataInv
  <2>11. Exact(fds, files, want) BY <2>10 DEF DataInv, InIo, Idle
  <2>12. fd \notin DOMAIN want.open BY <1>0, <2>6, <2>11 DEF Exact, Opens, FdsOK
  <2> QED BY <2>3, <2>4, <2>5, <2>6, <2>8, <2>9, <2>10, <2>12, RecAdd
<1>3. CASE Instantiate \/ ea_wasi_bind BY <1>3, RecSame DEF Instantiate, ea_wasi_bind
<1>4. CASE Exit
  <2>1. want'.open = <<>> BY <1>0, <1>4, WantOpen_ DEF Exit
  <2>2. DOMAIN want'.open = {} BY <2>1
  <2> QED BY <2>2 DEF RecInv
<1> QED BY <1>1, <1>2, <1>3, <1>4

\* As many files are used as there are names: the array is full when all names
\* it can hold are taken.
LEMMA FullIs ==
  ASSUME NEW fs, NEW w, Holds(fs, w)
  PROVE  Unused(fs) = {} <=> Cardinality(DOMAIN w.cont) = MaxFiles
<1> DEFINE U == {s \in Slots : fs[s].used}
           C == DOMAIN w.cont
           g == [s \in U |-> fs[s].name]
<1>1. IsFiniteSet(Slots) /\ Cardinality(Slots) = MaxFiles
  <2>1. 0 \in Int /\ MaxFiles - 1 \in Int BY RamBounds
  <2>2. IsFiniteSet(0 .. MaxFiles - 1) BY <2>1, FS_Interval
  <2>3. Cardinality(0 .. MaxFiles - 1) = IF 0 > MaxFiles - 1 THEN 0 ELSE MaxFiles - 1 - 0 + 1
    BY <2>1, FS_Interval
  <2> QED BY <2>2, <2>3, RamBounds DEF Slots
<1>2. U \in SUBSET Slots OBVIOUS
<1>3. IsFiniteSet(U) /\ (Cardinality(U) = Cardinality(Slots) => U = Slots) BY <1>1, <1>2, FS_Subset
<1>4. g \in Bijection(U, C)
  <2>1. \A s \in U : g[s] \in C BY DEF Holds
  <2>2. \A s, t \in U : g[s] = g[t] => s = t BY DEF Holds
  <2>3. \A n \in C : \E s \in U : g[s] = n BY DEF Holds
  <2>4. g \in [U -> C] BY <2>1
  <2> HIDE DEF U, C, g
  <2> QED BY <2>2, <2>3, <2>4 DEF Bijection, Injection, Surjection, IsInjective
<1>5. Cardinality(C) = Cardinality(U)
  <2>1. ExistsBijection(U, C) BY <1>4 DEF ExistsBijection
  <2> HIDE DEF U, C
  <2> QED BY <1>3, <2>1, FS_Bijection
<1>6. Unused(fs) = {} <=> U = Slots BY DEF Unused
<1> HIDE DEF U, C
<1> QED BY <1>1, <1>3, <1>5, <1>6 DEF C

\* What may be open under a number, for a guest that is honest.
LEMMA OpenIs ==
  ASSUME TypeInv, DataInv, RecInv, Proper, Runs, NEW fd \in Nat
  PROVE  /\ call = Idle /\ bound /\ phase = "guest" /\ Exact(fds, files, want)
         /\ fd_get(fd) <=> fd \in DOMAIN want.open
         /\ WantBadf(fd) = IF fd_get(fd) THEN "ok" ELSE "badf"
         /\ fd_get(fd) => /\ want.open[fd].kind \in {"std", "dir", "fb", "file"}
                          /\ RecIs(fds[fd], want.open[fd])
                          /\ want.open[fd].kind = "fb" <=> fds[fd].fb
<1>1. FdsOK BY DEF TypeInv
<1>2. call = Idle /\ bound /\ phase = "guest" /\ Exact(fds, files, want) BY IdleIs
<1>3. fd_get(fd) <=> fd \in DOMAIN want.open BY <1>1, <1>2, GetIs
<1>4. fd_get(fd) => /\ want.open[fd].kind \in {"std", "dir", "fb", "file"}
                    /\ want.open[fd].kind = "fb" <=> fds[fd].fb
  BY <1>2, <1>3 DEF Exact, Opens
<1>5. fd_get(fd) => RecIs(fds[fd], want.open[fd]) BY <1>3 DEF RecInv
<1> QED BY <1>2, <1>3, <1>4, <1>5 DEF WantBadf

\* path_open succeeds when WASI asks for it.
LEMMA OpenAnswers ==
  ASSUME Honest, TypeInv, DataInv, RecInv, NEW dirfd \in GuestFds, NEW p \in Paths, NEW flags \in Flags,
         PathOpen(dirfd, p, flags)
  PROVE  RecInv' /\ Truthful'
<1> DEFINE err == resolve_path(dirfd, p)
           base == IF fd_get(dirfd) THEN fds[dirfd].base ELSE None
           create == Creates(flags)
           trunc == Truncates(flags)
           name == <<base, p>>
           r == ew_open(files, <<base, Cut[p]>>, create, trunc)
           wrc == WantOpen(dirfd, name, p, flags)
           fd == fd_alloc_any
           o == want.open[dirfd]
<1>0. Proper /\ Runs /\ dirfd \in Nat /\ FdsOK /\ WantOK /\ RamOK(files)
  BY WasiBounds DEF Honest, PathOpen, TypeInv
<1>1. /\ call = Idle /\ bound /\ Exact(fds, files, want)
      /\ fd_get(dirfd) <=> dirfd \in DOMAIN want.open
      /\ fd_get(dirfd) => o.kind \in {"std", "dir", "fb", "file"} /\ RecIs(fds[dirfd], o)
  BY <1>0, OpenIs
<1>2. Cut[p] = p BY <1>0 DEF Proper
<1>3. base # Efb BY DEF PathOpen, Honest
<1>4. /\ IF err # "ok" THEN OpenFails(err, wrc)
         ELSE IF r.rc # "ok" THEN OpenFails(r.rc, wrc)
         ELSE OpenFile(fd, name, r, wrc, "trunc" \in flags)
  BY <1>3 DEF PathOpen
<1>5. r = ew_open(files, name, create, trunc) BY <1>2
<1>6. None \notin Range(Setup) BY WasiBounds
<1>7. create = ("creat" \in flags) /\ ~ ({"creat", "excl"} \subseteq flags) BY DEF Honest, Creates
<1>8. create \in BOOLEAN /\ trunc \in BOOLEAN BY DEF Creates, Truncates
<1>9. fd \in Nat /\ fd <= MaxFd /\ fd \notin DOMAIN want.open
  <2>1. fd \in Nat /\ (fd \in 0 .. Cap - 1 => ~fds[fd].used) BY <1>0, AnyIsFree
  <2>2. fd \notin DOMAIN want.open BY <1>0, <1>1, <2>1 DEF Exact, Opens, FdsOK
  <2> QED BY <2>1, <2>2 DEF PathOpen
<1>10. Is(dirfd, "dir") \/ Is(dirfd, "fb") <=> fd_get(dirfd) /\ fds[dirfd].base # None
  <2>1. fd_get(dirfd) /\ o.kind = "dir" => fds[dirfd].base # None BY <1>1, <1>6 DEF RecIs
  <2>2. fd_get(dirfd) /\ o.kind \in {"std", "file"} => fds[dirfd].base = None BY <1>1 DEF RecIs
  <2>3. fd_get(dirfd) /\ o.kind = "fb" => fds[dirfd].base = Efb /\ Efb # None BY <1>1, WasiBounds DEF RecIs, Efb
  <2>4. \A k : Is(dirfd, k) <=> fd_get(dirfd) /\ o.kind = k BY <1>1 DEF Is
  <2> HIDE DEF o
  <2> QED BY <1>1, <2>1, <2>2, <2>3, <2>4
<1> DEFINE isdir == fd_get(dirfd) /\ fds[dirfd].base # None
           asks == IF name \in DOMAIN want.cont
                   THEN IF {"creat", "excl"} \subseteq flags THEN "exist" ELSE "ok"
                   ELSE IF "creat" \notin flags THEN "noent"
                   ELSE IF Cardinality(DOMAIN want.cont) = MaxFiles THEN "full" ELSE "ok"
<1>11. /\ ~isdir => wrc # "ok"
       /\ isdir /\ p \in Escapes => wrc # "ok"
       /\ isdir /\ p \notin Escapes => wrc = asks
  <2> HIDE DEF asks
  <2>1. ~isdir => wrc # "ok" BY <1>10 DEF WantOpen
  <2>2. isdir => dirfd \in DOMAIN want.open BY <1>1
  <2>3. isdir /\ p \in Escapes => wrc # "ok" BY <1>10, <2>2 DEF WantOpen, Honest
  <2>4. isdir /\ p \notin Escapes => wrc = asks BY <1>10, <2>2 DEF WantOpen, asks, Honest
  <2> QED BY <2>1, <2>3, <2>4
<1>12. err = IF ~isdir THEN "badf" ELSE IF p \in Escapes THEN "acces" ELSE "ok"
  BY <1>1, <1>2 DEF resolve_path, Refused
<1>13. ASSUME NEW rc, OpenFails(rc, wrc), rc # "ok", wrc # "ok" PROVE RecInv' /\ Truthful'
  <2> HIDE DEF wrc
  <2>1. last' = Result(rc, wrc, None, None) /\ UNCHANGED <<fds, want, call>> BY <1>13 DEF OpenFails, Returns
  <2>2. Truthful' BY <1>13, <2>1, TruthIs
  <2> QED BY <2>1, <2>2, RecSame
<1>14. CASE err # "ok"
  <2>1. wrc # "ok" BY <1>11, <1>12, <1>14
  <2>2. OpenFails(err, wrc) BY <1>4, <1>14
  <2> QED BY <1>13, <1>14, <2>1, <2>2
<1>15. CASE err = "ok"
  <2>1. isdir /\ p \notin Escapes /\ wrc = asks BY <1>11, <1>12, <1>15
  <2>2. base \in Range(Setup) \ {Efb}
    <3>1. dirfd \in 0 .. Cap - 1 BY <1>0, <2>1 DEF fd_get, FdsOK
    <3>2. fds[dirfd].base \in Range(Setup) \cup {Efb, None} BY <1>0, <3>1 DEF FdsOK, FdRec
    <3> QED BY <1>3, <2>1, <3>2
  <2>3. name \in Inside BY <2>1, <2>2 DEF Inside
  <2>4. Found(files, name) # {} <=> name \in DOMAIN want.cont BY <1>1 DEF Exact, Holds, Found
  <2>5. Unused(files) = {} <=> Cardinality(DOMAIN want.cont) = MaxFiles BY <1>1, FullIs DEF Exact
  <2>6. IF r.rc # "ok" THEN OpenFails(r.rc, wrc) ELSE OpenFile(fd, name, r, wrc, "trunc" \in flags)
    BY <1>4, <1>15
  <2> HIDE DEF name, create, trunc, r, wrc
  <2>7. /\ r.rc = IF Found(files, name) # {} \/ (create /\ Unused(files) # {}) THEN "ok"
                  ELSE IF create THEN "full" ELSE "noent"
        /\ r.rc = "ok" => r.out \in Slots
    BY <1>0, <1>5, <1>8, <2>3, RamOpenIs
  <2>8. r.rc = wrc BY <1>7, <2>1, <2>4, <2>5, <2>7
  <2>9. CASE r.rc # "ok" BY <1>13, <2>6, <2>8, <2>9
  <2>10. CASE r.rc = "ok"
    <3> DEFINE rec == [Zero EXCEPT !.kind = "reg", !.pf = r.out]
    <3>1. OpenFile(fd, name, r, wrc, "trunc" \in flags) BY <2>6, <2>10
    <3>2. rec \in FdRec /\ rec.base = None /\ rec.kind = "reg" BY <2>7, <2>10, SlotsAreNat, FileFd
    <3>3. rec.pre = FALSE BY DEF Zero
    <3>4. fd_alloc(fd, rec) /\ UNCHANGED call /\ last' = Result("ok", wrc, fd, fd) BY <3>1 DEF OpenFile, Returns
    <3>5. want'.open = NewOpen(fd, "file", name) BY <3>1 DEF OpenFile
    <3>6. Truthful' BY <2>8, <2>10, <3>4, TruthIs
    <3> HIDE DEF rec, fd
    <3>7. RecIs(rec, [kind |-> "file", name |-> name, ofs |-> 0]) BY <3>2, <3>3 DEF RecIs
    <3>8. RecInv' BY <1>1, <1>9, <3>2, <3>4, <3>5, <3>7, RecAdd
    <3> QED BY <3>6, <3>8
  <2> QED BY <2>9, <2>10
<1> QED BY <1>14, <1>15

\* fd_close takes the descriptor away if it is open.
LEMMA CloseAnswers ==
  ASSUME Honest, TypeInv, DataInv, RecInv, NEW fd \in GuestFds, FdClose(fd)
  PROVE  RecInv' /\ Truthful'
<1>0. Proper /\ Runs /\ fd \in Nat /\ WantOK BY WasiBounds DEF Honest, FdClose, TypeInv
<1>1. call = Idle /\ WantBadf(fd) = IF fd_get(fd) THEN "ok" ELSE "badf" BY <1>0, OpenIs
<1>2. UNCHANGED call BY DEF FdClose, Returns
<1>3. CASE ~fd_get(fd)
  <2>1. last' = Result("badf", WantBadf(fd), None, None) /\ UNCHANGED <<fds, want>>
    BY <1>3 DEF FdClose, Returns
  <2>2. Truthful' BY <1>1, <1>3, <2>1, TruthIs
  <2> QED BY <1>2, <2>1, <2>2, RecSame
<1>4. CASE fd_get(fd)
  <2> DEFINE o == [d \in DOMAIN want.open \ {fd} |-> want.open[d]]
  <2>1. fds' = [fds EXCEPT ![fd] = Zero] BY <1>4 DEF FdClose, Closed
  <2>2. want' = [want EXCEPT !.open = o] BY <1>0, <1>4 DEF FdClose, WantOK
  <2>3. last' = Result("ok", WantBadf(fd), None, None) BY <1>4 DEF FdClose, Returns
  <2>4. Truthful' BY <1>1, <1>4, <2>3, TruthIs
  <2>5. DOMAIN o \subseteq 0 .. MaxFd BY <1>0 DEF WantOK
  <2>6. DOMAIN o = DOMAIN want.open \ {fd} /\ \A d \in DOMAIN o : o[d] = want.open[d] OBVIOUS
  <2> HIDE DEF o
  <2>7. want'.open = o BY <1>0, <2>2, <2>5, WantOpen_
  <2>8. ASSUME NEW j \in DOMAIN want'.open
        PROVE  /\ RecIs(fds'[j], want'.open[j])
               /\ want'.open[j].kind = "fb" => fds'[j].fb_len = want'.open[j].ofs + Moved(j)'
    <3>1. j \in DOMAIN want.open /\ j # fd /\ want'.open[j] = want.open[j] BY <2>6, <2>7
    <3>2. fds'[j] = fds[j] BY <2>1, <3>1
    <3>3. Moved(j)' = Moved(j) BY <1>2 DEF Moved
    <3> QED BY <3>1, <3>2, <3>3 DEF RecInv
  <2>9. RecInv' BY <2>8 DEF RecInv, RecIs
  <2> QED BY <2>4, <2>9
<1> QED BY <1>3, <1>4

\* The low word of an offset in a file, with a zero above it, is the offset.
LEMMA HalvedIs == ASSUME NEW x \in Nat, x < Word PROVE Halved(x, 0) = x
<1>1. Word \in Nat /\ Word > 0 BY WasiBounds
<1>2. x % Word = x BY <1>1
<1>3. 0 * Word = 0 BY <1>1
<1> QED BY <1>2, <1>3 DEF Halved

\* fd_seek answers with the offset it moves to.
LEMMA SeekAnswers ==
  ASSUME Honest, TypeInv, DataInv, RecInv,
         NEW fd \in GuestFds, NEW off \in Int, NEW whence \in {"set", "cur", "end"}, FdSeek(fd, off, whence)
  PROVE  RecInv' /\ Truthful'
<1> DEFINE s == fds[fd].pf
           r == ew_seek(files, s, off, whence)
           o == want.open[fd]
           c == IF o.kind = "file" THEN want.cont[o.name] ELSE <<>>
           np == SeekBase([ofs |-> o.ofs, data |-> c], whence) + off
           w == IF np < 0 THEN "inval" ELSE "ok"
<1>0. Proper /\ Runs /\ fd \in Nat /\ WantOK /\ RamOK(files) BY WasiBounds DEF Honest, FdSeek, TypeInv
<1>1. /\ call = Idle /\ bound /\ Exact(fds, files, want)
      /\ fd_get(fd) <=> fd \in DOMAIN want.open
      /\ WantBadf(fd) = IF fd_get(fd) THEN "ok" ELSE "badf"
  BY <1>0, OpenIs
<1>2. UNCHANGED <<fds, call>> BY DEF FdSeek, Returns
<1>3. CASE ~fd_get(fd)
  <2>1. last' = Result("badf", WantBadf(fd), None, None) /\ UNCHANGED want
    BY <1>3 DEF FdSeek, Returns
  <2>2. Truthful' BY <1>1, <1>3, <2>1, TruthIs
  <2> QED BY <1>2, <2>1, <2>2, RecSame
<1>4. CASE fd_get(fd)
  <2>1. IsFile(want, fd) BY <1>4 DEF FdSeek, Usable, Honest, Is, IsFile
  <2>2. want' = (IF np < 0 THEN want ELSE [want EXCEPT !.open[fd].ofs = np])
        /\ np <= Len(c)
        /\ \E upper \in UpperWords :
             LET out == Told(Halved(r.out, upper))
             IN  last' = Result(r.rc, w, out, IF np < 0 THEN out ELSE np)
    BY <1>4 DEF FdSeek, Returns, Honest
  <2>3. files[s].ofs = o.ofs /\ files[s].data = want.cont[o.name] BY <1>1, <2>1, FileIs
  <2>4. c = files[s].data BY <2>1, <2>3 DEF IsFile
  <2>5. SeekBase([ofs |-> o.ofs, data |-> c], whence) = SeekBase(files[s], whence)
    BY <2>3, <2>4 DEF SeekBase
  <2>6. np = SeekBase(files[s], whence) + off BY <2>5
  <2>7. o.kind = "file" /\ fd \in DOMAIN want.open BY <2>1 DEF IsFile
  <2>8. Len(c) \in Nat /\ Len(c) <= MaxSize
    <3>1. s \in Slots /\ files[s].used BY <1>1, <2>1, FileIs
    <3>2. files[s].data \in Contents BY <1>0, <3>1 DEF RamOK, FileRec
    <3> QED BY <2>4, <3>2, RamBounds DEF Contents
  <2>9. np \in Int
    <3>1. files[s].ofs \in Nat /\ Len(files[s].data) \in Nat BY <1>1, <2>1, FileIs
    <3>2. SeekBase(files[s], whence) \in Int BY <3>1 DEF SeekBase
    <3> QED BY <2>6, <3>2
  <2> HIDE DEF np, c, o, s
  <2>10. r.rc = w /\ (~(np < 0) => r.out = np) BY <2>6 DEF ew_seek, Answer
  <2> HIDE DEF r, w
  <2>13. PICK out : last' = Result(r.rc, w, out, IF np < 0 THEN out ELSE np) /\ (~(np < 0) => out = np)
    <3>1. PICK upper \in UpperWords :
             LET out == Told(Halved(r.out, upper))
             IN  last' = Result(r.rc, w, out, IF np < 0 THEN out ELSE np)
      BY <2>2
    <3>2. upper = 0 BY DEF UpperWords, Honest
    <3>3. ASSUME ~(np < 0) PROVE Told(Halved(r.out, upper)) = np
      <4>1. np \in Nat /\ np < Word /\ r.out = np BY <2>2, <2>8, <2>9, <2>10, <3>3, RamBounds, WasiBounds DEF Honest
      <4>2. Halved(np, 0) = np BY <4>1, HalvedIs
      <4> QED BY <1>1, <3>2, <4>1, <4>2 DEF Told
    <3> QED BY <3>1, <3>3
  <2>14. Truthful'
    <3> DEFINE wout == IF np < 0 THEN out ELSE np
    <3>1. wout = out BY <2>13
    <3>2. last' = Result(r.rc, w, out, wout) BY <2>13
    <3> HIDE DEF wout
    <3> QED BY <2>10, <3>1, <3>2, TruthIs
  <2>11. CASE np < 0
    <3>1. UNCHANGED want BY <2>2, <2>11
    <3> QED BY <1>2, <2>14, <3>1, RecSame
  <2>12. CASE ~ (np < 0)
    <3>1. want'.open = [want.open EXCEPT ![fd].ofs = np] BY <1>0, <2>2, <2>12, WantMoved
    <3>2. call.op # "write" /\ call'.op # "write" BY <1>1, <1>2 DEF Idle
    <3>3. RecInv' BY <1>1, <1>2, <2>7, <3>1, <3>2, RecMoved DEF o
    <3> QED BY <2>14, <3>3
  <2> QED BY <2>11, <2>12
<1> QED BY <1>3, <1>4

\* fd_filestat_get tells a file's size and a directory from the rest.
LEMMA StatAnswers ==
  ASSUME Honest, TypeInv, DataInv, RecInv, NEW fd \in GuestFds, FdFilestat(fd)
  PROVE  Truthful'
<1> DEFINE f == fds[fd]
           o == want.open[fd]
           size == IF f.kind = "reg" THEN ew_fsize(files, f.pf).out ELSE IF f.fb THEN f.fb_len ELSE 0
           wsize == IF o.kind = "file" THEN Len(want.cont[o.name]) ELSE IF o.kind = "fb" THEN o.ofs ELSE 0
<1>0. Proper /\ Runs /\ fd \in Nat BY WasiBounds DEF Honest, FdFilestat
<1>1. /\ bound /\ Exact(fds, files, want)
      /\ fd_get(fd) <=> fd \in DOMAIN want.open
      /\ WantBadf(fd) = IF fd_get(fd) THEN "ok" ELSE "badf"
      /\ fd_get(fd) => /\ o.kind \in {"std", "dir", "fb", "file"} /\ RecIs(f, o)
                       /\ o.kind = "fb" <=> f.fb
  BY <1>0, OpenIs
<1>2. last' = IF ~fd_get(fd) THEN Result("badf", WantBadf(fd), None, None)
              ELSE Result("ok", "ok", <<f.kind = "dir", size>>, <<o.kind = "dir", wsize>>)
  BY <1>1 DEF FdFilestat, Returns, Honest
<1>3. CASE ~fd_get(fd)
  <2>1. last' = Result("badf", WantBadf(fd), None, None) BY <1>2, <1>3
  <2> QED BY <1>1, <1>3, <2>1, TruthIs
<1>4. CASE fd_get(fd)
  <2>1. o.kind # "fb" BY <1>1, <1>4 DEF FdFilestat, Is, Honest
  <2>2. (f.kind = "dir") = (o.kind = "dir") BY <1>1, <1>4, <2>1 DEF RecIs
  <2>3. size = wsize
    <3>1. CASE o.kind = "file"
      <4>1. IsFile(want, fd) BY <1>1, <1>4, <3>1 DEF IsFile
      <4>2. files[f.pf].used /\ files[f.pf].data = want.cont[o.name] BY <1>1, <4>1, FileIs
      <4>3. f.kind = "reg" BY <1>1, <1>4, <3>1 DEF RecIs
      <4>4. ew_fsize(files, f.pf).out = Len(files[f.pf].data) BY <4>2 DEF ew_fsize, Answer
      <4> QED BY <3>1, <4>2, <4>3, <4>4
    <3>2. CASE o.kind # "file"
      <4>1. f.kind # "reg" /\ ~f.fb BY <1>1, <1>4, <2>1, <3>2 DEF RecIs
      <4> QED BY <2>1, <3>2, <4>1
    <3> QED BY <3>1, <3>2
  <2> DEFINE a == <<f.kind = "dir", size>>
             b == <<o.kind = "dir", wsize>>
  <2>4. a = b BY <2>2, <2>3
  <2>5. last' = Result("ok", "ok", a, b) BY <1>2, <1>4
  <2> HIDE DEF a, b
  <2> QED BY <2>4, <2>5, TruthIs
<1> QED BY <1>3, <1>4

\* fd_prestat_get and fd_prestat_dir_name know the preopens, fd_sync what is
\* open.
LEMMA AskAnswers ==
  ASSUME Honest, TypeInv, DataInv, RecInv,
         NEW fd \in GuestFds, FdPrestatGet(fd) \/ FdPrestatDirName(fd) \/ FdSync(fd)
  PROVE  Truthful'
<1> DEFINE f == fds[fd]
           o == want.open[fd]
<1>0. Proper /\ Runs /\ fd \in Nat
  BY WasiBounds DEF Honest, FdPrestatGet, FdPrestatDirName, Prestat, FdSync
<1>1. /\ bound
      /\ fd_get(fd) <=> fd \in DOMAIN want.open
      /\ WantBadf(fd) = IF fd_get(fd) THEN "ok" ELSE "badf"
      /\ fd_get(fd) => o.kind \in {"std", "dir", "fb", "file"} /\ RecIs(f, o)
  BY <1>0, OpenIs
<1>2. \A k : Is(fd, k) <=> fd_get(fd) /\ o.kind = k BY <1>1 DEF Is
<1>3. ASSUME NEW ok \in BOOLEAN, NEW wok \in BOOLEAN, ok = wok, Prestat(fd, ok, wok),
             ok => f.base = o.name[1]
      PROVE  Truthful'
  <2> DEFINE rc == IF ~ok THEN "badf" ELSE IF bound THEN "ok" ELSE "inval"
             w == IF wok THEN "ok" ELSE "badf"
             out == IF ok /\ bound THEN f.base ELSE None
             wout == IF wok THEN o.name[1] ELSE None
  <2>1. last' = Result(rc, w, out, wout) BY <1>3 DEF Prestat, Returns
  <2>2. rc = w /\ out = wout BY <1>1, <1>3
  <2> HIDE DEF rc, w, out, wout
  <2> QED BY <2>1, <2>2, TruthIs
<1>4. fd_get(fd) /\ o.kind \in {"dir", "fb"} => f.base = o.name[1]
  <2>1. fd_get(fd) /\ o.kind = "dir" => o.name = <<f.base>> BY <1>1 DEF RecIs
  <2>2. fd_get(fd) /\ o.kind = "fb" => o.name = <<f.base>> BY <1>1 DEF RecIs
  <2>3. <<f.base>>[1] = f.base OBVIOUS
  <2> QED BY <2>1, <2>2, <2>3
<1> DEFINE ok1 == fd_get(fd) /\ f.pre /\ f.kind = "dir"
           ok2 == fd_get(fd) /\ f.pre
<1>5. ok1 = Is(fd, "dir") /\ (ok1 => f.base = o.name[1])
  <2>1. ok1 <=> fd_get(fd) /\ o.kind = "dir" BY <1>1 DEF RecIs
  <2> QED BY <1>2, <1>4, <2>1 DEF Is
<1>6. ok2 = (Is(fd, "dir") \/ Is(fd, "fb")) /\ (ok2 => f.base = o.name[1])
  <2>1. ok2 <=> fd_get(fd) /\ o.kind \in {"dir", "fb"} BY <1>1 DEF RecIs
  <2> QED BY <1>2, <1>4, <2>1 DEF Is
<1>7. CASE FdPrestatGet(fd)
  <2> DEFINE wok == Is(fd, "dir")
  <2>1. Prestat(fd, ok1, wok) BY <1>7 DEF FdPrestatGet
  <2>2. ok1 \in BOOLEAN /\ wok \in BOOLEAN BY <1>5 DEF Is
  <2> HIDE DEF ok1
  <2> QED BY <1>3, <1>5, <2>1, <2>2
<1>8. CASE FdPrestatDirName(fd)
  <2> DEFINE wok == Is(fd, "dir") \/ Is(fd, "fb")
  <2>1. Prestat(fd, ok2, wok) BY <1>8 DEF FdPrestatDirName
  <2>2. ok2 \in BOOLEAN /\ wok \in BOOLEAN BY <1>6
  <2> HIDE DEF ok2
  <2> QED BY <1>3, <1>6, <2>1, <2>2
<1>9. CASE FdSync(fd)
  <2> DEFINE rc == IF fd_get(fd) THEN "ok" ELSE "badf"
  <2>1. last' = Result(rc, WantBadf(fd), None, None) BY <1>9 DEF FdSync, Returns
  <2> QED BY <1>1, <2>1, TruthIs
<1> QED BY <1>7, <1>8, <1>9

\* clock_time_get tells the sample it took.
LEMMA ClockAnswers ==
  ASSUME Honest, TypeInv, DataInv, RecInv, ClockTimeGet
  PROVE  Truthful'
<1> DEFINE now == clock'
<1>1. Proper /\ Runs BY DEF Honest, ClockTimeGet
<1>2. bound BY <1>1, IdleIs
<1>3. last' = Result("ok", "ok", Told(now), now) BY DEF ClockTimeGet
<1>4. Told(now) = now BY <1>2 DEF Told
<1> HIDE DEF now
<1> QED BY <1>3, <1>4, TruthIs

----------------------------------------------------------------------------
(* args_get.                                                               *)

\* at holds where the first n strings end, laid end to end from buf
EndsTo(buf, nul, n, at) ==
  at = [i \in 0 .. n |-> IF i = 0 THEN buf ELSE at[i - 1] + ArgLens[i] + nul]

\* Such ends exist.
LEMMA EndsExist == ASSUME NEW buf, NEW nul, NEW n \in Nat PROVE \E at : EndsTo(buf, nul, n, at)
<1> DEFINE D == {m \in 0 .. n : ~ \E at : EndsTo(buf, nul, m, at)}
<1>1. ASSUME D # {} PROVE FALSE
  <2>1. D \subseteq Nat OBVIOUS
  <2> DEFINE m == First(D)
  <2>2. m \in D /\ \A y \in D : m <= y BY <1>1, <2>1, FirstIs
  <2> HIDE DEF m
  <2>3. m \in 0 .. n /\ ~ \E at : EndsTo(buf, nul, m, at) BY <2>2
  <2>4. CASE m = 0
    <3> DEFINE at == [i \in 0 .. 0 |-> buf]
    <3>1. \A i \in 0 .. 0 : i = 0 OBVIOUS
    <3>2. at = [i \in 0 .. 0 |-> IF i = 0 THEN buf ELSE at[i - 1] + ArgLens[i] + nul] BY <3>1
    <3> HIDE DEF at
    <3>3. EndsTo(buf, nul, 0, at) BY <3>2 DEF EndsTo
    <3> QED BY <2>3, <2>4, <3>3
  <2>5. CASE m # 0
    <3> DEFINE p == m - 1
    <3>1. p \in 0 .. n /\ ~ (m <= p) /\ p + 1 = m BY <2>3, <2>5
    <3> HIDE DEF p
    <3>2. p \notin D BY <2>2, <3>1
    <3>3. PICK f : EndsTo(buf, nul, p, f) BY <3>1, <3>2
    <3> DEFINE e == f[p] + ArgLens[m] + nul
               at == [i \in 0 .. m |-> IF i = m THEN e ELSE f[i]]
               h(i) == IF i = 0 THEN buf ELSE at[i - 1] + ArgLens[i] + nul
    <3>4. \A i \in 0 .. p : f[i] = IF i = 0 THEN buf ELSE f[i - 1] + ArgLens[i] + nul BY <3>3 DEF EndsTo
    <3>5. \A i \in 0 .. m : at[i] = h(i)
      <4> TAKE i \in 0 .. m
      <4>1. CASE i = m
        <5>1. i - 1 = p /\ p \in 0 .. m /\ p # m /\ i # 0 BY <3>1, <2>5, <4>1
        <5>2. at[p] = f[p] BY <5>1
        <5> QED BY <4>1, <5>1, <5>2
      <4>2. CASE i # m
        <5>1. i \in 0 .. p /\ (i # 0 => i - 1 \in 0 .. m /\ i - 1 # m) BY <2>3, <3>1, <4>2
        <5>2. at[i] = f[i] /\ (i # 0 => at[i - 1] = f[i - 1]) BY <4>2, <5>1
        <5> QED BY <3>4, <5>1, <5>2
      <4> QED BY <4>1, <4>2
    <3>6. at = [i \in 0 .. m |-> at[i]] OBVIOUS
    <3> HIDE DEF at
    <3>7. at = [i \in 0 .. m |-> h(i)] BY <3>5, <3>6
    <3>8. EndsTo(buf, nul, m, at) BY <3>7 DEF EndsTo
    <3> QED BY <2>3, <3>8
  <2> QED BY <2>4, <2>5
<1>2. n \in 0 .. n OBVIOUS
<1> QED BY <1>1, <1>2

\* How many arguments there are, and how long each is.
LEMMA ArgsAre == Len(ArgLens) \in Nat /\ \A i \in 1 .. Len(ArgLens) : ArgLens[i] \in Nat
  BY WasiBounds, LenProperties

\* Each string ends behind the one before it.
LEMMA EndsIs ==
  ASSUME NEW buf, NEW nul
  PROVE  /\ Ends(buf, nul)[0] = buf
         /\ \A i \in 1 .. Len(ArgLens) : Ends(buf, nul)[i] = Ends(buf, nul)[i - 1] + ArgLens[i] + nul
<1> DEFINE L == Len(ArgLens)
           at == CHOOSE at : at = [i \in 0 .. L |-> IF i = 0 THEN buf ELSE at[i - 1] + ArgLens[i] + nul]
<1>0. L \in Nat BY ArgsAre
<1>1. \E f : EndsTo(buf, nul, L, f) BY <1>0, EndsExist
<1>2. EndsTo(buf, nul, L, at) BY <1>1 DEF EndsTo
<1>3. Ends(buf, nul) = at BY DEF Ends
<1> HIDE DEF at
<1>4. at = [i \in 0 .. L |-> IF i = 0 THEN buf ELSE at[i - 1] + ArgLens[i] + nul] BY <1>2 DEF EndsTo
<1> HIDE DEF L
<1>5. at[0] = buf
  <2>1. 0 \in 0 .. L BY <1>0
  <2> QED BY <1>4, <2>1
<1>6. \A i \in 1 .. L : at[i] = at[i - 1] + ArgLens[i] + nul
  <2> TAKE i \in 1 .. L
  <2>1. i \in 0 .. L /\ i # 0 BY <1>0
  <2> QED BY <1>4, <2>1
<1> QED BY <1>3, <1>5, <1>6 DEF L

\* Laid out from another address, they end as far behind it.
LEMMA EndsFrom ==
  ASSUME NEW buf \in Nat, NEW i \in 0 .. Len(ArgLens)
  PROVE  /\ Ends(0, 1)[i] \in Nat /\ Ends(buf, 1)[i] \in Nat
         /\ Ends(buf, 1)[i] = buf + Ends(0, 1)[i]
<1> DEFINE L == Len(ArgLens)
           z == Ends(0, 1)
           a == Ends(buf, 1)
           good(m) == z[m] \in Nat /\ a[m] \in Nat /\ a[m] = buf + z[m]
           D == {m \in 0 .. L : ~ good(m)}
<1>0. L \in Nat /\ \A m \in 1 .. L : ArgLens[m] \in Nat BY ArgsAre
<1>1. z[0] = 0 /\ a[0] = buf /\ \A m \in 1 .. L : z[m] = z[m - 1] + ArgLens[m] + 1
                                              /\ a[m] = a[m - 1] + ArgLens[m] + 1
  BY EndsIs
<1> HIDE DEF z, a, L
<1>2. ASSUME D # {} PROVE FALSE
  <2>1. D \subseteq Nat BY <1>0
  <2> DEFINE m == First(D)
  <2>2. m \in D /\ \A y \in D : m <= y BY <1>2, <2>1, FirstIs
  <2> HIDE DEF m
  <2>3. m \in 0 .. L /\ ~ good(m) BY <2>2
  <2>4. m # 0 BY <1>1, <2>3
  <2> DEFINE p == m - 1
  <2>5. p \in 0 .. L /\ m \in 1 .. L /\ ~ (m <= p) BY <1>0, <2>3, <2>4
  <2>6. z[m] = z[p] + ArgLens[m] + 1 /\ a[m] = a[p] + ArgLens[m] + 1 BY <1>1, <2>5
  <2> HIDE DEF p
  <2>7. good(p) BY <2>2, <2>5
  <2>8. ArgLens[m] \in Nat BY <1>0, <2>5
  <2>9. z[p] \in Nat /\ a[p] \in Nat /\ a[p] = buf + z[p] BY <2>7
  <2>10. ~ (z[m] \in Nat /\ a[m] \in Nat /\ a[m] = buf + z[m]) BY <2>3
  <2> HIDE DEF D, good
  <2> QED BY <2>6, <2>8, <2>9, <2>10
<1>3. i \in 0 .. L BY DEF L
<1>4. good(i) BY <1>2, <1>3
<1> QED BY <1>4 DEF z, a

\* A later string ends no earlier.
LEMMA EndsGrow ==
  ASSUME NEW buf \in Nat, NEW i \in 0 .. Len(ArgLens), NEW j \in i .. Len(ArgLens)
  PROVE  Ends(buf, 1)[i] <= Ends(buf, 1)[j]
<1> DEFINE L == Len(ArgLens)
           a == Ends(buf, 1)
           D == {m \in i .. L : ~ (a[i] <= a[m])}
<1>0. L \in Nat /\ \A m \in 1 .. L : ArgLens[m] \in Nat BY ArgsAre
<1>1. \A m \in 1 .. L : a[m] = a[m - 1] + ArgLens[m] + 1 BY EndsIs
<1>2. \A m \in 0 .. L : a[m] \in Nat BY EndsFrom
<1> HIDE DEF a
<1>3. i \in 0 .. L /\ j \in i .. L OBVIOUS
<1> HIDE DEF L
<1>4. ASSUME D # {} PROVE FALSE
  <2>1. D \subseteq Nat BY <1>0, <1>3
  <2> DEFINE m == First(D)
  <2>2. m \in D /\ \A y \in D : m <= y BY <1>4, <2>1, FirstIs
  <2> HIDE DEF m
  <2>3. m \in i .. L /\ ~ (a[i] <= a[m]) BY <2>2
  <2>4. m # i BY <1>2, <1>3, <2>3
  <2> DEFINE p == m - 1
  <2>5. p \in i .. L /\ p \in 0 .. L /\ m \in 1 .. L /\ ~ (m <= p) BY <1>0, <1>3, <2>3, <2>4
  <2>6. a[m] = a[p] + ArgLens[m] + 1 BY <1>1, <2>5
  <2> HIDE DEF p
  <2>7. a[i] <= a[p] BY <2>2, <2>5
  <2>8. ArgLens[m] \in Nat /\ a[p] \in Nat /\ a[i] \in Nat BY <1>0, <1>2, <1>3, <2>5
  <2> QED BY <2>3, <2>6, <2>7, <2>8
<1>5. a[i] <= a[j] BY <1>3, <1>4
<1> QED BY <1>5 DEF a

\* args_get answers whether all strings fit, and writes nothing outside the
\* room the guest was told to leave.
LEMMA ArgsAnswers ==
  ASSUME Honest, TypeInv, DataInv, RecInv, NEW ptr \in Ptrs, NEW buf \in Ptrs, ArgsGet(ptr, buf)
  PROVE  Truthful'
<1> DEFINE L == Len(ArgLens)
           at == Ends(buf, 1)
           fits(i) == bound /\ at[i] <= MemSize
           stops(n) == (\A i \in 1 .. n : fits(i)) /\ (n < L => ~fits(n + 1))
           n == CHOOSE n \in 0 .. L : stops(n)
           strings == {at[i - 1] .. at[i] - 1 : i \in 1 .. n}
           pointers == {{a \in ptr + 4 * (i - 1) .. ptr + 4 * i - 1 : a < MemSize} : i \in 1 .. Least(n + 1, L)}
           wrote == UNION (strings \cup pointers)
           room == (ptr .. ptr + 4 * L - 1) \cup (buf .. buf + ArgsSizes - 1)
           rc == IF n = L THEN "ok" ELSE "inval"
           wrc == IF ArgLens = <<>> \/ buf + ArgsSizes <= MemSize THEN "ok" ELSE "inval"
           out == wrote \ room
<1>0. bound /\ L \in Nat /\ ptr \in Nat /\ buf \in Nat /\ MemSize \in Nat
  BY ArgsAre, WasiBounds DEF ArgsGet
<1>1. last' = Result(rc, wrc, out, {}) BY DEF ArgsGet, Returns
<1>2. \A i \in 0 .. L : at[i] \in Nat BY <1>0, EndsFrom
<1>3. at[0] = buf /\ at[L] = buf + ArgsSizes /\ ArgsSizes \in Nat
  <2>1. at[0] = buf BY EndsIs
  <2>2. L \in 0 .. L BY <1>0
  <2>3. at[L] = buf + Ends(0, 1)[L] /\ Ends(0, 1)[L] \in Nat BY <1>0, <2>2, EndsFrom
  <2> QED BY <2>1, <2>3 DEF ArgsSizes
<1>4. \A i \in 0 .. L : at[i] <= at[L] /\ at[0] <= at[i]
  <2> TAKE i \in 0 .. L
  <2>1. L \in i .. L /\ 0 \in 0 .. L /\ i \in 0 .. L BY <1>0
  <2> QED BY <1>0, <2>1, EndsGrow
<1>5. ArgLens = <<>> <=> L = 0
  <2>1. ArgLens \in Seq(Nat) BY WasiBounds
  <2> QED BY <2>1, EmptySeq
<1> HIDE DEF at
<1>6. \E m \in 0 .. L : stops(m)
  <2> DEFINE D == {i \in 1 .. L : ~fits(i)}
  <2>1. CASE D = {}
    <3>1. L \in 0 .. L /\ stops(L) BY <1>0, <2>1
    <3> QED BY <3>1
  <2>2. CASE D # {}
    <3>1. D \subseteq Nat BY <1>0
    <3> DEFINE f == First(D)
               m == f - 1
    <3>2. f \in D /\ \A y \in D : f <= y BY <2>2, <3>1, FirstIs
    <3> HIDE DEF f
    <3>3. f \in 1 .. L /\ ~fits(f) /\ m + 1 = f /\ m \in 0 .. L BY <1>0, <3>2
    <3>4. \A i \in 1 .. m : i \in 1 .. L /\ ~ (f <= i) BY <1>0, <3>3
    <3> HIDE DEF m
    <3>5. \A i \in 1 .. m : fits(i) BY <3>2, <3>4
    <3>6. stops(m) BY <3>3, <3>5
    <3> QED BY <3>3, <3>6
  <2> QED BY <2>1, <2>2
<1>7. n \in 0 .. L /\ stops(n)
  <2> HIDE DEF stops
  <2> QED BY <1>6
<1> HIDE DEF n
<1>8. rc = wrc
  <2>1. CASE n = L
    <3>1. L = 0 \/ L \in 1 .. n BY <1>0, <2>1
    <3>2. L = 0 \/ at[L] <= MemSize BY <1>7, <3>1
    <3> QED BY <1>3, <1>5, <2>1, <3>2
  <2>2. CASE n # L
    <3>1. n < L /\ n + 1 \in 0 .. L /\ L # 0 BY <1>0, <1>7, <2>2
    <3>2. ~ (at[n + 1] <= MemSize) BY <1>0, <1>7, <3>1
    <3>3. at[n + 1] <= at[L] /\ at[n + 1] \in Nat /\ at[L] \in Nat
      <4>1. L \in 0 .. L BY <1>0
      <4> QED BY <1>2, <1>4, <3>1, <4>1
    <3>4. ~ (at[L] <= MemSize) BY <1>0, <3>2, <3>3
    <3> QED BY <1>3, <1>5, <2>2, <3>1, <3>4
  <2> QED BY <2>1, <2>2
<1>9. \A i \in 1 .. n : \A x \in at[i - 1] .. at[i] - 1 : x \in room
  <2> TAKE i \in 1 .. n
  <2> TAKE x \in at[i - 1] .. at[i] - 1
  <2>1. i \in 0 .. L /\ i - 1 \in 0 .. L /\ L \in 0 .. L BY <1>0, <1>7
  <2>2. at[0] <= at[i - 1] /\ at[i] <= at[L] /\ at[i - 1] \in Nat /\ at[i] \in Nat /\ at[L] \in Nat
    BY <1>2, <1>4, <2>1
  <2>3. buf <= at[i - 1] /\ at[i] <= buf + ArgsSizes /\ buf + ArgsSizes \in Nat BY <1>3, <2>2
  <2> DEFINE lo == at[i - 1]
             hi == at[i]
             e == buf + ArgsSizes
  <2>4. x \in lo .. hi - 1 /\ buf <= lo /\ hi <= e /\ lo \in Nat /\ hi \in Nat /\ e \in Nat BY <2>2, <2>3
  <2> HIDE DEF lo, hi, e
  <2>5. x \in buf .. e - 1 BY <1>0, <2>4
  <2>6. buf .. e - 1 \subseteq room
    <3>1. e - 1 = buf + ArgsSizes - 1 BY <1>0, <1>3 DEF e
    <3> QED BY <3>1
  <2> HIDE DEF room
  <2> QED BY <2>5, <2>6
<1>10. \A i \in 1 .. Least(n + 1, L) : \A x \in ptr + 4 * (i - 1) .. ptr + 4 * i - 1 : x \in room
  <2> TAKE i \in 1 .. Least(n + 1, L)
  <2> TAKE x \in ptr + 4 * (i - 1) .. ptr + 4 * i - 1
  <2>1. i \in 1 .. L BY <1>0, <1>7 DEF Least
  <2>2. ptr <= ptr + 4 * (i - 1) /\ ptr + 4 * i - 1 <= ptr + 4 * L - 1 BY <1>0, <2>1
  <2>3. x \in ptr .. ptr + 4 * L - 1 BY <1>0, <2>1, <2>2
  <2> QED BY <2>3
<1> HIDE DEF room
<1>11. out = {}
  <2> SUFFICES ASSUME NEW x \in wrote PROVE x \in room OBVIOUS
  <2>1. PICK s \in strings \cup pointers : x \in s OBVIOUS
  <2>2. CASE s \in strings
    <3>1. PICK i \in 1 .. n : s = at[i - 1] .. at[i] - 1 BY <2>2
    <3> QED BY <1>9, <2>1, <3>1
  <2>3. CASE s \in pointers
    <3>1. PICK i \in 1 .. Least(n + 1, L) : s = {a \in ptr + 4 * (i - 1) .. ptr + 4 * i - 1 : a < MemSize}
      BY <2>3
    <3>2. x \in ptr + 4 * (i - 1) .. ptr + 4 * i - 1 BY <2>1, <3>1
    <3> QED BY <1>10, <3>2
  <2> QED BY <2>1, <2>2, <2>3
<1> HIDE DEF rc, wrc, out
<1> QED BY <1>1, <1>8, <1>11, TruthIs

----------------------------------------------------------------------------
(* The loops over iovecs.                                                  *)

\* what a descriptor has room for: only a stream takes all
Bounded(o) == o.kind \in {"file", "fb"}
Room(o) == (IF o.kind = "file" THEN MaxSize ELSE FbCap) - o.ofs

\* the pieces of v up to the j-th are more than o has room for
Over(o, v, j) == Bounded(o) /\ Len(Before(v, j + 1)) > Room(o)

\* every iovec before this one was written whole, and the loop ends early at
\* the first that cannot be
WriteInv ==
  call.op = "write" =>
    LET v == call.v
        k == call.k
        o == want.open[call.fd]
    IN  /\ GoodTo(v, k) /\ call.short = FALSE
        /\ \A j \in 1 .. k - 1 : ~Over(o, v, j)
        /\ call.rc # "ok" => /\ k <= Len(v)
                             /\ IF v[k] = Bad THEN call.rc = "inval"
                                ELSE Over(o, v, k) /\ call.rc = "full"

\* what was read is the part of the file behind the offset, as long as the
\* iovecs before this one, or up to the end of the file
ReadInv ==
  call.op = "read" =>
    LET v == call.v
        k == call.k
        n == call.total
        o == want.open[call.fd]
        c == want.cont[o.name]
    IN  /\ GoodTo(v, k) /\ call.short \in BOOLEAN
        /\ n \in 0 .. Len(c) - o.ofs /\ call.got = SubSeq(c, o.ofs + 1, o.ofs + n)
        /\ IF call.short THEN n = Len(c) - o.ofs /\ n < Len(Before(v, k)) ELSE n = Len(Before(v, k))
        /\ call.rc # "ok" => ~call.short /\ k <= Len(v) /\ v[k] = Bad /\ call.rc = "inval"

\* A read or write that begins has done nothing; one that is refused says so.
LEMMA BeginAnswers ==
  ASSUME Honest, TypeInv, DataInv, RecInv, Truthful,
         NEW op \in {"read", "write"}, NEW fd \in GuestFds, NEW v \in Bufs, BeginIov(op, fd, v)
  PROVE  RecInv' /\ Truthful' /\ WriteInv' /\ ReadInv' /\ call'.op # "poll"
<1>0. Proper /\ Runs /\ fd \in Nat /\ DataInv' BY WasiBounds, BeginData DEF Honest, BeginIov
<1>1. /\ call = Idle /\ bound /\ Exact(fds, files, want)
      /\ fd_get(fd) <=> fd \in DOMAIN want.open
      /\ WantBadf(fd) = IF fd_get(fd) THEN "ok" ELSE "badf"
  BY <1>0, OpenIs
<1> DEFINE rc == IF Len(v) > MaxIovs THEN "inval" ELSE IF fd_get(fd) THEN "ok" ELSE "badf"
           w == IF Len(v) > MaxIovs THEN "inval" ELSE WantBadf(fd)
<1>2. /\ UNCHANGED <<fds, want>>
      /\ IF rc = "ok"
         THEN /\ call' = [op |-> op, fd |-> fd, v |-> v, k |-> 1, rc |-> "ok", total |-> 0,
                          got |-> <<>>, short |-> FALSE]
              /\ UNCHANGED last
         ELSE last' = Result(rc, w, None, None) /\ UNCHANGED call
  BY <1>1 DEF BeginIov
<1>3. rc = w BY <1>1
<1>4. rc = "ok" => fd_get(fd) OBVIOUS
<1> HIDE DEF rc, w
<1>5. CASE rc # "ok"
  <2>1. last' = Result(rc, w, None, None) /\ UNCHANGED call BY <1>2, <1>5
  <2>2. Truthful' BY <1>3, <2>1, TruthIs
  <2>3. call'.op = "idle" BY <1>1, <2>1 DEF Idle
  <2>4. WriteInv' /\ ReadInv' BY <2>3 DEF WriteInv, ReadInv
  <2> QED BY <1>2, <2>1, <2>2, <2>3, <2>4, RecSame
<1>6. CASE rc = "ok"
  <2>1. /\ call'.op = op /\ call'.fd = fd /\ call'.v = v /\ call'.k = 1 /\ call'.rc = "ok"
        /\ call'.total = 0 /\ call'.got = <<>> /\ call'.short = FALSE /\ UNCHANGED last
    BY <1>2, <1>6
  <2>2. Truthful' BY <2>1 DEF Truthful
  <2>3. RecInv'
    <3>1. call.op # "write" BY <1>1 DEF Idle
    <3> QED BY <1>2, <2>1, <3>1, RecSame
  <2>4. GoodTo(v, 1)
    <3>1. Len(v) \in Nat BY WasiBounds, LenProperties
    <3>2. 1 \in 1 .. Len(v) + 1 /\ \A j \in 1 .. 1 - 1 : FALSE BY <3>1
    <3> QED BY <3>2 DEF GoodTo
  <2>5. Before(v, 1) = <<>> /\ Len(Before(v, 1)) = 0 BY BeforeFirst, EmptySeq
  <2>6. WriteInv'
    <3> SUFFICES ASSUME call'.op = "write"
                 PROVE  LET x == call'.v
                            k == call'.k
                            o == want'.open[call'.fd]
                        IN  /\ GoodTo(x, k) /\ call'.short = FALSE
                            /\ \A j \in 1 .. k - 1 : ~Over(o, x, j)
                            /\ call'.rc # "ok" => /\ k <= Len(x)
                                                  /\ IF x[k] = Bad THEN call'.rc = "inval"
                                                     ELSE Over(o, x, k) /\ call'.rc = "full"
      BY DEF WriteInv
    <3> QED BY <2>1, <2>4
  <2>7. ReadInv'
    <3> DEFINE o == want.open[fd]
               c == want.cont[o.name]
    <3> SUFFICES ASSUME call'.op = "read"
                 PROVE  /\ GoodTo(v, 1)
                        /\ 0 \in 0 .. Len(c) - o.ofs /\ <<>> = SubSeq(c, o.ofs + 1, o.ofs + 0)
                        /\ 0 = Len(Before(v, 1))
      BY <1>2, <2>1 DEF ReadInv
    <3>1. IsFile(want, fd)
      <4>1. op = "read" BY <2>1
      <4> QED BY <1>1, <1>4, <1>6, <4>1 DEF BeginIov, Usable, Honest, Is, IsFile
    <3>2. o.ofs \in Nat /\ o.ofs <= Len(c) /\ Len(c) \in Nat BY <1>1, <3>1, FileIs
    <3> HIDE DEF o, c
    <3>3. SubSeq(c, o.ofs + 1, o.ofs + 0) = <<>>
      <4>1. o.ofs + 1 \in Int /\ o.ofs + 0 \in Int /\ o.ofs + 0 < o.ofs + 1 BY <3>2
      <4> QED BY <4>1, SubSeqEmpty
    <3> QED BY <2>4, <2>5, <3>2, <3>3
  <2>8. call'.op # "poll" BY <2>1
  <2> QED BY <2>2, <2>3, <2>6, <2>7, <2>8
<1> QED BY <1>5, <1>6

\* What fd_write does with one iovec, for a descriptor that is open.
LEMMA WriteAnswers ==
  ASSUME Honest, TypeInv, DataInv, RecInv, WriteInv, WriteIov
  PROVE  RecInv' /\ WriteInv' /\ call'.op = "write"
<1> DEFINE v == call.v
           k == call.k
           b == v[k]
           i == call.fd
           s == fds[i].pf
           o == want.open[i]
           r == ew_write(files, s, b)
           done == Before(v, k)
           n == call.total
           m == Len(b)
<1>1. FdsOK /\ RamOK(files) /\ InIo /\ More BY DEF TypeInv, WriteIov, InIo
<1>2. UNCHANGED want /\ call.op = "write" BY DEF WriteIov
<1>3. IoCall(call) /\ i \in Nat /\ k \in 1 .. Len(v) /\ v \in Bufs /\ Len(v) \in Nat
  BY <1>1, IoIs DEF IoCall
<1>4. PICK fs : Exact(fds, fs, want) /\ Since(call, fds, want, fs, files) BY <1>1 DEF DataInv
<1>5. /\ i \in DOMAIN want.open /\ n \in Nat /\ o.kind # "dir" /\ i # 0 /\ n = Len(done)
      /\ o.kind = "file" => Did(fs, files, s, o.ofs, n, "write", done)
  BY <1>2, <1>4 DEF Since
<1>6. /\ o.kind \in {"std", "dir", "fb", "file"} /\ (o.kind = "std" <=> i < 3)
      /\ (o.kind = "fb" <=> fds[i].fb) /\ i \in DOMAIN fds
  BY <1>4, <1>5 DEF Exact, Opens
<1>7. /\ GoodTo(v, k) /\ call.short = FALSE
      /\ \A j \in 1 .. k - 1 : ~Over(o, v, j)
  BY <1>2 DEF WriteInv
<1>8. call.rc = "ok" BY <1>1 DEF More
<1>9. b # Bad => /\ GoodTo(v, k + 1) /\ m \in Nat /\ b \in Seq(Bytes)
                 /\ Len(Before(v, k + 1)) = n + m
  BY <1>3, <1>5, <1>7, BeforeStep
\* an iovec for which there is room is written
<1>10. ASSUME NEW d, Advance(d), b # Bad, ~Over(o, v, k) PROVE WriteInv' /\ call'.op = "write"
  <2>1. call'.op = "write" /\ call'.fd = i /\ call'.v = v /\ call'.k = k + 1
        /\ call'.rc = "ok" /\ call'.short = FALSE
    BY <1>2, <1>3, <1>7, <1>8, <1>10, AdvanceIs DEF SameCall
  <2>2. \A j \in 1 .. (k + 1) - 1 : ~Over(o, v, j)
    <3>1. \A j \in 1 .. (k + 1) - 1 : j \in 1 .. k - 1 \/ j = k BY <1>3
    <3> QED BY <1>7, <1>10, <3>1
  <2>3. want'.open[call'.fd] = o BY <1>2, <2>1
  <2> HIDE DEF o, v, k
  <2> QED BY <1>9, <1>10, <2>1, <2>2, <2>3 DEF WriteInv, b
\* one for which there is none ends the loop
<1>11. ASSUME NEW rc, Break(rc), IF b = Bad THEN rc = "inval" ELSE Over(o, v, k) /\ rc = "full"
       PROVE  WriteInv' /\ call'.op = "write"
  <2>1. call'.op = "write" /\ call'.fd = i /\ call'.v = v /\ call'.k = k
        /\ call'.rc = rc /\ call'.short = FALSE
    BY <1>2, <1>3, <1>7, <1>11, BreakIs DEF SameCall
  <2>2. want'.open[call'.fd] = o BY <1>2, <2>1
  <2>3. k <= Len(v) BY <1>3
  <2> HIDE DEF o, v, k
  <2> QED BY <1>7, <1>11, <2>1, <2>2, <2>3 DEF WriteInv, b
\* only the framebuffer counts what was written to it
<1>12. ASSUME UNCHANGED fds, o.kind # "fb", SameCall PROVE RecInv'
  <2>1. ASSUME NEW j \in DOMAIN want.open, want.open[j].kind = "fb" PROVE Moved(j)' = Moved(j)
    <3>1. j # i BY <1>12, <2>1
    <3>2. call'.fd = i BY <1>12 DEF SameCall
    <3>3. Moved(j) = 0 BY <3>1 DEF Moved
    <3>4. Moved(j)' = 0 BY <3>1, <3>2 DEF Moved
    <3> QED BY <3>3, <3>4
  <2> QED BY <1>2, <1>12, <2>1, RecKeep
<1>13. ASSUME UNCHANGED fds, NEW rc, Break(rc) PROVE RecInv'
  <2>1. SameCall /\ call'.total = call.total BY <1>3, <1>13, BreakIs
  <2>2. \A j : Moved(j)' = Moved(j) BY <2>1 DEF Moved, SameCall
  <2> QED BY <1>2, <1>13, <2>2, RecKeep
<1> HIDE DEF b, i, s, o, done, n, m, v, k
<1>14. CASE b = Bad
  <2>1. Break("inval") /\ UNCHANGED fds BY <1>14 DEF WriteIov, b, v, k
  <2> QED BY <1>11, <1>13, <1>14, <2>1
<1>15. CASE b # Bad /\ i \in {1, 2}
  <2>1. Advance(m) /\ UNCHANGED fds BY <1>15 DEF WriteIov, b, v, k, i, m
  <2>2. o.kind = "std" BY <1>6, <1>15
  <2>3. ~Over(o, v, k) BY <2>2 DEF Over, Bounded
  <2>4. SameCall BY <1>3, <2>1, AdvanceIs
  <2> QED BY <1>10, <1>12, <1>15, <2>1, <2>2, <2>3, <2>4
<1>16. CASE b # Bad /\ i \notin {1, 2} /\ fds[i].fb
  <2>1. IF fds[i].fb_len + m > FbCap THEN Break("full") /\ UNCHANGED fds
        ELSE Advance(m) /\ fds' = [fds EXCEPT ![i].fb_len = @ + m]
    BY <1>16 DEF WriteIov, b, v, k, i, m
  <2>2. o.kind = "fb" BY <1>6, <1>16
  <2>3. fds[i].fb_len = o.ofs + n
    <3>1. Moved(i) = n BY <1>2 DEF Moved, i, n
    <3> QED BY <1>5, <2>2, <3>1 DEF RecInv, o
  <2>4. o.ofs \in Nat
    <3>1. RecIs(fds[i], o) BY <1>5 DEF RecInv, o
    <3> QED BY <2>2, <3>1 DEF RecIs
  <2>5. Over(o, v, k) <=> fds[i].fb_len + m > FbCap
    <3>1. FbCap \in Nat /\ n \in Nat /\ m \in Nat BY <1>5, <1>9, <1>16, WasiBounds
    <3>2. Over(o, v, k) <=> n + m > FbCap - o.ofs BY <1>9, <1>16, <2>2 DEF Over, Bounded, Room
    <3> QED BY <2>3, <2>4, <3>1, <3>2
  <2>6. CASE fds[i].fb_len + m > FbCap
    <3>1. Break("full") /\ UNCHANGED fds BY <2>1, <2>6
    <3> QED BY <1>11, <1>13, <1>16, <2>5, <2>6, <3>1
  <2>7. CASE ~ (fds[i].fb_len + m > FbCap)
    <3>1. Advance(m) /\ fds' = [fds EXCEPT ![i].fb_len = @ + m] BY <2>1, <2>7
    <3>2. WriteInv' /\ call'.op = "write" BY <1>10, <1>16, <2>5, <2>7, <3>1
    <3>3. call'.op = "write" /\ call'.fd = i /\ call'.total = n + m
      BY <1>2, <1>3, <3>1, AdvanceIs DEF SameCall, i, n
    <3>4. fds[i] \in FdRec BY <1>1, <1>6 DEF FdsOK
    <3>5. fds'[i] = [fds[i] EXCEPT !.fb_len = @ + m] BY <1>6, <3>1
    <3>6. /\ fds'[i].kind = fds[i].kind /\ fds'[i].pre = fds[i].pre /\ fds'[i].base = fds[i].base
          /\ fds'[i].fb_len = fds[i].fb_len + m
      BY <3>4, <3>5 DEF FdRec
    <3>7. ASSUME NEW j \in DOMAIN want'.open
          PROVE  /\ RecIs(fds'[j], want'.open[j])
                 /\ want'.open[j].kind = "fb" => fds'[j].fb_len = want'.open[j].ofs + Moved(j)'
      <4>1. j \in DOMAIN want.open /\ want'.open[j] = want.open[j] BY <1>2
      <4>2. CASE j = i
        <5>1. RecIs(fds[i], want.open[i]) BY <1>5 DEF RecInv
        <5>2. RecIs(fds'[i], want.open[i]) BY <3>6, <5>1 DEF RecIs
        <5>3. Moved(j)' = n + m BY <3>3, <4>2 DEF Moved
        <5>4. fds'[i].fb_len = o.ofs + (n + m) BY <1>5, <1>9, <1>16, <2>3, <2>4, <3>6
        <5>5. want'.open[j] = o BY <4>1, <4>2 DEF o
        <5> QED BY <4>1, <4>2, <5>2, <5>3, <5>4, <5>5
      <4>3. CASE j # i
        <5>1. fds'[j] = fds[j] BY <3>1, <4>3
        <5>2. Moved(j) = 0 BY <4>3 DEF Moved, i
        <5>3. Moved(j)' = 0 BY <3>3, <4>3 DEF Moved
        <5> QED BY <4>1, <5>1, <5>2, <5>3 DEF RecInv
      <4> QED BY <4>2, <4>3
    <3>8. RecInv' BY <3>7 DEF RecInv, RecIs
    <3> QED BY <3>2, <3>8
  <2> QED BY <2>6, <2>7
<1>17. CASE b # Bad /\ i \notin {1, 2} /\ ~fds[i].fb
  <2>1. (IF r.rc = "ok" THEN Advance(r.out) ELSE Break(r.rc)) /\ UNCHANGED fds
    BY <1>17 DEF WriteIov, b, v, k, i, s
  <2>2. o.kind = "file"
    <3>1. ~ (i < 3) BY <1>3, <1>5, <1>17 DEF i
    <3> QED BY <1>5, <1>6, <1>17, <3>1
  <2>3. Did(fs, files, s, o.ofs, n, "write", done) BY <1>5, <2>2
  <2>4. IsFile(want, i) BY <1>5, <2>2 DEF IsFile, o
  <2>5. s \in Slots /\ o.ofs \in Nat BY <1>4, <2>4, FileIs DEF s, o
  <2>6. files[s].used /\ files[s].ofs = o.ofs + n /\ files[s].ofs <= Len(files[s].data) BY <2>3 DEF Did
  <2>7. b \in Seq(Bytes) /\ m \in Nat /\ m = Len(b) BY <1>9, <1>17 DEF m
  <2>8. Place(files[s]) = o.ofs + n BY <1>1, <2>5, <2>6, PlaceIs
  <2>9. r.rc = IF Place(files[s]) + Len(b) <= MaxSize THEN "ok" ELSE "full"
    BY <1>1, <2>5, <2>6, <2>7, RamWriteIs
  <2> HIDE DEF r
  <2>10. Over(o, v, k) <=> r.rc # "ok"
    <3>1. MaxSize \in Nat /\ n \in Nat /\ m \in Nat BY <1>5, <2>7, RamBounds
    <3>2. Over(o, v, k) <=> n + m > MaxSize - o.ofs BY <1>9, <1>17, <2>2 DEF Over, Bounded, Room
    <3>3. r.rc # "ok" <=> ~ (o.ofs + n + m <= MaxSize) BY <2>7, <2>8, <2>9
    <3> QED BY <2>5, <3>1, <3>2, <3>3
  <2>11. CASE r.rc # "ok"
    <3>1. Break(r.rc) /\ UNCHANGED fds /\ r.rc = "full" BY <2>1, <2>9, <2>11
    <3> QED BY <1>11, <1>13, <1>17, <2>10, <2>11, <3>1
  <2>12. CASE r.rc = "ok"
    <3> DEFINE d == r.out
    <3>1. Advance(d) /\ UNCHANGED fds BY <2>1, <2>12
    <3> HIDE DEF d
    <3>2. SameCall BY <1>3, <3>1, AdvanceIs
    <3>3. RecInv' BY <1>12, <2>2, <3>1, <3>2
    <3>4. WriteInv' /\ call'.op = "write" BY <1>10, <1>17, <2>10, <2>12, <3>1
    <3> QED BY <3>3, <3>4
  <2> QED BY <2>11, <2>12
<1> QED BY <1>14, <1>15, <1>16, <1>17


\* What fd_write answers: the bytes that went through, and why it stopped.
LEMMA EndWriteAnswers ==
  ASSUME Honest, TypeInv, DataInv, RecInv, WriteInv, EndWrite
  PROVE  RecInv' /\ Truthful' /\ call' = Idle
<1> DEFINE v == call.v
           k == call.k
           i == call.fd
           n == call.total
           o == want.open[i]
           done == Before(v, k)
           bnd == o.kind \in {"file", "fb"}
           room == (IF o.kind = "file" THEN MaxSize ELSE FbCap) - o.ofs
           j == FailsAt(v, bnd, room)
           wrc == IF j = 0 THEN "ok" ELSE IF v[j] = Bad THEN "inval" ELSE "full"
           wn == IF j = 0 THEN Len(Before(v, Len(v) + 1)) ELSE Len(Before(v, j))
<1>1. WantOK /\ InIo /\ call.op = "write" /\ ~More BY DEF TypeInv, EndWrite, InIo
<1>2. call' = Idle /\ UNCHANGED fds BY DEF EndWrite
<1>3. last' = Result(call.rc, wrc, Told(n), wn) BY DEF EndWrite
<1>4. IoCall(call) /\ v \in Bufs /\ Len(v) \in Nat BY <1>1, IoIs DEF IoCall
<1>5. PICK fs : Exact(fds, fs, want) /\ Since(call, fds, want, fs, files) BY <1>1 DEF DataInv
<1>6. /\ i \in DOMAIN want.open /\ n \in Nat /\ o.kind # "dir"
      /\ done \in Seq(Bytes) /\ n = Len(done)
  BY <1>1, <1>5 DEF Since
<1>7. o.kind \in {"std", "dir", "fb", "file"} BY <1>5, <1>6 DEF Exact, Opens
<1>8. /\ GoodTo(v, k) /\ call.short = FALSE
      /\ \A x \in 1 .. k - 1 : ~Over(o, v, x)
      /\ call.rc # "ok" => k <= Len(v) /\ (IF v[k] = Bad THEN call.rc = "inval"
                                           ELSE Over(o, v, k) /\ call.rc = "full")
  BY <1>1 DEF WriteInv
<1>9. \A x : Over(o, v, x) <=> bnd /\ Len(Before(v, x + 1)) > room BY DEF Over, Bounded, Room
<1>10. bnd \in BOOLEAN /\ k \in 1 .. Len(v) + 1 BY <1>8 DEF GoodTo
<1> HIDE DEF bnd, room, o
<1>11. /\ k > Len(v) => j = 0
       /\ k <= Len(v) /\ (v[k] = Bad \/ Over(o, v, k)) => j = k
  <2>1. \A x \in 1 .. k - 1 : ~ (bnd /\ Len(Before(v, x + 1)) > room) BY <1>8, <1>9
  <2> HIDE DEF v, k
  <2> QED BY <1>4, <1>8, <1>9, <1>10, <2>1, FailsIs
<1> HIDE DEF j
<1>12. call.rc = wrc /\ n = wn
  <2>1. CASE call.rc = "ok"
    <3>0. ~ (k <= Len(v)) BY <1>1, <1>8, <2>1 DEF More
    <3>1. k > Len(v) BY <1>4, <1>10, <3>0
    <3>2. k = Len(v) + 1 /\ j = 0 BY <1>4, <1>10, <1>11, <3>1
    <3> QED BY <1>6, <2>1, <3>2
  <2>2. CASE call.rc # "ok"
    <3>1. j = k /\ k # 0 BY <1>4, <1>8, <1>10, <1>11, <2>2
    <3> QED BY <1>6, <1>8, <2>2, <3>1
  <2> QED BY <2>1, <2>2
<1>13. Told(n) = n
  <2>1. call # Idle BY <1>1 DEF Idle
  <2> QED BY <2>1 DEF DataInv, Told, bound
<1> DEFINE tn == Told(n)
           rc == call.rc
<1>14. last' = Result(rc, wrc, tn, wn) /\ rc = wrc /\ tn = wn BY <1>3, <1>12, <1>13
<1> HIDE DEF tn, rc, wrc, wn
<1>15. Truthful' BY <1>14, TruthIs
<1>16. RecInv'
  <2>1. CASE o.kind = "std"
    <3>1. UNCHANGED want BY <2>1 DEF EndWrite, o
    <3>2. ASSUME NEW x \in DOMAIN want.open, want.open[x].kind = "fb" PROVE Moved(x)' = Moved(x)
      <4>1. x # i BY <2>1, <3>2 DEF o
      <4>2. Moved(x) = 0 BY <4>1 DEF Moved
      <4>3. Moved(x)' = 0 BY <1>2 DEF Moved, Idle
      <4> QED BY <4>2, <4>3
    <3> QED BY <1>2, <3>1, <3>2, RecKeep
  <2>2. CASE o.kind # "std"
    <3> DEFINE q == o.ofs + n
    <3>1. want'.open = [want.open EXCEPT ![i].ofs = q]
      <4>1. CASE o.kind = "fb"
        <5>1. want' = [want EXCEPT !.open[i].ofs = @ + n] BY <4>1 DEF EndWrite, o
        <5>2. want' = [want EXCEPT !.open[i].ofs = q] BY <1>1, <1>6, <5>1 DEF WantOK, o
        <5> HIDE DEF q
        <5> QED BY <1>1, <5>2, WantMoved
      <4>2. CASE o.kind = "file"
        <5> DEFINE d == Written(IF o.ofs > Len(want.cont[o.name]) THEN Holed(want.cont[o.name], o.ofs)
                                ELSE want.cont[o.name], o.ofs, SubSeq(done, 1, n))
        <5>1. want' = [want EXCEPT !.open[i].ofs = @ + n,
                                   !.cont[o.name] = Written(IF o.ofs > Len(@) THEN Holed(@, o.ofs) ELSE @,
                                                            o.ofs, SubSeq(done, 1, n))]
          BY <4>2 DEF EndWrite, o
        <5>2. IsFile(want, i) BY <1>6, <4>2 DEF IsFile, o
        <5>3. o.name \in DOMAIN want.cont BY <1>5, <5>2, FileIs DEF o
        <5>4. want' = [want EXCEPT !.open[i].ofs = q, !.cont[o.name] = d]
          BY <1>1, <1>6, <5>1, <5>3 DEF WantOK, o
        <5> HIDE DEF q, d
        <5> QED BY <1>1, <5>4, WantWritten
      <4> QED BY <1>6, <1>7, <2>2, <4>1, <4>2
    <3>2. o.kind = "fb" => q \in Nat /\ q = o.ofs + Moved(i)
      <4>1. RecIs(fds[i], o) BY <1>6 DEF RecInv, o
      <4>2. o.kind = "fb" => o.ofs \in Nat BY <4>1 DEF RecIs
      <4>3. Moved(i) = n BY <1>1 DEF Moved
      <4> QED BY <1>6, <4>2, <4>3
    <3>3. call'.op # "write" BY <1>2 DEF Idle
    <3> HIDE DEF q, i
    <3>4. call.op = "write" => call.fd = i BY DEF i
    <3> QED BY <1>2, <1>5, <1>6, <3>1, <3>2, <3>3, <3>4, RecMoved DEF o
  <2> QED BY <2>1, <2>2
<1> QED BY <1>2, <1>15, <1>16

\* What fd_read does with one iovec.
LEMMA ReadAnswers ==
  ASSUME Honest, TypeInv, DataInv, RecInv, ReadInv, ReadIov
  PROVE  RecInv' /\ ReadInv' /\ call'.op = "read"
<1> DEFINE v == call.v
           k == call.k
           b == v[k]
           i == call.fd
           s == fds[i].pf
           o == want.open[i]
           c == want.cont[o.name]
           r == ew_read(files, s, Len(b))
           n == call.total
<1>1. FdsOK /\ RamOK(files) /\ InIo /\ More BY DEF TypeInv, ReadIov, InIo
<1>2. UNCHANGED <<fds, want>> /\ call.op = "read" BY DEF ReadIov
<1>3. IoCall(call) /\ k \in 1 .. Len(v) /\ v \in Bufs /\ Len(v) \in Nat
  BY <1>1, IoIs DEF IoCall
<1>4. PICK fs : Exact(fds, fs, want) /\ Since(call, fds, want, fs, files) BY <1>1 DEF DataInv
<1>5. i \in DOMAIN want.open /\ n \in Nat /\ o.kind = "file"
      /\ Did(fs, files, s, o.ofs, n, "read", Before(v, k))
  BY <1>2, <1>4 DEF Since
<1>6. IsFile(want, i) BY <1>5 DEF IsFile
<1>7. /\ s \in Slots /\ o.ofs \in Nat /\ o.ofs <= Len(c)
      /\ files[s].used /\ files[s].ofs = o.ofs + n /\ files[s].ofs <= Len(files[s].data)
      /\ files[s].data = c
  <2>1. Exact(fds, fs, want) /\ IsFile(want, i) BY <1>4, <1>6
  <2>2. /\ s \in Slots /\ fs[s].used /\ o.ofs \in Nat /\ o.ofs <= Len(c) /\ fs[s].data = c
    BY <2>1, FileIs
  <2>3. Did(fs, files, s, o.ofs, n, "read", Before(v, k)) BY <1>5
  <2> HIDE DEF s, o, c
  <2> QED BY <1>5, <2>2, <2>3 DEF Did
<1>8. c \in Seq(Bytes) /\ Len(c) \in Nat
  <2>1. Exact(fds, fs, want) /\ IsFile(want, i) BY <1>4, <1>6
  <2> QED BY <2>1, FileIs
<1>9. /\ GoodTo(v, k) /\ call.short \in BOOLEAN
      /\ n \in 0 .. Len(c) - o.ofs /\ call.got = SubSeq(c, o.ofs + 1, o.ofs + n)
      /\ IF call.short THEN n = Len(c) - o.ofs /\ n < Len(Before(v, k)) ELSE n = Len(Before(v, k))
  BY <1>2 DEF ReadInv
<1>10. call.short = FALSE /\ call.rc = "ok" BY <1>1, <1>9 DEF More
<1>11. ASSUME call'.op = "read" PROVE RecInv'
  <2>1. call.op # "write" BY <1>2
  <2> QED BY <1>2, <1>11, <2>1, RecSame
\* the invariant after the step, field by field
<1>12. ASSUME NEW q, NEW x, NEW g, NEW short \in BOOLEAN, NEW rc,
              call'.op = "read", call'.fd = i, call'.v = v, call'.k = q, call'.total = x, call'.got = g,
              call'.short = short, call'.rc = rc,
              GoodTo(v, q), x \in 0 .. Len(c) - o.ofs, g = SubSeq(c, o.ofs + 1, o.ofs + x),
              IF short THEN x = Len(c) - o.ofs /\ x < Len(Before(v, q)) ELSE x = Len(Before(v, q)),
              rc # "ok" => ~short /\ q <= Len(v) /\ v[q] = Bad /\ rc = "inval"
       PROVE  ReadInv'
  <2>1. want'.open[call'.fd] = o /\ want'.cont = want.cont BY <1>2, <1>12
  <2> HIDE DEF o, v
  <2> QED BY <1>12, <2>1 DEF ReadInv
<1>13. CASE b = Bad
  <2>1. Break("inval") BY <1>13 DEF ReadIov
  <2>2. call'.op = "read" /\ call'.fd = i /\ call'.v = v /\ call'.k = k /\ call'.total = n
        /\ call'.rc = "inval" /\ call'.short = FALSE
    BY <1>2, <1>3, <1>10, <2>1, BreakIs DEF SameCall
  <2>3. call'.got = call.got BY <1>3, <2>1 DEF IoCall, Break
  <2>4. k <= Len(v) /\ n = Len(Before(v, k)) BY <1>3, <1>9, <1>10
  <2> HIDE DEF v, k, i, n, o, c
  <2>5. ReadInv' BY <1>9, <1>12, <1>13, <2>2, <2>3, <2>4 DEF b
  <2> QED BY <1>11, <2>2, <2>5
<1>14. CASE b # Bad
  <2> DEFINE at == Place(files[s])
             l == Len(b)
             m == Least(Len(files[s].data) - at, l)
             out == r.out
             short == Len(out) < l
             g == call.got
  <2>1. /\ GoodTo(v, k + 1) /\ Len(Before(v, k)) \in Nat /\ l \in Nat
        /\ Len(Before(v, k + 1)) = Len(Before(v, k)) + l
    BY <1>3, <1>9, <1>14, BeforeStep
  <2>2. n = Len(Before(v, k)) BY <1>9, <1>10
  <2> HIDE DEF b, i, s, o, n, v, k, c, l
  <2>3. at = o.ofs + n BY <1>1, <1>7, PlaceIs
  <2>4. at \in Nat /\ m \in Nat /\ at + m <= Len(c) /\ m <= l /\ (m < l => at + m = Len(c))
    <3> DEFINE z == Len(c)
    <3>1. at \in Nat /\ z \in Nat /\ at <= z BY <1>5, <1>7, <1>8, <2>3
    <3>2. m = Least(z - at, l) BY <1>7
    <3> HIDE DEF at, m, z
    <3>3. CASE z - at <= l
      <4>1. m = z - at BY <3>2, <3>3 DEF Least
      <4> QED BY <2>1, <3>1, <3>3, <4>1 DEF z
    <3>4. CASE ~ (z - at <= l)
      <4>1. m = l BY <3>2, <3>4 DEF Least
      <4> QED BY <2>1, <3>1, <3>4, <4>1 DEF z
    <3> QED BY <3>3, <3>4
  <2>5. r.rc = "ok" /\ out = SubSeq(c, at + 1, at + m) BY <1>7 DEF ew_read, Answer, l
  <2> HIDE DEF at, m
  <2>6. Len(out) = m
    <3>1. at \in 0 .. Len(c) BY <1>8, <2>4
    <3> HIDE DEF out
    <3> QED BY <1>8, <2>4, <2>5, <3>1, PartIs
  <2>7. call' = [call EXCEPT !.k = @ + 1, !.total = @ + Len(out), !.got = @ \o out, !.short = short]
    BY <1>14, <2>5 DEF ReadIov, b, i, s, v, k, l
  <2>8. short \in BOOLEAN /\ (short <=> m < l) BY <2>6
  <2> HIDE DEF short, out, r
  <2>9. call'.op = "read" /\ call'.fd = i /\ call'.v = v /\ call'.k = k + 1 /\ call'.total = n + m
        /\ call'.got = g \o out /\ call'.short = short /\ call'.rc = "ok"
    BY <1>2, <1>3, <1>10, <2>6, <2>7, ReadStepIs DEF SameCall, i, n, v, k
  <2>10. g \o out = SubSeq(c, o.ofs + 1, o.ofs + (n + m))
    <3>1. o.ofs \in 0 .. Len(c) /\ o.ofs + n + m <= Len(c) BY <1>7, <1>8, <2>3, <2>4
    <3>2. SubSeq(c, o.ofs + 1, o.ofs + n) \o SubSeq(c, o.ofs + n + 1, o.ofs + n + m)
          = SubSeq(c, o.ofs + 1, o.ofs + (n + m))
      <4> DEFINE from == o.ofs
      <4>1. c \in Seq(Bytes) /\ n \in Nat /\ m \in Nat BY <1>5, <1>8, <2>4
      <4>2. from \in 0 .. Len(c) /\ from + n + m <= Len(c) BY <3>1
      <4> HIDE DEF from
      <4>3. SubSeq(c, from + 1, from + n) \o SubSeq(c, from + n + 1, from + n + m)
            = SubSeq(c, from + 1, from + (n + m))
        BY <4>1, <4>2, PartsJoin
      <4> QED BY <4>3 DEF from
    <3>3. out = SubSeq(c, o.ofs + n + 1, o.ofs + n + m) BY <2>3, <2>5
    <3> QED BY <1>9, <3>2, <3>3
  <2>11. n + m \in 0 .. Len(c) - o.ofs BY <1>5, <1>7, <1>8, <2>3, <2>4
  <2>12. short \in BOOLEAN
         /\ IF short THEN n + m = Len(c) - o.ofs /\ n + m < Len(Before(v, k + 1))
            ELSE n + m = Len(Before(v, k + 1))
    <3>1. CASE m < l
      <4>1. n + m = Len(c) - o.ofs BY <1>5, <1>7, <1>8, <2>3, <2>4, <3>1
      <4>2. n + m < Len(Before(v, k + 1)) BY <1>5, <2>1, <2>2, <2>4, <3>1
      <4> QED BY <2>8, <3>1, <4>1, <4>2
    <3>2. CASE ~ (m < l)
      <4>1. m = l BY <2>1, <2>4, <3>2
      <4>2. n + m = Len(Before(v, k + 1)) BY <2>1, <2>2, <4>1
      <4>3. short \in BOOLEAN /\ ~short BY <2>8, <3>2
      <4> QED BY <4>2, <4>3
    <3> QED BY <3>1, <3>2
  <2> DEFINE q == k + 1
             x == n + m
             h == g \o out
  <2>13. call'.k = q /\ call'.total = x /\ call'.got = h BY <2>9
  <2>14. GoodTo(v, q) /\ x \in 0 .. Len(c) - o.ofs /\ h = SubSeq(c, o.ofs + 1, o.ofs + x)
         /\ IF short THEN x = Len(c) - o.ofs /\ x < Len(Before(v, q)) ELSE x = Len(Before(v, q))
    BY <2>1, <2>10, <2>11, <2>12
  <2> HIDE DEF q, x, h
  <2>15. ReadInv' BY <1>12, <2>9, <2>12, <2>13, <2>14
  <2> QED BY <1>11, <2>9, <2>15
<1> QED BY <1>13, <1>14

\* What fd_read answers: the bytes behind the offset, as many as the iovecs
\* before the first bad one ask for, and the bad one only if there are enough.
LEMMA EndReadAnswers ==
  ASSUME Honest, TypeInv, DataInv, RecInv, ReadInv, EndRead
  PROVE  RecInv' /\ Truthful' /\ call' = Idle
<1> DEFINE v == call.v
           k == call.k
           i == call.fd
           n == call.total
           o == want.open[i]
           c == want.cont[o.name]
           got == call.got
           rest == IF o.kind = "file" /\ o.ofs <= Len(c) THEN SubSeq(c, o.ofs + 1, Len(c)) ELSE <<>>
           bads == {j \in DOMAIN v : v[j] = Bad}
           stop == IF bads = {} THEN Len(v) + 1 ELSE First(bads)
           asks == Len(Before(v, stop))
           size == Len(rest)
           wn == Least(asks, size)
           wrc == IF bads # {} /\ asks <= size THEN "inval" ELSE "ok"
           wgot == SubSeq(rest, 1, wn)
<1>1. WantOK /\ InIo /\ call.op = "read" /\ ~More BY DEF TypeInv, EndRead, InIo
<1>2. /\ call' = Idle /\ UNCHANGED fds /\ want' = [want EXCEPT !.open[i].ofs = @ + n]
      /\ last' = Result(call.rc, wrc, Told(got), wgot)
  BY DEF EndRead
<1>3. v \in Bufs /\ Len(v) \in Nat /\ DOMAIN v = 1 .. Len(v)
  <2>1. v \in Bufs /\ v \in Seq(Seq(Nat) \cup {Bad}) BY <1>1, IoIs DEF IoCall
  <2> QED BY <2>1, LenProperties
<1>4. PICK fs : Exact(fds, fs, want) /\ Since(call, fds, want, fs, files) BY <1>1 DEF DataInv
<1>5. i \in DOMAIN want.open /\ n \in Nat /\ o.kind = "file" BY <1>1, <1>4 DEF Since
<1>6. IsFile(want, i) BY <1>5 DEF IsFile
<1>7. o.ofs \in Nat /\ o.ofs <= Len(c) /\ c \in Seq(Bytes) /\ Len(c) \in Nat
  <2>1. Exact(fds, fs, want) /\ IsFile(want, i) BY <1>4, <1>6
  <2> QED BY <2>1, FileIs
<1>8. /\ GoodTo(v, k) /\ call.short \in BOOLEAN
      /\ n \in 0 .. Len(c) - o.ofs /\ got = SubSeq(c, o.ofs + 1, o.ofs + n)
      /\ IF call.short THEN n = Len(c) - o.ofs /\ n < Len(Before(v, k)) ELSE n = Len(Before(v, k))
      /\ call.rc # "ok" => ~call.short /\ k <= Len(v) /\ v[k] = Bad /\ call.rc = "inval"
  BY <1>1 DEF ReadInv
<1>9. k \in 1 .. Len(v) + 1 /\ \A j \in 1 .. k - 1 : v[j] # Bad BY <1>8 DEF GoodTo
<1>10. rest = SubSeq(c, o.ofs + 1, Len(c)) BY <1>5, <1>7
<1>11. size = Len(c) - o.ofs /\ size \in Nat
  <2> DEFINE a == o.ofs
             t == Len(c) - a
             z == Len(c)
  <2>0. a \in Nat /\ z \in Nat /\ a <= z /\ t = z - a BY <1>7
  <2> HIDE DEF a, t, z
  <2>1. a \in 0 .. Len(c) /\ t \in Nat /\ a + t = Len(c)
    <3>1. a \in 0 .. z /\ t \in Nat /\ a + t = z BY <2>0
    <3> QED BY <3>1 DEF z
  <2> HIDE DEF c
  <2>2. Len(SubSeq(c, a + 1, a + t)) = t BY <1>7, <2>1, PartIs
  <2>3. rest = SubSeq(c, a + 1, a + t) BY <1>10, <2>1 DEF a
  <2> HIDE DEF rest
  <2> QED BY <2>1, <2>2, <2>3 DEF t, a
\* the first iovec outside the memory lies no further than the loop got
<1>12. GoodTo(v, stop) /\ k <= stop /\ (bads # {} => stop \in bads)
  <2>1. CASE bads = {}
    <3>1. stop = Len(v) + 1 BY <2>1
    <3>2. \A j \in 1 .. Len(v) : v[j] # Bad BY <1>3, <2>1
    <3> HIDE DEF stop, bads
    <3>3. stop \in 1 .. Len(v) + 1 /\ \A j \in 1 .. stop - 1 : j \in 1 .. Len(v) BY <1>3, <3>1
    <3> QED BY <1>3, <1>9, <2>1, <3>1, <3>2, <3>3 DEF GoodTo
  <2>2. CASE bads # {}
    <3>1. bads \subseteq Nat BY <1>3
    <3>2. stop \in bads /\ \A j \in bads : stop <= j BY <2>2, <3>1, FirstIs
    <3> HIDE DEF stop
    <3>3. stop \in 1 .. Len(v) /\ v[stop] = Bad BY <1>3, <3>2
    <3>4. ~ (stop \in 1 .. k - 1) BY <1>9, <3>3
    <3>5. \A j \in 1 .. stop - 1 : v[j] # Bad
      <4> SUFFICES ASSUME NEW j \in 1 .. stop - 1, v[j] = Bad PROVE FALSE OBVIOUS
      <4>1. j \in 1 .. Len(v) /\ ~ (stop <= j) BY <1>3, <3>3
      <4>2. j \in bads BY <1>3, <4>1
      <4> QED BY <3>2, <4>1, <4>2
    <3>6. k <= stop /\ stop \in 1 .. Len(v) + 1 BY <1>3, <1>9, <3>3, <3>4
    <3> QED BY <3>2, <3>5, <3>6 DEF GoodTo
  <2> QED BY <2>1, <2>2
<1>13. asks \in Nat /\ Len(Before(v, k)) <= asks /\ Len(Before(v, k)) \in Nat
  <2> HIDE DEF stop, v, k
  <2> QED BY <1>3, <1>8, <1>9, <1>12, BeforeSeq, BeforeGrows
<1>14. bads # {} => v[stop] = Bad /\ stop \in 1 .. Len(v) BY <1>3, <1>12
<1> HIDE DEF rest, size, o, c
<1>15. call.rc = wrc /\ n = wn
  <2>1. CASE call.rc # "ok"
    <3>1. k \in 1 .. Len(v) /\ v[k] = Bad /\ call.rc = "inval" /\ ~call.short BY <1>8, <1>9, <2>1
    <3>2. k \in bads BY <1>3, <3>1
    <3>3. stop = k
      <4>1. ~ (k \in 1 .. stop - 1) BY <1>12, <3>1 DEF GoodTo
      <4>2. bads # {} BY <3>2
      <4>3. stop \in 1 .. Len(v) BY <1>14, <4>2
      <4> HIDE DEF stop, bads
      <4> QED BY <1>3, <1>12, <3>1, <4>1, <4>3
    <3>4. asks = n /\ n <= size
      <4>1. n = Len(Before(v, k)) BY <1>8, <3>1
      <4>2. n <= size BY <1>5, <1>8, <1>11
      <4> QED BY <3>3, <4>1, <4>2
    <3>5. bads # {} BY <3>2
    <3> HIDE DEF bads, stop, asks
    <3> QED BY <3>1, <3>4, <3>5 DEF Least
  <2>2. CASE call.rc = "ok" /\ call.short
    <3>1. n = size /\ n < asks BY <1>5, <1>8, <1>11, <1>13, <2>2
    <3> HIDE DEF bads, stop, asks
    <3>2. ~ (asks <= size) BY <1>11, <1>13, <3>1
    <3> QED BY <2>2, <3>1, <3>2 DEF Least
  <2>3. CASE call.rc = "ok" /\ ~call.short
    <3>1. ~ (k <= Len(v)) BY <1>1, <2>3 DEF More
    <3>2. k = Len(v) + 1 BY <1>3, <1>9, <3>1
    <3>3. bads = {}
      <4> SUFFICES ASSUME bads # {} PROVE FALSE OBVIOUS
      <4>1. stop \in 1 .. Len(v) BY <1>14
      <4> HIDE DEF stop, bads
      <4>2. Len(v) \in Nat /\ k = Len(v) + 1 /\ k <= stop BY <1>3, <1>12, <3>2
      <4> HIDE DEF v, k
      <4> QED BY <4>1, <4>2
    <3>4. stop = k BY <3>2, <3>3
    <3>5. asks = n /\ n <= size
      <4>1. n = Len(Before(v, k)) BY <1>8, <2>3
      <4>2. n <= size BY <1>5, <1>8, <1>11
      <4> QED BY <3>4, <4>1, <4>2
    <3> HIDE DEF stop, asks
    <3> QED BY <2>3, <3>3, <3>5 DEF Least
  <2> QED BY <2>1, <2>2, <2>3
<1> HIDE DEF wn, wrc, bads, stop, asks
<1>16. got = wgot
  <2>1. o.ofs \in 0 .. Len(c) /\ n \in 0 .. Len(c) - o.ofs
    <3> HIDE DEF c, o
    <3>1. o.ofs \in 0 .. Len(c) BY <1>7
    <3>2. n \in 0 .. Len(c) - o.ofs BY <1>8
    <3> QED BY <3>1, <3>2
  <2>2. SubSeq(SubSeq(c, o.ofs + 1, Len(c)), 1, n) = SubSeq(c, o.ofs + 1, o.ofs + n)
    BY <1>7, <2>1, PartOfPart DEF o, c
  <2> QED BY <1>8, <1>10, <1>15, <2>2 DEF o, c
<1>17. Told(got) = got
  <2>1. call # Idle BY <1>1 DEF Idle
  <2> QED BY <2>1 DEF DataInv, Told, bound
<1> DEFINE tg == Told(got)
           rc == call.rc
<1>18. last' = Result(rc, wrc, tg, wgot) /\ rc = wrc /\ tg = wgot BY <1>2, <1>15, <1>16, <1>17
<1> HIDE DEF tg, rc, wgot
<1>19. Truthful' BY <1>18, TruthIs
<1>20. RecInv'
  <2> DEFINE q == o.ofs + n
  <2>1. want' = [want EXCEPT !.open[i].ofs = q] BY <1>1, <1>2, <1>5 DEF WantOK, o
  <2> HIDE DEF q
  <2>2. want'.open = [want.open EXCEPT ![i].ofs = q] BY <1>1, <2>1, WantMoved
  <2>3. call'.op # "write" /\ call.op # "write" /\ want.open[i].kind # "fb" BY <1>1, <1>2, <1>5 DEF Idle, o
  <2> HIDE DEF i
  <2> QED BY <1>2, <1>4, <1>5, <2>2, <2>3, RecMoved
<1> QED BY <1>2, <1>19, <1>20

----------------------------------------------------------------------------
(* The loop over subscriptions.                                            *)

\* the answer to a subscription: that of a clock is not served
Dues == {"ok", "notsup"}
Due(s) == IF s.tag = "clock" THEN "notsup" ELSE "ok"

\* every subscription before this one has its event, and the loop ends early
\* at the first outside the memory
PollInv ==
  call.op = "poll" =>
    LET v == call.v
        k == call.k
    IN  /\ GoodTo(v, k) /\ call.short = FALSE
        /\ call.events \in Seq(Dues) /\ Len(call.events) = k - 1
        /\ \A j \in 1 .. k - 1 : call.events[j] = Due(v[j])
        /\ call.target # None => call.rc = "ok" /\ k <= Len(v) /\ v[k] # Bad /\ v[k].tag # "clock"
        /\ call.rc # "ok" => k <= Len(v) /\ v[k] = Bad /\ call.rc = "inval"

\* The length of a list of subscriptions.
LEMMA SubsIs == ASSUME NEW v \in Subs PROVE Len(v) \in Nat /\ DOMAIN v = 1 .. Len(v)
<1>1. v \in Seq([tag : STRING, rel : BOOLEAN, ns : 0 .. MaxNs] \cup {Bad}) BY WasiBounds
<1> QED BY <1>1, LenProperties

\* A poll that begins has no event; one that is refused says so.
LEMMA BeginPollAnswers ==
  ASSUME Honest, TypeInv, DataInv, RecInv, Truthful, NEW v \in Subs, BeginPoll(v)
  PROVE  RecInv' /\ Truthful' /\ PollInv' /\ call'.op \notin {"read", "write"}
<1>1. call = Idle /\ UNCHANGED <<fds, want>>
  BY DEF BeginPoll, Runs
<1>2. CASE Len(v) > MaxSubs
  <2>1. last' = Result("inval", "inval", None, None) /\ UNCHANGED call BY <1>2 DEF BeginPoll
  <2>2. Truthful' BY <2>1, TruthIs
  <2>3. call'.op = "idle" BY <1>1, <2>1 DEF Idle
  <2>4. PollInv' BY <2>3 DEF PollInv
  <2> QED BY <1>1, <2>1, <2>2, <2>3, <2>4, RecSame
<1>3. CASE ~ (Len(v) > MaxSubs)
  <2>1. call' = [op |-> "poll", v |-> v, k |-> 1, events |-> <<>>, target |-> None,
                 rc |-> "ok", slept |-> 0, asked |-> 0, short |-> FALSE] /\ UNCHANGED last
    BY <1>3 DEF BeginPoll
  <2>2. /\ call'.op = "poll" /\ call'.v = v /\ call'.k = 1 /\ call'.events = <<>>
        /\ call'.target = None /\ call'.rc = "ok" /\ call'.short = FALSE
    BY <2>1
  <2>3. Truthful' BY <2>1 DEF Truthful
  <2>4. RecInv'
    <3>1. call.op # "write" BY <1>1 DEF Idle
    <3> QED BY <1>1, <2>2, <3>1, RecSame
  <2>5. GoodTo(v, 1)
    <3>1. 1 \in 1 .. Len(v) + 1 /\ \A j \in 1 .. 1 - 1 : FALSE BY SubsIs
    <3> QED BY <3>1 DEF GoodTo
  <2>6. <<>> \in Seq(Dues) /\ Len(<<>>) = 1 - 1 /\ \A j \in 1 .. 1 - 1 : FALSE BY EmptySeq
  <2>7. PollInv' BY <2>2, <2>5, <2>6 DEF PollInv
  <2> QED BY <2>2, <2>3, <2>4, <2>7
<1> QED BY <1>2, <1>3

\* What a step of the loop leaves of a poll.
LEMMA PollFields ==
  ASSUME PollCall(call), NEW e, NEW n, NEW a
  PROVE  /\ call' = Event(e) \/ call' = [Event(e) EXCEPT !.slept = n] =>
              /\ call'.op = "poll" /\ call'.v = call.v /\ call'.k = call.k + 1 /\ call'.target = None
              /\ call'.events = Append(call.events, e) /\ call'.rc = call.rc /\ call'.short = call.short
         /\ Break(e) =>
              /\ call'.op = "poll" /\ call'.v = call.v /\ call'.k = call.k /\ call'.target = call.target
              /\ call'.events = call.events /\ call'.rc = e /\ call'.short = call.short
         /\ call' = [call EXCEPT !.target = e, !.asked = a, !.slept = n] =>
              /\ call'.op = "poll" /\ call'.v = call.v /\ call'.k = call.k /\ call'.target = e
              /\ call'.events = call.events /\ call'.rc = call.rc /\ call'.short = call.short
<1> DEFINE c == Event(e)
<1>1. /\ DOMAIN c = DOMAIN call
      /\ c.op = "poll" /\ c.v = call.v /\ c.k = call.k + 1 /\ c.target = None
      /\ c.events = Append(call.events, e) /\ c.rc = call.rc /\ c.short = call.short
  BY DEF PollCall, Event
<1> HIDE DEF c
<1>2. ASSUME call' = [c EXCEPT !.slept = n]
      PROVE  /\ call'.op = c.op /\ call'.v = c.v /\ call'.k = c.k /\ call'.target = c.target
             /\ call'.events = c.events /\ call'.rc = c.rc /\ call'.short = c.short
  <2>1. call'.op = c.op /\ call'.v = c.v /\ call'.k = c.k BY <1>1, <1>2 DEF PollCall
  <2>2. call'.target = c.target /\ call'.events = c.events BY <1>1, <1>2 DEF PollCall
  <2>3. call'.rc = c.rc /\ call'.short = c.short BY <1>1, <1>2 DEF PollCall
  <2> QED BY <2>1, <2>2, <2>3
<1>3. ASSUME Break(e)
      PROVE  /\ call'.op = "poll" /\ call'.v = call.v /\ call'.k = call.k /\ call'.target = call.target
             /\ call'.events = call.events /\ call'.rc = e /\ call'.short = call.short
  BY <1>3 DEF PollCall, Break
<1>4. ASSUME call' = [call EXCEPT !.target = e, !.asked = a, !.slept = n]
      PROVE  /\ call'.op = "poll" /\ call'.v = call.v /\ call'.k = call.k /\ call'.target = e
             /\ call'.events = call.events /\ call'.rc = call.rc /\ call'.short = call.short
  <2>1. call'.op = "poll" /\ call'.v = call.v /\ call'.k = call.k BY <1>4 DEF PollCall
  <2>2. call'.target = e /\ call'.events = call.events BY <1>4 DEF PollCall
  <2>3. call'.rc = call.rc /\ call'.short = call.short BY <1>4 DEF PollCall
  <2> QED BY <2>1, <2>2, <2>3
<1>5. ASSUME call' = c \/ call' = [c EXCEPT !.slept = n]
      PROVE  /\ call'.op = "poll" /\ call'.v = call.v /\ call'.k = call.k + 1 /\ call'.target = None
             /\ call'.events = Append(call.events, e) /\ call'.rc = call.rc /\ call'.short = call.short
  BY <1>1, <1>2, <1>5
<1> QED BY <1>3, <1>4, <1>5 DEF c

\* One subscription, or one round of a sleep: an event that is added is due.
LEMMA PollAnswers ==
  ASSUME Honest, TypeInv, RecInv, PollInv, PollSub \/ SleepTick
  PROVE  RecInv' /\ PollInv' /\ call'.op = "poll"
<1> DEFINE v == call.v
           k == call.k
           s == v[k]
           ev == call.events
<1>1. PollCall(call) /\ call.op = "poll" /\ More /\ UNCHANGED <<fds, want>>
  <2>1. call.op = "poll" /\ More /\ UNCHANGED <<fds, want>> BY DEF PollSub, SleepTick
  <2> QED BY <2>1, CallIs DEF TypeInv
<1>2. Len(v) \in Nat BY <1>1, SubsIs DEF PollCall
<1>3. /\ GoodTo(v, k) /\ call.short = FALSE
      /\ ev \in Seq(Dues) /\ Len(ev) = k - 1
      /\ \A j \in 1 .. k - 1 : ev[j] = Due(v[j])
      /\ call.target # None => call.rc = "ok" /\ k <= Len(v) /\ s # Bad /\ s.tag # "clock"
  BY <1>1 DEF PollInv
<1>4. k <= Len(v) /\ call.rc = "ok" BY <1>1 DEF More
<1>5. k \in 1 .. Len(v) /\ \A j \in 1 .. k - 1 : v[j] # Bad BY <1>2, <1>3, <1>4 DEF GoodTo
<1>6. ASSUME call'.op = "poll" PROVE RecInv' BY <1>1, <1>6, RecSame
\* the event that is due
<1>7. ASSUME NEW e \in Dues, NEW n, call' = Event(e) \/ call' = [Event(e) EXCEPT !.slept = n],
             s # Bad, e = Due(s)
      PROVE  PollInv' /\ call'.op = "poll"
  <2>1. /\ call'.op = "poll" /\ call'.v = v /\ call'.k = k + 1 /\ call'.target = None
        /\ call'.events = Append(ev, e) /\ call'.rc = "ok" /\ call'.short = FALSE
    BY <1>1, <1>3, <1>4, <1>7, PollFields
  <2>2. \A j \in 1 .. k + 1 - 1 : j \in 1 .. k - 1 \/ j = k BY <1>5
  <2>3. GoodTo(v, k + 1)
    <3>1. k + 1 \in 1 .. Len(v) + 1 BY <1>2, <1>5
    <3> QED BY <1>5, <1>7, <2>2, <3>1 DEF GoodTo
  <2> DEFINE x == Append(ev, e)
  <2>4. /\ x \in Seq(Dues) /\ Len(x) = Len(ev) + 1
        /\ \A j \in 1 .. Len(ev) : x[j] = ev[j]
        /\ x[Len(ev) + 1] = e
    BY <1>3, AppendProperties
  <2>5. Len(x) = k + 1 - 1 /\ Len(ev) + 1 = k BY <1>3, <1>5, <2>4
  <2> HIDE DEF x
  <2>6. \A j \in 1 .. k + 1 - 1 : x[j] = Due(v[j])
    <3> TAKE j \in 1 .. k + 1 - 1
    <3>1. CASE j = k BY <1>7, <2>4, <2>5, <3>1
    <3>2. CASE j # k
      <4>1. j \in 1 .. k - 1 BY <2>2, <3>2
      <4> QED BY <1>3, <2>4, <4>1
    <3> QED BY <3>1, <3>2
  <2>7. call'.events = x BY <2>1 DEF x
  <2> HIDE DEF v, k
  <2> QED BY <2>1, <2>3, <2>4, <2>5, <2>6, <2>7 DEF PollInv
<1>8. CASE PollSub
  <2>1. \/ s = Bad /\ Break("inval")
        \/ s # Bad /\ s.tag = "clock" /\ call' = Event("notsup")
        \/ s # Bad /\ s.tag # "clock" /\ call' = Event("ok")
        \/ s # Bad /\ s.tag # "clock" /\ \E t, a, z : call' = [call EXCEPT !.target = t, !.asked = a, !.slept = z]
    BY <1>8 DEF PollSub
  <2>2. CASE s = Bad /\ Break("inval")
    <3>1. /\ call'.op = "poll" /\ call'.v = v /\ call'.k = k /\ call'.target = call.target
          /\ call'.events = ev /\ call'.rc = "inval" /\ call'.short = FALSE
      BY <1>1, <1>3, <2>2, PollFields
    <3>2. call'.target = None BY <1>8, <3>1 DEF PollSub
    <3> HIDE DEF v, k, ev
    <3>3. PollInv' BY <1>3, <1>4, <2>2, <3>1, <3>2 DEF PollInv, s
    <3> QED BY <1>6, <3>1, <3>3
  <2>3. CASE s # Bad /\ s.tag = "clock" /\ call' = Event("notsup")
    <3>1. "notsup" = Due(s) /\ "notsup" \in Dues BY <2>3 DEF Due, Dues
    <3> QED BY <1>6, <1>7, <2>3, <3>1
  <2>4. CASE s # Bad /\ s.tag # "clock" /\ call' = Event("ok")
    <3>1. "ok" = Due(s) /\ "ok" \in Dues BY <2>4 DEF Due, Dues
    <3> QED BY <1>6, <1>7, <2>4, <3>1
  <2>5. ASSUME NEW t, NEW a, NEW z, s # Bad, s.tag # "clock",
               call' = [call EXCEPT !.target = t, !.asked = a, !.slept = z]
        PROVE  RecInv' /\ PollInv' /\ call'.op = "poll"
    <3>1. /\ call'.op = "poll" /\ call'.v = v /\ call'.k = k
          /\ call'.events = ev /\ call'.rc = "ok" /\ call'.short = FALSE
      BY <1>1, <1>3, <1>4, <2>5, PollFields
    <3> HIDE DEF v, k, ev
    <3>2. PollInv' BY <1>3, <1>4, <2>5, <3>1 DEF PollInv, s
    <3> QED BY <1>6, <3>1, <3>2
  <2> QED BY <2>1, <2>2, <2>3, <2>4, <2>5
<1>9. CASE SleepTick
  <2>1. /\ call.target # None
        /\ call' = call \/ call' = [Event("ok") EXCEPT !.slept = Event("ok").slept + clock']
    BY <1>9 DEF SleepTick
  <2>2. s # Bad /\ "ok" = Due(s) /\ "ok" \in Dues BY <1>3, <2>1 DEF Due, Dues
  <2>3. CASE call' = call
    <3>1. PollInv' BY <2>3 DEF PollInv
    <3> QED BY <1>1, <1>6, <2>3, <3>1
  <2>4. CASE call' = [Event("ok") EXCEPT !.slept = Event("ok").slept + clock']
    <3> DEFINE n == Event("ok").slept + clock'
    <3>1. call' = [Event("ok") EXCEPT !.slept = n] BY <2>4
    <3> HIDE DEF n
    <3> QED BY <1>6, <1>7, <2>2, <3>1
  <2> QED BY <2>1, <2>3, <2>4
<1> QED BY <1>8, <1>9

\* What poll_oneoff answers: the events that are due.
LEMMA EndPollAnswers ==
  ASSUME Honest, TypeInv, RecInv, PollInv, EndPoll
  PROVE  RecInv' /\ Truthful' /\ call' = Idle
<1> DEFINE v == call.v
           k == call.k
           ev == call.events
           bads == {j \in DOMAIN v : v[j] = Bad}
           ends == bads \cup {Len(v) + 1}
           wrc == IF \E j \in DOMAIN v : v[j] = Bad THEN "inval" ELSE "ok"
           r == Result(call.rc, wrc, ev, WantEvents(v))
<1>1. PollCall(call) /\ call.op = "poll" /\ ~More /\ UNCHANGED <<fds, want>> /\ call' = Idle
  <2>1. call.op = "poll" /\ ~More /\ UNCHANGED <<fds, want>> /\ call' = Idle BY DEF EndPoll
  <2> QED BY <2>1, CallIs DEF TypeInv
<1>2. last' = IF call.slept >= call.asked THEN r ELSE [r EXCEPT !.slept = call.slept, !.asked = call.asked]
  BY DEF EndPoll
<1>3. Len(v) \in Nat /\ DOMAIN v = 1 .. Len(v) BY <1>1, SubsIs DEF PollCall
<1>4. /\ GoodTo(v, k) /\ call.short = FALSE
      /\ ev \in Seq(Dues) /\ Len(ev) = k - 1
      /\ \A j \in 1 .. k - 1 : ev[j] = Due(v[j])
      /\ call.rc # "ok" => k <= Len(v) /\ v[k] = Bad /\ call.rc = "inval"
  BY <1>1 DEF PollInv
<1>5. k \in 1 .. Len(v) + 1 /\ \A j \in 1 .. k - 1 : v[j] # Bad BY <1>4 DEF GoodTo
<1>6. k \in ends /\ call.rc = wrc
  <2>1. CASE call.rc = "ok"
    <3>1. ~ (k <= Len(v)) BY <1>1, <1>4, <2>1 DEF More
    <3>2. k = Len(v) + 1 BY <1>3, <1>5, <3>1
    <3>3. \A j \in DOMAIN v : v[j] # Bad
      <4>1. \A j \in 1 .. Len(v) : j \in 1 .. k - 1 BY <1>3, <3>2
      <4> QED BY <1>3, <1>5, <4>1
    <3> QED BY <2>1, <3>2, <3>3
  <2>2. CASE call.rc # "ok"
    <3>1. k \in 1 .. Len(v) /\ v[k] = Bad /\ call.rc = "inval" BY <1>4, <1>5, <2>2
    <3>2. k \in bads BY <1>3, <3>1
    <3> QED BY <3>1, <3>2
  <2> QED BY <2>1, <2>2
<1>7. \A j \in ends : k <= j
  <2> SUFFICES ASSUME NEW j \in ends PROVE k <= j OBVIOUS
  <2>1. CASE j = Len(v) + 1 BY <1>3, <1>5, <2>1
  <2>2. CASE j \in bads
    <3>1. j \in 1 .. Len(v) /\ v[j] = Bad BY <1>3, <2>2
    <3>2. ~ (j \in 1 .. k - 1) BY <1>5, <3>1
    <3> QED BY <1>3, <1>5, <3>1, <3>2
  <2> QED BY <2>1, <2>2
<1>8. First(ends) = k
  <2>1. ends \subseteq Nat BY <1>3
  <2> HIDE DEF ends
  <2>2. First(ends) \in ends /\ First(ends) <= k BY <1>6, <2>1, FirstIs
  <2>3. k <= First(ends) /\ k \in Nat /\ First(ends) \in Nat BY <1>6, <1>7, <2>1, <2>2
  <2> QED BY <2>2, <2>3
<1>9. ev = WantEvents(v)
  <2> DEFINE n == First(ends) - 1
             w(j) == IF v[j].tag = "clock" /\ "clock" \notin Uses THEN "notsup" ELSE "ok"
             want_ == [j \in 1 .. n |-> w(j)]
  <2>1. WantEvents(v) = want_ BY DEF WantEvents
  <2>2. n = k - 1 /\ n \in Nat BY <1>3, <1>5, <1>8
  <2>3. "clock" \notin Uses BY DEF Honest
  <2>4. \A j \in 1 .. n : w(j) = Due(v[j]) /\ w(j) \in Dues BY <2>3 DEF Due, Dues
  <2> HIDE DEF n, w
  <2>5. want_ \in Seq(Dues) /\ \A j \in 1 .. n : want_[j] = Due(v[j]) BY <2>2, <2>4, IsASeq
  <2>6. DOMAIN want_ = 1 .. n OBVIOUS
  <2> HIDE DEF want_
  <2>7. Len(want_) = n BY <2>2, <2>5, <2>6, LenProperties
  <2> HIDE DEF ev, v
  <2>8. \A j \in 1 .. n : ev[j] = want_[j] BY <1>4, <2>2, <2>5
  <2>9. ev = want_ BY <1>4, <2>2, <2>5, <2>7, <2>8, SeqEqual
  <2> QED BY <2>1, <2>9
<1>10. r = Right BY <1>6, <1>9 DEF Result
<1> HIDE DEF r
<1>11. Truthful' BY <1>2, <1>10 DEF Right, Truthful
<1>12. RecInv'
  <2>1. call'.op # "write" /\ call.op # "write" BY <1>1 DEF Idle
  <2> QED BY <1>1, <2>1, RecSame
<1> QED BY <1>1, <1>11, <1>12

----------------------------------------------------------------------------
(* Every answer is right.                                                  *)

\* the last answer was right, and the call under way is on its way to one
AnswerInv == RecInv /\ Truthful /\ WriteInv /\ ReadInv /\ PollInv

\* Between calls nothing is said of a loop.
LEMMA IdleLoops == ASSUME call' = Idle PROVE WriteInv' /\ ReadInv' /\ PollInv'
<1>1. call'.op = "idle" BY DEF Idle
<1> QED BY <1>1 DEF WriteInv, ReadInv, PollInv

\* Nothing is open at first, and nothing was answered.
LEMMA InitAnswers == Init => AnswerInv
<1> SUFFICES ASSUME Init PROVE AnswerInv OBVIOUS
<1>1. DOMAIN want.open = {} /\ call.op = "idle" /\ last = Right BY DEF Init, Idle
<1>2. RecInv BY <1>1 DEF RecInv
<1>3. Truthful BY <1>1 DEF Truthful, Right
<1>4. WriteInv /\ ReadInv /\ PollInv BY <1>1 DEF WriteInv, ReadInv, PollInv
<1> QED BY <1>2, <1>3, <1>4 DEF AnswerInv

\* Every step keeps the invariant.
LEMMA NextAnswers == ASSUME Honest PROVE TypeInv /\ DataInv /\ AnswerInv /\ [Next]_vars => AnswerInv'
<1> SUFFICES ASSUME TypeInv, DataInv, AnswerInv, [Next]_vars PROVE AnswerInv' OBVIOUS
<1>0. Proper /\ RecInv /\ Truthful /\ WriteInv /\ ReadInv /\ PollInv BY DEF Honest, AnswerInv
\* a call of one step
<1>a. ASSUME RecInv', Truthful', call' = call, call = Idle PROVE AnswerInv'
  BY <1>a, IdleLoops DEF AnswerInv
\* a call of one step that leaves the descriptors alone
<1>b. ASSUME Truthful', UNCHANGED <<fds, want, call>>, call = Idle PROVE AnswerInv'
  BY <1>0, <1>a, <1>b, RecSame
\* the end of a loop
<1>c. ASSUME RecInv', Truthful', call' = Idle PROVE AnswerInv' BY <1>c, IdleLoops DEF AnswerInv
<1>1. CASE (\E i \in 0 .. 2 : InitStd(i)) \/ HostAdds \/ Instantiate \/ ea_wasi_bind \/ Exit
  <2>1. UNCHANGED <<call, last>> BY <1>1 DEF InitStd, HostAdds, Instantiate, ea_wasi_bind, Exit
  <2>2. Truthful' BY <1>0, <2>1 DEF Truthful
  <2>3. RecInv' BY <1>0, <1>1, HostRecs
  <2>4. WriteInv' /\ ReadInv' /\ PollInv'
    <3>1. call = Idle BY <1>1 DEF InitStd, HostAdds, Instantiate, ea_wasi_bind, Exit, Runs, DataInv
    <3> QED BY <2>1, <3>1, IdleLoops
  <2> QED BY <2>2, <2>3, <2>4 DEF AnswerInv
<1>2. ASSUME NEW fd \in GuestFds, NEW p \in Paths, NEW flags \in Flags, PathOpen(fd, p, flags)
      PROVE  AnswerInv'
  <2>1. call = Idle /\ UNCHANGED call
    BY <1>2 DEF PathOpen, Runs, OpenFails, OpenFb, OpenFile, Returns
  <2>2. RecInv' /\ Truthful' BY <1>0, <1>2, OpenAnswers
  <2> QED BY <1>a, <2>1, <2>2
<1>3. ASSUME NEW fd \in GuestFds, FdClose(fd) PROVE AnswerInv'
  <2>1. call = Idle /\ UNCHANGED call BY <1>3 DEF FdClose, Runs, Returns
  <2>2. RecInv' /\ Truthful' BY <1>0, <1>3, CloseAnswers
  <2> QED BY <1>a, <2>1, <2>2
<1>4. ASSUME NEW fd \in GuestFds, NEW off \in Int, NEW whence \in {"set", "cur", "end"}, FdSeek(fd, off, whence)
      PROVE  AnswerInv'
  <2>1. call = Idle /\ UNCHANGED call BY <1>4 DEF FdSeek, Runs, Returns
  <2>2. RecInv' /\ Truthful' BY <1>0, <1>4, SeekAnswers
  <2> QED BY <1>a, <2>1, <2>2
<1>5. ASSUME NEW fd \in GuestFds, FdFilestat(fd) \/ FdPrestatGet(fd) \/ FdPrestatDirName(fd) \/ FdSync(fd)
      PROVE  AnswerInv'
  <2>1. call = Idle /\ UNCHANGED <<fds, want, call>>
    BY <1>5 DEF FdFilestat, FdPrestatGet, FdPrestatDirName, Prestat, FdSync, Runs, Returns
  <2>2. Truthful' BY <1>0, <1>5, StatAnswers, AskAnswers
  <2> QED BY <1>b, <2>1, <2>2
<1>6. ASSUME NEW ptr \in Ptrs, NEW buf \in Ptrs, ArgsGet(ptr, buf) PROVE AnswerInv'
  <2>1. call = Idle /\ UNCHANGED <<fds, want, call>> BY <1>6 DEF ArgsGet, Runs, Returns
  <2>2. Truthful' BY <1>0, <1>6, ArgsAnswers
  <2> QED BY <1>b, <2>1, <2>2
<1>7. CASE ClockTimeGet
  <2>1. call = Idle /\ UNCHANGED <<fds, want, call>> BY <1>7 DEF ClockTimeGet, Runs
  <2>2. Truthful' BY <1>0, <1>7, ClockAnswers
  <2> QED BY <1>b, <2>1, <2>2
<1>8. ASSUME NEW fd \in GuestFds, NEW op \in {"read", "write"}, NEW v \in Bufs, BeginIov(op, fd, v)
      PROVE  AnswerInv'
  <2>1. RecInv' /\ Truthful' /\ WriteInv' /\ ReadInv' /\ call'.op # "poll" BY <1>0, <1>8, BeginAnswers
  <2> QED BY <2>1 DEF AnswerInv, PollInv
<1>9. CASE WriteIov
  <2>1. RecInv' /\ WriteInv' /\ call'.op = "write" BY <1>0, <1>9, WriteAnswers
  <2>2. Truthful' BY <1>0, <1>9 DEF WriteIov, Truthful
  <2> QED BY <2>1, <2>2 DEF AnswerInv, ReadInv, PollInv
<1>10. CASE ReadIov
  <2>1. RecInv' /\ ReadInv' /\ call'.op = "read" BY <1>0, <1>10, ReadAnswers
  <2>2. Truthful' BY <1>0, <1>10 DEF ReadIov, Truthful
  <2> QED BY <2>1, <2>2 DEF AnswerInv, WriteInv, PollInv
<1>11. CASE EndWrite \/ EndRead \/ EndPoll
  <2>1. RecInv' /\ Truthful' /\ call' = Idle
    BY <1>0, <1>11, EndWriteAnswers, EndReadAnswers, EndPollAnswers
  <2> QED BY <1>c, <2>1
<1>12. ASSUME NEW v \in Subs, BeginPoll(v) PROVE AnswerInv'
  <2>1. RecInv' /\ Truthful' /\ PollInv' /\ call'.op \notin {"read", "write"}
    BY <1>0, <1>12, BeginPollAnswers
  <2> QED BY <2>1 DEF AnswerInv, WriteInv, ReadInv
<1>13. CASE PollSub \/ SleepTick
  <2>1. RecInv' /\ PollInv' /\ call'.op = "poll" BY <1>0, <1>13, PollAnswers
  <2>2. Truthful' BY <1>0, <1>13 DEF PollSub, SleepTick, Truthful
  <2> QED BY <2>1, <2>2 DEF AnswerInv, WriteInv, ReadInv
<1>14. CASE UNCHANGED vars
  <2>1. UNCHANGED <<fds, call, want, last>> BY <1>14 DEF vars
  <2>2. RecInv' /\ Truthful' BY <1>0, <2>1, RecSame DEF Truthful
  <2>3. WriteInv' BY <1>0, <2>1 DEF WriteInv, Over, Bounded, Room
  <2>4. ReadInv' BY <1>0, <2>1 DEF ReadInv
  <2>5. PollInv' BY <1>0, <2>1 DEF PollInv
  <2> QED BY <2>2, <2>3, <2>4, <2>5 DEF AnswerInv
\* the disjuncts of Next
<1>15. CASE \E fd \in GuestFds, p \in Paths, flags \in Flags : PathOpen(fd, p, flags) BY <1>2, <1>15
<1>16. CASE \E fd \in GuestFds :
              \/ FdClose(fd) \/ FdTell(fd) \/ FdFilestat(fd)
              \/ FdPrestatGet(fd) \/ FdPrestatDirName(fd) \/ FdSync(fd)
              \/ \E op \in {"read", "write"}, v \in Bufs : BeginIov(op, fd, v)
              \/ \E off \in Offs, whence \in Whences : FdSeek(fd, off, whence)
  <2> PICK fd \in GuestFds :
        \/ FdClose(fd) \/ FdTell(fd) \/ FdFilestat(fd)
        \/ FdPrestatGet(fd) \/ FdPrestatDirName(fd) \/ FdSync(fd)
        \/ \E op \in {"read", "write"}, v \in Bufs : BeginIov(op, fd, v)
        \/ \E off \in Offs, whence \in Whences : FdSeek(fd, off, whence)
    BY <1>16
  <2>1. CASE FdTell(fd) \/ \E off \in Offs, whence \in Whences : FdSeek(fd, off, whence)
    <3>1. \E off \in Int, whence \in {"set", "cur", "end"} : FdSeek(fd, off, whence)
      BY <2>1, TellsAndSeeks
    <3> QED BY <1>4, <3>1
  <2>2. CASE \E op \in {"read", "write"}, v \in Bufs : BeginIov(op, fd, v) BY <1>8, <2>2
  <2>3. CASE FdClose(fd) BY <1>3, <2>3
  <2>4. CASE FdFilestat(fd) \/ FdPrestatGet(fd) \/ FdPrestatDirName(fd) \/ FdSync(fd) BY <1>5, <2>4
  <2> QED BY <2>1, <2>2, <2>3, <2>4
<1>17. CASE \E ptr, buf \in Ptrs : ArgsGet(ptr, buf) BY <1>6, <1>17
<1>18. CASE \E v \in Subs : BeginPoll(v) BY <1>12, <1>18
<1>19. CASE phase = "freed" /\ UNCHANGED vars BY <1>14, <1>19
<1> QED BY <1>1, <1>7, <1>9, <1>10, <1>11, <1>13, <1>14, <1>15, <1>16, <1>17, <1>18, <1>19 DEF Next, Loop

\* For a guest that opens no file twice at once, seeks no further than the end,
\* reads files only, opens none exclusively, clears the words where a u64 goes,
\* and knows that a poll serves no clock, every call succeeds or is refused as the
\* history of calls makes right, with the right bytes, count, offset, size,
\* descriptor or events, wherever in a list of iovecs or subscriptions the
\* memory, the file or the framebuffer ends (the sys_ functions of wasi.c).
THEOREM ResultsStayExact == ASSUME Honest PROVE Spec => []ResultExact
<1>0. Proper BY DEF Honest
<1>1. Init => TypeInv /\ DataInv /\ AnswerInv BY InitType, InitData, InitAnswers
<1>2. TypeInv /\ DataInv /\ AnswerInv /\ [Next]_vars => TypeInv' /\ DataInv' /\ AnswerInv'
  BY <1>0, NextType, NextData, NextAnswers
<1>3. AnswerInv => ResultExact BY DEF AnswerInv, Truthful, ResultExact
<1> QED BY <1>1, <1>2, <1>3, PTL DEF Spec
=============================================================================
