----------------------------- MODULE EwokRamFs -----------------------------
(***************************************************************************)
(* The RAM file system behind the ewok back end of the WASI layer          *)
(* (wasi_ewok.c), as operators on its array of files.  A platform          *)
(* descriptor is an index of the array, so all descriptors of a file share *)
(* the file's one offset.  A file is a record of used, name, data (size is *)
(* its length) and ofs.  Each operator returns the error code, the array   *)
(* after the call, and what it hands back.                                 *)
(***************************************************************************)
EXTENDS Integers, Sequences

CONSTANTS MaxFiles, MaxSize     \* EW_MAX_FILES, EW_MAX_SIZE

ASSUME RamBounds == MaxFiles \in Nat \ {0} /\ MaxSize \in Nat

Slots == 0 .. MaxFiles - 1
NoFile == [used |-> FALSE, name |-> <<>>, data |-> <<>>, ofs |-> 0]

First(S) == CHOOSE x \in S : \A y \in S : x <= y
Least(a, b) == IF a <= b THEN a ELSE b

Found(fs, path) == {s \in Slots : fs[s].used /\ fs[s].name = path}
Unused(fs) == {s \in Slots : ~fs[s].used}

Answer(rc, fs, out) == [rc |-> rc, fs |-> fs, out |-> out]

\* data with buf written at off, which is at most its length
Written(data, off, buf) ==
  [x \in 1 .. (IF off + Len(buf) > Len(data) THEN off + Len(buf) ELSE Len(data)) |->
     IF x \in off + 1 .. off + Len(buf) THEN buf[x - off] ELSE data[x]]

ew_create(fs, path) ==
  LET s == First(Unused(fs))
  IN  [fs EXCEPT ![s] = [@ EXCEPT !.used = TRUE, !.name = path, !.data = <<>>]]

TruncatedKeepingPlace(f, trunc) == [f EXCEPT !.data = IF trunc THEN <<>> ELSE @]
Opened(f, trunc) == [f EXCEPT !.data = IF trunc THEN <<>> ELSE @, !.ofs = 0]

ew_open(fs, path, create, trunc) ==
  LET hit == Found(fs, path)
      new == ew_create(fs, path)
      s   == First(IF hit = {} THEN Found(new, path) ELSE hit)
  IN  IF hit = {} /\ ~create THEN Answer("noent", fs, -1)
      ELSE IF hit = {} /\ Unused(fs) = {} THEN Answer("full", fs, -1)
      ELSE IF hit = {} THEN Answer("ok", [new EXCEPT ![s] = Opened(@, FALSE)], s)
      ELSE Answer("ok", [fs EXCEPT ![s] = Opened(@, trunc)], s)

\* reads and writes start at the offset, or at the end if it lies behind it
Place(f) == Least(f.ofs, Len(f.data))

ew_read(fs, fd, len) ==
  IF ~fs[fd].used THEN Answer("badf", fs, <<>>)
  ELSE LET off == Place(fs[fd])
           n   == Least(Len(fs[fd].data) - off, len)
       IN  Answer("ok", [fs EXCEPT ![fd].ofs = off + n], SubSeq(fs[fd].data, off + 1, off + n))

WriteFitsOneOver(off, len) == off + len <= MaxSize + 1
WriteFits(off, len) == off + len <= MaxSize

ew_write(fs, fd, buf) ==
  LET off == Place(fs[fd])
  IN  IF ~fs[fd].used THEN Answer("badf", fs, 0)
      ELSE IF ~WriteFits(off, Len(buf)) THEN Answer("full", fs, 0)
      ELSE Answer("ok", [fs EXCEPT ![fd].data = Written(@, off, buf), ![fd].ofs = off + Len(buf)],
                  Len(buf))

SeekBase(f, whence) ==
  CASE whence = "set" -> 0 [] whence = "cur" -> f.ofs [] whence = "end" -> Len(f.data)

\* no check that the file exists
ew_seek(fs, fd, off, whence) ==
  LET np == SeekBase(fs[fd], whence) + off
  IN  IF np < 0 THEN Answer("inval", fs, 0) ELSE Answer("ok", [fs EXCEPT ![fd].ofs = np], np)

ew_fsize(fs, fd) ==
  IF fs[fd].used THEN Answer("ok", fs, Len(fs[fd].data)) ELSE Answer("badf", fs, 0)
=============================================================================
