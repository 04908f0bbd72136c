------------------------------- MODULE WasiFd -------------------------------
(***************************************************************************)
(* The WASI preview 1 host of easm (wasi.c) over the ewok back end: the    *)
(* descriptor table, path resolution, the loops over iovecs and poll       *)
(* subscriptions, and a context's life from ea_wasi_init to                *)
(* ea_wasi_ctx_free (main.c).  A syscall is one step, except that the      *)
(* loops take one step per iovec, subscription and clock sample.           *)
(*                                                                         *)
(* `want' is what WASI promises the guest: contents by file name, and per  *)
(* open descriptor a file and an offset of its own.  It is updated from    *)
(* what the calls report and never read by them.                           *)
(*                                                                         *)
(* Uses names what guests do that the code is known to answer differently: *)
(*   "shared"   a file is opened while it is open                          *)
(*   "past"     an offset is moved behind the end of the file              *)
(*   "alias"    stdin, a directory or the framebuffer is read or sought    *)
(*   "fbopen"   the framebuffer is opened through its preopen              *)
(*   "start"    the start function makes calls                             *)
(*   "clock"    clock subscriptions should be served                       *)
(*   "high"     the upper word of a u64 result is not zero before the call  *)
(*   "size"     the size of a file is read from its place in filestat      *)
(***************************************************************************)
EXTENDS EwokRamFs, SequencesExt, FiniteSets

CONSTANTS
  Setup,      \* what the host adds before the guest runs: base paths, "efb"
  Cap0,       \* descriptors of the first table: 16
  FbCap,      \* bytes of the framebuffer
  Paths,      \* relative paths
  Cut,        \* what resolve_path's buffer of 512 bytes keeps of each path
  Escapes,    \* paths with a ".."
  Outside,    \* paths WASI refuses: absolute ones, and ".." that lead out
  Flags,      \* flags of path_open, a set of sets
  Bufs,       \* iovec arrays: bytes, or Bad for one outside the memory
  MaxIovs,    \* iovecs of a call: 1024
  Offs, Whences,  \* operands of fd_seek
  Word,       \* values of a word: 2^32
  ArgLens,    \* lengths of the arguments
  MemSize,    \* bytes of the guest's memory
  Subs,       \* poll subscriptions
  Range64,    \* u64 values of the clock
  MaxClock,   \* bound on the clock
  MaxNs,      \* the longest timeout of a subscription
  MaxSubs,    \* subscriptions of a call: 64
  Ptrs,       \* addresses the guest passes to args_get
  MaxFd,      \* bound on descriptors
  GuestFds,   \* the descriptors the guest tries
  Uses,
  None, Bad   \* no value; an address outside the memory

ASSUME WasiBounds ==
  /\ Cap0 \in Nat \ {0} /\ FbCap \in Nat /\ MaxIovs \in Nat /\ MemSize \in Nat
  /\ Cut \in [Paths -> Paths] /\ Escapes \subseteq Paths /\ Outside \subseteq Paths
  /\ Uses \subseteq {"shared", "past", "alias", "fbopen", "start", "clock", "high", "size"}
  /\ Setup \in Seq(STRING) /\ None \notin Range(Setup) \cup {"efb"} /\ None \notin Nat
  /\ MaxFd \in Nat /\ Len(Setup) + 2 <= MaxFd /\ GuestFds \subseteq Nat
  /\ Bufs \subseteq Seq(Seq(Nat) \cup {Bad}) /\ Offs \subseteq Int /\ Whences \subseteq {"set", "cur", "end"}
  /\ Subs \subseteq Seq([tag : STRING, rel : BOOLEAN, ns : 0 .. MaxNs] \cup {Bad})
  /\ ArgLens \in Seq(Nat) /\ Ptrs \subseteq Nat
  /\ MaxNs \in Nat \ {0} /\ MaxClock \in Nat /\ Range64 \in Nat \ {0} /\ Word \in Nat \ {0}

VARIABLES
  fds,      \* ctx->fds
  next_fd,  \* ctx->next_fd
  files,    \* the RAM file system
  clock,    \* its clock
  phase,    \* setup, start (unbound), guest, freed
  call,     \* the loop under way
  want,     \* contents and open descriptors, as the guest may expect
  last,     \* the last call's answer, if it was wrong: its code and the right
            \* one, whether what it handed back is right, and how long it slept
  crash     \* undefined behaviour has happened

vars == <<fds, next_fd, files, clock, phase, call, want, last, crash>>

Efb == "efb"
Zero == [used |-> FALSE, kind |-> "unknown", pf |-> 0, base |-> None, pre |-> FALSE,
         fb |-> FALSE, fb_len |-> 0]
Idle == [op |-> "idle"]
\* an answer that is right leaves no trace; the numbers of the errors are not
\* those of WASI, so a refusal is right whichever error it names
Right == [rc |-> "ok", wrc |-> "ok", same |-> TRUE, slept |-> 0, asked |-> 0]
Result(rc, wrc, out, wout) ==
  IF (rc = "ok" <=> wrc = "ok") /\ out = wout THEN Right
  ELSE [Right EXCEPT !.rc = rc, !.wrc = wrc, !.same = (out = wout)]

bound == phase = "guest"
Runs == call = Idle /\ (phase = "guest" \/ (phase = "start" /\ "start" \in Uses)) /\ ~crash
Told(x) == IF bound THEN x ELSE None      \* w32 and w64 without a memory do nothing

----------------------------------------------------------------------------
(* The descriptor table.                                                   *)

Cap == Cardinality(DOMAIN fds)

\* the table is doubled until the index exists; realloc may move it
Enlarged(want_) ==
  LET nc == IF Cap = 0 THEN Cap0 ELSE 2 * Cap
      n  == IF nc <= want_ THEN want_ + 1 ELSE nc
  IN  IF want_ < Cap THEN fds
      ELSE [i \in 0 .. n - 1 |-> IF i < Cap THEN fds[i] ELSE Zero]

fd_alloc(i, rec) ==
  /\ fds' = [Enlarged(i) EXCEPT ![i] = [rec EXCEPT !.used = TRUE]]
  /\ next_fd' = IF i >= next_fd THEN i + 1 ELSE next_fd

fd_alloc_any ==
  LET free == {i \in 3 .. next_fd - 1 : ~fds[i].used}
  IN  IF free # {} THEN First(free) ELSE IF next_fd < 3 THEN 3 ELSE next_fd

fd_get(fd) == fd < Cap /\ fds[fd].used

\* what the guest may expect a descriptor to be
Is(fd, kind) == fd \in DOMAIN want.open /\ want.open[fd].kind = kind
Put(f, x, e) == [y \in DOMAIN f \cup {x} |-> IF y = x THEN e ELSE f[y]]
NewOpen(fd, kind, name) == Put(want.open, fd, [kind |-> kind, name |-> name, ofs |-> 0])

\* ea_wasi_init: the standard streams, each with its own number for a handle
InitStd(i) ==
  /\ phase = "setup" /\ i = next_fd /\ i < 3
  /\ fd_alloc(i, [Zero EXCEPT !.pf = i])
  /\ want' = [want EXCEPT !.open = NewOpen(i, "std", <<>>)]
  /\ UNCHANGED <<files, clock, phase, call, last, crash>>

\* ea_wasi_preopen, ea_wasi_framebuffer: the handle stays 0
HostAdds ==
  /\ phase = "setup" /\ next_fd >= 3 /\ next_fd - 2 <= Len(Setup)
  /\ LET b  == Setup[next_fd - 2]
         fd == fd_alloc_any
     IN  /\ fd_alloc(fd, [Zero EXCEPT !.kind = IF b = Efb THEN "reg" ELSE "dir", !.pre = TRUE,
                                      !.base = b, !.fb = (b = Efb)])
         /\ want' = [want EXCEPT !.open = NewOpen(fd, IF b = Efb THEN "fb" ELSE "dir", <<b>>)]
  /\ UNCHANGED <<files, clock, phase, call, last, crash>>

\* instantiation runs the start function before ea_wasi_bind
Instantiate ==
  /\ phase = "setup" /\ next_fd - 2 > Len(Setup)
  /\ phase' = "start"
  /\ UNCHANGED <<fds, next_fd, files, clock, call, want, last, crash>>

ea_wasi_bind ==
  /\ phase = "start" /\ call = Idle /\ phase' = "guest"
  /\ UNCHANGED <<fds, next_fd, files, clock, call, want, last, crash>>

\* ea_wasi_ctx_free frees the buffer of every descriptor in use
FreedTwice == Cardinality({i \in DOMAIN fds : fds[i].used /\ fds[i].fb}) > 1

\* proc_exit or the return of _start: the context is freed, the files outlive it
Exit ==
  /\ Runs /\ phase' = "freed"
  /\ crash' = FreedTwice
  /\ fds' = <<>> /\ next_fd' = 0 /\ want' = [want EXCEPT !.open = <<>>]
  /\ UNCHANGED <<files, clock, call, last>>

----------------------------------------------------------------------------
(* Opening and closing.                                                    *)

ReachesOut(p) == FALSE
Refused(p) == Cut[p] \in Escapes

resolve_path(dirfd, p) ==
  CASE ~bound -> "inval"
    [] bound /\ (~fd_get(dirfd) \/ fds[dirfd].base = None) -> "badf"
    [] bound /\ fd_get(dirfd) /\ fds[dirfd].base # None /\ Refused(p) -> "acces"
    [] OTHER -> "ok"

Returns(res) == last' = res /\ UNCHANGED <<clock, phase, call>>

\* what path_open should answer
WantOpen(dirfd, name, p, flags) ==
  CASE dirfd \notin DOMAIN want.open -> "badf"
    [] dirfd \in DOMAIN want.open /\ ~Is(dirfd, "dir") /\ ~Is(dirfd, "fb") -> "notcapable"
    [] (Is(dirfd, "dir") \/ Is(dirfd, "fb")) /\ p \in Outside -> "notcapable"
    [] OTHER -> IF name \in DOMAIN want.cont
                THEN IF {"creat", "excl"} \subseteq flags THEN "exist" ELSE "ok"
                ELSE IF "creat" \notin flags THEN "noent"
                ELSE IF Cardinality(DOMAIN want.cont) = MaxFiles THEN "full" ELSE "ok"

Creates(flags) == flags \cap {"creat", "directory"} # {}
Truncates(flags) == flags \cap {"trunc", "oddptr"} # {}

\* the framebuffer's preopen: the new descriptor shares the buffer and goes to
\* res[1], which no one reads; `dir' is used after the table may have moved;
\* "clear" is the bit 0x10
OpenFb(dirfd, fd, flags) ==
  /\ LET len == IF "clear" \in flags THEN 0 ELSE fds[dirfd].fb_len
         rec == [Zero EXCEPT !.used = TRUE, !.kind = "reg", !.base = Efb, !.fb = TRUE,
                             !.fb_len = len]
     IN  fds' = [Enlarged(fd) EXCEPT ![fd] = rec, ![dirfd].fb_len = len]
  /\ next_fd' = IF fd >= next_fd THEN fd + 1 ELSE next_fd
  /\ want' = [want EXCEPT !.open = NewOpen(fd, "fb", <<Efb>>)]
  /\ Returns(Result("ok", "ok", None, fd))
  /\ crash' = (fd >= Cap)
  /\ UNCHANGED files

OpenFile(fd, name, r, wrc, trunc) ==
  /\ fd_alloc(fd, [Zero EXCEPT !.kind = "reg", !.pf = r.out])
  /\ files' = r.fs
  /\ want' = [cont |-> Put(want.cont, name, IF name \in DOMAIN want.cont /\ ~trunc
                                            THEN want.cont[name] ELSE <<>>),
              open |-> NewOpen(fd, "file", name)]
  /\ Returns(Result("ok", wrc, fd, fd))
  /\ UNCHANGED crash

OpenFails(rc, wrc) ==
  /\ Returns(Result(rc, wrc, None, None))
  /\ UNCHANGED <<fds, next_fd, files, want, crash>>

\* isdir_path answers ENOTSUP on this back end, so every path is a file
PathOpen(dirfd, p, flags) ==
  LET err  == resolve_path(dirfd, p)
      base == IF fd_get(dirfd) THEN fds[dirfd].base ELSE None
      r    == ew_open(files, <<base, Cut[p]>>, Creates(flags), Truncates(flags))
      name == <<base, p>>
      wrc  == WantOpen(dirfd, name, p, flags)
      fd   == fd_alloc_any
  IN  /\ Runs /\ fd <= MaxFd
      /\ base = Efb => "fbopen" \in Uses
      /\ "shared" \in Uses \/ \A d \in DOMAIN want.open : want.open[d].name # name
      /\ IF err # "ok" THEN OpenFails(err, wrc)
         ELSE IF base = Efb THEN OpenFb(dirfd, fd, flags)
         ELSE IF r.rc # "ok" THEN OpenFails(r.rc, wrc)
         ELSE OpenFile(fd, name, r, wrc, "trunc" \in flags)

WantBadf(fd) == IF fd \in DOMAIN want.open THEN "ok" ELSE "badf"

ClosedKept(f) == [f EXCEPT !.pf = 0]
Closed(f) == Zero

\* the platform's close does nothing on this back end
FdClose(fd) ==
  /\ Runs
  /\ IF fd_get(fd)
     THEN /\ fds' = [fds EXCEPT ![fd] = Closed(@)]
          /\ want' = [want EXCEPT !.open = [d \in DOMAIN @ \ {fd} |-> @[d]]]
          /\ Returns(Result("ok", WantBadf(fd), None, None))
     ELSE /\ Returns(Result("badf", WantBadf(fd), None, None))
          /\ UNCHANGED <<fds, want>>
  /\ UNCHANGED <<next_fd, files, crash>>

----------------------------------------------------------------------------
(* Reading and writing: one step per iovec.                                *)

Usable(fd) == "alias" \in Uses \/ ~fd_get(fd) \/ Is(fd, "file")

BeginIov(op, fd, v) ==
  /\ Runs
  /\ fd # 0 \/ "alias" \in Uses
  /\ op = "read" => Usable(fd)
  /\ ~Is(fd, "dir") \/ "alias" \in Uses
  /\ LET rc == IF ~bound \/ Len(v) > MaxIovs THEN "inval" ELSE IF fd_get(fd) THEN "ok" ELSE "badf"
         w  == IF Len(v) > MaxIovs THEN "inval" ELSE WantBadf(fd)
     IN  IF rc = "ok"
         THEN /\ call' = [op |-> op, fd |-> fd, v |-> v, k |-> 1, rc |-> "ok", total |-> 0,
                          got |-> <<>>, short |-> FALSE]
              /\ UNCHANGED last
         ELSE last' = Result(rc, w, None, None) /\ UNCHANGED call
  /\ UNCHANGED <<fds, next_fd, files, clock, phase, want, crash>>

More == call.k <= Len(call.v) /\ call.rc = "ok" /\ ~call.short
Advance(n) == call' = [call EXCEPT !.k = @ + 1, !.total = @ + n]
Break(rc) == call' = [call EXCEPT !.rc = rc]

WriteIov ==
  /\ call.op = "write" /\ More
  /\ LET b == call.v[call.k]
         f == fds[call.fd]
         r == ew_write(files, f.pf, b)
     IN  \/ b = Bad /\ Break("inval") /\ UNCHANGED <<fds, files>>
         \/ b # Bad /\ call.fd \in {1, 2} /\ Advance(Len(b)) /\ UNCHANGED <<fds, files>>
         \/ /\ b # Bad /\ call.fd \notin {1, 2} /\ f.fb
            /\ IF f.fb_len + Len(b) > FbCap THEN Break("full") /\ UNCHANGED fds
               ELSE Advance(Len(b)) /\ fds' = [fds EXCEPT ![call.fd].fb_len = @ + Len(b)]
            /\ UNCHANGED files
         \/ /\ b # Bad /\ call.fd \notin {1, 2} /\ ~f.fb
            /\ IF r.rc = "ok" THEN Advance(r.out) ELSE Break(r.rc)
            /\ files' = r.fs /\ UNCHANGED fds
  /\ UNCHANGED <<next_fd, clock, phase, want, last, crash>>

\* a short read ends the loop
ReadIov ==
  /\ call.op = "read" /\ More
  /\ LET b == call.v[call.k]
         r == ew_read(files, fds[call.fd].pf, Len(b))
     IN  \/ b = Bad /\ Break("inval") /\ UNCHANGED files
         \/ /\ b # Bad
            /\ IF r.rc = "ok"
               THEN call' = [call EXCEPT !.k = @ + 1, !.total = @ + Len(r.out), !.got = @ \o r.out,
                                         !.short = Len(r.out) < Len(b)]
               ELSE Break(r.rc)
            /\ files' = r.fs
  /\ UNCHANGED <<fds, next_fd, clock, phase, want, last, crash>>

\* bytes of the iovecs before the j-th
Before(v, j) == FlattenSeq(SubSeq(v, 1, j - 1))

\* the first iovec that cannot be written, 0 if all can; a stream takes all
FailsAt(v, bounded, room) ==
  LET F == {j \in DOMAIN v : \/ v[j] = Bad
                             \/ /\ bounded /\ \A i \in 1 .. j : v[i] # Bad
                                /\ Len(Before(v, j + 1)) > room}
  IN  IF F = {} THEN 0 ELSE First(F)

\* with zeroes up to the offset
Holed(data, ofs) == [x \in 1 .. ofs |-> IF x <= Len(data) THEN data[x] ELSE 0]

EndWrite ==
  /\ call.op = "write" /\ ~More
  /\ LET o == want.open[call.fd]
         data == SubSeq(Before(call.v, call.k), 1, call.total)
         room == (IF o.kind = "file" THEN MaxSize ELSE FbCap) - o.ofs
         j == FailsAt(call.v, o.kind \in {"file", "fb"}, room)
         wrc == IF j = 0 THEN "ok" ELSE IF call.v[j] = Bad THEN "inval" ELSE "full"
         n == IF j = 0 THEN Len(Before(call.v, Len(call.v) + 1)) ELSE Len(Before(call.v, j))
     IN  /\ last' = Result(call.rc, wrc, Told(call.total), n)
         /\ want' = IF o.kind \in {"std", "dir"} THEN want
                    ELSE IF o.kind = "fb"
                         THEN [want EXCEPT !.open[call.fd].ofs = @ + call.total]
                    ELSE [want EXCEPT !.open[call.fd].ofs = @ + call.total,
                                      !.cont[o.name] = Written(IF o.ofs > Len(@) THEN Holed(@, o.ofs) ELSE @,
                                                               o.ofs, data)]
         /\ call' = Idle
  /\ UNCHANGED <<fds, next_fd, files, clock, phase, crash>>

EndRead ==
  /\ call.op = "read" /\ ~More
  /\ LET o    == want.open[call.fd]
         rest == IF o.kind = "file" /\ o.ofs <= Len(want.cont[o.name])
                 THEN SubSeq(want.cont[o.name], o.ofs + 1, Len(want.cont[o.name])) ELSE <<>>
         bads == {j \in DOMAIN call.v : call.v[j] = Bad}
         stop == IF bads = {} THEN Len(call.v) + 1 ELSE First(bads)
         asks == Len(Before(call.v, stop))
         n    == Least(asks, Len(rest))
     IN  /\ last' = Result(call.rc, IF bads # {} /\ asks <= Len(rest) THEN "inval" ELSE "ok",
                           Told(call.got), SubSeq(rest, 1, n))
         /\ want' = [want EXCEPT !.open[call.fd].ofs = @ + call.total]
         /\ call' = Idle
  /\ UNCHANGED <<fds, next_fd, files, clock, phase, crash>>

\* w32 stores the low word of a u64 result over whatever the guest had there
UpperWords == IF "high" \in Uses THEN {0, 1} ELSE {0}
Halved(x, upper) == (upper * Word) + (x % Word)

FdSeek(fd, off, whence) ==
  LET r  == ew_seek(files, fds[fd].pf, off, whence)
      o  == want.open[fd]
      c  == IF o.kind = "file" THEN want.cont[o.name] ELSE <<>>
      np == SeekBase([ofs |-> o.ofs, data |-> c], whence) + off
      w  == IF np < 0 THEN "inval" ELSE "ok"
  IN  /\ Runs /\ Usable(fd)
      /\ fd_get(fd) => ("past" \in Uses \/ np <= Len(c))
      /\ IF fd_get(fd)
         THEN /\ files' = r.fs
              /\ want' = IF np < 0 THEN want ELSE [want EXCEPT !.open[fd].ofs = np]
              /\ \E upper \in UpperWords :
                   LET out == Told(Halved(r.out, upper))
                   IN  Returns(Result(r.rc, w, out, IF np < 0 THEN out ELSE np))
         ELSE /\ Returns(Result("badf", WantBadf(fd), None, None))
              /\ UNCHANGED <<files, want>>
      /\ UNCHANGED <<fds, next_fd, crash>>

FdTell(fd) == FdSeek(fd, 0, "cur")

\* fd_fdstat_get and fd_filestat_get: the kind, and for a file its size, which
\* goes to byte 24; byte 32, where it belongs, is cleared
FdFilestat(fd) ==
  LET f == fds[fd]
      size == IF f.kind = "reg" THEN ew_fsize(files, f.pf).out ELSE IF f.fb THEN f.fb_len ELSE 0
      o == want.open[fd]
      seen == IF "size" \in Uses THEN 0 ELSE size
      wsize == IF o.kind = "file" THEN Len(want.cont[o.name]) ELSE IF o.kind = "fb" THEN o.ofs ELSE 0
  IN  /\ Runs /\ (Is(fd, "fb") => "alias" \in Uses)
      /\ Returns(IF ~fd_get(fd) THEN Result("badf", WantBadf(fd), None, None)
                 ELSE IF ~bound THEN Result("inval", "ok", None, None)
                 ELSE Result("ok", "ok", <<f.kind = "dir", seen>>, <<o.kind = "dir", wsize>>))
      /\ UNCHANGED <<fds, next_fd, files, want, crash>>

Prestat(fd, ok, wok) ==
  /\ Runs
  /\ Returns(Result(IF ~ok THEN "badf" ELSE IF bound THEN "ok" ELSE "inval",
                    IF wok THEN "ok" ELSE "badf",
                    IF ok /\ bound THEN fds[fd].base ELSE None,
                    IF wok THEN want.open[fd].name[1] ELSE None))
  /\ UNCHANGED <<fds, next_fd, files, want, crash>>

\* the name's length, and the name itself, which the framebuffer has too
FdPrestatGet(fd) == Prestat(fd, fd_get(fd) /\ fds[fd].pre /\ fds[fd].kind = "dir", Is(fd, "dir"))
FdPrestatDirName(fd) == Prestat(fd, fd_get(fd) /\ fds[fd].pre, Is(fd, "dir") \/ Is(fd, "fb"))

\* nothing to do on this back end
FdSync(fd) ==
  /\ Runs /\ Returns(Result(IF fd_get(fd) THEN "ok" ELSE "badf", WantBadf(fd), None, None))
  /\ UNCHANGED <<fds, next_fd, files, want, crash>>

----------------------------------------------------------------------------
(* Arguments, clock and poll.                                              *)

\* where the strings end, laid end to end from buf, each with nul bytes more
Ends(buf, nul) ==
  LET at[i \in 0 .. Len(ArgLens)] == IF i = 0 THEN buf ELSE at[i - 1] + ArgLens[i] + nul
  IN  at

ArgsSizesNoNul == Ends(0, 0)[Len(ArgLens)]
ArgsSizes == Ends(0, 1)[Len(ArgLens)]

\* args_get and environ_get: the addresses written until one string does not
\* fit; a pointer outside the memory is not stored
ArgsGet(ptr, buf) ==
  LET at == Ends(buf, 1)
      fits(i) == bound /\ at[i] <= MemSize
      n == CHOOSE n \in 0 .. Len(ArgLens) :
             (\A i \in 1 .. n : fits(i)) /\ (n < Len(ArgLens) => ~fits(n + 1))
      wrote == UNION ({at[i - 1] .. at[i] - 1 : i \in 1 .. n}
                      \cup {{a \in ptr + 4 * (i - 1) .. ptr + 4 * i - 1 : a < MemSize}
                            : i \in 1 .. Least(n + 1, Len(ArgLens))})
      room == (ptr .. ptr + 4 * Len(ArgLens) - 1) \cup (buf .. buf + ArgsSizes - 1)
  IN  /\ Runs /\ bound
      /\ Returns(Result(IF n = Len(ArgLens) THEN "ok" ELSE "inval",
                        IF ArgLens = <<>> \/ buf + ArgsSizes <= MemSize THEN "ok" ELSE "inval",
                        wrote \ room, {}))
      /\ UNCHANGED <<fds, next_fd, files, want, crash>>

\* ew_clock_ns: each sample is one unit later
TickedNever(c) == c
Ticked(c) == c + 1

\* samples of the clock that n subscriptions take at most, for which the bound
\* on the clock leaves room
Ticks(n) == n * (1 + MaxNs)

ClockTimeGet ==
  /\ Runs /\ Ticked(clock) + Ticks(1) < MaxClock
  /\ clock' = Ticked(clock)
  /\ last' = Result("ok", "ok", Told(clock'), clock')
  /\ UNCHANGED <<fds, next_fd, files, phase, call, want, crash>>

BeginPoll(v) ==
  /\ Runs /\ bound /\ clock + Ticks(Len(v)) < MaxClock
  /\ IF Len(v) > MaxSubs
     THEN last' = Result("inval", "inval", None, None) /\ UNCHANGED call
     ELSE /\ call' = [op |-> "poll", v |-> v, k |-> 1, events |-> <<>>, target |-> None,
                      rc |-> "ok", slept |-> 0, asked |-> 0, short |-> FALSE]
          /\ UNCHANGED last
  /\ UNCHANGED <<fds, next_fd, files, clock, phase, want, crash>>

Event(e) == [call EXCEPT !.k = @ + 1, !.target = None, !.events = Append(@, e)]

\* clock subscriptions (tag 0) are answered ENOTSUP, others sleep; the tag is
\* taken from byte 0 and the error put at byte 16
PollSub ==
  /\ call.op = "poll" /\ More /\ call.target = None
  /\ LET s == call.v[call.k]
     IN  \/ s = Bad /\ Break("inval") /\ UNCHANGED clock
         \/ s # Bad /\ s.tag = "clock" /\ call' = Event("notsup") /\ UNCHANGED clock
         \/ s # Bad /\ s.tag # "clock" /\ ~s.rel /\ call' = Event("ok") /\ UNCHANGED clock
         \/ /\ s # Bad /\ s.tag # "clock" /\ s.rel
            /\ clock' = Ticked(clock)
            /\ call' = [call EXCEPT !.target = (clock' + s.ns) % Range64, !.asked = @ + s.ns,
                                    !.slept = @ - clock']
  /\ UNCHANGED <<fds, next_fd, files, phase, want, last, crash>>

AwakeAtOnce(now) == TRUE
Awake(now) == now >= call.target

\* ep_sleep_ns: sample the clock until the target has come
SleepTick ==
  /\ call.op = "poll" /\ More /\ call.target # None
  /\ clock' = Ticked(clock)
  /\ call' = IF Awake(clock') THEN [Event("ok") EXCEPT !.slept = @ + clock'] ELSE call
  /\ UNCHANGED <<fds, next_fd, files, phase, want, last, crash>>

\* the events up to the first subscription outside the memory
WantEvents(v) ==
  LET n == First({j \in DOMAIN v : v[j] = Bad} \cup {Len(v) + 1}) - 1
  IN  [j \in 1 .. n |-> IF v[j].tag = "clock" /\ "clock" \notin Uses THEN "notsup" ELSE "ok"]

EndPoll ==
  /\ call.op = "poll" /\ ~More
  /\ LET r == Result(call.rc, IF \E j \in DOMAIN call.v : call.v[j] = Bad THEN "inval" ELSE "ok",
                     call.events, WantEvents(call.v))
     IN  last' = IF call.slept >= call.asked THEN r
                 ELSE [r EXCEPT !.slept = call.slept, !.asked = call.asked]
  /\ call' = Idle
  /\ UNCHANGED <<fds, next_fd, files, clock, phase, want, crash>>

----------------------------------------------------------------------------
Init ==
  /\ fds = <<>> /\ next_fd = 0 /\ files = [s \in Slots |-> NoFile] /\ clock = 0
  /\ phase = "setup" /\ call = Idle /\ last = Right /\ crash = FALSE
  /\ want = [cont |-> <<>>, open |-> <<>>]

Loop == WriteIov \/ ReadIov \/ EndWrite \/ EndRead \/ PollSub \/ SleepTick \/ EndPoll

Next ==
  \/ \E i \in 0 .. 2 : InitStd(i)
  \/ HostAdds \/ Instantiate \/ ea_wasi_bind \/ Exit
  \/ \E fd \in GuestFds, p \in Paths, flags \in Flags : PathOpen(fd, p, flags)
  \/ \E fd \in GuestFds :
       \/ FdClose(fd) \/ FdTell(fd) \/ FdFilestat(fd)
       \/ FdPrestatGet(fd) \/ FdPrestatDirName(fd) \/ FdSync(fd)
       \/ \E op \in {"read", "write"}, v \in Bufs : BeginIov(op, fd, v)
       \/ \E off \in Offs, whence \in Whences : FdSeek(fd, off, whence)
  \/ \E ptr, buf \in Ptrs : ArgsGet(ptr, buf)
  \/ ClockTimeGet \/ \E v \in Subs : BeginPoll(v)
  \/ Loop
  \/ phase = "freed" /\ UNCHANGED vars

Spec == Init /\ [][Next]_vars /\ WF_vars(Loop)
=============================================================================
