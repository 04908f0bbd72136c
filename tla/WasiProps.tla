----------------------------- MODULE WasiProps -----------------------------
(***************************************************************************)
(* What the WASI layer promises its guest, over WasiFd.                    *)
(***************************************************************************)
EXTENDS WasiFd

Names == {<<b, p>> : b \in Range(Setup), p \in Paths}
Bytes == {0} \cup UNION {UNION {Range(v[j]) : j \in {i \in DOMAIN v : v[i] # Bad}} : v \in Bufs}
Contents == UNION {[1 .. n -> Bytes] : n \in 0 .. MaxSize}
Settled == call = Idle /\ ~crash

(* Every variable has its type; next_fd bounds the descriptors in use.     *)
TypeOK ==
  /\ \A i \in DOMAIN fds : fds[i].pf \in Nat /\ fds[i].fb_len \in 0 .. FbCap
  /\ \A i \in DOMAIN fds : fds[i].used => i < next_fd
  /\ DOMAIN fds = 0 .. Cap - 1
  /\ \A s \in Slots : files[s].used => (files[s].name \in Names /\ files[s].data \in Contents)
  /\ clock \in Nat /\ crash \in BOOLEAN
  /\ phase \in {"setup", "start", "guest", "freed"}
  /\ DOMAIN want.cont \subseteq Names /\ DOMAIN want.open \subseteq 0 .. MaxFd

(* Between calls the descriptor table holds exactly the descriptors the    *)
(* guest has been given and not closed, and each file descriptor leads,    *)
(* through its RAM-fs handle, to the file it was opened for, at its own    *)
(* offset: after any number of opens, closes, reuses of a number and       *)
(* growth of the table (fd_alloc_any, sys_path_open, sys_fd_close).        *)
DescriptorsExact ==
  Settled =>
    /\ {i \in DOMAIN fds : fds[i].used} = DOMAIN want.open
    /\ \A i \in DOMAIN want.open :
         want.open[i].kind = "file" =>
           /\ fds[i].pf \in Slots
           /\ LET f == files[fds[i].pf]
              IN  f.used /\ f.name = want.open[i].name /\ f.ofs = want.open[i].ofs

(* Between calls each file holds what the guest has written to it, piece   *)
(* by piece and through every descriptor it ever had, under one name       *)
(* (ew_write, ew_open, sys_fd_write).                                      *)
ContentExact ==
  Settled =>
    /\ {files[s].name : s \in {r \in Slots : files[r].used}} = DOMAIN want.cont
    /\ \A s \in Slots : files[s].used => files[s].data = want.cont[files[s].name]

(* Each call succeeds or is refused as the history of calls makes right,   *)
(* and hands back the right bytes, count, offset or descriptor, also when  *)
(* one of several iovecs fails or a limit is met (sys_fd_write,            *)
(* sys_fd_read, sys_fd_seek, sys_path_open and the others).  Which error a *)
(* refusal names is not claimed.  Sizes of files and the fields of poll    *)
(* are taken from where wasi.c puts them.                                  *)
ResultExact == ~crash => ((last.rc = "ok" <=> last.wrc = "ok") /\ last.same)

(* No path reaches outside the preopened directories (resolve_path).       *)
Sandbox ==
  \A s \in Slots :
    files[s].used => /\ files[s].name[1] \in Range(Setup) \ {Efb}
                     /\ files[s].name[2] \notin Escapes

(* A relative subscription sleeps at least its timeout, whatever the       *)
(* samples of the clock in between (ep_sleep_ns).                          *)
SleptEnough == last.slept >= last.asked

(* The program does nothing undefined: the framebuffer is freed once, and  *)
(* no pointer into the descriptor table is used after it may have moved    *)
(* (sys_path_open, ea_wasi_ctx_free).                                      *)
NoCrash == ~crash

(* Every call that has begun returns: the loops over iovecs and            *)
(* subscriptions end, and so does the wait for the clock (ep_sleep_ns).    *)
CallReturns == call # Idle ~> call = Idle
=============================================================================
