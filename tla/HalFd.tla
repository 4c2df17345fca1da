-------------------------------- MODULE HalFd --------------------------------
(***************************************************************************)
(* File descriptors of the HAL: the pool of descriptors with its high      *)
(* water mark, the lists of devices and file systems, the redirection of   *)
(* the three standard streams at start-up, and exclusive access.           *)
(*                                                                         *)
(* The program has one thread, and no interrupt routine opens or closes    *)
(* anything, so a system call is a step.  A file system answers an open    *)
(* or a close as it likes.                                                 *)
(***************************************************************************)
EXTENDS DeviceList

CONSTANTS ALT_MAX_FD,   \* size of the pool, more than the three standard descriptors
          Devices,      \* names of the character devices alt_sys_init registers
          FileSystems,  \* names of the file systems it registers
          Stdio,        \* name of the device system.h gives the standard streams
          Names         \* names the application opens

VARIABLES dev_list, fs_list,  \* alt_dev_list and alt_fs_list
          fd_list,            \* alt_fd_list, the pool
          max_fd,             \* alt_max_fd, the highest descriptor ever given out
          stage,              \* how far alt_main has come
          result              \* what the last system call returned

vars == <<dev_list, fs_list, fd_list, max_fd, stage, result>>
lists == <<dev_list, fs_list>>

DevNull == <<"dev", "null">>
Fds == 0 .. ALT_MAX_FD - 1
StdFds == 0 .. 2
FREE == [dev |-> NULL, excl |-> FALSE, isdev |-> FALSE, access |-> "none"]
Done(call, fd) == [call |-> call, fd |-> fd]
FAILED == -1

InUse(fd) == fd_list[fd].dev # NULL

Init ==
  /\ dev_list = Single(Devices \cup {DevNull}, DevNull)
  /\ fs_list = Empty(FileSystems)
  /\ fd_list = [fd \in Fds |-> IF fd \in StdFds THEN [FREE EXCEPT !.dev = DevNull, !.access = "r"] ELSE FREE]
  /\ max_fd = -1
  /\ stage = "sys_init"
  /\ result = Done("none", 0)

\* alt_get_fd: the first free descriptor, or none.
get_fd == IF \A fd \in Fds : InUse(fd) THEN FAILED ELSE Min({fd \in Fds : ~InUse(fd)})

\* Variant: looks up to the mark as alt_fd_lock does.
file_locked_Below(fd, dev) ==
  \E i \in Fds : i < Max({max_fd, fd}) /\ i # fd /\ fd_list[i].dev = dev /\ fd_list[i].excl

\* alt_file_locked: another descriptor up to the mark has dev for itself.
file_locked(fd, dev) ==
  \E i \in Fds : i <= Max({max_fd, fd}) /\ i # fd /\ fd_list[i].dev = dev /\ fd_list[i].excl

\* Variant: gives every descriptor back.
release_fd_Any(pool, fd) == IF fd >= 0 THEN [pool EXCEPT ![fd] = FREE] ELSE pool

\* alt_release_fd: the standard streams are never given back.
release_fd(pool, fd) == IF fd > 2 THEN [pool EXCEPT ![fd] = FREE] ELSE pool

\* Variant: leaves the mark where it is when it is above the standard streams.
Mark_Once(fd) == IF max_fd > 2 THEN max_fd ELSE Max({max_fd, fd})

\* The high water mark after fd is given out.
Mark(fd) == Max({max_fd, fd})

\* What open finds and decides: the device, the descriptor and whether it gets it.
\* accepts is the answer of a file system; no character device has an open of its own.
Opening(name, accepts) ==
  LET dev == FindDev(dev_list, name)
      isafs == dev = NULL
      owner == IF isafs THEN FindFile(fs_list, name) ELSE dev
      fd == IF owner = NULL THEN FAILED ELSE get_fd
  IN [dev |-> owner, isafs |-> isafs, fd |-> fd,
      granted |-> fd # FAILED /\ (IF isafs THEN accepts ELSE ~file_locked(fd, owner))]

\* The pool after open has filled in the descriptor, and after its clean-up.
Opened(o, access) ==
  IF o.fd = FAILED THEN fd_list
  ELSE [fd_list EXCEPT ![o.fd] = [dev |-> o.dev, excl |-> FALSE, isdev |-> ~o.isafs, access |-> access]]

\* Variant: a refused open keeps its descriptor.
AfterOpen_Kept(o, access) == Opened(o, access)

AfterOpen(o, access) ==
  IF o.granted THEN Opened(o, access)
  ELSE release_fd(Opened(o, access), o.fd)
-------------------------------------------------------------------------------
(* Start-up: alt_sys_init registers the devices, alt_io_redirect opens the *)
(* device of the standard streams for each of them.                        *)

DevReg(d) ==
  /\ stage = "sys_init" /\ dev_list.next[d] = NULL
  /\ dev_list' = Insert(dev_list, d)
  /\ UNCHANGED <<fs_list, fd_list, max_fd, stage, result>>

FsReg(fs) ==
  /\ stage = "sys_init" /\ fs_list.next[fs] = NULL
  /\ fs_list' = Insert(fs_list, fs)
  /\ UNCHANGED <<dev_list, fd_list, max_fd, stage, result>>

SysInitDone ==
  /\ stage = "sys_init"
  /\ stage' = "stdout"
  /\ UNCHANGED <<lists, fd_list, max_fd, result>>

\* alt_open_fd: copy what open returned into the standard descriptor and give it back.
Redirect(from, fd, access, to) ==
  /\ stage = from /\ stage' = to
  /\ \E accepts \in BOOLEAN :
       LET o == Opening(Stdio, accepts)
           pool == AfterOpen(o, access)
       IN /\ fd_list' = IF o.granted THEN release_fd([pool EXCEPT ![fd] = pool[o.fd]], o.fd) ELSE pool
          /\ max_fd' = IF o.fd = FAILED THEN max_fd ELSE Mark(o.fd)
  /\ UNCHANGED <<lists, result>>

IoRedirect ==
  \/ Redirect("stdout", 1, "w", "stdin")
  \/ Redirect("stdin", 0, "r", "stderr")
  \/ Redirect("stderr", 2, "w", "main")
-------------------------------------------------------------------------------
(* System calls of the application *)

Open(name, access, accepts) ==
  /\ stage = "main"
  /\ LET o == Opening(name, accepts)
     IN /\ fd_list' = AfterOpen(o, access)
        /\ max_fd' = IF o.fd = FAILED THEN max_fd ELSE Mark(o.fd)
        /\ result' = Done("open", IF o.granted THEN o.fd ELSE FAILED)
  /\ UNCHANGED <<lists, stage>>

\* The driver's close may report that data is left; the descriptor is given back anyway.
Close(fd) ==
  /\ stage = "main" /\ InUse(fd)
  /\ fd_list' = release_fd(fd_list, fd)
  /\ \E rval \in {0, FAILED} :
       /\ fd_list[fd].dev = DevNull => rval = 0
       /\ result' = Done("close", rval)
  /\ UNCHANGED <<lists, max_fd, stage>>

\* alt_fd_lock: no other descriptor below the mark refers to the device.
fd_lock(fd) == \A i \in Fds : i < max_fd /\ i # fd => fd_list[i].dev # fd_list[fd].dev

IoctlExcl(fd) ==
  /\ stage = "main" /\ InUse(fd) /\ fd_list[fd].isdev
  /\ fd_list' = IF fd_lock(fd) THEN [fd_list EXCEPT ![fd].excl = TRUE] ELSE fd_list
  /\ result' = Done("lock", IF fd_lock(fd) THEN 0 ELSE FAILED)
  /\ UNCHANGED <<lists, max_fd, stage>>

IoctlNxcl(fd) ==
  /\ stage = "main" /\ InUse(fd) /\ fd_list[fd].isdev
  /\ fd_list' = [fd_list EXCEPT ![fd].excl = FALSE]
  /\ result' = Done("unlock", 0)
  /\ UNCHANGED <<lists, max_fd, stage>>

\* read and write pass the call on to the driver if the descriptor was opened for it.
MayRead(fd) == fd_list[fd].access # "w" /\ fd_list[fd].dev # DevNull
MayWrite(fd) == fd_list[fd].access # "r"

Transfer(fd, call) ==
  /\ stage = "main" /\ InUse(fd)
  /\ result' = Done(call, IF IF call = "read" THEN MayRead(fd) ELSE MayWrite(fd) THEN 0 ELSE FAILED)
  /\ UNCHANGED <<lists, fd_list, max_fd, stage>>

Boot == (\E d \in Devices : DevReg(d)) \/ (\E fs \in FileSystems : FsReg(fs)) \/ SysInitDone \/ IoRedirect

Next ==
  \/ Boot
  \/ \E name \in Names, access \in {"r", "w"}, accepts \in BOOLEAN :
       Open(name, access, accepts)
  \/ \E fd \in Fds :
       \/ Close(fd) \/ IoctlExcl(fd) \/ IoctlNxcl(fd)
       \/ \E call \in {"read", "write"} : Transfer(fd, call)

Spec == Init /\ [][Next]_vars
-------------------------------------------------------------------------------
TypeOK ==
  /\ fd_list \in [Fds -> [dev : Devices \cup FileSystems \cup {DevNull, NULL}, excl : BOOLEAN,
                          isdev : BOOLEAN, access : {"none", "r", "w"}]]
  /\ max_fd \in -1 .. ALT_MAX_FD - 1
  /\ stage \in {"sys_init", "stdout", "stdin", "stderr", "main"}

\* No open succeeds on a device that another descriptor has for itself, in whatever order
\* descriptors were taken and given back: the search up to the mark misses none.
NoOpenWhileLocked ==
  [][\A fd \in Fds : result'.call = "open" /\ result'.fd = fd /\ fd_list[fd] = FREE /\ fd_list'[fd].isdev =>
       ~\E i \in Fds \ {fd} : fd_list[i].dev = fd_list'[fd].dev /\ fd_list[i].excl]_vars

\* An open that fails, for whatever reason, leaves the pool as it was.
FailedOpenLeavesNothing ==
  [][result'.call = "open" /\ result'.fd = FAILED => fd_list' = fd_list]_vars

\* The standard streams always lead somewhere, closed or not, and as soon as main runs it
\* is the device meant for them if that was registered.
StdioNeverLost ==
  \A fd \in StdFds :
    /\ InUse(fd)
    /\ stage = "main" /\ Stdio \in Range(Entries(dev_list)) => fd_list[fd].dev = Stdio

\* The searches that stop at the mark see every descriptor that was taken from the pool.
MarkCoversPool == \A fd \in Fds \ StdFds : InUse(fd) => fd <= max_fd

\* Exclusive access is exclusive: no other descriptor refers to the device.
ExclusiveIsAlone ==
  \A fd \in Fds : fd_list[fd].excl => \A i \in Fds \ {fd} : fd_list[i].dev # fd_list[fd].dev
===============================================================================
