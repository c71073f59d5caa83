----------------------------- MODULE SysfsFile ------------------------------
(***************************************************************************)
(* The functions of internal/sysfs that work on one open file: fsync and   *)
(* datasync, poll, setNonblock and isNonblock, futimens, and the versions  *)
(* of readFd, writeFd and Accept for systems without support.  The build   *)
(* is chosen once (goos, go120); a function is an action of every build    *)
(* whose file defines it.                                                  *)
(*                                                                         *)
(* The kernel's side is kept to what the functions' results tell apart:    *)
(* how much of the file's data and metadata is on disk, whether the file   *)
(* has input, its blocking mode and its two times.  What the system calls  *)
(* do is not code of this repository and is modelled from their            *)
(* documentation (FileSync, Fdatasync, Poll, SetFileTime, NsecToFiletime,  *)
(* Write, DataArrives, Crash).                                             *)
(***************************************************************************)
EXTENDS Integers, SysfsBuild

CONSTANTS
    MaxWrites,      \* bound on the writes to the file between two crashes
    Timestamps,     \* the nanosecond timestamps futimens is called with
    TickNanos,      \* nanoseconds per tick of a Filetime (100)
    EpochTicks      \* ticks from the Filetime epoch, 1601, to 1970

ASSUME /\ MaxWrites \in Nat \ {0}
       /\ Timestamps \subseteq Int
       /\ TickNanos \in Nat \ {0}
       /\ EpochTicks \in Nat

VARIABLES
    goos,       \* the operating system of the build
    go120,      \* platform.IsAtLeastGo120
    isDir,      \* the file is a directory
    flag,       \* f.flag has sys.O_NONBLOCK
    written,    \* versions of the file's data and metadata in the page cache
    durable,    \* versions of them on disk
    acked,      \* versions a sync has returned zero for
    readable,   \* the file has input
    nonblock,   \* the kernel's blocking mode of the descriptor
    times,      \* the file's access and write time, in ticks
    ret         \* the last call and its results

build == <<goos, go120, isDir, flag>>
disk == <<written, durable, acked>>
vars == <<build, disk, readable, nonblock, times, ret>>

OK == "0"
Errno == {OK, "ENOSYS", "ENOTSUP", "EIO", "EINTR", "EACCES", "EBADF"}

POLLIN == "POLLIN"
Flags == {POLLIN, "POLLOUT"}
Timeouts == {-1, 0, 1}

\* sys.UTIME_OMIT, the least int64, here a timestamp below every other.
UTIME_OMIT == -1000
Nil == -1

Returned(fn, errno, value, atim, mtim) ==
    [fn |-> fn, errno |-> errno, value |-> value, atim |-> atim, mtim |-> mtim]

Return(fn, errno) == ret' = Returned(fn, errno, FALSE, UTIME_OMIT, UTIME_OMIT)

Versions == [data : 0..MaxWrites, meta : 0..MaxWrites]

Init ==
    /\ goos \in GOOS
    /\ go120 \in BOOLEAN
    /\ isDir \in BOOLEAN
    /\ flag \in BOOLEAN
    /\ written = [data |-> 0, meta |-> 0]
    /\ durable = written
    /\ acked = written
    /\ readable = FALSE
    /\ nonblock = FALSE
    /\ times = [a |-> EpochTicks, w |-> EpochTicks]
    /\ ret = Returned("none", OK, FALSE, UTIME_OMIT, UTIME_OMIT)

Builds(file) == goos \in file.builds

-----------------------------------------------------------------------------
(* The system.                                                             *)

\* A write changes the data and the metadata (size, write time) in the
\* page cache.
Write ==
    /\ written.data < MaxWrites
    /\ written' = [data |-> written.data + 1, meta |-> written.meta + 1]
    /\ UNCHANGED <<build, durable, acked, readable, nonblock, times, ret>>

DataArrives ==
    /\ ~readable
    /\ readable' = TRUE
    /\ UNCHANGED <<build, disk, nonblock, times, ret>>

\* The machine stops and the file is opened again: what was not on disk is
\* gone, and so is the state of the descriptor.
Crash ==
    /\ written # durable \/ readable \/ nonblock \/ ret.fn # "none"
    /\ written' = durable
    /\ readable' = FALSE
    /\ nonblock' = FALSE
    /\ ret' = Returned("none", OK, FALSE, UTIME_OMIT, UTIME_OMIT)
    /\ UNCHANGED <<build, durable, acked, times>>

\* os.File.Sync: data and metadata reach the disk, or the call fails.
FileSync(errno) ==
    \/ errno = OK /\ durable' = written
    \/ errno = "EIO" /\ UNCHANGED durable

\* fdatasync(2): the data reaches the disk, the metadata need not.
Fdatasync(errno) ==
    \/ errno = OK /\ durable' = [durable EXCEPT !.data = written.data]
    \/ errno = "EIO" /\ UNCHANGED durable

\* poll(2) on one descriptor: the number of ready descriptors; zero when
\* the timeout passes first, which a negative timeout never does; input may
\* arrive while a call with a timeout waits.
Poll(count, errno, timeoutMillis) ==
    \/ count = 1 /\ errno = OK /\ readable /\ UNCHANGED readable
    \/ count = 1 /\ errno = OK /\ ~readable /\ timeoutMillis # 0 /\ readable' = TRUE
    \/ count = 0 /\ errno = OK /\ ~readable /\ timeoutMillis >= 0 /\ UNCHANGED readable
    \/ count = -1 /\ errno = "EINTR" /\ UNCHANGED readable

\* Go's integer division, which truncates toward zero.
Quo(a, b) == IF a >= 0 THEN a \div b ELSE -((-a) \div b)

\* syscall.NsecToFiletime: ticks since 1601, as an unsigned number.
NsecToFiletime(nsec) == Quo(nsec, TickNanos) + EpochTicks

\* SetFileTime: a time that is nil or zero is left as it is; a directory
\* is refused.
SetFileTime(a, w, errno) ==
    \/ /\ isDir
       /\ errno = "EACCES"
       /\ UNCHANGED times
    \/ /\ ~isDir
       /\ errno = OK
       /\ times' = [a |-> IF a \in {Nil, 0} THEN times.a ELSE a,
                    w |-> IF w \in {Nil, 0} THEN times.w ELSE w]

-----------------------------------------------------------------------------
(* sync.go, datasync_linux.go, datasync_unsupported.go                     *)

fsync(errno) == FileSync(errno)

datasync_linux(errno) == Fdatasync(errno)

\* Mutant: without fdatasync there is nothing to do.
datasync_unsupported_Nothing(errno) == errno = OK /\ UNCHANGED durable

\* "Attempt to sync everything, even if we only need to sync the data."
datasync_unsupported(errno) == fsync(errno)

\* What the caller of a sync that returned errno may rely on.
Acknowledge(errno, versions) ==
    acked' = IF errno = OK THEN versions ELSE acked

Fsync ==
    /\ Builds(sync_go)
    /\ \E errno \in Errno :
           fsync(errno) /\ Acknowledge(errno, written) /\ Return("fsync", errno)
    /\ UNCHANGED <<build, written, readable, nonblock, times>>

Datasync ==
    /\ \E errno \in Errno :
           /\ \/ Builds(datasync_linux_go) /\ datasync_linux(errno)
              \/ Builds(datasync_unsupported_go) /\ datasync_unsupported(errno)
           /\ Acknowledge(errno, [acked EXCEPT !.data = written.data])
           /\ Return("datasync", errno)
    /\ UNCHANGED <<build, written, readable, nonblock, times>>

-----------------------------------------------------------------------------
(* poll.go, poll_unsupported.go                                            *)

\* Mutant: a count of zero, the timeout, is taken for ready.
Ready_OnTimeout(count) == count >= 0

Ready(count) == count > 0

poll(flags, timeoutMillis) ==
    /\ Builds(poll_go)
    /\ \/ /\ flags # POLLIN
          /\ Return("poll", "ENOTSUP")
          /\ UNCHANGED readable
       \/ /\ flags = POLLIN
          /\ \E count \in -1..1, errno \in Errno :
                 /\ Poll(count, errno, timeoutMillis)
                 /\ ret' = Returned("poll", errno, Ready(count),
                                    UTIME_OMIT, UTIME_OMIT)
    /\ UNCHANGED <<build, disk, nonblock, times>>

poll_unsupported ==
    /\ Builds(poll_unsupported_go)
    /\ Return("poll", "ENOSYS")
    /\ UNCHANGED <<build, disk, readable, nonblock, times>>

-----------------------------------------------------------------------------
(* nonblock_unix.go, nonblock_plan9.go                                     *)

\* syscall.SetNonblock sets the mode, or refuses a descriptor that is closed.
setNonblock_unix(enable) ==
    /\ Builds(nonblock_unix_go)
    /\ \E errno \in {OK, "EBADF"} :
           /\ nonblock' = IF errno = OK THEN enable ELSE nonblock
           /\ Return("setNonblock", errno)
    /\ UNCHANGED <<build, disk, readable, times>>

setNonblock_plan9 ==
    /\ Builds(nonblock_plan9_go)
    /\ Return("setNonblock", "ENOSYS")
    /\ UNCHANGED <<build, disk, readable, nonblock, times>>

IsNonblockOnPlan9 == FALSE

isNonblock ==
    /\ \/ /\ Builds(nonblock_unix_go)
          /\ ret' = Returned("isNonblock", OK, flag, UTIME_OMIT, UTIME_OMIT)
       \/ /\ Builds(nonblock_plan9_go)
          /\ ret' = Returned("isNonblock", OK, IsNonblockOnPlan9,
                             UTIME_OMIT, UTIME_OMIT)
    /\ UNCHANGED <<build, disk, readable, nonblock, times>>

-----------------------------------------------------------------------------
(* file_unsupported.go, sock_unsupported.go                                *)

\* readFd and writeFd return -1 and ENOSYS.
readWriteFd ==
    /\ Builds(file_unsupported_go)
    /\ \E fn \in {"readFd", "writeFd"} : Return(fn, "ENOSYS")
    /\ UNCHANGED <<build, disk, readable, nonblock, times>>

\* newTCPListenerFile gives a file whose Accept returns ENOSYS.
Accept ==
    /\ Builds(sock_unsupported_go)
    /\ Return("Accept", "ENOSYS")
    /\ UNCHANGED <<build, disk, readable, nonblock, times>>

-----------------------------------------------------------------------------
(* futimens_windows.go                                                     *)

\* Mutant: a timestamp is converted whether it is UTIME_OMIT or not.
timespecToFileTime_NoOmit(tim) == NsecToFiletime(tim)

timespecToFileTime(tim) ==
    IF tim = UTIME_OMIT THEN Nil ELSE NsecToFiletime(tim)

\* Mutant: the two times change places.
timespecToFiletime_Swapped(atim, mtim) ==
    [a |-> timespecToFileTime(mtim), w |-> timespecToFileTime(atim)]

timespecToFiletime(atim, mtim) ==
    [a |-> timespecToFileTime(atim), w |-> timespecToFileTime(mtim)]

futimens(atim, mtim) ==
    /\ Builds(futimens_windows_go)
    /\ LET ft == timespecToFiletime(atim, mtim)
           Done(errno) == ret' = Returned("futimens", errno, FALSE, atim, mtim)
       IN  \/ ~go120 /\ Done("ENOSYS") /\ UNCHANGED times
           \/ go120 /\ ft.a = Nil /\ ft.w = Nil /\ Done(OK) /\ UNCHANGED times
           \/ /\ go120
              /\ ft.a # Nil \/ ft.w # Nil
              /\ \E errno \in Errno :
                     SetFileTime(ft.a, ft.w, errno) /\ Done(errno)
    /\ UNCHANGED <<build, disk, readable, nonblock>>

-----------------------------------------------------------------------------

Next ==
    \/ Write \/ DataArrives \/ Crash
    \/ Fsync \/ Datasync
    \/ \E flags \in Flags, timeoutMillis \in Timeouts : poll(flags, timeoutMillis)
    \/ poll_unsupported
    \/ \E enable \in BOOLEAN : setNonblock_unix(enable)
    \/ setNonblock_plan9 \/ isNonblock
    \/ readWriteFd \/ Accept
    \/ \E atim, mtim \in Timestamps \cup {UTIME_OMIT} : futimens(atim, mtim)

Spec == Init /\ [][Next]_vars

-----------------------------------------------------------------------------

Ticks == {NsecToFiletime(t) : t \in Timestamps} \cup {EpochTicks}

\* The state has its type; the times of the file are ticks a timestamp of
\* the calls converts to, none of them the conversion of UTIME_OMIT.
TypeOK ==
    /\ goos \in GOOS
    /\ go120 \in BOOLEAN /\ isDir \in BOOLEAN /\ flag \in BOOLEAN
    /\ written \in Versions /\ durable \in Versions /\ acked \in Versions
    /\ readable \in BOOLEAN /\ nonblock \in BOOLEAN
    /\ times \in [a : Ticks, w : Ticks]
    /\ ret \in [fn : {"none", "fsync", "datasync", "poll", "setNonblock",
                      "isNonblock", "readFd", "writeFd", "Accept", "futimens"},
                errno : Errno, value : BOOLEAN,
                atim : Timestamps \cup {UTIME_OMIT},
                mtim : Timestamps \cup {UTIME_OMIT}]

\* The build links: no function is defined twice in it, and poll, datasync
\* and defaultStatFile, whose versions are all in the snapshot, are defined
\* in it.  The build lines of the versions of a function exclude each
\* other and those of poll and of datasync complement each other
\* (datasync_unsupported.go, "!linux").
OneImplementationPerBuild == Links(goos)

\* What fsync or datasync returned zero for is on disk, and so is still
\* there after a crash: fsync answers for data and metadata, datasync for
\* the data, on Linux by fdatasync and elsewhere, where
\* datasync_unsupported.go is built, by falling back to fsync.
AcknowledgedSyncIsDurable ==
    /\ acked.data <= durable.data
    /\ acked.meta <= durable.meta

\* poll reports ready only when the file has input and the system call did
\* not fail: a timeout (count 0) and an interrupted call (count -1, EINTR)
\* are both "not ready" by the test count > 0 of poll.go.
PollReadyMeansReadable ==
    ret.fn = "poll" /\ ret.value => readable /\ ret.errno = OK

\* The time futimens means to leave for a timestamp: the old one for
\* UTIME_OMIT, and for the timestamp of the Filetime epoch, which is the
\* zero SetFileTime takes for "no change".
TimeAfter(tim, old) ==
    IF tim = UTIME_OMIT \/ NsecToFiletime(tim) = 0 THEN old
    ELSE NsecToFiletime(tim)

\* A futimens that returns nil has set the access time from atim and the
\* write time from mtim, each left alone when it is UTIME_OMIT; a futimens
\* that fails (ENOSYS before Go 1.20, a directory) changes neither.
TimesSetAsAsked ==
    [][ret'.fn = "futimens" /\ ret' # ret =>
          IF ret'.errno = OK
          THEN times' = [a |-> TimeAfter(ret'.atim, times.a),
                         w |-> TimeAfter(ret'.mtim, times.w)]
          ELSE times' = times]_vars

=============================================================================
