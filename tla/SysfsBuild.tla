----------------------------- MODULE SysfsBuild -----------------------------
(***************************************************************************)
(* Which file of internal/sysfs is compiled for which operating system,    *)
(* and which functions it defines.  A file is chosen by its //go:build     *)
(* line and by the suffix of its name (_linux, _windows, _plan9); a        *)
(* function that two files of one build define, or none, does not link.    *)
(*                                                                         *)
(* Only the files of this snapshot are listed.  The Windows versions of    *)
(* rename, unlink, fsync and setNonblock, and the Unix and Windows         *)
(* versions of rmdir, readFd, writeFd and of the socket file, are in files *)
(* that are not part of it.                                                *)
(***************************************************************************)
EXTENDS Naturals, FiniteSets

\* The values of GOOS the checks are made for.  "freebsd" stands for the
\* Unix systems other than Linux and Darwin, "js" for the systems that are
\* neither Unix nor Windows nor Plan 9.
GOOS == {"linux", "darwin", "freebsd", "windows", "plan9", "js"}

\* The build tag "unix".
Unix == {"linux", "darwin", "freebsd"}

File(name, builds, defines) ==
    [name |-> name, builds |-> builds, defines |-> defines]

rename_go       == File("rename.go", GOOS \ {"windows", "plan9"}, {"rename"})
rename_plan9_go == File("rename_plan9.go", {"plan9"}, {"rename"})
unlink_go       == File("unlink.go", GOOS \ {"windows", "plan9"}, {"unlink"})
unlink_plan9_go == File("unlink_plan9.go", {"plan9"}, {"unlink"})

poll_go             == File("poll.go", {"windows", "linux", "darwin"}, {"poll"})
poll_unsupported_go == File("poll_unsupported.go", GOOS \ {"linux", "darwin", "windows"}, {"poll"})

sync_go == File("sync.go", GOOS \ {"windows"}, {"fsync"})

\* Mutant: the file is left without its build line.
datasync_unsupported_go_NoBuildLine == File("datasync_unsupported.go", GOOS, {"datasync"})

datasync_linux_go       == File("datasync_linux.go", {"linux"}, {"datasync"})
datasync_unsupported_go == File("datasync_unsupported.go", GOOS \ {"linux"}, {"datasync"})

stat_go      == File("stat.go", GOOS, {"defaultStatFile"})
ino_go       == File("ino.go", GOOS \ {"windows", "plan9"}, {"inoFromFileInfo"})
ino_plan9_go == File("ino_plan9.go", {"plan9"}, {"inoFromFileInfo"})

nonblock_unix_go  == File("nonblock_unix.go", GOOS \ {"windows", "plan9"}, {"setNonblock", "isNonblock"})
nonblock_plan9_go == File("nonblock_plan9.go", {"plan9"}, {"setNonblock", "isNonblock"})

file_unsupported_go == File("file_unsupported.go", GOOS \ (Unix \cup {"windows"}), {"rmdir", "readFd", "writeFd"})
sock_unsupported_go == File("sock_unsupported.go", GOOS \ {"linux", "darwin", "windows"},
                            {"newTCPListenerFile", "Accept"})

futimens_windows_go == File("futimens_windows.go", {"windows"}, {"utimens", "futimens"})

Files ==
    {rename_go, rename_plan9_go, unlink_go, unlink_plan9_go, poll_go,
     poll_unsupported_go, sync_go, datasync_linux_go, datasync_unsupported_go,
     stat_go, ino_go, ino_plan9_go, nonblock_unix_go, nonblock_plan9_go,
     file_unsupported_go, sock_unsupported_go, futimens_windows_go}

\* The files of a build that define fn.
Implementations(fn, os) == {f \in Files : os \in f.builds /\ fn \in f.defines}

\* The functions of which both the supported and the fallback version are in
\* the snapshot.
Complete == {"poll", "datasync", "defaultStatFile"}

\* The build for os links: no function is defined twice in it, and a
\* function whose versions are all in the snapshot is defined in it.
Links(os) ==
    /\ \A fn \in UNION {f.defines : f \in Files} :
           Cardinality(Implementations(fn, os)) <= 1
    /\ \A fn \in Complete : Implementations(fn, os) # {}

=============================================================================
