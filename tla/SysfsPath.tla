----------------------------- MODULE SysfsPath ------------------------------
(***************************************************************************)
(* The functions of internal/sysfs that work on a path: rename, unlink,    *)
(* the rmdir of systems without support, defaultStatFile and               *)
(* inoFromFileInfo, over one directory with a few names.  The build is     *)
(* chosen once (goos); a function is an action of every build whose file   *)
(* defines it.                                                             *)
(*                                                                         *)
(* A function of the code is an operator whose value is <<errno, tree>>,   *)
(* the result and the directory after the call.  The system calls          *)
(* (SysRename, SysUnlink, SysRemove) are not code of this repository and   *)
(* are modelled from their documentation.                                  *)
(***************************************************************************)
EXTENDS Integers, SysfsBuild

CONSTANTS
    Names,      \* the names in the directory
    MaxInode    \* bound on the files ever created

ASSUME MaxInode \in Nat \ {0}

VARIABLES
    goos,       \* the operating system of the build
    tree,       \* name -> the file of that name, or None
    created,    \* the number of files created so far
    ret         \* the last call: function, arguments, results

vars == <<goos, tree, created, ret>>

OK == "0"
Errno == {OK, "ENOENT", "EPERM", "EISDIR", "ENOTDIR", "ENOTEMPTY", "EIO"}

\* "immutable" is a file the system refuses to unlink (EPERM); "fulldir" a
\* directory that is not empty.
Kinds == {"file", "immutable", "dir", "fulldir"}
Dirs == {"dir", "fulldir"}
None == [kind |-> "none", ino |-> 0]
Entries == [kind : Kinds, ino : 1..MaxInode]

\* The types info.Sys() may have.
SysTypes == {"*sys.Stat_t", "*syscall.Stat_t", "other"}

Returned(fn, errno, from, to, ino) ==
    [fn |-> fn, errno |-> errno, from |-> from, to |-> to, ino |-> ino]

NoCall == [fn |-> "none"]

Init ==
    /\ goos \in GOOS
    /\ tree = [n \in Names |-> None]
    /\ created = 0
    /\ ret = NoCall

Builds(file) == goos \in file.builds

IsDir(name) == tree[name].kind \in Dirs

-----------------------------------------------------------------------------
(* The system.                                                             *)

Create(name, kind) ==
    /\ tree[name] = None
    /\ created < MaxInode
    /\ created' = created + 1
    /\ tree' = [tree EXCEPT ![name] = [kind |-> kind, ino |-> created + 1]]
    /\ ret' = NoCall
    /\ UNCHANGED goos

\* rename(2): to is replaced in one step by what from names.
SysRename(from, to) ==
    LET errno == CASE tree[from] = None -> "ENOENT"
                   [] from = to \/ tree[to] = None -> OK
                   [] IsDir(from) /\ ~IsDir(to) -> "ENOTDIR"
                   [] ~IsDir(from) /\ IsDir(to) -> "EISDIR"
                   [] tree[to].kind = "fulldir" -> "ENOTEMPTY"
                   [] OTHER -> OK
    IN  <<errno, IF errno = OK /\ from # to
                 THEN [tree EXCEPT ![to] = tree[from], ![from] = None]
                 ELSE tree>>

\* unlink(2): a directory is refused, with EISDIR by Linux and with EPERM
\* by the other systems; an immutable file is refused with EPERM.
SysUnlink(name) ==
    LET errno == CASE tree[name] = None -> "ENOENT"
                   [] IsDir(name) -> IF goos = "linux" THEN "EISDIR" ELSE "EPERM"
                   [] tree[name].kind = "immutable" -> "EPERM"
                   [] OTHER -> OK
    IN  <<errno, IF errno = OK THEN [tree EXCEPT ![name] = None] ELSE tree>>

\* remove: files and empty directories alike.
SysRemove(name) ==
    LET errno == CASE tree[name] = None -> "ENOENT"
                   [] tree[name].kind = "fulldir" -> "ENOTEMPTY"
                   [] tree[name].kind = "immutable" -> "EPERM"
                   [] OTHER -> OK
    IN  <<errno, IF errno = OK THEN [tree EXCEPT ![name] = None] ELSE tree>>

-----------------------------------------------------------------------------
(* rename.go, rename_plan9.go, unlink.go, unlink_plan9.go,                 *)
(* file_unsupported.go                                                     *)

\* Mutant: the arguments of the system call change places.
rename_Swapped(from, to) ==
    IF from = to THEN <<OK, tree>> ELSE SysRename(to, from)

rename(from, to) ==
    IF from = to THEN <<OK, tree>> ELSE SysRename(from, to)

rename_plan9(from, to) ==
    IF from = to THEN <<OK, tree>> ELSE SysRename(from, to)

\* Mutant: the system call is the remove of unlink_plan9.go.
unlink_ViaRemove(name) == SysRemove(name)

unlink(name) ==
    LET r == SysUnlink(name)
    IN  <<IF r[1] = "EPERM" THEN "EISDIR" ELSE r[1], r[2]>>

unlink_plan9(name) == SysRemove(name)

rmdir(path) == SysRemove(path)

\* A call of fn whose result is r.
Call(fn, from, to, r) ==
    /\ tree' = r[2]
    /\ ret' = Returned(fn, r[1], from, to, 0)
    /\ UNCHANGED <<goos, created>>

Rename(from, to) ==
    \/ Builds(rename_go) /\ Call("rename", from, to, rename(from, to))
    \/ Builds(rename_plan9_go) /\ Call("rename", from, to, rename_plan9(from, to))

Unlink(name) ==
    \/ Builds(unlink_go) /\ Call("unlink", name, name, unlink(name))
    \/ Builds(unlink_plan9_go) /\ Call("unlink", name, name, unlink_plan9(name))

Rmdir(path) ==
    Builds(file_unsupported_go) /\ Call("rmdir", path, path, rmdir(path))

-----------------------------------------------------------------------------
(* stat.go, ino.go, ino_plan9.go                                           *)

\* f.Stat() fails, or gives the information NewStat_t copies.
defaultStatFile(name) ==
    /\ tree[name] # None
    /\ \E errno \in {OK, "EIO"} :
           ret' = Returned("defaultStatFile", errno, name, name,
                           IF errno = OK THEN tree[name].ino ELSE 0)
    /\ UNCHANGED <<goos, tree, created>>

\* The cases of the type switch that have an inode.
HasIno(sysType) ==
    sysType \in (IF Builds(ino_plan9_go) THEN {"*sys.Stat_t"}
                 ELSE {"*sys.Stat_t", "*syscall.Stat_t"})

inoFromFileInfo(name, sysType) ==
    /\ Builds(ino_go) \/ Builds(ino_plan9_go)
    /\ tree[name] # None
    /\ ret' = Returned("inoFromFileInfo", OK, name, name,
                       IF HasIno(sysType) THEN tree[name].ino ELSE 0)
    /\ UNCHANGED <<goos, tree, created>>

-----------------------------------------------------------------------------

Next ==
    \/ \E name \in Names, kind \in Kinds : Create(name, kind)
    \/ \E from, to \in Names : Rename(from, to)
    \/ \E name \in Names : Unlink(name) \/ Rmdir(name) \/ defaultStatFile(name)
    \/ \E name \in Names, sysType \in SysTypes : inoFromFileInfo(name, sysType)

Spec == Init /\ [][Next]_vars

-----------------------------------------------------------------------------

Is(fn) == ret' # NoCall /\ ret'.fn = fn

\* A rename that returns zero for two different names has moved the file:
\* the new name has what the old name had, the old name is gone, and no
\* other name changed.  rename.go and rename_plan9.go pass from and to to
\* the system in this order.
RenameMovesTheFile ==
    [][Is("rename") /\ ret'.errno = OK /\ ret'.from # ret'.to =>
          /\ tree[ret'.from] # None
          /\ tree' = [tree EXCEPT ![ret'.to] = tree[ret'.from],
                                  ![ret'.from] = None]]_vars

\* Where unlink.go is built, unlink of a directory is EISDIR on every
\* system, although only Linux says so itself (the others say EPERM, which
\* unlink.go turns into EISDIR), and the directory stays; unlink returns
\* zero exactly when the name is gone.
UnlinkOfDirectoryIsEISDIR ==
    [][Is("unlink") =>
          /\ Builds(unlink_go) /\ IsDir(ret'.from) =>
                 ret'.errno = "EISDIR" /\ tree' = tree
          /\ ret'.errno = OK <=>
                 tree[ret'.from] # None /\ tree'[ret'.from] = None]_vars

=============================================================================
