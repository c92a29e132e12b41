------------------------------- MODULE KernelFs -------------------------------
(***************************************************************************)
(* The system calls on a directory of files that the file systems of this  *)
(* repository are built on, as functions of its contents.  A file is a     *)
(* sequence of cells, read and written at an offset.  A call gives the     *)
(* contents after it, whether it was carried out, and what it returns.     *)
(* A mode is the set of those who have permissions; the mode of a call is  *)
(* what is left by the umask of the caller.  Only access and chown ask for *)
(* permissions: what else is called is permitted.                          *)
(***************************************************************************)
EXTENDS Integers, Sequences, FiniteSets, FiniteSetsExt, Functions

CONSTANTS
    Names,      \* of the entries of the directory
    MaxNodes,   \* how many inodes there are
    Umask       \* of the processes of the file systems: dnfs and the server

Perms == {"user", "others"}
ASSUME KernelAssumption == MaxNodes \in Nat \ {0} /\ Umask \subseteq Perms
Masked(mode) == mode \ Umask

Nodes == 1 .. MaxNodes      \* 0: no entry
Plain(v) == [val |-> v, pad |-> 0]      \* a cell as programs write it
Hole == Plain(0)                        \* one that has not been written

NoNode == [kind |-> "none", data |-> <<>>, mode |-> {}, owner |-> 0, group |-> 0]
EmptyFs == [dir |-> [n \in Names |-> 0], node |-> [i \in Nodes |-> NoNode]]

Done(fs, out) == [ok |-> TRUE, fs |-> fs, out |-> out]
Refused(fs) == [ok |-> FALSE, fs |-> fs, out |-> <<>>]
If(condition, fs, done) == IF condition THEN done ELSE Refused(fs)

Kind(fs, n) == IF fs.dir[n] = 0 THEN "none" ELSE fs.node[fs.dir[n]].kind
Size(fs, n) == Len(fs.node[fs.dir[n]].data)

\* The entry that a name leads to, through one symbolic link.
Target(fs, n) ==
    IF Kind(fs, n) = "link" THEN fs.node[fs.dir[n]].data[1] ELSE n
Leads(fs, n, kinds) == Target(fs, n) \in Names /\ Kind(fs, Target(fs, n)) \in kinds
NodeOf(fs, n) == fs.dir[Target(fs, n)]

\* An inode is free when no entry and no open file, those in use, refer to it.
Entry(fs, n, i) == [fs EXCEPT !.dir[n] = i]
Make(fs, use, n, kind, mode, data) ==
    LET free == Nodes \ (use \cup Range(fs.dir)) IN
    If(free # {}, fs,
       Done([Entry(fs, n, Min(free))
               EXCEPT !.node[Min(free)] =
                 [NoNode EXCEPT !.kind = kind, !.mode = mode, !.data = data]], <<>>))
-----------------------------------------------------------------------------
stat(fs, i) == LET nd == fs.node[i] IN
    Done(fs, <<nd.kind, IF nd.kind = "file" THEN Len(nd.data) ELSE 0, nd.mode, nd.owner, nd.group>>)
lstat(fs, n) == IF fs.dir[n] = 0 THEN Refused(fs) ELSE stat(fs, fs.dir[n])

open(fs, n) == If(Leads(fs, n, {"file"}), fs, Done(fs, <<>>))

\* Whether there is such an entry and, unless mask is empty (F_OK), user 0 has permissions.
Granted(nd) == (IF nd.owner = 0 THEN "user" ELSE "others") \in nd.mode
access(fs, n, mask) ==
    If(/\ Leads(fs, n, {"file", "dir", "fifo"})
       /\ mask # {} => Granted(fs.node[NodeOf(fs, n)]), fs, Done(fs, <<>>))

\* O_CREAT with O_EXCL; O_CREAT with O_TRUNC; O_CREAT.
open_excl(fs, use, n, mode) ==
    If(Kind(fs, n) = "none", fs, Make(fs, use, n, "file", mode, <<>>))
open_trunc(fs, use, n, mode) ==
    IF Leads(fs, n, {"file"}) THEN Done([fs EXCEPT !.node[NodeOf(fs, n)].data = <<>>], <<>>)
    ELSE If(Leads(fs, n, {"none"}), fs, Make(fs, use, Target(fs, n), "file", mode, <<>>))
open_create(fs, use, n, mode) ==
    IF Leads(fs, n, {"file"}) THEN Done(fs, <<>>) ELSE open_trunc(fs, use, n, mode)

\* Reads end at the end of the file; what is skipped by a write or by ftruncate is holes.
pread(fs, i, off, len) ==
    LET d == fs.node[i].data IN
    Done(fs, SubSeq(d, off + 1, IF off + len < Len(d) THEN off + len ELSE Len(d)))
Extend(d, len) == [j \in 1 .. len |-> IF j <= Len(d) THEN d[j] ELSE Hole]
pwrite(fs, i, off, cells) ==
    LET d == Extend(fs.node[i].data, Max({Len(fs.node[i].data), off + Len(cells)})) IN
    Done([fs EXCEPT !.node[i].data =
            [j \in DOMAIN d |-> IF j - off \in DOMAIN cells THEN cells[j - off] ELSE d[j]]],
         <<Len(cells)>>)
ftruncate(fs, i, len) == Done([fs EXCEPT !.node[i].data = Extend(@, len)], <<>>)
truncate(fs, n, len) == If(Leads(fs, n, {"file"}), fs, ftruncate(fs, NodeOf(fs, n), len))
-----------------------------------------------------------------------------
unlink(fs, n) == If(Kind(fs, n) \in {"file", "link", "fifo"}, fs, Done(Entry(fs, n, 0), <<>>))
mkfifo(fs, use, n, mode) ==
    If(Kind(fs, n) = "none", fs, Make(fs, use, n, "fifo", mode, <<>>))
mkdir(fs, use, n, mode) ==
    If(Kind(fs, n) = "none", fs, Make(fs, use, n, "dir", mode, <<>>))
rmdir(fs, n) == If(Kind(fs, n) = "dir", fs, Done(Entry(fs, n, 0), <<>>))
symlink(fs, use, target, n) ==
    If(Kind(fs, n) = "none", fs, Make(fs, use, n, "link", Perms, <<target>>))
readlink(fs, n) == If(Kind(fs, n) = "link", fs, Done(fs, fs.node[fs.dir[n]].data))
link(fs, n, m) ==
    If(Kind(fs, n) \in {"file", "link", "fifo"} /\ Kind(fs, m) = "none", fs,
       Done(Entry(fs, m, fs.dir[n]), <<>>))

\* A directory replaces a directory, anything else what is not a directory. Two names of one
\* file stay.
rename(fs, n, m) ==
    IF \/ Kind(fs, n) = "none"
       \/ Kind(fs, m) # "none" /\ (Kind(fs, n) = "dir") # (Kind(fs, m) = "dir")
    THEN Refused(fs)
    ELSE IF fs.dir[n] = fs.dir[m] THEN Done(fs, <<>>)
    ELSE Done(Entry(Entry(fs, m, fs.dir[n]), n, 0), <<>>)

names(fs) == Done(fs, <<{n \in Names : fs.dir[n] # 0}>>)

chmod(fs, n, mode) ==
    If(Leads(fs, n, {"file", "dir", "fifo"}), fs,
       Done([fs EXCEPT !.node[NodeOf(fs, n)].mode = mode], <<>>))

\* Only what is not Keep is changed, and only if the caller may: all of it or nothing.
Keep == -1
chown(fs, n, owner, group, permitted) ==
    LET i == NodeOf(fs, n) IN
    If(Leads(fs, n, {"file", "dir", "fifo"}) /\ permitted, fs,
       Done([fs EXCEPT !.node[i].owner = IF owner = Keep THEN @ ELSE owner,
                       !.node[i].group = IF group = Keep THEN @ ELSE group], <<>>))
=============================================================================
