----------------------------- MODULE MountsProofs -----------------------------
(***************************************************************************)
(* A mount of dnfs, of the HTTP file system or of the encrypted one is a   *)
(* local file system to its programs, for any number of mounts, of names,  *)
(* of inodes and of calls, and files of any size.                          *)
(***************************************************************************)
EXTENDS Mounts, FiniteSetTheorems, WellFoundedInduction, TLAPS

\* The results that a local file system gives, on any contents.
Outcomes(f, use, i, q) ==
    CASE q.op = "getattr" -> {lstat(f, q.name)}
      [] q.op = "open" -> {open(f, q.name)}
      [] q.op = "access" -> {access(f, q.name, q.mode)}
      [] q.op = "create" -> {open_excl(f, use, q.name, q.mode)}
      [] q.op = "mkfifo" -> {mkfifo(f, use, q.name, q.mode)}
      [] q.op = "read" -> {pread(f, i, q.off, q.len)}
      [] q.op = "write" -> {pwrite(f, i, q.off, q.cells)}
      [] q.op = "truncate" -> {truncate(f, q.name, q.off)}
      [] q.op = "ftruncate" -> {ftruncate(f, i, q.off)}
      [] q.op = "fgetattr" -> {stat(f, i)}
      [] q.op = "unlink" -> {unlink(f, q.name)}
      [] q.op = "mkdir" -> {mkdir(f, use, q.name, q.mode)}
      [] q.op = "rmdir" -> {rmdir(f, q.name)}
      [] q.op = "rename" -> {rename(f, q.name, q.to)}
      [] q.op = "link" -> {link(f, q.name, q.to)}
      [] q.op = "symlink" -> {symlink(f, use, q.name, q.to)}
      [] q.op = "readlink" -> {readlink(f, q.name)}
      [] q.op = "readdir" -> {names(f)}
      [] q.op = "chmod" -> {chmod(f, q.name, q.mode)}
      [] q.op = "chown" -> {chown(f, q.name, q.owner, q.group, may) : may \in BOOLEAN}
      [] OTHER -> {Done(f, <<>>)}

\* The calls of Linux that LocalFs uses are those of KernelFs that the servers use.
LEMMA LocalCalls ==
    ASSUME NEW f, NEW use, NEW i, NEW n, NEW n2, NEW a, NEW b, NEW x
    PROVE  /\ Local!lstat(f, n) = lstat(f, n) /\ Local!stat(f, i) = stat(f, i)
           /\ Local!open(f, n) = open(f, n) /\ Local!access(f, n, a) = access(f, n, a)
           /\ Local!open_excl(f, use, n, a) = open_excl(f, use, n, a)
           /\ Local!mkfifo(f, use, n, a) = mkfifo(f, use, n, a)
           /\ Local!pread(f, i, a, b) = pread(f, i, a, b)
           /\ Local!pwrite(f, i, a, x) = pwrite(f, i, a, x)
           /\ Local!truncate(f, n, a) = truncate(f, n, a)
           /\ Local!ftruncate(f, i, a) = ftruncate(f, i, a)
           /\ Local!unlink(f, n) = unlink(f, n)
           /\ Local!mkdir(f, use, n, a) = mkdir(f, use, n, a)
           /\ Local!rmdir(f, n) = rmdir(f, n)
           /\ Local!rename(f, n, n2) = rename(f, n, n2)
           /\ Local!link(f, n, n2) = link(f, n, n2)
           /\ Local!symlink(f, use, n, n2) = symlink(f, use, n, n2)
           /\ Local!readlink(f, n) = readlink(f, n)
           /\ Local!names(f) = names(f)
           /\ Local!chmod(f, n, a) = chmod(f, n, a)
           /\ Local!chown(f, n, a, b, x) = chown(f, n, a, b, x)
           /\ Local!Done(f, x) = Done(f, x)
           /\ Local!NodeOf(f, n) = NodeOf(f, n)
<1>1. /\ \A y, z : Local!Done(y, z) = Done(y, z)
      /\ \A y : Local!Refused(y) = Refused(y)
      /\ \A y, t, z : Local!If(y, t, z) = If(y, t, z)
      /\ \A y, z : Local!Kind(y, z) = Kind(y, z)
      /\ Local!Nodes = Nodes /\ Local!NoNode = NoNode /\ Local!Hole = Hole /\ Local!Keep = Keep
      /\ Local!Perms = Perms /\ \A y : Local!Granted(y) = Granted(y)
      /\ \A y : Local!Min(y) = Min(y) /\ Local!Max(y) = Max(y) /\ Local!Range(y) = Range(y)
  BY DEF Done, Refused, If, Kind, Nodes, NoNode, Hole, Plain, Keep, Min, Max, Range, Perms,
         Granted, Local!Perms, Local!Granted, Local!Done, Local!Refused, Local!If, Local!Kind, Local!Nodes, Local!NoNode, Local!Hole,
         Local!Plain, Local!Keep, Local!Min, Local!Max, Local!Range
<1>2. /\ \A y, z : Local!Target(y, z) = Target(y, z)
      /\ \A y, z, t : Local!Entry(y, z, t) = Entry(y, z, t)
      /\ \A y, z : Local!Extend(y, z) = Extend(y, z)
  BY <1>1 DEF Target, Entry, Extend, Local!Target, Local!Entry, Local!Extend
<1>3. /\ \A y, z, t : Local!Leads(y, z, t) = Leads(y, z, t)
      /\ \A y, z : Local!NodeOf(y, z) = NodeOf(y, z)
  BY <1>1, <1>2 DEF Leads, NodeOf, Local!Leads, Local!NodeOf
<1>8. ASSUME NEW y, NEW k, NEW p, NEW d
      PROVE  Local!Make(f, use, y, k, p, d) = Make(f, use, y, k, p, d)
  BY <1>1, <1>2 DEF Make, Local!Make
<1>7. /\ \A y, z : Local!stat(y, z) = stat(y, z)
      /\ \A y, z, t : Local!ftruncate(y, z, t) = ftruncate(y, z, t)
  BY <1>1, <1>2 DEF stat, ftruncate, Local!stat, Local!ftruncate
<1>9. /\ Local!access(f, n, a) = access(f, n, a)
      /\ Local!mkfifo(f, use, n, a) = mkfifo(f, use, n, a)
  BY <1>1, <1>3, <1>8 DEF access, mkfifo, Local!access, Local!mkfifo
<1>4. /\ Local!lstat(f, n) = lstat(f, n) /\ Local!open(f, n) = open(f, n)
      /\ Local!open_excl(f, use, n, a) = open_excl(f, use, n, a)
      /\ Local!pread(f, i, a, b) = pread(f, i, a, b)
      /\ Local!pwrite(f, i, a, x) = pwrite(f, i, a, x)
      /\ Local!truncate(f, n, a) = truncate(f, n, a)
  BY <1>1, <1>2, <1>3, <1>7, <1>8 DEF lstat, open, open_excl, pread, pwrite, truncate, Local!lstat,
       Local!open, Local!open_excl, Local!pread, Local!pwrite, Local!truncate
<1>5. /\ Local!unlink(f, n) = unlink(f, n)
      /\ Local!mkdir(f, use, n, a) = mkdir(f, use, n, a)
      /\ Local!rmdir(f, n) = rmdir(f, n)
      /\ Local!rename(f, n, n2) = rename(f, n, n2)
      /\ Local!link(f, n, n2) = link(f, n, n2)
      /\ Local!symlink(f, use, n, n2) = symlink(f, use, n, n2)
  BY <1>1, <1>2, <1>3, <1>8 DEF unlink, mkdir, rmdir, rename, link, symlink, Local!unlink,
       Local!mkdir, Local!rmdir, Local!rename, Local!link, Local!symlink
<1>6. /\ Local!readlink(f, n) = readlink(f, n)
      /\ Local!names(f) = names(f)
      /\ Local!chmod(f, n, a) = chmod(f, n, a)
      /\ Local!chown(f, n, a, b, x) = chown(f, n, a, b, x)
  BY <1>1, <1>2, <1>3 DEF readlink, names, chmod, chown, Local!readlink, Local!names,
       Local!chmod, Local!chown
<1> QED
  BY <1>1, <1>3, <1>7, <1>9, <1>4, <1>5, <1>6

\* What the local file system may give for a call is what the calls of Linux give on the
\* contents that the mounts show.
LEMMA LocalOutcomes ==
    ASSUME NEW c \in Clients, NEW q
    PROVE  Local!Outcomes(c, q) = Outcomes(Shown, InUse, m[c].file, q)
<1>1. Local!InUse = InUse /\ [k \in Clients |-> m[k].file][c] = m[c].file
  BY DEF Local!InUse, Local!Range, InUse
<1>2. CASE q.op \in {"getattr", "open", "access", "create", "read", "write"}
  BY <1>1, <1>2, LocalCalls DEF Outcomes, Local!Outcomes
<1>3. CASE q.op \in {"truncate", "ftruncate", "fgetattr", "unlink", "mkdir", "mkfifo", "rmdir"}
  BY <1>1, <1>3, LocalCalls DEF Outcomes, Local!Outcomes
<1>4. CASE q.op \in {"rename", "link", "symlink", "readlink", "readdir", "chmod"}
  BY <1>1, <1>4, LocalCalls DEF Outcomes, Local!Outcomes
<1>5. CASE q.op = "chown"
  BY <1>1, <1>5, LocalCalls DEF Outcomes, Local!Outcomes
<1>6. CASE q.op \notin {"getattr", "open", "access", "create", "read", "write", "truncate",
                        "ftruncate", "fgetattr", "unlink", "mkdir", "mkfifo", "rmdir", "rename",
                        "link", "symlink", "readlink", "readdir", "chmod", "chown"}
  BY <1>1, <1>6, LocalCalls DEF Outcomes, Local!Outcomes
<1> QED
  BY <1>2, <1>3, <1>4, <1>5, <1>6
-----------------------------------------------------------------------------
\* What is in a directory, and what a program asks for.
Cell == [val : Int, pad : Int]
ModeSet == SUBSET Perms
Node == [kind : {"none", "file", "dir", "fifo"}, data : Seq(Cell), mode : ModeSet,
         owner : Int, group : Int]
        \cup [kind : {"link"}, data : Seq(Names), mode : ModeSet, owner : Int, group : Int]
Directory == [dir : [Names -> Nodes \cup {0}], node : [Nodes -> Node]]
NewNode(kind, mode, data) == [NoNode EXCEPT !.kind = kind, !.mode = mode, !.data = data]

\* Any set of numbers has a first one.
LEMMA FirstNumber ==
    ASSUME NEW T \in SUBSET Nat, T # {}
    PROVE  Min(T) \in T
<1> DEFINE Below == {0 .. x - 1 : x \in T}
<1>1. Below \subseteq FiniteSubsetsOf(Nat) /\ Below # {}
  <2>1. \A x \in T : 0 .. x - 1 \in SUBSET Nat /\ IsFiniteSet(0 .. x - 1)
    BY FS_Interval
  <2> QED
    BY <2>1 DEF FiniteSubsetsOf
<1>2. PICK B \in Below : \A C \in Below : <<C, B>> \notin StrictSubsetOrdering(Nat)
  BY <1>1, FS_StrictSubsetOrderingWellFounded, WFMin
<1>3. PICK k \in T : B = 0 .. k - 1
  BY <1>2
<1>4. ASSUME NEW l \in T, l < k PROVE FALSE
  <2>1. 0 .. l - 1 \in Below /\ 0 .. l - 1 \subseteq B /\ l \in B /\ l \notin 0 .. l - 1
    BY <1>3, <1>4
  <2>2. <<0 .. l - 1, B>> \in StrictSubsetOrdering(Nat)
    BY <1>1, <1>2, <2>1 DEF StrictSubsetOrdering
  <2> QED
    BY <1>2, <2>1, <2>2
<1>5. \A l \in T : k <= l
  BY <1>4
<1> QED
  BY <1>5 DEF Min

\* The smaller and the larger of two numbers.
LEMMA FirstOfTwo ==
    ASSUME NEW a \in Int, NEW b \in Int
    PROVE  /\ Min({a, b}) = IF a <= b THEN a ELSE b
           /\ Max({a, b}) = IF a >= b THEN a ELSE b
<1>1. /\ \A x \in {a, b} : (\A y \in {a, b} : x <= y) => x = IF a <= b THEN a ELSE b
      /\ \A x \in {a, b} : (\A y \in {a, b} : x >= y) => x = IF a >= b THEN a ELSE b
  OBVIOUS
<1>2. /\ \E x \in {a, b} : \A y \in {a, b} : x <= y
      /\ \E x \in {a, b} : \A y \in {a, b} : x >= y
  OBVIOUS
<1> QED
  BY <1>1, <1>2 DEF Min, Max

\* What the calls that change something make of the contents.
Put(f, i, nd) == [dir |-> f.dir, node |-> [f.node EXCEPT ![i] = nd]]
Filled(nd, data) ==
    [kind |-> nd.kind, data |-> data, mode |-> nd.mode, owner |-> nd.owner, group |-> nd.group]
Owned(nd, owner, group) ==
    [kind |-> nd.kind, data |-> nd.data, mode |-> nd.mode, owner |-> owner, group |-> group]
Moded(nd, mode) ==
    [kind |-> nd.kind, data |-> nd.data, mode |-> mode, owner |-> nd.owner, group |-> nd.group]

\* An inode of which one field is replaced.
LEMMA NodeChanges ==
    ASSUME NEW nd \in Node
    PROVE  /\ \A data : [nd EXCEPT !.data = data] = Filled(nd, data)
           /\ \A mode : [nd EXCEPT !.mode = mode] = Moded(nd, mode)
           /\ \A owner : [nd EXCEPT !.owner = owner] = Owned(nd, owner, nd.group)
           /\ \A owner, group : [Owned(nd, owner, nd.group) EXCEPT !.group = group]
                                = Owned(nd, owner, group)
<1>1. nd = [kind |-> nd.kind, data |-> nd.data, mode |-> nd.mode, owner |-> nd.owner,
            group |-> nd.group]
  BY DEF Node
<1>2. \A data : [nd EXCEPT !.data = data] = Filled(nd, data)
  BY <1>1 DEF Filled
<1>3. \A mode : [nd EXCEPT !.mode = mode] = Moded(nd, mode)
  BY <1>1 DEF Moded
<1>4. \A owner : [nd EXCEPT !.owner = owner] = Owned(nd, owner, nd.group)
  BY <1>1 DEF Owned
<1>5. \A owner, group : [Owned(nd, owner, nd.group) EXCEPT !.group = group]
                         = Owned(nd, owner, group)
  BY DEF Owned
<1> QED
  BY <1>2, <1>3, <1>4, <1>5

\* A directory has its two fields only.
LEMMA DirectoryIs ==
    ASSUME NEW f \in Directory
    PROVE  f = [dir |-> f.dir, node |-> f.node]
BY DEF Directory

\* To enter a name changes the directory entries, not the inodes.
LEMMA EntryIs ==
    ASSUME NEW f \in Directory, NEW n, NEW i
    PROVE  Entry(f, n, i) = [dir |-> [f.dir EXCEPT ![n] = i], node |-> f.node]
BY DirectoryIs DEF Entry

\* To replace the data of inode i is to put another inode in its place; so for the mode and for
\* the owner below.
LEMMA FilledIs ==
    ASSUME NEW f \in Directory, NEW i \in Nodes, NEW data
    PROVE  [f EXCEPT !.node[i].data = data] = Put(f, i, Filled(f.node[i], data))
<1>1. [f EXCEPT !.node[i].data = data] = Put(f, i, [f.node[i] EXCEPT !.data = data])
  BY DirectoryIs DEF Put
<1>2. f.node[i] \in Node
  BY DEF Directory
<1> QED
  BY <1>1, <1>2, NodeChanges

\* The same for the mode.
LEMMA ModedIs ==
    ASSUME NEW f \in Directory, NEW i \in Nodes, NEW mode
    PROVE  [f EXCEPT !.node[i].mode = mode] = Put(f, i, Moded(f.node[i], mode))
<1>1. [f EXCEPT !.node[i].mode = mode] = Put(f, i, [f.node[i] EXCEPT !.mode = mode])
  BY DirectoryIs DEF Put
<1>2. f.node[i] \in Node
  BY DEF Directory
<1> QED
  BY <1>1, <1>2, NodeChanges

Reowned(f, i, owner, group) == [f EXCEPT !.node[i].owner = owner, !.node[i].group = group]

\* The same for the owner and the group.
LEMMA OwnedIs ==
    ASSUME NEW f \in Directory, NEW i \in Nodes, NEW owner, NEW group
    PROVE  Reowned(f, i, owner, group) = Put(f, i, Owned(f.node[i], owner, group))
<1> DEFINE nd == f.node[i]
           half == Owned(nd, owner, nd.group)
           x == [f.node EXCEPT ![i] = half]
<1>1. nd \in Node
  BY DEF Directory
<1>2. [f EXCEPT !.node[i].owner = owner]
      = [dir |-> f.dir, node |-> [f.node EXCEPT ![i] = [nd EXCEPT !.owner = owner]]]
  BY DirectoryIs
<1>3. [f EXCEPT !.node[i].owner = owner] = [dir |-> f.dir, node |-> x]
  BY <1>1, <1>2, NodeChanges
<1>4. x[i] = half
  BY DEF Directory
<1>5. [x EXCEPT ![i] = Owned(nd, owner, group)] = [f.node EXCEPT ![i] = Owned(nd, owner, group)]
  BY DEF Directory
<1> HIDE DEF x, half, nd
<1>6. [[dir |-> f.dir, node |-> x] EXCEPT !.node[i].group = group]
      = [dir |-> f.dir, node |-> [x EXCEPT ![i] = [x[i] EXCEPT !.group = group]]]
  OBVIOUS
<1>7. [x[i] EXCEPT !.group = group] = Owned(nd, owner, group)
  BY <1>1, <1>4, NodeChanges DEF half
<1>8. Reowned(f, i, owner, group)
      = [[f EXCEPT !.node[i].owner = owner] EXCEPT !.node[i].group = group]
  BY DEF Reowned
<1> QED
  BY <1>3, <1>5, <1>6, <1>7, <1>8 DEF Put, nd

\* The fields of an inode that has just been made.
LEMMA NewNodeIs ==
    ASSUME NEW kind, NEW mode, NEW data
    PROVE  NewNode(kind, mode, data)
           = [kind |-> kind, data |-> data, mode |-> mode, owner |-> 0, group |-> 0]
<1> DEFINE half == [NoNode EXCEPT !.kind = kind]
           most == [half EXCEPT !.mode = mode]
<1>1. half = [kind |-> kind, data |-> <<>>, mode |-> {}, owner |-> 0, group |-> 0]
  BY DEF NoNode
<1>2. NewNode(kind, mode, data) = [most EXCEPT !.data = data]
  BY DEF NewNode
<1> HIDE DEF half
<1>3. most = [kind |-> kind, data |-> <<>>, mode |-> mode, owner |-> 0, group |-> 0]
  BY <1>1
<1> HIDE DEF most
<1> QED
  BY <1>2, <1>3

\* A new entry gets an inode that nobody refers to.
Free(f, use) == Nodes \ (use \cup Range(f.dir))
Made(f, n, i, nd) == [dir |-> [f.dir EXCEPT ![n] = i], node |-> [f.node EXCEPT ![i] = nd]]

\* mknod, mkdir and symlink fail when no inode is free.
LEMMA MakeRefused ==
    ASSUME NEW f, NEW use, NEW n, NEW kind, NEW mode, NEW data, Free(f, use) = {}
    PROVE  Make(f, use, n, kind, mode, data) = Refused(f)
BY DEF Make, If, Free

\* Otherwise they enter the name with the first inode that is free.
LEMMA MakeIs ==
    ASSUME NEW f \in Directory, NEW use, NEW n, NEW kind, NEW mode, NEW data, Free(f, use) # {}
    PROVE  \E i \in Free(f, use) :
             /\ i = Min(Free(f, use))
             /\ Make(f, use, n, kind, mode, data)
                = Done(Made(f, n, i, NewNode(kind, mode, data)), <<>>)
<1>1. Free(f, use) \subseteq Nat
  BY KernelAssumption DEF Nodes, Free
<1> DEFINE i == Min(Free(f, use))
<1>2. Make(f, use, n, kind, mode, data) =
        Done([Entry(f, n, i) EXCEPT !.node[i] = NewNode(kind, mode, data)], <<>>)
  BY DEF Make, If, NewNode, Free
<1> HIDE DEF i
<1>3. Entry(f, n, i) = [dir |-> [f.dir EXCEPT ![n] = i], node |-> f.node]
  BY EntryIs
<1>4. [Entry(f, n, i) EXCEPT !.node[i] = NewNode(kind, mode, data)]
      = Made(f, n, i, NewNode(kind, mode, data))
  BY <1>3 DEF Made
<1> QED
  BY <1>1, <1>2, <1>4, FirstNumber DEF i

-----------------------------------------------------------------------------
\* What a call leaves: a directory in which the inodes in use are what they were.
FilesOnly(f) == \A n \in Names : f.dir[n] # 0 => f.node[f.dir[n]].kind = "file"
Kept(f, use, g) ==
    g \in Directory /\ \A k \in Nodes \cap use : g.node[k].kind = f.node[k].kind

\* To replace an inode by one of its kind keeps the directory typed and the open files files.
LEMMA PutKeeps ==
    ASSUME NEW f \in Directory, NEW use, NEW i \in Nodes, NEW nd \in Node, nd.kind = f.node[i].kind
    PROVE  Kept(f, use, Put(f, i, nd)) /\ (FilesOnly(f) => FilesOnly(Put(f, i, nd)))
<1>1. Put(f, i, nd).dir = f.dir /\ Put(f, i, nd).node = [f.node EXCEPT ![i] = nd]
  BY DEF Put
<1>2. Put(f, i, nd) \in Directory
  BY DEF Put, Directory
<1>3. \A k \in Nodes : Put(f, i, nd).node[k].kind = f.node[k].kind
  BY <1>1 DEF Directory
<1> QED
  BY <1>1, <1>2, <1>3 DEF Kept, FilesOnly, Directory

\* So does to enter a name or to remove it.
LEMMA EntryKeeps ==
    ASSUME NEW f \in Directory, NEW use, NEW n \in Names, NEW i \in Nodes \cup {0}
    PROVE  /\ Kept(f, use, Entry(f, n, i))
           /\ FilesOnly(f) /\ (i # 0 => \E n2 \in Names : i = f.dir[n2]) => FilesOnly(Entry(f, n, i))
<1>1. Entry(f, n, i) = [dir |-> [f.dir EXCEPT ![n] = i], node |-> f.node]
  BY EntryIs
<1>2. Entry(f, n, i).dir = [f.dir EXCEPT ![n] = i] /\ Entry(f, n, i).node = f.node
  BY <1>1
<1>3. Entry(f, n, i) \in Directory
  BY <1>1 DEF Directory
<1> QED
  BY <1>2, <1>3 DEF Kept, FilesOnly, Directory

\* So does to make an inode, since it was not in use.
LEMMA MakeKeeps ==
    ASSUME NEW f \in Directory, NEW use, NEW n \in Names,
           NEW kind \in {"file", "dir", "fifo", "link"}, NEW mode \in ModeSet,
           NEW data, data \in IF kind = "link" THEN Seq(Names) ELSE Seq(Cell)
    PROVE  LET r == Make(f, use, n, kind, mode, data) IN
           /\ Kept(f, use, r.fs) /\ (FilesOnly(f) /\ kind = "file" => FilesOnly(r.fs))
           /\ r.ok \in BOOLEAN /\ r.out = <<>>
<1> DEFINE nd == NewNode(kind, mode, data)
           r == Make(f, use, n, kind, mode, data)
<1>1. CASE Free(f, use) = {}
  <2>1. r = Refused(f)
    BY <1>1, MakeRefused
  <2> HIDE DEF r
  <2>2. r.ok = FALSE /\ r.fs = f /\ r.out = <<>>
    BY <2>1 DEF Refused
  <2> QED
    BY <2>2 DEF Kept, r
<1>2. CASE Free(f, use) # {}
  <2>0. PICK i \in Free(f, use) : r = Done(Made(f, n, i, nd), <<>>)
    BY <1>2, MakeIs
  <2>1. i \in Nodes /\ i \notin use /\ i \notin Range(f.dir)
    BY DEF Free
  <2>2. \A n2 \in Names : f.dir[n2] # i
    BY <2>1 DEF Range, Directory
  <2> HIDE DEF r
  <2>4. nd \in Node /\ nd.kind = kind
    BY NewNodeIs DEF Node
  <2> HIDE DEF nd
  <2>5. /\ r.ok = TRUE /\ r.out = <<>>
        /\ r.fs = [dir |-> [f.dir EXCEPT ![n] = i], node |-> [f.node EXCEPT ![i] = nd]]
    BY <2>0 DEF Done, Made
  <2>6. r.fs.dir = [f.dir EXCEPT ![n] = i] /\ r.fs.node = [f.node EXCEPT ![i] = nd]
    BY <2>5
  <2>7. r.fs \in Directory
    BY <2>1, <2>4, <2>5 DEF Directory
  <2>8. \A k \in Nodes \cap use : r.fs.node[k].kind = f.node[k].kind
    BY <2>1, <2>6 DEF Directory
  <2>9. FilesOnly(f) /\ kind = "file" => FilesOnly(r.fs)
    BY <2>1, <2>2, <2>4, <2>6 DEF Directory, FilesOnly
  <2> QED
    BY <2>5, <2>7, <2>8, <2>9 DEF Kept, r
<1> QED
  BY <1>1, <1>2

\* The entry that a name leads to is one, and its inode too.
LEMMA LeadsTo ==
    ASSUME NEW f \in Directory, NEW n \in Names, NEW kinds, Leads(f, n, kinds)
    PROVE  /\ Target(f, n) \in Names /\ Kind(f, Target(f, n)) \in kinds
           /\ "none" \notin kinds => NodeOf(f, n) \in Nodes /\ f.node[NodeOf(f, n)].kind \in kinds
BY DEF Leads, NodeOf, Kind, Directory

\* ftruncate cuts the data of a file, or fills them up with holes.
LEMMA Extended ==
    ASSUME NEW S, NEW d \in Seq(S), Hole \in S, NEW len \in Nat
    PROVE  /\ Extend(d, len) \in Seq(S) /\ Len(Extend(d, len)) = len
           /\ \A j \in 1 .. len : Extend(d, len)[j] = IF j <= Len(d) THEN d[j] ELSE Hole
<1>1. \A j \in 1 .. len : (IF j <= Len(d) THEN d[j] ELSE Hole) \in S
  OBVIOUS
<1> QED
  BY <1>1 DEF Extend

\* A hole is a cell, and so is a byte in clear.
LEMMA Cells == Hole \in Cell /\ \A v \in Int : Plain(v) \in Cell
BY DEF Hole, Plain, Cell

\* A file with other data is a file.
LEMMA FilledIsNode ==
    ASSUME NEW nd \in Node, nd.kind = "file", NEW data \in Seq(Cell)
    PROVE  Filled(nd, data) \in Node /\ Filled(nd, data).kind = nd.kind
BY DEF Filled, Node

\* What ftruncate does, and that it keeps the directory typed.
LEMMA TruncateKeeps ==
    ASSUME NEW f \in Directory, NEW use, NEW i \in Nodes, NEW len \in Nat,
           f.node[i].kind = "file"
    PROVE  LET r == ftruncate(f, i, len) IN
           /\ r = Done(Put(f, i, Filled(f.node[i], Extend(f.node[i].data, len))), <<>>)
           /\ Kept(f, use, r.fs) /\ (FilesOnly(f) => FilesOnly(r.fs))
           /\ r.ok = TRUE
<1>1. f.node[i] \in Node /\ f.node[i].data \in Seq(Cell)
  BY DEF Directory, Node
<1> DEFINE d == Extend(f.node[i].data, len)
<1>2. d \in Seq(Cell)
  BY <1>1, Extended, Cells
<1>3. ftruncate(f, i, len) = Done([f EXCEPT !.node[i].data = d], <<>>)
  BY DEF ftruncate
<1>4. ftruncate(f, i, len) = Done(Put(f, i, Filled(f.node[i], d)), <<>>)
  BY <1>3, FilledIs
<1> HIDE DEF d
<1>5. /\ ftruncate(f, i, len).ok = TRUE
      /\ ftruncate(f, i, len).fs = Put(f, i, Filled(f.node[i], d))
  BY <1>4 DEF Done
<1>6. Filled(f.node[i], d) \in Node /\ Filled(f.node[i], d).kind = f.node[i].kind
  BY <1>1, <1>2, FilledIsNode
<1> QED
  BY <1>4, <1>5, <1>6, PutKeeps DEF d

\* The data after a write.
Written(d, off, cells) ==
    LET x == Extend(d, Max({Len(d), off + Len(cells)})) IN
    [j \in DOMAIN x |-> IF j - off \in DOMAIN cells THEN cells[j - off] ELSE x[j]]

Overwritten(d, off, cells, len) ==
    [j \in 1 .. len |-> IF j - off \in 1 .. Len(cells) THEN cells[j - off]
                       ELSE IF j <= Len(d) THEN d[j] ELSE Hole]

\* pwrite replaces the cells that it covers, fills the gap before them with holes, and keeps
\* the rest.
LEMMA WrittenIs ==
    ASSUME NEW d \in Seq(Cell), NEW off \in Nat, NEW cells \in Seq(Cell), NEW len,
           len = IF Len(d) >= off + Len(cells) THEN Len(d) ELSE off + Len(cells)
    PROVE  /\ Written(d, off, cells) \in Seq(Cell)
           /\ Written(d, off, cells) = Overwritten(d, off, cells, len)
<1> DEFINE x == Extend(d, len)
<1>0. /\ Len(d) \in Nat /\ Len(cells) \in Nat /\ DOMAIN cells = 1 .. Len(cells)
      /\ Len(d) \in Int /\ off + Len(cells) \in Int
  OBVIOUS
<1>1. len \in Nat /\ Max({Len(d), off + Len(cells)}) = len /\ DOMAIN cells = 1 .. Len(cells)
  <2>1. Max({Len(d), off + Len(cells)}) = len
    BY <1>0, FirstOfTwo
  <2> QED
    BY <1>0, <2>1
<1>2. /\ DOMAIN x = 1 .. len
      /\ \A j \in 1 .. len : x[j] = (IF j <= Len(d) THEN d[j] ELSE Hole) /\ x[j] \in Cell
  <2>1. x \in Seq(Cell) /\ Len(x) = len
        /\ \A j \in 1 .. len : x[j] = IF j <= Len(d) THEN d[j] ELSE Hole
    BY <1>1, Extended, Cells
  <2> HIDE DEF x
  <2> QED
    BY <1>1, <2>1
<1> HIDE DEF x
<1>3. Written(d, off, cells) =
        [j \in 1 .. len |-> IF j - off \in 1 .. Len(cells) THEN cells[j - off] ELSE x[j]]
  BY <1>1, <1>2 DEF Written, x
<1>4. Written(d, off, cells) \in Seq(Cell)
  <2>1. \A j \in 1 .. len : (IF j - off \in 1 .. Len(cells) THEN cells[j - off] ELSE x[j])
                            \in Cell
    BY <1>2
  <2> QED
    BY <1>1, <1>3, <2>1
<1>5. Written(d, off, cells) = Overwritten(d, off, cells, len)
  BY <1>2, <1>3 DEF Overwritten
<1> QED
  BY <1>4, <1>5

Appended(d, cells) ==
    [j \in 1 .. Len(d) + Len(cells) |->
       IF j - Len(d) \in 1 .. Len(cells) THEN cells[j - Len(d)]
       ELSE IF j <= Len(d) THEN d[j] ELSE Hole]

\* At the end of the data, pwrite appends: all that the encrypted mounts ask for.
LEMMA WrittenAtEnd ==
    ASSUME NEW d \in Seq(Cell), NEW cells \in Seq(Cell)
    PROVE  /\ Written(d, Len(d), cells) \in Seq(Cell)
           /\ Written(d, Len(d), cells) = Appended(d, cells)
<1>1. Len(d) \in Nat /\ Len(cells) \in Nat
  OBVIOUS
<1> DEFINE len == Len(d) + Len(cells)
<1>2. len = IF Len(d) >= Len(d) + Len(cells) THEN Len(d) ELSE Len(d) + Len(cells)
  BY <1>1
<1> HIDE DEF len
<1>3. /\ Written(d, Len(d), cells) \in Seq(Cell)
      /\ Written(d, Len(d), cells) = Overwritten(d, Len(d), cells, len)
  BY <1>1, <1>2, WrittenIs
<1> QED
  BY <1>3 DEF len, Overwritten, Appended

\* What pwrite does, and that it keeps the directory typed.
LEMMA WriteKeeps ==
    ASSUME NEW f \in Directory, NEW use, NEW i \in Nodes, NEW off \in Nat, NEW cells \in Seq(Cell),
           f.node[i].kind = "file"
    PROVE  LET r == pwrite(f, i, off, cells) IN
           /\ r = Done(Put(f, i, Filled(f.node[i], Written(f.node[i].data, off, cells))),
                       <<Len(cells)>>)
           /\ Kept(f, use, r.fs) /\ (FilesOnly(f) => FilesOnly(r.fs))
           /\ r.ok = TRUE
<1>1. f.node[i] \in Node /\ f.node[i].data \in Seq(Cell)
  BY DEF Directory, Node
<1> DEFINE d == Written(f.node[i].data, off, cells)
<1>2. d \in Seq(Cell)
  BY <1>1, WrittenIs
<1>3. pwrite(f, i, off, cells) = Done([f EXCEPT !.node[i].data = d], <<Len(cells)>>)
  BY DEF pwrite, Written
<1> HIDE DEF d
<1>4. pwrite(f, i, off, cells) = Done(Put(f, i, Filled(f.node[i], d)), <<Len(cells)>>)
  BY <1>3, FilledIs
<1>5. /\ pwrite(f, i, off, cells).ok = TRUE
      /\ pwrite(f, i, off, cells).fs = Put(f, i, Filled(f.node[i], d))
  BY <1>4 DEF Done
<1>6. Filled(f.node[i], d) \in Node /\ Filled(f.node[i], d).kind = f.node[i].kind
  BY <1>1, <1>2, FilledIsNode
<1> QED
  BY <1>4, <1>5, <1>6, PutKeeps DEF d
-----------------------------------------------------------------------------
\* The calls of programs: those on an open file, and those on a name.
FileOps == {"read", "write", "ftruncate", "fgetattr"}
DataOps == FileOps \cup {"release", "getattr", "create", "open", "unlink", "truncate", "rename"}
DirOps == {"opendir", "readdir", "releasedir"}
OtherOps ==
    {"access", "mkdir", "mkfifo", "rmdir", "readlink", "link", "symlink", "chmod", "chown"}
Ops == DataOps \cup DirOps \cup OtherOps

Paths == Names \cup {Root}
Request == [op : Ops, name : Paths, to : Paths, off : Nat, len : Nat, cells : Seq(Cell),
            mode : ModeSet, owner : Int, group : Int]
Named(q) == q.op \notin DirOps => q.name \in Names /\ q.to \in Names

\* The outcome of a call is one whatever is in the directory.
Outcome_ok(f, use, q, r) ==
    /\ Kept(f, use, r.fs) /\ (FilesOnly(f) /\ q.op \in DataOps => FilesOnly(r.fs))
    /\ r.ok \in BOOLEAN /\ (~ r.ok => r.out = <<>>)

\* An outcome that leaves the contents alone is one that the invariant allows.
LEMMA NothingChanged ==
    ASSUME NEW f \in Directory, NEW use, NEW q, NEW r, r.fs = f, r.ok \in BOOLEAN,
           ~ r.ok => r.out = <<>>
    PROVE  Outcome_ok(f, use, q, r)
BY DEF Outcome_ok, Kept

\* So is a success that keeps the directory typed.
LEMMA DoneKeeps ==
    ASSUME NEW f \in Directory, NEW use, NEW q, NEW g, NEW out, Kept(f, use, g),
           FilesOnly(f) /\ q.op \in DataOps => FilesOnly(g)
    PROVE  Outcome_ok(f, use, q, Done(g, out))
<1> DEFINE d == Done(g, out)
<1>1. d.fs = g /\ d.ok = TRUE
  BY DEF Done
<1> HIDE DEF d
<1>2. Outcome_ok(f, use, q, d)
  BY <1>1 DEF Outcome_ok
<1> QED
  BY <1>2 DEF d

\* A step that a condition allows.
LEMMA Conditional ==
    ASSUME NEW f \in Directory, NEW use, NEW q, NEW r, NEW condition,
           condition => Outcome_ok(f, use, q, r)
    PROVE  Outcome_ok(f, use, q, If(condition, f, r))
<1>1. CASE condition
  BY <1>1 DEF If
<1>2. CASE ~ condition
  <2>1. If(condition, f, r) = Refused(f)
    BY <1>2 DEF If
  <2>2. Refused(f).fs = f /\ Refused(f).ok = FALSE /\ Refused(f).out = <<>>
    BY DEF Refused
  <2> QED
    BY <2>1, <2>2, NothingChanged
<1> QED
  BY <1>1, <1>2

\* Every call of a program keeps the directory typed, the open files files, and a mount that
\* only moves data free of directories and links.
LEMMA CallKeeps ==
    ASSUME NEW f \in Directory, NEW use, NEW i \in Nodes \cup {0}, NEW q \in Request, Named(q),
           q.op \in FileOps => i # 0 /\ f.node[i].kind = "file",
           NEW r \in Outcomes(f, use, i, q)
    PROVE  Outcome_ok(f, use, q, r)
<1> DEFINE n == q.name
<1>1. q.op \in Ops /\ q.off \in Nat /\ q.len \in Nat /\ q.cells \in Seq(Cell)
      /\ q.mode \in ModeSet /\ q.owner \in Int /\ q.group \in Int
  BY DEF Request
<1>2. q.op \notin DirOps => q.name \in Names /\ q.to \in Names
  BY DEF Named
<1>3. \A out : Outcome_ok(f, use, q, Done(f, out))
  BY DoneKeeps DEF Kept
<1>4. \A out : Outcome_ok(f, use, q, Refused(f))
  BY NothingChanged DEF Refused
<1>5. ASSUME q.op \in {"getattr", "fgetattr"} PROVE Outcome_ok(f, use, q, r)
  BY <1>3, <1>4, <1>5 DEF Outcomes, lstat, stat
<1>6. CASE q.op = "open"
  BY <1>3, <1>6, Conditional DEF Outcomes, open
<1>28. CASE q.op = "access"
  BY <1>3, <1>28, Conditional DEF Outcomes, access
<1>7. CASE q.op = "read"
  BY <1>3, <1>7 DEF Outcomes, pread
<1>8. CASE q.op = "readlink"
  BY <1>3, <1>8, Conditional DEF Outcomes, readlink
<1>9. CASE q.op = "readdir"
  BY <1>3, <1>9 DEF Outcomes, names
<1>10. CASE q.op \in {"release", "opendir", "releasedir"}
  BY <1>3, <1>10 DEF Outcomes
<1>11. ASSUME NEW kind \in {"file", "dir", "fifo", "link"}, NEW n2 \in Names,
              NEW mode \in ModeSet,
              NEW data, data \in IF kind = "link" THEN Seq(Names) ELSE Seq(Cell),
              q.op \in DataOps => kind = "file"
       PROVE  Outcome_ok(f, use, q, Make(f, use, n2, kind, mode, data))
  <2> DEFINE x == Make(f, use, n2, kind, mode, data)
  <2>1. /\ Kept(f, use, x.fs) /\ (FilesOnly(f) /\ kind = "file" => FilesOnly(x.fs))
        /\ x.ok \in BOOLEAN /\ x.out = <<>>
    <3>1. mode \in ModeSet /\ data \in (IF kind = "link" THEN Seq(Names) ELSE Seq(Cell))
      BY <1>11
    <3> QED
      BY <3>1, MakeKeeps
  <2> HIDE DEF x
  <2>2. Outcome_ok(f, use, q, x)
    BY <1>11, <2>1 DEF Outcome_ok
  <2> QED
    BY <2>2 DEF x
<1>12. <<>> \in Seq(Cell) /\ (n \in Names => <<n>> \in Seq(Names)) /\ Perms \in ModeSet
  BY DEF ModeSet
<1>13. CASE q.op = "create"
  <2>1. n \in Names
    BY <1>2, <1>13 DEF DirOps
  <2>2. Outcome_ok(f, use, q, Make(f, use, n, "file", q.mode, <<>>))
    BY <1>1, <1>11, <1>12, <2>1
  <2>3. r = open_excl(f, use, n, q.mode)
    BY <1>13 DEF Outcomes
  <2> QED
    BY <2>2, <2>3, Conditional DEF open_excl
<1>14. CASE q.op = "mkdir"
  <2>1. n \in Names /\ q.op \notin DataOps
    BY <1>2, <1>14 DEF DirOps, DataOps, FileOps
  <2>2. Outcome_ok(f, use, q, Make(f, use, n, "dir", q.mode, <<>>))
    BY <1>1, <1>11, <1>12, <2>1
  <2>3. r = mkdir(f, use, n, q.mode)
    BY <1>14 DEF Outcomes
  <2> QED
    BY <2>2, <2>3, Conditional DEF mkdir
<1>29. CASE q.op = "mkfifo"
  <2>1. n \in Names /\ q.op \notin DataOps
    BY <1>2, <1>29 DEF DirOps, DataOps, FileOps
  <2>2. Outcome_ok(f, use, q, Make(f, use, n, "fifo", q.mode, <<>>))
    BY <1>1, <1>11, <1>12, <2>1
  <2>3. r = mkfifo(f, use, n, q.mode)
    BY <1>29 DEF Outcomes
  <2> QED
    BY <2>2, <2>3, Conditional DEF mkfifo
<1>15. CASE q.op = "symlink"
  <2>1. n \in Names /\ q.to \in Names /\ q.op \notin DataOps
    BY <1>2, <1>15 DEF DirOps, DataOps, FileOps
  <2>2. Outcome_ok(f, use, q, Make(f, use, q.to, "link", Perms, <<n>>))
    BY <1>11, <1>12, <2>1
  <2>3. r = symlink(f, use, n, q.to)
    BY <1>15 DEF Outcomes
  <2> QED
    BY <2>2, <2>3, Conditional DEF symlink
<1>16. ASSUME NEW n2 \in Names, NEW k \in Nodes \cup {0}, NEW out,
              q.op \in DataOps => k = 0 \/ \E n3 \in Names : k = f.dir[n3]
       PROVE  Outcome_ok(f, use, q, Done(Entry(f, n2, k), out))
  <2>1. Kept(f, use, Entry(f, n2, k))
        /\ (FilesOnly(f) /\ q.op \in DataOps => FilesOnly(Entry(f, n2, k)))
    BY <1>16, EntryKeeps
  <2> QED
    BY <2>1, DoneKeeps
<1>17. CASE q.op \in {"unlink", "rmdir"}
  <2>1. n \in Names
    BY <1>2, <1>17 DEF DirOps
  <2>2. Outcome_ok(f, use, q, Done(Entry(f, n, 0), <<>>))
    BY <1>16, <2>1
  <2>3. r \in {unlink(f, n), rmdir(f, n)}
    BY <1>17 DEF Outcomes
  <2> QED
    BY <2>2, <2>3, Conditional DEF unlink, rmdir
<1>18. CASE q.op = "link"
  <2>1. n \in Names /\ q.to \in Names /\ f.dir[n] \in Nodes \cup {0}
    BY <1>2, <1>18 DEF DirOps, Directory
  <2>2. Outcome_ok(f, use, q, Done(Entry(f, q.to, f.dir[n]), <<>>))
    BY <1>16, <2>1
  <2>3. r = link(f, n, q.to)
    BY <1>18 DEF Outcomes
  <2> QED
    BY <2>2, <2>3, Conditional DEF link
<1>19. CASE q.op = "rename"
  <2> DEFINE t == q.to
             e == Entry(f, t, f.dir[n])
             g == Entry(e, n, 0)
  <2>1. n \in Names /\ t \in Names /\ f.dir[n] \in Nodes \cup {0}
    BY <1>2, <1>19 DEF DirOps, Directory
  <2>2. Kept(f, use, e) /\ (FilesOnly(f) => FilesOnly(e))
    BY <2>1, EntryKeeps
  <2>3. e \in Directory
    BY <2>2 DEF Kept
  <2> HIDE DEF e
  <2>4. Kept(e, use, g) /\ (FilesOnly(e) => FilesOnly(g))
    BY <2>1, <2>3, EntryKeeps
  <2> HIDE DEF g
  <2>5. Kept(f, use, g) /\ (FilesOnly(f) => FilesOnly(g))
    BY <2>2, <2>4 DEF Kept
  <2>6. Outcome_ok(f, use, q, Done(g, <<>>))
    BY <2>5, DoneKeeps
  <2>7. r = rename(f, n, t)
    BY <1>19 DEF Outcomes
  <2>8. r = Refused(f) \/ r = Done(f, <<>>) \/ r = Done(g, <<>>)
    BY <2>7 DEF rename, g, e
  <2> QED
    BY <1>3, <1>4, <2>6, <2>8
<1>20. ASSUME NEW k \in Nodes, NEW nd \in Node, nd.kind = f.node[k].kind, NEW out
       PROVE  Outcome_ok(f, use, q, Done(Put(f, k, nd), out))
  <2>1. Kept(f, use, Put(f, k, nd)) /\ (FilesOnly(f) => FilesOnly(Put(f, k, nd)))
    BY <1>20, PutKeeps
  <2> QED
    BY <2>1, DoneKeeps
<1>21. ASSUME NEW k \in Nodes, f.node[k].kind = "file"
       PROVE  Outcome_ok(f, use, q, ftruncate(f, k, q.off))
  <2>1. f.node[k] \in Node /\ f.node[k].data \in Seq(Cell)
    BY <1>21 DEF Directory, Node
  <2>2. Extend(f.node[k].data, q.off) \in Seq(Cell)
    BY <1>1, <2>1, Extended, Cells
  <2> QED
    BY <1>1, <1>20, <1>21, <2>1, <2>2, TruncateKeeps, FilledIsNode
<1>22. CASE q.op = "ftruncate"
  <2>1. i \in Nodes /\ r = ftruncate(f, i, q.off) /\ f.node[i].kind = "file"
    BY <1>22 DEF Outcomes, FileOps
  <2> QED
    BY <1>21, <2>1
<1>23. CASE q.op = "truncate"
  <2>1. n \in Names /\ r = truncate(f, n, q.off)
    BY <1>2, <1>23 DEF Outcomes, DirOps
  <2>2. Leads(f, n, {"file"}) => NodeOf(f, n) \in Nodes /\ f.node[NodeOf(f, n)].kind = "file"
    BY <2>1, LeadsTo
  <2> QED
    BY <1>21, <2>1, <2>2, Conditional DEF truncate
<1>24. CASE q.op = "write"
  <2>1. i \in Nodes /\ r = pwrite(f, i, q.off, q.cells) /\ f.node[i].kind = "file"
    BY <1>24 DEF Outcomes, FileOps
  <2>2. f.node[i] \in Node /\ f.node[i].data \in Seq(Cell)
    BY <2>1 DEF Directory, Node
  <2>3. Written(f.node[i].data, q.off, q.cells) \in Seq(Cell)
    BY <1>1, <2>2, WrittenIs
  <2> DEFINE nd == Filled(f.node[i], Written(f.node[i].data, q.off, q.cells))
  <2>4. nd \in Node /\ nd.kind = f.node[i].kind
    BY <2>1, <2>2, <2>3, FilledIsNode
  <2>5. r = Done(Put(f, i, nd), <<Len(q.cells)>>)
    BY <1>1, <2>1, WriteKeeps
  <2> HIDE DEF nd
  <2> QED
    BY <1>20, <2>1, <2>4, <2>5
<1>25. CASE q.op = "chmod"
  <2>1. n \in Names /\ r = chmod(f, n, q.mode)
    BY <1>2, <1>25 DEF Outcomes, DirOps
  <2>2. ASSUME Leads(f, n, {"file", "dir", "fifo"})
        PROVE  Outcome_ok(f, use, q, Done([f EXCEPT !.node[NodeOf(f, n)].mode = q.mode], <<>>))
    <3> DEFINE k == NodeOf(f, n)
    <3>1. k \in Nodes
      BY <2>1, <2>2, LeadsTo
    <3> HIDE DEF k
    <3>2. Moded(f.node[k], q.mode) \in Node /\ Moded(f.node[k], q.mode).kind = f.node[k].kind
      BY <1>1, <3>1 DEF Moded, Node, Directory
    <3>3. Outcome_ok(f, use, q, Done(Put(f, k, Moded(f.node[k], q.mode)), <<>>))
      BY <1>20, <3>1, <3>2
    <3>4. [f EXCEPT !.node[k].mode = q.mode] = Put(f, k, Moded(f.node[k], q.mode))
      BY <3>1, ModedIs
    <3> QED
      BY <3>3, <3>4 DEF k
  <2> QED
    BY <2>1, <2>2, Conditional DEF chmod
<1>26. CASE q.op = "chown"
  <2>1. PICK may \in BOOLEAN : r = chown(f, n, q.owner, q.group, may)
    BY <1>26 DEF Outcomes
  <2>2. n \in Names
    BY <1>2, <1>26 DEF DirOps
  <2> DEFINE k == NodeOf(f, n)
             o == IF q.owner = Keep THEN f.node[k].owner ELSE q.owner
             g == IF q.group = Keep THEN f.node[k].group ELSE q.group
  <2>3. r = If(Leads(f, n, {"file", "dir", "fifo"}) /\ may, f,
               Done([f EXCEPT !.node[k].owner = o, !.node[k].group = g], <<>>))
    BY <2>1 DEF chown
  <2>4. ASSUME Leads(f, n, {"file", "dir", "fifo"})
        PROVE  Outcome_ok(f, use, q, Done([f EXCEPT !.node[k].owner = o, !.node[k].group = g], <<>>))
    <3>1. k \in Nodes
      BY <2>2, <2>4, LeadsTo
    <3> HIDE DEF k
    <3>2. f.node[k] \in Node /\ o \in Int /\ g \in Int
      BY <1>1, <3>1 DEF Node, Directory
    <3> HIDE DEF o, g
    <3>3. Owned(f.node[k], o, g) \in Node /\ Owned(f.node[k], o, g).kind = f.node[k].kind
      BY <3>2 DEF Owned, Node
    <3>4. Outcome_ok(f, use, q, Done(Put(f, k, Owned(f.node[k], o, g)), <<>>))
      BY <1>20, <3>1, <3>3
    <3>5. Reowned(f, k, o, g) = Put(f, k, Owned(f.node[k], o, g))
      BY <3>1, OwnedIs
    <3> QED
      BY <3>4, <3>5 DEF Reowned
  <2> QED
    BY <2>3, <2>4, Conditional
<1> QED
  BY <1>1, <1>5, <1>6, <1>7, <1>8, <1>9, <1>10, <1>13, <1>14, <1>15, <1>17, <1>18, <1>19, <1>22,
     <1>23, <1>24, <1>25, <1>26, <1>28, <1>29 DEF Ops, DataOps, FileOps, DirOps, OtherOps
-----------------------------------------------------------------------------
\* The directory on the server of GFS01 as its mounts show it.
Clear(data) == [j \in 1 .. Len(data) |-> plain(data[j], j)]
ClearNode(nd) == IF nd.kind = "file" THEN Filled(nd, Clear(nd.data)) ELSE nd
Cleared(f) == [dir |-> f.dir, node |-> [i \in Nodes |-> ClearNode(f.node[i])]]

\* Decrypting the data cell by cell keeps their length.
LEMMA ClearCells ==
    ASSUME NEW d \in Seq(Cell)
    PROVE  /\ Clear(d) \in Seq(Cell) /\ Len(Clear(d)) = Len(d)
           /\ \A j \in 1 .. Len(d) : Clear(d)[j] = plain(d[j], j)
<1>1. \A j \in 1 .. Len(d) : plain(d[j], j) \in Cell
  <2> SUFFICES ASSUME NEW cell \in Cell, NEW j \in Nat PROVE plain(cell, j) \in Cell
    OBVIOUS
  <2>1. cell.val \in Int /\ Garbage \in Cell
    BY DEF Cell, Garbage, Plain
  <2> QED
    BY <2>1, Cells DEF plain
<1> QED
  BY <1>1 DEF Clear

\* Decrypting an inode keeps its kind: Decrypted is ClearNode.
LEMMA ClearNodes ==
    ASSUME NEW nd \in Node
    PROVE  /\ ClearNode(nd) \in Node /\ ClearNode(nd).kind = nd.kind
           /\ Decrypted(nd) = ClearNode(nd)
<1>1. CASE nd.kind = "file"
  <2>1. nd.data \in Seq(Cell)
    BY <1>1 DEF Node
  <2>2. Filled(nd, Clear(nd.data)) \in Node /\ Filled(nd, Clear(nd.data)).kind = nd.kind
    BY <1>1, <2>1, ClearCells, FilledIsNode
  <2>3. [j \in DOMAIN nd.data |-> plain(nd.data[j], j)] = Clear(nd.data)
    BY <2>1 DEF Clear
  <2>4. [nd EXCEPT !.data = Clear(nd.data)] = Filled(nd, Clear(nd.data))
    BY NodeChanges
  <2>5. Decrypted(nd) = Filled(nd, Clear(nd.data))
    BY <1>1, <2>3, <2>4 DEF Decrypted
  <2> QED
    BY <1>1, <2>2, <2>5 DEF ClearNode
<1>2. CASE nd.kind # "file"
  BY <1>2 DEF ClearNode, Decrypted
<1> QED
  BY <1>1, <1>2

\* Decrypting every inode of a directory.
LEMMA DecryptedIs ==
    ASSUME NEW f \in Directory
    PROVE  [f EXCEPT !.node = [i \in Nodes |-> Decrypted(f.node[i])]] = Cleared(f)
<1>1. f.node \in [Nodes -> Node]
  BY DEF Directory
<1>2. [i \in Nodes |-> Decrypted(f.node[i])] = [i \in Nodes |-> ClearNode(f.node[i])]
  BY <1>1, ClearNodes
<1>3. \A x : [f EXCEPT !.node = x] = [dir |-> f.dir, node |-> x]
  BY DirectoryIs
<1> QED
  BY <1>2, <1>3 DEF Cleared

\* What the mounts show is what the server has, decrypted if they encrypt.
LEMMA ShownIs ==
    ASSUME fs \in Directory
    PROVE  Shown = IF encrypted THEN Cleared(fs) ELSE fs
BY DecryptedIs DEF Shown

\* Decrypting changes no entry and no kind.
LEMMA ClearedIs ==
    ASSUME NEW f \in Directory
    PROVE  /\ Cleared(f) \in Directory /\ Cleared(f).dir = f.dir
           /\ \A i \in Nodes : Cleared(f).node[i] = ClearNode(f.node[i])
           /\ \A i \in Nodes : Cleared(f).node[i].kind = f.node[i].kind
<1>1. /\ Cleared(f).dir = f.dir /\ f.node \in [Nodes -> Node]
      /\ \A i \in Nodes : Cleared(f).node[i] = ClearNode(f.node[i])
  BY DEF Cleared, Directory
<1>2. \A i \in Nodes : ClearNode(f.node[i]) \in Node /\ ClearNode(f.node[i]).kind = f.node[i].kind
  BY <1>1, ClearNodes
<1> QED
  BY <1>1, <1>2 DEF Cleared, Directory

\* Names lead to the same entries, and calls find the same inodes.
LEMMA SameNames ==
    ASSUME NEW f \in Directory, NEW n \in Names
    PROVE  /\ Kind(Cleared(f), n) = Kind(f, n) /\ NodeOf(Cleared(f), n) = NodeOf(f, n)
           /\ \A kinds : Leads(Cleared(f), n, kinds) = Leads(f, n, kinds)
           /\ \A use : Free(Cleared(f), use) = Free(f, use)
<1>1. Cleared(f).dir = f.dir /\ f.dir \in [Names -> Nodes \cup {0}]
  BY ClearedIs DEF Directory
<1>2. \A n2 \in Names : Kind(Cleared(f), n2) = Kind(f, n2)
  BY <1>1, ClearedIs DEF Kind
<1>3. Target(Cleared(f), n) = Target(f, n)
  <2>1. CASE Kind(f, n) = "link"
    <3>1. f.dir[n] \in Nodes /\ f.node[f.dir[n]].kind = "link"
      BY <1>1, <2>1 DEF Kind
    <3>2. Cleared(f).node[f.dir[n]] = f.node[f.dir[n]]
      BY <3>1, ClearedIs DEF ClearNode
    <3> QED
      BY <1>1, <1>2, <3>2 DEF Target
  <2>2. CASE Kind(f, n) # "link"
    BY <1>2, <2>2 DEF Target
  <2> QED
    BY <2>1, <2>2
<1>4. \A kinds : Leads(Cleared(f), n, kinds) = Leads(f, n, kinds)
  BY <1>2, <1>3 DEF Leads
<1> QED
  BY <1>1, <1>2, <1>3, <1>4 DEF NodeOf, Free

\* The result with the directory as it is shown.
Shows(r) == [ok |-> r.ok, fs |-> Cleared(r.fs), out |-> r.out]

\* A call that is done, or refused, on the encrypted contents is so on the decrypted ones.
LEMMA DoneShows ==
    ASSUME NEW f, NEW out
    PROVE  Shows(Done(f, out)) = Done(Cleared(f), out) /\ Shows(Refused(f)) = Refused(Cleared(f))
BY DEF Shows, Done, Refused

\* A call that is done on a condition that does not depend on the data.
LEMMA IfShows ==
    ASSUME NEW f, NEW condition, NEW r, NEW r2, condition => r2 = Shows(r)
    PROVE  If(condition, Cleared(f), r2) = Shows(If(condition, f, r))
BY DoneShows DEF If

\* To enter a name and to decrypt commute.
LEMMA EntryShows ==
    ASSUME NEW f \in Directory, NEW n \in Names, NEW i \in Nodes \cup {0}
    PROVE  Entry(Cleared(f), n, i) = Cleared(Entry(f, n, i))
<1>1. Entry(f, n, i) = [dir |-> [f.dir EXCEPT ![n] = i], node |-> f.node]
  BY EntryIs
<1>2. Entry(Cleared(f), n, i) = [dir |-> [f.dir EXCEPT ![n] = i], node |-> Cleared(f).node]
  BY ClearedIs, EntryIs
<1> QED
  BY <1>1, <1>2 DEF Cleared

\* So do to replace an inode and to decrypt.
LEMMA PutShows ==
    ASSUME NEW f \in Directory, NEW i \in Nodes, NEW nd
    PROVE  Put(Cleared(f), i, ClearNode(nd)) = Cleared(Put(f, i, nd))
<1>1. f.node = [k \in Nodes |-> f.node[k]] /\ DOMAIN f.node = Nodes
  BY DEF Directory
<1> DEFINE x == [f.node EXCEPT ![i] = nd]
           y == [Cleared(f).node EXCEPT ![i] = ClearNode(nd)]
<1>2. y = [k \in Nodes |-> ClearNode(x[k])]
  BY <1>1 DEF Cleared
<1> HIDE DEF x, y
<1>3. Put(Cleared(f), i, ClearNode(nd)) = [dir |-> f.dir, node |-> y]
  BY ClearedIs DEF Put, y
<1>4. Put(f, i, nd) = [dir |-> f.dir, node |-> x]
  BY DEF Put, x
<1> QED
  BY <1>2, <1>3, <1>4 DEF Cleared

\* So do to make a file and to decrypt: the same inode is free.
LEMMA MakeShows ==
    ASSUME NEW f \in Directory, NEW use, NEW n \in Names, NEW mode
    PROVE  Make(Cleared(f), use, n, "file", mode, <<>>) = Shows(Make(f, use, n, "file", mode, <<>>))
<1>1. Cleared(f) \in Directory /\ Free(Cleared(f), use) = Free(f, use)
  BY ClearedIs, SameNames
<1>2. CASE Free(f, use) = {}
  BY <1>1, <1>2, MakeRefused, DoneShows
<1>3. CASE Free(f, use) # {}
  <2> DEFINE nd == NewNode("file", mode, <<>>)
  <2>1. PICK i \in Free(f, use) :
          /\ i = Min(Free(f, use))
          /\ Make(f, use, n, "file", mode, <<>>) = Done(Made(f, n, i, nd), <<>>)
    BY <1>3, MakeIs
  <2>2. Make(Cleared(f), use, n, "file", mode, <<>>) = Done(Made(Cleared(f), n, i, nd), <<>>)
    BY <1>1, <1>3, <2>1, MakeIs
  <2>3. i \in Nodes
    BY DEF Free
  <2>4. ClearNode(nd) = nd
    <3>1. nd = [kind |-> "file", data |-> <<>>, mode |-> mode, owner |-> 0, group |-> 0]
      BY NewNodeIs
    <3>2. Clear(<<>>) = <<>>
      BY DEF Clear
    <3> HIDE DEF nd
    <3> QED
      BY <3>1, <3>2 DEF ClearNode, Filled
  <2> HIDE DEF nd
  <2>5. \A g : Made(g, n, i, nd) = Put([dir |-> [g.dir EXCEPT ![n] = i], node |-> g.node], i, nd)
    BY DEF Made, Put
  <2>6. Entry(f, n, i) \in Directory
    BY <2>3, EntryKeeps DEF Kept
  <2>7. Made(f, n, i, nd) = Put(Entry(f, n, i), i, nd)
    BY <2>5, EntryIs
  <2>8. Made(Cleared(f), n, i, nd) = Put(Entry(Cleared(f), n, i), i, nd)
    BY <1>1, <2>5, EntryIs
  <2>9. Made(Cleared(f), n, i, nd) = Cleared(Made(f, n, i, nd))
    BY <2>3, <2>4, <2>6, <2>7, <2>8, EntryShows, PutShows
  <2> QED
    BY <2>1, <2>2, <2>9, DoneShows
<1> QED
  BY <1>2, <1>3

\* stat tells the same of an encrypted file: its length is that of its text.
LEMMA StatShows ==
    ASSUME NEW f \in Directory, NEW i \in Nodes
    PROVE  stat(Cleared(f), i) = Shows(stat(f, i))
<1> DEFINE nd == f.node[i]
           What(x) == <<x.kind, IF x.kind = "file" THEN Len(x.data) ELSE 0, x.mode, x.owner, x.group>>
<1>1. nd \in Node /\ Cleared(f).node[i] = ClearNode(nd)
  BY ClearedIs DEF Directory
<1>2. What(ClearNode(nd)) = What(nd)
  <2>1. CASE nd.kind = "file"
    <3>1. nd.data \in Seq(Cell)
      BY <1>1, <2>1 DEF Node
    <3>2. Len(Clear(nd.data)) = Len(nd.data)
      BY <3>1, ClearCells
    <3> QED
      BY <2>1, <3>2 DEF ClearNode, Filled
  <2>2. CASE nd.kind # "file"
    BY <2>2 DEF ClearNode
  <2> QED
    BY <2>1, <2>2
<1>3. stat(f, i) = Done(f, What(nd)) /\ stat(Cleared(f), i) = Done(Cleared(f), What(ClearNode(nd)))
  BY <1>1 DEF stat
<1> HIDE DEF What, nd
<1> QED
  BY <1>2, <1>3, DoneShows

\* A file that is not made longer has no holes.
LEMMA TruncateShows ==
    ASSUME NEW f \in Directory, NEW i \in Nodes, f.node[i].kind = "file", NEW len \in Nat,
           len <= Len(f.node[i].data)
    PROVE  ftruncate(Cleared(f), i, len) = Shows(ftruncate(f, i, len))
<1> DEFINE nd == f.node[i]
           d == nd.data
<1>1. /\ nd \in Node /\ d \in Seq(Cell) /\ Cleared(f) \in Directory
      /\ Cleared(f).node[i] = Filled(nd, Clear(d)) /\ Cleared(f).node[i].kind = "file"
  BY ClearedIs DEF Directory, Node, ClearNode
<1>2. ftruncate(f, i, len) = Done(Put(f, i, Filled(nd, Extend(d, len))), <<>>)
  BY TruncateKeeps
<1>3. Cleared(f).node[i].data = Clear(d) /\ \A x : Filled(Cleared(f).node[i], x) = Filled(nd, x)
  BY <1>1 DEF Filled
<1>4. ftruncate(Cleared(f), i, len)
      = Done(Put(Cleared(f), i, Filled(nd, Extend(Clear(d), len))), <<>>)
  BY <1>1, <1>3, TruncateKeeps
<1>5. Extend(Clear(d), len) = Clear(Extend(d, len))
  <2>1. Len(d) \in Nat /\ Len(Clear(d)) = Len(d) /\ Clear(d) \in Seq(Cell)
        /\ \A j \in 1 .. Len(d) : Clear(d)[j] = plain(d[j], j)
    BY <1>1, ClearCells
  <2>2. Extend(d, len) \in Seq(Cell) /\ Len(Extend(d, len)) = len
        /\ \A j \in 1 .. len : Extend(d, len)[j] = d[j]
    <3>1. Extend(d, len) \in Seq(Cell) /\ Len(Extend(d, len)) = len
          /\ \A j \in 1 .. len : Extend(d, len)[j] = IF j <= Len(d) THEN d[j] ELSE Hole
      BY <1>1, Extended, Cells
    <3> QED
      BY <2>1, <3>1
  <2>3. Extend(Clear(d), len) = [j \in 1 .. len |-> plain(d[j], j)]
    BY <2>1 DEF Extend
  <2>4. Clear(Extend(d, len)) = [j \in 1 .. len |-> plain(d[j], j)]
    BY <2>2 DEF Clear
  <2> QED
    BY <2>3, <2>4
<1>6. ClearNode(Filled(nd, Extend(d, len))) = Filled(nd, Clear(Extend(d, len)))
  BY DEF ClearNode, Filled
<1> HIDE DEF nd, d
<1> QED
  BY <1>2, <1>4, <1>5, <1>6, PutShows, DoneShows

\* Every call on the encrypted contents but read and write gives, decrypted, what it gives on
\* the decrypted ones: provided that no file is extended, since its holes would decrypt to
\* garbage.
LEMMA CallShows ==
    ASSUME NEW f \in Directory, FilesOnly(f), NEW use, NEW i \in Nodes \cup {0},
           NEW q \in Request, Named(q), q.op \in DataOps \ {"read", "write"},
           q.op \in FileOps => i # 0 /\ f.node[i].kind = "file",
           q.op = "ftruncate" => q.off <= Len(f.node[i].data),
           q.op = "truncate" /\ Kind(f, q.name) = "file" => q.off <= Size(f, q.name),
           NEW r \in Outcomes(f, use, i, q)
    PROVE  Shows(r) \in Outcomes(Cleared(f), use, i, q)
<1> DEFINE n == q.name
           g == Cleared(f)
<1>1. n \in Names /\ q.to \in Names /\ q.off \in Nat
  BY DEF Request, Named, DataOps, DirOps, FileOps
<1>2. g \in Directory /\ g.dir = f.dir /\ f.dir \in [Names -> Nodes \cup {0}]
  BY ClearedIs DEF Directory
<1>3. Kind(g, n) = Kind(f, n) /\ Kind(g, q.to) = Kind(f, q.to) /\ NodeOf(g, n) = NodeOf(f, n)
      /\ Leads(g, n, {"file"}) = Leads(f, n, {"file"})
  BY <1>1, SameNames
<1>4. CASE q.op = "getattr"
  <2>1. r = lstat(f, n) /\ Outcomes(g, use, i, q) = {lstat(g, n)}
    BY <1>4 DEF Outcomes
  <2>2. lstat(g, n) = Shows(lstat(f, n))
    BY <1>1, <1>2, StatShows, DoneShows DEF lstat
  <2> QED
    BY <2>1, <2>2
<1>5. CASE q.op = "fgetattr"
  <2>1. r = stat(f, i) /\ Outcomes(g, use, i, q) = {stat(g, i)} /\ i \in Nodes
    BY <1>5 DEF Outcomes, FileOps
  <2> QED
    BY <2>1, StatShows
<1>6. CASE q.op = "open"
  <2>1. r = open(f, n) /\ Outcomes(g, use, i, q) = {open(g, n)}
    BY <1>6 DEF Outcomes
  <2> QED
    BY <1>3, <2>1, IfShows, DoneShows DEF open
<1>7. CASE q.op = "release"
  <2>1. r = Done(f, <<>>) /\ Outcomes(g, use, i, q) = {Done(g, <<>>)}
    BY <1>7 DEF Outcomes
  <2> QED
    BY <2>1, DoneShows
<1>8. CASE q.op = "create"
  <2>1. r = open_excl(f, use, n, q.mode) /\ Outcomes(g, use, i, q) = {open_excl(g, use, n, q.mode)}
    BY <1>8 DEF Outcomes
  <2> QED
    BY <1>1, <1>3, <2>1, IfShows, MakeShows DEF open_excl
<1>9. CASE q.op = "unlink"
  <2>1. r = unlink(f, n) /\ Outcomes(g, use, i, q) = {unlink(g, n)}
    BY <1>9 DEF Outcomes
  <2>2. Done(Entry(g, n, 0), <<>>) = Shows(Done(Entry(f, n, 0), <<>>))
    BY <1>1, EntryShows, DoneShows
  <2> QED
    BY <1>3, <2>1, <2>2, IfShows DEF unlink
<1>10. CASE q.op = "rename"
  <2> DEFINE t == q.to
  <2>1. r = rename(f, n, t) /\ Outcomes(g, use, i, q) = {rename(g, n, t)}
    BY <1>10 DEF Outcomes
  <2>2. Entry(f, t, f.dir[n]) \in Directory /\ Entry(g, t, f.dir[n]) = Cleared(Entry(f, t, f.dir[n]))
    BY <1>1, <1>2, EntryKeeps, EntryShows DEF Kept
  <2>3. Entry(Entry(g, t, f.dir[n]), n, 0) = Cleared(Entry(Entry(f, t, f.dir[n]), n, 0))
    BY <1>1, <2>2, EntryShows
  <2>4. rename(g, n, t) = Shows(rename(f, n, t))
    BY <1>2, <1>3, <2>3, DoneShows DEF rename
  <2> QED
    BY <2>1, <2>4
<1>11. CASE q.op = "ftruncate"
  <2>1. r = ftruncate(f, i, q.off) /\ Outcomes(g, use, i, q) = {ftruncate(g, i, q.off)}
        /\ i \in Nodes /\ f.node[i].kind = "file" /\ q.off <= Len(f.node[i].data)
    BY <1>11 DEF Outcomes, FileOps
  <2> QED
    BY <1>1, <2>1, TruncateShows
<1>12. CASE q.op = "truncate"
  <2> DEFINE k == NodeOf(f, n)
  <2>1. r = truncate(f, n, q.off) /\ Outcomes(g, use, i, q) = {truncate(g, n, q.off)}
    BY <1>12 DEF Outcomes
  <2>2. ASSUME Leads(f, n, {"file"})
        PROVE  k \in Nodes /\ f.node[k].kind = "file" /\ q.off <= Len(f.node[k].data)
    <3>1. k \in Nodes /\ f.node[k].kind = "file"
      BY <1>1, <2>2, LeadsTo
    <3>2. Kind(f, n) # "link"
      BY <1>1 DEF Kind, FilesOnly
    <3>3. Target(f, n) = n /\ Kind(f, n) = "file" /\ k = f.dir[n]
      BY <2>2, <3>2 DEF Target, Leads, NodeOf
    <3> QED
      BY <1>12, <3>1, <3>3 DEF Size
  <2>3. Leads(f, n, {"file"}) => ftruncate(g, NodeOf(g, n), q.off) = Shows(ftruncate(f, k, q.off))
    BY <1>1, <1>3, <2>2, TruncateShows
  <2> QED
    BY <1>3, <2>1, <2>3, IfShows DEF truncate
<1> QED
  BY <1>4, <1>5, <1>6, <1>7, <1>8, <1>9, <1>10, <1>11, <1>12 DEF DataOps, FileOps

\* A write at the end of the file of cells that are encrypted for their positions.
\* A secret shows what was encrypted, where it was to be written.
Secret(cells, secret, off) ==
    Len(secret) = Len(cells) /\ \A j \in 1 .. Len(cells) : plain(secret[j], off + j) = cells[j]

\* To write the ciphertext at the end of a file writes the text, decrypted.
LEMMA WriteShows ==
    ASSUME NEW f \in Directory, NEW i \in Nodes, f.node[i].kind = "file",
           NEW cells \in Seq(Cell), NEW secret \in Seq(Cell),
           NEW off, off = Len(f.node[i].data), Secret(cells, secret, off)
    PROVE  pwrite(Cleared(f), i, off, cells) = Shows(pwrite(f, i, off, secret))
<1> DEFINE nd == f.node[i]
           d == nd.data
<1>0. Len(secret) = Len(cells) /\ \A j \in 1 .. Len(cells) : plain(secret[j], off + j) = cells[j]
  BY DEF Secret
<1>1. /\ nd \in Node /\ d \in Seq(Cell) /\ Cleared(f) \in Directory /\ off \in Nat
      /\ Cleared(f).node[i] = Filled(nd, Clear(d)) /\ Cleared(f).node[i].kind = "file"
  <2>1. nd \in Node /\ d \in Seq(Cell)
    BY DEF Directory, Node
  <2>2. off \in Nat
    BY <2>1
  <2> QED
    BY <2>1, <2>2, ClearedIs DEF ClearNode
<1>2. pwrite(f, i, off, secret) = Done(Put(f, i, Filled(nd, Written(d, off, secret))), <<Len(secret)>>)
  BY <1>1, WriteKeeps
<1>3. Cleared(f).node[i].data = Clear(d) /\ \A x : Filled(Cleared(f).node[i], x) = Filled(nd, x)
  BY <1>1 DEF Filled
<1>4. pwrite(Cleared(f), i, off, cells)
      = Done(Put(Cleared(f), i, Filled(nd, Written(Clear(d), off, cells))), <<Len(cells)>>)
  <2> DEFINE x == Cleared(f).node[i]
  <2>1. pwrite(Cleared(f), i, off, cells)
        = Done(Put(Cleared(f), i, Filled(x, Written(x.data, off, cells))), <<Len(cells)>>)
    BY <1>1, WriteKeeps
  <2> HIDE DEF nd, d
  <2> QED
    BY <1>3, <2>1
<1> HIDE DEF nd, d
<1>5. Written(Clear(d), off, cells) = Clear(Written(d, off, secret))
  <2>0. Written(d, off, secret) \in Seq(Cell)
        /\ Written(d, off, secret) = Appended(d, secret)
    <3>1. d \in Seq(Cell) /\ off = Len(d)
      BY <1>1 DEF d, nd
    <3> QED
      BY <3>1, WrittenAtEnd
  <2> DEFINE len == off + Len(cells)
             w == Written(d, off, secret)
  <2>1. Len(d) = off /\ Len(cells) \in Nat /\ Len(Clear(d)) = off /\ Clear(d) \in Seq(Cell)
        /\ (\A j \in 1 .. off : Clear(d)[j] = plain(d[j], j)) /\ len \in Nat
    <3>1. Len(d) = off
      BY DEF d, nd
    <3> QED
      BY <1>1, <3>1, ClearCells
  <2>2. len = (IF off >= off + Len(cells) THEN off ELSE off + Len(cells))
    BY <1>1, <2>1
  <2> HIDE DEF len
  <2>3. w = [j \in 1 .. len |-> IF j - off \in 1 .. Len(cells) THEN secret[j - off]
                               ELSE IF j <= off THEN d[j] ELSE Hole] /\ w \in Seq(Cell)
    <3>1. w = Appended(d, secret) /\ w \in Seq(Cell)
      BY <2>0
    <3>2. len = Len(d) + Len(secret) /\ Len(secret) = Len(cells) /\ Len(d) = off
      BY <1>0, <2>1 DEF len
    <3> HIDE DEF w
    <3> QED
      BY <3>1, <3>2 DEF Appended
  <2>4. Written(Clear(d), off, cells)
        = [j \in 1 .. len |-> IF j - off \in 1 .. Len(cells) THEN cells[j - off]
                             ELSE IF j <= off THEN Clear(d)[j] ELSE Hole]
    <3>1. len = IF Len(Clear(d)) >= off + Len(cells) THEN Len(Clear(d)) ELSE off + Len(cells)
      BY <2>1, <2>2
    <3>2. Written(Clear(d), off, cells) = Overwritten(Clear(d), off, cells, len)
      BY <1>1, <2>1, <3>1, WrittenIs, SMTT(30)
    <3> QED
      BY <2>1, <3>2 DEF Overwritten
  <2> HIDE DEF w
  <2>5. Len(w) = len
    BY <2>1, <2>3
  <2>6. Clear(w) = [j \in 1 .. len |-> plain(w[j], j)]
    BY <2>5 DEF Clear
  <2>7. ASSUME NEW j \in 1 .. len
        PROVE  plain(w[j], j) = (IF j - off \in 1 .. Len(cells) THEN cells[j - off]
                                 ELSE IF j <= off THEN Clear(d)[j] ELSE Hole)
    <3>1. CASE j <= off
      BY <1>1, <2>1, <2>3, <3>1
    <3>2. CASE j > off
      <4>1. j - off \in 1 .. Len(cells) /\ off + (j - off) = j
        BY <1>1, <2>1, <3>2 DEF len
      <4>2. w[j] = secret[j - off]
        BY <2>3, <4>1
      <4> QED
        BY <1>0, <2>1, <4>1, <4>2
    <3> QED
      BY <1>1, <2>1, <3>1, <3>2
  <2>8. Written(Clear(d), off, cells) = [j \in 1 .. len |-> plain(w[j], j)]
    BY <2>4, <2>7
  <2> QED
    BY <2>6, <2>8 DEF w
<1>6. ClearNode(Filled(nd, Written(d, off, secret))) = Filled(nd, Clear(Written(d, off, secret)))
  BY DEF ClearNode, Filled, nd
<1> QED
  BY <1>0, <1>2, <1>4, <1>5, <1>6, PutShows, DoneShows

\* To read the text is to read the ciphertext and to decrypt it at the same offset.
LEMMA ReadShows ==
    ASSUME NEW f \in Directory, NEW i \in Nodes, f.node[i].kind = "file",
           NEW off \in Nat, NEW len \in Nat
    PROVE  LET r == pread(f, i, off, len) IN
           pread(Cleared(f), i, off, len)
           = Done(Cleared(f), [j \in DOMAIN r.out |-> plain(r.out[j], off + j)])
<1> DEFINE d == f.node[i].data
           r == pread(f, i, off, len)
           end == IF off + len < Len(d) THEN off + len ELSE Len(d)
<1>1. /\ d \in Seq(Cell) /\ Cleared(f).node[i].data = Clear(d) /\ Len(Clear(d)) = Len(d)
      /\ Len(d) \in Nat /\ \A j \in 1 .. Len(d) : Clear(d)[j] = plain(d[j], j)
  <2>1. d \in Seq(Cell)
    BY DEF Directory, Node
  <2>2. Cleared(f).node[i].data = Clear(d)
    <3>1. Cleared(f).node[i] = Filled(f.node[i], Clear(d))
      BY ClearedIs DEF ClearNode
    <3> QED
      BY <3>1 DEF Filled
  <2> QED
    BY <2>1, <2>2, ClearCells
<1>2. r.out = SubSeq(d, off + 1, end) /\ pread(Cleared(f), i, off, len)
             = Done(Cleared(f), SubSeq(Clear(d), off + 1, end))
  BY <1>1 DEF pread, Done
<1>3. end \in Nat /\ end <= Len(d)
  BY <1>1
<1> HIDE DEF end, d, r
<1>4. /\ SubSeq(d, off + 1, end) = [j \in 1 .. end - off |-> d[j + off]]
      /\ SubSeq(Clear(d), off + 1, end) = [j \in 1 .. end - off |-> Clear(d)[j + off]]
  BY <1>1, <1>3
<1>5. \A j \in 1 .. end - off : Clear(d)[j + off] = plain(d[j + off], off + j)
  BY <1>1, <1>3
<1>6. r.out = [j \in 1 .. end - off |-> d[j + off]] /\ DOMAIN r.out = 1 .. end - off
  BY <1>2, <1>4
<1>7. [j \in DOMAIN r.out |-> plain(r.out[j], off + j)]
      = [j \in 1 .. end - off |-> plain(d[j + off], off + j)]
  BY <1>6
<1>8. SubSeq(Clear(d), off + 1, end) = [j \in 1 .. end - off |-> plain(d[j + off], off + j)]
  BY <1>4, <1>5
<1> QED
  BY <1>2, <1>7, <1>8 DEF r
-----------------------------------------------------------------------------
\* The server makes the system calls of a local file system.
LEMMA ServerCalls ==
    ASSUME NEW f, NEW use, NEW i, NEW n, NEW n2, NEW a, NEW b, NEW x
    PROVE  /\ Server!lstat(f, n) = lstat(f, n)
           /\ Server!open(f, n) = open(f, n)
           /\ Server!open_trunc(f, use, n, a) = open_trunc(f, use, n, a)
           /\ Server!open_create(f, use, n, a) = open_create(f, use, n, a)
           /\ Server!pread(f, i, a, b) = pread(f, i, a, b)
           /\ Server!pwrite(f, i, a, x) = pwrite(f, i, a, x)
           /\ Server!ftruncate(f, i, a) = ftruncate(f, i, a)
           /\ Server!unlink(f, n) = unlink(f, n)
           /\ Server!mkdir(f, use, n, a) = mkdir(f, use, n, a)
           /\ Server!rmdir(f, n) = rmdir(f, n)
           /\ Server!rename(f, n, n2) = rename(f, n, n2)
           /\ Server!link(f, n, n2) = link(f, n, n2)
           /\ Server!symlink(f, use, n, n2) = symlink(f, use, n, n2)
           /\ Server!readlink(f, n) = readlink(f, n)
           /\ Server!names(f) = names(f)
           /\ Server!chmod(f, n, a) = chmod(f, n, a)
           /\ Server!chown(f, n, a, b, x) = chown(f, n, a, b, x)
           /\ Server!Done(f, x) = Done(f, x) /\ Server!Refused(f) = Refused(f)
           /\ Server!NodeOf(f, n) = NodeOf(f, n)
           /\ Server!Keep = Keep /\ Server!Masked(a) = Masked(a) /\ Server!Perms = Perms
<1>1. /\ \A y, z : Server!Done(y, z) = Done(y, z)
      /\ \A y : Server!Refused(y) = Refused(y)
      /\ \A y, t, z : Server!If(y, t, z) = If(y, t, z)
      /\ \A y, z : Server!Kind(y, z) = Kind(y, z)
      /\ Server!Nodes = Nodes /\ Server!NoNode = NoNode /\ Server!Hole = Hole
      /\ Server!Keep = Keep /\ Server!Perms = Perms /\ \A y : Server!Masked(y) = Masked(y)
      /\ \A y : Server!Min(y) = Min(y) /\ Server!Max(y) = Max(y) /\ Server!Range(y) = Range(y)
  BY DEF Done, Refused, If, Kind, Nodes, NoNode, Hole, Plain, Keep, Min, Max, Range,
         Perms, Masked, Server!Perms, Server!Masked,
         Server!Done, Server!Refused, Server!If, Server!Kind, Server!Nodes, Server!NoNode,
         Server!Hole, Server!Plain, Server!Keep, Server!Min, Server!Max, Server!Range
<1>2. /\ \A y, z : Server!Target(y, z) = Target(y, z)
      /\ \A y, z, t : Server!Entry(y, z, t) = Entry(y, z, t)
      /\ \A y, z : Server!Extend(y, z) = Extend(y, z)
  BY <1>1 DEF Target, Entry, Extend, Server!Target, Server!Entry, Server!Extend
<1>3. /\ \A y, z, t : Server!Leads(y, z, t) = Leads(y, z, t)
      /\ \A y, z : Server!NodeOf(y, z) = NodeOf(y, z)
  BY <1>1, <1>2 DEF Leads, NodeOf, Server!Leads, Server!NodeOf
<1>4. ASSUME NEW y, NEW k, NEW p, NEW d
      PROVE  Server!Make(f, use, y, k, p, d) = Make(f, use, y, k, p, d)
  BY <1>1, <1>2 DEF Make, Server!Make
<1>5. /\ \A y, z : Server!stat(y, z) = stat(y, z)
      /\ \A y, z, t : Server!ftruncate(y, z, t) = ftruncate(y, z, t)
  BY <1>1, <1>2 DEF stat, ftruncate, Server!stat, Server!ftruncate
<1>6. Server!open_trunc(f, use, n, a) = open_trunc(f, use, n, a)
  BY <1>1, <1>2, <1>3, <1>4 DEF open_trunc, Server!open_trunc
<1>7. /\ Server!lstat(f, n) = lstat(f, n) /\ Server!open(f, n) = open(f, n)
      /\ Server!open_create(f, use, n, a) = open_create(f, use, n, a)
      /\ Server!pread(f, i, a, b) = pread(f, i, a, b)
      /\ Server!pwrite(f, i, a, x) = pwrite(f, i, a, x)
  BY <1>1, <1>2, <1>3, <1>5, <1>6 DEF lstat, open, open_create, pread, pwrite, Server!lstat,
       Server!open, Server!open_create, Server!pread, Server!pwrite
<1>8. /\ Server!unlink(f, n) = unlink(f, n)
      /\ Server!mkdir(f, use, n, a) = mkdir(f, use, n, a)
      /\ Server!rmdir(f, n) = rmdir(f, n)
      /\ Server!rename(f, n, n2) = rename(f, n, n2)
      /\ Server!link(f, n, n2) = link(f, n, n2)
      /\ Server!symlink(f, use, n, n2) = symlink(f, use, n, n2)
  BY <1>1, <1>2, <1>3, <1>4 DEF unlink, mkdir, rmdir, rename, link, symlink, Server!unlink,
       Server!mkdir, Server!rmdir, Server!rename, Server!link, Server!symlink
<1>9. /\ Server!readlink(f, n) = readlink(f, n)
      /\ Server!names(f) = names(f)
      /\ Server!chmod(f, n, a) = chmod(f, n, a)
      /\ Server!chown(f, n, a, b, x) = chown(f, n, a, b, x)
  BY <1>1, <1>2, <1>3 DEF readlink, names, chmod, chown, Server!readlink, Server!names,
       Server!chmod, Server!chown
<1> QED
  BY <1>1, <1>3, <1>5, <1>6, <1>7, <1>8, <1>9

\* A mode that the umask changes matters only to a call that succeeds.
LEMMA Unmasked ==
    ASSUME NEW f, NEW use, NEW n, NEW mode, NEW mode2
    PROVE  /\ (open_excl(f, use, n, mode).ok => mode = mode2) =>
                open_excl(f, use, n, mode) = open_excl(f, use, n, mode2)
           /\ (mkfifo(f, use, n, mode).ok => mode = mode2) =>
                mkfifo(f, use, n, mode) = mkfifo(f, use, n, mode2)
           /\ (mkdir(f, use, n, mode).ok => mode = mode2) =>
                mkdir(f, use, n, mode) = mkdir(f, use, n, mode2)
<1> DEFINE made(kind, p) ==
             If(Kind(f, n) = "none", f, Make(f, use, n, kind, p, <<>>))
<1>1. ASSUME NEW kind, made(kind, mode).ok => mode = mode2
      PROVE  made(kind, mode) = made(kind, mode2)
  <2>1. CASE Kind(f, n) # "none"
    BY <2>1 DEF If
  <2>2. CASE Free(f, use) = {}
    <3>1. Make(f, use, n, kind, mode, <<>>) = Make(f, use, n, kind, mode2, <<>>)
      BY <2>2, MakeRefused
    <3> QED
      BY <3>1
  <2>3. CASE Kind(f, n) = "none" /\ Free(f, use) # {}
    <3>1. made(kind, mode) = Make(f, use, n, kind, mode, <<>>)
      BY <2>3 DEF If
    <3>2. \E g : Make(f, use, n, kind, mode, <<>>) = Done(g, <<>>)
      BY <2>3 DEF Make, If, Free
    <3>3. made(kind, mode).ok
      BY <3>1, <3>2 DEF Done
    <3> QED
      BY <1>1, <3>3
  <2> QED
    BY <2>1, <2>2, <2>3
<1>2. /\ \A p : open_excl(f, use, n, p) = made("file", p)
      /\ \A p : mkfifo(f, use, n, p) = made("fifo", p)
      /\ \A p : mkdir(f, use, n, p) = made("dir", p)
  BY DEF open_excl, mkfifo, mkdir
<1> HIDE DEF made
<1> QED
  BY <1>1, <1>2

\* The answer tells the mount what the system call has returned.
Response(a) == check_response([status |-> a.status, data |-> a.data])
Tells(a, r) == a.fs = r.fs /\ Response(a) = [ok |-> r.ok, out |-> r.out]

\* The answer of the server to a call tells its outcome; an error is told without data.
LEMMA AnswerTells ==
    ASSUME NEW r, r.ok \in BOOLEAN, ~ r.ok => r.out = <<>>, NEW error, error # "OK"
    PROVE  Tells(Server!Answer(r, error), r)
<1> DEFINE a == Server!Answer(r, error)
<1>1. a.fs = r.fs /\ a.data = r.out /\ a.status = IF r.ok THEN "OK" ELSE error
  BY DEF Server!Answer
<1>2. (a.status = "OK") = r.ok
  BY <1>1
<1> HIDE DEF a
<1>3. Response(a) = [ok |-> a.status = "OK", out |-> IF a.status = "OK" THEN a.data ELSE <<>>]
  BY DEF Response, check_response
<1>4. (IF a.status = "OK" THEN a.data ELSE <<>>) = r.out
  BY <1>1, <1>2
<1>5. Tells(a, r)
  BY <1>1, <1>2, <1>3, <1>4 DEF Tells
<1> QED
  BY <1>5 DEF a

Opcode(q) == IF q.op = "fgetattr" THEN "getattr" ELSE IF q.op = "ftruncate" THEN "truncate" ELSE q.op

\* The message of a write carries the cells, or their ciphertext.
LEMMA WriteMessageIs ==
    ASSUME NEW q, q.op = "write", NEW chroot, NEW loaded, NEW encrypts,
           NEW msg \in Messages(q, chroot, loaded, encrypts)
    PROVE  \E cells \in IF encrypts THEN encrypt(q.cells, q.off, loaded) ELSE {q.cells} :
             msg = httpfs_write(q, cells)
BY DEF Messages

\* The message of a call carries the arguments of the call that the server reads for that
\* opcode.
LEMMA MessageIs ==
    ASSUME NEW q, q.op \in Ops \ Local_ops, NEW chroot, NEW loaded, NEW encrypts,
           NEW msg \in Messages(q, chroot, loaded, encrypts)
    PROVE  /\ msg.opcode = Opcode(q)
           /\ ~ (q.op = "symlink" /\ chroot) => msg.path = q.name
           /\ q.op \in {"rename", "link", "symlink"} => msg.data = q.to
           /\ q.op \in {"truncate", "ftruncate"} => msg.header.offset = q.off
           /\ q.op = "read" => msg.header.offset = q.off /\ msg.header.size = q.len
           /\ q.op \in {"mkdir", "chmod"} => msg.header.mode = q.mode
           /\ q.op = "chown" => msg.header.uid = q.owner /\ msg.header.gid = q.group
<1> DEFINE Is(x, opcode, header, data) ==
             x = [opcode |-> opcode, header |-> header, path |-> q.name, data |-> data]
           Shape(x) == /\ x.opcode = Opcode(q) /\ x.path = q.name
<1>1. CASE q.op \in {"getattr", "fgetattr", "readdir", "unlink", "rmdir", "readlink"}
  <2>1. Is(msg, Opcode(q), NoHeader, <<>>)
    BY <1>1 DEF Messages, httpfs_getattr, httpfs_readdir, httpfs_unlink, httpfs_rmdir,
         httpfs_readlink, Simple, prepare_request, Opcode
  <2> QED
    BY <1>1, <2>1
<1>2. CASE q.op \in {"truncate", "ftruncate"}
  <2>1. Is(msg, Opcode(q), [offset |-> q.off], <<>>)
    BY <1>2 DEF Messages, httpfs_truncate, With_header, prepare_request, Opcode
  <2> QED
    BY <1>2, <2>1
<1>3. CASE q.op \in {"create", "mkdir", "chmod"}
  <2>1. Is(msg, Opcode(q), [mode |-> q.mode], <<>>)
    BY <1>3 DEF Messages, httpfs_create, httpfs_mkdir, httpfs_chmod, With_header,
         prepare_request, Opcode
  <2> QED
    BY <1>3, <2>1
<1>4. CASE q.op = "chown"
  <2>1. Is(msg, Opcode(q), [uid |-> q.owner, gid |-> q.group], <<>>)
    BY <1>4 DEF Messages, httpfs_chown, With_header, prepare_request, Opcode
  <2> QED
    BY <1>4, <2>1
<1>5. CASE q.op \in {"rename", "link"}
  <2>1. Is(msg, Opcode(q), NoHeader, q.to)
    BY <1>5 DEF Messages, httpfs_rename, httpfs_link, With_data, prepare_request, Opcode
  <2> QED
    BY <1>5, <2>1
<1>6. CASE q.op = "symlink"
  <2> DEFINE q2 == IF chroot THEN [q EXCEPT !.name = Elsewhere] ELSE q
  <2>1. msg = [opcode |-> "symlink", header |-> NoHeader, path |-> q2.name, data |-> q2.to]
    BY <1>6 DEF Messages, httpfs_symlink, With_data, prepare_request
  <2>2. q2.to = q.to /\ (~ chroot => q2.name = q.name)
    OBVIOUS
  <2> QED
    BY <1>6, <2>1, <2>2 DEF Opcode
<1>7. CASE q.op = "read"
  <2>1. Is(msg, Opcode(q), [size |-> q.len, offset |-> q.off], <<>>)
    BY <1>7 DEF Messages, httpfs_read, Range_of, With_header, prepare_request, Opcode
  <2> QED
    BY <1>7, <2>1
<1>8. CASE q.op = "write"
  <2>1. PICK cells : msg = httpfs_write(q, cells)
    BY <1>8, WriteMessageIs
  <2>2. Is(msg, Opcode(q), [size |-> Len(cells), offset |-> q.off], cells)
    BY <1>8, <2>1 DEF httpfs_write, Range_of, prepare_request, Opcode
  <2> QED
    BY <1>8, <2>2
<1> QED
  BY <1>1, <1>2, <1>3, <1>4, <1>5, <1>6, <1>7, <1>8
     DEF Ops, DataOps, FileOps, DirOps, OtherOps, Local_ops

\* Most operations are one system call.
SystemOps == {"getattr", "readdir", "unlink", "mkdir", "rmdir", "rename", "link", "readlink",
              "symlink", "chmod"}

\* For the calls that the server hands to Linux with the path of the message, the server does
\* what Linux does, with the mode that its umask leaves.
LEMMA SystemCalls ==
    ASSUME NEW f \in Directory, NEW use, NEW i \in Nodes \cup {0}, NEW q \in Request, Named(q),
           q.op \in SystemOps, NEW msg, NEW may,
           msg.opcode = q.op, msg.path = q.name,
           q.op \in {"rename", "link", "symlink"} => msg.data = q.to,
           q.op \in {"mkdir", "chmod"} => msg.header.mode = q.mode,
           q.op = "mkdir" /\ Server!call(f, use, msg, may).status = "OK" => Masked(q.mode) = q.mode
    PROVE  \E r \in Outcomes(f, use, i, q) : Tells(Server!call(f, use, msg, may), r)
<1> DEFINE a == Server!call(f, use, msg, may)
           n == q.name
<1>1. ASSUME NEW r, Outcomes(f, use, i, q) = {r},
             \/ a = Server!Answer(r, "ENTRY_NOT_FOUND")
             \/ a = Server!Answer(r, "CANNOT_ACCESS")
             \/ a = Server!Answer(r, "NOT_PERMITTED")
      PROVE  \E r2 \in Outcomes(f, use, i, q) : Tells(a, r2)
  <2>1. Outcome_ok(f, use, q, r)
    <3>1. r \in Outcomes(f, use, i, q) /\ q.op \notin FileOps
      BY <1>1 DEF SystemOps, FileOps
    <3> QED
      BY <3>1, CallKeeps
  <2>2. Tells(a, r)
    BY <1>1, <2>1, AnswerTells DEF Outcome_ok
  <2> QED
    BY <1>1, <2>2
<1>2. CASE q.op = "getattr"
  <2>1. Outcomes(f, use, i, q) = {lstat(f, n)} /\ a = Server!Answer(lstat(f, n), "ENTRY_NOT_FOUND")
    BY <1>2, ServerCalls DEF Outcomes, Server!call, Server!php_getattr
  <2> QED
    BY <1>1, <2>1, Zenon
<1>3. CASE q.op = "readdir"
  <2>1. Outcomes(f, use, i, q) = {names(f)} /\ a = Server!Answer(names(f), "CANNOT_ACCESS")
    BY <1>3, ServerCalls DEF Outcomes, Server!call, Server!php_readdir, Server!Accessed
  <2> QED
    BY <1>1, <2>1, Zenon
<1>4. CASE q.op = "unlink"
  <2>1. Outcomes(f, use, i, q) = {unlink(f, n)} /\ a = Server!Answer(unlink(f, n), "CANNOT_ACCESS")
    BY <1>4, ServerCalls DEF Outcomes, Server!call, Server!php_unlink, Server!Accessed
  <2> QED
    BY <1>1, <2>1, Zenon
<1>5. CASE q.op = "mkdir"
  <2> DEFINE r == mkdir(f, use, n, Masked(q.mode))
  <2>1. Outcomes(f, use, i, q) = {mkdir(f, use, n, q.mode)} /\ a = Server!Answer(r, "CANNOT_ACCESS")
    BY <1>5, ServerCalls DEF Outcomes, Server!call, Server!php_mkdir, Server!Accessed
  <2>2. r.ok => a.status = "OK"
    <3> HIDE DEF r
    <3> QED
      BY <2>1 DEF Server!Answer
  <2>3. r = mkdir(f, use, n, q.mode)
    BY <1>5, <2>2, Unmasked
  <2> QED
    BY <1>1, <2>1, <2>3, Zenon
<1>6. CASE q.op = "rmdir"
  <2>1. Outcomes(f, use, i, q) = {rmdir(f, n)} /\ a = Server!Answer(rmdir(f, n), "CANNOT_ACCESS")
    BY <1>6, ServerCalls DEF Outcomes, Server!call, Server!php_rmdir, Server!Accessed
  <2> QED
    BY <1>1, <2>1, Zenon
<1>7. CASE q.op = "rename"
  <2>1. Outcomes(f, use, i, q) = {rename(f, n, q.to)}
        /\ a = Server!Answer(rename(f, n, q.to), "CANNOT_ACCESS")
    BY <1>7, ServerCalls DEF Outcomes, Server!call, Server!php_rename, Server!Accessed
  <2> QED
    BY <1>1, <2>1, Zenon
<1>8. CASE q.op = "link"
  <2>1. Outcomes(f, use, i, q) = {link(f, n, q.to)}
        /\ a = Server!Answer(link(f, n, q.to), "CANNOT_ACCESS")
    BY <1>8, ServerCalls DEF Outcomes, Server!call, Server!php_link, Server!Accessed
  <2> QED
    BY <1>1, <2>1, Zenon
<1>9. CASE q.op = "readlink"
  <2>1. Outcomes(f, use, i, q) = {readlink(f, n)} /\ a = Server!Answer(readlink(f, n), "CANNOT_ACCESS")
    BY <1>9, ServerCalls DEF Outcomes, Server!call, Server!php_readlink, Server!Accessed
  <2> QED
    BY <1>1, <2>1, Zenon
<1>10. CASE q.op = "symlink"
  <2>1. Outcomes(f, use, i, q) = {symlink(f, use, n, q.to)}
        /\ a = Server!Answer(symlink(f, use, n, q.to), "CANNOT_ACCESS")
    BY <1>10, ServerCalls DEF Outcomes, Server!call, Server!php_symlink, Server!Accessed
  <2> QED
    BY <1>1, <2>1, Zenon
<1>11. CASE q.op = "chmod"
  <2>1. Outcomes(f, use, i, q) = {chmod(f, n, q.mode)}
        /\ a = Server!Answer(chmod(f, n, q.mode), "NOT_PERMITTED")
    BY <1>11, ServerCalls DEF Outcomes, Server!call, Server!php_chmod
  <2> QED
    BY <1>1, <2>1, Zenon
<1> QED
  BY <1>2, <1>3, <1>4, <1>5, <1>6, <1>7, <1>8, <1>9, <1>10, <1>11 DEF SystemOps

\* The name of an open file leads to it.
LEMMA OpenFile ==
    ASSUME NEW f \in Directory, NEW n \in Names, NEW i \in Nodes, f.dir[n] = i,
           f.node[i].kind = "file"
    PROVE  /\ Leads(f, n, {"file"}) /\ NodeOf(f, n) = i /\ lstat(f, n) = stat(f, i)
           /\ open(f, n) = Done(f, <<>>)
           /\ \A use, mode : open_create(f, use, n, mode) = Done(f, <<>>)
<1>1. i # 0
  BY KernelAssumption DEF Nodes
<1>2. Kind(f, n) = "file"
  BY <1>1 DEF Kind
<1>3. Target(f, n) = n
  BY <1>2 DEF Target
<1>4. Leads(f, n, {"file"}) /\ NodeOf(f, n) = i
  BY <1>2, <1>3 DEF Leads, NodeOf
<1> QED
  BY <1>1, <1>4 DEF lstat, open, open_create, If

\* The operations on an open file, which the server finds by its name.
LEMMA FileCalls ==
    ASSUME NEW f \in Directory, NEW use, NEW i \in Nodes, f.node[i].kind = "file",
           NEW q \in Request, Named(q), f.dir[q.name] = i,
           q.op \in {"read", "ftruncate", "fgetattr"}, NEW msg, NEW may,
           msg.opcode = Opcode(q), msg.path = q.name,
           q.op = "ftruncate" => msg.header.offset = q.off,
           q.op = "read" => msg.header.offset = q.off /\ msg.header.size = q.len
    PROVE  \E r \in Outcomes(f, use, i, q) : Tells(Server!call(f, use, msg, may), r)
<1> DEFINE n == q.name
<1>1. n \in Names
  BY DEF Named, DirOps
<1>2. /\ NodeOf(f, n) = i /\ lstat(f, n) = stat(f, i)
      /\ open(f, n) = Done(f, <<>>) /\ Done(f, <<>>).ok = TRUE
  BY <1>1, OpenFile DEF Done
<1>3. \A r \in Outcomes(f, use, i, q) : Outcome_ok(f, use, q, r)
  BY CallKeeps, KernelAssumption DEF Nodes
<1>4. \A r \in Outcomes(f, use, i, q) :
        /\ Tells(Server!Answer(r, "ENTRY_NOT_FOUND"), r)
        /\ Tells(Server!Answer(r, "CANNOT_ACCESS"), r)
  BY <1>3, AnswerTells DEF Outcome_ok
<1>5. CASE q.op = "fgetattr"
  <2>1. msg.opcode = "getattr"
    BY <1>5 DEF Opcode
  <2>2. Outcomes(f, use, i, q) = {stat(f, i)}
        /\ Server!call(f, use, msg, may) = Server!Answer(stat(f, i), "ENTRY_NOT_FOUND")
    BY <1>2, <1>5, <2>1, ServerCalls DEF Outcomes, Server!call, Server!php_getattr
  <2> QED
    BY <1>4, <2>2, Zenon
<1>6. CASE q.op = "ftruncate"
  <2>1. msg.opcode = "truncate"
    BY <1>6 DEF Opcode
  <2>2. Outcomes(f, use, i, q) = {ftruncate(f, i, q.off)}
    BY <1>6 DEF Outcomes
  <2>3. Server!call(f, use, msg, may)
        = Server!Opened(open(f, n), ftruncate(f, i, q.off))
    BY <1>2, <1>6, <2>1, ServerCalls DEF Server!call, Server!php_truncate
  <2>4. Server!call(f, use, msg, may) = Server!Answer(ftruncate(f, i, q.off), "CANNOT_ACCESS")
    BY <1>2, <2>3 DEF Server!Opened, Server!Accessed
  <2> QED
    BY <1>4, <2>2, <2>4, Zenon
<1>7. CASE q.op = "read"
  <2>1. msg.opcode = "read"
    BY <1>7 DEF Opcode
  <2>2. Outcomes(f, use, i, q) = {pread(f, i, q.off, q.len)}
    BY <1>7 DEF Outcomes
  <2>3. Server!call(f, use, msg, may)
        = Server!Opened(open(f, n), pread(f, i, q.off, q.len))
    BY <1>2, <1>7, <2>1, ServerCalls DEF Server!call, Server!php_read
  <2>4. Server!call(f, use, msg, may) = Server!Answer(pread(f, i, q.off, q.len), "CANNOT_ACCESS")
    BY <1>2, <2>3 DEF Server!Opened, Server!Accessed
  <2> QED
    BY <1>4, <2>2, <2>4, Zenon
<1> QED
  BY <1>5, <1>6, <1>7

\* A write at the end of the file.
LEMMA WriteCalls ==
    ASSUME NEW f \in Directory, NEW use, NEW i \in Nodes, f.node[i].kind = "file",
           NEW n \in Names, f.dir[n] = i, NEW off, off = Size(f, n), NEW msg, NEW may,
           msg.opcode = "write", msg.path = n, msg.data \in Seq(Cell)
    PROVE  Tells(Server!call(f, use, msg, may), pwrite(f, i, off, msg.data))
<1> DEFINE r == pwrite(f, i, off, msg.data)
<1>1. /\ NodeOf(f, n) = i /\ open_create(f, use, n, Masked(Perms)) = Done(f, <<>>)
      /\ Done(f, <<>>).ok = TRUE /\ Done(f, <<>>).fs = f
  BY OpenFile DEF Done
<1>2. off = Len(f.node[i].data) /\ off \in Nat
  <2>1. f.node[i].data \in Seq(Cell)
    BY DEF Directory, Node
  <2> QED
    BY <2>1 DEF Size
<1>3. Server!call(f, use, msg, may) = Server!php_write(f, use, msg)
  BY DEF Server!call
<1>4. Server!php_write(f, use, msg)
      = Server!Opened(Done(f, <<>>), pwrite(f, i, Len(f.node[i].data), msg.data))
  <2> DEFINE g == Server!open_create(f, use, msg.path, Server!Masked(Server!Perms))
             d == Done(f, <<>>)
  <2>1. g = d
    BY <1>1, ServerCalls
  <2>2. Server!php_write(f, use, msg)
        = Server!Opened(g, Server!pwrite(g.fs, Server!NodeOf(g.fs, n),
                             Len(g.fs.node[Server!NodeOf(g.fs, n)].data), msg.data))
    BY DEF Server!php_write
  <2> HIDE DEF g
  <2>3. g.fs = f /\ Server!NodeOf(f, n) = i
    BY <1>1, <2>1, ServerCalls
  <2>4. Server!pwrite(f, i, Len(f.node[i].data), msg.data)
        = pwrite(f, i, Len(f.node[i].data), msg.data)
    BY ServerCalls
  <2> QED
    BY <2>1, <2>2, <2>3, <2>4
<1>5. Server!call(f, use, msg, may) = Server!Answer(r, "CANNOT_ACCESS")
  BY <1>1, <1>2, <1>3, <1>4 DEF Server!Opened, Server!Accessed
<1>6. r.ok = TRUE
  BY <1>2, WriteKeeps
<1> HIDE DEF r
<1>8. r.ok \in BOOLEAN /\ (~ r.ok => r.out = <<>>)
  BY <1>6
<1>7. Tells(Server!Answer(r, "CANNOT_ACCESS"), r)
  BY <1>8, AnswerTells
<1> QED
  BY <1>5, <1>7 DEF r

\* It does so for truncate, in the two calls open and ftruncate.
LEMMA TruncateCalls ==
    ASSUME NEW f \in Directory, NEW use, NEW i \in Nodes \cup {0}, NEW q \in Request, Named(q),
           q.op = "truncate", NEW msg, NEW may, msg.opcode = "truncate", msg.path = q.name,
           msg.header.offset = q.off
    PROVE  \E r \in Outcomes(f, use, i, q) : Tells(Server!call(f, use, msg, may), r)
<1> DEFINE n == q.name
           r == truncate(f, n, q.off)
           g == open(f, n)
<1>1. Outcomes(f, use, i, q) = {r}
  BY DEF Outcomes
<1>2. Outcome_ok(f, use, q, r)
  <2>1. r \in Outcomes(f, use, i, q) /\ q.op \notin FileOps
    BY <1>1 DEF FileOps
  <2> QED
    BY <2>1, CallKeeps
<1>3. Server!call(f, use, msg, may) = Server!Opened(g, ftruncate(f, NodeOf(f, n), q.off))
  BY ServerCalls DEF Server!call, Server!php_truncate
<1>4. (IF g.ok THEN ftruncate(f, NodeOf(f, n), q.off) ELSE g) = r
  <2>1. CASE Leads(f, n, {"file"})
    <3>1. g = Done(f, <<>>) /\ Done(f, <<>>).ok = TRUE
          /\ r = ftruncate(f, NodeOf(f, n), q.off)
      BY <2>1 DEF open, truncate, If, Done
    <3> QED
      BY <3>1
  <2>2. CASE ~ Leads(f, n, {"file"})
    <3>1. g = Refused(f) /\ Refused(f).ok = FALSE /\ r = Refused(f)
      BY <2>2 DEF open, truncate, If, Refused
    <3> QED
      BY <3>1
  <2> QED
    BY <2>1, <2>2
<1> HIDE DEF r, g
<1>5. Server!call(f, use, msg, may) = Server!Answer(r, "CANNOT_ACCESS")
  BY <1>3, <1>4 DEF Server!Opened, Server!Accessed
<1>6. Tells(Server!Answer(r, "CANNOT_ACCESS"), r)
  BY <1>2, AnswerTells DEF Outcome_ok
<1> QED
  BY <1>1, <1>5, <1>6, Zenon

\* A file is created unless the name is of one, which is emptied, or of a link: with the mode
\* that the umask of the server leaves of all permissions.
LEMMA CreateCalls ==
    ASSUME NEW f \in Directory, NEW use, NEW i \in Nodes \cup {0}, NEW q \in Request, Named(q),
           q.op = "create", NEW msg, NEW may, msg.opcode = "create", msg.path = q.name,
           Kind(f, q.name) \notin {"file", "link"},
           Server!call(f, use, msg, may).status = "OK" => q.mode = Masked(Perms)
    PROVE  \E r \in Outcomes(f, use, i, q) : Tells(Server!call(f, use, msg, may), r)
<1> DEFINE n == q.name
           r == open_excl(f, use, n, q.mode)
           r0 == open_excl(f, use, n, Masked(Perms))
<1>1. n \in Names
  BY DEF Named, DirOps
<1>2. Outcomes(f, use, i, q) = {r}
  BY DEF Outcomes
<1>3. Outcome_ok(f, use, q, r)
  <2>1. r \in Outcomes(f, use, i, q) /\ q.op \notin FileOps
    BY <1>2 DEF FileOps
  <2> QED
    BY <2>1, CallKeeps
<1>4. Target(f, n) = n
  BY DEF Target
<1>5. ~ Leads(f, n, {"file"}) /\ (Leads(f, n, {"none"}) <=> Kind(f, n) = "none")
  BY <1>1, <1>4 DEF Leads
<1>6. open_trunc(f, use, n, Masked(Perms)) = r0
  BY <1>4, <1>5 DEF open_trunc, open_excl, If
<1>9. Server!call(f, use, msg, may) = Server!Answer(r0, "CANNOT_ACCESS")
  BY <1>6, ServerCalls DEF Server!call, Server!php_create, Server!Accessed
<1>10. r0.ok => q.mode = Masked(Perms)
  <2> HIDE DEF r0
  <2> QED
    BY <1>9 DEF Server!Answer
<1>11. r0 = r
  BY <1>10, Unmasked
<1> HIDE DEF r, r0
<1>7. Server!call(f, use, msg, may) = Server!Answer(r, "CANNOT_ACCESS")
  BY <1>9, <1>11
<1>8. Tells(Server!Answer(r, "CANNOT_ACCESS"), r)
  BY <1>3, AnswerTells DEF Outcome_ok
<1> QED
  BY <1>2, <1>7, <1>8, Zenon

\* Names lead where they did when an inode keeps its kind and its data.
LEMMA SameLead ==
    ASSUME NEW f \in Directory, NEW k \in Nodes, NEW nd, NEW n \in Names,
           nd.kind = f.node[k].kind, nd.data = f.node[k].data
    PROVE  /\ \A kinds : Leads(Put(f, k, nd), n, kinds) <=> Leads(f, n, kinds)
           /\ NodeOf(Put(f, k, nd), n) = NodeOf(f, n)
<1> DEFINE f2 == Put(f, k, nd)
<1>2. f2.dir = f.dir /\ f2.node = [f.node EXCEPT ![k] = nd]
  BY DEF Put
<1> HIDE DEF f2
<1>3. f.dir \in [Names -> Nodes \cup {0}] /\ f.node \in [Nodes -> Node]
  BY DEF Directory
<1>4. \A j \in Nodes : f2.node[j].kind = f.node[j].kind /\ f2.node[j].data = f.node[j].data
  BY <1>2, <1>3
<1>5. \A n2 \in Names : Kind(f2, n2) = Kind(f, n2)
  BY <1>2, <1>3, <1>4 DEF Kind
<1>6. Target(f2, n) = Target(f, n)
  <2>1. CASE Kind(f, n) = "link"
    <3>1. f.dir[n] \in Nodes
      BY <1>3, <2>1 DEF Kind
    <3> QED
      BY <1>2, <1>4, <1>5, <3>1 DEF Target
  <2>2. CASE Kind(f, n) # "link"
    BY <1>5, <2>2 DEF Target
  <2> QED
    BY <2>1, <2>2
<1>7. \A kinds : Leads(f2, n, kinds) <=> Leads(f, n, kinds)
  BY <1>5, <1>6 DEF Leads
<1>8. NodeOf(f2, n) = NodeOf(f, n)
  BY <1>2, <1>6 DEF NodeOf
<1> QED
  BY <1>7, <1>8 DEF f2

\* The owner and the group of an entry.
Owner_of(f, n) == Leads(f, n, {"file", "dir", "fifo"})

\* chown fails for who may not change the owner, and when the name leads nowhere.
LEMMA ChownRefused ==
    ASSUME NEW f, NEW n, NEW o, NEW g, NEW may, ~ (Owner_of(f, n) /\ may)
    PROVE  chown(f, n, o, g, may) = Refused(f)
BY DEF chown, If, Owner_of

Chowned(f, i, o, g) == LET nd == f.node[i] IN
    Done(Put(f, i, Owned(nd, IF o = Keep THEN nd.owner ELSE o, IF g = Keep THEN nd.group ELSE g)),
         <<>>)

\* Otherwise it changes the owner and the group that the call names, and keeps the other.
LEMMA ChownDone ==
    ASSUME NEW f \in Directory, NEW n \in Names, NEW o, NEW g, NEW may, may = TRUE,
           Owner_of(f, n)
    PROVE  chown(f, n, o, g, may) = Chowned(f, NodeOf(f, n), o, g)
<1> DEFINE k == NodeOf(f, n)
           nd == f.node[k]
           o2 == IF o = Keep THEN nd.owner ELSE o
           g2 == IF g = Keep THEN nd.group ELSE g
<1>1. chown(f, n, o, g, may) =
        Done([f EXCEPT !.node[k].owner = o2, !.node[k].group = g2], <<>>)
  BY DEF chown, If, Owner_of
<1>2. k \in Nodes
  BY LeadsTo DEF Owner_of
<1>4. Chowned(f, k, o, g) = Done(Put(f, k, Owned(nd, o2, g2)), <<>>)
  BY DEF Chowned
<1> HIDE DEF o2, g2
<1>3. Reowned(f, k, o2, g2) = Put(f, k, Owned(nd, o2, g2))
  BY <1>2, OwnedIs
<1> QED
  BY <1>1, <1>3, <1>4 DEF Reowned

\* The owner and then the group is as good as both at once.
LEMMA ChownTwice ==
    ASSUME NEW f \in Directory, NEW n \in Names, NEW o \in Int, NEW g \in Int, o # Keep, g # Keep,
           NEW may \in BOOLEAN
    PROVE  chown(chown(f, n, o, Keep, may).fs, n, Keep, g, may) = chown(f, n, o, g, may)
<1> DEFINE u == chown(f, n, o, Keep, may)
           j == NodeOf(f, n)
           x == f.node[j]
           leads == Owner_of(f, n)
<1>1. CASE ~ leads \/ ~ may
  <2>1. u = Refused(f) /\ chown(f, n, o, g, may) = Refused(f)
        /\ chown(f, n, Keep, g, may) = Refused(f)
    BY <1>1, ChownRefused
  <2>2. u.fs = f
    BY <2>1 DEF Refused
  <2> QED
    BY <2>1, <2>2
<1>2. CASE leads /\ may
  <2>1. j \in Nodes /\ NodeOf(f, n) = j
    BY <1>2, LeadsTo DEF Owner_of
  <2>0. may = TRUE /\ Owner_of(f, n)
    BY <1>2
  <2> HIDE DEF j
  <2>2. x \in Node /\ x.group \in Int /\ f.node[j] = x
    BY <2>1 DEF Directory, Node
  <2> HIDE DEF x
  <2> DEFINE nd2 == Owned(x, o, x.group)
             f2 == Put(f, j, nd2)
  <2>3. u = Done(f2, <<>>)
    <3>1. u = Chowned(f, j, o, Keep)
      BY <2>0, <2>1, ChownDone
    <3> QED
      BY <2>2, <3>1 DEF Chowned
  <2>4. nd2 \in Node /\ nd2.kind = x.kind /\ nd2.data = x.data /\ nd2.owner = o
        /\ \A y, z : Owned(nd2, y, z) = Owned(x, y, z)
    BY <2>2 DEF Owned, Node
  <2>5. Owner_of(f2, n) /\ NodeOf(f2, n) = NodeOf(f, n)
    <3> HIDE DEF nd2
    <3> QED
      BY <2>0, <2>1, <2>2, <2>4, SameLead DEF Owner_of
  <2>6. f2 \in Directory
    <3> HIDE DEF nd2
    <3> QED
      BY <2>1, <2>2, <2>4, PutKeeps DEF Kept
  <2> HIDE DEF nd2
  <2>7. f2.node[j] = nd2 /\ f2.dir = f.dir /\ f2.node = [f.node EXCEPT ![j] = nd2]
    BY <2>1 DEF Put, Directory
  <2>8. u.fs = f2
    BY <2>3 DEF Done
  <2> HIDE DEF f2
  <2>9. Owner_of(f2, n) /\ NodeOf(f2, n) = j
    BY <2>1, <2>5
  <2>10. chown(f2, n, Keep, g, may) = Done(Put(f2, j, Owned(nd2, nd2.owner, g)), <<>>)
    <3>1. chown(f2, n, Keep, g, may) = Chowned(f2, j, Keep, g)
      BY <2>0, <2>6, <2>9, ChownDone
    <3> QED
      BY <2>7, <3>1 DEF Chowned
  <2>11. Put(f2, j, Owned(x, o, g)) = Put(f, j, Owned(x, o, g))
    <3>1. [f2.node EXCEPT ![j] = Owned(x, o, g)] = [f.node EXCEPT ![j] = Owned(x, o, g)]
      BY <2>1, <2>7 DEF Directory
    <3> QED
      BY <2>7, <3>1 DEF Put
  <2>12. chown(f, n, o, g, may) = Done(Put(f, j, Owned(x, o, g)), <<>>)
    <3>1. chown(f, n, o, g, may) = Chowned(f, j, o, g)
      BY <2>0, <2>1, ChownDone
    <3> QED
      BY <2>2, <3>1 DEF Chowned
  <2> QED
    BY <2>4, <2>8, <2>10, <2>11, <2>12
<1> QED
  BY <1>1, <1>2

\* The two chown of the server, one for the user and one for the group, amount to the one that
\* the program asked for.
LEMMA ChownCalls ==
    ASSUME NEW f \in Directory, NEW use, NEW i \in Nodes \cup {0}, NEW q \in Request, Named(q),
           q.op = "chown", NEW msg, NEW may \in [user : BOOLEAN, group : BOOLEAN],
           msg.opcode = "chown", msg.path = q.name,
           msg.header.uid = q.owner, msg.header.gid = q.group,
           q.owner # Keep /\ q.group # Keep => may.user = may.group
    PROVE  \E r \in Outcomes(f, use, i, q) : Tells(Server!call(f, use, msg, may), r)
<1> DEFINE n == q.name
           a == Server!call(f, use, msg, may)
           Is(r) == a = Server!Answer(r, "NOT_PERMITTED")
           nothing == Done(f, <<>>)
           u == IF q.owner = Keep THEN nothing ELSE chown(f, n, q.owner, Keep, may.user)
           g == chown(u.fs, n, Keep, q.group, may.group)
<1>1. n \in Names /\ q.owner \in Int /\ q.group \in Int
      /\ may.user \in BOOLEAN /\ may.group \in BOOLEAN
  BY DEF Named, DirOps, Request
<1>2. \A p \in BOOLEAN : chown(f, n, q.owner, q.group, p) \in Outcomes(f, use, i, q)
  BY DEF Outcomes
<1>3. ASSUME NEW p \in BOOLEAN, Is(chown(f, n, q.owner, q.group, p))
      PROVE  \E r \in Outcomes(f, use, i, q) : Tells(a, r)
  <2> DEFINE r == chown(f, n, q.owner, q.group, p)
  <2>1. r \in Outcomes(f, use, i, q) /\ q.op \notin FileOps
    BY <1>2 DEF FileOps
  <2>2. Outcome_ok(f, use, q, r)
    BY <2>1, CallKeeps
  <2> HIDE DEF r
  <2>3. Tells(Server!Answer(r, "NOT_PERMITTED"), r)
    BY <2>2, AnswerTells DEF Outcome_ok
  <2> QED
    BY <1>3, <2>1, <2>3, Zenon DEF r
<1> SUFFICES \E r \in Outcomes(f, use, i, q) : Tells(a, r)
  OBVIOUS
<1>4. nothing.fs = f
  BY DEF Done
<1>5. a = Server!php_chown(f, msg, may)
  BY DEF Server!call
<1> HIDE DEF nothing, a
<1>6. /\ \A y, o, x, p : Server!chown(y, n, o, x, p) = chown(y, n, o, x, p)
      /\ Server!Keep = Keep /\ Server!Done(f, <<>>) = nothing /\ Server!Refused(f) = Refused(f)
  BY ServerCalls DEF nothing
<1> DEFINE u2 == IF q.owner = Server!Keep THEN Server!Done(f, <<>>)
                 ELSE Server!chown(f, n, q.owner, Server!Keep, may.user)
           g2 == Server!chown(u2.fs, n, Server!Keep, q.group, may.group)
<1>11. a = Server!Answer(CASE q.group # Server!Keep -> g2
                           [] q.group = Server!Keep /\ q.owner # Server!Keep -> u2
                           [] OTHER -> Server!Refused(f), "NOT_PERMITTED")
  BY <1>5 DEF Server!php_chown
<1>12. u2 = u
  BY <1>6
<1>13. g2 = g
  BY <1>6, <1>12
<1> HIDE DEF u2, g2, u, g
<1>7. CASE q.group # Keep /\ q.owner # Keep
  <2>1. Is(g)
    BY <1>6, <1>7, <1>11, <1>13
  <2>2. g = chown(f, n, q.owner, q.group, may.user)
    BY <1>1, <1>7, ChownTwice DEF g, u
  <2> QED
    BY <1>1, <1>3, <2>1, <2>2
<1>8. CASE q.group # Keep /\ q.owner = Keep
  <2>1. Is(g)
    BY <1>6, <1>8, <1>11, <1>13
  <2>2. g = chown(f, n, q.owner, q.group, may.group)
    BY <1>4, <1>8 DEF g, u
  <2> QED
    BY <1>1, <1>3, <2>1, <2>2
<1>9. CASE q.group = Keep /\ q.owner # Keep
  <2>1. Is(u)
    BY <1>6, <1>9, <1>11, <1>12
  <2>2. u = chown(f, n, q.owner, q.group, may.user)
    BY <1>9 DEF u
  <2> QED
    BY <1>1, <1>3, <2>1, <2>2
<1>10. CASE q.group = Keep /\ q.owner = Keep
  <2>1. Is(Refused(f))
    BY <1>6, <1>10, <1>11
  <2>2. Refused(f) = chown(f, n, q.owner, q.group, FALSE)
    BY ChownRefused
  <2> QED
    BY <1>3, <2>1, <2>2
<1> QED
  BY <1>7, <1>8, <1>9, <1>10

\* What is made has the mode that it was asked for.
Answered_mode(q, ok) ==
    /\ q.op = "create" /\ ok => q.mode = Masked(Perms)
    /\ q.op = "mkdir" /\ ok => Masked(q.mode) = q.mode

\* Whatever is asked of the server but a write, it answers as Linux would have.
LEMMA ServerAnswers ==
    ASSUME NEW f \in Directory, NEW use, NEW i \in Nodes \cup {0}, NEW q \in Request, Named(q),
           q.op \notin Local_ops, q.op # "write",
           NEW chroot, NEW loaded, NEW encrypts, NEW msg \in Messages(q, chroot, loaded, encrypts),
           NEW may \in Permissions(q),
           q.op \in FileOps => i # 0 /\ f.node[i].kind = "file" /\ f.dir[q.name] = i,
           q.op = "create" => Kind(f, q.name) \notin {"file", "link"},
           Answered_mode(q, Server!call(f, use, msg, may).status = "OK"),
           q.op = "symlink" => ~ chroot,
           q.op = "chown" /\ q.owner # Keep /\ q.group # Keep => may.user = may.group
    PROVE  \E r \in Outcomes(f, use, i, q) : Tells(Server!call(f, use, msg, may), r)
<1>1. /\ q.op \in Ops \ Local_ops
      /\ msg.opcode = Opcode(q)
      /\ msg.path = q.name
      /\ q.op \in {"rename", "link", "symlink"} => msg.data = q.to
      /\ q.op \in {"truncate", "ftruncate"} => msg.header.offset = q.off
      /\ q.op = "read" => msg.header.offset = q.off /\ msg.header.size = q.len
      /\ q.op \in {"mkdir", "chmod"} => msg.header.mode = q.mode
      /\ q.op = "chown" => msg.header.uid = q.owner /\ msg.header.gid = q.group
  <2>1. q.op \in Ops
    BY DEF Request
  <2>2. ~ (q.op = "symlink" /\ chroot)
    OBVIOUS
  <2>3. msg.opcode = Opcode(q) /\ (~ (q.op = "symlink" /\ chroot) => msg.path = q.name)
    BY <2>1, MessageIs
  <2>4. /\ q.op \in {"rename", "link", "symlink"} => msg.data = q.to
        /\ q.op \in {"truncate", "ftruncate"} => msg.header.offset = q.off
        /\ q.op = "read" => msg.header.offset = q.off /\ msg.header.size = q.len
    BY <2>1, MessageIs
  <2>5. /\ q.op \in {"mkdir", "chmod"} => msg.header.mode = q.mode
        /\ q.op = "chown" => msg.header.uid = q.owner /\ msg.header.gid = q.group
    BY <2>1, MessageIs
  <2> QED
    BY <2>1, <2>2, <2>3, <2>4, <2>5
<1>2. q.op \notin {"fgetattr", "ftruncate"} => msg.opcode = q.op
  BY <1>1 DEF Opcode
<1>3. CASE q.op \in SystemOps
  <2>1. msg.opcode = q.op
    BY <1>2, <1>3 DEF SystemOps
  <2> QED
    BY <1>1, <1>3, <2>1, SystemCalls DEF Answered_mode
<1>4. CASE q.op \in {"read", "ftruncate", "fgetattr"}
  BY <1>1, <1>4, FileCalls DEF FileOps
<1>5. CASE q.op = "truncate"
  BY <1>1, <1>2, <1>5, TruncateCalls
<1>6. CASE q.op = "create"
  BY <1>1, <1>2, <1>6, CreateCalls DEF Answered_mode
<1>7. CASE q.op = "chown"
  BY <1>1, <1>2, <1>7, ChownCalls DEF Permissions
<1> QED
  BY <1>1, <1>3, <1>4, <1>5, <1>6, <1>7
     DEF Ops, DataOps, FileOps, DirOps, OtherOps, Local_ops, SystemOps
-----------------------------------------------------------------------------
\* What a mount keeps of an open file after a call.
Mount == [file : Nodes \cup {0}, name : Paths, dir : {"closed", "start", "end"}, opened : Int]
Keeps(k, k2, f, q, ok) ==
    /\ k2 \in Mount
    /\ k2.file = (IF q.op = "open" /\ ok THEN NodeOf(f, q.name)
                  ELSE IF q.op = "release" THEN 0 ELSE k.file)
    /\ k2.name = (IF q.op = "open" /\ ok THEN q.name ELSE k.name)

Opening(k, i, n) == [k EXCEPT !.file = i, !.name = n]

\* What a mount remembers when it opens a file.
LEMMA OpeningIs ==
    ASSUME NEW k \in Mount, NEW i \in Nodes \cup {0}, NEW n \in Paths
    PROVE  Opening(k, i, n) \in Mount /\ Opening(k, i, n).file = i /\ Opening(k, i, n).name = n
<1> DEFINE half == [k EXCEPT !.file = i]
<1>1. k = [file |-> k.file, name |-> k.name, dir |-> k.dir, opened |-> k.opened]
      /\ k.dir \in {"closed", "start", "end"} /\ k.opened \in Int
  BY DEF Mount
<1>2. half = [file |-> i, name |-> k.name, dir |-> k.dir, opened |-> k.opened]
  BY <1>1
<1>3. Opening(k, i, n) = [half EXCEPT !.name = n]
  BY DEF Opening
<1> HIDE DEF half
<1>4. Opening(k, i, n) = [file |-> i, name |-> n, dir |-> k.dir, opened |-> k.opened]
  BY <1>2, <1>3
<1> QED
  BY <1>1, <1>4 DEF Mount

\* The other changes of what a mount remembers.
LEMMA MountChanges ==
    ASSUME NEW k \in Mount
    PROVE  /\ [k EXCEPT !.file = 0] \in Mount /\ [k EXCEPT !.file = 0].file = 0
           /\ [k EXCEPT !.file = 0].name = k.name
           /\ \A d \in {"closed", "start", "end"} :
                /\ [k EXCEPT !.dir = d] \in Mount /\ [k EXCEPT !.dir = d].file = k.file
                /\ [k EXCEPT !.dir = d].name = k.name
           /\ \A o \in Int :
                /\ [k EXCEPT !.opened = o] \in Mount /\ [k EXCEPT !.opened = o].file = k.file
                /\ [k EXCEPT !.opened = o].name = k.name
                /\ [k EXCEPT !.opened = o].dir = k.dir
<1>1. k = [file |-> k.file, name |-> k.name, dir |-> k.dir, opened |-> k.opened]
      /\ k.file \in Nodes \cup {0} /\ k.name \in Paths /\ k.dir \in {"closed", "start", "end"}
      /\ k.opened \in Int
  BY DEF Mount
<1>3. [k EXCEPT !.file = 0]
      = [file |-> 0, name |-> k.name, dir |-> k.dir, opened |-> k.opened]
  BY <1>1
<1>4. \A d : [k EXCEPT !.dir = d]
             = [file |-> k.file, name |-> k.name, dir |-> d, opened |-> k.opened]
  BY <1>1
<1>5. \A o : [k EXCEPT !.opened = o]
             = [file |-> k.file, name |-> k.name, dir |-> k.dir, opened |-> o]
  BY <1>1
<1> QED
  BY <1>1, <1>3, <1>4, <1>5 DEF Mount

\* The handlers of dnfs, up to a second reading of a DIR and to what their umask changes.
LEMMA DnfsCalls ==
    ASSUME NEW f \in Directory, NEW use, NEW k \in Mount, NEW q \in Request, Named(q),
           q.op = "readdir" => k.dir = "start", NEW r \in dnfs_oper(f, use, k, q),
           ~ Masks(q, r.ok)
    PROVE  \E r2 \in Outcomes(f, use, k.file, q) :
             /\ r.ok = r2.ok /\ r.fs = r2.fs /\ r.out = r2.out
             /\ Keeps(k, r.m, f, q, r2.ok)
<1> DEFINE n == q.name
           Same(r2) == r.ok = r2.ok /\ r.fs = r2.fs /\ r.out = r2.out
<1>1. \A r2, k2 : r = With(r2, k2) => Same(r2) /\ r.m = k2
  BY DEF With
<1>2. CASE q.op = "open"
  <2> DEFINE fd == open(f, n)
             k2 == IF fd.ok THEN [k EXCEPT !.file = NodeOf(f, n), !.name = n] ELSE k
  <2>1. Outcomes(f, use, k.file, q) = {fd} /\ r = With(fd, k2)
    BY <1>2 DEF Outcomes, dnfs_oper, dnfs_open
  <2>2. n \in Names
    BY <1>2 DEF Named, DirOps
  <2>3. fd.ok => NodeOf(f, n) \in Nodes
    <3>1. CASE Leads(f, n, {"file"})
      BY <2>2, <3>1, LeadsTo
    <3>2. CASE ~ Leads(f, n, {"file"})
      BY <3>2 DEF open, If, Refused
    <3> QED
      BY <3>1, <3>2
  <2>4. Keeps(k, k2, f, q, fd.ok)
    <3>1. CASE fd.ok
      <4> DEFINE i == NodeOf(f, n)
                 k3 == Opening(k, i, n)
      <4>1. i \in Nodes \cup {0} /\ n \in Paths
        BY <2>2, <2>3, <3>1 DEF Paths
      <4> HIDE DEF i
      <4>2. k3 \in Mount /\ k3.file = i /\ k3.name = n
        BY <4>1, OpeningIs
      <4>3. k2 = k3
        BY <3>1 DEF i, Opening
      <4> HIDE DEF k2, k3, fd
      <4> QED
        BY <1>2, <3>1, <4>2, <4>3 DEF Keeps, i
    <3>2. CASE ~ fd.ok
      BY <1>2, <3>2 DEF Keeps
    <3> QED
      BY <3>1, <3>2
  <2> HIDE DEF fd, k2
  <2> QED
    BY <1>1, <2>1, <2>4
<1>3. CASE q.op = "release"
  <2> DEFINE r2 == Done(f, <<>>)
             k2 == [k EXCEPT !.file = 0]
  <2>1. Outcomes(f, use, k.file, q) = {r2} /\ r = With(r2, k2)
    BY <1>3 DEF Outcomes, dnfs_oper, dnfs_release
  <2>2. Keeps(k, k2, f, q, r2.ok)
    BY <1>3, MountChanges DEF Keeps
  <2> HIDE DEF r2, k2
  <2> QED
    BY <1>1, <2>1, <2>2
<1>4. CASE q.op \in {"opendir", "releasedir"}
  <2> DEFINE r2 == Done(f, <<>>)
             d == IF q.op = "opendir" THEN "start" ELSE "closed"
             k2 == [k EXCEPT !.dir = d]
  <2>1. Outcomes(f, use, k.file, q) = {r2} /\ r = With(r2, k2)
    BY <1>4 DEF Outcomes, dnfs_oper, dnfs_opendir, dnfs_releasedir
  <2>2. Keeps(k, k2, f, q, r2.ok)
    <3>1. d \in {"closed", "start", "end"}
      OBVIOUS
    <3> HIDE DEF d, r2
    <3>2. k2 \in Mount /\ k2.file = k.file /\ k2.name = k.name
      BY <3>1, MountChanges
    <3> HIDE DEF k2
    <3> QED
      BY <1>4, <3>2 DEF Keeps
  <2> HIDE DEF r2, k2
  <2> QED
    BY <1>1, <2>1, <2>2
<1>5. CASE q.op = "readdir"
  <2> DEFINE r2 == names(f)
             k2 == [k EXCEPT !.dir = "end"]
  <2>1. Outcomes(f, use, k.file, q) = {r2} /\ r = With(r2, k2)
    BY <1>5 DEF Outcomes, dnfs_oper, dnfs_readdir
  <2>2. Keeps(k, k2, f, q, r2.ok)
    BY <1>5, MountChanges DEF Keeps
  <2> HIDE DEF r2, k2
  <2> QED
    BY <1>1, <2>1, <2>2
<1>6. ASSUME NEW r2 \in Outcomes(f, use, k.file, q), r = With(r2, k),
             q.op \notin {"open", "release"}
      PROVE  Same(r2) /\ Keeps(k, r.m, f, q, r2.ok)
  BY <1>1, <1>6 DEF Keeps
<1>7. CASE q.op = "chown"
  <2>1. \E r2 \in Outcomes(f, use, k.file, q) : r = With(r2, k)
    BY <1>7 DEF Outcomes, dnfs_oper, dnfs_chown
  <2> QED
    BY <1>6, <1>7, <2>1
<1>8. CASE q.op \in {"getattr", "readlink", "unlink", "rmdir", "symlink"}
  <2>1. \E r2 \in Outcomes(f, use, k.file, q) : r = With(r2, k)
    BY <1>8 DEF Outcomes, dnfs_oper, dnfs_getattr, dnfs_readlink, dnfs_unlink, dnfs_rmdir,
         dnfs_symlink
  <2> QED
    BY <1>6, <1>8, <2>1
<1>11. ASSUME NEW r0, NEW r2, r = With(r0, k), Outcomes(f, use, k.file, q) = {r2},
              q.op \in {"create", "mkfifo", "mkdir"},
              (r0.ok => Masked(q.mode) = q.mode) => r0 = r2
       PROVE  \E r3 \in Outcomes(f, use, k.file, q) :
                Same(r3) /\ Keeps(k, r.m, f, q, r3.ok)
  <2>1. r.ok = r0.ok
    BY <1>1, <1>11
  <2>2. r0 = r2
    BY <1>11, <2>1 DEF Masks
  <2>3. Same(r2) /\ Keeps(k, r.m, f, q, r2.ok)
    BY <1>6, <1>11, <2>2
  <2> HIDE DEF Same
  <2> QED
    BY <1>11, <2>3, Zenon
<1>12. CASE q.op = "create"
  <2> DEFINE r0 == open_excl(f, use, n, Masked(q.mode))
             r2 == open_excl(f, use, n, q.mode)
  <2>1. Outcomes(f, use, k.file, q) = {r2} /\ r = With(r0, k)
    BY <1>12 DEF Outcomes, dnfs_oper, dnfs_mknod
  <2>2. (r0.ok => Masked(q.mode) = q.mode) => r0 = r2
    BY Unmasked
  <2> HIDE DEF r0, r2
  <2> QED
    BY <1>11, <1>12, <2>1, <2>2
<1>13. CASE q.op = "mkfifo"
  <2> DEFINE r0 == mkfifo(f, use, n, Masked(q.mode))
             r2 == mkfifo(f, use, n, q.mode)
  <2>1. Outcomes(f, use, k.file, q) = {r2} /\ r = With(r0, k)
    BY <1>13 DEF Outcomes, dnfs_oper, dnfs_mknod
  <2>2. (r0.ok => Masked(q.mode) = q.mode) => r0 = r2
    BY Unmasked
  <2> HIDE DEF r0, r2
  <2> QED
    BY <1>11, <1>13, <2>1, <2>2
<1>14. CASE q.op = "mkdir"
  <2> DEFINE r0 == mkdir(f, use, n, Masked(q.mode))
             r2 == mkdir(f, use, n, q.mode)
  <2>1. Outcomes(f, use, k.file, q) = {r2} /\ r = With(r0, k)
    BY <1>14 DEF Outcomes, dnfs_oper, dnfs_mkdir
  <2>2. (r0.ok => Masked(q.mode) = q.mode) => r0 = r2
    BY Unmasked
  <2> HIDE DEF r0, r2
  <2> QED
    BY <1>11, <1>14, <2>1, <2>2
<1>9. CASE q.op \in {"rename", "link", "chmod", "truncate", "access"}
  <2>1. \E r2 \in Outcomes(f, use, k.file, q) : r = With(r2, k)
    BY <1>9 DEF Outcomes, dnfs_oper, dnfs_rename, dnfs_link, dnfs_chmod, dnfs_truncate,
         dnfs_access
  <2> QED
    BY <1>6, <1>9, <2>1
<1>10. CASE q.op \in FileOps
  <2>1. \E r2 \in Outcomes(f, use, k.file, q) : r = With(r2, k)
    BY <1>10 DEF Outcomes, dnfs_oper, FileOps, dnfs_read, dnfs_write, dnfs_ftruncate,
         dnfs_fgetattr
  <2> QED
    BY <1>6, <1>10, <2>1 DEF FileOps
<1> QED
  BY <1>2, <1>3, <1>4, <1>5, <1>7, <1>8, <1>9, <1>10, <1>12, <1>13, <1>14
     DEF Request, Ops, DataOps, FileOps, DirOps, OtherOps
-----------------------------------------------------------------------------
\* What programs ask for is in Request, and of the family of calls they are taken to make.
PlainCells(cells) == \A j \in DOMAIN cells : cells[j] = Plain(cells[j].val)
Wanted(c, q) ==
    /\ q \in Request /\ Named(q) /\ PlainCells(q.cells)
    /\ q.op \in FileOps => m[c].file # 0
    /\ mounted.use = "data" => q.op \in DataOps
    /\ q.op = "open" => mounted.use = "data"
    /\ q.op = "readdir" => m[c].dir # "closed"

Asked(op, n, to, off, len, cells, mode, owner, group) ==
    [op |-> op, name |-> n, to |-> to, off |-> off, len |-> len, cells |-> cells,
     mode |-> mode, owner |-> owner, group |-> group]

\* The arguments of the calls with one argument besides the name, in full.
LEMMA AskedIs ==
    ASSUME NEW op, NEW n
    PROVE  /\ Ask(op, n) = Asked(op, n, n, 0, 0, <<>>, {}, Keep, Keep)
           /\ \A to : [Ask(op, n) EXCEPT !.to = to]
                      = Asked(op, n, to, 0, 0, <<>>, {}, Keep, Keep)
           /\ \A off : Resize(op, n, off) = Asked(op, n, n, off, 0, <<>>, {}, Keep, Keep)
           /\ \A mode : WithMode(op, n, mode) = Asked(op, n, n, 0, 0, <<>>, mode, Keep, Keep)
<1> DEFINE nobody == {}
<1>1. Ask(op, n) = Asked(op, n, n, 0, 0, <<>>, nobody, Keep, Keep)
  BY Zenon DEF Ask, Asked
<1> HIDE DEF nobody
<1>2. /\ \A to : [Ask(op, n) EXCEPT !.to = to]
                = Asked(op, n, to, 0, 0, <<>>, nobody, Keep, Keep)
      /\ \A off : Resize(op, n, off) = Asked(op, n, n, off, 0, <<>>, nobody, Keep, Keep)
      /\ \A mode : WithMode(op, n, mode) = Asked(op, n, n, 0, 0, <<>>, mode, Keep, Keep)
  BY <1>1 DEF Asked, Resize, WithMode
<1> QED
  BY <1>1, <1>2 DEF nobody

\* The arguments of the calls with two, in full.
LEMMA AskedTwice ==
    ASSUME NEW n, NEW x, NEW y
    PROVE  /\ ReadAt(n, x) = Asked("read", n, n, x, Page, <<>>, {}, Keep, Keep)
           /\ WriteAt(n, x, y) = Asked("write", n, n, x, 0, y, {}, Keep, Keep)
           /\ Give(n, x, y) = Asked("chown", n, n, 0, 0, <<>>, {}, x, y)
<1> DEFINE a(op) == [Ask(op, n) EXCEPT !.off = x]
           b == [Ask("chown", n) EXCEPT !.owner = x]
           nobody == {}
<1>0. \A op : Ask(op, n) = Asked(op, n, n, 0, 0, <<>>, nobody, Keep, Keep)
  BY AskedIs
<1> HIDE DEF nobody
<1>1. /\ \A op : a(op) = Asked(op, n, n, x, 0, <<>>, nobody, Keep, Keep)
      /\ b = Asked("chown", n, n, 0, 0, <<>>, nobody, x, Keep)
  BY <1>0 DEF Asked
<1>2. ReadAt(n, x) = [a("read") EXCEPT !.len = Page]
  BY DEF ReadAt
<1>3. WriteAt(n, x, y) = [a("write") EXCEPT !.cells = y]
  BY DEF WriteAt
<1>4. Give(n, x, y) = [b EXCEPT !.group = y]
  BY DEF Give
<1> HIDE DEF a, b
<1>5. [a("read") EXCEPT !.len = Page] = Asked("read", n, n, x, Page, <<>>, nobody, Keep, Keep)
  BY <1>1 DEF Asked
<1>6. [a("write") EXCEPT !.cells = y] = Asked("write", n, n, x, 0, y, nobody, Keep, Keep)
  BY <1>1 DEF Asked
<1>7. [b EXCEPT !.group = y] = Asked("chown", n, n, 0, 0, <<>>, nobody, x, y)
  BY <1>1 DEF Asked
<1> QED
  BY <1>2, <1>3, <1>4, <1>5, <1>6, <1>7 DEF nobody

\* Every call that FUSE makes for a program is one that the invariant allows: of a file that is
\* open for those that need one.
LEMMA RequestWanted ==
    ASSUME NEW c \in Clients, m[c] \in Mount,
           m[c].file # 0 => m[c].name \in Names /\ mounted.use = "data",
           mounted.use \in {"data", "names", "attributes"}, NEW q \in Requests(c)
    PROVE  Wanted(c, q)
<1> DEFINE k == m[c]
           Good(ops) == /\ q \in Request /\ Named(q) /\ PlainCells(q.cells) /\ q.op \in ops
<1>1. /\ q.op \in {"readdir", "releasedir"} => k.dir # "closed"
      /\ q \in (IF k.file = 0 THEN {} ELSE OnOpenFile(k.name)) \/ q \in OnNames(mounted.use)
  BY DEF Requests
<1>3. <<>> \in Seq(Cell) /\ PlainCells(<<>>) /\ Keep \in Int /\ {} \in ModeSet
  BY DEF PlainCells, Keep, ModeSet
<1>4. ASSUME NEW cells \in Texts
      PROVE  cells \in Seq(Cell) /\ PlainCells(cells)
  <2>1. \A v \in Int : Plain(v) \in Cell /\ Plain(v) = Plain(Plain(v).val)
    BY DEF Plain, Cell
  <2>3. CASE cells = <<Plain(1)>>
    <3>1. Len(cells) = 1 /\ DOMAIN cells = {1} /\ cells[1] = Plain(1)
      BY <2>3
    <3>2. cells \in Seq(Cell)
      BY <2>1, <2>3
    <3> QED
      BY <2>1, <3>1, <3>2 DEF PlainCells
  <2>4. CASE cells = <<Plain(2), Plain(3)>>
    <3>1. DOMAIN cells = {1, 2} /\ cells[1] = Plain(2) /\ cells[2] = Plain(3)
      BY <2>4
    <3>2. cells \in Seq(Cell)
      BY <2>1, <2>4
    <3> QED
      BY <2>1, <3>1, <3>2 DEF PlainCells
  <2> QED
    BY <1>4, <2>3, <2>4 DEF Texts
<1>5. \A n \in Names : n \in Paths
  BY DEF Paths
<1>6. ASSUME k.file # 0, q \in OnOpenFile(k.name)
      PROVE  Good(FileOps \cup {"release"})
  <2> DEFINE n == k.name
             ops == FileOps \cup {"release"}
  <2>1. n \in Names /\ n \in Paths
    BY <1>5, <1>6
  <2>2. \/ \E op \in {"fgetattr", "release"} : q = Ask(op, n)
        \/ \E size \in {1, MaxSize} : q = Resize("ftruncate", n, size)
        \/ q \in Reads(n) \/ q \in Writes(n)
    BY <1>6, ZenonT(30) DEF OnOpenFile
  <2>3. \A op \in ops : op \in Ops
    BY DEF Ops, DataOps
  <2> HIDE DEF n
  <2>4. ASSUME NEW op \in {"fgetattr", "release"}, q = Ask(op, n) PROVE Good(ops)
    <3>1. q = Asked(op, n, n, 0, 0, <<>>, {}, Keep, Keep)
      BY <2>4, AskedIs
    <3>2. op \in Ops /\ op \in ops
      BY <2>3 DEF FileOps
    <3> QED
      BY <1>3, <2>1, <3>1, <3>2 DEF Asked, Request, Named
  <2>5. ASSUME q \in Reads(n) PROVE Good(ops)
    <3>1. \A b \in 0 .. 1 : b * Page \in Nat
      BY MountsAssumption
    <3>2. PICK off \in Nat : q = ReadAt(n, off)
      BY <2>5, <3>1 DEF Reads
    <3>3. q = Asked("read", n, n, off, Page, <<>>, {}, Keep, Keep)
      BY <3>2, AskedTwice
    <3>4. "read" \in Ops /\ "read" \in ops /\ Page \in Nat
      BY <2>3, MountsAssumption DEF FileOps
    <3> QED
      BY <1>3, <2>1, <3>3, <3>4 DEF Asked, Request, Named
  <2>6. ASSUME NEW size \in {1, MaxSize}, q = Resize("ftruncate", n, size)
        PROVE  Good(ops)
    <3>1. q = Asked("ftruncate", n, n, size, 0, <<>>, {}, Keep, Keep)
      BY <2>6, AskedIs
    <3>2. "ftruncate" \in Ops /\ "ftruncate" \in ops /\ size \in Nat
      BY <2>3, MountsAssumption DEF FileOps
    <3> QED
      BY <1>3, <2>1, <3>1, <3>2 DEF Asked, Request, Named
  <2>7. ASSUME q \in Writes(n) PROVE Good(ops)
    <3> PICK off \in 0 .. MaxSize - 1, cells \in Texts : q = WriteAt(n, off, cells)
      BY <2>7 DEF Writes
    <3>1. q = Asked("write", n, n, off, 0, cells, {}, Keep, Keep)
      BY AskedTwice
    <3>2. "write" \in Ops /\ "write" \in ops /\ off \in Nat
      BY <2>3, MountsAssumption DEF FileOps
    <3>3. cells \in Seq(Cell) /\ PlainCells(cells)
      BY <1>4
    <3> QED
      BY <1>3, <2>1, <3>1, <3>2, <3>3 DEF Asked, Request, Named
  <2> QED
    BY <2>2, <2>4, <2>5, <2>6, <2>7
<1>7. ASSUME NEW op \in Ops \ DirOps, NEW n \in Names, q = Ask(op, n) PROVE Good({op})
  <2>1. q = Asked(op, n, n, 0, 0, <<>>, {}, Keep, Keep)
    BY <1>7, AskedIs
  <2> QED
    BY <1>3, <1>5, <2>1 DEF Asked, Request, Named
<1>8. ASSUME NEW op \in DirOps, q = Ask(op, Root) PROVE Good({op})
  <2>1. q = Asked(op, Root, Root, 0, 0, <<>>, {}, Keep, Keep)
    BY <1>8, AskedIs
  <2>2. op \in Ops /\ Root \in Paths
    BY DEF Ops, Paths
  <2> QED
    BY <1>3, <2>1, <2>2 DEF Asked, Request, Named
<1>18. ASSUME NEW op \in Ops \ DirOps, NEW n \in Names, NEW mode \in ModeSet,
              q = WithMode(op, n, mode)
       PROVE  Good({op})
  <2>1. q = Asked(op, n, n, 0, 0, <<>>, mode, Keep, Keep)
    BY <1>18, AskedIs
  <2> QED
    BY <1>3, <1>5, <2>1 DEF Asked, Request, Named
<1>19. ASSUME NEW ops, NEW modes, q \in Modes(ops, modes)
       PROVE  \E op \in ops, n \in Names, mode \in modes : q = WithMode(op, n, mode)
  BY <1>19 DEF Modes
<1>20. Usual \in ModeSet /\ Perms \in ModeSet /\ {} \in ModeSet
       /\ {"others"} \in ModeSet
  BY DEF Usual, Masked, Perms, ModeSet
<1>21. ASSUME NEW ops \in SUBSET (Ops \ DirOps), NEW modes \in SUBSET ModeSet,
              q \in Modes(ops, modes)
       PROVE  Good(ops)
  <2>1. PICK op \in ops, n \in Names, mode \in modes : q = WithMode(op, n, mode)
    BY <1>19, <1>21
  <2>2. Good({op})
    BY <1>18, <1>21, <2>1
  <2> QED
    BY <2>2
<1>9. ASSUME NEW op \in Ops \ DirOps, q \in Pairs(op) PROVE Good({op})
  <2>1. PICK n \in Names, n2 \in Names : q = [Ask(op, n) EXCEPT !.to = n2]
    BY <1>9 DEF Pairs
  <2>2. q = Asked(op, n, n2, 0, 0, <<>>, {}, Keep, Keep)
    BY <2>1, AskedIs
  <2> QED
    BY <1>3, <1>5, <2>2 DEF Asked, Request, Named
<1>10. ASSUME mounted.use = "data", q \in DataCalls PROVE Good(DataOps \ FileOps)
  <2>1. \/ \E op \in {"getattr", "open", "unlink"}, n \in Names : q = Ask(op, n)
        \/ \E n \in Names, size \in {0, MaxSize} : q = Resize("truncate", n, size)
        \/ q \in Pairs("rename") \/ q \in Modes({"create"}, {Usual})
    <3>1. q \in OnEach({"getattr", "open", "unlink"}) \/ q \in Cuts
          \/ q \in Pairs("rename") \/ q \in Modes({"create"}, {Usual})
      BY <1>10, Zenon DEF DataCalls
    <3> QED
      BY <3>1 DEF OnEach, Cuts
  <2>2. \A op \in {"getattr", "create", "open", "unlink", "truncate", "rename"} :
          op \in Ops \ DirOps /\ op \in DataOps \ FileOps
    BY DEF Ops, DataOps, DirOps, FileOps
  <2>3. ASSUME NEW n \in Names, NEW size \in {0, MaxSize},
               q = Resize("truncate", n, size)
        PROVE  Good({"truncate"})
    <3>1. q = Asked("truncate", n, n, size, 0, <<>>, {}, Keep, Keep)
      BY <2>3, AskedIs
    <3>2. "truncate" \in Ops /\ size \in Nat
      BY <2>2, MountsAssumption
    <3> QED
      BY <1>3, <1>5, <3>1, <3>2 DEF Asked, Request, Named
  <2>4. q \in Modes({"create"}, {Usual}) => Good({"create"})
    BY <1>20, <1>21, <2>2
  <2> QED
    BY <1>7, <1>9, <2>1, <2>2, <2>3, <2>4
<1>11. ASSUME q \in NameCalls PROVE Good(Ops \ (FileOps \cup {"open"}))
  <2> DEFINE ops == {"getattr", "unlink", "rmdir", "readlink"}
             made == {"create", "access", "mkdir"}
  <2>1. \/ \E op \in ops, n \in Names : q = Ask(op, n)
        \/ q \in Modes(made, {Usual})
        \/ \E op \in {"rename", "link", "symlink"} : q \in Pairs(op)
        \/ \E op \in {"opendir", "readdir", "releasedir"} : q = Ask(op, Root)
    <3>1. \/ q \in OnEach(ops) \/ q \in Modes(made, {Usual})
          \/ q \in Pairs("rename") \/ q \in Links \/ q \in OnRoot
      BY <1>11, Zenon DEF NameCalls
    <3>2. q \in OnEach(ops) => \E op \in ops, n \in Names : q = Ask(op, n)
      BY DEF OnEach
    <3>3. q \in Links => q \in Pairs("link") \/ q \in Pairs("symlink")
      BY DEF Links
    <3>4. q \in OnRoot => \E op \in {"opendir", "readdir", "releasedir"} : q = Ask(op, Root)
      BY DEF OnRoot
    <3> QED
      BY <3>1, <3>2, <3>3, <3>4
  <2>2. \A op \in ops \cup made \cup {"rename", "link", "symlink"} :
          op \in Ops \ DirOps /\ op \notin FileOps \cup {"open"}
    BY DEF Ops, DataOps, DirOps, FileOps, OtherOps
  <2>3. \A op \in {"opendir", "readdir", "releasedir"} :
          op \in DirOps /\ op \in Ops /\ op \notin FileOps \cup {"open"}
    BY DEF Ops, DirOps, FileOps
  <2>4. q \in Modes(made, {Usual}) => Good(made)
    <3>1. made \in SUBSET (Ops \ DirOps) /\ {Usual} \in SUBSET ModeSet
      BY <1>20, <2>2
    <3> HIDE DEF made
    <3> QED
      BY <1>21, <3>1
  <2> QED
    BY <1>7, <1>8, <1>9, <2>1, <2>2, <2>3, <2>4
<1>12. ASSUME q \in AttributeCalls PROVE Good(Ops \ (FileOps \cup DirOps \cup {"open"}))
  <2> DEFINE made == {"create", "mkdir", "mkfifo", "access", "chmod"}
  <2>1. \/ \E n \in Names : q = Ask("getattr", n)
        \/ \E modes \in SUBSET ModeSet : q \in Modes(made, modes)
        \/ \E n \in Names, o \in {Keep, 1}, g \in {Keep, 1} :
             q = Give(n, o, g)
    <3>1. \/ q \in OnEach({"getattr"}) \/ q \in Gifts
          \/ q \in Modes({"create"}, {{}, Usual, Perms})
          \/ q \in Modes({"mkdir", "mkfifo"}, {Usual, Perms})
          \/ q \in Modes({"access"}, {{}, Usual}) \/ q \in Modes({"chmod"}, {{"others"}})
      BY <1>12, Zenon DEF AttributeCalls
    <3>2. q \in OnEach({"getattr"}) => \E n \in Names : q = Ask("getattr", n)
      BY DEF OnEach
    <3>4. \A ops \in SUBSET made : \A modes : q \in Modes(ops, modes) => q \in Modes(made, modes)
      BY DEF Modes
    <3>5. /\ q \in Modes({"create"}, {{}, Usual, Perms}) => q \in Modes(made, {{}, Usual, Perms})
          /\ q \in Modes({"mkdir", "mkfifo"}, {Usual, Perms}) => q \in Modes(made, {Usual, Perms})
          /\ q \in Modes({"access"}, {{}, Usual}) => q \in Modes(made, {{}, Usual})
          /\ q \in Modes({"chmod"}, {{"others"}}) => q \in Modes(made, {{"others"}})
      <4>1. {"create"} \in SUBSET made /\ {"mkdir", "mkfifo"} \in SUBSET made
            /\ {"access"} \in SUBSET made /\ {"chmod"} \in SUBSET made
        OBVIOUS
      <4> HIDE DEF made
      <4> QED
        BY <3>4, <4>1
    <3>6. /\ {{}, Usual, Perms} \in SUBSET ModeSet /\ {Usual, Perms} \in SUBSET ModeSet
          /\ {{}, Usual} \in SUBSET ModeSet /\ {{"others"}} \in SUBSET ModeSet
      BY <1>20
    <3>3. q \in Gifts =>
            \E n \in Names, o \in {Keep, 1}, g \in {Keep, 1} : q = Give(n, o, g)
      BY DEF Gifts
    <3> HIDE DEF made
    <3> QED
      BY <3>1, <3>2, <3>3, <3>5, <3>6
  <2>2. \A op \in {"getattr", "chown"} \cup made :
          op \in Ops \ DirOps /\ op \in Ops \ (FileOps \cup DirOps \cup {"open"})
    BY DEF Ops, DataOps, DirOps, FileOps, OtherOps
  <2>3. ASSUME NEW modes \in SUBSET ModeSet, q \in Modes(made, modes) PROVE Good(made)
    BY <1>21, <2>2, <2>3
  <2>4. ASSUME NEW n \in Names, NEW o \in {Keep, 1}, NEW g \in {Keep, 1},
               q = Give(n, o, g)
        PROVE  Good({"chown"})
    <3>1. q = Asked("chown", n, n, 0, 0, <<>>, {}, o, g)
      BY <2>4, AskedTwice
    <3>2. o \in Int /\ g \in Int
      BY <1>3
    <3> QED
      BY <1>3, <1>5, <2>2, <3>1, <3>2 DEF Asked, Request, Named
  <2> QED
    BY <1>7, <2>1, <2>2, <2>3, <2>4
<1> HIDE DEF k
<1>13. CASE k.file # 0 /\ q \in OnOpenFile(k.name)
  <2>1. Good(FileOps \cup {"release"}) /\ mounted.use = "data" /\ m[c].file # 0
    BY <1>6, <1>13 DEF k
  <2> QED
    BY <2>1 DEF Wanted, DataOps, FileOps
<1>14. CASE mounted.use = "data" /\ q \in DataCalls
  <2>1. Good(DataOps \ FileOps)
    BY <1>10, <1>14
  <2> QED
    BY <1>14, <2>1 DEF Wanted, DataOps, FileOps
<1>15. CASE mounted.use = "names" /\ q \in NameCalls
  BY <1>1, <1>11, <1>15 DEF Wanted, k
<1>16. CASE mounted.use = "attributes" /\ q \in AttributeCalls
  BY <1>12, <1>16 DEF Wanted, DirOps
<1>17. /\ mounted.use = "data" => OnNames(mounted.use) = DataCalls
       /\ mounted.use = "names" => OnNames(mounted.use) = NameCalls
       /\ mounted.use = "attributes" => OnNames(mounted.use) = AttributeCalls
  BY DEF OnNames
<1> QED
  BY <1>1, <1>13, <1>14, <1>15, <1>16, <1>17 DEF k
-----------------------------------------------------------------------------
\* Up to a step that no local file system makes: what is in the directory, what the mounts
\* keep, and what is on its way are what the calls made so far lead to.
Phases == {"idle", "called", "sent", "answered", "done"}
Typed ==
    /\ mounted.use \in {"data", "names", "attributes"} /\ (encrypted => mounted.use = "data")
    /\ fs \in Directory /\ (mounted.use = "data" => FilesOnly(fs))
    /\ m \in [Clients -> Mount] /\ at \in [Clients -> Phases]
    /\ DOMAIN call = Clients /\ DOMAIN message = Clients
    /\ DOMAIN answer = Clients /\ DOMAIN result = Clients
\* What a client has open is a file, under the name that it had.
FileOpen(c) ==
    m[c].file # 0 =>
      mounted.use = "data" /\ fs.node[m[c].file].kind = "file" /\ m[c].name \in Names
\* A call on its way is one that a program makes, and its message is the one for it.
OnItsWay(c) ==
    /\ at[c] \in {"called", "sent", "answered"} => Wanted(c, call[c])
    /\ http /\ at[c] = "called" => call[c].op \in Local_ops
    /\ at[c] = "sent" =>
         \E loaded \in BOOLEAN : message[c] \in Messages(call[c], mounted.chroot, loaded, encrypted)
    /\ at[c] \in {"sent", "answered"} => http /\ call[c].op \notin Local_ops
Sound == Typed /\ \A c \in Clients : FileOpen(c) /\ OnItsWay(c)
Inv == ~ diverged => Sound

\* With the key nothing is lost.
LEMMA NothingLost ==
    ASSUME NEW x, x = [j \in DOMAIN x |-> x[j]]
    PROVE  Outcome(x, {}) = {x}
<1> DEFINE spoil(lost) == [j \in DOMAIN x |-> IF j \in lost THEN Garbage ELSE x[j]]
<1>1. Outcome(x, {}) = {spoil(lost) : lost \in SUBSET {}}
  BY DEF Outcome
<1>2. spoil({}) = x
  OBVIOUS
<1> HIDE DEF spoil
<1>3. {spoil(lost) : lost \in SUBSET {}} = {spoil({})}
  OBVIOUS
<1> QED
  BY <1>1, <1>2, <1>3

\* The keystream is taken at the offset, byte by byte.
LEMMA PositionIs ==
    ASSUME NEW off \in Nat, NEW j \in Nat
    PROVE  Position(off, j) = off + j
BY DEF Position, ctr_num, left_padding, block_size

\* With the key loaded, encrypting and decrypting have one result, that depends on the offset.
LEMMA WithKey ==
    ASSUME NEW cells, NEW off
    PROVE  /\ encrypt(cells, off, TRUE)
              = {[j \in DOMAIN cells |-> [val |-> cells[j].val, pad |-> Position(off, j)]]}
           /\ decrypt(cells, off, TRUE)
              = {[j \in DOMAIN cells |-> plain(cells[j], Position(off, j))]}
<1> DEFINE e == [j \in DOMAIN cells |-> [val |-> cells[j].val, pad |-> Position(off, j)]]
           d == [j \in DOMAIN cells |-> plain(cells[j], Position(off, j))]
<1>1. e = [j \in DOMAIN e |-> e[j]] /\ d = [j \in DOMAIN d |-> d[j]]
  OBVIOUS
<1>2. encrypt(cells, off, TRUE) = Outcome(e, {}) /\ decrypt(cells, off, TRUE) = Outcome(d, {})
  BY DEF encrypt, decrypt, Spoilt
<1> HIDE DEF e, d
<1>3. Outcome(e, {}) = {e} /\ Outcome(d, {}) = {d}
  BY <1>1, NothingLost
<1> QED
  BY <1>2, <1>3 DEF e, d

\* The invariant holds at first: nothing is open, nothing is on its way, and what is mounted is
\* typed.
LEMMA InitSound == Init => Sound
<1> SUFFICES ASSUME Init PROVE Sound
  OBVIOUS
<1>1. NoNode \in Node /\ EmptyFs \in Directory /\ FilesOnly(EmptyFs)
  BY DEF NoNode, Node, EmptyFs, Directory, FilesOnly, ModeSet
<1>2. ASSUME NEW data \in Seq(Cell) PROVE WithFile(data) \in Directory /\ FilesOnly(WithFile(data))
  <2> DEFINE n == CHOOSE x \in Names : TRUE
             nd == NewNode("file", Usual, data)
  <2>1. n \in Names /\ 1 \in Nodes
    BY MountsAssumption, KernelAssumption DEF Nodes
  <2>2. WithFile(data) = [dir |-> [EmptyFs.dir EXCEPT ![n] = 1], node |-> [EmptyFs.node EXCEPT ![1] = nd]]
    <3> DEFINE half == [EmptyFs EXCEPT !.dir[n] = 1]
    <3>1. half = [dir |-> [EmptyFs.dir EXCEPT ![n] = 1], node |-> EmptyFs.node]
      <4>1. half = Entry(EmptyFs, n, 1)
        BY DEF Entry
      <4> HIDE DEF half, n
      <4> QED
        BY <1>1, <4>1, EntryIs
    <3>2. WithFile(data) = [half EXCEPT !.node[1] = nd]
      BY DEF WithFile, NewNode
    <3> HIDE DEF half, nd
    <3> QED
      BY <3>1, <3>2
  <2>3. nd \in Node /\ nd.kind = "file"
    <3>1. nd = [kind |-> "file", data |-> data, mode |-> Usual, owner |-> 0, group |-> 0]
      BY NewNodeIs
    <3>2. Usual \in ModeSet
      BY DEF Usual, Masked, ModeSet
    <3> QED
      BY <3>1, <3>2 DEF Node
  <2> HIDE DEF n, nd
  <2> QED
    BY <1>1, <2>1, <2>2, <2>3 DEF Directory, FilesOnly, EmptyFs
<1>3. fs \in Directory /\ FilesOnly(fs)
  <2> DEFINE secret == CHOOSE s \in encrypt(OnePage, 0, TRUE) : TRUE
  <2>1. OnePage \in Seq(Cell)
    BY Cells, MountsAssumption DEF OnePage
  <2>2. secret \in Seq(Cell)
    <3>1. secret = [j \in DOMAIN OnePage |-> [val |-> OnePage[j].val, pad |-> Position(0, j)]]
      <4> DEFINE e == [j \in DOMAIN OnePage |-> [val |-> OnePage[j].val, pad |-> Position(0, j)]]
      <4>1. encrypt(OnePage, 0, TRUE) = {e}
        BY WithKey
      <4> HIDE DEF e
      <4>2. secret = e
        BY <4>1
      <4> QED
        BY <4>2 DEF e
    <3>2. DOMAIN OnePage = 1 .. Page /\ \A j \in 1 .. Page : OnePage[j].val \in Int
      BY MountsAssumption DEF OnePage, Plain
    <3>3. \A j \in 1 .. Page : Position(0, j) \in Int
      BY PositionIs, MountsAssumption
    <3>4. \A j \in 1 .. Page : [val |-> OnePage[j].val, pad |-> Position(0, j)] \in Cell
      BY <3>2, <3>3 DEF Cell
    <3> HIDE DEF secret
    <3> QED
      BY <3>1, <3>2, <3>4, MountsAssumption
  <2>3. fs \in {EmptyFs, WithFile(IF encrypted THEN secret ELSE OnePage)}
    BY DEF Init
  <2> HIDE DEF secret
  <2> QED
    BY <1>1, <1>2, <2>1, <2>2, <2>3
<1>4. NoMount \in Mount /\ NoMount.file = 0
  BY DEF NoMount, Mount, Paths
<1>5. mounted.use \in {"data", "names", "attributes"} /\ (encrypted => mounted.use = "data")
  BY MountsAssumption DEF Init
<1>6. m = [c \in Clients |-> NoMount] /\ at = [c \in Clients |-> "idle"]
  BY DEF Init
<1>7. /\ DOMAIN call = Clients /\ DOMAIN message = Clients
      /\ DOMAIN answer = Clients /\ DOMAIN result = Clients
  BY DEF Init
<1> QED
  BY <1>3, <1>4, <1>5, <1>6, <1>7 DEF Sound, Typed, FileOpen, OnItsWay, Phases
-----------------------------------------------------------------------------
\* What GFS01 sends for the cells of a write: as many, and what they were if none is lost.
LEMMA SecretCells ==
    ASSUME NEW cells \in Seq(Cell), PlainCells(cells), NEW off \in Nat, NEW loaded,
           NEW secret \in encrypt(cells, off, loaded)
    PROVE  /\ secret \in Seq(Cell) /\ Len(secret) = Len(cells)
           /\ Garbage \notin Range(secret) =>
                \A j \in 1 .. Len(cells) : plain(secret[j], off + j) = cells[j]
<1> DEFINE x == [j \in DOMAIN cells |-> [val |-> cells[j].val, pad |-> Position(off, j)]]
<1>1. DOMAIN cells = 1 .. Len(cells) /\ Len(cells) \in Nat
  OBVIOUS
<1>2. ASSUME NEW j \in 1 .. Len(cells)
      PROVE  x[j].val = cells[j].val /\ x[j].pad = off + j
  <2>1. x[j] = [val |-> cells[j].val, pad |-> Position(off, j)]
    BY <1>1
  <2>2. Position(off, j) = off + j
    BY <1>1, PositionIs
  <2> HIDE DEF x
  <2> QED
    BY <2>1, <2>2
<1>3. DOMAIN x = 1 .. Len(cells)
  BY <1>1
<1>4. secret \in Outcome(x, Spoilt(cells, loaded))
  BY DEF encrypt
<1> HIDE DEF x
<1>5. PICK lost : secret = [j \in 1 .. Len(cells) |-> IF j \in lost THEN Garbage ELSE x[j]]
  BY <1>3, <1>4 DEF Outcome
<1>6. \A j \in 1 .. Len(cells) : cells[j].val \in Int /\ cells[j] = Plain(cells[j].val)
  <2>1. \A j \in 1 .. Len(cells) : cells[j] \in Cell
    OBVIOUS
  <2> QED
    BY <1>1, <2>1 DEF PlainCells, Cell
<1>7. Garbage \in Cell
  BY DEF Garbage, Plain, Cell
<1>8. ASSUME NEW j \in 1 .. Len(cells) PROVE x[j] \in Cell
  <2>1. cells[j].val \in Int
    BY <1>6
  <2>2. Position(off, j) \in Int
    BY <1>1, PositionIs
  <2>3. x[j] = [val |-> cells[j].val, pad |-> Position(off, j)]
    BY <1>1 DEF x
  <2> QED
    BY <2>1, <2>2, <2>3 DEF Cell
<1>9. secret \in Seq(Cell) /\ Len(secret) = Len(cells)
  BY <1>1, <1>5, <1>7, <1>8
<1>10. ASSUME Garbage \notin Range(secret), NEW j \in 1 .. Len(cells)
       PROVE  plain(secret[j], off + j) = cells[j]
  <2>1. secret[j] \in Range(secret)
    BY <1>5 DEF Range
  <2>2. secret[j] = x[j]
    BY <1>5, <1>10, <2>1
  <2>3. x[j].pad = off + j /\ x[j].val = cells[j].val
    BY <1>2
  <2> QED
    BY <1>6, <2>2, <2>3 DEF plain
<1> QED
  BY <1>9, <1>10

\* A call that does not make the server do what no local file system does.
Agreed(f, i, q, chroot, may) ==
    /\ q.op \in FileOps => i # 0 /\ f.node[i].kind = "file" /\ f.dir[q.name] = i
    /\ q.op = "write" => q.off = Size(f, q.name)
    /\ q.op = "create" => Kind(f, q.name) \notin {"file", "link"}
    /\ q.op = "symlink" => ~ chroot
    /\ q.op = "chown" /\ q.owner # Keep /\ q.group # Keep => may.user = may.group
Obtained(f, use, q, g) ==
    Kept(f, use, g) /\ (FilesOnly(f) /\ q.op \in DataOps => FilesOnly(g))

\* The outcome of a write, of what the program writes or of the secret of it.
Wrote(f, use, i, q, encrypts, data, a) ==
    /\ data \in Seq(Cell) /\ (~ encrypts => data = q.cells)
    /\ encrypts /\ Garbage \notin Range(data) => Secret(q.cells, data, q.off)
    /\ Tells(a, pwrite(f, i, q.off, data)) /\ Outcome_ok(f, use, q, pwrite(f, i, q.off, data))

\* The server carries a write out: of the cells in clear, or of their ciphertext.
LEMMA WriteServed ==
    ASSUME NEW f \in Directory, NEW use, NEW i \in Nodes \cup {0}, NEW q \in Request, Named(q),
           PlainCells(q.cells), q.op = "write", NEW chroot, NEW loaded, NEW encrypts,
           NEW msg \in Messages(q, chroot, loaded, encrypts), NEW may, Agreed(f, i, q, chroot, may)
    PROVE  Wrote(f, use, i, q, encrypts, msg.data, Server!call(f, use, msg, may))
<1>1. q.off \in Nat /\ q.cells \in Seq(Cell) /\ q.name \in Names
  BY DEF Request, Named, DirOps
<1>2. PICK cells \in IF encrypts THEN encrypt(q.cells, q.off, loaded) ELSE {q.cells} :
        msg = httpfs_write(q, cells)
  BY WriteMessageIs
<1>3. msg.opcode = "write" /\ msg.path = q.name /\ msg.data = cells
  BY <1>2 DEF httpfs_write, prepare_request
<1>4. /\ cells \in Seq(Cell) /\ Len(cells) = Len(q.cells)
      /\ encrypts /\ Garbage \notin Range(cells) => Secret(q.cells, cells, q.off)
  BY <1>1, <1>2, SecretCells DEF Secret
<1>5. i \in Nodes /\ f.node[i].kind = "file" /\ f.dir[q.name] = i /\ q.off = Size(f, q.name)
  BY DEF Agreed, FileOps
<1>6. Tells(Server!call(f, use, msg, may), pwrite(f, i, q.off, msg.data))
  BY <1>1, <1>3, <1>4, <1>5, WriteCalls
<1>7. Outcome_ok(f, use, q, pwrite(f, i, q.off, cells))
  <2> DEFINE r == pwrite(f, i, q.off, cells)
  <2>1. /\ Kept(f, use, r.fs) /\ (FilesOnly(f) => FilesOnly(r.fs))
        /\ r.ok = TRUE
    BY <1>1, <1>4, <1>5, WriteKeeps
  <2> HIDE DEF r
  <2>2. Outcome_ok(f, use, q, r)
    BY <2>1 DEF Outcome_ok
  <2> QED
    BY <2>2 DEF r
<1> QED
  BY <1>2, <1>3, <1>4, <1>6, <1>7 DEF Wrote

\* The server carries every message out that is on its way: it does and answers what Linux
\* would have, but for the data of an encrypted write.
LEMMA Served ==
    ASSUME NEW f \in Directory, NEW use, NEW i \in Nodes \cup {0}, NEW q \in Request, Named(q),
           PlainCells(q.cells), q.op \notin Local_ops, NEW chroot, NEW loaded, NEW encrypts,
           NEW msg \in Messages(q, chroot, loaded, encrypts), NEW may \in Permissions(q),
           Agreed(f, i, q, chroot, may),
           Answered_mode(q, Server!call(f, use, msg, may).status = "OK")
    PROVE  /\ Obtained(f, use, q, Server!call(f, use, msg, may).fs)
           /\ ~ encrypts \/ q.op # "write" =>
                \E r \in Outcomes(f, use, i, q) : Tells(Server!call(f, use, msg, may), r)
<1>1. CASE q.op # "write"
  <2>1. PICK r \in Outcomes(f, use, i, q) : Tells(Server!call(f, use, msg, may), r)
    BY <1>1, ServerAnswers DEF Agreed
  <2>2. Outcome_ok(f, use, q, r)
    BY CallKeeps DEF Agreed
  <2> QED
    BY <2>1, <2>2 DEF Tells, Outcome_ok, Obtained
<1>2. CASE q.op = "write"
  <2>1. /\ ~ encrypts => msg.data = q.cells
        /\ Tells(Server!call(f, use, msg, may), pwrite(f, i, q.off, msg.data))
        /\ Outcome_ok(f, use, q, pwrite(f, i, q.off, msg.data))
    <3>1. Wrote(f, use, i, q, encrypts, msg.data, Server!call(f, use, msg, may))
      BY <1>2, WriteServed
    <3> QED
      BY <3>1 DEF Wrote
  <2> DEFINE r == pwrite(f, i, q.off, msg.data)
  <2>2. ~ encrypts => r \in Outcomes(f, use, i, q)
    BY <1>2, <2>1 DEF Outcomes
  <2> HIDE DEF r
  <2>3. Tells(Server!call(f, use, msg, may), r) /\ Outcome_ok(f, use, q, r)
    BY <2>1 DEF r
  <2> QED
    BY <1>2, <2>2, <2>3 DEF Tells, Outcome_ok, Obtained
<1> QED
  BY <1>1, <1>2

\* What the handler is going to return, from the answer.
Promise(q, a, encrypts) ==
    IF encrypts /\ q.op = "read" THEN CHOOSE r \in read_response(q, a, TRUE) : TRUE
    ELSE check_response(a)

ClearFrom(out, off) == [j \in 1 .. Len(out) |-> plain(out[j], off + j)]

\* The mount decrypts a response to read at the offset of the request, with the key.
LEMMA ReadResponse ==
    ASSUME NEW q, q.off \in Nat, NEW a, NEW out \in Seq(Cell),
           check_response(a) = [ok |-> TRUE, out |-> out]
    PROVE  read_response(q, a, TRUE) = {[ok |-> TRUE, out |-> ClearFrom(out, q.off)]}
<1> DEFINE x == check_response(a)
           d == [j \in DOMAIN out |-> plain(out[j], Position(q.off, j))]
<1>1. decrypt(x.out, q.off, TRUE) = {d}
  <2>1. x.out = out
    OBVIOUS
  <2>2. decrypt(out, q.off, TRUE) = {d}
    BY WithKey
  <2> HIDE DEF x, d
  <2> QED
    BY <2>1, <2>2
<1>2. \A y : [x EXCEPT !.out = y] = [ok |-> TRUE, out |-> y]
  <2> DEFINE ok == TRUE
  <2>1. x = [ok |-> ok, out |-> out]
    OBVIOUS
  <2> HIDE DEF ok, x
  <2>2. \A y : [x EXCEPT !.out = y] = [ok |-> ok, out |-> y]
    BY <2>1
  <2> QED
    BY <2>2 DEF ok
<1>3. d = [j \in 1 .. Len(out) |-> plain(out[j], q.off + j)]
  <2>1. DOMAIN out = 1 .. Len(out) /\ Len(out) \in Nat
    OBVIOUS
  <2>2. ASSUME NEW j \in 1 .. Len(out) PROVE Position(q.off, j) = q.off + j
    <3>1. j \in Nat
      BY <2>1
    <3> QED
      BY <3>1, PositionIs
  <2> QED
    BY <2>1, <2>2
<1>4. read_response(q, a, TRUE)
      = {[x EXCEPT !.out = cells] : cells \in decrypt(x.out, q.off, TRUE)}
  BY DEF read_response
<1> HIDE DEF x, d
<1>5. {[x EXCEPT !.out = cells] : cells \in {d}} = {[x EXCEPT !.out = d]}
  OBVIOUS
<1> QED
  BY <1>1, <1>2, <1>3, <1>4, <1>5 DEF ClearFrom

\* The answer reveals a result on what is shown.
Reveals(q, a, r) ==
    /\ r.fs = Cleared(a.fs)
    /\ Promise(q, [status |-> a.status, data |-> a.data], TRUE) = [ok |-> r.ok, out |-> r.out]

\* What the server does for an encrypted mount is, decrypted, what Linux would have done on the
\* text: its answer, decrypted, is the result of that call.
LEMMA SecretServed ==
    ASSUME NEW f \in Directory, FilesOnly(f), NEW use, NEW i \in Nodes \cup {0},
           NEW q \in Request, Named(q), PlainCells(q.cells), q.op \in DataOps \ Local_ops,
           NEW chroot, NEW loaded, NEW msg \in Messages(q, chroot, loaded, TRUE),
           NEW may \in Permissions(q), Agreed(f, i, q, chroot, may),
           q.op \in {"truncate", "ftruncate"} /\ Kind(f, q.name) = "file" => q.off <= Size(f, q.name),
           q.op = "write" => Garbage \notin Range(msg.data),
           NEW a, a = Server!call(f, use, msg, may), Answered_mode(q, a.status = "OK")
    PROVE  \E r \in Outcomes(Cleared(f), use, i, q) : Reveals(q, a, r)
<1> DEFINE answered == [status |-> a.status, data |-> a.data]
<1>1. CASE q.op \notin {"read", "write"}
  <2>1. PICK r \in Outcomes(f, use, i, q) : Tells(a, r)
    BY <1>1, Served
  <2>2. q.op \in FileOps => f.node[f.dir[q.name]] = f.node[i]
    BY DEF Agreed
  <2>3. q.op = "ftruncate" => q.off <= Len(f.node[i].data)
    BY <2>2 DEF Agreed, FileOps, Kind, Size
  <2>4. Shows(r) \in Outcomes(Cleared(f), use, i, q)
    BY <1>1, <2>3, CallShows DEF Agreed
  <2>5. Promise(q, answered, TRUE) = Response(a)
    BY <1>1 DEF Promise, Response
  <2>6. Shows(r).fs = Cleared(a.fs) /\ Promise(q, answered, TRUE) = [ok |-> Shows(r).ok, out |-> Shows(r).out]
    BY <2>1, <2>5 DEF Tells, Shows
  <2> HIDE DEF answered
  <2>7. \E r2 \in Outcomes(Cleared(f), use, i, q) :
          r2.fs = Cleared(a.fs) /\ Promise(q, answered, TRUE) = [ok |-> r2.ok, out |-> r2.out]
    BY <2>4, <2>6, Zenon
  <2> QED
    BY <2>7 DEF answered, Reveals
<1>2. CASE q.op = "write"
  <2> DEFINE cells == msg.data
             r == pwrite(f, i, q.off, cells)
  <2>1. cells \in Seq(Cell) /\ Secret(q.cells, cells, q.off) /\ Tells(a, pwrite(f, i, q.off, cells))
    <3>1. Wrote(f, use, i, q, TRUE, msg.data, a)
      BY <1>2, WriteServed
    <3> QED
      BY <1>2, <3>1 DEF Wrote
  <2> HIDE DEF cells
  <2>2. i \in Nodes /\ f.node[i].kind = "file" /\ q.off = Len(f.node[i].data)
    BY <1>2 DEF Agreed, FileOps, Size
  <2>3. q.cells \in Seq(Cell)
    BY DEF Request
  <2>4. pwrite(Cleared(f), i, q.off, q.cells) = Shows(r)
    BY <2>1, <2>2, <2>3, WriteShows
  <2>5. Shows(r) \in Outcomes(Cleared(f), use, i, q)
    BY <1>2, <2>4 DEF Outcomes
  <2>6. Promise(q, answered, TRUE) = Response(a)
    BY <1>2 DEF Promise, Response
  <2> HIDE DEF r
  <2>7. Tells(a, r)
    BY <2>1 DEF r
  <2>8. Shows(r).fs = Cleared(a.fs) /\ Promise(q, answered, TRUE) = [ok |-> Shows(r).ok, out |-> Shows(r).out]
    BY <2>6, <2>7 DEF Tells, Shows
  <2> HIDE DEF answered
  <2>9. \E r2 \in Outcomes(Cleared(f), use, i, q) :
          r2.fs = Cleared(a.fs) /\ Promise(q, answered, TRUE) = [ok |-> r2.ok, out |-> r2.out]
    BY <2>5, <2>8, Zenon
  <2> QED
    BY <2>9 DEF answered, Reveals
<1>3. CASE q.op = "read"
  <2> DEFINE r == pread(f, i, q.off, q.len)
             d == [j \in 1 .. Len(r.out) |-> plain(r.out[j], q.off + j)]
             r2 == Done(Cleared(f), d)
  <2>1. i \in Nodes /\ f.node[i].kind = "file" /\ q.off \in Nat /\ q.len \in Nat
    BY <1>3 DEF Agreed, FileOps, Request
  <2>2. Outcomes(f, use, i, q) = {r} /\ Outcomes(Cleared(f), use, i, q) = {pread(Cleared(f), i, q.off, q.len)}
    BY <1>3 DEF Outcomes
  <2>3. Tells(a, r)
    <3>1. PICK r0 \in Outcomes(f, use, i, q) : Tells(a, r0)
      BY <1>3, Served
    <3> HIDE DEF r
    <3> QED
      BY <2>2, <3>1
  <2>4. r.out \in Seq(Cell) /\ r.ok = TRUE /\ r.fs = f
    <3>1. f.node[i].data \in Seq(Cell)
      BY <2>1 DEF Directory, Node
    <3> QED
      BY <2>1, <3>1 DEF pread, Done
  <2>5. pread(Cleared(f), i, q.off, q.len) = r2
    <3>1. pread(Cleared(f), i, q.off, q.len)
          = Done(Cleared(f), [j \in DOMAIN r.out |-> plain(r.out[j], q.off + j)])
      BY <2>1, ReadShows
    <3>2. DOMAIN r.out = 1 .. Len(r.out)
      BY <2>4
    <3> QED
      BY <3>1, <3>2
  <2> HIDE DEF r, d
  <2>6. check_response(answered) = [ok |-> TRUE, out |-> r.out] /\ a.fs = f
    BY <2>3, <2>4 DEF Tells, Response
  <2> HIDE DEF answered
  <2>7. read_response(q, answered, TRUE) = {[ok |-> TRUE, out |-> d]}
    <3> DEFINE out == r.out
    <3>1. d = ClearFrom(out, q.off)
      BY DEF d, ClearFrom
    <3>2. out \in Seq(Cell) /\ check_response(answered) = [ok |-> TRUE, out |-> out]
      BY <2>4, <2>6
    <3> HIDE DEF out
    <3> QED
      BY <2>1, <3>1, <3>2, ReadResponse
  <2>8. Promise(q, answered, TRUE) = [ok |-> TRUE, out |-> d]
    BY <1>3, <2>7 DEF Promise
  <2>9. r2.fs = Cleared(a.fs) /\ r2.ok = TRUE /\ r2.out = d
    BY <2>6 DEF Done
  <2> HIDE DEF r2
  <2>10. r2 \in Outcomes(Cleared(f), use, i, q)
    BY <2>2, <2>5
  <2>11. \E x \in Outcomes(Cleared(f), use, i, q) :
          x.fs = Cleared(a.fs) /\ Promise(q, answered, TRUE) = [ok |-> x.ok, out |-> x.out]
    BY <2>8, <2>9, <2>10
  <2> QED
    BY <2>11 DEF answered, Reveals
<1> QED
  BY <1>1, <1>2, <1>3
-----------------------------------------------------------------------------
\* A step of one client leaves the rest of the others as it was.
Others(c) == \A k \in Clients \ {c} :
    m'[k] = m[k] /\ at'[k] = at[k] /\ call'[k] = call[k] /\ message'[k] = message[k]
SameDomains ==
    /\ DOMAIN call' = Clients /\ DOMAIN message' = Clients
    /\ DOMAIN answer' = Clients /\ DOMAIN result' = Clients

\* Loading the key opens two files, if so many can be opened.
LEMMA Loading ==
    ASSUME NEW k \in Mount
    PROVE  LET k2 == [k EXCEPT !.opened = load(k.opened)] IN
           k2 \in Mount /\ k2.file = k.file /\ k2.name = k.name /\ k2.dir = k.dir
<1>1. k.opened \in Int
  BY DEF Mount
<1>2. load(k.opened) = Min({k.opened + 2, MaxFiles})
  BY DEF load
<1>3. k.opened + 2 \in Int /\ MaxFiles \in Int
  BY <1>1, CryptAssumption
<1>4. load(k.opened) \in Int
  BY <1>2, <1>3, FirstOfTwo
<1> QED
  BY <1>4, MountChanges

\* A step of client c keeps the invariant when it keeps the directory typed, the open files
\* files, and what is on its way for c as it should be.
LEMMA StillSound ==
    ASSUME Sound, NEW c \in Clients, mounted' = mounted, Kept(fs, InUse, fs'),
           mounted.use = "data" => FilesOnly(fs'), m' \in [Clients -> Mount],
           at' \in [Clients -> Phases], SameDomains, Others(c), FileOpen(c)', OnItsWay(c)'
    PROVE  Sound'
<1>1. Typed'
  BY DEF Sound, Typed, Kept, SameDomains, encrypted
<1>2. ASSUME NEW k \in Clients \ {c} PROVE FileOpen(k)' /\ OnItsWay(k)'
  <2>1. FileOpen(k) /\ OnItsWay(k)
    BY DEF Sound
  <2>2. m'[k] = m[k] /\ at'[k] = at[k] /\ call'[k] = call[k] /\ message'[k] = message[k]
    BY DEF Others
  <2>3. m[k].file # 0 => fs'.node[m[k].file].kind = fs.node[m[k].file].kind
    <3>1. m[k].file \in InUse /\ m[k].file \in Nodes \cup {0}
      BY DEF InUse, Sound, Typed, Mount
    <3> QED
      BY <3>1 DEF Kept
  <2>4. FileOpen(k)'
    BY <2>1, <2>2, <2>3 DEF FileOpen
  <2>5. Wanted(k, call[k]) => Wanted(k, call[k])'
    BY <2>2 DEF Wanted
  <2>6. http' = http /\ encrypted' = encrypted
    BY DEF http, encrypted
  <2>7. OnItsWay(k)'
    BY <2>1, <2>2, <2>5, <2>6 DEF OnItsWay
  <2> QED
    BY <2>4, <2>7
<1> QED
  BY <1>1, <1>2 DEF Sound

\* A step that does not touch the contents keeps all that the others rely on.
LEMMA NothingWritten ==
    ASSUME Sound, fs' = fs
    PROVE  Kept(fs, InUse, fs') /\ (mounted.use = "data" => FilesOnly(fs'))
BY DEF Sound, Typed, Kept

\* Goto moves the client, and no other.
LEMMA GoesTo ==
    ASSUME Sound, NEW c \in Clients, NEW from, NEW to \in Phases, Goto(c, from, to)
    PROVE  /\ at[c] = from /\ at' \in [Clients -> Phases] /\ at'[c] = to
           /\ \A k \in Clients \ {c} : at'[k] = at[k]
BY DEF Sound, Typed, Goto

\* A program that gets its result back: nothing is on its way for it any more.
LEMMA ReturnSound ==
    ASSUME Sound, NEW c \in Clients, Return(c)
    PROVE  Sound'
<1>1. /\ at' \in [Clients -> Phases] /\ at'[c] = "idle"
      /\ \A k \in Clients \ {c} : at'[k] = at[k]
  BY GoesTo DEF Return, Phases
<1>2. SameDomains /\ Others(c) /\ m' = m /\ fs' = fs /\ mounted' = mounted
  BY <1>1 DEF Return, SameDomains, Others, Sound, Typed
<1>3. FileOpen(c)' /\ OnItsWay(c)'
  BY <1>1, <1>2 DEF Sound, FileOpen, OnItsWay
<1> QED
  BY <1>1, <1>2, <1>3, NothingWritten, StillSound DEF Sound, Typed

\* A connection that breaks: no message and no answer is on its way any more.
LEMMA LoseSound ==
    ASSUME Sound, NEW c \in Clients, Lose(c)
    PROVE  Sound'
<1>1. /\ at' \in [Clients -> Phases] /\ at'[c] = "done"
      /\ \A k \in Clients \ {c} : at'[k] = at[k]
  BY GoesTo DEF Lose, Phases
<1>2. SameDomains /\ Others(c) /\ m' = m /\ fs' = fs /\ mounted' = mounted
  BY <1>1 DEF Lose, SameDomains, Others, Sound, Typed
<1>3. FileOpen(c)' /\ OnItsWay(c)'
  BY <1>1, <1>2 DEF Sound, FileOpen, OnItsWay
<1> QED
  BY <1>1, <1>2, <1>3, NothingWritten, StillSound DEF Sound, Typed

\* A mount that takes its answer remembers a file as open only if the server opened it.
LEMMA ReceiveSound ==
    ASSUME Sound, NEW c \in Clients, Receive(c)
    PROVE  Sound'
<1>1. /\ at' \in [Clients -> Phases] /\ at'[c] = "done"
      /\ \A k \in Clients \ {c} : at'[k] = at[k]
  BY GoesTo DEF Receive, Phases
<1>2. fs' = fs /\ mounted' = mounted /\ call' = call /\ message' = message /\ SameDomains
  BY DEF Receive, SameDomains, Sound, Typed
<1>3. /\ m' \in [Clients -> Mount] /\ m'[c].file = m[c].file /\ m'[c].name = m[c].name
      /\ \A k \in Clients \ {c} : m'[k] = m[k]
  <2>1. m' = m \/ m' = [m EXCEPT ![c] = [m[c] EXCEPT !.opened = load(m[c].opened)]]
    BY DEF Receive
  <2>2. m \in [Clients -> Mount]
    BY DEF Sound, Typed
  <2> DEFINE k2 == [m[c] EXCEPT !.opened = load(m[c].opened)]
  <2>3. k2 \in Mount /\ k2.file = m[c].file /\ k2.name = m[c].name
    BY <2>2, Loading
  <2> HIDE DEF k2
  <2> QED
    BY <2>1, <2>2, <2>3 DEF k2
<1>4. FileOpen(c)' /\ OnItsWay(c)'
  BY <1>1, <1>2, <1>3 DEF Sound, FileOpen, OnItsWay
<1>5. Others(c)
  BY <1>1, <1>2, <1>3 DEF Others
<1> QED
  BY <1>1, <1>2, <1>3, <1>4, <1>5, NothingWritten, StillSound

\* A call of a program, which puts a message on its way in the HTTP file systems.
LEMMA CallSound ==
    ASSUME Sound, NEW c \in Clients, Call(c)
    PROVE  Sound'
<1>1. PICK q \in Requests(c) :
        /\ call' = [call EXCEPT ![c] = q]
        /\ IF http /\ q.op \notin Local_ops
           THEN /\ Goto(c, "idle", "sent")
                /\ \E msg \in Messages(q, mounted.chroot, Loaded(m[c].opened), encrypted) :
                     message' = [message EXCEPT ![c] = msg]
                /\ m' = IF encrypted /\ q.op = "write"
                        THEN [m EXCEPT ![c] = [m[c] EXCEPT !.opened = load(m[c].opened)]] ELSE m
           ELSE Goto(c, "idle", "called") /\ UNCHANGED <<message, m>>
  BY DEF Call
<1>2. fs' = fs /\ mounted' = mounted /\ answer' = answer /\ result' = result
  BY DEF Call
<1>3. m \in [Clients -> Mount] /\ FileOpen(c) /\ mounted.use \in {"data", "names", "attributes"}
      /\ DOMAIN call = Clients /\ DOMAIN message = Clients
      /\ DOMAIN answer = Clients /\ DOMAIN result = Clients
  BY DEF Sound, Typed
<1>4. Wanted(c, q)
  BY <1>3, RequestWanted DEF FileOpen
<1>5. /\ m' \in [Clients -> Mount] /\ m'[c].file = m[c].file /\ m'[c].name = m[c].name
      /\ m'[c].dir = m[c].dir /\ \A k \in Clients \ {c} : m'[k] = m[k]
  <2> DEFINE k2 == [m[c] EXCEPT !.opened = load(m[c].opened)]
  <2>1. m' = m \/ m' = [m EXCEPT ![c] = k2]
    BY <1>1
  <2>2. k2 \in Mount /\ k2.file = m[c].file /\ k2.name = m[c].name /\ k2.dir = m[c].dir
    BY <1>3, Loading
  <2> HIDE DEF k2
  <2> QED
    BY <1>3, <2>1, <2>2
<1>6. call'[c] = q /\ \A k \in Clients \ {c} : call'[k] = call[k]
  BY <1>1, <1>3
<1>7. Wanted(c, call[c])'
  BY <1>2, <1>4, <1>5, <1>6 DEF Wanted
<1>8. http' = http /\ encrypted' = encrypted
  BY <1>2 DEF http, encrypted
<1>9. FileOpen(c)'
  BY <1>2, <1>3, <1>5 DEF FileOpen
<1>10. CASE http /\ q.op \notin Local_ops
  <2>1. Goto(c, "idle", "sent")
    BY <1>1, <1>10
  <2>2. /\ at' \in [Clients -> Phases] /\ at'[c] = "sent"
        /\ \A k \in Clients \ {c} : at'[k] = at[k]
    BY <2>1, GoesTo DEF Phases
  <2>3. PICK msg \in Messages(q, mounted.chroot, Loaded(m[c].opened), encrypted) :
          message' = [message EXCEPT ![c] = msg]
    BY <1>1, <1>10
  <2>4. message'[c] = msg /\ (\A k \in Clients \ {c} : message'[k] = message[k])
        /\ DOMAIN message' = Clients
    BY <1>3, <2>3
  <2>5. Loaded(m[c].opened) \in BOOLEAN
    BY DEF Loaded
  <2>6. \E loaded \in BOOLEAN :
          message'[c] \in Messages(call'[c], mounted'.chroot, loaded, encrypted')
    BY <1>2, <1>6, <1>8, <2>3, <2>4, <2>5, Zenon
  <2>7. OnItsWay(c)'
    BY <1>6, <1>7, <1>8, <1>10, <2>2, <2>6 DEF OnItsWay
  <2>8. SameDomains /\ Others(c)
    BY <1>1, <1>2, <1>3, <1>5, <1>6, <2>2, <2>4 DEF SameDomains, Others
  <2> QED
    BY <1>2, <1>5, <1>9, <2>2, <2>7, <2>8, NothingWritten, StillSound
<1>11. CASE ~ (http /\ q.op \notin Local_ops)
  <2>1. Goto(c, "idle", "called") /\ message' = message
    BY <1>1, <1>11
  <2>2. /\ at' \in [Clients -> Phases] /\ at'[c] = "called"
        /\ \A k \in Clients \ {c} : at'[k] = at[k]
    BY <2>1, GoesTo DEF Phases
  <2>3. OnItsWay(c)'
    BY <1>6, <1>7, <1>8, <1>11, <2>2 DEF OnItsWay
  <2>4. SameDomains /\ Others(c)
    BY <1>1, <1>2, <1>3, <1>5, <1>6, <2>1, <2>2 DEF SameDomains, Others
  <2> QED
    BY <1>2, <1>5, <1>9, <2>2, <2>3, <2>4, NothingWritten, StillSound
<1> QED
  BY <1>10, <1>11

\* What a mount has open after a call is a file.
LEMMA OpenFinds ==
    ASSUME NEW f \in Directory, NEW n \in Names, open(f, n).ok
    PROVE  /\ NodeOf(f, n) \in Nodes /\ f.node[NodeOf(f, n)].kind = "file"
           /\ open(f, n).fs = f
<1>1. Leads(f, n, {"file"}) /\ open(f, n).fs = f
  BY DEF open, If, Refused, Done
<1> QED
  BY <1>1, LeadsTo

\* The file that a mount remembers as open stays a file that its name leads to.
LEMMA KeepsOpen ==
    ASSUME Sound, NEW c \in Clients, NEW q, Wanted(c, q), NEW r \in Outcomes(fs, InUse, m[c].file, q),
           fs' = r.fs, mounted' = mounted, Kept(fs, InUse, fs'), NEW k2, k2 = m'[c],
           Keeps(m[c], k2, fs, q, r.ok)
    PROVE  FileOpen(c)'
<1>1. FileOpen(c) /\ fs \in Directory /\ m[c] \in Mount /\ m[c].file \in InUse
  BY DEF Sound, Typed, InUse
<1>2. CASE q.op = "open" /\ r.ok
  <2>1. r = open(fs, q.name) /\ q.name \in Names /\ mounted.use = "data"
    BY <1>2 DEF Outcomes, Wanted, Named, DirOps
  <2>2. fs' = fs /\ fs.node[NodeOf(fs, q.name)].kind = "file"
    BY <1>1, <1>2, <2>1, OpenFinds
  <2>3. m'[c].file = NodeOf(fs, q.name) /\ m'[c].name = q.name
    BY <1>2 DEF Keeps
  <2> QED
    BY <2>1, <2>2, <2>3 DEF FileOpen
<1>3. CASE q.op = "release"
  BY <1>3 DEF Keeps, FileOpen
<1>4. CASE ~ (q.op = "open" /\ r.ok) /\ q.op # "release"
  <2>1. m'[c].file = m[c].file /\ m'[c].name = m[c].name
    BY <1>4 DEF Keeps
  <2>2. m[c].file # 0 => fs'.node[m[c].file].kind = fs.node[m[c].file].kind
    BY <1>1 DEF Kept, Mount
  <2> QED
    BY <1>1, <2>1, <2>2 DEF FileOpen
<1> QED
  BY <1>2, <1>3, <1>4

\* Whatever the local file system does for a call keeps what the invariant says of the
\* contents.
LEMMA Carried ==
    ASSUME Sound, NEW c \in Clients, NEW q, Wanted(c, q), NEW r \in Outcomes(fs, InUse, m[c].file, q)
    PROVE  Outcome_ok(fs, InUse, q, r)
<1>1. FileOpen(c) /\ fs \in Directory /\ m[c].file \in Nodes \cup {0}
  BY DEF Sound, Typed, Mount
<1>2. q.op \in FileOps => m[c].file # 0 /\ fs.node[m[c].file].kind = "file"
  BY <1>1 DEF Wanted, FileOpen
<1> QED
  BY <1>1, <1>2, CallKeeps DEF Wanted

\* A handler of dnfs does to the contents, to what the mount remembers and to the result what
\* the local call does.
LEMMA Dnfs_handlerDoes ==
    ASSUME Sound, NEW c \in Clients, Dnfs_handler(c), ~ diverged'
    PROVE  /\ Wanted(c, call[c])
           /\ \E r \in Outcomes(fs, InUse, m[c].file, call[c]), k2 \in Mount :
                /\ fs' = r.fs /\ Keeps(m[c], k2, fs, call[c], r.ok)
                /\ m' = [m EXCEPT ![c] = k2]
                /\ result' = [result EXCEPT ![c] = [ok |-> r.ok, out |-> r.out]]
<1> DEFINE q == call[c]
<1>1. at[c] = "called"
  BY DEF Dnfs_handler, Goto
<1>2. Wanted(c, q) /\ fs \in Directory /\ m[c] \in Mount
  BY <1>1 DEF Sound, Typed, OnItsWay
<1>3. PICK r \in dnfs_oper(fs, InUse, m[c], q) :
        /\ fs' = r.fs
        /\ m' = [m EXCEPT ![c] = r.m]
        /\ result' = [result EXCEPT ![c] = [ok |-> r.ok, out |-> r.out]]
        /\ ~ (q.op = "readdir" /\ m[c].dir = "end") /\ ~ Masks(q, r.ok)
  BY DEF Dnfs_handler
<1>4. q.op = "readdir" => m[c].dir = "start"
  BY <1>2, <1>3 DEF Wanted, Mount
<1> HIDE DEF q
<1>5. PICK r2 \in Outcomes(fs, InUse, m[c].file, q) :
        /\ r.ok = r2.ok /\ r.fs = r2.fs /\ r.out = r2.out
        /\ Keeps(m[c], r.m, fs, q, r2.ok)
  BY <1>2, <1>3, <1>4, DnfsCalls DEF Wanted
<1>6. r.m \in Mount
  BY <1>5 DEF Keeps
<1>7. /\ fs' = r2.fs /\ m' = [m EXCEPT ![c] = r.m]
      /\ result' = [result EXCEPT ![c] = [ok |-> r2.ok, out |-> r2.out]]
  BY <1>3, <1>5
<1>8. \E r3 \in Outcomes(fs, InUse, m[c].file, q), k2 \in Mount :
        /\ fs' = r3.fs /\ Keeps(m[c], k2, fs, q, r3.ok)
        /\ m' = [m EXCEPT ![c] = k2]
        /\ result' = [result EXCEPT ![c] = [ok |-> r3.ok, out |-> r3.out]]
  BY <1>5, <1>6, <1>7
<1> QED
  BY <1>2, <1>8 DEF q

\* Therefore it keeps the invariant.
LEMMA Dnfs_handlerSound ==
    ASSUME Sound, NEW c \in Clients, Dnfs_handler(c), ~ diverged'
    PROVE  Sound'
<1> DEFINE q == call[c]
<1>1. PICK r \in Outcomes(fs, InUse, m[c].file, q), k2 \in Mount :
        fs' = r.fs /\ Keeps(m[c], k2, fs, q, r.ok) /\ m' = [m EXCEPT ![c] = k2]
  BY Dnfs_handlerDoes
<1>2. Wanted(c, q)
  BY Dnfs_handlerDoes
<1>3. /\ at' \in [Clients -> Phases] /\ at'[c] = "done"
      /\ \A k \in Clients \ {c} : at'[k] = at[k]
  BY GoesTo DEF Dnfs_handler, Phases
<1>4. mounted' = mounted /\ call' = call /\ message' = message /\ SameDomains
  BY DEF Dnfs_handler, SameDomains, Sound, Typed
<1>5. m' \in [Clients -> Mount] /\ m'[c] = k2 /\ \A k \in Clients \ {c} : m'[k] = m[k]
  BY <1>1 DEF Sound, Typed
<1> HIDE DEF q
<1>6. Outcome_ok(fs, InUse, q, r)
  BY <1>1, <1>2, Carried
<1>7. Kept(fs, InUse, fs') /\ (mounted.use = "data" => FilesOnly(fs'))
  BY <1>1, <1>2, <1>6 DEF Outcome_ok, Wanted, Sound, Typed
<1>8. FileOpen(c)'
  BY <1>1, <1>2, <1>4, <1>5, <1>7, KeepsOpen
<1>9. OnItsWay(c)' /\ Others(c)
  BY <1>3, <1>4, <1>5 DEF OnItsWay, Others
<1> QED
  BY <1>3, <1>4, <1>5, <1>7, <1>8, <1>9, StillSound

\* With files only, a name leads to its own entry.
LEMMA NoLinks ==
    ASSUME NEW f \in Directory, FilesOnly(f), NEW n \in Names
    PROVE  Target(f, n) = n /\ NodeOf(f, n) = f.dir[n]
<1>1. Kind(f, n) # "link"
  BY DEF Kind, FilesOnly
<1> QED
  BY <1>1 DEF Target, NodeOf

\* What a mount answers by itself, and when that is what a local file system would.
Local_result(f, q) == IF q.op = "mkfifo" THEN Refused(f) ELSE Done(f, <<>>)
Settled(f, use, q) ==
    /\ q.op = "open" => open(f, q.name).ok
    /\ q.op = "access" => access(f, q.name, q.mode).ok
    /\ q.op = "mkfifo" => ~ mkfifo(f, use, q.name, q.mode).ok

\* A handler of the HTTP file systems that asks nothing of the server succeeds, unless there is
\* none, and opens what open would open.
LEMMA Http_handlerDoes ==
    ASSUME Sound, NEW c \in Clients, Http_handler(c), ~ diverged'
    PROVE  /\ Wanted(c, call[c]) /\ call[c].op \in Local_ops /\ http
           /\ Settled(fs, InUse, call[c])
           /\ \E k2 \in Mount :
                m' = [m EXCEPT ![c] = k2] /\ Keeps(m[c], k2, fs, call[c], TRUE)
<1> DEFINE q == call[c]
           k == m[c]
<1>1. at[c] = "called" /\ http
  BY DEF Http_handler, Goto
<1>2. Wanted(c, q) /\ q.op \in Local_ops /\ fs \in Directory /\ k \in Mount
  BY <1>1 DEF Sound, Typed, OnItsWay
<1>3. Settled(fs, InUse, q)
  <2>1. ~ Unasked(q)
    BY DEF Http_handler
  <2> QED
    BY <2>1 DEF Unasked, Settled
<1> DEFINE k2 == CASE q.op = "open" -> [k EXCEPT !.file = fs.dir[q.name], !.name = q.name]
                     [] q.op = "release" -> [k EXCEPT !.file = 0]
                     [] q.op = "opendir" -> [k EXCEPT !.dir = "start"]
                     [] q.op = "releasedir" -> [k EXCEPT !.dir = "closed"]
                     [] OTHER -> k
<1>5. m' = [m EXCEPT ![c] = k2]
  BY Zenon DEF Http_handler
<1>6. k2 \in Mount /\ Keeps(k, k2, fs, q, TRUE)
  <2>1. CASE q.op = "open"
    <3>1. k2 = Opening(k, fs.dir[q.name], q.name)
      BY <2>1, Zenon DEF Opening
    <3>2. q.name \in Names /\ q.name \in Paths /\ mounted.use = "data"
      BY <1>2, <2>1 DEF Wanted, Named, DirOps, Paths
    <3>3. NodeOf(fs, q.name) = fs.dir[q.name] /\ fs.dir[q.name] \in Nodes \cup {0}
      BY <1>2, <3>2, NoLinks DEF Sound, Typed, Directory
    <3> HIDE DEF k2, q, k
    <3>4. k2 \in Mount /\ k2.file = fs.dir[q.name] /\ k2.name = q.name
      BY <1>2, <3>1, <3>2, <3>3, OpeningIs
    <3> QED
      BY <2>1, <3>3, <3>4 DEF Keeps
  <2>2. CASE q.op = "release"
    <3>1. k2 = [k EXCEPT !.file = 0]
      BY <2>2, Zenon
    <3> HIDE DEF k2, q, k
    <3>2. k2 \in Mount /\ k2.file = 0 /\ k2.name = k.name
      BY <1>2, <3>1, MountChanges
    <3> QED
      BY <2>2, <3>2 DEF Keeps
  <2>3. CASE q.op \in {"opendir", "releasedir"}
    <3>1. PICK d \in {"closed", "start"} : k2 = [k EXCEPT !.dir = d]
      BY <2>3, Zenon
    <3> HIDE DEF k2, q, k
    <3>2. k2 \in Mount /\ k2.file = k.file /\ k2.name = k.name
      BY <1>2, <3>1, MountChanges
    <3> QED
      BY <2>3, <3>2 DEF Keeps
  <2>4. CASE q.op \in {"access", "mkfifo"}
    <3>1. k2 = k
      BY <2>4, Zenon
    <3> HIDE DEF k2, q, k
    <3> QED
      BY <1>2, <2>4, <3>1 DEF Keeps
  <2> QED
    BY <1>2, <2>1, <2>2, <2>3, <2>4 DEF Local_ops
<1> HIDE DEF k2
<1>7. \E x \in Mount : m' = [m EXCEPT ![c] = x] /\ Keeps(m[c], x, fs, call[c], TRUE)
  BY <1>5, <1>6
<1> QED
  BY <1>1, <1>2, <1>3, <1>7

\* So a mount that answers by itself does what a local file system would.
LEMMA LocalOps ==
    ASSUME NEW f \in Directory, NEW use, NEW i, NEW q \in Request, Named(q), q.op \in Local_ops,
           Settled(f, use, q)
    PROVE  Local_result(f, q) \in Outcomes(f, use, i, q)
<1>1. CASE q.op = "open"
  <2>1. Outcomes(f, use, i, q) = {open(f, q.name)} /\ Local_result(f, q) = Done(f, <<>>)
    BY <1>1 DEF Outcomes, Local_result
  <2>2. open(f, q.name).ok
    BY <1>1 DEF Settled
  <2>3. open(f, q.name) = Done(f, <<>>)
    BY <2>2 DEF open, If, Refused
  <2> QED
    BY <2>1, <2>3
<1>2. CASE q.op \in {"release", "opendir", "releasedir"}
  BY <1>2 DEF Outcomes, Local_result
<1>3. CASE q.op = "access"
  <2>1. Outcomes(f, use, i, q) = {access(f, q.name, q.mode)}
        /\ Local_result(f, q) = Done(f, <<>>)
    BY <1>3 DEF Outcomes, Local_result
  <2>2. access(f, q.name, q.mode).ok
    BY <1>3 DEF Settled
  <2>3. access(f, q.name, q.mode) = Done(f, <<>>)
    BY <2>2 DEF access, If, Refused
  <2> QED
    BY <2>1, <2>3
<1>4. CASE q.op = "mkfifo"
  <2> DEFINE r == mkfifo(f, use, q.name, q.mode)
  <2>1. Outcomes(f, use, i, q) = {r} /\ Local_result(f, q) = Refused(f)
    BY <1>4 DEF Outcomes, Local_result
  <2>2. ~ r.ok
    BY <1>4 DEF Settled
  <2>3. r = Refused(f)
    BY <2>2 DEF mkfifo, Make, If, Done
  <2> HIDE DEF r
  <2> QED
    BY <2>1, <2>3
<1> QED
  BY <1>1, <1>2, <1>3, <1>4 DEF Local_ops

\* Therefore it keeps the invariant.
LEMMA Http_handlerSound ==
    ASSUME Sound, NEW c \in Clients, Http_handler(c), ~ diverged'
    PROVE  Sound'
<1> DEFINE q == call[c]
           r == Local_result(fs, q)
<1>1. PICK k2 \in Mount : m' = [m EXCEPT ![c] = k2] /\ Keeps(m[c], k2, fs, q, TRUE)
  BY Http_handlerDoes
<1>2. Wanted(c, q) /\ q.op \in Local_ops /\ Settled(fs, InUse, q)
  BY Http_handlerDoes
<1>3. /\ at' \in [Clients -> Phases] /\ at'[c] = "done"
      /\ \A k \in Clients \ {c} : at'[k] = at[k]
  BY GoesTo DEF Http_handler, Phases
<1>4. fs' = fs /\ mounted' = mounted /\ call' = call /\ message' = message /\ SameDomains
  BY DEF Http_handler, SameDomains, Sound, Typed
<1>5. m' \in [Clients -> Mount] /\ m'[c] = k2 /\ \A k \in Clients \ {c} : m'[k] = m[k]
  BY <1>1 DEF Sound, Typed
<1>6. Kept(fs, InUse, fs') /\ (mounted.use = "data" => FilesOnly(fs')) /\ fs \in Directory
  BY <1>4, NothingWritten DEF Sound, Typed
<1> HIDE DEF q
<1>7. r \in Outcomes(fs, InUse, m[c].file, q)
  BY <1>2, <1>6, LocalOps DEF Wanted
<1>8. r.fs = fs' /\ r.ok = (q.op # "mkfifo")
  BY <1>4 DEF Local_result, Done, Refused
<1> HIDE DEF r
<1>9. FileOpen(c)'
  <2>1. Keeps(m[c], k2, fs, q, r.ok)
    BY <1>1, <1>8 DEF Keeps
  <2> QED
    BY <1>2, <1>4, <1>5, <1>6, <1>7, <1>8, <2>1, KeepsOpen
<1>10. OnItsWay(c)' /\ Others(c)
  BY <1>3, <1>4, <1>5 DEF OnItsWay, Others
<1> QED
  BY <1>3, <1>4, <1>5, <1>6, <1>9, <1>10, StillSound

\* What the server does about a message when it does not diverge.
Serves(c, q, may, a) ==
    /\ may \in Permissions(q) /\ a = Server!call(fs, InUse, message[c], may)
    /\ fs' = a.fs /\ answer' = [answer EXCEPT ![c] = [status |-> a.status, data |-> a.data]]
    /\ Agreed(fs, m[c].file, q, mounted.chroot, may) /\ Answered_mode(q, a.status = "OK")
    /\ q.op = "write" => Garbage \notin Range(message[c].data)
    /\ encrypted /\ q.op \in {"truncate", "ftruncate"} /\ Kind(fs, q.name) = "file" =>
         q.off <= Size(fs, q.name)

\* The server takes a message that is on its way, of a call that the invariant allows.
LEMMA ServeDoes ==
    ASSUME Sound, NEW c \in Clients, Serve(c), ~ diverged'
    PROVE  /\ Wanted(c, call[c]) /\ call[c].op \notin Local_ops /\ http
           /\ \E loaded \in BOOLEAN :
                message[c] \in Messages(call[c], mounted.chroot, loaded, encrypted)
           /\ \E may, a : Serves(c, call[c], may, a)
<1> DEFINE q == call[c]
<1>1. at[c] = "sent"
  BY DEF Serve, Goto
<1>2. /\ Wanted(c, q) /\ q.op \notin Local_ops /\ http
      /\ \E loaded \in BOOLEAN : message[c] \in Messages(q, mounted.chroot, loaded, encrypted)
  BY <1>1 DEF Sound, OnItsWay
<1>3. PICK may \in Permissions(q) :
        LET a == Server!call(fs, InUse, message[c], may) IN
        /\ fs' = a.fs /\ answer' = [answer EXCEPT ![c] = [status |-> a.status, data |-> a.data]]
        /\ diverged' = (diverged \/ Diverges(c, may, a.status = "OK"))
  BY DEF Serve
<1> DEFINE ok == Server!call(fs, InUse, message[c], may).status = "OK"
<1>4. ~ Diverges(c, may, ok)
  BY <1>3
<1> HIDE DEF ok
<1>12. Answered_mode(q, ok)
  <2>1. q.op = "create" /\ ok => q.mode = Masked(Perms)
    BY <1>4 DEF Diverges
  <2>2. q.op = "mkdir" => ~ Masks(q, ok)
    BY <1>4 DEF Diverges
  <2> QED
    BY <2>1, <2>2 DEF Answered_mode, Masks
<1>5. m[c].file # 0 => fs.node[m[c].file].kind = "file"
  BY DEF Sound, FileOpen
<1>8. Agreed(fs, m[c].file, q, mounted.chroot, may)
  <2>1. q.op \in FileOps =>
          m[c].file # 0 /\ fs.node[m[c].file].kind = "file" /\ fs.dir[q.name] = m[c].file
    BY <1>2, <1>4, <1>5 DEF Diverges, FileOps, Wanted
  <2>2. q.op = "write" => q.off = Size(fs, q.name)
    BY <1>4 DEF Diverges
  <2>3. q.op = "create" => Kind(fs, q.name) \notin {"file", "link"}
    BY <1>4 DEF Diverges
  <2>4. q.op = "symlink" => ~ mounted.chroot
    BY <1>4 DEF Diverges
  <2>5. q.op = "chown" /\ q.owner # Keep /\ q.group # Keep => may.user = may.group
    BY <1>4 DEF Diverges
  <2> QED
    BY <2>1, <2>2, <2>3, <2>4, <2>5 DEF Agreed
<1>9. q.op = "write" => Garbage \notin Range(message[c].data)
  BY <1>4 DEF Diverges
<1>10. encrypted /\ q.op \in {"truncate", "ftruncate"} /\ Kind(fs, q.name) = "file" =>
         q.off <= Size(fs, q.name)
  <2>1. ASSUME encrypted, q.op \in {"truncate", "ftruncate"}, Kind(fs, q.name) = "file"
        PROVE  q.off <= Size(fs, q.name)
    <3>1. ~ (q.off > Size(fs, q.name))
      BY <1>4, <2>1 DEF Diverges
    <3>2. q.off \in Nat /\ q.name \in Names /\ fs \in Directory
      BY <1>2, <2>1 DEF Wanted, Named, DirOps, Request, Sound, Typed
    <3>3. fs.dir[q.name] \in Nodes /\ fs.node[fs.dir[q.name]].kind = "file"
      BY <2>1, <3>2 DEF Kind, Directory
    <3>4. Size(fs, q.name) \in Nat
      BY <3>2, <3>3 DEF Size, Directory, Node
    <3> QED
      BY <3>1, <3>2, <3>4
  <2> QED
    BY <2>1
<1>11. Serves(c, q, may, Server!call(fs, InUse, message[c], may))
  BY <1>3, <1>8, <1>9, <1>10, <1>12 DEF Serves, ok
<1> QED
  BY <1>2, <1>11

\* The server keeps the invariant: what it answers is what the mount waits for.
LEMMA ServeSound ==
    ASSUME Sound, NEW c \in Clients, Serve(c), ~ diverged'
    PROVE  Sound'
<1> DEFINE q == call[c]
           i == m[c].file
<1>1. PICK loaded \in BOOLEAN : message[c] \in Messages(q, mounted.chroot, loaded, encrypted)
  BY ServeDoes
<1>2. PICK may, a : Serves(c, q, may, a)
  BY ServeDoes
<1>3. Wanted(c, q) /\ q.op \notin Local_ops /\ http
  BY ServeDoes
<1>4. /\ at' \in [Clients -> Phases] /\ at'[c] = "answered"
      /\ \A k \in Clients \ {c} : at'[k] = at[k]
  BY GoesTo DEF Serve, Phases
<1>5. /\ mounted' = mounted /\ call' = call /\ m' = m
      /\ SameDomains /\ \A k \in Clients \ {c} : message'[k] = message[k]
  BY DEF Serve, SameDomains, Sound, Typed
<1>6. m \in [Clients -> Mount] /\ fs \in Directory /\ i \in Nodes \cup {0} /\ i \in InUse
  BY DEF Sound, Typed, Mount, InUse
<1> HIDE DEF q, i
<1>7. Obtained(fs, InUse, q, fs')
  BY <1>1, <1>2, <1>3, <1>6, Served DEF Wanted, Serves, i
<1>8. Kept(fs, InUse, fs') /\ (mounted.use = "data" => FilesOnly(fs'))
  BY <1>3, <1>7 DEF Obtained, Wanted, Sound, Typed
<1>9. FileOpen(c)'
  <2>1. FileOpen(c)
    BY DEF Sound
  <2>2. i # 0 => fs'.node[i].kind = fs.node[i].kind
    BY <1>6, <1>8 DEF Kept
  <2> QED
    BY <1>5, <2>1, <2>2 DEF FileOpen, i
<1>10. OnItsWay(c)'
  BY <1>3, <1>4, <1>5 DEF OnItsWay, Wanted, http, q
<1>11. Others(c)
  BY <1>4, <1>5 DEF Others
<1> QED
  BY <1>4, <1>5, <1>6, <1>8, <1>9, <1>10, <1>11, StillSound

\* Sound is kept until something diverges.
LEMMA NextSound ==
    ASSUME Sound, [Next]_vars, ~ diverged'
    PROVE  Sound'
<1>1. CASE UNCHANGED vars
  BY <1>1 DEF vars, Sound, Typed, FileOpen, OnItsWay, Wanted, http, encrypted
<1>2. CASE Next
  <2> PICK c \in Clients :
        \/ Call(c) \/ Dnfs_handler(c) \/ Http_handler(c) \/ Serve(c) \/ Receive(c) \/ Lose(c)
        \/ Return(c)
    BY <1>2 DEF Next
  <2> QED
    BY CallSound, Dnfs_handlerSound, Http_handlerSound, ServeSound, ReceiveSound, LoseSound,
       ReturnSound
<1> QED
  BY <1>1, <1>2

\* What has diverged once stays so.
LEMMA DivergedStays ==
    ASSUME [Next]_vars, diverged
    PROVE  diverged'
BY Zenon DEF Next, vars, Call, Dnfs_handler, Http_handler, Serve, Receive, Lose, Return

\* Up to a step that no local file system makes: the directory keeps its form, whatever the
\* server and the mounts do to it; a file that a mount has open stays a regular file; and what is
\* on its way between a mount and the server is the message of the call that its program made.
THEOREM Soundness == Spec => []Inv
<1>1. Init => Inv
  BY InitSound DEF Inv
<1>2. Inv /\ [Next]_vars => Inv'
  <2> SUFFICES ASSUME Inv, [Next]_vars, ~ diverged' PROVE Sound'
    BY DEF Inv
  <2>1. ~ diverged
    BY DivergedStays
  <2> QED
    BY <2>1, NextSound DEF Inv
<1> QED
  BY <1>1, <1>2, PTL DEF Spec
-----------------------------------------------------------------------------
\* The state of the local file system that the mounts stand for.
Phase(a) == IF a = "sent" THEN "called" ELSE IF a = "answered" THEN "done" ELSE a
PhaseOf == [c \in Clients |-> Phase(at[c])]
OpenFiles == [c \in Clients |-> m[c].file]
ResultOf(c) ==
    IF at[c] = "answered" THEN Promise(call[c], answer[c], encrypted) ELSE result[c]
Results == [c \in Clients |-> ResultOf(c)]

\* A client that goes from one phase to the next does so in the local file system.
LEMMA PhaseGoes ==
    ASSUME Sound, NEW c \in Clients, NEW from, NEW to, Goto(c, from, to)
    PROVE  PhaseOf[c] = Phase(from) /\ PhaseOf' = [PhaseOf EXCEPT ![c] = Phase(to)]
<1>1. DOMAIN at = Clients /\ at[c] = from /\ at' = [at EXCEPT ![c] = to]
  BY DEF Sound, Typed, Goto
<1>2. PhaseOf' = [k \in Clients |-> Phase(at'[k])]
  BY DEF PhaseOf, Phase
<1>3. ASSUME NEW k \in Clients PROVE Phase(at'[k]) = IF k = c THEN Phase(to) ELSE PhaseOf[k]
  BY <1>1 DEF PhaseOf
<1> QED
  BY <1>1, <1>2, <1>3 DEF PhaseOf

\* The local file system has open what the mount remembers.
LEMMA OpenFilesBecome ==
    ASSUME Sound, NEW c \in Clients, NEW k2, m' = [m EXCEPT ![c] = k2]
    PROVE  OpenFiles' = [OpenFiles EXCEPT ![c] = k2.file]
<1>1. DOMAIN m = Clients
  BY DEF Sound, Typed
<1> QED
  BY <1>1 DEF OpenFiles

\* The results of the local file system change for the client of a step only.
LEMMA ResultsBecome ==
    ASSUME Sound, NEW c \in Clients, mounted' = mounted,
           \A k \in Clients \ {c} :
             at'[k] = at[k] /\ call'[k] = call[k] /\ answer'[k] = answer[k] /\ result'[k] = result[k],
           NEW v, v = ResultOf(c)'
    PROVE  Results' = [Results EXCEPT ![c] = v]
<1>1. encrypted' = encrypted
  BY DEF encrypted
<1>2. ASSUME NEW k \in Clients \ {c} PROVE ResultOf(k)' = ResultOf(k)
  BY <1>1 DEF ResultOf
<1>3. Results' = [k \in Clients |-> ResultOf(k)']
  BY DEF Results
<1> QED
  BY <1>2, <1>3 DEF Results

\* The result of a client without an answer on its way is the one that its handler stores.
LEMMA ResultTold ==
    ASSUME Sound, NEW c \in Clients, NEW from, NEW to \in {"idle", "done"}, Goto(c, from, to),
           mounted' = mounted, NEW v, result' = [result EXCEPT ![c] = v],
           \A k \in Clients \ {c} : call'[k] = call[k] /\ answer'[k] = answer[k]
    PROVE  Results' = [Results EXCEPT ![c] = v]
<1>1. DOMAIN at = Clients /\ DOMAIN result = Clients
  BY DEF Sound, Typed
<1>2. at'[c] = to /\ result'[c] = v
  BY <1>1 DEF Goto
<1>3. \A k \in Clients \ {c} :
        at'[k] = at[k] /\ call'[k] = call[k] /\ answer'[k] = answer[k] /\ result'[k] = result[k]
  BY <1>1 DEF Goto
<1>4. v = ResultOf(c)'
  BY <1>2 DEF ResultOf
<1> QED
  BY <1>3, <1>4, ResultsBecome

\* The mounts show the same when the server has the same.
LEMMA ShownStays ==
    ASSUME fs' = fs, mounted' = mounted
    PROVE  Shown' = Shown
BY DEF Shown, encrypted, Decrypted

\* What the mounts show after a step.
LEMMA ShownBecomes ==
    ASSUME Sound, fs' \in Directory, mounted' = mounted
    PROVE  Shown' = IF encrypted THEN Cleared(fs') ELSE fs'
<1>1. encrypted' = encrypted
  BY DEF encrypted
<1>2. Shown' = IF encrypted
               THEN [fs' EXCEPT !.node = [i \in Nodes |-> Decrypted(fs'.node[i])]] ELSE fs'
  BY <1>1 DEF Shown
<1> QED
  BY <1>2, DecryptedIs

\* The results that the mapping of Mounts gives to the local file system.
LEMMA ResultsAre ==
    /\ Results = [k \in Clients |-> IF at[k] = "answered" THEN Promised(k) ELSE result[k]]
    /\ Results' = [k \in Clients |-> IF at'[k] = "answered" THEN Promised(k)' ELSE result'[k]]
BY DEF Results, ResultOf, Promised, Promise

\* Its steps, in these terms.
LEMMA BeginIs ==
    ASSUME NEW c \in Clients, PhaseOf[c] = "idle", PhaseOf' = [PhaseOf EXCEPT ![c] = "called"],
           NEW q, call' = [call EXCEPT ![c] = q], call'[c] = q,
           Shown' = Shown, OpenFiles' = OpenFiles, Results' = Results
    PROVE  Local!Begin(c)
<1>1. Local!Goto(c, {"idle"}, "called")
  BY DEF Local!Goto, PhaseOf, Phase
<1> QED
  BY <1>1, ResultsAre, Zenon DEF Local!Begin, OpenFiles

\* When the state that the mounts stand for changes like this, the connection of the client
\* broke in the local file system.
LEMMA BreakIs ==
    ASSUME NEW c \in Clients, PhaseOf[c] \in {"called", "done"},
           PhaseOf' = [PhaseOf EXCEPT ![c] = "done"],
           Results' = [Results EXCEPT ![c] = Broken],
           Shown' = Shown, OpenFiles' = OpenFiles, call' = call
    PROVE  Local!Break(c)
<1>1. Local!Goto(c, {"called", "done"}, "done")
  BY DEF Local!Goto, PhaseOf, Phase
<1> QED
  BY <1>1, ResultsAre, Zenon DEF Local!Break, OpenFiles

\* The same for the end of a call.
LEMMA EndIs ==
    ASSUME NEW c \in Clients, PhaseOf[c] = "done", PhaseOf' = [PhaseOf EXCEPT ![c] = "idle"],
           call' = [call EXCEPT ![c] = NoRequest], Results' = [Results EXCEPT ![c] = NoResult],
           Shown' = Shown, OpenFiles' = OpenFiles
    PROVE  Local!End(c)
<1>1. Local!Goto(c, {"done"}, "idle")
  BY DEF Local!Goto, PhaseOf, Phase
<1> QED
  BY <1>1, ResultsAre, Zenon DEF Local!End, OpenFiles

\* What a client has open after a call.
Holds(q, ok, file, found) ==
    IF q.op = "open" /\ ok THEN found ELSE IF q.op = "release" THEN 0 ELSE file

\* The same for the step that carries a call out.
LEMMA CarryOutIs ==
    ASSUME NEW c \in Clients, PhaseOf[c] = "called", PhaseOf' = [PhaseOf EXCEPT ![c] = "done"],
           NEW r \in Outcomes(Shown, InUse, m[c].file, call[c]), Shown' = r.fs,
           Results' = [Results EXCEPT ![c] = [ok |-> r.ok, out |-> r.out]],
           OpenFiles' = [OpenFiles EXCEPT ![c] =
                           Holds(call[c], r.ok, m[c].file, NodeOf(Shown, call[c].name))],
           call' = call
    PROVE  Local!CarryOut(c)
<1> DEFINE h == Holds(call[c], r.ok, m[c].file, NodeOf(Shown, call[c].name))
           x == CASE Local!Opens(call[c], r.ok) -> Local!NodeOf(Shown, call[c].name)
                  [] call[c].op = "release" -> 0
                  [] OTHER -> m[c].file
<1>1. Local!Goto(c, {"called"}, "done")
  BY DEF Local!Goto, PhaseOf, Phase
<1>2. x = h
  <2>1. Local!NodeOf(Shown, call[c].name) = NodeOf(Shown, call[c].name)
    BY LocalCalls
  <2> QED
    BY <2>1, Zenon DEF Holds, Local!Opens
<1>3. OpenFiles' = [OpenFiles EXCEPT ![c] = x] /\ OpenFiles[c] = m[c].file
  BY <1>2 DEF OpenFiles
<1>4. r \in Local!Outcomes(c, call[c])
  BY LocalOutcomes
<1> QED
  BY <1>1, <1>3, <1>4, ResultsAre, Zenon DEF Local!CarryOut, OpenFiles

\* A call of a program begins one of the local file system.
LEMMA CallBegins ==
    ASSUME Sound, NEW c \in Clients, Call(c)
    PROVE  Local!Begin(c)
<1>1. PICK q \in Requests(c), to \in {"sent", "called"} :
        /\ call' = [call EXCEPT ![c] = q] /\ Goto(c, "idle", to)
        /\ m' = m \/ m' = [m EXCEPT ![c] = [m[c] EXCEPT !.opened = load(m[c].opened)]]
  BY DEF Call
<1>2. fs' = fs /\ mounted' = mounted /\ answer' = answer /\ result' = result
  BY DEF Call
<1>3. DOMAIN call = Clients /\ DOMAIN at = Clients /\ m \in [Clients -> Mount]
  BY DEF Sound, Typed
<1>4. PhaseOf[c] = "idle" /\ PhaseOf' = [PhaseOf EXCEPT ![c] = "called"]
  BY <1>1, PhaseGoes DEF Phase
<1>5. call'[c] = q /\ \A k \in Clients \ {c} : call'[k] = call[k]
  BY <1>1, <1>3
<1>6. OpenFiles' = OpenFiles
  <2> DEFINE k2 == [m[c] EXCEPT !.opened = load(m[c].opened)]
  <2>1. k2.file = m[c].file
    BY <1>3, Loading
  <2>2. m' = m \/ m' = [m EXCEPT ![c] = k2]
    BY <1>1
  <2> HIDE DEF k2
  <2>3. \A k \in Clients : m'[k].file = m[k].file
    BY <1>3, <2>1, <2>2
  <2> QED
    BY <2>3 DEF OpenFiles
<1>7. Results' = Results
  <2>1. at[c] = "idle" /\ at'[c] \in {"sent", "called"} /\ \A k \in Clients \ {c} : at'[k] = at[k]
    BY <1>1, <1>3 DEF Goto
  <2>2. ResultOf(c)' = result[c] /\ ResultOf(c) = result[c]
    BY <1>2, <2>1 DEF ResultOf
  <2>3. Results' = [Results EXCEPT ![c] = result[c]]
    BY <1>2, <1>5, <2>1, <2>2, ResultsBecome
  <2> QED
    BY <2>2, <2>3 DEF Results
<1>8. Shown' = Shown
  BY <1>2, ShownStays
<1> QED
  BY <1>1, <1>4, <1>5, <1>6, <1>7, <1>8, BeginIs

\* A program that gets its result back ends the call.
LEMMA ReturnEnds ==
    ASSUME Sound, NEW c \in Clients, Return(c)
    PROVE  Local!End(c)
<1>1. /\ Goto(c, "done", "idle") /\ call' = [call EXCEPT ![c] = NoRequest]
      /\ result' = [result EXCEPT ![c] = NoResult]
      /\ fs' = fs /\ mounted' = mounted /\ answer' = answer /\ m' = m
  BY DEF Return
<1>2. DOMAIN call = Clients
  BY DEF Sound, Typed
<1>3. PhaseOf[c] = "done" /\ PhaseOf' = [PhaseOf EXCEPT ![c] = "idle"]
  BY <1>1, PhaseGoes DEF Phase
<1>4. Results' = [Results EXCEPT ![c] = NoResult]
  BY <1>1, <1>2, ResultTold
<1>5. Shown' = Shown /\ OpenFiles' = OpenFiles
  BY <1>1, ShownStays DEF OpenFiles
<1> QED
  BY <1>1, <1>3, <1>4, <1>5, EndIs

\* A connection that breaks, before or after the server carried the call out, ends it with an
\* error.
LEMMA LoseBreaks ==
    ASSUME Sound, NEW c \in Clients, Lose(c)
    PROVE  Local!Break(c)
<1>1. /\ Goto(c, "sent", "done") \/ Goto(c, "answered", "done")
      /\ answer' = [answer EXCEPT ![c] = NoAnswer] /\ result' = [result EXCEPT ![c] = Broken]
      /\ fs' = fs /\ mounted' = mounted /\ call' = call /\ m' = m
  BY DEF Lose
<1>2. DOMAIN answer = Clients
  BY DEF Sound, Typed
<1>3. PhaseOf[c] \in {"called", "done"} /\ PhaseOf' = [PhaseOf EXCEPT ![c] = "done"]
  BY <1>1, PhaseGoes DEF Phase
<1>4. Results' = [Results EXCEPT ![c] = Broken]
  BY <1>1, <1>2, ResultTold
<1>5. Shown' = Shown /\ OpenFiles' = OpenFiles
  BY <1>1, ShownStays DEF OpenFiles
<1> QED
  BY <1>1, <1>3, <1>4, <1>5, BreakIs

\* Names lead to what is shown.
LEMMA ShownLeads ==
    ASSUME Sound
    PROVE  /\ Shown \in Directory /\ (~ encrypted => Shown = fs)
           /\ encrypted => Shown = Cleared(fs)
           /\ \A n \in Names : NodeOf(Shown, n) = NodeOf(fs, n) /\ open(Shown, n).ok = open(fs, n).ok
<1>1. fs \in Directory
  BY DEF Sound, Typed
<1>2. CASE ~ encrypted
  BY <1>1, <1>2, ShownIs
<1>3. CASE encrypted
  <2>1. Shown = Cleared(fs)
    BY <1>1, <1>3, ShownIs
  <2>2. ASSUME NEW n \in Names
        PROVE  NodeOf(Cleared(fs), n) = NodeOf(fs, n) /\ open(Cleared(fs), n).ok = open(fs, n).ok
    <3>1. NodeOf(Cleared(fs), n) = NodeOf(fs, n)
          /\ Leads(Cleared(fs), n, {"file"}) = Leads(fs, n, {"file"})
      BY <1>1, SameNames
    <3> QED
      BY <3>1 DEF open, If, Done, Refused
  <2> QED
    BY <1>1, <1>3, <2>1, <2>2, ClearedIs
<1> QED
  BY <1>2, <1>3

\* The file that a mount has open after a call is the one that the local file system has.
LEMMA KeepsHolds ==
    ASSUME Sound, NEW c \in Clients, NEW q, Wanted(c, q), NEW ok, NEW k2, Keeps(m[c], k2, fs, q, ok)
    PROVE  k2.file = Holds(q, ok, m[c].file, NodeOf(Shown, q.name))
<1>1. q.op = "open" => q.name \in Names
  BY DEF Wanted, Named, DirOps
<1>2. q.op = "open" => NodeOf(Shown, q.name) = NodeOf(fs, q.name)
  BY <1>1, ShownLeads
<1> QED
  BY <1>2 DEF Keeps, Holds

\* A handler of dnfs carries the call out.
LEMMA Dnfs_handlerCarriesOut ==
    ASSUME Sound, NEW c \in Clients, Dnfs_handler(c), ~ diverged'
    PROVE  Local!CarryOut(c)
<1> DEFINE q == call[c]
<1>1. Wanted(c, q)
  BY Dnfs_handlerDoes
<1>2. PICK r \in Outcomes(fs, InUse, m[c].file, q), k2 \in Mount :
        /\ fs' = r.fs /\ Keeps(m[c], k2, fs, q, r.ok)
        /\ m' = [m EXCEPT ![c] = k2]
        /\ result' = [result EXCEPT ![c] = [ok |-> r.ok, out |-> r.out]]
  BY Dnfs_handlerDoes
<1>3. /\ ~ http /\ Goto(c, "called", "done")
      /\ mounted' = mounted /\ call' = call /\ answer' = answer
  BY DEF Dnfs_handler
<1>5. Shown = fs /\ Shown' = fs'
  <2>1. ~ encrypted /\ ~ encrypted'
    BY <1>3 DEF http, encrypted
  <2> QED
    BY <2>1 DEF Shown
<1>6. PhaseOf[c] = "called" /\ PhaseOf' = [PhaseOf EXCEPT ![c] = "done"]
  BY <1>3, PhaseGoes DEF Phase
<1> HIDE DEF q
<1>7. OpenFiles' = [OpenFiles EXCEPT ![c] = Holds(q, r.ok, m[c].file, NodeOf(Shown, q.name))]
  <2>1. k2.file = Holds(q, r.ok, m[c].file, NodeOf(Shown, q.name))
    BY <1>1, <1>2, KeepsHolds
  <2>2. OpenFiles' = [OpenFiles EXCEPT ![c] = k2.file]
    BY <1>2, OpenFilesBecome
  <2> QED
    BY <2>1, <2>2
<1>8. Results' = [Results EXCEPT ![c] = [ok |-> r.ok, out |-> r.out]]
  <2> DEFINE v == [ok |-> r.ok, out |-> r.out]
  <2>0. result' = [result EXCEPT ![c] = v]
    BY <1>2
  <2> HIDE DEF v
  <2>1. Results' = [Results EXCEPT ![c] = v]
    BY <1>3, <2>0, ResultTold
  <2> QED
    BY <2>1 DEF v
<1>9. r \in Outcomes(Shown, InUse, m[c].file, q) /\ Shown' = r.fs
  BY <1>2, <1>5
<1> QED
  BY <1>3, <1>6, <1>7, <1>8, <1>9, CarryOutIs DEF q

\* So does a handler that asks nothing of the server.
LEMMA Http_handlerCarriesOut ==
    ASSUME Sound, NEW c \in Clients, Http_handler(c), ~ diverged'
    PROVE  Local!CarryOut(c)
<1> DEFINE q == call[c]
           r == Local_result(Shown, q)
<1>1. Wanted(c, q) /\ q.op \in Local_ops /\ Settled(fs, InUse, q)
  BY Http_handlerDoes
<1>2. PICK k2 \in Mount : m' = [m EXCEPT ![c] = k2] /\ Keeps(m[c], k2, fs, q, TRUE)
  BY Http_handlerDoes
<1>3. /\ Goto(c, "called", "done")
      /\ result' = [result EXCEPT ![c] = [ok |-> q.op # "mkfifo", out |-> <<>>]]
      /\ mounted' = mounted /\ call' = call /\ answer' = answer /\ fs' = fs
  BY DEF Http_handler
<1>5. r.ok = (q.op # "mkfifo") /\ r.out = <<>> /\ r.fs = Shown
  BY DEF Local_result, Done, Refused
<1>6. PhaseOf[c] = "called" /\ PhaseOf' = [PhaseOf EXCEPT ![c] = "done"]
  BY <1>3, PhaseGoes DEF Phase
<1>7. result' = [result EXCEPT ![c] = [ok |-> r.ok, out |-> r.out]]
  BY <1>3, <1>5
<1> HIDE DEF q
<1>8. r \in Outcomes(Shown, InUse, m[c].file, q)
  <2>1. q.op \in {"open", "access"} => q.name \in Names
    BY <1>1 DEF Wanted, Named, DirOps
  <2>2. encrypted => q.op \in DataOps
    BY <1>1 DEF Wanted, Sound, Typed
  <2>3. Settled(Shown, InUse, q)
    <3>1. CASE ~ encrypted
      BY <1>1, <3>1, ShownLeads
    <3>2. CASE encrypted
      <4>1. q.op \notin {"access", "mkfifo"}
        BY <2>2, <3>2 DEF DataOps, FileOps
      <4> QED
        BY <1>1, <2>1, <4>1, ShownLeads DEF Settled
    <3> QED
      BY <3>1, <3>2
  <2> QED
    BY <1>1, <2>3, ShownLeads, LocalOps DEF Wanted
<1> HIDE DEF r
<1>9. OpenFiles' = [OpenFiles EXCEPT ![c] = Holds(q, r.ok, m[c].file, NodeOf(Shown, q.name))]
  <2>1. Keeps(m[c], k2, fs, q, r.ok)
    BY <1>2, <1>5 DEF Keeps
  <2>2. k2.file = Holds(q, r.ok, m[c].file, NodeOf(Shown, q.name))
    BY <1>1, <2>1, KeepsHolds
  <2>3. OpenFiles' = [OpenFiles EXCEPT ![c] = k2.file]
    BY <1>2, OpenFilesBecome
  <2> QED
    BY <2>2, <2>3
<1>10. Results' = [Results EXCEPT ![c] = [ok |-> r.ok, out |-> r.out]]
  <2> DEFINE v == [ok |-> r.ok, out |-> r.out]
  <2>0. result' = [result EXCEPT ![c] = v]
    BY <1>7
  <2> HIDE DEF v
  <2>1. Results' = [Results EXCEPT ![c] = v]
    BY <1>3, <2>0, ResultTold
  <2> QED
    BY <2>1 DEF v
<1>11. Shown' = r.fs
  BY <1>3, <1>5, ShownStays
<1> QED
  BY <1>3, <1>6, <1>8, <1>9, <1>10, <1>11, CarryOutIs DEF q

\* So does the server, when it takes the message: the call has then happened, for all mounts.
LEMMA ServeCarriesOut ==
    ASSUME Sound, NEW c \in Clients, Serve(c), ~ diverged'
    PROVE  Local!CarryOut(c)
<1> DEFINE q == call[c]
           i == m[c].file
           ans(a) == [status |-> a.status, data |-> a.data]
<1>1. PICK loaded \in BOOLEAN : message[c] \in Messages(q, mounted.chroot, loaded, encrypted)
  BY ServeDoes
<1>2. PICK may, a : Serves(c, q, may, a)
  BY ServeDoes
<1>3. Wanted(c, q) /\ q.op \notin Local_ops
  BY ServeDoes
<1>4. /\ Goto(c, "sent", "answered")
      /\ mounted' = mounted /\ call' = call /\ result' = result /\ m' = m
  BY DEF Serve
<1>5. /\ DOMAIN at = Clients /\ DOMAIN answer = Clients /\ fs \in Directory /\ i \in Nodes \cup {0}
      /\ (mounted.use = "data" => FilesOnly(fs)) /\ (encrypted => mounted.use = "data")
  BY DEF Sound, Typed, Mount
<1>6. PhaseOf[c] = "called" /\ PhaseOf' = [PhaseOf EXCEPT ![c] = "done"]
  BY <1>4, PhaseGoes DEF Phase
<1> HIDE DEF q, i
<1>7. fs' = a.fs /\ fs' \in Directory
  <2>1. Sound'
    BY ServeSound
  <2> QED
    BY <1>2, <2>1 DEF Serves, Sound, Typed
<1>8. Shown' = IF encrypted THEN Cleared(a.fs) ELSE a.fs
  BY <1>4, <1>7, ShownBecomes
<1>9. \E r \in Outcomes(Shown, InUse, i, q) :
        r.fs = Shown' /\ Promise(q, ans(a), encrypted) = [ok |-> r.ok, out |-> r.out]
  <2>1. CASE ~ encrypted
    <3>1. PICK r \in Outcomes(fs, InUse, i, q) : Tells(Server!call(fs, InUse, message[c], may), r)
      BY <1>1, <1>2, <1>3, <1>5, <2>1, Served DEF Wanted, Serves, i
    <3>2. Tells(a, r)
      BY <1>2, <3>1 DEF Serves
    <3>3. Promise(q, ans(a), encrypted) = Response(a)
      BY <2>1 DEF Promise, Response
    <3>4. Shown = fs /\ Shown' = a.fs
      BY <1>8, <2>1, ShownLeads
    <3> HIDE DEF ans
    <3> QED
      BY <3>1, <3>2, <3>3, <3>4, Zenon DEF Tells
  <2>2. CASE encrypted
    <3>1. /\ Shown = Cleared(fs) /\ Shown' = Cleared(a.fs)
          /\ FilesOnly(fs) /\ q.op \in DataOps \ Local_ops
      BY <1>3, <1>5, <1>8, <2>2, ShownLeads DEF Wanted
    <3>2. message[c] \in Messages(q, mounted.chroot, loaded, TRUE)
      <4>1. encrypted = TRUE
        BY <2>2 DEF encrypted
      <4> QED
        BY <1>1, <4>1
    <3>3. PICK r \in Outcomes(Cleared(fs), InUse, i, q) : Reveals(q, a, r)
      <4>1. q \in Request /\ Named(q) /\ PlainCells(q.cells)
        BY <1>3 DEF Wanted
      <4>2. /\ may \in Permissions(q) /\ Agreed(fs, i, q, mounted.chroot, may)
            /\ Answered_mode(q, a.status = "OK")
            /\ a = Server!call(fs, InUse, message[c], may)
        BY <1>2 DEF Serves, i
      <4>3. /\ q.op \in {"truncate", "ftruncate"} /\ Kind(fs, q.name) = "file" =>
                 q.off <= Size(fs, q.name)
            /\ q.op = "write" => Garbage \notin Range(message[c].data)
        BY <1>2, <2>2 DEF Serves
      <4> QED
        BY <1>5, <3>1, <3>2, <4>1, <4>2, <4>3, SecretServed
    <3>4. Promise(q, ans(a), encrypted) = Promise(q, ans(a), TRUE)
      BY <2>2 DEF Promise
    <3> QED
      BY <3>1, <3>3, <3>4 DEF Reveals
  <2> QED
    BY <2>1, <2>2
<1>10. PICK r \in Outcomes(Shown, InUse, i, q) :
         r.fs = Shown' /\ Promise(q, ans(a), encrypted) = [ok |-> r.ok, out |-> r.out]
  BY <1>9
<1>11. OpenFiles' = [OpenFiles EXCEPT ![c] = Holds(q, r.ok, i, NodeOf(Shown, q.name))]
  <2>1. Holds(q, r.ok, i, NodeOf(Shown, q.name)) = i
    BY <1>3 DEF Holds, Local_ops
  <2> QED
    BY <1>4, <2>1 DEF OpenFiles, i
<1>12. Results' = [Results EXCEPT ![c] = [ok |-> r.ok, out |-> r.out]]
  <2> DEFINE v == [ok |-> r.ok, out |-> r.out]
             w == ans(a)
  <2>0. answer' = [answer EXCEPT ![c] = w] /\ Promise(q, w, encrypted) = v
    BY <1>2, <1>10 DEF Serves
  <2> HIDE DEF v, w
  <2>1. at'[c] = "answered" /\ answer'[c] = w
    BY <1>4, <1>5, <2>0 DEF Goto
  <2>2. \A k \in Clients \ {c} :
          at'[k] = at[k] /\ call'[k] = call[k] /\ answer'[k] = answer[k] /\ result'[k] = result[k]
    BY <1>4, <1>5, <2>0 DEF Goto
  <2>3. encrypted' = encrypted
    BY <1>4 DEF encrypted
  <2>4. v = ResultOf(c)'
    BY <1>4, <2>0, <2>1, <2>3 DEF ResultOf, q
  <2>5. Results' = [Results EXCEPT ![c] = v]
    BY <1>4, <2>2, <2>4, ResultsBecome
  <2> QED
    BY <2>5 DEF v
<1> QED
  BY <1>4, <1>6, <1>10, <1>11, <1>12, CarryOutIs DEF q, i

\* With the key there is one way to read what comes.
LEMMA OneResponse ==
    ASSUME NEW q, NEW a
    PROVE  /\ \E v : read_response(q, a, TRUE) = {v}
           /\ a.status # "OK" => read_response(q, a, TRUE) = {check_response(a)}
<1> DEFINE x == check_response(a)
           d(out) == [j \in DOMAIN out |-> plain(out[j], Position(q.off, j))]
<1>1. decrypt(x.out, q.off, TRUE) = {d(x.out)}
  BY WithKey
<1>2. read_response(q, a, TRUE) = {[x EXCEPT !.out = cells] : cells \in decrypt(x.out, q.off, TRUE)}
  BY DEF read_response
<1>3. x = [ok |-> a.status = "OK", out |-> IF a.status = "OK" THEN a.data ELSE <<>>]
  BY DEF check_response
<1>4. d(<<>>) = <<>>
  OBVIOUS
<1> HIDE DEF x, d
<1>5. read_response(q, a, TRUE) = {[x EXCEPT !.out = d(x.out)]}
  BY <1>1, <1>2
<1>6. ASSUME a.status # "OK" PROVE [x EXCEPT !.out = d(x.out)] = x
  <2> DEFINE ok == a.status = "OK"
  <2>1. x = [ok |-> ok, out |-> <<>>]
    BY <1>3, <1>6
  <2> HIDE DEF ok
  <2>2. x.out = <<>> /\ d(x.out) = <<>>
    BY <1>4, <2>1
  <2> QED
    BY <2>1, <2>2
<1> QED
  BY <1>5, <1>6 DEF x

\* The mount that takes its answer changes nothing that a program can see.
LEMMA ReceiveStutters ==
    ASSUME Sound, NEW c \in Clients, Receive(c), ~ diverged'
    PROVE  UNCHANGED Local!vars
<1> DEFINE q == call[c]
           decrypts == encrypted /\ q.op = "read" /\ answer[c].status = "OK"
<1>1. /\ Goto(c, "answered", "done") /\ answer' = [answer EXCEPT ![c] = NoAnswer]
      /\ fs' = fs /\ mounted' = mounted /\ call' = call
      /\ m' = m \/ m' = [m EXCEPT ![c] = [m[c] EXCEPT !.opened = load(m[c].opened)]]
  BY DEF Receive
<1>2. PICK r \in IF decrypts THEN read_response(q, answer[c], Loaded(m[c].opened))
                 ELSE {check_response(answer[c])} :
        result' = [result EXCEPT ![c] = r]
  BY DEF Receive
<1>3. decrypts => Loaded(m[c].opened) = TRUE
  BY DEF Receive, Loaded
<1>4. /\ DOMAIN at = Clients /\ DOMAIN answer = Clients /\ DOMAIN result = Clients
      /\ m \in [Clients -> Mount]
  BY DEF Sound, Typed
<1>5. at[c] = "answered" /\ at'[c] = "done" /\ result'[c] = r
  BY <1>1, <1>2, <1>4 DEF Goto
<1>6. r = Promise(q, answer[c], encrypted)
  <2> HIDE DEF q
  <2>1. CASE decrypts
    <3>1. r \in read_response(q, answer[c], TRUE)
      BY <1>2, <1>3, <2>1
    <3>2. PICK v : read_response(q, answer[c], TRUE) = {v}
      BY OneResponse
    <3> QED
      BY <2>1, <3>1, <3>2 DEF Promise
  <2>2. CASE ~ decrypts /\ encrypted /\ q.op = "read"
    <3>1. r = check_response(answer[c]) /\ answer[c].status # "OK"
      BY <1>2, <2>2
    <3>2. read_response(q, answer[c], TRUE) = {check_response(answer[c])}
      BY <3>1, OneResponse
    <3> QED
      BY <2>2, <3>1, <3>2 DEF Promise
  <2>3. CASE ~ (encrypted /\ q.op = "read")
    BY <1>2, <2>3 DEF Promise
  <2> QED
    BY <2>1, <2>2, <2>3
<1>7. PhaseOf' = PhaseOf
  <2>1. PhaseOf[c] = "done" /\ PhaseOf' = [PhaseOf EXCEPT ![c] = "done"]
    BY <1>1, PhaseGoes DEF Phase
  <2> QED
    BY <2>1 DEF PhaseOf
<1>8. Results' = Results
  <2>1. \A k \in Clients \ {c} :
          at'[k] = at[k] /\ call'[k] = call[k] /\ answer'[k] = answer[k] /\ result'[k] = result[k]
    BY <1>1, <1>2, <1>4 DEF Goto
  <2>2. r = ResultOf(c)' /\ r = ResultOf(c)
    BY <1>5, <1>6 DEF ResultOf
  <2>3. Results' = [Results EXCEPT ![c] = r]
    BY <1>1, <2>1, <2>2, ResultsBecome
  <2> QED
    BY <2>2, <2>3 DEF Results
<1>9. OpenFiles' = OpenFiles
  <2> DEFINE k2 == [m[c] EXCEPT !.opened = load(m[c].opened)]
  <2>1. k2.file = m[c].file
    BY <1>4, Loading
  <2>2. m' = m \/ m' = [m EXCEPT ![c] = k2]
    BY <1>1
  <2> HIDE DEF k2
  <2>3. \A k \in Clients : m'[k].file = m[k].file
    BY <1>4, <2>1, <2>2
  <2> QED
    BY <2>3 DEF OpenFiles
<1>10. Shown' = Shown
  BY <1>1, ShownStays
<1> QED
  BY <1>1, <1>7, <1>8, <1>9, <1>10, ResultsAre
     DEF Local!vars, OpenFiles, PhaseOf, Phase

\* Every step is one of the local file system, or none.
LEMMA NextIsLocal ==
    ASSUME Sound, Next, ~ diverged'
    PROVE  (\E c \in Clients : Local!Step(c)) \/ UNCHANGED Local!vars
<1> PICK c \in Clients :
      \/ Call(c) \/ Dnfs_handler(c) \/ Http_handler(c) \/ Serve(c) \/ Receive(c) \/ Lose(c)
      \/ Return(c)
  BY DEF Next
<1>1. CASE Receive(c)
  BY <1>1, ReceiveStutters
<1>2. CASE ~ Receive(c)
  <2>1. Local!Step(c)
    BY <1>2, CallBegins, Dnfs_handlerCarriesOut, Http_handlerCarriesOut, ServeCarriesOut,
       LoseBreaks, ReturnEnds DEF Local!Step
  <2> QED
    BY <2>1
<1> QED
  BY <1>1, <1>2

\* Every step of a mount, of the server or of a program is one of the local file system that the
\* mounts stand for, or changes nothing of it, until something diverges.
THEOREM MountsAreLocal == Spec => MountIsLocal
<1> DEFINE Good == diverged' \/ (\E c \in Clients : Local!Step(c)) \/ UNCHANGED Local!vars
<1>1. Inv /\ [Next]_vars => [Good]_vars
  <2> SUFFICES ASSUME Inv, Next, ~ diverged' PROVE Good
    OBVIOUS
  <2>1. ~ diverged
    BY DivergedStays
  <2> QED
    BY <2>1, NextIsLocal DEF Inv
<1> QED
  BY <1>1, Soundness, PTL DEF Spec, MountIsLocal
=============================================================================
