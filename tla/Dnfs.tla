--------------------------------- MODULE Dnfs ---------------------------------
(***************************************************************************)
(* The handlers of dnfs.c (CommonAssignmentFS01): each makes its system    *)
(* calls under the root directory and returns what they return.  m is what *)
(* the mount keeps for a program: the file behind the descriptor that      *)
(* dnfs_open put in fi->fh, and how far the DIR of dnfs_opendir was read.  *)
(* A handler gives the result of its system calls and the new m.           *)
(***************************************************************************)
EXTENDS KernelFs

With(r, m) == [ok |-> r.ok, fs |-> r.fs, out |-> r.out, m |-> m]

dnfs_getattr(fs, q) == lstat(fs, q.name)
dnfs_readlink(fs, q) == readlink(fs, q.name)
\* A file or a FIFO: Linux makes a device for no one but root, whom dnfs refuses to serve.
dnfs_mknod(fs, use, q) ==
    IF q.op = "create" THEN open_excl(fs, use, q.name, Masked(q.mode))
    ELSE mkfifo(fs, use, q.name, Masked(q.mode))
dnfs_mkdir(fs, use, q) == mkdir(fs, use, q.name, Masked(q.mode))
dnfs_unlink(fs, q) == unlink(fs, q.name)
dnfs_rmdir(fs, q) == rmdir(fs, q.name)
dnfs_symlink(fs, use, q) == symlink(fs, use, q.name, q.to)
dnfs_rename(fs, q) == rename(fs, q.name, q.to)
dnfs_link(fs, q) == link(fs, q.name, q.to)
dnfs_chmod(fs, q) == chmod(fs, q.name, q.mode)
dnfs_chown(fs, q, may) == chown(fs, q.name, q.owner, q.group, may)
dnfs_truncate(fs, q) == truncate(fs, q.name, q.off)
dnfs_access(fs, q) == access(fs, q.name, q.mode)
dnfs_read(fs, m, q) == pread(fs, m.file, q.off, q.len)
dnfs_write(fs, m, q) == pwrite(fs, m.file, q.off, q.cells)
dnfs_ftruncate(fs, m, q) == ftruncate(fs, m.file, q.off)
dnfs_fgetattr(fs, m, q) == stat(fs, m.file)

dnfs_open(fs, m, q) == LET fd == open(fs, q.name) IN
    With(fd, IF fd.ok THEN [m EXCEPT !.file = NodeOf(fs, q.name), !.name = q.name] ELSE m)
dnfs_release(fs, m) == With(Done(fs, <<>>), [m EXCEPT !.file = 0])

dnfs_opendir(fs, m) == With(Done(fs, <<>>), [m EXCEPT !.dir = "start"])
dnfs_releasedir(fs, m) == With(Done(fs, <<>>), [m EXCEPT !.dir = "closed"])

\* Reads to the end. At the end it takes the NULL of readdir for an error and returns the
\* errno of some earlier call, which may be 0.
dnfs_readdir(fs, m) ==
    IF m.dir = "start" THEN {With(names(fs), [m EXCEPT !.dir = "end"])}
    ELSE {With(Refused(fs), m), With(Done(fs, <<{}>>), m)}

dnfs_oper(fs, use, m, q) ==
    CASE q.op = "open" -> {dnfs_open(fs, m, q)}
      [] q.op = "release" -> {dnfs_release(fs, m)}
      [] q.op = "opendir" -> {dnfs_opendir(fs, m)}
      [] q.op = "readdir" -> dnfs_readdir(fs, m)
      [] q.op = "releasedir" -> {dnfs_releasedir(fs, m)}
      [] q.op = "chown" -> {With(dnfs_chown(fs, q, may), m) : may \in BOOLEAN}
      [] OTHER -> {With(
           CASE q.op = "getattr" -> dnfs_getattr(fs, q)
             [] q.op = "readlink" -> dnfs_readlink(fs, q)
             [] q.op \in {"create", "mkfifo"} -> dnfs_mknod(fs, use, q)
             [] q.op = "mkdir" -> dnfs_mkdir(fs, use, q)
             [] q.op = "unlink" -> dnfs_unlink(fs, q)
             [] q.op = "rmdir" -> dnfs_rmdir(fs, q)
             [] q.op = "symlink" -> dnfs_symlink(fs, use, q)
             [] q.op = "rename" -> dnfs_rename(fs, q)
             [] q.op = "link" -> dnfs_link(fs, q)
             [] q.op = "chmod" -> dnfs_chmod(fs, q)
             [] q.op = "truncate" -> dnfs_truncate(fs, q)
             [] q.op = "access" -> dnfs_access(fs, q)
             [] q.op = "read" -> dnfs_read(fs, m, q)
             [] q.op = "write" -> dnfs_write(fs, m, q)
             [] q.op = "ftruncate" -> dnfs_ftruncate(fs, m, q)
             [] q.op = "fgetattr" -> dnfs_fgetattr(fs, m, q), m)}
===============================================================================
