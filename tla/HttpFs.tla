--------------------------------- MODULE HttpFs ---------------------------------
(***************************************************************************)
(* The handlers of the mounts of FS02 and GFS01: each sends one message to *)
(* the server and makes its result of the answer.  GFS01 differs in write, *)
(* which encrypts what it sends, and in read, which decrypts the answer.   *)
(***************************************************************************)
EXTENDS Crypt

CONSTANT Elsewhere      \* a path with the remote chroot in front: no entry of the mount

\* The opcode, the header, the path with the chroot in front, the data. A path of the mount
\* with the chroot in front is that of the same entry on the server.
prepare_request(opcode, header, path, data) ==
    [opcode |-> opcode, header |-> header, path |-> path, data |-> data]
NoHeader == [size |-> 0]
Simple(op, q) == prepare_request(op, NoHeader, q.name, <<>>)
With_header(op, header, q) == prepare_request(op, header, q.name, <<>>)
With_data(op, q) == prepare_request(op, NoHeader, q.name, q.to)
Range_of(q, size) == [size |-> size, offset |-> q.off]

httpfs_getattr(q) == Simple("getattr", q)
httpfs_readdir(q) == Simple("readdir", q)
httpfs_unlink(q) == Simple("unlink", q)
httpfs_rmdir(q) == Simple("rmdir", q)
httpfs_readlink(q) == Simple("readlink", q)
httpfs_truncate(q) == With_header("truncate", [offset |-> q.off], q)
httpfs_create(q) == With_header("create", [mode |-> q.mode], q)
httpfs_mkdir(q) == With_header("mkdir", [mode |-> q.mode], q)
httpfs_chmod(q) == With_header("chmod", [mode |-> q.mode], q)
httpfs_chown(q) == With_header("chown", [uid |-> q.owner, gid |-> q.group], q)
httpfs_rename(q) == With_data("rename", q)
httpfs_link(q) == With_data("link", q)
\* The path is the target of the link: the chroot goes in front of it too.
httpfs_symlink(q, chroot) ==
    With_data("symlink", IF chroot THEN [q EXCEPT !.name = Elsewhere] ELSE q)
httpfs_read(q) == With_header("read", Range_of(q, q.len), q)
httpfs_write(q, cells) ==
    prepare_request("write", Range_of(q, Len(cells)), q.name, cells)

\* The messages that a call may send. The mounts have no ftruncate and no fgetattr: the path
\* serves instead.
Messages(q, chroot, loaded, encrypted) ==
    CASE q.op \in {"getattr", "fgetattr"} -> {httpfs_getattr(q)}
      [] q.op = "readdir" -> {httpfs_readdir(q)}
      [] q.op = "unlink" -> {httpfs_unlink(q)}
      [] q.op = "rmdir" -> {httpfs_rmdir(q)}
      [] q.op = "readlink" -> {httpfs_readlink(q)}
      [] q.op \in {"truncate", "ftruncate"} -> {httpfs_truncate(q)}
      [] q.op = "create" -> {httpfs_create(q)}
      [] q.op = "mkdir" -> {httpfs_mkdir(q)}
      [] q.op = "chmod" -> {httpfs_chmod(q)}
      [] q.op = "chown" -> {httpfs_chown(q)}
      [] q.op = "rename" -> {httpfs_rename(q)}
      [] q.op = "link" -> {httpfs_link(q)}
      [] q.op = "symlink" -> {httpfs_symlink(q, chroot)}
      [] q.op = "read" -> {httpfs_read(q)}
      [] q.op = "write" ->
           {httpfs_write(q, cells) :
              cells \in IF encrypted THEN encrypt(q.cells, q.off, loaded) ELSE {q.cells}}

\* No message: httpfs_open returns 0, and the rest is missing, which the kernel takes for done.
\* For a file it calls create; a FIFO needs mknod, which is missing and so refused.
Local_ops == {"open", "release", "opendir", "releasedir", "access", "mkfifo"}

\* HTTPFS_CHECK_RESPONSE_STATUS, and what read of GFS01 does with the data.
check_response(a) == [ok |-> a.status = "OK", out |-> IF a.status = "OK" THEN a.data ELSE <<>>]
read_response(q, a, loaded) ==
    {[check_response(a) EXCEPT !.out = cells] :
       cells \in decrypt(check_response(a).out, q.off, loaded)}
===============================================================================
