------------------------------ MODULE HttpServer ------------------------------
(***************************************************************************)
(* The script of the server, template.php of FS02 and of GFS01: a function *)
(* for each operation, which makes its system calls on the file that the   *)
(* message names and answers with a status and data.  Nothing stays open   *)
(* between two messages.                                                   *)
(***************************************************************************)
EXTENDS KernelFs

Answer(r, error) ==
    [fs |-> r.fs, status |-> IF r.ok THEN "OK" ELSE error, data |-> r.out]
Accessed(r) == Answer(r, "CANNOT_ACCESS")

php_getattr(fs, msg) == Answer(lstat(fs, msg.path), "ENTRY_NOT_FOUND")
php_readdir(fs, msg) == Accessed(names(fs))
php_unlink(fs, msg) == Accessed(unlink(fs, msg.path))
php_mkdir(fs, use, msg) == Accessed(mkdir(fs, use, msg.path, Masked(msg.header.mode)))
php_rmdir(fs, msg) == Accessed(rmdir(fs, msg.path))
php_rename(fs, msg) == Accessed(rename(fs, msg.path, msg.data))
php_link(fs, msg) == Accessed(link(fs, msg.path, msg.data))
php_readlink(fs, msg) == Accessed(readlink(fs, msg.path))
php_symlink(fs, use, msg) == Accessed(symlink(fs, use, msg.path, msg.data))
php_chmod(fs, msg) == Answer(chmod(fs, msg.path, msg.header.mode), "NOT_PERMITTED")

\* fopen with mode 'r', with mode 'a', which writes at the end wherever fseek goes, with mode
\* 'r+', and with mode 'w', which empties a file that exists. A file that fopen creates has the
\* permissions that the umask leaves, whatever the message says.
Opened(f, r) == Accessed(IF f.ok THEN r ELSE f)

php_read(fs, msg) ==
    Opened(open(fs, msg.path),
           pread(fs, NodeOf(fs, msg.path), msg.header.offset, msg.header.size))
php_write(fs, use, msg) ==
    LET f == open_create(fs, use, msg.path, Masked(Perms))
        i == NodeOf(f.fs, msg.path)
    IN Opened(f, pwrite(f.fs, i, Len(f.fs.node[i].data), msg.data))
php_truncate(fs, msg) ==
    Opened(open(fs, msg.path), ftruncate(fs, NodeOf(fs, msg.path), msg.header.offset))
php_create(fs, use, msg) == Accessed(open_trunc(fs, use, msg.path, Masked(Perms)))

\* chown and then chgrp, each if it is asked for and may be carried out; the result of the
\* first is forgotten when the second is asked for.
php_chown(fs, msg, may) ==
    LET h == msg.header
        nothing == Done(fs, <<>>)
        u == IF h.uid = Keep THEN nothing ELSE chown(fs, msg.path, h.uid, Keep, may.user)
        g == chown(u.fs, msg.path, Keep, h.gid, may.group)
    IN Answer(CASE h.gid # Keep -> g
                [] h.gid = Keep /\ h.uid # Keep -> u
                [] OTHER -> Refused(fs), "NOT_PERMITTED")

\* call_user_func
call(fs, use, msg, may) ==
    CASE msg.opcode = "getattr" -> php_getattr(fs, msg)
      [] msg.opcode = "readdir" -> php_readdir(fs, msg)
      [] msg.opcode = "read" -> php_read(fs, msg)
      [] msg.opcode = "write" -> php_write(fs, use, msg)
      [] msg.opcode = "truncate" -> php_truncate(fs, msg)
      [] msg.opcode = "create" -> php_create(fs, use, msg)
      [] msg.opcode = "unlink" -> php_unlink(fs, msg)
      [] msg.opcode = "mkdir" -> php_mkdir(fs, use, msg)
      [] msg.opcode = "rmdir" -> php_rmdir(fs, msg)
      [] msg.opcode = "rename" -> php_rename(fs, msg)
      [] msg.opcode = "link" -> php_link(fs, msg)
      [] msg.opcode = "readlink" -> php_readlink(fs, msg)
      [] msg.opcode = "symlink" -> php_symlink(fs, use, msg)
      [] msg.opcode = "chmod" -> php_chmod(fs, msg)
      [] msg.opcode = "chown" -> php_chown(fs, msg, may)
===============================================================================
