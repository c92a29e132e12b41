-------------------------------- MODULE LocalFs --------------------------------
(***************************************************************************)
(* What the programs that use a mounted file system take it for: a local   *)
(* one.  Each call is carried out at one moment between its beginning and  *)
(* its end; an open file stays the file that was opened, whatever becomes  *)
(* of its name; creation is exclusive, and with the mode that was asked    *)
(* for, to which the kernel has applied the umask of the program.  A call  *)
(* may also fail because the line is broken: it has been carried out once, *)
(* then, or not at all.                                                    *)
(***************************************************************************)
EXTENDS KernelFs

CONSTANTS Clients, NoRequest, NoResult, Broken

VARIABLES
    fs,         \* the contents
    open_file,  \* the inode that each client has open, or 0
    at,         \* whether a client is "idle", has "called", or its call is "done"
    call,       \* the request of the call of a client
    result      \* what it will return
vars == <<fs, open_file, at, call, result>>

InUse == Range(open_file)

\* The outcomes of a request: chown depends on who may.
Outcomes(c, q) ==
    CASE q.op = "getattr" -> {lstat(fs, q.name)}
      [] q.op = "open" -> {open(fs, q.name)}
      [] q.op = "access" -> {access(fs, q.name, q.mode)}
      [] q.op = "create" -> {open_excl(fs, InUse, q.name, q.mode)}
      [] q.op = "mkfifo" -> {mkfifo(fs, InUse, q.name, q.mode)}
      [] q.op = "read" -> {pread(fs, open_file[c], q.off, q.len)}
      [] q.op = "write" -> {pwrite(fs, open_file[c], q.off, q.cells)}
      [] q.op = "truncate" -> {truncate(fs, q.name, q.off)}
      [] q.op = "ftruncate" -> {ftruncate(fs, open_file[c], q.off)}
      [] q.op = "fgetattr" -> {stat(fs, open_file[c])}
      [] q.op = "unlink" -> {unlink(fs, q.name)}
      [] q.op = "mkdir" -> {mkdir(fs, InUse, q.name, q.mode)}
      [] q.op = "rmdir" -> {rmdir(fs, q.name)}
      [] q.op = "rename" -> {rename(fs, q.name, q.to)}
      [] q.op = "link" -> {link(fs, q.name, q.to)}
      [] q.op = "symlink" -> {symlink(fs, InUse, q.name, q.to)}
      [] q.op = "readlink" -> {readlink(fs, q.name)}
      [] q.op = "readdir" -> {names(fs)}
      [] q.op = "chmod" -> {chmod(fs, q.name, q.mode)}
      [] q.op = "chown" -> {chown(fs, q.name, q.owner, q.group, may) : may \in BOOLEAN}
      [] OTHER -> {Done(fs, <<>>)}      \* release, opendir, releasedir

Opens(q, ok) == q.op = "open" /\ ok

Goto(c, from, to) == at[c] \in from /\ at' = [at EXCEPT ![c] = to]

Begin(c) ==
    /\ Goto(c, {"idle"}, "called")
    /\ \E q \in {call'[c]} : call' = [call EXCEPT ![c] = q]
    /\ UNCHANGED <<fs, open_file, result>>

CarryOut(c) ==
    /\ Goto(c, {"called"}, "done")
    /\ \E r \in Outcomes(c, call[c]) :
         /\ fs' = r.fs
         /\ result' = [result EXCEPT ![c] = [ok |-> r.ok, out |-> r.out]]
         /\ open_file' = [open_file EXCEPT ![c] =
              CASE Opens(call[c], r.ok) -> NodeOf(fs, call[c].name)
                [] call[c].op = "release" -> 0
                [] OTHER -> @]
    /\ UNCHANGED call

Break(c) ==
    /\ Goto(c, {"called", "done"}, "done")
    /\ result' = [result EXCEPT ![c] = Broken]
    /\ UNCHANGED <<fs, open_file, call>>

End(c) ==
    /\ Goto(c, {"done"}, "idle")
    /\ call' = [call EXCEPT ![c] = NoRequest]
    /\ result' = [result EXCEPT ![c] = NoResult]
    /\ UNCHANGED <<fs, open_file>>

Step(c) == Begin(c) \/ CarryOut(c) \/ Break(c) \/ End(c)
=============================================================================
