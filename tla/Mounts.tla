--------------------------------- MODULE Mounts ---------------------------------
(***************************************************************************)
(* Programs that use one directory through two mounts of the same file     *)
(* system: dnfs (CommonAssignmentFS01), the HTTP file system               *)
(* (CommonAssignmentFS02) or the encrypted one (GroupAssignmentGFS01).     *)
(* Each mount serves one call at a time.  A message to the server, or its  *)
(* answer, may be lost: curl reports a failure and the handler ECOMM.      *)
(***************************************************************************)
EXTENDS HttpFs, Dnfs

Server == INSTANCE HttpServer

CONSTANTS
    Clients,        \* a program and its mount
    Uses,           \* the families of calls that programs are taken to make
    Page,           \* how many cells the kernel reads at once
    MaxSize,        \* how many cells a file is made to have
    MaxCalls,       \* bound: how many calls are made
    NoRequest, NoMessage, NoAnswer, NoResult, Broken

ASSUME MountsAssumption ==
    /\ Names # {} /\ Uses \subseteq {"data", "names", "attributes"}
    /\ Page \in Nat \ {0} /\ MaxSize \in Nat /\ MaxCalls \in Nat

VARIABLES
    mounted,    \* which file system, with which chroot, for which family of calls
    fs,         \* the directory under the root, or on the server
    m,          \* what the mount of each client keeps
    at,         \* where the call of each program is
    call,       \* the call
    message,    \* the message of its mount to the server
    answer,     \* the answer of the server
    result,     \* what the handler returns
    calls,      \* how many calls have been made
    diverged    \* history: something that no local file system does has happened
vars == <<mounted, fs, m, at, call, message, answer, result, calls, diverged>>

http == mounted.type # "dnfs"
encrypted == mounted.type = "GFS01"
InUse == {m[c].file : c \in Clients}

\* A call is made and, if its handler sends a message, "sent" and "answered"; it is "done" when
\* the handler has a result.
Goto(c, from, to) == at[c] = from /\ at' = [at EXCEPT ![c] = to]
-----------------------------------------------------------------------------
Root == "/"
Ask(op, n) == [op |-> op, name |-> n, to |-> n, off |-> 0, len |-> 0, cells |-> <<>>,
               mode |-> {}, owner |-> Keep, group |-> Keep]
WithMode(op, n, mode) == [Ask(op, n) EXCEPT !.mode = mode]
Pairs(op) == {[Ask(op, n) EXCEPT !.to = n2] : n, n2 \in Names}

\* The kernel reads whole pages; it writes what the program writes.
ReadAt(n, off) == [Ask("read", n) EXCEPT !.off = off, !.len = Page]
WriteAt(n, off, cells) == [Ask("write", n) EXCEPT !.off = off, !.cells = cells]
Resize(op, n, size) == [Ask(op, n) EXCEPT !.off = size]
Texts == {<<Plain(1)>>, <<Plain(2), Plain(3)>>}
Reads(n) == {ReadAt(n, b * Page) : b \in 0 .. 1}
Writes(n) == {WriteAt(n, off, cells) : off \in 0 .. MaxSize - 1, cells \in Texts}
OnOpenFile(n) ==
    {Ask(op, n) : op \in {"fgetattr", "release"}} \cup Reads(n)
    \cup {Resize("ftruncate", n, size) : size \in {1, MaxSize}}
    \cup {q \in Writes(n) : q.off + Len(q.cells) <= MaxSize}

Give(n, owner, group) == [Ask("chown", n) EXCEPT !.owner = owner, !.group = group]
Gifts == {Give(n, o, g) : n \in Names, o \in {Keep, 1}, g \in {Keep, 1}}
Cuts == {Resize("truncate", n, size) : n \in Names, size \in {0, MaxSize}}
OnEach(ops) == {Ask(op, n) : op \in ops, n \in Names}
Links == {q \in Pairs("link") \cup Pairs("symlink") : q.to # q.name}
OnRoot == {Ask(op, Root) : op \in {"opendir", "readdir", "releasedir"}}
Usual == Masked(Perms)      \* the mode of most files
Modes(ops, modes) == {WithMode(op, n, mode) : op \in ops, n \in Names, mode \in modes}
DataCalls ==
    OnEach({"getattr", "open", "unlink"}) \cup Modes({"create"}, {Usual})
    \cup Pairs("rename") \cup Cuts
NameCalls ==
    OnEach({"getattr", "unlink", "rmdir", "readlink"})
    \cup Modes({"create", "access", "mkdir"}, {Usual})
    \cup Pairs("rename") \cup Links \cup OnRoot
AttributeCalls ==
    OnEach({"getattr"}) \cup Modes({"create"}, {{}, Usual, Perms})
    \cup Modes({"mkdir", "mkfifo"}, {Usual, Perms}) \cup Modes({"access"}, {{}, Usual})
    \cup Modes({"chmod"}, {{"others"}}) \cup Gifts
OnNames(use) ==
    CASE use = "data" -> DataCalls
      [] use = "names" -> NameCalls
      [] use = "attributes" -> AttributeCalls

\* A program closes a file before it removes it or renames it, or another to it: what libfuse
\* does about a file that is still open is left out.
Requests(c) == LET k == m[c] IN
    {q \in (IF k.file = 0 THEN {} ELSE OnOpenFile(k.name)) \cup OnNames(mounted.use) :
        /\ q.op = "open" => k.file = 0
        /\ (q.op \in {"unlink", "rename"} /\ k.file # 0) => k.name \notin {q.name, q.to}
        /\ q.op = "opendir" => k.dir = "closed"
        /\ q.op \in {"readdir", "releasedir"} => k.dir # "closed"}
-----------------------------------------------------------------------------
NoMount == [file |-> 0, name |-> Root, dir |-> "closed", opened |-> 0]

\* The directory is empty or holds a file of one page, which such a mount has written.
WithFile(cells) ==
    LET f == CHOOSE n \in Names : TRUE IN
    [EmptyFs EXCEPT !.dir[f] = 1,
                    !.node[1] =
                      [NoNode EXCEPT !.kind = "file", !.mode = Usual, !.data = cells]]
OnePage == [j \in 1 .. Page |-> Plain(j)]

Init ==
    /\ mounted \in [type : {"dnfs", "FS02", "GFS01"}, chroot : BOOLEAN, use : Uses]
    /\ mounted.chroot => (http /\ mounted.use = "names")
    /\ encrypted => mounted.use = "data"      \* the rest of GFS01 is a copy of FS02
    /\ fs \in {EmptyFs, WithFile(IF encrypted THEN CHOOSE s \in encrypt(OnePage, 0, TRUE) : TRUE
                                 ELSE OnePage)}
    /\ m = [c \in Clients |-> NoMount]
    /\ at = [c \in Clients |-> "idle"]
    /\ call = [c \in Clients |-> NoRequest]
    /\ message = [c \in Clients |-> NoMessage]
    /\ answer = [c \in Clients |-> NoAnswer]
    /\ result = [c \in Clients |-> NoResult]
    /\ calls = 0
    /\ diverged = FALSE

\* A program makes a call. An HTTP mount sends its message, if there is one for the call;
\* httpfs_write loads the key first.
Call(c) ==
    /\ calls < MaxCalls /\ ~ diverged
    /\ calls' = calls + 1
    /\ \E q \in Requests(c) :
         /\ call' = [call EXCEPT ![c] = q]
         /\ IF http /\ q.op \notin Local_ops
            THEN /\ Goto(c, "idle", "sent")
                 /\ \E msg \in Messages(q, mounted.chroot, Loaded(m[c].opened), encrypted) :
                      message' = [message EXCEPT ![c] = msg]
                 /\ m' = IF encrypted /\ q.op = "write"
                         THEN [m EXCEPT ![c].opened = load(@)] ELSE m
            ELSE Goto(c, "idle", "called") /\ UNCHANGED <<message, m>>
    /\ UNCHANGED <<mounted, fs, answer, result, diverged>>

\* The handler, or the server, applies its umask to a mode of which the kernel has taken that of
\* the program.
Masks(q, ok) == ok /\ q.op \in {"create", "mkfifo", "mkdir"} /\ Masked(q.mode) # q.mode

\* A handler of dnfs.
Dnfs_handler(c) == LET q == call[c] IN
    /\ ~ http /\ Goto(c, "called", "done")
    /\ \E r \in dnfs_oper(fs, InUse, m[c], q) :
         /\ fs' = r.fs
         /\ m' = [m EXCEPT ![c] = r.m]
         /\ result' = [result EXCEPT ![c] = [ok |-> r.ok, out |-> r.out]]
         /\ diverged' = (diverged \/ (q.op = "readdir" /\ m[c].dir = "end") \/ Masks(q, r.ok))
    /\ UNCHANGED <<mounted, call, message, answer, calls>>

\* What an HTTP mount answers by itself, without asking whether there is such a file.
Unasked(q) ==
    \/ q.op = "open" /\ ~ open(fs, q.name).ok
    \/ q.op = "access" /\ ~ access(fs, q.name, q.mode).ok
    \/ q.op = "mkfifo" /\ mkfifo(fs, InUse, q.name, q.mode).ok

Http_handler(c) == LET q == call[c] IN
    /\ http /\ Goto(c, "called", "done")
    /\ result' = [result EXCEPT ![c] = [ok |-> q.op # "mkfifo", out |-> <<>>]]
    /\ m' = [m EXCEPT ![c] =
               CASE q.op = "open" -> [@ EXCEPT !.file = fs.dir[q.name], !.name = q.name]
                 [] q.op = "release" -> [@ EXCEPT !.file = 0]
                 [] q.op = "opendir" -> [@ EXCEPT !.dir = "start"]
                 [] q.op = "releasedir" -> [@ EXCEPT !.dir = "closed"]
                 [] OTHER -> @]
    /\ diverged' = (diverged \/ Unasked(q))
    /\ UNCHANGED <<mounted, fs, call, message, answer, calls>>
-----------------------------------------------------------------------------
\* What the server does about a call that a local file system would not do: it looks for an
\* open file by the name that it had, appends what is written elsewhere, empties a file that
\* was to be created, creates one with another mode than it was asked for, applies its umask to
\* that of a directory, puts the chroot in front of the target of a link, and reports the half
\* of a chown. With encryption, a write without the key, or a hole.
Diverges(c, may, ok) == LET q == call[c] IN
    \/ /\ q.op \in {"read", "write", "ftruncate", "fgetattr"}
       /\ fs.dir[q.name] # m[c].file
    \/ q.op = "write" /\ (q.off # Size(fs, q.name) \/ Garbage \in Range(message[c].data))
    \/ q.op = "create" /\ Kind(fs, q.name) \in {"file", "link"}
    \/ q.op = "create" /\ ok /\ q.mode # Masked(Perms)
    \/ q.op = "mkdir" /\ Masks(q, ok)
    \/ q.op = "symlink" /\ mounted.chroot
    \/ q.op = "chown" /\ q.owner # Keep /\ q.group # Keep /\ may.user # may.group
    \/ encrypted /\ q.op \in {"truncate", "ftruncate"} /\ Kind(fs, q.name) = "file"
                 /\ q.off > Size(fs, q.name)

Permissions(q) ==
    IF q.op = "chown" THEN [user : BOOLEAN, group : BOOLEAN] ELSE {[user |-> TRUE, group |-> TRUE]}

\* The server takes the message, carries it out and answers.
Serve(c) ==
    /\ Goto(c, "sent", "answered")
    /\ \E may \in Permissions(call[c]) :
         LET a == Server!call(fs, InUse, message[c], may) IN
         /\ fs' = a.fs
         /\ answer' = [answer EXCEPT ![c] = [status |-> a.status, data |-> a.data]]
         /\ diverged' = (diverged \/ Diverges(c, may, a.status = "OK"))
    /\ message' = [message EXCEPT ![c] = NoMessage]
    /\ UNCHANGED <<mounted, m, call, result, calls>>

\* The handler gets the answer; httpfs_read of GFS01 loads the key.
Receive(c) == LET decrypts == encrypted /\ call[c].op = "read" /\ answer[c].status = "OK" IN
    /\ Goto(c, "answered", "done")
    /\ \E r \in IF decrypts THEN read_response(call[c], answer[c], Loaded(m[c].opened))
                ELSE {check_response(answer[c])} :
         result' = [result EXCEPT ![c] = r]
    /\ m' = IF decrypts THEN [m EXCEPT ![c].opened = load(@)] ELSE m
    /\ diverged' = (diverged \/ (decrypts /\ ~ Loaded(m[c].opened)))
    /\ answer' = [answer EXCEPT ![c] = NoAnswer]
    /\ UNCHANGED <<mounted, fs, call, message, calls>>

\* The message is lost before the server takes it, or the answer on its way back.
Lose(c) ==
    /\ Goto(c, "sent", "done") \/ Goto(c, "answered", "done")
    /\ message' = [message EXCEPT ![c] = NoMessage]
    /\ answer' = [answer EXCEPT ![c] = NoAnswer]
    /\ result' = [result EXCEPT ![c] = Broken]
    /\ UNCHANGED <<mounted, fs, m, call, calls, diverged>>

\* The program gets the result.
Return(c) ==
    /\ Goto(c, "done", "idle")
    /\ call' = [call EXCEPT ![c] = NoRequest]
    /\ result' = [result EXCEPT ![c] = NoResult]
    /\ UNCHANGED <<mounted, fs, m, message, answer, calls, diverged>>

Next == \E c \in Clients :
    \/ Call(c) \/ Dnfs_handler(c) \/ Http_handler(c) \/ Serve(c) \/ Receive(c) \/ Lose(c)
    \/ Return(c)

Spec == Init /\ [][Next]_vars
-----------------------------------------------------------------------------
\* The directory as the mounts show it, and the result that an answer is going to give.
Decrypted(nd) ==
    IF nd.kind # "file" THEN nd
    ELSE [nd EXCEPT !.data = [j \in DOMAIN nd.data |-> plain(nd.data[j], j)]]
Shown ==
    IF ~ encrypted THEN fs ELSE [fs EXCEPT !.node = [i \in Nodes |-> Decrypted(fs.node[i])]]

Promised(c) ==
    IF encrypted /\ call[c].op = "read"
    THEN CHOOSE r \in read_response(call[c], answer[c], TRUE) : TRUE
    ELSE check_response(answer[c])

Local == INSTANCE LocalFs WITH
    fs <- Shown,
    open_file <- [c \in Clients |-> m[c].file],
    at <- [c \in Clients |->
             IF at[c] = "sent" THEN "called" ELSE IF at[c] = "answered" THEN "done" ELSE at[c]],
    result <- [c \in Clients |-> IF at[c] = "answered" THEN Promised(c) ELSE result[c]]

\* A mount is a local file system to its programs, whatever the other mount does and whatever
\* is lost: each step is one of LocalFs or changes nothing that it is about, up to a step that
\* no local file system makes.
MountIsLocal ==
    [][diverged' \/ (\E c \in Clients : Local!Step(c)) \/ UNCHANGED Local!vars]_vars
=============================================================================
