# SysProgG3 in TLA+

Models, model checks and proofs of the programs of this repository that
communicate through System V semaphores, shared memory, message queues and
signals, and of its three FUSE file systems. Paths are relative to the root of
the repository.

## The system

| Component | Source | State | Operations | Interacts with |
|---|---|---|---|---|
| System V wrappers | `src/CommonAssignmentIPC01/libsp.c` 122-327 | semaphore sets and segments in the kernel | `get_shm`, `get_sem`, `wait_sem` (again on EINTR), `signal_sem`, `remove_*` | the kernel |
| Monitor | `libsp.c` 573-909 | a set {mutex, preempt}, a set of conditions | enter, leave, wait, signal, broadcast | wrappers; every client below |
| Synchronous messages | `libsp.c` 358-531 | a queue, stopped processes | `send_sync`, `receive_sync` | SIGSTOP and SIGCONT |
| Bakery | `src/GroupAssignmentGIPC01/lamport.c`, `src/lib/lib.c` | two arrays in shared memory | lock, unlock, init, remove | plain loads and stores |
| Philosophers | `src/GroupAssignmentGIPC01/dining_philosophers.c` | one set: sticks and chairs | sit, take, put | fork and wait |
| Readers and writers | `src/CommonAssignmentIPC02/readwrite_*.c` | three semaphores, a counter and an object in shared memory or a file | reader, writer, main | outlive their processes |
| Shared array | `array.c`, `main_prod_array.c`, `main_cons_array.c` | values, dirty bits and IDs in a segment | init, consume, produce, remove, getLen | monitor, `get_shm` |
| Queue, its programs | `src/lib/queue.c`, `main_prod_queue.c`, `main_cons_queue.c` | a ring buffer in a segment | enqueue, dequeue, front, back | monitor |
| Shared file | `file.c`, `main_prod_file.c`, `main_cons_file.c` | a production offset and a user count in a segment, a file | init, consume, produce, remove | monitor, the file system |
| Single variable | `main_prod.c`, `main_cons.c` | two semaphores, a variable | produce, consume, `exit_procedure` | the wrappers |
| FS01, `dnfs` | `src/CommonAssignmentFS01/dnfs.c` | a descriptor per open file, a DIR per open directory | FUSE handlers that make the same system call elsewhere | the kernel |
| FS02, HTTP file system | `src/CommonAssignmentFS02`, `src/include/CommonAssignmentFS02` | nothing in the mount; the directory on the server | FUSE handlers, one message each; a PHP script | curl, the server |
| GFS01, encrypted HTTP file system | `src/GroupAssignmentGFS01` | the descriptors that loading the key leaks | the handlers of FS02, reading and writing through AES in counter mode | FS02's script, openssl |

What is hard in it: processes preempted between any two system calls; counts
of queued processes that are read in one call and used in another; semaphores
and segments that outlive, or are removed under, the processes that use them;
signals that are delivered too early; stores that other processors see late;
answers of a server that are lost after the request has been carried out; files
that a mount names by a path which another mount changes. `PROJECT.json` lists
the hazards line by line.

What makes each part correct: one process at a time in the monitor and no
wake-up lost or left over; exclusion and order of arrival in the bakery; sticks
held by one hand and a dinner that ends; writers alone, nobody overtaken,
semaphores given back; every value delivered once to every registered consumer;
first in, first out; a sender that is told the truth and goes on; a mount that
behaves as a local file system.

## The modules

**`Monitor`** has a step for each system call. `call[p]` says which function
process `p` executes and what it does next; `val` is the value of each
semaphore. A process in state `blocked` is in the queue of a semaphore, one in
state `semop` is about to call `semop(-1)` and is counted by no `GETNCNT`: most
of what can go wrong in this monitor happens to processes between the two.
`Interrupted` is the EINTR on which `wait_sem` calls `semop` again.
`MonitorTest` runs `main_monitor.c` on it.

**`Lamport`** has a step for each load and each store of an array element, as
the program is compiled (the Makefile gives no `-O`): `array_max` loads an
element twice, the second loop of `Lamport_lock` loads up to three elements.
With `BufferSize > 0`, stores go through a first-in first-out buffer per
process, which is what an x86 processor does to them; the source has no fence.

**`ReadersWriters`** is the protocol that the four `readwrite_*.c` share: a step
for each semop and each access to the counter. `Restart` kills all processes and
runs `main` again on the semaphores and the segment that they left; `Fail` is a
call that returns from the critical section without the end of the protocol.
**`RWObjects`** extends it with what each program reads and writes there: the
variable, the array, the file whose `open` or `write` may fail, and the queue, in
which `pop` takes a step for each load and store because readers hold the lock
together.

**`Philosophers`** has a step for each semop, `End` for the end of `main`.

**`SharedArray`** extends `Monitor` with the functions of `array.c`: what is
done between two monitor calls is joined to the second one. `segment` is what
the key names; `handle[p]` is what `p` is attached to, which may differ once
somebody has removed the key. `BroadcastArray` is what the array promises to
its users; `SharedArray` is checked to implement it, segment by segment.

**`Queue`** gives the functions of `queue.c` as operators. `ProdConsQueue`
extends `Monitor` and `Queue` with both `main`s. `BoundedQueue` is the queue
that the ring buffer implements.

**`SharedFile`** extends `Monitor` with `file.c` and its programs. The counter of
users is loaded and stored in steps of their own, because `IPC02_File_remove`
changes it outside the monitor: two programs that exit at once may lose an
update, so that the monitor is removed too early, too late or never. `SharedLog`
is the log that the users believe the file to be; it is one until the first
program that exits frees the key of the segment and another program creates a
second segment, with an offset of production of its own.

**`ProdConsVar`** is the life cycle of the System V objects under the two programs
of the variable, one step per system call of `get_sem`, `get_shm`, the semops and
`exit_procedure`: a key names an object or none, an id may belong to an object that
has been removed, a removed segment lives while somebody is attached. Programs are
started, quit and are killed.

**`SyncMsg`** has a step for each msgsnd, msgrcv and kill. Texts are pairs, so
that an acknowledgement can be taken for a message and a message for an
acknowledgement as the `sscanf` calls do.

**The file systems.** `KernelFs` gives the system calls on one directory as functions
of its contents: entries, inodes with their links, data, mode and owner. A mode is
the set of those who have permissions, the user or the others, and `Umask` is what the
process of `dnfs` or of the server takes from the modes that it creates with. Only
`access` and `chown` ask for permissions. `KernelFs` is not
part of the repository and is modelled as its handlers use it. `Dnfs` has the
handlers of `dnfs.c`; `HttpFs` the handlers of `httpfs.c`, `net.c`, `write.c` and
`read.c`, each of which builds a message and makes a result of the answer;
`HttpServer` the functions of the PHP script; `Crypt` the counter mode of
`crypt.c`, in which a cell on the server remembers the position that it was
encrypted with, and the descriptors that loading the key and the vector leaks.
With `EVP_aes_*_ctr` the block size is 1, so that the left padding of `crypt.c` is
always empty. `Mounts` composes them: each client is a program and its mount; a
call begins, becomes a message, is served, answered and returns, and the message
or its answer may be lost. `LocalFs` is what programs take a mount for: each call
happens at one moment between its beginning and its end, an open file stays the
file that was opened, creation is exclusive and gives the mode that was asked for, to
which the kernel has applied the umask of the program.

`Mounts` implements `LocalFs` up to the first step that no local file system
makes. `Diverges` (what the server does), `Unasked` (what an HTTP mount answers by
itself), `Masks` and the handlers name them; that there are no others in the model is
what the run checks and `MountsAreLocal` proves. After such a step nothing is claimed:

- an open file is looked for by its name (`template.php` 83): after a rename or a
  removal through the other mount a read or write goes to another file;
- a write is appended wherever its offset is (`fopen` with mode `a`, 101);
- `create` empties a file that the other mount has created since libfuse asked (139);
- `create` unpacks the mode of its message and ignores it (136-139): the file has the
  mode that `fopen` and the umask of the server give it;
- the umask of the server, or of `dnfs`, is applied to a mode of which the kernel has
  already taken that of the program (171; `dnfs.c` 113, 117, 134);
- a symbolic link made through a chroot has the remote path in its target;
- a `chown` of both user and group reports an error after it has carried out half (283);
- `open` of the HTTP mounts always succeeds (`open.c` 7), and so does `access`, which
  they do not have; without a `mknod` they refuse a FIFO;
- `dnfs_readdir` returns an old `errno` at the end of a directory (`dnfs.c` 573);
- with encryption, a hole that `truncate` makes is decrypted to something else, and
  when the descriptors have run out data is encrypted or decrypted with what is on
  the stack (`crypt.c` 61).

The `MC` modules hold the constants of the runs.

## The runs

Most runs finish within a minute, `Mounts` and `ReadersWriters` within two to
three. A module is checked in one run with all its properties.

| Run | Instance | Shows |
|---|---|---|
| `Monitor` | 3 processes, 2 conditions, one process interrupted by signals | one token, exclusion, a signal is left over only by an unfinished broadcast, whoever wants to enter does |
| `Lamport` | 3 processes | exclusion, first come first served, every lock returns |
| `ReadersWriters` | each of the four programs: 2 readers, 1 writer, 1 kill and restart, 1 failing call, a queue of 3 | exclusion, exact counter, no overtaking, a reader reads one version, `pop` is in order; until the kill or failure: everybody served, semaphores given back |
| `Philosophers` | 5 philosophers | sticks in one hand, no deadlock, the dinner ends |
| `SharedArray` | 1 producer, 2 consumers, 1 element, 2 segments | exact registration, each segment implements `BroadcastArray` |
| `ProdConsQueue` | 1 producer, 2 consumers, ring of 2 | the ring implements `BoundedQueue`, woken consumers find an element |
| `ProdConsVar` | 3 programs, 1 kill | the right to the variable is one token, each value is passed once, nothing is left in the kernel, with the exceptions that the properties name |
| `SharedFile` | 2 producers, 1 consumer, 2 segments, 2 records and one old one | no read of what is not there; the file is a `SharedLog` until there are two segments |
| `SyncMsg` | 2 senders, 2 receivers, 2 retries | success is told only for what was received, retries are bounded, a sender whose message was received does not stay stopped unless it was continued too early |
| `Mounts` | 2 programs, 2 names, 4 calls, each kind of mount | each mount implements `LocalFs` up to the departures listed above, with lost messages and answers |

The bounds. Three processes are what the races of the monitor need: one that
signals, one that is woken, one that comes in between. Three processes in the
bakery make the pairwise comparisons meet a third ticket; `MaxNumber = 1` stops
new customers while somebody holds a higher ticket, never those inside; three buffered stores are
more than a lock leaves pending. One restart shows what a kill leaves; two readers are
what the tests for the first and the last, and a queue popped by two, need. The code
starts one writer: several writers are in the proof. In
the queue of three, `MaxElements = 2` stops the calls when its count is past what a
queue of three can hold; nothing more is called once two readers have crossed. The odd
number of philosophers is the case in which the parity rule gives two neighbours the
same order. Two segments are enough for an array (or the segment of the file) to be
removed and created again; the guard is on their creation. A third consumer in
`SharedArray`, one too many for `MAX_CONSUMERS`, takes the run past five minutes and is
left out; the refusal of `Array_init` happens when the segment disappears under a
process. The ring of two elements wraps, fills and empties. In `ProdConsVar` three
starts let a program create objects while a second removes them under a third.
`MaxReceived` bounds how often a receiver calls, `MAX_RETRY` is 2 instead of the
constant of the header. In `Mounts` a file has up to three cells and a page has two, so
that a read may begin in one page and end in the next; four calls are open, rename by
the other mount, write, and one more; four descriptors are two loads of key and
vector. The calls of a run are of one family at a time: on the data of a file, on
names, or on attributes. `Umask` takes the permissions of the others, so that a file
may be asked for with the mode that the server gives, with less (a private file) and
with more than the umask leaves. The run has six million distinct states. Readers, consumers, values and processes that are
interchangeable are symmetric where the configuration says `SYMMETRY`, which
none with a liveness property does.

These runs end in a violation: what a test or a header says of the program is not
what it does.

| Run | What it shows |
|---|---|
| `MonitorTest` | the test of the monitor may hang: a process that has begun to wait is not seen in the queue of the condition, and the signal is skipped |
| `LamportBuffered` | with store buffers two processes are in the critical section: there is no fence |

Some properties hold except after a step that is itself a defect of the code: a SETALL
that overwrites a signal (`OneRight`, `ValuePassedOnce`), two readers in `pop` or a full
queue (`PopsInOrder`), a sender continued too early (`ReceivedEndsStop`), a second segment
(`FileIsLog`), a departure of a mount (`MountIsLocal`). They show that nothing else breaks
what they say; they would not find the defect that they except, and `PROJECT.json` says so
at its hazard.

Each property of a passing run has a mutant in `PROJECT.json`: a definition of
the model with a plausible bug, kept next to the definition that it changes,
with which TLC finds the property violated.

## Fairness

The processes are scheduled: weak fairness of what a process does by itself.
The queues of System V semaphores are first in, first out, so that a process in
the queue of a semaphore that is signalled again and again gets it: strong
fairness of being granted a semaphore (`Monitor`), or of the steps of a process
(`RWObjects`). The queue of messages is first in, first out as well, and
so are the processes that wait for one: strong fairness of the steps of a sender and a
receiver in `SyncMsg`. In `Monitor` a process inside leaves or waits in the
end, as every caller does. In the bakery and at the table weak fairness is enough. Nobody
has to enter, lock, call, signal, quit or be interrupted. When a behaviour may stop
(everybody waits, the objects are removed, the calls are used up) the configuration
says so with `CHECK_DEADLOCK FALSE`.

## The proofs

Each holds for every value of the constants that the assumptions of the modules allow,
any number of processes, kills, retries and any size of buffer included.

`MonitorProofs`: `TypeOK`, `OneToken`, `MutualExclusion` and `TokenHasTaker`, for every
choice of calls and interruptions. `OneToken` is the inductive one: with the types it
says that exactly one of the processes inside and the semaphores holds the right to
execute. It is preserved because each call either hands the token from a process to a
semaphore or a queued process, or takes it from a positive semaphore. Exclusion follows
at once. `TokenHasTaker` needs in addition `Announced`: whoever is about to signal
`I_PREEMPT`, or a condition in `signal_cond`, has seen somebody in the queue, who still
waits since nobody else executes in between.

`ProdConsQueueProofs` and `SharedFileProofs` show that these clients implement `Spec` of
`Monitor`, so that what is proved of it holds of them. The ring buffer of any length
implements `BoundedQueue`: the lemmas on `Enqueued` and `Dequeued` say what they do to
`Contents`. `WokenFindsElement` rests on `OneToken`: from the signal of a producer
to the step of the consumer that it wakes the token is on the way and nobody changes the
queue. For the file the invariant is that no segment counts more than the file has, and
that the only segment counts all of it; it does not depend on the unprotected counter.

`ReadersWritersProofs` argues in layers. `S_NUM_READERS` is a mutex of the sections that
change the counter, so that the counter is exact and the tests for the first and the last
reader are right; the readers together are then one more candidate for `S_WRITE`, beside
the writers, so that a writer is alone. `S_QUEUE` is a mutex of what leads to the
resource, so that nobody overtakes. `NothingLost`, which holds until the first kill or
failure, says who has each semaphore: when nobody is in the protocol all are given back.
`ProgramsFollowProtocol` shows that the four programs of `RWObjects` implement the
protocol, and `ReadersSeeOneVersion` uses it. For a queue and a ring of any
size the module shows that `pop` gives the elements in order until two readers cross in it or the queue
has been full: the reader in `pop` has loaded what the ring holds, and no writer is
there.

`SystemVProofs` has the programs that use semaphores and message queues without the
monitor, which share no constant or variable. For the philosophers the
inductive invariant is `StickInOneHand` with the chairs, whose
semaphore is `N` minus those who sit. There is no deadlock: if nobody
could go on, somebody would wait for his second stick, held by a neighbour as his first.
By the parity of the numbers these two can only be philosopher 0 and philosopher `N - 1`;
then `N - 1` waits for his second stick in turn and would have to be philosopher 0.
For the programs of a variable the right to execute is one token for each triple of
memory, semaphores and initialisation, and the invariant follows the triple through the
program that makes it: the one creator of a set is the only one who initialises it
(`OneCreator`), a set that nobody works with is as it was made (`Unused`), and each triple
has one token, in a semaphore or with a program, as long as the programs have not mixed
two triples (`Tokens`). A kill only loses a token. `NothingLeft` needs `Owned`: each object
that still exists is known to a program that has yet to remove it.

`SharedArrayProofs`: `RegistrationExact` does not depend on the monitor, since every
program changes only its own entries of the segment; the invariant adds that whoever is
registered is attached (`UsersAttached`). `Array_init` finds an ID because among the first
`n_consumers + 1` there is always a free one. `Implements` is shown for each segment
by itself: a program that attaches to a segment made anew meets an abstract array of its
own. `ArrayUsesMonitor` shows that the programs keep the protocol of `Monitor`, so that
exclusion is carried over and not proved again.

`LamportProofs` assumes `BufferSize = 0`. Its invariant is Lamport's: a process past
its scan of `j` is before `j` in the order of tickets, or `j` has not picked its
number, in which case its `max` will be at least the number of the first. Because
`array_max` loads an element twice, the invariant speaks of the loads that are still to
come: a ticket picked while a customer is waiting is above that customer's, since a
waiting customer's number does not change. `FirstComeFirstServed` needs in
addition that whoever was waiting when a process began to lock has a smaller
ticket.

For synchronous messages the elements of the queue are genuine. Whatever is reinserted
with another retry count keeps its first field, and only a receiver that has the message
makes an acknowledgement of it; so the message of a sender that returns 0 has been
received.

`MountsProofs` shows that the mounts are a local file system, for any numbers of mounts,
names, inodes, calls and any umask. It has three layers. What the calls of Linux in `KernelFs` keep
and return, call by call (`CallKeeps`), and what they do to decrypted contents
(`CallShows`, `WriteShows`, `ReadShows`): decryption goes cell by cell and keeps lengths,
so every call gives the decrypted result except when it makes a hole, which is one of
the divergences; a creation with a mode that the umask leaves alone is a local creation
(`Unmasked`). What the server does with a message, by opcode: what Linux would have
done with the call itself (`Served`), and on the text with encryption (`SecretServed`).
Then the steps: `Call` begins a call, a handler of `Dnfs`, an HTTP handler that sends
nothing and `Serve` carry it out, `Receive` is invisible, `Lose` breaks it and `Return`
ends it. The inductive invariant `Sound` is about what is in flight: a message is one
that the mount sends for the call that the program waits for, and an open file is a
regular file. It holds until the first divergence; the same lemmas on the calls give the
invariant and the refinement.

Only model-checked: the liveness properties (`EntryServed`, `LockServed`,
`EverybodyServed`, `DinnerEnds`, `ReceivedEndsStop`: fairness and ENABLED are out of
the prover's reach). Every other property of the runs is stated by a theorem.

## Not modelled

Failures of system calls other than EINTR, except those that the sources handle and a
program can run into (a segment that disappears between two calls, a set that is removed,
a file that does not open, one consumer too many). Kills inside a monitor, which leave it
closed.

- `init_monitor` and `remove_monitor`: the clients start on a monitor that is initialised,
  and their behaviours end when it is removed. The same life cycle is modelled with
  `ProdConsVar`.
- `Lamport_init` and the children of `main_lamport.c` that free the key of its segment.
- `send_async`, `receive_async` and the mailboxes are one system call each; the programs
  that test the wrappers are sequential, and so are the text programs of FS01.
- Texts of messages and printed values beyond their identity; what `Queue_back` prints
  when it reads in front of the array is a value of 0 to the model.
- `Array_consume` with an index out of bounds, which returns inside the monitor: no
  program calls it so.
- A killed run of the philosophers, which leaves its set to the next.
- In the file systems: permissions, other than those that `access` and `chown` ask for
  (there is one user, who may do the rest); which error a call fails with (the statuses
  of the script are told apart only as success or failure, so that an `EACCES` where
  Linux has another error is not seen to be wrong); what is in a directory below the
  root; devices; times, `statfs`, `flush`, `fsync`, extended attributes, the log,
  the options, the 32 bits of sizes and offsets in a header, malformed answers
  (`EBADMSG`), the page cache of the kernel, and what libfuse does about a file that is
  removed while it is open: programs close a file before they remove or rename it
  themselves. A message that is lost is not carried out later.

## What is left to do

In this order:

1. The life cycle of the monitor (`init_monitor` and its removal under the users) and
   of the bakery under `main_lamport.c`, as `ProdConsVar` has it for the wrappers.
2. A third consumer in `SharedArray`, one too many, in an instance that is small enough.
