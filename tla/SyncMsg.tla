------------------------------- MODULE SyncMsg -------------------------------
(***************************************************************************)
(* send_sync and receive_sync of src/src/CommonAssignmentIPC01/libsp.c:    *)
(* synchronous messages over one type of a System V message queue.  The    *)
(* sender stops itself until the receiver continues it, then looks for its *)
(* acknowledgement in the same queue, among the messages.  A step is one   *)
(* system call.                                                            *)
(*                                                                         *)
(* A message is the string "pid-text" and an acknowledgement the string    *)
(* "hash-retry"; both are pairs here, since either function reads whatever *)
(* it finds as two fields around the dash.  Every sender sends a text of   *)
(* its own, and the hash of a text is the text.                            *)
(***************************************************************************)
EXTENDS Naturals, Sequences

CONSTANTS
    Senders,        \* processes that call send_sync once; also their texts
    Receivers,      \* processes that call receive_sync again and again
    MAX_RETRY,
    MaxReceived     \* how often a receiver calls receive_sync

ASSUME SyncProcsAssumption == Senders \cap Receivers = {}
ASSUME SyncBoundsAssumption == MAX_RETRY \in Nat /\ MaxReceived \in Nat

VARIABLES
    channel,    \* the messages of this type in the queue
    stopped,    \* the senders that are stopped
    at,         \* the next step of each process
    got,        \* the pair that each process has received last
    retry,      \* msg_retry and my_retry of each sender
    received,   \* what each receiver has returned, in order
    early       \* history: the senders that were continued before they had stopped
syncVars == <<channel, stopped, at, got, retry, received, early>>

Retries == 0 .. MAX_RETRY + 1
Text(s) == <<"text", s>>
Texts == {Text(s) : s \in Senders} \cup {<<"digit", n>> : n \in Retries}
Pid(s) == <<"pid", s>>

\* The text of a retry count, and the count that sscanf reads from a text.
Digit(n) == <<"digit", n>>
IsNumber(t) == t[1] = "digit"

SenderSteps == {"send", "stop", "ack", "check", "again", "ok", "failed"}
ReceiverSteps == {"receive", "acknowledge", "continue"}
MoveTo(p, step) == at' = [at EXCEPT ![p] = step]
-----------------------------------------------------------------------------
SyncInit ==
    /\ channel = <<>>
    /\ stopped = {}
    /\ at = [p \in Senders \cup Receivers |-> IF p \in Senders THEN "send" ELSE "receive"]
    /\ got = [p \in Senders \cup Receivers |-> <<>>]
    /\ retry = [s \in Senders |-> [msg |-> 0, my |-> 0]]
    /\ received = [r \in Receivers |-> <<>>]
    /\ early = {}

Send(s) ==
    /\ at[s] = "send"
    /\ channel' = Append(channel, <<Pid(s), Text(s)>>)
    /\ MoveTo(s, "stop")
    /\ UNCHANGED <<stopped, got, retry, received, early>>

\* kill(getpid(), SIGSTOP)
Stop(s) ==
    /\ at[s] = "stop"
    /\ stopped' = stopped \cup {s}
    /\ MoveTo(s, "ack")
    /\ UNCHANGED <<channel, got, retry, received, early>>

\* msgrcv of the acknowledgement: the first element of the type, whatever it is.
ReceiveAck(s) ==
    /\ at[s] \in {"ack", "again"} /\ s \notin stopped
    /\ channel # <<>>
    /\ channel' = Tail(channel)
    /\ got' = [got EXCEPT ![s] = Head(channel)]
    /\ retry' = [retry EXCEPT ![s] =
                    [msg |-> IF IsNumber(Head(channel)[2]) THEN Head(channel)[2][2] ELSE @.msg,
                     my |-> IF at[s] = "again" THEN @.my + 1 ELSE @.my]]
    /\ MoveTo(s, "check")
    /\ UNCHANGED <<stopped, received, early>>

Mine(s) == got[s][1] = Text(s)

\* Mutant: what is not the acknowledgement is reinserted however often that was done.
CheckAck_unbounded(s) ==
    /\ at[s] = "check"
    /\ MoveTo(s, IF Mine(s) THEN "ok"
               ELSE IF retry[s].my = MAX_RETRY THEN "failed" ELSE "again")
    /\ channel' = IF ~ Mine(s) /\ retry[s].my < MAX_RETRY
                  THEN Append(channel, <<got[s][1], Digit(retry[s].msg + 1)>>)
                  ELSE channel
    /\ UNCHANGED <<stopped, got, retry, received, early>>

\* Mutant: the acknowledgement is not checked again after the last retry.
CheckAck_once(s) ==
    /\ at[s] = "check"
    /\ MoveTo(s, IF Mine(s) \/ retry[s].my = MAX_RETRY THEN "ok" ELSE "again")
    /\ channel' = IF ~ Mine(s) /\ retry[s].my < MAX_RETRY /\ retry[s].msg < MAX_RETRY
                  THEN Append(channel, <<got[s][1], Digit(retry[s].msg + 1)>>)
                  ELSE channel
    /\ UNCHANGED <<stopped, got, retry, received, early>>

CheckAck(s) ==
    /\ at[s] = "check"
    /\ MoveTo(s, IF Mine(s) THEN "ok"
               ELSE IF retry[s].my = MAX_RETRY THEN "failed" ELSE "again")
    /\ channel' = IF ~ Mine(s) /\ retry[s].my < MAX_RETRY /\ retry[s].msg < MAX_RETRY
                  THEN Append(channel, <<got[s][1], Digit(retry[s].msg + 1)>>)
                  ELSE channel
    /\ UNCHANGED <<stopped, got, retry, received, early>>

Receive(r) ==
    /\ at[r] = "receive"
    /\ channel # <<>> /\ Len(received[r]) < MaxReceived
    /\ channel' = Tail(channel)
    /\ got' = [got EXCEPT ![r] = Head(channel)]
    /\ MoveTo(r, "acknowledge")
    /\ UNCHANGED <<stopped, retry, received, early>>

Acknowledge(r) ==
    /\ at[r] = "acknowledge"
    /\ channel' = Append(channel, <<got[r][2], Digit(0)>>)
    /\ MoveTo(r, "continue")
    /\ UNCHANGED <<stopped, got, retry, received, early>>

\* Mutant: the fields of the message are read in the wrong order.
Continued_swapped(r) == {s \in Senders : got[r][2] = Pid(s)}

\* The sender that the first field of the message names; no process of the system when it is
\* not the process ID of a sender.
Continued(r) == {s \in Senders : got[r][1] = Pid(s)}

\* kill(to_cont, SIGCONT): lost when the sender has not stopped yet.
Wake(r) ==
    /\ at[r] = "continue"
    /\ stopped' = stopped \ Continued(r)
    /\ early' = early \cup {s \in Continued(r) : at[s] = "stop"}
    /\ received' = [received EXCEPT ![r] = Append(@, got[r][2])]
    /\ MoveTo(r, "receive")
    /\ UNCHANGED <<channel, got, retry>>

send_sync(s) == Send(s) \/ Stop(s) \/ ReceiveAck(s) \/ CheckAck(s)
receive_sync(r) == Receive(r) \/ Acknowledge(r) \/ Wake(r)

SyncNext == (\E s \in Senders : send_sync(s)) \/ (\E r \in Receivers : receive_sync(r))

SyncSpec == SyncInit /\ [][SyncNext]_syncVars

\* The processes run, when they are not stopped.
SyncFairSpec ==
    /\ SyncSpec
    /\ \A s \in Senders : SF_syncVars(send_sync(s))
    /\ \A r \in Receivers : SF_syncVars(receive_sync(r))
-----------------------------------------------------------------------------
Items == (Texts \cup {Pid(s) : s \in Senders}) \X Texts

\* The type invariant: whatever is taken for an acknowledgement and reinserted, the
\* retry counts stay within MAX_RETRY and the queue holds only texts and process IDs.
SyncTypeOK ==
    /\ channel \in Seq(Items)
    /\ stopped \subseteq Senders
    /\ \A s \in Senders : at[s] \in SenderSteps
    /\ \A r \in Receivers : at[r] \in ReceiverSteps /\ received[r] \in Seq(Texts)
    /\ \A p \in Senders \cup Receivers : got[p] \in Items \cup {<<>>}
    /\ retry \in [Senders -> [msg : 0 .. MAX_RETRY, my : 0 .. MAX_RETRY]]

\* send_sync returns 0 only when a receiver has taken this very message, although
\* acknowledgements of others and messages pass through the hands of the sender.
OkMeansReceived ==
    \A s \in Senders : at[s] = "ok" =>
        \E r \in Receivers : \/ got[r] = <<Pid(s), Text(s)>>
                             \/ \E k \in DOMAIN received[r] : received[r][k] = Text(s)

\* "waiting for message received" (libsp.c:382): a sender does not stay stopped once its
\* message has been received, whoever takes its acknowledgement, unless the receiver continued
\* it before it had stopped.
ReceivedEndsStop ==
    \A s \in Senders, r \in Receivers :
        (got[r] = <<Pid(s), Text(s)>>) ~> (s \in early \/ (at[s] # "stop" /\ s \notin stopped))
=============================================================================
