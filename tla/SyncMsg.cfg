\* Two senders and two receivers use the same type.
SPECIFICATION SyncFairSpec
CONSTANTS
    s1 = s1
    s2 = s2
    r1 = r1
    r2 = r2
    Senders = {s1, s2}
    Receivers = {r1, r2}
    MAX_RETRY = 2
    MaxReceived = 2
INVARIANTS SyncTypeOK OkMeansReceived
PROPERTY ReceivedEndsStop
\* The receivers wait for messages that nobody sends.
CHECK_DEADLOCK FALSE
