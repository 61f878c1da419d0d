----------------------------- MODULE ByteStream -----------------------------
(***************************************************************************)
(* What tcp_socket promises to the threads that send on it: the peer reads *)
(* whole messages, each at most once, in one order for all threads, as     *)
(* long as the connection is up; the last one may be cut off when the      *)
(* connection goes down, and nothing follows it.                           *)
(***************************************************************************)
EXTENDS Naturals, Sequences

CONSTANTS
    Ids,     \* names of messages
    Lengths  \* lengths of messages

VARIABLES
    wire,   \* bytes the kernel has taken, for ever
    queue,  \* bytes accepted from senders that are still to be sent
    up      \* can the connection carry data?

vars == <<wire, queue, up>>

\* A byte is a message's name and its place in the message.
Message(id, n) == [i \in 1..n |-> <<id, i>>]

Messages == {<<>>} \cup {Message(id, n) : id \in Ids, n \in Lengths}

\* A message whose name no byte so far has.
Fresh(m) ==
    LET bytes == wire \o queue
    IN  m = <<>> \/ \A i \in DOMAIN bytes : bytes[i][1] # m[1][1]

Init == wire = <<>> /\ queue = <<>> /\ up = TRUE

\* A message is accepted, and the first n bytes of what is to be sent go out.
Carry(m, n) ==
    LET bytes == queue \o m
    IN  /\ up /\ UNCHANGED up
        /\ wire' = wire \o SubSeq(bytes, 1, n)
        /\ queue' = SubSeq(bytes, n + 1, Len(bytes))

\* The connection goes down, perhaps in the middle of a message.
GoDown(m, n) ==
    /\ up /\ up' = FALSE
    /\ wire' = wire \o SubSeq(queue \o m, 1, n)

\* What is queued then is lost sooner or later.
Down == ~up /\ UNCHANGED <<wire, up>>

Next ==
    \/ \E m \in Messages : /\ Fresh(m)
                            /\ \E n \in 0..Len(queue \o m) : Carry(m, n) \/ GoDown(m, n)
    \/ Down

Spec == Init /\ [][Next]_vars
=============================================================================
