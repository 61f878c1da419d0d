----------------------------- MODULE SendBuffer -----------------------------
(***************************************************************************)
(* The sending half of class tcp_socket: one socket, the threads that send *)
(* on it, and the reactor, which learns from epoll, once, that the socket  *)
(* is writable again.                                                      *)
(*                                                                         *)
(* What the kernel does not take is kept in a list of buffers of fixed     *)
(* size, or, when it does not fit there, in m_tmpbuf.  A sender for whose  *)
(* data there is no room waits on the condition variable m_cond_write.     *)
(* m_lock is held from the beginning to the end of a call except while it  *)
(* waits, so a call that does not wait is one step.  The parts of a sendv  *)
(* are one message: they go to the kernel and to the buffers one behind    *)
(* the other, as the bytes of a send do.                                   *)
(*                                                                         *)
(* A connection that has failed stays failed (ECONNRESET, EPIPE).          *)
(***************************************************************************)
EXTENDS Integers, Sequences

CONSTANTS
    Workers,
    Reactor,       \* the reactor thread
    SendBufSize,   \* SENDBUF_SIZE
    BufCnt,        \* the buffers the socket is constructed with
    Lengths,       \* the calls: lengths of messages
    MaxMessages,   \* bound: messages sent
    KernelRoom,    \* bytes the kernel buffers
    Resets         \* may the peer reset the connection?

ASSUME SendBufferAssumption ==
    /\ Reactor \notin Workers
    /\ SendBufSize \in Nat \ {0} /\ BufCnt \in Nat
    /\ Lengths \subseteq Nat /\ MaxMessages \in Nat /\ KernelRoom \in Nat \ {0}
    /\ Resets \in BOOLEAN

Threads == Workers \cup {Reactor}

VARIABLES
    m_free,      \* how many buffers m_free_buffers holds
    m_pending,   \* the buffers in use: their data, and how much of it is sent
    m_tmpbuf,
    m_shutdown,
    m_valid,
    room,        \* free space in the kernel's buffer
    nospace,     \* a send met EAGAIN, epoll is to report when there is room
    edge,        \* epoll has a writable event to report
    broken,      \* every send fails
    wire,        \* bytes the kernel has taken
    count,       \* messages sent so far
    th           \* thread -> where it is, and the call it is in

vars == <<m_free, m_pending, m_tmpbuf, m_shutdown, m_valid, room, nospace, edge,
          broken, wire, count, th>>

bufVars == <<m_free, m_pending, m_tmpbuf>>

\* wait: in m_cond_write.wait.  woken: notified.  write: m_sendjob is posted.
\* fail: the function given to with_fd returned false.  free: in on_invalidate.
PCs == {"idle", "wait", "woken", "write", "fail", "free"}

At(l) == [pc |-> l, msg |-> <<>>, close |-> FALSE]

\* A byte is the number of its message and its place in the message.
Bytes == Nat \X Nat
Message(id, len) == [i \in 1..len |-> <<id, i>>]

TypeOK ==
    /\ m_free \in 0..BufCnt
    /\ m_pending \in Seq([data : Seq(Bytes), sent : Nat])
    /\ m_tmpbuf \in Seq(Bytes) /\ wire \in Seq(Bytes)
    /\ {m_shutdown, m_valid, nospace, edge, broken} \subseteq BOOLEAN
    /\ room \in 0..KernelRoom
    /\ count \in 0..MaxMessages
    /\ th \in [Threads -> [pc : PCs, msg : Seq(Bytes), close : BOOLEAN]]

Init ==
    /\ m_free = BufCnt /\ m_pending = <<>> /\ m_tmpbuf = <<>>
    /\ m_shutdown = FALSE /\ m_valid = TRUE
    /\ room = KernelRoom /\ nospace = FALSE /\ edge = FALSE /\ broken = FALSE
    /\ wire = <<>> /\ count = 0
    /\ th = [t \in Threads |-> At("idle")]

-----------------------------------------------------------------------------
(* The buffers *)

MinOf(a, b) == IF a < b THEN a ELSE b

Drop(s, n) == SubSeq(s, n + 1, Len(s))

Rest(b) == Drop(b.data, b.sent)

\* What is unsent in the buffers p, one behind the other.
Unsent(p) ==
    LET upto[i \in 0..Len(p)] == IF i = 0 THEN <<>> ELSE upto[i - 1] \o Rest(p[i])
    IN  upto[Len(p)]

RoomInLast(p) == IF p = <<>> THEN 0 ELSE SendBufSize - Len(p[Len(p)].data)

capacity == m_free * SendBufSize + RoomInLast(m_pending)

can_send(len) ==
    \/ m_shutdown
    \/ m_tmpbuf = <<>> /\ (m_pending = <<>> \/ capacity >= len)

\* New buffers for s, all full but the last.
Fresh(s) ==
    [i \in 1..((Len(s) + SendBufSize - 1) \div SendBufSize) |->
        [data |-> SubSeq(s, (i - 1) * SendBufSize + 1, MinOf(i * SendBufSize, Len(s))),
         sent |-> 0]]

\* s after what is in the buffers p: the last one is filled up first.
Fill(p, s) ==
    LET n == MinOf(RoomInLast(p), Len(s))
    IN  (IF n = 0 THEN p
         ELSE [p EXCEPT ![Len(p)].data = @ \o SubSeq(s, 1, n)]) \o Fresh(Drop(s, n))

\* How many buffers are sent completely with n bytes.
Completed(p, n) ==
    CHOOSE k \in 0..Len(p) :
        /\ Len(Unsent(SubSeq(p, 1, k))) <= n
        /\ k < Len(p) => n < Len(Unsent(SubSeq(p, 1, k + 1)))

\* Mutation: how much of the first buffer is sent is not recorded.
AdvanceWholeBuffers(p, n) == Drop(p, Completed(p, n))

\* The buffers after n bytes of them have been sent; the ones that are sent
\* completely go back to m_free_buffers.
Advance(p, n) ==
    LET done == Completed(p, n)
        partly == n - Len(Unsent(SubSeq(p, 1, done)))
    IN  [i \in 1..(Len(p) - done) |->
            IF i = 1 THEN [p[done + 1] EXCEPT !.sent = @ + partly] ELSE p[done + i]]

-----------------------------------------------------------------------------
(* Sending *)

\* Mutation: nobody is notified.
NotifyNobody(f) == f

notify_all(f) == [t \in Threads |-> IF f[t].pc = "wait" THEN [f[t] EXCEPT !.pc = "woken"]
                                    ELSE f[t]]

\* with_fd is left with the result of the function given to it.
Return(f, t, ok) == [f EXCEPT ![t] = At(IF ok THEN "idle" ELSE "fail")]

\* Offering bytes to the kernel: it takes as many as it has room for.  A call
\* is repeated until all are taken or the answer is EAGAIN.
Offer(s) ==
    LET n == MinOf(room, Len(s))
    IN  /\ wire' = wire \o SubSeq(s, 1, n)
        /\ room' = room - n
        /\ nospace' = (nospace \/ n < Len(s))

\* Mutation: data always goes to new buffers.
KeepInNewBuffers(left) ==
    IF capacity < Len(left)
    THEN m_tmpbuf' = left /\ UNCHANGED <<m_free, m_pending>>
    ELSE /\ m_pending' = m_pending \o Fresh(left)
         /\ m_free' = m_free - (Len(m_pending') - Len(m_pending))
         /\ UNCHANGED m_tmpbuf

\* What the kernel has not taken is put in the buffers, or in m_tmpbuf.
Keep(left) ==
    IF capacity < Len(left)
    THEN m_tmpbuf' = left /\ UNCHANGED <<m_free, m_pending>>
    ELSE /\ m_pending' = Fill(m_pending, left)
         /\ m_free' = m_free - (Len(m_pending') - Len(m_pending))
         /\ UNCHANGED m_tmpbuf

\* _send and _sendv, with room for the message.  After send_close the socket is
\* shut down as soon as all data has gone out.
Accept(t, s, close) ==
    LET direct == m_pending = <<>>
        left == IF direct THEN Drop(s, MinOf(room, Len(s))) ELSE s
        empty == direct /\ left = <<>>
    IN  /\ IF direct THEN Offer(s) ELSE UNCHANGED <<wire, room, nospace>>
        /\ IF empty THEN UNCHANGED bufVars ELSE Keep(left)
        /\ m_shutdown' = close
        /\ th' = IF close /\ ~empty THEN notify_all(Return(th, t, TRUE))
                 ELSE Return(th, t, ~close)

\* ::send fails, at once or after the kernel has taken some bytes.
SendError(t, s) ==
    /\ m_pending = <<>> /\ s # <<>>
    /\ \E n \in 0..MinOf(room, Len(s) - 1) :
          /\ broken => n = 0
          /\ wire' = wire \o SubSeq(s, 1, n) /\ room' = room - n
    /\ broken' = TRUE
    /\ th' = Return(th, t, FALSE)
    /\ UNCHANGED <<bufVars, m_shutdown, nospace>>

\* send, sendv, send_close and sendv_close, up to wait() or to the end.
Call(t, s, close) ==
    \/ /\ ~can_send(Len(s))
       /\ th' = [th EXCEPT ![t] = [pc |-> "wait", msg |-> s, close |-> close]]
       /\ UNCHANGED <<bufVars, m_shutdown, room, nospace, broken, wire>>
    \/ /\ m_shutdown
       /\ th' = Return(th, t, FALSE)
       /\ UNCHANGED <<bufVars, m_shutdown, room, nospace, broken, wire>>
    \/ /\ can_send(Len(s)) /\ ~m_shutdown
       /\ \/ /\ ~(broken /\ m_pending = <<>>)
             /\ Accept(t, s, close) /\ UNCHANGED broken
          \/ (broken \/ Resets) /\ SendError(t, s)

\* A worker calls; with_fd does nothing on an invalid socket.
Send(w, len, close) ==
    /\ th[w].pc = "idle" /\ m_valid /\ count < MaxMessages
    /\ count' = count + 1
    /\ Call(w, Message(count + 1, len), close)
    /\ UNCHANGED <<m_valid, edge>>

\* wait() has returned, with m_lock; the condition is tested again.
Resume(w) ==
    /\ th[w].pc = "woken"
    /\ Call(w, th[w].msg, th[w].close)
    /\ UNCHANGED <<m_valid, edge, count>>

\* write_pending_data, with all that is unsent offered to the kernel.
write_pending_data(t) ==
    LET s == m_tmpbuf \o Unsent(m_pending)
        n == MinOf(room, Len(s))
        first(k) == MinOf(k, Len(m_tmpbuf))
    IN  \/ /\ ~broken \/ s = <<>>
           /\ Offer(s)
           /\ m_tmpbuf' = Drop(m_tmpbuf, first(n))
           /\ m_pending' = Advance(m_pending, n - first(n))
           /\ m_free' = m_free + Len(m_pending) - Len(m_pending')
           /\ th' = CASE m_tmpbuf' # <<>> -> Return(th, t, TRUE)
                      [] m_tmpbuf' = <<>> /\ n = Len(s) /\ m_shutdown -> Return(th, t, FALSE)
                      [] OTHER -> notify_all(Return(th, t, TRUE))
           /\ UNCHANGED broken
        \/ /\ (broken \/ Resets) /\ s # <<>>
           /\ \E k \in 0..MinOf(room, Len(s) - 1) :
                 /\ broken => k = 0
                 /\ wire' = wire \o SubSeq(s, 1, k) /\ room' = room - k
                 /\ m_tmpbuf' = Drop(m_tmpbuf, first(k))
                 /\ m_pending' = Drop(m_pending, Completed(m_pending, k - first(k)))
                 /\ m_free' = m_free + Len(m_pending) - Len(m_pending')
           /\ broken' = TRUE
           /\ th' = Return(th, t, FALSE)
           /\ UNCHANGED nospace

\* Mutation: the event is dropped when all workers are busy.
OnWritableNoFallback ==
    /\ edge /\ th[Reactor].pc = "idle" /\ edge' = FALSE
    /\ th' = IF \E w \in Workers : th[w].pc = "idle"
             THEN [th EXCEPT ![CHOOSE w \in Workers : th[w].pc = "idle"] = At("write")]
             ELSE th
    /\ UNCHANGED <<bufVars, m_shutdown, m_valid, room, nospace, broken, wire, count>>

\* on_writable: an idle worker gets m_sendjob; without one the reactor writes.
on_writable ==
    /\ edge /\ th[Reactor].pc = "idle" /\ edge' = FALSE
    /\ \/ \E w \in Workers :
             /\ th[w].pc = "idle"
             /\ th' = [th EXCEPT ![w] = At("write")]
             /\ UNCHANGED <<bufVars, room, nospace, broken, wire>>
       \/ /\ \A w \in Workers : th[w].pc # "idle"
          /\ write_pending_data(Reactor)
    /\ UNCHANGED <<m_shutdown, m_valid, count>>

m_sendjob(w) ==
    /\ th[w].pc = "write"
    /\ IF m_valid THEN write_pending_data(w)
       ELSE th' = Return(th, w, TRUE) /\ UNCHANGED <<bufVars, room, nospace, broken, wire>>
    /\ UNCHANGED <<m_shutdown, m_valid, edge, count>>

-----------------------------------------------------------------------------
(* Invalidation, by with_fd or by the reactor *)

\* Only one thread's compare_exchange succeeds; it shuts the connection down.
invalidate(t) ==
    /\ th[t].pc = "fail"
    /\ m_valid' = FALSE
    /\ broken' = (broken \/ m_valid)
    /\ th' = [th EXCEPT ![t] = At(IF m_valid THEN "free" ELSE "idle")]
    /\ UNCHANGED <<bufVars, m_shutdown, room, nospace, edge, wire, count>>

\* Mutation: the senders that wait are not notified.
OnInvalidateSilently(t) ==
    /\ th[t].pc = "free"
    /\ m_free' = 0 /\ m_pending' = <<>> /\ m_tmpbuf' = <<>> /\ m_shutdown' = TRUE
    /\ th' = [th EXCEPT ![t] = At("idle")]
    /\ UNCHANGED <<m_valid, room, nospace, edge, broken, wire, count>>

\* free_buffers, then notify_all.
on_invalidate(t) ==
    /\ th[t].pc = "free"
    /\ m_free' = 0 /\ m_pending' = <<>> /\ m_tmpbuf' = <<>> /\ m_shutdown' = TRUE
    /\ th' = notify_all([th EXCEPT ![t] = At("idle")])
    /\ UNCHANGED <<m_valid, room, nospace, edge, broken, wire, count>>

\* EPOLLHUP or EPOLLERR.
on_hangup ==
    /\ Resets /\ broken /\ m_valid /\ th[Reactor].pc = "idle"
    /\ th' = [th EXCEPT ![Reactor] = At("fail")]
    /\ UNCHANGED <<bufVars, m_shutdown, m_valid, room, nospace, edge, broken, wire, count>>

-----------------------------------------------------------------------------
(* The kernel and the peer *)

\* The peer acknowledges n bytes.  The kernel reports room after EAGAIN once
\* there is enough of it, at the latest when its buffer is empty.
Acknowledge(n) ==
    /\ ~broken /\ n \in 1..(KernelRoom - room)
    /\ room' = room + n
    /\ \/ nospace /\ nospace' = FALSE /\ edge' = TRUE
       \/ (nospace => room' < KernelRoom) /\ UNCHANGED <<nospace, edge>>
    /\ UNCHANGED <<bufVars, m_shutdown, m_valid, broken, wire, count, th>>

\* The peer resets the connection.
Reset ==
    /\ Resets /\ ~broken /\ broken' = TRUE
    /\ UNCHANGED <<bufVars, m_shutdown, m_valid, room, nospace, edge, wire, count, th>>

-----------------------------------------------------------------------------
Thread(t) == invalidate(t) \/ on_invalidate(t)

Worker(w) == Resume(w) \/ m_sendjob(w) \/ Thread(w)

Running ==
    \/ \E w \in Workers : Worker(w)
    \/ on_writable \/ on_hangup \/ Thread(Reactor)

Next ==
    \/ \E w \in Workers, len \in Lengths, close \in BOOLEAN : Send(w, len, close)
    \/ Running
    \/ \E n \in 1..KernelRoom : Acknowledge(n)
    \/ Reset

Spec == Init /\ [][Next]_vars

\* The processor does not stand still while some thread can run, and the peer
\* reads.  Each thread has its turn because messages are finite in number.
Fairness ==
    /\ WF_vars(Running)
    /\ WF_vars(\E n \in 1..KernelRoom : Acknowledge(n))

FairSpec == Spec /\ Fairness

-----------------------------------------------------------------------------
(* Properties *)

Queue == m_tmpbuf \o Unsent(m_pending)

Stream == INSTANCE ByteStream WITH
    Ids <- 1..MaxMessages, queue <- Queue, up <- ~broken

\* Messages go out whole, once, and in one order whichever way they take:
\* straight to the kernel, through the buffers or through m_tmpbuf, and
\* whichever thread writes; a broken connection carries nothing more.
SendsAtomically == Stream!Spec

\* No buffer is lost or used twice, all buffers in use but the last are full
\* (capacity counts on it), and, as a comment in _send has it, m_tmpbuf is
\* used only when there is no pending data.  (The variables have their types.)
BuffersAreConserved ==
    /\ TypeOK
    /\ m_valid => m_free + Len(m_pending) = BufCnt
    /\ \A i \in DOMAIN m_pending :
          /\ m_pending[i].sent < Len(m_pending[i].data)
          /\ Len(m_pending[i].data) <= SendBufSize
          /\ i < Len(m_pending) => Len(m_pending[i].data) = SendBufSize
    /\ m_tmpbuf # <<>> => m_pending = <<>>

\* No wakeup is missed: on a connection that works a sender waits only while
\* there is no room for its data and the socket is not shut down.  (A broken
\* one is invalidated, which wakes all senders.)
WaitersCannotSend ==
    \A w \in Workers :
        th[w].pc = "wait" /\ ~broken => ~can_send(Len(th[w].msg))

\* Edge-triggered epoll reports room once, after EAGAIN.  While data is queued
\* either that report is still to come, or the reactor has it, or a worker has
\* the job of writing, or the socket is about to be invalidated.
QueueIsWatched ==
    m_tmpbuf # <<>> \/ m_pending # <<>> =>
        \/ nospace \/ edge \/ broken
        \/ \E w \in Workers : th[w].pc = "write"

Quiet == Queue = <<>> /\ \A w \in Workers : th[w].pc \notin {"wait", "woken"}

\* Queued data is sent and blocked senders return, even when all workers are
\* blocked in this way, unless the socket is invalidated, which wakes them too.
SendsComplete == ~Quiet ~> Quiet
=============================================================================
