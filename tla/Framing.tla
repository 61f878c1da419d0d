------------------------------ MODULE Framing ------------------------------
(***************************************************************************)
(* How byte streams become commands.  A worker receives from one           *)
(* connection after the other into its one buffer, cuts off requests, and  *)
(* leaves the incomplete rest in m_pending of the socket (m_recvjob of     *)
(* memcache_socket and counter_socket).  On a slave, the reactor thread    *)
(* does so for the connection to the master (repl_client_socket).  What a  *)
(* command does is the subject of Memcache and Counter; here it is         *)
(* recorded.  Which thread runs a job, and when, is that of Dispatch.      *)
(***************************************************************************)
EXTENDS Protocol, DynBuf

CONSTANTS
    Conns,           \* client connections
    Proto,           \* Proto[c] is "memcache" or "counter"
    Scripts,         \* what clients and the master may send: see Init
    MAX_RECVSIZE,
    WORKER_BUFSIZE,
    MAX_ITER,        \* receives in one call of repl_client_socket::on_readable
    Now,             \* g_current_time
    None             \* not a connection

ASSUME FramingAssumption ==
    /\ None \notin Conns
    /\ {MAX_RECVSIZE, MAX_ITER} \subseteq Nat \ {0}
    /\ WORKER_BUFSIZE \in Nat /\ WORKER_BUFSIZE >= 2 * MAX_RECVSIZE
    /\ Now \in Nat /\ Now > EXPTIME_THRESHOLD

VARIABLES
    script,     \* script.conn[c]: the requests of connection c, each with its wire
                \* form and the request it stands for; script.repl: the updates of
                \* the master, each with its wire form and the update
    life,       \* life[c]: "open", "eof", "reset" or "denied"
    rcvd,       \* rcvd[c]: cells received from c
    m_pending,  \* m_pending[c]
    done,       \* done[c]: the requests executed for c, with errno at their parse
    buffer,     \* m_buffer of the worker
    job,        \* the connection whose m_recvjob the worker runs, or None
    pc,         \* where the worker is in it: "idle", "receive" or "parse"
    head,       \* cells of the buffer that have been parsed
    erange,     \* errno of the worker is ERANGE
    slave       \* the slave: see Init

conn_vars == <<life, rcvd, m_pending, done>>
worker_vars == <<buffer, job, pc, head, erange>>
vars == <<script, conn_vars, worker_vars, slave>>

Wire(s) == FlattenSeq([i \in DOMAIN s |-> s[i].wire])
Stream(c) == Wire(script.conn[c])

\* The requests among s that lie within the first n cells.
Complete(s, n) == {k \in 0..Len(s) : Len(Wire(SubSeq(s, 1, k))) <= n}

Init ==
    /\ script \in Scripts
    /\ life = [c \in Conns |-> "open"]
    /\ rcvd = [c \in Conns |-> 0]
    /\ m_pending = [c \in Conns |-> dynbuf(0)]
    /\ done = [c \in Conns |-> <<>>]
    /\ buffer = dynbuf(WORKER_BUFSIZE)
    /\ job = None /\ pc = "idle" /\ head = 0 /\ erange = FALSE
    /\ slave = [arrived |-> 0,        \* cells the slave's kernel has
                rcvd |-> 0,           \* cells received
                edge |-> FALSE,       \* epoll has an event for the socket
                readable |-> FALSE,   \* the socket is in m_readables
                pc |-> "poll",        \* "poll", "receive" or "parse"
                n_iter |-> 0, head |-> 0, recvbuf |-> dynbuf(MAX_RECVSIZE),
                hash |-> <<>>, thrown |-> FALSE]

-----------------------------------------------------------------------------
(* A worker and the client connections *)

\* The job begins: load pending data.
Begin(c) ==
    /\ job = None
    /\ life[c] = "open"
    /\ job' = c
    /\ pc' = "receive"
    /\ buffer' = append(buffer, m_pending[c].bytes)
    /\ m_pending' = [m_pending EXCEPT ![c] = reset(@)]
    /\ UNCHANGED <<script, life, rcvd, done, head, erange, slave>>

\* receive returns OK with n cells.
Receive(n) ==
    /\ pc = "receive"
    /\ n \in 1..MAX_RECVSIZE
    /\ rcvd[job] + n <= Len(Stream(job))
    /\ buffer' = consume(prepare(buffer, MAX_RECVSIZE),
                         SubSeq(Stream(job), rcvd[job] + 1, rcvd[job] + n))
    /\ rcvd' = [rcvd EXCEPT ![job] = @ + n]
    /\ pc' = "parse" /\ head' = 0
    /\ UNCHANGED <<script, life, m_pending, done, job, erange, slave>>

\* After the loop: what is left goes to m_pending, m_busy is cleared, and
\* worker::run resets the buffer.
EndJob(rest) ==
    /\ m_pending' = IF rest = <<>> THEN m_pending
                    ELSE [m_pending EXCEPT ![job] = append(@, rest)]
    /\ job' = None /\ pc' = "idle" /\ head' = 0
    /\ buffer' = reset(buffer)

\* receive returns AGAIN; errno is EAGAIN.
Again ==
    /\ pc = "receive"
    /\ EndJob(buffer.bytes)
    /\ erange' = FALSE
    /\ UNCHANGED <<script, life, rcvd, done, slave>>

\* receive returns NONE, which leaves errno alone, or RESET.
Hangup(l) ==
    /\ pc = "receive"
    /\ l \in {"eof", "reset"}
    /\ life' = [life EXCEPT ![job] = l]
    /\ EndJob(<<>>)
    /\ erange' = (erange /\ l = "eof")
    /\ UNCHANGED <<script, rcvd, done, slave>>

Unparsed == SubSeq(buffer.bytes, head + 1, size(buffer))

\* The request at the head of what is not parsed yet, if any.
Next_request ==
    IF Unparsed = <<>> THEN Request
    ELSE IF Proto[job] = "counter" THEN counter_request(Unparsed)
    ELSE IF is_binary_request(Unparsed) THEN binary_request(Unparsed, Now)
    ELSE text_request(Unparsed, Now, erange)

errno_after ==
    IF Proto[job] = "memcache" /\ ~ is_binary_request(Unparsed)
    THEN text_errno(Unparsed, erange) ELSE erange

\* A request is complete: it is cut off and executed.  std::stoull in object::incr
\* and object::decr may leave ERANGE in errno.
Execute(e) ==
    /\ pc = "parse"
    /\ Next_request.length > 0
    /\ head' = head + Next_request.length
    /\ done' = [done EXCEPT ![job] = Append(@, [request |-> Next_request, erange |-> erange])]
    /\ \/ e = errno_after
       \/ e = TRUE /\ Next_request.command \in {"incr", "decr"} \cup incdec_ops
                   /\ Next_request.status = "OK"
    /\ erange' = e
    /\ UNCHANGED <<script, life, rcvd, m_pending, buffer, job, pc, slave>>

\* Mutation: one request for each receive.
OneIsEnough == pc = "parse" /\ (head > 0 \/ Next_request.length = 0)

\* Nothing complete is left: the loop goes on, unless that is too much.
NoneComplete == pc = "parse" /\ Next_request.length = 0

\* Mutation: the rest is kept whatever its size.
KeepAnyRest ==
    /\ NoneComplete
    /\ buffer' = erase(buffer, head)
    /\ pc' = "receive" /\ head' = 0
    /\ UNCHANGED <<script, conn_vars, job, erange, slave>>

KeepRest ==
    /\ NoneComplete
    /\ Len(Unparsed) <= MAX_REQUEST_LENGTH
    /\ buffer' = erase(buffer, head)
    /\ pc' = "receive" /\ head' = 0
    /\ UNCHANGED <<script, conn_vars, job, erange, slave>>

\* Mutation: the limit is compared with all that the buffer holds.
DenyFullBuffer ==
    /\ NoneComplete
    /\ size(buffer) > MAX_REQUEST_LENGTH
    /\ life' = [life EXCEPT ![job] = "denied"]
    /\ EndJob(<<>>)
    /\ UNCHANGED <<script, rcvd, done, erange, slave>>

Deny ==
    /\ NoneComplete
    /\ Len(Unparsed) > MAX_REQUEST_LENGTH
    /\ life' = [life EXCEPT ![job] = "denied"]
    /\ EndJob(<<>>)
    /\ UNCHANGED <<script, rcvd, done, erange, slave>>
-----------------------------------------------------------------------------
(* The slave *)

\* Cells of the master arrive.
Arrive(n) ==
    /\ slave.arrived + n <= Len(Wire(script.repl))
    /\ slave' = [slave EXCEPT !.arrived = @ + n, !.edge = TRUE]
    /\ UNCHANGED <<script, conn_vars, worker_vars>>

\* reactor::poll calls on_readable for an event or a member of m_readables.
SlaveBegin ==
    /\ slave.pc = "poll"
    /\ slave.edge \/ slave.readable
    /\ slave' = [slave EXCEPT !.edge = FALSE, !.readable = FALSE, !.pc = "receive",
                             !.n_iter = 0]
    /\ UNCHANGED <<script, conn_vars, worker_vars>>

SlaveReceive(n) ==
    /\ slave.pc = "receive"
    /\ n \in 1..MAX_RECVSIZE
    /\ slave.rcvd + n <= slave.arrived
    /\ slave' = [slave EXCEPT
           !.recvbuf = consume(prepare(@, MAX_RECVSIZE),
                               SubSeq(Wire(script.repl), slave.rcvd + 1, slave.rcvd + n)),
           !.rcvd = @ + n, !.pc = "parse", !.head = 0]
    /\ UNCHANGED <<script, conn_vars, worker_vars>>

SlaveAgain ==
    /\ slave.pc = "receive"
    /\ slave.rcvd = slave.arrived
    /\ slave' = [slave EXCEPT !.pc = "poll"]
    /\ UNCHANGED <<script, conn_vars, worker_vars>>

SlaveUnparsed == SubSeq(slave.recvbuf.bytes, slave.head + 1, size(slave.recvbuf))

\* A request of length 0 if nothing is left or what is left is incomplete.
Next_update ==
    IF SlaveUnparsed = <<>> THEN Request ELSE binary_request(SlaveUnparsed, Now)

NotBinary == SlaveUnparsed # <<>> /\ ~ is_binary_request(SlaveUnparsed)

\* A round of the loop in repl_recv.
SlaveApply ==
    /\ slave.pc = "parse"
    /\ IF NotBinary
       THEN slave' = [slave EXCEPT !.thrown = TRUE, !.pc = "dead"]
       ELSE /\ Next_update.length > 0
            /\ slave' = [slave EXCEPT !.head = @ + Next_update.length,
                                     !.hash = repl_apply(@, Next_update)]
    /\ UNCHANGED <<script, conn_vars, worker_vars>>

\* Mutation: no add_readable after MAX_ITER receives.
SlaveForgetsRest ==
    /\ slave.pc = "parse"
    /\ ~ NotBinary
    /\ Next_update.length = 0
    /\ slave' = [slave EXCEPT !.recvbuf = erase(@, slave.head), !.head = 0, !.n_iter = @ + 1,
                              !.pc = IF slave.n_iter + 1 >= MAX_ITER THEN "poll" ELSE "receive"]
    /\ UNCHANGED <<script, conn_vars, worker_vars>>

\* repl_recv returns what it has consumed.  After MAX_ITER receives the rest of
\* the data waits for the next poll.
SlaveKeepRest ==
    /\ slave.pc = "parse"
    /\ ~ NotBinary
    /\ Next_update.length = 0
    /\ LET full == slave.n_iter + 1 >= MAX_ITER
       IN  slave' = [slave EXCEPT !.recvbuf = erase(@, slave.head), !.head = 0,
                                  !.n_iter = @ + 1, !.readable = full,
                                  !.pc = IF full THEN "poll" ELSE "receive"]
    /\ UNCHANGED <<script, conn_vars, worker_vars>>

Next ==
    \/ \E c \in Conns : Begin(c)
    \/ \E n \in 1..MAX_RECVSIZE : Receive(n)
    \/ Again
    \/ \E l \in {"eof", "reset"} : Hangup(l)
    \/ \E e \in BOOLEAN : Execute(e)
    \/ KeepRest
    \/ Deny
    \/ \E n \in 1..(2 * MAX_RECVSIZE) : Arrive(n)
    \/ SlaveBegin
    \/ \E n \in 1..MAX_RECVSIZE : SlaveReceive(n)
    \/ SlaveAgain
    \/ SlaveApply
    \/ SlaveKeepRest

Spec == Init /\ [][Next]_vars

-----------------------------------------------------------------------------
TypeOK ==
    /\ life \in [Conns -> {"open", "eof", "reset", "denied"}]
    /\ \A c \in Conns : rcvd[c] \in 0..Len(Stream(c))
    /\ job \in Conns \cup {None}
    /\ pc \in {"idle", "receive", "parse"} /\ (pc = "idle") = (job = None)
    /\ head \in 0..size(buffer)
    /\ erange \in BOOLEAN
    /\ slave.pc \in {"poll", "receive", "parse", "dead"}

\* The request was read while errno was ERANGE and has the number that to_uint
\* then takes for an overflow.
Stale(c, i) ==
    /\ done[c][i].erange
    /\ i <= Len(script.conn[c])
    /\ Max64 \in {script.conn[c][i].means.cas, script.conn[c][i].means.value}

InStep(c) == \A i \in DOMAIN done[c] : ~ Stale(c, i)

\* The commands executed for a connection are those its client sent, in order and
\* with the same arguments, however the bytes were cut into receives and whichever
\* connections used the worker's buffer in between.  The exception: the number
\* 2^64-1 is refused while errno is ERANGE, and from there on a data block may be
\* read as commands.
CommandsAsSent ==
    \A c \in Conns : \A i \in DOMAIN done[c] :
        (\A j \in 1..i : ~ Stale(c, j)) =>
            /\ i <= Len(script.conn[c])
            /\ done[c][i].request = script.conn[c][i].means

\* When no job runs, every request that has been received completely has been
\* executed; what is left in m_pending is the beginning of the next one.
NothingHeldBack ==
    \A c \in Conns :
        (life[c] = "open" /\ job # c /\ InStep(c)) =>
            \A k \in Complete(script.conn[c], rcvd[c]) : k <= Len(done[c])

\* A connection is closed as sending too large a request only when the request it
\* is sending is longer than MAX_REQUEST_LENGTH.
OnlyTooLargeIsDenied ==
    \A c \in Conns :
        (life[c] = "denied" /\ InStep(c)) =>
            Len(script.conn[c][Len(done[c]) + 1].wire) > MAX_REQUEST_LENGTH

\* What a client may make the server keep: a socket holds at most
\* MAX_REQUEST_LENGTH, and a worker that much beyond its default buffer.  (The
\* variables have their types.)
BuffersAreBounded ==
    /\ TypeOK
    /\ \A c \in Conns : size(m_pending[c]) <= MAX_REQUEST_LENGTH
    /\ size(buffer) <= buffer.cap
    /\ buffer.cap <= WORKER_BUFSIZE + MAX_REQUEST_LENGTH

\* Objects that survive the way to a slave: binary_request refuses a SetQ without
\* data or with too much of it after the key, and repl_recv stores what it has got
\* by then; 32 bits hold the expiration time, of which the last value means none.
Portable(obj) ==
    /\ Len(obj.data) \in 1..MAX_REQUEST_LENGTH
    /\ obj.exptime < Max32

\* The hash of the master after the updates us.
Original(us) ==
    FoldLeft(LAMBDA h, u : CASE u.op = "set" -> (u.key :> u.obj) @@ h
                             [] u.op = "touch" -> [h EXCEPT ![u.key] = u.obj]
                             [] u.op = "delete" -> [k \in DOMAIN h \ {u.key} |-> h[k]],
             <<>>, us)

\* When the slave waits for events, it has received all that has arrived, and its
\* hash has the keys of the master and, for portable objects, their data, flags
\* and expiration time.
ReplicaDecodes ==
    LET s == script.repl
        n == CHOOSE k \in Complete(s, slave.arrived) :
                 \A j \in Complete(s, slave.arrived) : j <= k
        o == Original([i \in 1..n |-> s[i].means])
    IN  /\ ~ slave.thrown
        /\ (slave.pc = "poll" /\ ~ slave.edge /\ ~ slave.readable) =>
              /\ slave.rcvd = slave.arrived
              /\ DOMAIN slave.hash = DOMAIN o
              /\ \A k \in DOMAIN o : Portable(o[k]) => slave.hash[k] = o[k]
=============================================================================
