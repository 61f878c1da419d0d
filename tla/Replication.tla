---------------------------- MODULE Replication ----------------------------
(***************************************************************************)
(* How the objects of a master reach its slaves.                           *)
(*                                                                         *)
(* Workers send every change of an object to the slaves they know, holding *)
(* the lock of the object's bucket.  A new slave is known to the jobs that *)
(* begin after it has joined; its initial copy, made by the GC thread, has *)
(* to wait until the other jobs are over.  The GC thread knows the slaves  *)
(* of the moment it was started.                                           *)
(*                                                                         *)
(* A slave is a replication connection: after a disconnection the process  *)
(* forgets its objects and joins as another element of Slaves.  The bytes  *)
(* of a connection are those of module SendBuffer; here its stream is the  *)
(* sequence of commands that are sent and not yet applied.  An object is   *)
(* the update that stored its data and the update that set its expiration  *)
(* time.  The wire carries an expiration time unchanged: exptime() is 0 or *)
(* an absolute time, which binary_exptime leaves as it is.                 *)
(***************************************************************************)
EXTENDS Integers, FiniteSets, Sequences

CONSTANTS
    Keys,        \* one for each bucket
    Slaves,      \* replication connections
    Workers,
    GC,          \* the GC thread
    None,        \* no object, no thread, no key
    MaxSlaves,   \* MAX_SLAVES
    BufCnt,      \* repl_bufsize: commands a connection can hold
    MaxUpdates   \* bound: updates made by the workers

ASSUME ReplicationAssumption ==
    /\ MaxSlaves \in Nat /\ BufCnt \in Nat \ {0} /\ MaxUpdates \in Nat
    /\ IsFiniteSet(Slaves) /\ GC \notin Workers /\ None \notin Workers \cup {GC} \cup Keys

VARIABLES
    hash,        \* key -> object of the master, or None
    updates,     \* updates made so far
    busy,        \* worker -> does it run a job?
    refs,        \* worker -> m_slaves of the socket it serves
    m_slaves,    \* handler::m_slaves
    m_requests,  \* syncer::m_requests
    m_new_slaves,  \* handler::m_new_slaves
    gc,          \* the GC thread: running, buckets to scan, its slaves
    waiting,     \* key -> the thread that waits in send in the lock of its bucket
    reactor,     \* the key whose bucket the reactor waits for in ~memcache_socket
    valid,       \* slave -> is the master's repl_socket valid?
    stream,      \* slave -> commands sent to it and not yet applied
    link,        \* slave -> its side of the connection
    replica,     \* slave -> key -> object of the slave, or None
    copied,      \* history: slaves whose initial copy is over
    late         \* history: slaves that joined beside a job or a GC run

vars == <<hash, updates, busy, refs, m_slaves, m_requests, m_new_slaves, gc,
          waiting, reactor, valid, stream, link, replica, copied, late>>

listVars == <<m_slaves, m_requests, m_new_slaves>>
lockVars == <<waiting, reactor>>
masterVars == <<hash, updates, busy, refs, listVars, gc, lockVars>>
history == <<copied, late>>

\* Update 0 stands for all that were made before.
Update == 0..MaxUpdates
Object == [data : Update, exptime : Update]
ASSUME NoneAssumption == None \notin Object

Hash == [Keys -> Object \cup {None}]
NoObjects == [k \in Keys |-> None]

\* What a slave can be sent, with the key and what the command carries.
Command == [op : {"SetQ", "Touch"}, key : Keys, obj : Object]
           \cup [op : {"DeleteQ"}, key : Keys, obj : {None}]

SetQ(k, o) == [op |-> "SetQ", key |-> k, obj |-> o]
TouchOf(k, o) == [op |-> "Touch", key |-> k, obj |-> o]
DeleteQ(k) == [op |-> "DeleteQ", key |-> k, obj |-> None]

NoGC == [on |-> FALSE, todo |-> {}, slaves |-> {}, fresh |-> {}]

TypeOK ==
    /\ hash \in Hash /\ updates \in Update
    /\ busy \in [Workers -> BOOLEAN] /\ refs \in [Workers -> SUBSET Slaves]
    /\ m_slaves \subseteq Slaves /\ m_new_slaves \subseteq Slaves
    /\ Cardinality(m_slaves) <= MaxSlaves
    /\ m_requests \subseteq [slave : Slaves, flags : SUBSET Workers]
    /\ gc \in [on : BOOLEAN, todo : SUBSET Keys, slaves : SUBSET Slaves,
               fresh : SUBSET Slaves]
    /\ waiting \in [Keys -> Workers \cup {GC, None}]
    /\ reactor \in Keys \cup {None}
    /\ valid \in [Slaves -> BOOLEAN]
    /\ stream \in [Slaves -> Seq(Command)]
    /\ \A s \in Slaves : Len(stream[s]) <= BufCnt
    /\ link \in [Slaves -> {"away", "up", "hung", "down"}]
    /\ replica \in [Slaves -> Hash]
    /\ copied \subseteq Slaves /\ late \subseteq Slaves

\* A new master may have the objects it has got as a slave.
Init ==
    /\ updates = 0
    /\ hash \in [Keys -> {None, [data |-> 0, exptime |-> 0]}]
    /\ busy = [w \in Workers |-> FALSE] /\ refs = [w \in Workers |-> {}]
    /\ m_slaves = {} /\ m_requests = {} /\ m_new_slaves = {} /\ gc = NoGC
    /\ waiting = [k \in Keys |-> None] /\ reactor = None
    /\ valid = [s \in Slaves |-> FALSE]
    /\ stream = [s \in Slaves |-> <<>>]
    /\ link = [s \in Slaves |-> "away"]
    /\ replica = [s \in Slaves |-> NoObjects]
    /\ copied = {} /\ late = {}

-----------------------------------------------------------------------------
(* Sending to slaves *)

\* The master sends to s, and the peer is there to take it.
Open(s) == valid[s] /\ link[s] # "down"

\* Mutation: a command is written before those that are pending.
SendOvertaking(S, c) ==
    /\ \A s \in S : Open(s) => Len(stream[s]) < BufCnt
    /\ stream' = [s \in Slaves |-> IF s \in S /\ Open(s) THEN <<c>> \o stream[s]
                                                         ELSE stream[s]]

\* sendv to the slaves of S: waits for free buffers, in the lock of the bucket.
\* An invalid socket takes nothing; what is sent to a peer that is gone is lost.
Send(S, c) ==
    /\ \A s \in S : Open(s) => Len(stream[s]) < BufCnt
    /\ stream' = [s \in Slaves |-> IF s \in S /\ Open(s) THEN Append(stream[s], c)
                                                         ELSE stream[s]]

\* send to a slave of S has to wait.
Full(S) == \E s \in S : Open(s) /\ Len(stream[s]) >= BufCnt

Waits(t) == \E k \in Keys : waiting[k] = t

\* Thread t is in the bucket of k, alone.
Locks(t, k) ==
    /\ waiting[k] = t \/ (waiting[k] = None /\ ~Waits(t))
    /\ waiting' = [waiting EXCEPT ![k] = None]

\* Thread t waits for free buffers in _sendv and keeps the bucket locked.
Wait(t, k, S) ==
    /\ waiting[k] = None /\ ~Waits(t)
    /\ Full(S)
    /\ waiting' = [waiting EXCEPT ![k] = t]
    /\ UNCHANGED <<hash, updates, busy, refs, listVars, gc, reactor, valid, stream,
                   link, replica, history>>

-----------------------------------------------------------------------------
(* Jobs *)

\* memcache_socket::on_readable copies the current list of slaves.
post_job(w) ==
    /\ reactor = None
    /\ ~busy[w]
    /\ busy' = [busy EXCEPT ![w] = TRUE]
    /\ refs' = [refs EXCEPT ![w] = m_slaves]
    /\ UNCHANGED <<hash, updates, listVars, gc, lockVars, valid, stream, link, replica, history>>

EndJob(w) ==
    /\ busy[w] /\ ~Waits(w)
    /\ busy' = [busy EXCEPT ![w] = FALSE]
    /\ refs' = [refs EXCEPT ![w] = {}]
    /\ UNCHANGED <<hash, updates, listVars, gc, lockVars, valid, stream, link, replica, history>>

\* A command of worker w makes k map to o and sends c.
Apply(w, k, o, c) ==
    /\ busy[w] /\ updates < MaxUpdates
    /\ Locks(w, k)
    /\ updates' = updates + 1
    /\ hash' = [hash EXCEPT ![k] = o]
    /\ Send(refs[w], c)
    /\ UNCHANGED <<busy, refs, listVars, gc, reactor, valid, link, replica, history>>

WaitInJob(w, k) ==
    /\ busy[w] /\ updates < MaxUpdates
    /\ Wait(w, k, refs[w])

New == updates + 1

\* Set, add, replace and the commands that compute a new value; append,
\* prepend, increment and decrement leave the expiration time alone.
Store(w, k) ==
    LET whole == [data |-> New, exptime |-> New]
    IN  \/ Apply(w, k, whole, SetQ(k, whole))
        \/ /\ hash[k] # None
           /\ LET part == [hash[k] EXCEPT !.data = New]
              IN  Apply(w, k, part, SetQ(k, part))

\* Touch and the get-and-touch commands.
Touch(w, k) ==
    /\ hash[k] # None
    /\ LET o == [hash[k] EXCEPT !.exptime = New] IN Apply(w, k, o, TouchOf(k, o))

Delete(w, k) ==
    /\ hash[k] # None
    /\ Apply(w, k, None, DeleteQ(k))

-----------------------------------------------------------------------------
(* The reactor of the master *)

IdleWorkers == {w \in Workers : ~busy[w]}

Complete(q) == q.flags = Workers

\* Mutation: the request does not wait for the workers.
NewRequestAtOnce(s) == [slave |-> s, flags |-> Workers]

\* syncer::add_request
NewRequest(s) == [slave |-> s, flags |-> IdleWorkers]

\* The slave process has connected and cleared its hash; the master accepts
\* the connection and puts it on the list the next jobs get.  With MAX_SLAVES
\* on the list it closes the connection, and the slave tries again.
make_repl_socket(s) ==
    /\ reactor = None
    /\ link[s] = "away" /\ Cardinality(m_slaves) # MaxSlaves
    /\ link' = [link EXCEPT ![s] = "up"]
    /\ valid' = [valid EXCEPT ![s] = TRUE]
    /\ m_slaves' = m_slaves \cup {s}
    /\ IF Complete(NewRequest(s))
       THEN m_new_slaves' = m_new_slaves \cup {s} /\ UNCHANGED m_requests
       ELSE m_requests' = m_requests \cup {NewRequest(s)} /\ UNCHANGED m_new_slaves
    /\ late' = IF gc.on \/ IdleWorkers # Workers THEN late \cup {s} ELSE late
    /\ UNCHANGED <<hash, updates, busy, refs, gc, lockVars, stream, replica, copied>>

Marked == {[q EXCEPT !.flags = @ \cup IdleWorkers] : q \in m_requests}

\* syncer::check
check ==
    LET ready == {q \in Marked : Complete(q)}
    IN  /\ reactor = None /\ m_requests # {}
        /\ m_requests' = Marked \ ready
        /\ m_new_slaves' = m_new_slaves \cup {q.slave : q \in ready}
        /\ UNCHANGED <<hash, updates, busy, refs, m_slaves, gc, lockVars, valid, stream,
                       link, replica, history>>

\* The connections of S are given up: what the kernel has taken so far still
\* reaches the slave, the rest is gone.
Invalidate(S) ==
    /\ valid' = [s \in Slaves |-> valid[s] /\ s \notin S]
    /\ \E n \in [S -> 0..BufCnt] :
          /\ \A s \in S : n[s] <= Len(stream[s])
          /\ stream' = [s \in Slaves |-> IF s \in S THEN SubSeq(stream[s], 1, n[s])
                                                    ELSE stream[s]]

\* Mutation: a slave that has timed out is only taken off the list.
EraseOnly(T) ==
    /\ m_slaves' = {s \in m_slaves : valid[s] /\ s \notin T}
    /\ UNCHANGED <<valid, stream>>

\* The first half of on_master_interval; T: the slaves that have timed out.
EraseSlaves(T) ==
    /\ m_slaves' = {s \in m_slaves : valid[s] /\ s \notin T}
    /\ Invalidate(T)

\* gc_thread::gc_thread and start
StartGC ==
    /\ gc' = [on |-> TRUE, todo |-> Keys, slaves |-> m_slaves' \cup m_new_slaves,
              fresh |-> m_new_slaves]
    /\ m_new_slaves' = {}

\* Why and when gc_ready starts a run is in module Reclaim; a run may start
\* whenever none is in progress.
on_master_interval(T) ==
    /\ reactor = None
    /\ T \subseteq {s \in m_slaves : valid[s]}
    /\ EraseSlaves(T)
    /\ \/ UNCHANGED <<gc, m_new_slaves>>
       \/ ~gc.on /\ StartGC
    /\ UNCHANGED <<hash, updates, busy, refs, m_requests, lockVars, link, replica, history>>

\* repl_socket::on_readable sees that the slave has closed the connection, or
\* a send to it fails.
Disconnect(s) ==
    /\ valid[s] /\ link[s] = "down"
    /\ Invalidate({s})
    /\ UNCHANGED <<masterVars, link, replica, history>>

\* reactor::gc destroys a client socket that has k locked and waits for its bucket.
\* Jobs and a GC run may be in progress: reactor_gc_ready is asked, and workers are
\* found idle, some time before.
BlockReactor(k) ==
    /\ reactor = None /\ waiting[k] # None
    /\ reactor' = k
    /\ UNCHANGED <<hash, updates, busy, refs, listVars, gc, waiting, valid, stream,
                   link, replica, history>>

UnblockReactor ==
    /\ reactor # None
    /\ waiting[reactor] = None
    /\ reactor' = None
    /\ UNCHANGED <<hash, updates, busy, refs, listVars, gc, waiting, valid, stream,
                   link, replica, history>>

-----------------------------------------------------------------------------
(* The GC thread *)

\* Mutation: removals are not replicated.
RemoveSilently(k) ==
    /\ hash[k] # None
    /\ hash' = [hash EXCEPT ![k] = None]
    /\ UNCHANGED stream

\* The object is flushed, evicted or has expired.
RemoveObject(k) ==
    /\ hash[k] # None
    /\ hash' = [hash EXCEPT ![k] = None]
    /\ Send(gc.slaves, DeleteQ(k))

Survive(k) ==
    /\ hash[k] # None
    /\ UNCHANGED hash
    /\ Send(gc.fresh, SetQ(k, hash[k]))

\* bucket::gc with the predicate of gc_thread::gc, which holds the lock of the
\* bucket.  Which objects are removed is in module Memcache.
gc_bucket(k) ==
    /\ k \in gc.todo
    /\ Locks(GC, k)
    /\ gc' = [gc EXCEPT !.todo = @ \ {k}]
    /\ \/ RemoveObject(k)
       \/ Survive(k)
       \/ hash[k] = None /\ UNCHANGED <<hash, stream>>
    /\ UNCHANGED <<updates, busy, refs, listVars, reactor, valid, link, replica, history>>

WaitInGC(k) ==
    /\ k \in gc.todo /\ hash[k] # None
    /\ Wait(GC, k, gc.slaves)

EndGC ==
    /\ gc.on /\ gc.todo = {}
    /\ gc' = NoGC
    /\ copied' = copied \cup gc.fresh
    /\ UNCHANGED <<hash, updates, busy, refs, listVars, lockVars, valid, stream, link,
                   replica, late>>

-----------------------------------------------------------------------------
(* The slave *)

\* One command of repl_recv, applied to the objects h of a slave.
Applied(h, c) ==
    [h EXCEPT ![c.key] =
        CASE c.op = "SetQ" -> c.obj
          [] c.op = "Touch" /\ @ # None -> [@ EXCEPT !.exptime = c.obj.exptime]
          [] c.op = "Touch" /\ @ = None -> None
          [] c.op = "DeleteQ" -> None]

repl_recv(s) ==
    /\ link[s] = "up" /\ stream[s] # <<>>
    /\ replica' = [replica EXCEPT ![s] = Applied(@, Head(stream[s]))]
    /\ stream' = [stream EXCEPT ![s] = Tail(@)]
    /\ UNCHANGED <<masterVars, valid, link, history>>

\* The slave leaves: it has read the end of the stream, the connection is
\* reset, the process ends, or it finds itself owning the virtual address.
\* What it has not applied is lost, and its objects belong to a slave that
\* joins again without them, or to a new master.
on_slave_end(s) ==
    /\ link[s] \in {"up", "hung"}
    /\ link' = [link EXCEPT ![s] = "down"]
    /\ stream' = [stream EXCEPT ![s] = <<>>]
    /\ replica' = [replica EXCEPT ![s] = NoObjects]
    /\ UNCHANGED <<masterVars, valid, history>>

\* The slave stops without closing the connection.
Hang(s) ==
    /\ link[s] = "up"
    /\ link' = [link EXCEPT ![s] = "hung"]
    /\ UNCHANGED <<masterVars, valid, stream, replica, history>>

-----------------------------------------------------------------------------

Next ==
    \/ \E w \in Workers :
          \/ post_job(w) \/ EndJob(w)
          \/ \E k \in Keys : Store(w, k) \/ Touch(w, k) \/ Delete(w, k) \/ WaitInJob(w, k)
    \/ \E s \in Slaves :
          \/ make_repl_socket(s) \/ Disconnect(s)
          \/ repl_recv(s) \/ on_slave_end(s) \/ Hang(s)
    \/ check
    \/ \E T \in SUBSET Slaves : on_master_interval(T)
    \/ \E k \in Keys : gc_bucket(k) \/ WaitInGC(k) \/ BlockReactor(k)
    \/ UnblockReactor
    \/ EndGC

Spec == Init /\ [][Next]_vars

\* The GC thread and a worker that has waited go on, the data for a slave that is
\* neither hung nor gone is written and read, and the reactor sees the end of a
\* connection and the lack of heartbeats.  A reactor that waits for a bucket does
\* none of this: it does not write what is pending either.
Gone == {s \in m_slaves : valid[s] /\ link[s] \in {"hung", "down"}}

Fairness ==
    /\ WF_vars(EndGC \/ \E k \in Keys : gc_bucket(k))
    /\ \A w \in Workers, k \in Keys : WF_vars(waiting[k] = w /\ Store(w, k))
    /\ \A s \in Slaves : WF_vars(reactor = None /\ repl_recv(s))
    /\ WF_vars(UnblockReactor)
    /\ WF_vars(Gone # {} /\ \E T \in SUBSET Slaves : Gone \subseteq T /\ on_master_interval(T))

FairSpec == Spec /\ Fairness

-----------------------------------------------------------------------------
(* Properties *)

\* What a slave with the objects h has when it has applied the commands q.
Replay(h, q) ==
    LET after[i \in 0..Len(q)] == IF i = 0 THEN h ELSE Applied(after[i - 1], q[i])
    IN  after[Len(q)]

\* What slave s will have when it has applied its stream.
Final(s) == Replay(replica[s], stream[s])

\* The initial copy for s has passed the bucket of k.
Passed(s, k) ==
    \/ s \in copied
    \/ gc.on /\ s \in gc.fresh /\ k \notin gc.todo

\* A slave misses nothing: every object of the master that the initial copy
\* has passed is on the slave, with the same data and expiration time, as soon
\* as the slave has applied what is on its way.  The syncer lets the copy
\* begin when every worker knows the slave (handler::make_repl_socket), and
\* copy and updates are sent in the lock of the bucket.  (The variables have their
\* types.)
ReplicaIsComplete ==
    /\ TypeOK
    /\ \A s \in Slaves, k \in Keys :
         Open(s) /\ Passed(s, k) /\ hash[k] # None => Final(s)[k] = hash[k]

\* A slave that joined while no job and no GC run was in progress never holds
\* an object that the master has removed or replaced, beyond what is on its
\* way.  The other slaves may: a job or a GC run with an older list of slaves
\* removes an object that a newer job has sent to the slave.
RemovedIsForgotten ==
    \A s \in Slaves \ late, k \in Keys :
        Open(s) => Final(s)[k] \in {None, hash[k]}

\* A slave never goes back to an older state of an object, whichever of the
\* workers and the GC thread sent it: a slave that becomes the master serves,
\* for every object, a state no older than any it had before.
NeverBackwards ==
    [][\A s \in Slaves, k \in Keys :
          replica[s][k] # None /\ replica'[s][k] # None
          => /\ replica'[s][k].data >= replica[s][k].data
             /\ replica'[s][k].exptime >= replica[s][k].exptime]_vars

AllWait == IF reactor = None THEN FALSE ELSE waiting[reactor] # None

\* A slave that stops reading does not stop the GC thread for ever: the thread
\* waits for free buffers in the lock of a bucket until on_master_interval
\* finds that the heartbeats are missing and invalidates the socket.  The exception:
\* the reactor itself waits for a bucket in the destructor of a client's socket, and
\* the thread in that bucket waits for buffers that only the reactor would free.
GCTerminates == gc.on ~> ~gc.on \/ AllWait

=============================================================================
