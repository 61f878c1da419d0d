------------------------------ MODULE Reclaim ------------------------------
(***************************************************************************)
(* How the reactor thread of a master removes, closes and destroys the     *)
(* sockets it shares with the worker threads and the GC thread.            *)
(*                                                                         *)
(* Any thread may invalidate a socket; only the reactor closes descriptors *)
(* and destroys objects.  An object is destroyed once the reactor has seen *)
(* every worker idle since the object left its tables (class syncer) and   *)
(* no GC thread runs.  The same syncer delays the initial replication of a *)
(* new slave until every worker knows the slave.                           *)
(***************************************************************************)
EXTENDS Integers, FiniteSets

CONSTANTS
    Res,        \* slots for socket objects
    Fds,        \* descriptor numbers the kernel hands out
    Workers,
    GC,         \* the GC thread
    MaxSlaves,  \* MAX_SLAVES
    MaxGCs,     \* MAX_CONSECUTIVE_GCS
    MaxJoins,   \* bound: replication sockets accepted
    None        \* neither a socket nor a descriptor

ASSUME ReclaimAssumption ==
    /\ GC \notin Workers /\ None \notin Res \cup Fds
    /\ MaxSlaves \in Nat /\ MaxGCs \in Nat /\ MaxJoins \in Nat

Threads == Workers \cup {GC}

VARIABLES
    st,          \* socket -> free, registered, garbage or fixed
    kind,        \* socket -> client or repl
    m_valid, m_closed, fd,  \* socket -> the members of class resource
    m_drop_req,  \* descriptors whose removal other threads request
    at,          \* thread -> where it is
    refs,        \* thread -> sockets it may use
    serves,      \* worker -> client whose m_recvjob it runs
    using,       \* thread -> socket whose with_fd it is in
    m_slaves,    \* handler::m_slaves
    m_new_slaves,  \* handler::m_new_slaves
    gc_new,      \* gc_thread::m_new_slaves
    m_gc_thread, \* is there a GC thread, running or to be joined?
    m_requests,  \* syncer::m_requests
    m_consecutive_gcs,
    cb,          \* the part of the interval callback to run next
    joins,       \* replication sockets accepted so far
    thrown       \* a logic_error ended the process

vars == <<st, kind, m_valid, m_closed, fd, m_drop_req, at, refs, serves, using,
          m_slaves, m_new_slaves, gc_new, m_gc_thread, m_requests,
          m_consecutive_gcs, cb, joins, thrown>>

objVars == <<st, kind, m_valid, m_closed, fd>>
threadVars == <<at, refs, serves, using>>
slaveVars == <<m_slaves, m_new_slaves, gc_new>>
otherVars == <<m_gc_thread, m_consecutive_gcs, cb, joins, thrown>>

\* A sync_request: whose callback moves a slave to m_new_slaves, or, without
\* slave, calls reactor::gc; and the workers whose flag is set.
Request == [slave : Res \cup {None}, flags : SUBSET Workers]

TypeOK ==
    /\ st \in [Res -> {"free", "registered", "garbage", "fixed"}]
    /\ kind \in [Res -> {"client", "repl"}]
    /\ m_valid \in [Res -> BOOLEAN] /\ m_closed \in [Res -> BOOLEAN]
    /\ fd \in [Res -> Fds \cup {None}]
    /\ m_drop_req \subseteq Fds
    /\ at \in [Threads -> {"idle", "job", "in", "drop"}]
    /\ refs \in [Threads -> SUBSET Res] /\ serves \in [Workers -> Res \cup {None}]
    /\ using \in [Threads -> Res \cup {None}]
    /\ m_slaves \subseteq Res /\ m_new_slaves \subseteq Res /\ gc_new \subseteq Res
    /\ m_gc_thread \in BOOLEAN
    /\ m_requests \subseteq Request
    /\ m_consecutive_gcs \in 0..MaxGCs
    /\ cb \in {"poll", "slaves", "gc", "reclaim"}
    /\ joins \in 0..MaxJoins
    /\ thrown \in BOOLEAN

Init ==
    /\ st = [r \in Res |-> "free"]
    /\ kind = [r \in Res |-> "client"]
    /\ m_valid = [r \in Res |-> FALSE] /\ m_closed = [r \in Res |-> FALSE]
    /\ fd = [r \in Res |-> None]
    /\ m_drop_req = {}
    /\ at = [t \in Threads |-> "idle"]
    /\ refs = [t \in Threads |-> {}]
    /\ serves = [w \in Workers |-> None] /\ using = [t \in Threads |-> None]
    /\ m_slaves = {} /\ m_new_slaves = {} /\ gc_new = {}
    /\ m_gc_thread = FALSE
    /\ m_requests = {}
    /\ m_consecutive_gcs = 0
    /\ cb = "poll"
    /\ joins = 0
    /\ thrown = FALSE

-----------------------------------------------------------------------------
(* Workers and the GC thread use sockets through resource::with_fd *)

\* Under the read lock of the socket, and only if it is valid.
EnterWithFd(t, r) ==
    /\ ~thrown /\ at[t] = "job" /\ r \in refs[t] /\ m_valid[r]
    /\ at' = [at EXCEPT ![t] = "in"]
    /\ using' = [using EXCEPT ![t] = r]
    /\ UNCHANGED <<objVars, refs, serves, m_drop_req, slaveVars, m_requests, otherVars>>

LeaveWithFd(t) ==
    /\ ~thrown /\ at[t] \in {"in", "drop"}
    /\ at' = [at EXCEPT ![t] = "job"]
    /\ using' = [using EXCEPT ![t] = None]
    /\ m_drop_req' = IF at[t] = "drop" THEN m_drop_req \cup {fd[using[t]]}
                     ELSE m_drop_req
    /\ UNCHANGED <<objVars, refs, serves, slaveVars, m_requests, otherVars>>

\* invalidate_and_close_: only the thread whose compare_exchange succeeds goes
\* on to request_removal.
invalidate_and_close(t) ==
    /\ ~thrown /\ at[t] = "in" /\ m_valid[using[t]]
    /\ m_valid' = [m_valid EXCEPT ![using[t]] = FALSE]
    /\ at' = [at EXCEPT ![t] = "drop"]
    /\ UNCHANGED <<st, kind, m_closed, fd, refs, serves, using, m_drop_req,
                   slaveVars, m_requests, otherVars>>

\* The job is over and m_running is cleared, or done() of the GC thread is set.
EndJob(t) ==
    /\ ~thrown /\ at[t] = "job"
    /\ at' = [at EXCEPT ![t] = "idle"]
    /\ refs' = [refs EXCEPT ![t] = IF t = GC THEN @ ELSE {}]
    /\ serves' = [w \in Workers |-> IF w = t THEN None ELSE serves[w]]
    /\ UNCHANGED <<objVars, using, m_drop_req, slaveVars, m_requests, otherVars>>

\* is_running of a worker.
is_running(w) == at[w] # "idle"

-----------------------------------------------------------------------------
(* class syncer *)

IdleWorkers == {w \in Workers : ~is_running(w)}

Complete(q) == q.flags = Workers

\* The callbacks of the requests in Q, applied to the objects and the slaves.
Callbacks(Q) ==
    /\ m_new_slaves' = m_new_slaves \cup ({q.slave : q \in Q} \ {None})
    /\ st' = IF \E q \in Q : q.slave = None
             THEN [r \in Res |-> IF st[r] = "fixed" THEN "free" ELSE st[r]]
             ELSE st

\* Mutation: the request does not wait for the workers.
NewRequestAtOnce(s) == [slave |-> s, flags |-> Workers]

\* syncer::add_request of a request with callback for s.
NewRequest(s) == [slave |-> s, flags |-> IdleWorkers]

\* Mutation: check does not mark the idle workers.
Unmarked == m_requests

Marked == {[q EXCEPT !.flags = @ \cup IdleWorkers] : q \in m_requests}

\* syncer::check, called at the beginning of the interval callback.
check ==
    LET ready == {q \in Marked : Complete(q)}
    IN  /\ ~thrown /\ cb = "poll"
        /\ Callbacks(ready)
        /\ m_requests' = Marked \ ready
        /\ cb' = "slaves"
        /\ UNCHANGED <<kind, m_valid, m_closed, fd, m_drop_req, threadVars,
                       m_slaves, gc_new, m_gc_thread, m_consecutive_gcs, joins,
                       thrown>>

-----------------------------------------------------------------------------
(* The reactor between two callbacks *)

FdsInUse == {fd[r] : r \in {x \in Res : st[x] # "free" /\ ~m_closed[x]}}

Create(r, f, k) ==
    /\ ~thrown /\ cb = "poll" /\ st[r] = "free" /\ f \notin FdsInUse
    /\ kind' = [kind EXCEPT ![r] = k]
    /\ m_valid' = [m_valid EXCEPT ![r] = TRUE]
    /\ m_closed' = [m_closed EXCEPT ![r] = FALSE]
    /\ fd' = [fd EXCEPT ![r] = f]

make_memcache_socket(r, f) ==
    /\ Create(r, f, "client")
    /\ st' = [st EXCEPT ![r] = "registered"]
    /\ UNCHANGED <<m_drop_req, threadVars, slaveVars, m_requests, otherVars>>

\* The slave is known to jobs from now on; its initial replication waits for
\* the jobs that do not know it.
make_repl_socket(r, f) ==
    /\ Create(r, f, "repl")
    /\ Cardinality(m_slaves) # MaxSlaves /\ joins < MaxJoins
    /\ st' = [st EXCEPT ![r] = "registered"]
    /\ m_slaves' = m_slaves \cup {r}
    /\ joins' = joins + 1
    /\ IF Complete(NewRequest(r))
       THEN m_new_slaves' = m_new_slaves \cup {r} /\ UNCHANGED m_requests
       ELSE m_requests' = m_requests \cup {NewRequest(r)} /\ UNCHANGED m_new_slaves
    /\ UNCHANGED <<m_drop_req, threadVars, gc_new, m_gc_thread,
                   m_consecutive_gcs, cb, thrown>>

\* A client's job gets a copy of the slave list (on_readable); the m_sendjob of
\* any socket only uses that socket (on_writable).
post_job(r, w) ==
    /\ ~thrown /\ cb = "poll" /\ st[r] = "registered" /\ ~is_running(w)
    /\ at' = [at EXCEPT ![w] = "job"]
    /\ \/ /\ kind[r] = "client" /\ \A v \in Workers : serves[v] # r
          /\ refs' = [refs EXCEPT ![w] = {r} \cup m_slaves]
          /\ serves' = [serves EXCEPT ![w] = r]
       \/ refs' = [refs EXCEPT ![w] = {r}] /\ UNCHANGED serves
    /\ UNCHANGED <<objVars, using, m_drop_req, slaveVars, m_requests, otherVars>>

\* Mutation: try_close does not take the lock.
NeverInUse(r) == FALSE

\* The descriptor is closed unless a thread is inside with_fd (try_close).
InUse(r) == \E t \in Threads : using[t] = r

\* remove_resource, after the flag m_valid has become v.
Remove(r, v) ==
    /\ st' = [st EXCEPT ![r] = "garbage"]
    /\ m_valid' = [m_valid EXCEPT ![r] = v]
    /\ m_closed' = [m_closed EXCEPT ![r] = ~InUse(r)]

\* Mutation: the socket is removed whoever has invalidated it.
HangupAnyway(r) ==
    /\ ~thrown /\ cb = "poll" /\ st[r] = "registered"
    /\ Remove(r, FALSE)
    /\ UNCHANGED <<kind, fd, m_drop_req, threadVars, slaveVars, m_requests, otherVars>>

\* EPOLLHUP, EPOLLERR or end of file.  invalidate() tells the reactor to remove
\* the socket only if no other thread has invalidated it before.
Hangup(r) ==
    /\ ~thrown /\ cb = "poll" /\ st[r] = "registered" /\ m_valid[r]
    /\ Remove(r, FALSE)
    /\ UNCHANGED <<kind, fd, m_drop_req, threadVars, slaveVars, m_requests, otherVars>>

\* A removal request names a descriptor, not an object.
drop(f) ==
    LET found == {r \in Res : st[r] = "registered" /\ fd[r] = f}
    IN  /\ ~thrown /\ cb = "poll" /\ f \in m_drop_req
        /\ m_drop_req' = m_drop_req \ {f}
        /\ \/ \E r \in found : Remove(r, m_valid[r]) /\ UNCHANGED thrown
           \/ found = {} /\ thrown' = TRUE /\ UNCHANGED <<st, m_valid, m_closed>>
        /\ UNCHANGED <<kind, fd, threadVars, slaveVars, m_gc_thread,
                       m_requests, m_consecutive_gcs, cb, joins>>

-----------------------------------------------------------------------------
(* The rest of the interval callback of server::serve_master *)

\* Slaves that are invalid leave the list; those in T have timed out.
check_slaves(T) ==
    /\ ~thrown /\ cb = "slaves" /\ T \subseteq {r \in m_slaves : m_valid[r]}
    /\ m_slaves' = {r \in m_slaves : m_valid[r]} \ T
    /\ m_valid' = [r \in Res |-> m_valid[r] /\ r \notin T]
    /\ m_closed' = [r \in Res |-> IF r \in T THEN ~InUse(r) ELSE m_closed[r]]
    /\ st' = [r \in Res |-> IF r \in T THEN "garbage" ELSE st[r]]
    /\ cb' = "gc"
    /\ UNCHANGED <<kind, fd, m_drop_req, threadVars, m_new_slaves, gc_new,
                   m_gc_thread, m_requests, m_consecutive_gcs, joins, thrown>>

\* gc_ready joins a finished GC thread and gives the reason for a new one, if
\* any.  An interval cannot have passed since a thread that is joined just now.
Reasons ==
    IF m_new_slaves # {} /\ m_consecutive_gcs < MaxGCs
    THEN {"urgent", "slaves"}
    ELSE {"urgent", "no"} \cup (IF m_gc_thread THEN {} ELSE {"interval"})

gc_ready(why) ==
    /\ ~thrown /\ cb = "gc" /\ at[GC] = "idle" /\ why \in Reasons
    /\ m_consecutive_gcs' = CASE why = "slaves" -> m_consecutive_gcs + 1
                              [] why = "interval" -> 0
                              [] OTHER -> m_consecutive_gcs
    /\ IF why = "no"
       THEN /\ m_gc_thread' = FALSE
            /\ refs' = [refs EXCEPT ![GC] = {}] /\ gc_new' = {}
            /\ UNCHANGED <<at, m_new_slaves>>
       ELSE /\ m_gc_thread' = TRUE
            /\ at' = [at EXCEPT ![GC] = "job"]
            /\ refs' = [refs EXCEPT ![GC] = m_slaves \cup m_new_slaves]
            /\ gc_new' = m_new_slaves /\ m_new_slaves' = {}
    /\ cb' = "reclaim"
    /\ UNCHANGED <<objVars, serves, using, m_drop_req, m_slaves, m_requests, joins,
                   thrown>>

gc_still_running ==
    /\ ~thrown /\ cb = "gc" /\ at[GC] # "idle"
    /\ cb' = "reclaim"
    /\ UNCHANGED <<objVars, threadVars, m_drop_req, slaveVars, m_gc_thread,
                   m_requests, m_consecutive_gcs, joins, thrown>>

\* Mutation: a running GC thread is not waited for.
ReadyDuringGC ==
    /\ \E r \in Res : st[r] = "garbage"
    /\ m_requests = {} /\ m_new_slaves = {}

reactor_gc_ready ==
    /\ \E r \in Res : st[r] = "garbage"
    /\ m_requests = {}
    /\ ~m_gc_thread /\ m_new_slaves = {}

\* fix_garbage insists that the previous garbage is gone, and retries
\* try_close.  The request for gc() may be satisfied at once.
reclaim ==
    /\ ~thrown /\ cb = "reclaim" /\ cb' = "poll"
    /\ IF ~reactor_gc_ready
       THEN UNCHANGED <<st, m_closed, m_requests, thrown>>
       ELSE IF \E r \in Res : st[r] = "fixed"
       THEN thrown' = TRUE /\ UNCHANGED <<st, m_closed, m_requests>>
       ELSE /\ m_closed' = [r \in Res |-> m_closed[r] \/ (st[r] = "garbage" /\ ~InUse(r))]
            /\ st' = [r \in Res |->
                        IF st[r] # "garbage" THEN st[r]
                        ELSE IF Complete(NewRequest(None)) THEN "free" ELSE "fixed"]
            /\ m_requests' = IF Complete(NewRequest(None)) THEN {}
                             ELSE {NewRequest(None)}
            /\ UNCHANGED thrown
    /\ UNCHANGED <<kind, m_valid, fd, m_drop_req, threadVars, slaveVars,
                   m_gc_thread, m_consecutive_gcs, joins>>

-----------------------------------------------------------------------------
Thread(t) ==
    \/ \E r \in Res : EnterWithFd(t, r)
    \/ LeaveWithFd(t)
    \/ invalidate_and_close(t)
    \/ EndJob(t)

callback ==
    \/ check
    \/ \E T \in SUBSET m_slaves : check_slaves(T)
    \/ \E why \in {"urgent", "slaves", "interval", "no"} : gc_ready(why)
    \/ gc_still_running
    \/ reclaim

Next ==
    \/ \E t \in Threads : Thread(t)
    \/ \E r \in Res, f \in Fds : make_memcache_socket(r, f) \/ make_repl_socket(r, f)
    \/ \E r \in Res, w \in Workers : post_job(r, w)
    \/ \E r \in Res : Hangup(r)
    \/ \E f \in Fds : drop(f)
    \/ callback

Spec == Init /\ [][Next]_vars

\* Jobs and GC runs end, every turn of poll() serves the removal requests and
\* the callback runs again and again.
Fairness ==
    /\ \A t \in Threads : WF_vars(LeaveWithFd(t)) /\ SF_vars(EndJob(t))
    /\ WF_vars(callback)
    /\ \A f \in Fds : SF_vars(drop(f))

FairSpec == Spec /\ Fairness

-----------------------------------------------------------------------------
(* Properties *)

Live == {r \in Res : st[r] # "free"}

\* No pointer to a destroyed socket is left: not with a worker or GC thread
\* that may still use it, not in the slave lists, not in a sync_request.  (The
\* variables have their types.)
NoDanglingPointers ==
    /\ TypeOK
    /\ \A t \in Threads : refs[t] \subseteq Live
    /\ m_slaves \cup m_new_slaves \cup gc_new \subseteq Live
    /\ \A q \in m_requests : q.slave # None => q.slave \in Live

\* A thread inside with_fd works on an open descriptor of its own socket: the
\* reactor has not closed it, so the kernel cannot have given the number to
\* another connection.
NoUseOfClosedFd ==
    \A t \in Threads : using[t] # None =>
        /\ ~m_closed[using[t]]
        /\ \A r \in Live : fd[r] = fd[using[t]] /\ ~m_closed[r] => r = using[t]

\* A removal request still names the socket it was made for, whose descriptor
\* the reactor has therefore not given up; remove_resource finds it, and neither
\* "bug in remove_resource" nor "No gc() was called" is ever thrown.
DropRequestsAreCurrent ==
    /\ \A f \in m_drop_req : \E r \in Res : st[r] = "registered" /\ fd[r] = f /\ ~m_valid[r]
    /\ ~thrown

\* When the GC thread sends the initial copy of the hash to a new slave, every
\* client's job in progress replicates its updates to that slave as well.
NewSlavesMissNothing ==
    \A s \in gc_new, w \in Workers :
        at[GC] # "idle" /\ m_valid[s] /\ serves[w] # None => s \in refs[w]

\* The clients pause, and neither memory pressure nor flushes keep calling for
\* one GC run right after the other.
LoadSubsides ==
    <>[][~gc_ready("urgent") /\ ~\E r \in Res, w \in Workers : post_job(r, w)]_vars

\* If the load subsides, a socket that has been removed is destroyed, which is
\* when the remaining locks and counter resources of its client are released;
\* one that a worker has invalidated is removed first.  The wait for idle
\* workers, for the GC thread and for new slaves comes to an end.
GarbageIsDestroyed ==
    LoadSubsides => \A r \in Res :
        st[r] # "free" /\ ~m_valid[r] ~> st[r] = "free"
=============================================================================
