------------------------------ MODULE Memcache ------------------------------
(***************************************************************************)
(* The memcache protocol of a master: the object hash, the server-side     *)
(* locks, the client sockets and the workers that run their jobs.          *)
(*                                                                         *)
(* A command's handler runs under the lock of the key's bucket, so it is   *)
(* one step.  A worker's job is several steps: it sets the lock context    *)
(* g_context, receives, executes commands, and may walk the socket's locks *)
(* (unlock_all), one bucket lock at a time.  Meanwhile the reactor removes *)
(* sockets, closes their descriptors and accepts new ones.                 *)
(*                                                                         *)
(* A lock is recorded twice: in the object, as the descriptor number of    *)
(* the connection, and in the connection, as a reference to the key.       *)
(*                                                                         *)
(* The data of an object is abstracted to its CAS number, which every      *)
(* command that writes the data increments.                                *)
(***************************************************************************)
EXTENDS Integers, FiniteSets

CONSTANTS
    Keys,
    Conns,           \* slots for memcache_socket objects
    Fds,             \* descriptor numbers the kernel hands out
    Workers,
    Commands,        \* the commands clients send
    Exptimes,        \* expiration times clients send (0: never)
    EvictAges,       \* values gc_thread::gc computes for evict_age
    MaxConnections,  \* g_config.max_connections(), 0 is unlimited
    MaxCas,          \* bound: no command takes a CAS number beyond it
    MaxAge,          \* bound: m_gc_old saturates here
    MaxTime,         \* bound: the clock stops here
    NoConn           \* not a connection

NoLock == -1

ASSUME MemcacheAssumption ==
    /\ Fds \subseteq Nat
    /\ NoConn \notin Conns
    /\ MaxCas \in Nat /\ MaxAge \in Nat /\ MaxTime \in Nat
    /\ Exptimes \subseteq Nat /\ EvictAges \subseteq Nat
    /\ MaxConnections \in Nat

VARIABLES
    m_hash,      \* key -> object, or NoObject
    m_locks,     \* connection -> keys of the objects it has locked
    st,          \* connection -> where the socket is in its life
    fd,          \* connection -> its descriptor number
    job,         \* worker -> the connection whose m_recvjob it runs
    pc,          \* worker -> where it is in that job
    g_context,   \* worker -> thread-local lock context
    now,         \* g_current_time
    flush_time,  \* g_stats.flush_time
    gc,          \* the GC thread
    thrown       \* a logic_error ended the process

vars == <<m_hash, m_locks, st, fd, job, pc, g_context, now, flush_time, gc,
          thrown>>

sockVars == <<st, fd>>
workVars == <<job, pc, g_context>>
timeVars == <<now, flush_time, gc>>

Object == [cas : Nat \ {0}, exptime : Nat, lock : Fds \cup {NoLock},
           gc_old : 0..MaxAge]

NoObject == [cas |-> 0, exptime |-> 0, lock |-> NoLock, gc_old |-> 0]

Exists(k) == m_hash[k] # NoObject

\* open: valid.  gone: invalidated by a worker, still known to the reactor.
\* removed: the reactor could not close the descriptor yet.  closed: the
\* descriptor is closed, the object awaits destruction.  dead: inside
\* ~memcache_socket.
SockStates == {"free", "open", "gone", "removed", "closed", "dead"}

PCs == {"idle", "posted", "recv", "exec", "unlock", "quit", "leave", "deny"}

NoGC == [on |-> FALSE, todo |-> {}, flush |-> FALSE, evict |-> 0]

TypeOK ==
    /\ m_hash \in [Keys -> Object \cup {NoObject}]
    /\ m_locks \in [Conns -> SUBSET Keys]
    /\ st \in [Conns -> SockStates]
    /\ fd \in [Conns -> Fds \cup {NoLock}]
    /\ job \in [Workers -> Conns \cup {NoConn}]
    /\ pc \in [Workers -> PCs]
    /\ g_context \in [Workers -> Fds \cup {NoLock}]
    /\ now \in Nat /\ flush_time \in Nat
    /\ gc \in [on : BOOLEAN, todo : SUBSET Keys, flush : BOOLEAN, evict : Nat]
    /\ thrown \in BOOLEAN

Init ==
    /\ m_hash = [k \in Keys |-> NoObject]
    /\ m_locks = [c \in Conns |-> {}]
    /\ st = [c \in Conns |-> "free"]
    /\ fd = [c \in Conns |-> NoLock]
    /\ job = [w \in Workers |-> NoConn]
    /\ pc = [w \in Workers |-> "idle"]
    /\ g_context = [w \in Workers |-> NoLock]
    /\ now = 0 /\ flush_time = 0
    /\ gc = NoGC
    /\ thrown = FALSE

-----------------------------------------------------------------------------
(* memcache::object *)

NewObject(e) == [cas |-> 1, exptime |-> e, lock |-> NoLock, gc_old |-> 0]

locked(o) == o.lock # NoLock

expired(o) ==
    /\ ~locked(o)
    /\ \/ flush_time # 0 /\ flush_time <= now
       \/ o.exptime # 0 /\ o.exptime <= now

locked_by_self(w, o) == o.lock = g_context[w]

locked_by_other(w, o) == locked(o) /\ ~locked_by_self(w, o)

touch(o, e) == [cas |-> o.cas, exptime |-> e, lock |-> o.lock, gc_old |-> 0]

set(o, e) == [cas |-> o.cas + 1, exptime |-> e, lock |-> o.lock, gc_old |-> 0]

\* append, prepend, incr and decr keep the expiration time.
modify(o) == set(o, o.exptime)

data(o) == [o EXCEPT !.gc_old = 0]

survive(o) == [o EXCEPT !.gc_old = IF @ < MaxAge THEN @ + 1 ELSE @]

lock(w, o) == [o EXCEPT !.lock = g_context[w]]

unlock(o) == [o EXCEPT !.lock = NoLock]

-----------------------------------------------------------------------------
(* The life of a client socket, driven by the reactor *)

\* Destructors run in the reactor thread, which does nothing else meanwhile.
ReactorFree == ~thrown /\ \A c \in Conns : st[c] # "dead"

Busy(c) == \E w \in Workers : job[w] = c

FdsInUse == {fd[c] : c \in {x \in Conns : st[x] \in {"open", "gone", "removed"}}}

curr_connections == Cardinality({c \in Conns : st[c] = "open"})

\* accept returns a number no open descriptor has; sockets that wait for their
\* destruction with a closed descriptor do not count.
make_memcache_socket(c, f) ==
    /\ ReactorFree /\ st[c] = "free" /\ f \notin FdsInUse
    /\ MaxConnections = 0 \/ curr_connections < MaxConnections
    /\ st' = [st EXCEPT ![c] = "open"]
    /\ fd' = [fd EXCEPT ![c] = f]
    /\ UNCHANGED <<m_hash, m_locks, workVars, timeVars, thrown>>

\* A worker's send or receive fails inside with_fd: the socket is invalidated
\* and the reactor is asked to remove it.
invalidate_and_close(c) ==
    /\ ~thrown /\ st[c] = "open"
    /\ st' = [st EXCEPT ![c] = "gone"]
    /\ UNCHANGED <<m_hash, m_locks, fd, workVars, timeVars, thrown>>

\* The reactor serves a removal request, or itself invalidates the socket on
\* EPOLLERR or EPOLLHUP.  The descriptor is closed at once unless a worker is
\* inside with_fd, with this socket's m_recvjob or m_sendjob.  The locks are
\* not released.
remove_resource(c) ==
    /\ ReactorFree /\ st[c] \in {"open", "gone"}
    /\ \E s \in {"closed", "removed"} : st' = [st EXCEPT ![c] = s]
    /\ UNCHANGED <<m_hash, m_locks, fd, workVars, timeVars, thrown>>

\* fix_garbage retries try_close, which may fail again.
fix_garbage(c) ==
    /\ ReactorFree /\ st[c] = "removed"
    /\ st' = [st EXCEPT ![c] = "closed"]
    /\ UNCHANGED <<m_hash, m_locks, fd, workVars, timeVars, thrown>>

\* Mutation: ~memcache_socket leaves the locks alone.
DestroyKeepsLocks(c) ==
    /\ ReactorFree /\ st[c] \in {"removed", "closed"} /\ ~Busy(c)
    /\ st' = [st EXCEPT ![c] = "free"]
    /\ UNCHANGED <<m_hash, m_locks, fd, workVars, timeVars, thrown>>

\* reactor::gc, once no worker can hold a reference to the socket.  ~resource
\* closes a descriptor that is still open.
Destroy(c) ==
    /\ ReactorFree /\ st[c] \in {"removed", "closed"} /\ ~Busy(c)
    /\ st' = [st EXCEPT ![c] = "dead"]
    /\ UNCHANGED <<m_hash, m_locks, fd, workVars, timeVars, thrown>>

\* ~memcache_socket unlocks by force, whatever the context of the reactor.
DestroyUnlock(c, k) ==
    /\ ~thrown /\ st[c] = "dead" /\ k \in m_locks[c]
    /\ m_hash' = [m_hash EXCEPT ![k] = IF Exists(k) THEN unlock(@) ELSE @]
    /\ m_locks' = [m_locks EXCEPT ![c] = @ \ {k}]
    /\ UNCHANGED <<sockVars, workVars, timeVars, thrown>>

Destroyed(c) ==
    /\ ~thrown /\ st[c] = "dead" /\ m_locks[c] = {}
    /\ st' = [st EXCEPT ![c] = "free"]
    /\ fd' = [fd EXCEPT ![c] = NoLock]
    /\ UNCHANGED <<m_hash, m_locks, workVars, timeVars, thrown>>

-----------------------------------------------------------------------------
(* The job of a worker *)

Goto(w, l) == pc' = [pc EXCEPT ![w] = l]

\* Only a socket that is not busy, and only to an idle worker.
on_readable(c, w) ==
    /\ ReactorFree /\ st[c] \in {"open", "gone"} /\ ~Busy(c) /\ pc[w] = "idle"
    /\ job' = [job EXCEPT ![w] = c]
    /\ Goto(w, "posted")
    /\ UNCHANGED <<m_hash, m_locks, sockVars, g_context, timeVars, thrown>>

\* with_fd does nothing when the socket has been invalidated meanwhile: the
\* context stays the one of the worker's previous job.
SetContext(w) ==
    /\ ~thrown /\ pc[w] = "posted"
    /\ g_context' = IF st[job[w]] = "open"
                    THEN [g_context EXCEPT ![w] = fd[job[w]]] ELSE g_context
    /\ Goto(w, "recv")
    /\ UNCHANGED <<m_hash, m_locks, sockVars, job, timeVars, thrown>>

\* Some requests have arrived.
RecvOK(w) ==
    /\ ~thrown /\ pc[w] = "recv" /\ st[job[w]] = "open"
    /\ Goto(w, "exec")
    /\ UNCHANGED <<m_hash, m_locks, sockVars, job, g_context, timeVars, thrown>>

\* EWOULDBLOCK: the job ends and m_busy is cleared.
RecvAgain(w) ==
    /\ ~thrown /\ pc[w] = "recv" /\ st[job[w]] = "open"
    /\ Goto(w, "idle")
    /\ job' = [job EXCEPT ![w] = NoConn]
    /\ UNCHANGED <<m_hash, m_locks, sockVars, g_context, timeVars, thrown>>

\* The peer has half-closed the connection.
RecvNone(w) ==
    /\ ~thrown /\ pc[w] = "recv" /\ st[job[w]] = "open"
    /\ Goto(w, "leave")
    /\ UNCHANGED <<m_hash, m_locks, sockVars, job, g_context, timeVars, thrown>>

\* recv fails with ECONNRESET, or the socket is already invalid.
RecvReset(w) ==
    /\ ~thrown /\ pc[w] = "recv"
    /\ Goto(w, "leave")
    /\ st' = [st EXCEPT ![job[w]] = IF @ = "open" THEN "gone" ELSE @]
    /\ UNCHANGED <<m_hash, m_locks, fd, job, g_context, timeVars, thrown>>

\* All complete requests are executed; receive again.
EndBatch(w) ==
    /\ ~thrown /\ pc[w] = "exec"
    /\ Goto(w, "recv")
    /\ UNCHANGED <<m_hash, m_locks, sockVars, job, g_context, timeVars, thrown>>

\* An incomplete request longer than MAX_REQUEST_LENGTH.
TooLarge(w) ==
    /\ ~thrown /\ pc[w] = "exec"
    /\ Goto(w, "deny")
    /\ UNCHANGED <<m_hash, m_locks, sockVars, job, g_context, timeVars, thrown>>

Throw ==
    /\ thrown' = TRUE
    /\ UNCHANGED <<m_hash, m_locks, sockVars, workVars, timeVars>>

\* One turn of the loop of unlock_all.  The vector is cleared at the end; only
\* this job reads it, so an entry may as well go when it is visited.
unlock_all(w, k) ==
    /\ ~thrown /\ pc[w] \in {"unlock", "quit", "leave", "deny"}
    /\ k \in m_locks[job[w]]
    /\ IF Exists(k) /\ ~locked_by_self(w, m_hash[k])
       THEN Throw
       ELSE /\ m_hash' = [m_hash EXCEPT ![k] = IF Exists(k) THEN unlock(@) ELSE @]
            /\ m_locks' = [m_locks EXCEPT ![job[w]] = @ \ {k}]
            /\ UNCHANGED <<sockVars, workVars, timeVars, thrown>>

\* unlock_all is done: go on with the batch or end the job, after closing the
\* socket for a quiet quit and for a request that is too large.
Unlocked(w) ==
    /\ ~thrown /\ pc[w] \in {"unlock", "quit", "leave", "deny"}
    /\ m_locks[job[w]] = {}
    /\ st' = [st EXCEPT ![job[w]] =
                IF @ = "open" /\ pc[w] \in {"quit", "deny"} THEN "gone" ELSE @]
    /\ IF pc[w] \in {"unlock", "quit"}
       THEN Goto(w, "exec") /\ UNCHANGED job
       ELSE Goto(w, "idle") /\ job' = [job EXCEPT ![w] = NoConn]
    /\ UNCHANGED <<m_hash, m_locks, fd, g_context, timeVars, thrown>>

-----------------------------------------------------------------------------
(* Commands.  A command that replies with an error changes nothing. *)

Executing(w, cmd) == ~thrown /\ pc[w] = "exec" /\ cmd \in Commands

Put(k, o) ==
    /\ m_hash' = [m_hash EXCEPT ![k] = o]
    /\ UNCHANGED <<m_locks, sockVars, workVars, timeVars, thrown>>

\* The binary protocol sends 0 for "any".
CasMatches(o, cas) == cas = 0 \/ cas = o.cas

CasInRange(k) == m_hash[k].cas < MaxCas

\* Get, GaT: with an expiration time the object is touched.
Get(w, k) ==
    /\ Executing(w, "get")
    /\ Exists(k) /\ ~expired(m_hash[k])
    /\ Put(k, data(m_hash[k]))

GaT(w, k, e) ==
    /\ Executing(w, "gat")
    /\ Exists(k) /\ ~expired(m_hash[k])
    /\ Put(k, touch(m_hash[k], e))

\* Mutation: an expired object is touched.
TouchExpired(w, k, e) ==
    /\ Executing(w, "touch") /\ Exists(k)
    /\ Put(k, touch(m_hash[k], e))

Touch(w, k, e) ==
    /\ Executing(w, "touch")
    /\ Exists(k) /\ ~expired(m_hash[k])
    /\ Put(k, touch(m_hash[k], e))

\* Mutation: the lock of another connection is ignored.
StoreIgnoresLocks(w, k, cmd, cas, e) ==
    /\ Executing(w, cmd) /\ CasMatches(m_hash[k], cas) /\ CasInRange(k)
    /\ Put(k, IF Exists(k) THEN set(m_hash[k], e) ELSE NewObject(e))

\* An expired object still in the hash is overwritten by set and by add.
Store(w, k, cmd, cas, e) ==
    /\ Executing(w, cmd)
    /\ IF Exists(k)
       THEN /\ ~locked_by_other(w, m_hash[k])
            /\ IF expired(m_hash[k]) THEN cas = 0 /\ cmd # "replace"
                                     ELSE cmd # "add"
            /\ CasMatches(m_hash[k], cas) /\ CasInRange(k)
            /\ Put(k, set(m_hash[k], e))
       ELSE cmd # "replace" /\ cas = 0 /\ Put(k, NewObject(e))

Modify(w, k, cas) ==
    /\ Exists(k) /\ ~locked_by_other(w, m_hash[k]) /\ ~expired(m_hash[k])
    /\ CasMatches(m_hash[k], cas) /\ CasInRange(k)
    /\ Put(k, modify(m_hash[k]))

Append(w, k, cas) == Executing(w, "append") /\ Modify(w, k, cas)

\* Increment and Decrement.  A value that is not a number is an error; an
\* object that is not there is created, but not in place of an expired one.
Increment(w, k, cas) == Executing(w, "incr") /\ Modify(w, k, cas)

IncrementCreate(w, k, e) ==
    /\ Executing(w, "incr") /\ ~Exists(k)
    /\ Put(k, NewObject(e))

\* Mutation: remove_lock is not called.
DeleteKeepsRecord(w, k, cas) ==
    /\ Executing(w, "delete")
    /\ Exists(k) /\ ~locked_by_other(w, m_hash[k])
    /\ CasMatches(m_hash[k], cas)
    /\ Put(k, NoObject)

\* remove_lock finds the key or throws.
Delete(w, k, cas) ==
    /\ Executing(w, "delete")
    /\ Exists(k) /\ ~locked_by_other(w, m_hash[k])
    /\ CasMatches(m_hash[k], cas)
    /\ IF locked_by_self(w, m_hash[k]) /\ k \notin m_locks[job[w]]
       THEN Throw
       ELSE /\ m_hash' = [m_hash EXCEPT ![k] = NoObject]
            /\ m_locks' = IF locked_by_self(w, m_hash[k])
                          THEN [m_locks EXCEPT ![job[w]] = @ \ {k}] ELSE m_locks
            /\ UNCHANGED <<sockVars, workVars, timeVars, thrown>>

AddLock(w, k, o) ==
    /\ m_hash' = [m_hash EXCEPT ![k] = lock(w, o)]
    /\ m_locks' = [m_locks EXCEPT ![job[w]] = @ \cup {k}]
    /\ UNCHANGED <<sockVars, workVars, timeVars, thrown>>

\* Mutation: a lock of another connection is taken over.
LockTakesOver(w, k) ==
    /\ Executing(w, "lock")
    /\ Exists(k) /\ ~expired(m_hash[k])
    /\ AddLock(w, k, m_hash[k])

Lock(w, k) ==
    /\ Executing(w, "lock")
    /\ Exists(k) /\ ~expired(m_hash[k]) /\ ~locked(m_hash[k])
    /\ AddLock(w, k, m_hash[k])

\* Lock and get: the object is locked before it is tested for expiration,
\* and a locked object never counts as expired.
LaG(w, k) ==
    /\ Executing(w, "lag")
    /\ Exists(k) /\ ~locked(m_hash[k])
    /\ AddLock(w, k, data(m_hash[k]))

LaGTouch(w, k, e) ==
    /\ Executing(w, "lag")
    /\ Exists(k) /\ ~locked(m_hash[k])
    /\ AddLock(w, k, touch(m_hash[k], e))

RemoveLock(w, k, o) ==
    IF k \notin m_locks[job[w]]
    THEN Throw
    ELSE /\ m_hash' = [m_hash EXCEPT ![k] = unlock(o)]
         /\ m_locks' = [m_locks EXCEPT ![job[w]] = @ \ {k}]
         /\ UNCHANGED <<sockVars, workVars, timeVars, thrown>>

Unlock(w, k) ==
    /\ Executing(w, "unlock")
    /\ Exists(k) /\ locked_by_self(w, m_hash[k])
    /\ RemoveLock(w, k, m_hash[k])

\* Replace and unlock.
RaU(w, k, cas, e) ==
    /\ Executing(w, "rau")
    /\ Exists(k) /\ locked_by_self(w, m_hash[k])
    /\ CasMatches(m_hash[k], cas) /\ CasInRange(k)
    /\ RemoveLock(w, k, set(m_hash[k], e))

UnlockAll(w) ==
    /\ Executing(w, "unlock_all")
    /\ Goto(w, "unlock")
    /\ UNCHANGED <<m_hash, m_locks, sockVars, job, g_context, timeVars, thrown>>

\* A quiet quit closes at once; the reply of Quit is sent first, and the
\* socket is closed when it has gone out (invalidate_and_close).
Quit(w) ==
    /\ Executing(w, "quit")
    /\ \E l \in {"quit", "unlock"} : Goto(w, l)
    /\ UNCHANGED <<m_hash, m_locks, sockVars, job, g_context, timeVars, thrown>>

Flush(w, t) ==
    /\ Executing(w, "flush")
    /\ flush_time' = t
    /\ UNCHANGED <<m_hash, m_locks, sockVars, workVars, now, gc, thrown>>

-----------------------------------------------------------------------------
(* The handlers of the text protocol.  Only cas takes a CAS number. *)

TextStore(w, k, cmd, e) == Store(w, k, cmd, 0, e)

TextAppend(w, k) == Append(w, k, 0)

TextCas(w, k, cas, e) ==
    /\ Executing(w, "cas")
    /\ Exists(k) /\ ~locked_by_other(w, m_hash[k]) /\ ~expired(m_hash[k])
    /\ m_hash[k].cas = cas /\ CasInRange(k)
    /\ Put(k, set(m_hash[k], e))

TextIncr(w, k) == Increment(w, k, 0)

TextTouch(w, k, e) == Touch(w, k, e)

TextDelete(w, k) == Delete(w, k, 0)

TextLock(w, k) == Lock(w, k)

TextUnlock(w, k) == Unlock(w, k)

TextGet(w, k) == Get(w, k)

-----------------------------------------------------------------------------
(* The once-a-second callback of the reactor and the GC thread *)

FlushDue(t) == flush_time # 0 /\ flush_time <= t

\* A due flush starts the GC thread; otherwise memory, new slaves or the GC
\* interval may.  The thread decides by the time of day, which g_current_time
\* follows, whether it flushes.
on_master_interval(t) ==
    /\ ReactorFree /\ now <= t /\ now' = t
    /\ \/ gc.on /\ UNCHANGED gc
       \/ ~gc.on /\ ~FlushDue(t) /\ UNCHANGED gc
       \/ /\ ~gc.on
          /\ \E real \in t..MaxTime, e \in EvictAges :
                gc' = [on |-> TRUE, todo |-> Keys, flush |-> FlushDue(real),
                       evict |-> IF FlushDue(real) THEN 0 ELSE e]
    /\ UNCHANGED <<m_hash, m_locks, sockVars, workVars, flush_time, thrown>>

\* Mutation: a flush removes locked objects too.
CollectLocked(o) == gc.flush \/ expired(o)

\* The predicate of gc_thread::gc: is the object removed?
Collect(o) ==
    \/ gc.flush /\ ~locked(o)
    \/ gc.evict > 0 /\ o.gc_old >= gc.evict /\ ~locked(o)
    \/ expired(o)

\* One object; the buckets are locked one after the other.
gc_visit(k) ==
    /\ ~thrown /\ gc.on /\ k \in gc.todo
    /\ m_hash' = [m_hash EXCEPT ![k] = IF ~Exists(k) \/ Collect(@) THEN NoObject
                                       ELSE survive(@)]
    /\ gc' = [gc EXCEPT !.todo = @ \ {k}]
    /\ UNCHANGED <<m_locks, sockVars, workVars, now, flush_time, thrown>>

\* A flush is over: the request is forgotten, whichever it is by now.
gc_end ==
    /\ ~thrown /\ gc.on /\ gc.todo = {}
    /\ gc' = NoGC
    /\ flush_time' = IF gc.flush THEN 0 ELSE flush_time
    /\ UNCHANGED <<m_hash, m_locks, sockVars, workVars, now, thrown>>

-----------------------------------------------------------------------------
CasArgs == 0..MaxCas

cmd_bin(w, k) ==
    \/ Get(w, k)
    \/ \E e \in Exptimes : GaT(w, k, e)
    \/ \E e \in Exptimes : Touch(w, k, e)
    \/ \E cmd \in {"set", "add", "replace"}, cas \in CasArgs, e \in Exptimes :
          Store(w, k, cmd, cas, e)
    \/ \E cas \in CasArgs : Append(w, k, cas) \/ Increment(w, k, cas)
    \/ \E e \in Exptimes : IncrementCreate(w, k, e)
    \/ \E cas \in CasArgs : Delete(w, k, cas)
    \/ Lock(w, k)
    \/ LaG(w, k)
    \/ \E e \in Exptimes : LaGTouch(w, k, e)
    \/ Unlock(w, k)
    \/ \E cas \in CasArgs, e \in Exptimes : RaU(w, k, cas, e)

cmd_text(w, k) ==
    \/ TextGet(w, k)
    \/ \E e \in Exptimes : TextTouch(w, k, e)
    \/ TextAppend(w, k)
    \/ TextIncr(w, k)
    \/ TextDelete(w, k)
    \/ TextLock(w, k)
    \/ TextUnlock(w, k)
    \/ \E cmd \in {"set", "add", "replace"}, e \in Exptimes :
          TextStore(w, k, cmd, e)
    \/ \E cas \in CasArgs, e \in Exptimes : TextCas(w, k, cas, e)

Worker(w) ==
    \/ SetContext(w) \/ RecvOK(w) \/ RecvAgain(w) \/ RecvNone(w)
    \/ RecvReset(w) \/ EndBatch(w) \/ TooLarge(w)
    \/ \E k \in Keys : unlock_all(w, k)
    \/ Unlocked(w)
    \/ \E k \in Keys : cmd_bin(w, k)
    \/ \E k \in Keys : cmd_text(w, k)
    \/ UnlockAll(w)
    \/ Quit(w)
    \/ \E t \in 0..MaxTime : Flush(w, t)

Reactor(c) ==
    \/ \E f \in Fds : make_memcache_socket(c, f)
    \/ \E w \in Workers : on_readable(c, w)
    \/ invalidate_and_close(c)
    \/ remove_resource(c)
    \/ fix_garbage(c)
    \/ Destroy(c)
    \/ \E k \in Keys : DestroyUnlock(c, k)
    \/ Destroyed(c)

Next ==
    \/ \E w \in Workers : Worker(w)
    \/ \E c \in Conns : Reactor(c)
    \/ \E t \in now..MaxTime : on_master_interval(t)
    \/ \E k \in Keys : gc_visit(k)
    \/ gc_end

Spec == Init /\ [][Next]_vars

DestructorStep(c) == Destroyed(c) \/ \E k \in Keys : DestroyUnlock(c, k)

GCStep == gc_end \/ \E k \in Keys : gc_visit(k)

\* From some time on no worker runs a job, and neither a flush nor memory pressure
\* calls for one GC run right after the other.
LoadSubsides ==
    <>[](/\ \A w \in Workers : pc[w] = "idle"
         /\ ~FlushDue(now) /\ ~gc.flush /\ gc.evict = 0)

\* GC runs and destructors go on, and every turn of poll() serves the removal
\* requests.  The reactor destroys what it has removed only after it has seen every
\* worker idle, and begins to look for that only while there is no GC thread: this is
\* promised only if the load subsides, and then between the periodic GC runs
\* (GarbageIsDestroyed of Reclaim has the waiting in full).  What may keep an action
\* of the reactor waiting again and again is the destructor of another socket.
Fairness ==
    /\ WF_vars(GCStep)
    /\ \A c \in Conns : /\ SF_vars(st[c] = "gone" /\ remove_resource(c))
                        /\ WF_vars(DestructorStep(c))
    /\ LoadSubsides => \A c \in Conns : SF_vars(~gc.on /\ Destroy(c))

FairSpec == Spec /\ Fairness

-----------------------------------------------------------------------------
(* Properties *)

\* The two records of a lock agree: a key in the m_locks of a socket names an
\* object that is in the hash and carries that socket's descriptor, every
\* locked object is in the m_locks of some socket, and of only one.  So the
\* references in m_locks never dangle and no lock outlives its socket, even
\* when a new connection is given the descriptor of a socket that still waits
\* for its destruction.
LockOwnership ==
    /\ \A c \in Conns : \A k \in m_locks[c] :
          Exists(k) /\ m_hash[k].lock = fd[c] /\ st[c] # "free"
    /\ \A k \in Keys : locked(m_hash[k]) => \E c \in Conns : k \in m_locks[c]
    /\ \A c, d \in Conns : c # d => m_locks[c] \cap m_locks[d] = {}

Writes(k) == m_hash'[k].cas # m_hash[k].cas

\* Two sockets have one descriptor number: one of them closed it, is not
\* destroyed yet, and the kernel has given the number to the other.
ShareFd(c, d) ==
    c # d /\ fd[c] = fd[d] /\ {st[c], st[d]} \cap {"closed", "dead"} # {}

\* While an object is locked, its data changes and it leaves the hash only by
\* a command of the connection that holds the lock, or of one that shares the
\* holder's descriptor number because one of the two sockets is closed; the GC
\* thread, expiration, flush_all and eviction never touch it.
LockedIsProtected ==
    [][\A c \in Conns : \A k \in m_locks[c] : Writes(k) =>
          \E w \in Workers : /\ pc[w] = "exec"
                             /\ job[w] = c \/ ShareFd(c, job[w])]_vars

\* The logic_errors of object::unlock and remove_lock have two causes only: a
\* job that walks the locks of a socket which was invalidated before the job
\* could set its context, and two sockets with one descriptor number of which
\* one is closed and one holds locks.
ThrowIsExplained ==
    [][~thrown /\ thrown' =>
          \E w \in Workers, d \in Conns :
             /\ job[w] = d
             /\ \/ st[d] # "open" /\ g_context[w] # fd[d]
                \/ \E c \in Conns : m_locks[c] # {} /\ ShareFd(c, d)]_vars

\* If the load subsides, the locks of a client whose socket is invalidated are
\* released, whether a worker has invalidated it or the reactor has removed it on
\* EPOLLHUP or EPOLLERR, and those included that its last job takes after that.
LocksAreReleased ==
    LoadSubsides => \A c \in Conns :
        st[c] \in {"gone", "removed", "closed"} ~> m_locks[c] = {} \/ thrown

\* Time does not run backwards for an object: once expired it is live again
\* only if a command overwrites it, if LaG locks it, or if the flush request
\* that hid it is replaced or forgotten.  Touch, GaT and the other commands
\* that keep the data never revive it, nor does the unlocking of an object.
ExpiredStaysExpired ==
    [][\A k \in Keys : Exists(k) /\ expired(m_hash[k]) /\ ~expired(m_hash[k])' =>
          \/ Writes(k)
          \/ m_hash[k].lock # m_hash'[k].lock
          \/ flush_time # flush_time']_vars
=============================================================================
