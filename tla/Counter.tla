------------------------------ MODULE Counter ------------------------------
(***************************************************************************)
(* The counter protocol: named semaphores kept in a hash map, the          *)
(* connections that acquire and release them, and the GC thread that       *)
(* removes the ones nobody has used since the last statistics boundary.    *)
(*                                                                         *)
(* A handler given to hash_map::apply runs under the lock of its bucket,   *)
(* so each command is one step.  release_all takes the bucket lock once    *)
(* per name, so it is a sequence of steps, interleaved with the commands   *)
(* of the other connections and with the GC thread.                        *)
(***************************************************************************)
EXTENDS Integers, FiniteSets, Functions

CONSTANTS
    Names,           \* semaphore names
    Conns,           \* slots for counter_socket objects
    Width,           \* bits of std::uint32_t
    Requests,        \* name -> the <<resources, maximum>> pairs clients send
    Releases,        \* name -> the resource counts clients release
    StatInterval,    \* g_config.counter().stat_interval()
    MaxConnections,  \* g_config.counter().max_connections(), 0 is unlimited
    Buckets,         \* number of buckets of the hash map
    BucketOf,        \* the bucket of each name
    StartTime,       \* g_current_time when the server starts
    MaxTime          \* bound: the clock stops here

Mod == 2 ^ Width

(* counter.cpp rejects an Acquire whose resources are 0 or exceed maximum. *)
ASSUME CounterAssumption ==
    /\ Width \in Nat \ {0} /\ Mod \in Nat \ {0} /\ StatInterval \in Nat \ {0}
    /\ IsFiniteSet(Conns)
    /\ MaxConnections \in Nat /\ Buckets \in Nat \ {0}
    /\ MaxTime \in Nat /\ StartTime \in 0..MaxTime
    /\ BucketOf \in [Names -> 1..Buckets]
    /\ \A n \in Names : \A q \in Requests[n] : q[2] \in 1..(Mod - 1) /\ q[1] \in 1..q[2]
    /\ \A n \in Names : Releases[n] \subseteq 0..(Mod - 1)

VARIABLES
    m_hash,      \* name -> object, or NoObject
    m_acquired,  \* connection -> m_acquired_resources
    phase,       \* connection -> where the socket is in its life
    todo,        \* connection -> names a running release_all has not visited
    draining,    \* connection -> is release_all running?
    now,         \* g_current_time
    gc,          \* "none", "running" or "done": the GC thread
    gcpos,       \* bucket the GC thread visits next
    m_last_gc,   \* handler::m_last_gc
    thrown       \* a logic_error ended the process

vars == <<m_hash, m_acquired, phase, todo, draining, now, gc, gcpos,
          m_last_gc, thrown>>

connVars == <<phase, todo, draining>>
gcVars == <<gc, gcpos, m_last_gc>>

NoObject == [consumption |-> 0, max_consumption |-> 0, last_updated |-> -1]

Object == [consumption : 0..(Mod - 1), max_consumption : 0..(Mod - 1),
           last_updated : 0..MaxTime]

Exists(n) == m_hash[n] # NoObject

\* What m_acquired_resources maps names to.
Table == UNION {[D -> 0..(Mod - 1)] : D \in SUBSET Names}

\* open: no job.  busy: a worker runs m_recvjob.  ending: the same, but the socket
\* has been invalidated meanwhile.  eof: the peer has half-closed.  deny: to be
\* closed once release_all is done.  gone: invalidated, no job but release_all.
\* dead: inside the destructor.
Phases == {"free", "open", "busy", "ending", "eof", "deny", "gone", "dead"}

TypeOK ==
    /\ m_hash \in [Names -> Object \cup {NoObject}]
    /\ m_acquired \in [Conns -> Table]
    /\ phase \in [Conns -> Phases]
    /\ todo \in [Conns -> SUBSET Names]
    /\ draining \in [Conns -> BOOLEAN]
    /\ now \in 0..MaxTime
    /\ gc \in {"none", "running", "done"} /\ gcpos \in 1..(Buckets + 1)
    /\ m_last_gc \in 0..MaxTime
    /\ thrown \in BOOLEAN

EmptyMap == [n \in {} |-> 0]

Init ==
    /\ m_hash = [n \in Names |-> NoObject]
    /\ m_acquired = [c \in Conns |-> EmptyMap]
    /\ phase = [c \in Conns |-> "free"]
    /\ todo = [c \in Conns |-> {}]
    /\ draining = [c \in Conns |-> FALSE]
    /\ now = StartTime
    /\ gc = "none" /\ gcpos = 1 /\ m_last_gc = 0
    /\ thrown = FALSE

-----------------------------------------------------------------------------
(* counter::object *)

nearest_boundary(t) == (t \div StatInterval) * StatInterval

Stale(o) == o.last_updated < nearest_boundary(now)

MaxOf(a, b) == IF a < b THEN b ELSE a

NewObject(resources) ==
    [consumption |-> resources, max_consumption |-> resources,
     last_updated |-> now]

\* The test is made on the wrapped 32-bit sum.
CanAcquire(o, resources, maximum) ==
    (o.consumption + resources) % Mod <= maximum

\* Mutation: the maximum of the previous interval is kept.
AcquireNoReset(o, resources) ==
    LET sum == (o.consumption + resources) % Mod
    IN  [consumption |-> sum, max_consumption |-> MaxOf(o.max_consumption, sum),
         last_updated |-> now]

acquire(o, resources) ==
    LET sum == (o.consumption + resources) % Mod
    IN  [consumption |-> sum,
         max_consumption |-> IF Stale(o) THEN sum
                             ELSE MaxOf(o.max_consumption, sum),
         last_updated |-> now]

CanRelease(o, resources) == resources <= o.consumption

release(o, resources) ==
    [consumption |-> o.consumption - resources,
     max_consumption |-> IF Stale(o) THEN o.consumption
                         ELSE o.max_consumption,
     last_updated |-> now]

max_consumption(o) == IF Stale(o) THEN o.consumption ELSE o.max_consumption

\* Mutation: the consumption is not looked at.
DeletableInUse(o) == Stale(o)

deletable(o) == o.consumption = 0 /\ Stale(o)

-----------------------------------------------------------------------------
(* counter_socket: the table of what a connection has acquired *)

on_acquire(c, n, resources) ==
    LET a == m_acquired[c]
    IN  IF n \in DOMAIN a
        THEN [a EXCEPT ![n] = (@ + resources) % Mod]
        ELSE [x \in DOMAIN a \cup {n} |-> IF x = n THEN resources ELSE a[x]]

HasAcquired(c, n, resources) ==
    n \in DOMAIN m_acquired[c] /\ resources <= m_acquired[c][n]

on_release(c, n, resources) ==
    LET a == m_acquired[c]
    IN  IF a[n] = resources THEN Restrict(a, DOMAIN a \ {n})
        ELSE [a EXCEPT ![n] = @ - resources]

\* A job executes all the requests it has received, also when the socket is
\* invalidated after receive.
Serving(c) == phase[c] \in {"busy", "ending"} /\ ~draining[c] /\ ~thrown

\* make_counter_socket: refused once curr_connections has reached the limit.
Valid(c) == phase[c] \in {"open", "busy", "eof", "deny"}

curr_connections == Cardinality({c \in Conns : Valid(c)})

make_counter_socket(c) ==
    /\ ~thrown /\ phase[c] = "free"
    /\ MaxConnections = 0 \/ curr_connections < MaxConnections
    /\ phase' = [phase EXCEPT ![c] = "open"]
    /\ UNCHANGED <<m_hash, m_acquired, todo, draining, now, gcVars, thrown>>

\* The reactor posts m_recvjob to an idle worker.
on_readable(c) ==
    /\ ~thrown /\ phase[c] = "open"
    /\ phase' = [phase EXCEPT ![c] = "busy"]
    /\ UNCHANGED <<m_hash, m_acquired, todo, draining, now, gcVars, thrown>>

\* There is nothing more to receive: the job ends and m_busy is cleared.
RecvAgain(c) ==
    /\ ~thrown /\ phase[c] = "busy"
    /\ phase' = [phase EXCEPT ![c] = "open"]
    /\ UNCHANGED <<m_hash, m_acquired, todo, draining, now, gcVars, thrown>>

\* An Acquire that finds the object full changes nothing.
cmd_acquire(c, n, resources, maximum) ==
    /\ Serving(c)
    /\ Exists(n) => CanAcquire(m_hash[n], resources, maximum)
    /\ m_acquired' = [m_acquired EXCEPT ![c] = on_acquire(c, n, resources)]
    /\ m_hash' = [m_hash EXCEPT ![n] = IF Exists(n) THEN acquire(@, resources)
                                       ELSE NewObject(resources)]
    /\ UNCHANGED <<connVars, now, gcVars, thrown>>

\* The table is updated before the object, which may refuse and throw.
cmd_release(c, n, resources) ==
    /\ Serving(c)
    /\ Exists(n) /\ HasAcquired(c, n, resources)
    /\ m_acquired' = [m_acquired EXCEPT ![c] = on_release(c, n, resources)]
    /\ IF CanRelease(m_hash[n], resources)
       THEN m_hash' = [m_hash EXCEPT ![n] = release(@, resources)]
            /\ UNCHANGED thrown
       ELSE thrown' = TRUE /\ UNCHANGED m_hash
    /\ UNCHANGED <<connVars, now, gcVars>>

-----------------------------------------------------------------------------
(* counter_socket::release_all, one bucket lock at a time *)

StartReleaseAll(c, p) ==
    /\ phase' = [phase EXCEPT ![c] = p]
    /\ draining' = [draining EXCEPT ![c] = TRUE]
    /\ todo' = [todo EXCEPT ![c] = DOMAIN m_acquired[c]]
    /\ UNCHANGED <<m_hash, m_acquired, now, gcVars, thrown>>

\* One turn of the loop: the object must be there and must accept.
ReleaseOne(c, n) ==
    /\ ~thrown /\ draining[c] /\ n \in todo[c]
    /\ IF Exists(n) /\ CanRelease(m_hash[n], m_acquired[c][n])
       THEN /\ m_hash' = [m_hash EXCEPT ![n] = release(@, m_acquired[c][n])]
            /\ todo' = [todo EXCEPT ![c] = @ \ {n}]
            /\ UNCHANGED thrown
       ELSE thrown' = TRUE /\ UNCHANGED <<m_hash, todo>>
    /\ UNCHANGED <<m_acquired, phase, draining, now, gcVars>>

AfterReleaseAll(p) == CASE p = "dead" -> "free" [] p = "deny" -> "gone" [] OTHER -> p

\* Mutation: the table is not cleared.
FinishWithoutClear(c) ==
    /\ ~thrown /\ draining[c] /\ todo[c] = {}
    /\ draining' = [draining EXCEPT ![c] = FALSE]
    /\ phase' = [phase EXCEPT ![c] = AfterReleaseAll(@)]
    /\ UNCHANGED <<m_hash, m_acquired, todo, now, gcVars, thrown>>

\* m_acquired_resources.clear(); a destructor then frees the slot, and after a
\* request that is too large the socket is invalidated.
FinishReleaseAll(c) ==
    /\ ~thrown /\ draining[c] /\ todo[c] = {}
    /\ m_acquired' = [m_acquired EXCEPT ![c] = EmptyMap]
    /\ draining' = [draining EXCEPT ![c] = FALSE]
    /\ phase' = [phase EXCEPT ![c] = AfterReleaseAll(@)]
    /\ UNCHANGED <<m_hash, todo, now, gcVars, thrown>>

\* recv returned 0: the peer has half-closed; the socket stays valid.
RecvNone(c) == Serving(c) /\ phase[c] = "busy" /\ StartReleaseAll(c, "eof")

\* An incomplete request longer than MAX_REQUEST_LENGTH.
TooLarge(c) ==
    Serving(c) /\ StartReleaseAll(c, IF phase[c] = "busy" THEN "deny" ELSE "gone")

\* recv failed or the socket was invalid already; a job may still be posted for
\* a socket that a worker has invalidated (with an empty table it does nothing).
RecvReset(c) ==
    /\ \/ Serving(c)
       \/ ~thrown /\ ~draining[c] /\ phase[c] = "gone" /\ DOMAIN m_acquired[c] # {}
    /\ StartReleaseAll(c, "gone")

\* The socket is invalidated at any time, by the reactor on EPOLLHUP or EPOLLERR
\* or by a send that fails.  A job goes on with what it has received.
Hangup(c) ==
    /\ ~thrown /\ Valid(c)
    /\ phase' = [phase EXCEPT ![c] = IF @ = "busy" THEN "ending" ELSE "gone"]
    /\ UNCHANGED <<m_hash, m_acquired, todo, draining, now, gcVars, thrown>>

\* Mutation: the destructor does not call release_all.
DestroyOnly(c) ==
    /\ ~thrown /\ phase[c] = "gone" /\ ~draining[c]
    /\ phase' = [phase EXCEPT ![c] = "free"]
    /\ UNCHANGED <<m_hash, m_acquired, todo, draining, now, gcVars, thrown>>

\* The reactor destroys the socket once no worker runs a job of it.
Destroy(c) ==
    /\ ~thrown /\ phase[c] = "gone" /\ ~draining[c]
    /\ StartReleaseAll(c, "dead")

-----------------------------------------------------------------------------
(* The GC thread and the once-a-second callback of the reactor *)

gc_ready(t, last) == last < nearest_boundary(t)

\* The callback sets g_current_time; gc_ready joins a finished thread first.
on_master_interval(t) ==
    /\ ~thrown /\ now <= t /\ now' = t
    /\ m_last_gc' = IF gc = "done" THEN t ELSE m_last_gc
    /\ IF gc # "running" /\ gc_ready(t, m_last_gc')
       THEN gc' = "running" /\ gcpos' = 1
       ELSE gc' = (IF gc = "done" THEN "none" ELSE gc) /\ UNCHANGED gcpos
    /\ UNCHANGED <<m_hash, m_acquired, connVars, thrown>>

\* One bucket, under its lock.
gc_bucket ==
    /\ ~thrown /\ gc = "running" /\ gcpos <= Buckets
    /\ m_hash' = [n \in Names |->
                    IF BucketOf[n] = gcpos /\ Exists(n) /\ deletable(m_hash[n])
                    THEN NoObject ELSE m_hash[n]]
    /\ gcpos' = gcpos + 1
    /\ UNCHANGED <<m_acquired, connVars, now, gc, m_last_gc, thrown>>

gc_end ==
    /\ ~thrown /\ gc = "running" /\ gcpos > Buckets
    /\ gc' = "done"
    /\ UNCHANGED <<m_hash, m_acquired, connVars, now, gcpos, m_last_gc, thrown>>

-----------------------------------------------------------------------------
Connection(c) ==
    \/ make_counter_socket(c) \/ on_readable(c) \/ RecvAgain(c)
    \/ \E n \in Names : \E q \in Requests[n] : cmd_acquire(c, n, q[1], q[2])
    \/ \E n \in Names : \E r \in Releases[n] : cmd_release(c, n, r)
    \/ RecvNone(c)
    \/ TooLarge(c)
    \/ RecvReset(c)
    \/ Hangup(c)
    \/ Destroy(c)
    \/ \E n \in Names : ReleaseOne(c, n)
    \/ FinishReleaseAll(c)

Next ==
    \/ \E c \in Conns : Connection(c)
    \/ \E t \in now..MaxTime : on_master_interval(t)
    \/ gc_bucket
    \/ gc_end

Spec == Init /\ [][Next]_vars

\* From some time on no worker runs a job: the clients of all protocols pause.
Working(c) == phase[c] \in {"busy", "ending"} \/ (draining[c] /\ phase[c] # "dead")

LoadSubsides == <>[](\A c \in Conns : ~Working(c))

\* A release_all that has begun goes on.  The reactor destroys an invalidated
\* socket only after it has seen every worker idle, so this is promised only if the
\* load subsides (GarbageIsDestroyed of Reclaim has the waiting in full).
Fairness ==
    /\ \A c \in Conns :
          WF_vars(FinishReleaseAll(c) \/ \E n \in Names : ReleaseOne(c, n))
    /\ LoadSubsides => \A c \in Conns : WF_vars(Destroy(c))

FairSpec == Spec /\ Fairness

-----------------------------------------------------------------------------
(* Properties *)

\* What connection c still holds of n: a release_all that has visited n has
\* given it back although the table is cleared only at the end.
Held(c, n) ==
    IF n \in DOMAIN m_acquired[c] /\ (draining[c] => n \in todo[c])
    THEN m_acquired[c][n] ELSE 0

\* What all connections hold of n: the number of units <<c, i>>, where connection
\* c holds the units 1 to Held(c, n).
Units(n) == {u \in Conns \X (1..Mod) : u[2] <= Held(u[1], n)}

HeldByAll(n) == Cardinality(Units(n))

\* If the load subsides, the resources of a connection that goes away are returned,
\* those included that the rest of its last batch acquires after the socket has been
\* invalidated: the socket is destroyed and holds nothing by then, unless a
\* logic_error ends the process before.
GoneIsReleased ==
    LoadSubsides => \A c \in Conns :
        phase[c] \in {"ending", "gone"} ~>
            (phase[c] = "free" /\ \A n \in Names : Held(c, n) = 0) \/ thrown
=============================================================================
