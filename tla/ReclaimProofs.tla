--------------------------- MODULE ReclaimProofs ---------------------------
(***************************************************************************)
(* The reactor of Reclaim destroys no socket that is still pointed to,     *)
(* closes no descriptor in use, confuses no removal request and forgets no *)
(* new slave, for any sets of sockets, descriptors and workers.            *)
(***************************************************************************)
EXTENDS Reclaim, TLAPS

\* An idle worker has no pointers; there is no GC thread to be joined only if
\* it left none; a thread inside with_fd uses a socket it knows.
ThreadsOK ==
    /\ \A w \in Workers : at[w] = "idle" => refs[w] = {} /\ serves[w] = None
    /\ ~m_gc_thread => refs[GC] = {} /\ gc_new = {} /\ at[GC] = "idle"
    /\ \A t \in Threads :
          /\ using[t] # None <=> at[t] \in {"in", "drop"}
          /\ using[t] # None => using[t] \in refs[t]

\* Only registered sockets are valid and only removed ones are closed; sockets
\* whose descriptors are open have different ones.
ObjectsOK ==
    /\ \A r \in Res : /\ m_valid[r] => st[r] = "registered"
                      /\ st[r] = "registered" => ~m_closed[r]
                      /\ st[r] # "free" => fd[r] \in Fds
    /\ \A r, s \in Res : st[r] # "free" /\ ~m_closed[r] /\ st[s] # "free"
                         /\ ~m_closed[s] /\ fd[r] = fd[s] => r = s

\* The socket a thread uses is not closed.
UsedOK == \A t \in Threads : using[t] # None => ~m_closed[using[t]]

\* The sockets that the handler, the GC thread and the requests point to.
Pointed ==
    m_slaves \cup m_new_slaves \cup gc_new \cup refs[GC]
        \cup ({q.slave : q \in m_requests} \ {None})

\* Workers point to live sockets.  The others point to none that waits for its
\* destruction in m_garbage_copy, and from the moment invalid slaves leave the
\* list to the end of the callback no slave is garbage.
PointersOK ==
    /\ \A w \in Workers : \A r \in refs[w] : st[r] # "free"
    /\ \A r \in Pointed : st[r] \in {"registered", "garbage"}
    /\ cb \in {"gc", "reclaim"} => \A r \in m_slaves : st[r] = "registered"

\* Whatever is in m_garbage_copy has a request for gc() that destroys it, and
\* no worker that has been idle since the request points to it.
GarbageOK ==
    /\ \A r \in Res : st[r] = "fixed" => \E q \in m_requests : q.slave = None
    /\ \A q \in m_requests : q.slave = None =>
          \A w \in q.flags : \A r \in refs[w] : st[r] # "fixed"

\* A removal request names a registered socket that is not valid, and so does a
\* thread about to make one: every socket is named at most once.
DropOK ==
    /\ DropRequestsAreCurrent
    /\ \A t \in Threads : at[t] = "drop" =>
          /\ st[using[t]] = "registered" /\ ~m_valid[using[t]]
          /\ fd[using[t]] \notin m_drop_req
    /\ \A t, u \in Threads :
          at[t] = "drop" /\ at[u] = "drop" /\ using[t] = using[u] => t = u

\* A valid new slave is on the list, and the clients' jobs in progress know it:
\* all of them once the request is complete, before that those of the workers
\* that have been idle since.
JoinOK ==
    /\ \A s \in m_new_slaves \cup gc_new : m_valid[s] =>
          /\ s \in m_slaves
          /\ \A w \in Workers : serves[w] # None => s \in refs[w]
    /\ \A q \in m_requests : q.slave # None /\ m_valid[q.slave] =>
          /\ q.slave \in m_slaves
          /\ \A w \in q.flags : serves[w] # None => q.slave \in refs[w]

\* The inductive invariant.
IInv ==
    /\ TypeOK /\ ThreadsOK /\ ObjectsOK /\ UsedOK /\ PointersOK /\ GarbageOK
    /\ DropOK /\ JoinOK

-----------------------------------------------------------------------------
(* The threads *)

\* The threads are the workers and the GC thread.
LEMMA ThreadKinds ==
    /\ GC \in Threads /\ Workers \subseteq Threads /\ GC \notin Workers
    /\ None \notin Res
BY ReclaimAssumption, Zenon DEF Threads

\* A step that leaves the sockets alone.
LEMMA FrameObjects ==
    ASSUME ObjectsOK, UNCHANGED <<st, m_valid, m_closed, fd>>
    PROVE  ObjectsOK'
BY Zenon DEF ObjectsOK

\* The same for the pointers.
LEMMA FramePointers ==
    ASSUME PointersOK, UNCHANGED <<st, refs, cb, m_slaves, m_new_slaves, gc_new,
                                   m_requests>>
    PROVE  PointersOK'
BY Zenon DEF PointersOK, Pointed

\* The same for m_garbage_copy.
LEMMA FrameGarbage ==
    ASSUME GarbageOK, UNCHANGED <<st, m_requests, refs>>
    PROVE  GarbageOK'
BY Zenon DEF GarbageOK

\* The same for the new slaves.
LEMMA FrameJoin ==
    ASSUME JoinOK, UNCHANGED <<m_valid, m_slaves, m_new_slaves, gc_new, m_requests,
                               serves, refs>>
    PROVE  JoinOK'
BY Zenon DEF JoinOK

\* A thread enters with_fd.
LEMMA EnterPreserves ==
    ASSUME IInv, NEW t \in Threads, NEW r \in Res, EnterWithFd(t, r)
    PROVE  IInv'
<1>1. /\ at[t] = "job" /\ r \in refs[t] /\ m_valid[r]
      /\ at' = [at EXCEPT ![t] = "in"] /\ using' = [using EXCEPT ![t] = r]
      /\ UNCHANGED <<st, kind, m_valid, m_closed, fd, refs, serves, m_drop_req,
                     m_slaves, m_new_slaves, gc_new, m_requests, m_gc_thread,
                     m_consecutive_gcs, cb, joins, thrown>>
  BY Zenon DEF EnterWithFd, objVars, slaveVars, otherVars
<1>2. /\ at'[t] = "in" /\ using'[t] = r
      /\ \A u \in Threads \ {t} : at'[u] = at[u] /\ using'[u] = using[u]
  BY <1>1, Zenon DEF IInv, TypeOK
<1>3. TypeOK'
  BY <1>1, Zenon DEF IInv, TypeOK
<1>4. ThreadsOK'
  <2>1. \A w \in Workers : at'[w] = "idle" => refs[w] = {} /\ serves[w] = None
    BY <1>2, ThreadKinds, Zenon DEF IInv, ThreadsOK
  <2>2. ~m_gc_thread => refs[GC] = {} /\ gc_new = {} /\ at'[GC] = "idle"
    BY <1>1, <1>2, ThreadKinds, Zenon DEF IInv, ThreadsOK
  <2>3. \A u \in Threads : /\ using'[u] # None <=> at'[u] \in {"in", "drop"}
                           /\ using'[u] # None => using'[u] \in refs[u]
    BY <1>1, <1>2, ThreadKinds DEF IInv, ThreadsOK
  <2> QED
    BY <1>1, <2>1, <2>2, <2>3, Zenon DEF ThreadsOK
<1>5. UsedOK'
  <2>1. ~m_closed[r]
    BY <1>1, Zenon DEF IInv, ObjectsOK
  <2>2. \A u \in Threads : u # t /\ using[u] # None => ~m_closed[using[u]]
    BY Zenon DEF IInv, UsedOK
  <2> QED
    BY <1>1, <1>2, <2>1, <2>2 DEF UsedOK
<1>6. DropOK'
  BY <1>1, <1>2 DEF IInv, DropOK, DropRequestsAreCurrent
<1>7. ObjectsOK' /\ PointersOK' /\ GarbageOK' /\ JoinOK'
  BY <1>1, FrameObjects, FramePointers, FrameGarbage, FrameJoin, Zenon DEF IInv
<1> QED
  BY <1>3, <1>4, <1>5, <1>6, <1>7, Zenon DEF IInv

\* Sockets may become invalid and jobs may end: new slaves miss nothing.
LEMMA JoinShrinks ==
    ASSUME TypeOK, JoinOK, UNCHANGED <<m_slaves, m_new_slaves, gc_new, m_requests>>,
           \A r \in Res : m_valid'[r] => m_valid[r],
           \A w \in Workers : serves'[w] # None => /\ serves[w] # None
                                                   /\ refs'[w] = refs[w]
    PROVE  JoinOK'
<1>1. m_new_slaves \cup gc_new \subseteq Res
  BY Zenon DEF TypeOK
<1>2. \A q \in m_requests : /\ q.slave # None => q.slave \in Res
                            /\ q.flags \subseteq Workers
  BY DEF TypeOK, Request
<1>3. \A s \in m_new_slaves' \cup gc_new' : m_valid'[s] =>
         /\ s \in m_slaves'
         /\ \A w \in Workers : serves'[w] # None => s \in refs'[w]
  BY <1>1 DEF JoinOK
<1>4. \A q \in m_requests' : q.slave # None /\ m_valid'[q.slave] =>
         /\ q.slave \in m_slaves'
         /\ \A w \in q.flags : serves'[w] # None => q.slave \in refs'[w]
  BY <1>2 DEF JoinOK
<1> QED
  BY <1>3, <1>4, Zenon DEF JoinOK

\* A thread leaves with_fd, and asks for the removal if it has invalidated.
LEMMA LeavePreserves ==
    ASSUME IInv, NEW t \in Threads, LeaveWithFd(t)
    PROVE  IInv'
<1>1. /\ at[t] \in {"in", "drop"}
      /\ at' = [at EXCEPT ![t] = "job"] /\ using' = [using EXCEPT ![t] = None]
      /\ m_drop_req' = IF at[t] = "drop" THEN m_drop_req \cup {fd[using[t]]}
                       ELSE m_drop_req
      /\ UNCHANGED <<st, kind, m_valid, m_closed, fd, refs, serves,
                     m_slaves, m_new_slaves, gc_new, m_requests, m_gc_thread,
                     m_consecutive_gcs, cb, joins, thrown>>
  BY Zenon DEF LeaveWithFd, objVars, slaveVars, otherVars
<1>2. /\ at'[t] = "job" /\ using'[t] = None
      /\ \A u \in Threads \ {t} : at'[u] = at[u] /\ using'[u] = using[u]
  BY <1>1, Zenon DEF IInv, TypeOK
<1>3. using[t] \in Res
  BY <1>1, Zenon DEF IInv, TypeOK, ThreadsOK
<1>4. at[t] = "drop" => /\ st[using[t]] = "registered" /\ ~m_valid[using[t]]
                        /\ fd[using[t]] \in Fds
  BY <1>3, Zenon DEF IInv, DropOK, ObjectsOK
<1>5. TypeOK'
  BY <1>1, <1>4, Zenon DEF IInv, TypeOK
<1>6. ThreadsOK'
  <2>1. \A w \in Workers : at'[w] = "idle" => refs[w] = {} /\ serves[w] = None
    BY <1>2, ThreadKinds, Zenon DEF IInv, ThreadsOK
  <2>2. ~m_gc_thread => refs[GC] = {} /\ gc_new = {} /\ at'[GC] = "idle"
    BY <1>1, <1>2, ThreadKinds, Zenon DEF IInv, ThreadsOK
  <2>3. \A u \in Threads : /\ using'[u] # None <=> at'[u] \in {"in", "drop"}
                           /\ using'[u] # None => using'[u] \in refs[u]
    BY <1>2 DEF IInv, ThreadsOK
  <2> QED
    BY <1>1, <2>1, <2>2, <2>3, Zenon DEF ThreadsOK
<1>7. UsedOK'
  BY <1>1, <1>2, Zenon DEF IInv, UsedOK
<1>8. DropOK'
  <2>1. DropRequestsAreCurrent'
    BY <1>1, <1>3, <1>4, Zenon DEF IInv, DropOK, DropRequestsAreCurrent
  <2>2. ASSUME NEW u \in Threads, at'[u] = "drop"
        PROVE  /\ u # t /\ at[u] = "drop" /\ using'[u] = using[u]
               /\ st[using[u]] = "registered" /\ ~m_valid[using[u]]
               /\ fd[using[u]] \notin m_drop_req
    BY <1>2, <2>2, Zenon DEF IInv, DropOK
  <2>3. ASSUME NEW u \in Threads, at'[u] = "drop", at[t] = "drop"
        PROVE  fd[using[u]] # fd[using[t]]
    <3>1. using[u] \in Res
      BY <2>2, <2>3, Zenon DEF IInv, TypeOK, ThreadsOK
    <3>2. using[u] # using[t]
      BY <2>2, <2>3, Zenon DEF IInv, DropOK
    <3> QED
      BY <1>3, <1>4, <2>2, <2>3, <3>1, <3>2 DEF IInv, ObjectsOK
  <2>4. \A u \in Threads : at'[u] = "drop" =>
           /\ st[using'[u]] = "registered" /\ ~m_valid[using'[u]]
           /\ fd[using'[u]] \notin m_drop_req'
    BY <1>1, <2>2, <2>3
  <2>5. \A u, v \in Threads :
          at'[u] = "drop" /\ at'[v] = "drop" /\ using'[u] = using'[v] => u = v
    BY <2>2 DEF IInv, DropOK
  <2> QED
    BY <1>1, <2>1, <2>4, <2>5, Zenon DEF DropOK
<1>9. ObjectsOK' /\ PointersOK' /\ GarbageOK' /\ JoinOK'
  BY <1>1, FrameObjects, FramePointers, FrameGarbage, FrameJoin, Zenon DEF IInv
<1> QED
  BY <1>5, <1>6, <1>7, <1>8, <1>9, Zenon DEF IInv

\* A thread invalidates the socket it uses.
LEMMA InvalidatePreserves ==
    ASSUME IInv, NEW t \in Threads, invalidate_and_close(t)
    PROVE  IInv'
<1> DEFINE r == using[t]
<1>1. /\ at[t] = "in" /\ m_valid[r]
      /\ m_valid' = [m_valid EXCEPT ![r] = FALSE]
      /\ at' = [at EXCEPT ![t] = "drop"]
      /\ UNCHANGED <<st, kind, m_closed, fd, refs, serves, using, m_drop_req,
                     m_slaves, m_new_slaves, gc_new, m_requests, m_gc_thread,
                     m_consecutive_gcs, cb, joins, thrown>>
  BY Zenon DEF invalidate_and_close, slaveVars, otherVars
<1>2. at'[t] = "drop" /\ \A u \in Threads \ {t} : at'[u] = at[u]
  BY <1>1, Zenon DEF IInv, TypeOK
<1>3. r \in Res
  BY <1>1, Zenon DEF IInv, TypeOK, ThreadsOK
<1> HIDE DEF r
<1>4. ~m_valid'[r] /\ \A s \in Res \ {r} : m_valid'[s] = m_valid[s]
  BY <1>1, <1>3, Zenon DEF IInv, TypeOK
<1>5. TypeOK'
  BY <1>1, Zenon DEF IInv, TypeOK
<1>6. ThreadsOK'
  <2>1. \A w \in Workers : at'[w] = "idle" => refs[w] = {} /\ serves[w] = None
    BY <1>2, ThreadKinds, Zenon DEF IInv, ThreadsOK
  <2>2. ~m_gc_thread => refs[GC] = {} /\ gc_new = {} /\ at'[GC] = "idle"
    BY <1>1, <1>2, ThreadKinds, Zenon DEF IInv, ThreadsOK
  <2>3. \A u \in Threads : /\ using[u] # None <=> at'[u] \in {"in", "drop"}
                           /\ using[u] # None => using[u] \in refs[u]
    BY <1>1, <1>2 DEF IInv, ThreadsOK
  <2> QED
    BY <1>1, <2>1, <2>2, <2>3, Zenon DEF ThreadsOK
<1>7. ObjectsOK'
  BY <1>1, <1>4, Zenon DEF IInv, ObjectsOK
<1>8. UsedOK'
  BY <1>1, Zenon DEF IInv, UsedOK
<1>9. DropOK'
  <2>1. st[r] = "registered" /\ ~m_closed[r]
    BY <1>1, <1>3, Zenon DEF IInv, ObjectsOK
  <2>2. DropRequestsAreCurrent'
    BY <1>1, <1>4, ZenonT(30) DEF IInv, DropOK, DropRequestsAreCurrent
  <2>3. fd[r] \notin m_drop_req
    <3> SUFFICES ASSUME fd[r] \in m_drop_req PROVE FALSE
      BY Zenon
    <3>1. PICK s \in Res : st[s] = "registered" /\ fd[s] = fd[r] /\ ~m_valid[s]
      BY Zenon DEF IInv, DropOK, DropRequestsAreCurrent
    <3>2. ~m_closed[s]
      BY <3>1, Zenon DEF IInv, ObjectsOK
    <3>3. s = r
      BY <1>3, <2>1, <3>1, <3>2 DEF IInv, ObjectsOK
    <3> QED
      BY <1>1, <3>1, <3>3, Zenon
  <2>4. \A u \in Threads \ {t} : at[u] = "drop" => using[u] # r
    BY <1>1, Zenon DEF IInv, DropOK
  <2>5. \A u \in Threads : at'[u] = "drop" =>
           /\ st[using[u]] = "registered" /\ ~m_valid'[using[u]]
           /\ fd[using[u]] \notin m_drop_req
    <3> SUFFICES ASSUME NEW u \in Threads, at'[u] = "drop"
                 PROVE  /\ st[using[u]] = "registered" /\ ~m_valid'[using[u]]
                        /\ fd[using[u]] \notin m_drop_req
      BY Zenon
    <3>1. CASE u = t
      BY <1>4, <2>1, <2>3, <3>1, Zenon DEF r
    <3>2. CASE u # t
      <4>1. at[u] = "drop"
        BY <1>2, <3>2, Zenon
      <4>2. using[u] \in Res
        BY <4>1, Zenon DEF IInv, TypeOK, ThreadsOK
      <4> QED
        BY <1>4, <2>4, <4>1, <4>2, <3>2, Zenon DEF IInv, DropOK
    <3> QED
      BY <3>1, <3>2, Zenon
  <2>6. \A u, v \in Threads :
          at'[u] = "drop" /\ at'[v] = "drop" /\ using[u] = using[v] => u = v
    BY <1>2, <2>4 DEF IInv, DropOK, r
  <2> QED
    BY <1>1, <2>2, <2>5, <2>6, Zenon DEF DropOK
<1>10. JoinOK'
  BY <1>1, <1>4, JoinShrinks, Zenon DEF IInv
<1>11. PointersOK' /\ GarbageOK'
  BY <1>1, FramePointers, FrameGarbage, Zenon DEF IInv
<1> QED
  BY <1>5, <1>6, <1>7, <1>8, <1>9, <1>10, <1>11, Zenon DEF IInv

\* A job ends, and with it the worker's pointers; the GC thread's stay until it
\* is joined.
LEMMA EndJobPreserves ==
    ASSUME IInv, NEW t \in Threads, EndJob(t)
    PROVE  IInv'
<1>1. /\ at[t] = "job" /\ at' = [at EXCEPT ![t] = "idle"]
      /\ refs' = [refs EXCEPT ![t] = IF t = GC THEN @ ELSE {}]
      /\ serves' = [w \in Workers |-> IF w = t THEN None ELSE serves[w]]
      /\ UNCHANGED <<st, kind, m_valid, m_closed, fd, using, m_drop_req,
                     m_slaves, m_new_slaves, gc_new, m_requests, m_gc_thread,
                     m_consecutive_gcs, cb, joins, thrown>>
  BY Zenon DEF EndJob, objVars, slaveVars, otherVars
<1>2. /\ at'[t] = "idle" /\ \A u \in Threads \ {t} : at'[u] = at[u]
      /\ \A u \in Threads : refs'[u] = IF u = t /\ t # GC THEN {} ELSE refs[u]
      /\ \A w \in Workers : serves'[w] = IF w = t THEN None ELSE serves[w]
  BY <1>1 DEF IInv, TypeOK
<1>3. TypeOK'
  <2>1. refs' \in [Threads -> SUBSET Res]
    BY <1>1, Zenon DEF IInv, TypeOK
  <2>2. serves' \in [Workers -> Res \cup {None}]
    BY <1>1, Zenon DEF IInv, TypeOK
  <2> QED
    BY <1>1, <2>1, <2>2, Zenon DEF IInv, TypeOK
<1>4. ThreadsOK'
  <2>1. \A w \in Workers : at'[w] = "idle" => refs'[w] = {} /\ serves'[w] = None
    BY <1>2, ThreadKinds DEF IInv, ThreadsOK
  <2>2. ~m_gc_thread => refs'[GC] = {} /\ gc_new = {} /\ at'[GC] = "idle"
    BY <1>2, ThreadKinds DEF IInv, ThreadsOK
  <2>3. using[t] = None
    BY <1>1, Zenon DEF IInv, ThreadsOK
  <2>4. \A u \in Threads : /\ using[u] # None <=> at'[u] \in {"in", "drop"}
                           /\ using[u] # None => using[u] \in refs'[u]
    BY <1>2, <2>3 DEF IInv, ThreadsOK
  <2> QED
    BY <1>1, <2>1, <2>2, <2>4, Zenon DEF ThreadsOK
<1>5. /\ refs'[GC] = refs[GC]
      /\ \A w \in Workers : refs'[w] \subseteq refs[w]
  BY <1>2, ThreadKinds
<1>6. PointersOK'
  <2>1. Pointed' = Pointed
    BY <1>1, <1>5, Zenon DEF Pointed
  <2> QED
    BY <1>1, <1>5, <2>1, Zenon DEF IInv, PointersOK
<1>7. GarbageOK'
  <2>1. \A q \in m_requests : q.flags \subseteq Workers
    BY DEF IInv, TypeOK, Request
  <2> QED
    BY <1>1, <1>5, <2>1 DEF IInv, GarbageOK
<1>8. DropOK'
  BY <1>1, <1>2 DEF IInv, DropOK, DropRequestsAreCurrent
<1>9. JoinOK'
  <2>1. \A w \in Workers : serves'[w] # None => /\ serves[w] # None
                                                /\ refs'[w] = refs[w]
    BY <1>2, ThreadKinds
  <2> QED
    BY <1>1, <2>1, JoinShrinks, Zenon DEF IInv
<1>10. ObjectsOK' /\ UsedOK'
  BY <1>1, FrameObjects, Zenon DEF IInv, UsedOK
<1> QED
  BY <1>3, <1>4, <1>6, <1>7, <1>8, <1>9, <1>10, Zenon DEF IInv

-----------------------------------------------------------------------------
(* The reactor between two callbacks *)

\* A free slot is not pointed to.
LEMMA FreeIsUnknown ==
    ASSUME IInv, NEW r \in Res, st[r] \notin {"registered", "garbage", "fixed"}
    PROVE  /\ r \notin Pointed
           /\ \A t \in Threads : r \notin refs[t] /\ using[t] # r
<1>1. r \notin Pointed
  BY Zenon DEF IInv, PointersOK
<1>2. \A w \in Workers : r \notin refs[w]
  <2>1. st[r] = "free"
    BY Zenon DEF IInv, TypeOK
  <2> QED
    BY <2>1, Zenon DEF IInv, PointersOK
<1>3. \A t \in Threads : r \notin refs[t]
  BY <1>1, <1>2, Zenon DEF Threads, Pointed
<1>4. \A t \in Threads : using[t] # r
  BY <1>3, ThreadKinds, Zenon DEF IInv, ThreadsOK
<1> QED
  BY <1>1, <1>3, <1>4, Zenon

\* The part of accepting a connection that clients and slaves share.
LEMMA CreateCommon ==
    ASSUME IInv, NEW r \in Res, NEW f \in Fds, NEW k \in {"client", "repl"},
           Create(r, f, k), st' = [st EXCEPT ![r] = "registered"],
           UNCHANGED <<using, at, m_drop_req, thrown>>
    PROVE  /\ st' \in [Res -> {"free", "registered", "garbage", "fixed"}]
           /\ kind' \in [Res -> {"client", "repl"}]
           /\ m_valid' \in [Res -> BOOLEAN] /\ m_closed' \in [Res -> BOOLEAN]
           /\ fd' \in [Res -> Fds \cup {None}]
           /\ cb = "poll" /\ st[r] = "free"
           /\ st'[r] = "registered"
           /\ \A s \in Res \ {r} : st'[s] = st[s] /\ m_valid'[s] = m_valid[s]
           /\ ObjectsOK' /\ UsedOK' /\ DropOK'
<1>1. /\ cb = "poll" /\ st[r] = "free" /\ f \notin FdsInUse
      /\ kind' = [kind EXCEPT ![r] = k]
      /\ m_valid' = [m_valid EXCEPT ![r] = TRUE]
      /\ m_closed' = [m_closed EXCEPT ![r] = FALSE]
      /\ fd' = [fd EXCEPT ![r] = f]
  BY Zenon DEF Create
<1>2. /\ st' \in [Res -> {"free", "registered", "garbage", "fixed"}]
      /\ kind' \in [Res -> {"client", "repl"}]
      /\ m_valid' \in [Res -> BOOLEAN] /\ m_closed' \in [Res -> BOOLEAN]
      /\ fd' \in [Res -> Fds \cup {None}]
  BY <1>1, Zenon DEF IInv, TypeOK
<1>3. /\ st'[r] = "registered" /\ m_valid'[r] /\ ~m_closed'[r] /\ fd'[r] = f
      /\ \A s \in Res \ {r} : /\ st'[s] = st[s] /\ m_valid'[s] = m_valid[s]
                              /\ m_closed'[s] = m_closed[s] /\ fd'[s] = fd[s]
  BY <1>1, ZenonT(30) DEF IInv, TypeOK
<1>4. ObjectsOK'
  <2>1. \A s \in Res : st[s] # "free" /\ ~m_closed[s] => fd[s] # f
    BY <1>1, Zenon DEF FdsInUse
  <2>2. \A s \in Res : /\ m_valid'[s] => st'[s] = "registered"
                       /\ st'[s] = "registered" => ~m_closed'[s]
                       /\ st'[s] # "free" => fd'[s] \in Fds
    BY <1>3 DEF IInv, ObjectsOK
  <2>3. \A s, u \in Res : st'[s] # "free" /\ ~m_closed'[s] /\ st'[u] # "free"
                          /\ ~m_closed'[u] /\ fd'[s] = fd'[u] => s = u
    BY <1>3, <2>1 DEF IInv, ObjectsOK
  <2> QED
    BY <2>2, <2>3, Zenon DEF ObjectsOK
<1>5. \A t \in Threads : using[t] # r
  BY <1>1, FreeIsUnknown, Zenon
<1>6. UsedOK'
  <2>1. \A t \in Threads : using[t] # None => using[t] \in Res \ {r}
    BY <1>5, Zenon DEF IInv, TypeOK
  <2> QED
    BY <1>3, <2>1 DEF IInv, UsedOK
<1>7. DropOK'
  <2>1. DropRequestsAreCurrent'
    BY <1>1, <1>3 DEF IInv, DropOK, DropRequestsAreCurrent
  <2>2. \A t \in Threads : at[t] = "drop" => using[t] \in Res \ {r}
    BY <1>5, Zenon DEF IInv, TypeOK, ThreadsOK
  <2> QED
    BY <1>3, <2>1, <2>2 DEF IInv, DropOK
<1> QED
  BY <1>1, <1>2, <1>3, <1>4, <1>6, <1>7, Zenon

\* What is pointed to is a socket.
LEMMA PointedAreSockets == ASSUME TypeOK PROVE Pointed \subseteq Res
<1>1. \A q \in m_requests : q.slave \in Res \cup {None}
  BY DEF TypeOK, Request
<1>2. refs[GC] \subseteq Res
  BY ThreadKinds, Zenon DEF TypeOK
<1>3. m_slaves \cup m_new_slaves \cup gc_new \subseteq Res
  BY Zenon DEF TypeOK
<1> QED
  BY <1>1, <1>2, <1>3 DEF Pointed

\* New slaves and the slaves of requests are pointed to.
LEMMA PointedParts ==
    /\ \A s \in m_new_slaves \cup gc_new : s \in Pointed
    /\ \A q \in m_requests : q.slave # None => q.slave \in Pointed
BY Zenon DEF Pointed

\* A step that leaves the requests, the pointers of the workers and the set of
\* sockets in m_garbage_copy alone.
LEMMA FixedStays ==
    ASSUME TypeOK, GarbageOK, UNCHANGED <<m_requests, refs>>,
           NEW r \in Res, st[r] # "fixed", st'[r] # "fixed",
           \A s \in Res \ {r} : st'[s] = st[s]
    PROVE  GarbageOK'
<1>1. \A s \in Res : st'[s] = "fixed" <=> st[s] = "fixed"
  BY Zenon
<1>2. \A q \in m_requests : \A w \in q.flags : refs[w] \subseteq Res
  BY DEF TypeOK, Request, Threads
<1>3. \A s \in Res : st'[s] = "fixed" => \E q \in m_requests' : q.slave = None
  BY <1>1, Zenon DEF GarbageOK
<1>4. \A q \in m_requests' : q.slave = None =>
         \A w \in q.flags : \A s \in refs'[w] : st'[s] # "fixed"
  BY <1>1, <1>2 DEF GarbageOK
<1> QED
  BY <1>3, <1>4, Zenon DEF GarbageOK

\* A client connects.
LEMMA ClientPreserves ==
    ASSUME IInv, NEW r \in Res, NEW f \in Fds, make_memcache_socket(r, f)
    PROVE  IInv'
<1>1. /\ Create(r, f, "client") /\ st' = [st EXCEPT ![r] = "registered"]
      /\ UNCHANGED <<m_drop_req, at, refs, serves, using, m_slaves, m_new_slaves,
                     gc_new, m_requests, m_gc_thread, m_consecutive_gcs, cb,
                     joins, thrown>>
  BY Zenon DEF make_memcache_socket, threadVars, slaveVars, otherVars
<1>2. /\ st' \in [Res -> {"free", "registered", "garbage", "fixed"}]
      /\ kind' \in [Res -> {"client", "repl"}]
      /\ m_valid' \in [Res -> BOOLEAN] /\ m_closed' \in [Res -> BOOLEAN]
      /\ fd' \in [Res -> Fds \cup {None}]
      /\ cb = "poll" /\ st[r] = "free" /\ st'[r] = "registered"
      /\ \A s \in Res \ {r} : st'[s] = st[s] /\ m_valid'[s] = m_valid[s]
      /\ ObjectsOK' /\ UsedOK' /\ DropOK'
  BY <1>1, CreateCommon, Zenon
<1>3. TypeOK'
  BY <1>1, <1>2, Zenon DEF IInv, TypeOK
<1>4. ThreadsOK'
  BY <1>1, Zenon DEF IInv, ThreadsOK
<1>5. r \notin Pointed /\ \A w \in Workers : r \notin refs[w]
  BY <1>2, FreeIsUnknown, ThreadKinds, Zenon
<1>6. Pointed \subseteq Res /\ \A w \in Workers : refs[w] \subseteq Res
  BY PointedAreSockets, ThreadKinds, Zenon DEF IInv, TypeOK
<1>7. PointersOK'
  <2>1. Pointed' = Pointed
    BY <1>1, Zenon DEF Pointed
  <2>2. \A w \in Workers : \A s \in refs'[w] : st'[s] # "free"
    BY <1>1, <1>2, <1>5, <1>6 DEF IInv, PointersOK
  <2>3. \A s \in Pointed' : st'[s] \in {"registered", "garbage"}
    BY <1>2, <1>5, <1>6, <2>1 DEF IInv, PointersOK
  <2>4. cb' \notin {"gc", "reclaim"}
    BY <1>1, <1>2, Zenon
  <2> QED
    BY <2>2, <2>3, <2>4, Zenon DEF PointersOK
<1>8. GarbageOK'
  <2>1. st[r] # "fixed" /\ st'[r] # "fixed"
    BY <1>2, Zenon
  <2> QED
    BY <1>1, <1>2, <2>1, FixedStays, Zenon DEF IInv
<1>9. JoinOK'
  <2>1. \A s \in m_new_slaves \cup gc_new : m_valid'[s] = m_valid[s]
    BY <1>2, <1>5, <1>6, PointedParts, Zenon
  <2>2. \A q \in m_requests : q.slave # None => m_valid'[q.slave] = m_valid[q.slave]
    BY <1>2, <1>5, <1>6, PointedParts, Zenon
  <2>3. \A s \in m_new_slaves' \cup gc_new' : m_valid'[s] =>
           /\ s \in m_slaves'
           /\ \A w \in Workers : serves'[w] # None => s \in refs'[w]
    BY <1>1, <2>1 DEF IInv, JoinOK
  <2>4. \A q \in m_requests' : q.slave # None /\ m_valid'[q.slave] =>
           /\ q.slave \in m_slaves'
           /\ \A w \in q.flags : serves'[w] # None => q.slave \in refs'[w]
    BY <1>1, <2>2 DEF IInv, JoinOK
  <2> QED
    BY <2>3, <2>4, Zenon DEF JoinOK
<1> QED
  BY <1>2, <1>3, <1>4, <1>7, <1>8, <1>9, Zenon DEF IInv

\* A slave connects: the jobs posted from now on know it.
LEMMA SlavePreserves ==
    ASSUME IInv, NEW r \in Res, NEW f \in Fds, make_repl_socket(r, f)
    PROVE  IInv'
<1> DEFINE q0 == NewRequest(r)
<1>1. /\ Create(r, f, "repl") /\ st' = [st EXCEPT ![r] = "registered"]
      /\ joins < MaxJoins /\ joins' = joins + 1
      /\ m_slaves' = m_slaves \cup {r}
      /\ IF Complete(q0)
         THEN m_new_slaves' = m_new_slaves \cup {r} /\ UNCHANGED m_requests
         ELSE m_requests' = m_requests \cup {q0} /\ UNCHANGED m_new_slaves
      /\ UNCHANGED <<m_drop_req, at, refs, serves, using, gc_new, m_gc_thread,
                     m_consecutive_gcs, cb, thrown>>
  BY Zenon DEF make_repl_socket, threadVars
<1>2. /\ st' \in [Res -> {"free", "registered", "garbage", "fixed"}]
      /\ kind' \in [Res -> {"client", "repl"}]
      /\ m_valid' \in [Res -> BOOLEAN] /\ m_closed' \in [Res -> BOOLEAN]
      /\ fd' \in [Res -> Fds \cup {None}]
      /\ cb = "poll" /\ st[r] = "free" /\ st'[r] = "registered"
      /\ \A s \in Res \ {r} : st'[s] = st[s] /\ m_valid'[s] = m_valid[s]
      /\ ObjectsOK' /\ UsedOK' /\ DropOK'
  BY <1>1, CreateCommon, Zenon
<1>3. /\ q0 \in Request /\ q0.slave = r /\ q0.flags = IdleWorkers /\ r # None
      /\ \A w \in IdleWorkers : w \in Workers /\ serves[w] = None
  BY ThreadKinds DEF NewRequest, Request, IdleWorkers, is_running, IInv, ThreadsOK
<1> HIDE DEF q0
<1>4. /\ m_new_slaves' \subseteq m_new_slaves \cup {r}
      /\ m_requests' \subseteq m_requests \cup {q0}
      /\ m_requests \subseteq m_requests'
  BY <1>1, Zenon
<1>5. TypeOK'
  <2>1. joins' \in 0..MaxJoins
    BY <1>1, ReclaimAssumption DEF IInv, TypeOK
  <2>2. m_slaves' \subseteq Res /\ m_new_slaves' \subseteq Res /\ m_requests' \subseteq Request
    BY <1>1, <1>3, <1>4, Zenon DEF IInv, TypeOK
  <2> QED
    BY <1>1, <1>2, <2>1, <2>2, Zenon DEF IInv, TypeOK
<1>6. ThreadsOK'
  BY <1>1, Zenon DEF IInv, ThreadsOK
<1>7. r \notin Pointed /\ \A w \in Workers : r \notin refs[w]
  BY <1>2, FreeIsUnknown, ThreadKinds, Zenon
<1>8. Pointed \subseteq Res /\ \A w \in Workers : refs[w] \subseteq Res
  BY PointedAreSockets, ThreadKinds, Zenon DEF IInv, TypeOK
<1>9. PointersOK'
  <2>1. Pointed' \subseteq Pointed \cup {r}
    BY <1>1, <1>3, <1>4, ZenonT(30) DEF Pointed
  <2>2. \A w \in Workers : \A s \in refs'[w] : st'[s] # "free"
    BY <1>1, <1>2, <1>7, <1>8 DEF IInv, PointersOK
  <2>3. \A s \in Pointed' : st'[s] \in {"registered", "garbage"}
    BY <1>2, <1>7, <1>8, <2>1 DEF IInv, PointersOK
  <2>4. cb' \notin {"gc", "reclaim"}
    BY <1>1, <1>2, Zenon
  <2> QED
    BY <2>2, <2>3, <2>4, Zenon DEF PointersOK
<1>10. GarbageOK'
  <2>1. \A s \in Res : st'[s] = "fixed" <=> st[s] = "fixed"
    BY <1>2
  <2>2. \A q \in m_requests' : q.slave = None => q \in m_requests
    BY <1>3, <1>4, Zenon
  <2>3. \A q \in m_requests : q.flags \subseteq Workers
    BY DEF IInv, TypeOK, Request
  <2>4. \A s \in Res : st'[s] = "fixed" => \E q \in m_requests' : q.slave = None
    BY <1>4, <2>1, Zenon DEF IInv, GarbageOK
  <2>5. \A q \in m_requests' : q.slave = None =>
           \A w \in q.flags : \A s \in refs'[w] : st'[s] # "fixed"
    BY <1>1, <1>8, <2>1, <2>2, <2>3 DEF IInv, GarbageOK
  <2> QED
    BY <2>4, <2>5, Zenon DEF GarbageOK
<1>11. JoinOK'
  <2>1. \A s \in m_new_slaves \cup gc_new : s # r /\ m_valid'[s] = m_valid[s]
    BY <1>2, <1>7, <1>8, PointedParts, Zenon
  <2>2. \A q \in m_requests : q.slave # None => /\ q.slave # r
                                               /\ m_valid'[q.slave] = m_valid[q.slave]
    BY <1>2, <1>7, <1>8, PointedParts, ZenonT(30)
  <2>3. r \in m_new_slaves' => \A w \in Workers : serves[w] = None
    BY <1>1, <1>3, <1>7, Zenon DEF Complete, Pointed
  <2>4. \A s \in m_new_slaves' \cup gc_new' : m_valid'[s] =>
           /\ s \in m_slaves'
           /\ \A w \in Workers : serves'[w] # None => s \in refs'[w]
    BY <1>1, <1>4, <2>1, <2>3 DEF IInv, JoinOK
  <2>5. \A q \in m_requests' : q.slave # None /\ m_valid'[q.slave] =>
           /\ q.slave \in m_slaves'
           /\ \A w \in q.flags : serves'[w] # None => q.slave \in refs'[w]
    BY <1>1, <1>3, <1>4, <2>2 DEF IInv, JoinOK
  <2> QED
    BY <2>4, <2>5, Zenon DEF JoinOK
<1> QED
  BY <1>2, <1>5, <1>6, <1>9, <1>10, <1>11, Zenon DEF IInv

\* A job is posted to an idle worker: it gets pointers to sockets that are
\* registered, or on the slave list.
LEMMA PostPreserves ==
    ASSUME IInv, NEW r \in Res, NEW w \in Workers, post_job(r, w)
    PROVE  IInv'
<1>1. /\ st[r] = "registered" /\ at[w] = "idle" /\ at' = [at EXCEPT ![w] = "job"]
      /\ UNCHANGED <<st, kind, m_valid, m_closed, fd, using, m_drop_req,
                     m_slaves, m_new_slaves, gc_new, m_requests, m_gc_thread,
                     m_consecutive_gcs, cb, joins, thrown>>
  BY Zenon DEF post_job, is_running, objVars, slaveVars, otherVars
<1>2. PICK R \in {{r}, {r} \cup m_slaves}, c \in {None, r} :
         /\ refs' = [refs EXCEPT ![w] = R] /\ serves' = [serves EXCEPT ![w] = c]
         /\ c # None => R = {r} \cup m_slaves
  <2>1. serves[w] = None /\ serves \in [Workers -> Res \cup {None}]
    BY <1>1, Zenon DEF IInv, ThreadsOK, TypeOK
  <2>2. serves = [serves EXCEPT ![w] = None]
    BY <2>1
  <2>3. CASE /\ refs' = [refs EXCEPT ![w] = {r} \cup m_slaves]
             /\ serves' = [serves EXCEPT ![w] = r]
    BY <2>3, Zenon
  <2>4. CASE refs' = [refs EXCEPT ![w] = {r}] /\ UNCHANGED serves
    BY <2>2, <2>4, Zenon
  <2> QED
    BY <2>3, <2>4, Zenon DEF post_job
<1>3. w \in Threads /\ w # GC
  BY ThreadKinds, Zenon
<1>4. /\ at'[w] = "job" /\ refs'[w] = R /\ serves'[w] = c
      /\ \A u \in Threads \ {w} : at'[u] = at[u] /\ refs'[u] = refs[u]
      /\ \A v \in Workers \ {w} : serves'[v] = serves[v]
  BY <1>1, <1>2, <1>3, Zenon DEF IInv, TypeOK
<1>5. /\ R \subseteq Res /\ R \subseteq {r} \cup m_slaves
      /\ m_slaves \subseteq Pointed
  BY <1>2, Zenon DEF IInv, TypeOK, Pointed
<1>6. TypeOK'
  <2>1. refs' \in [Threads -> SUBSET Res] /\ serves' \in [Workers -> Res \cup {None}]
    BY <1>2, <1>5, Zenon DEF IInv, TypeOK
  <2> QED
    BY <1>1, <2>1, Zenon DEF IInv, TypeOK
<1>7. ThreadsOK'
  <2>1. \A v \in Workers : at'[v] = "idle" => refs'[v] = {} /\ serves'[v] = None
    BY <1>4, ThreadKinds DEF IInv, ThreadsOK
  <2>2. ~m_gc_thread => refs'[GC] = {} /\ gc_new = {} /\ at'[GC] = "idle"
    BY <1>3, <1>4, ThreadKinds, Zenon DEF IInv, ThreadsOK
  <2>3. using[w] = None
    BY <1>1, <1>3, Zenon DEF IInv, ThreadsOK
  <2>4. \A u \in Threads : /\ using[u] # None <=> at'[u] \in {"in", "drop"}
                           /\ using[u] # None => using[u] \in refs'[u]
    BY <1>4, <2>3 DEF IInv, ThreadsOK
  <2> QED
    BY <1>1, <2>1, <2>2, <2>4, Zenon DEF ThreadsOK
<1>8. \A s \in R : st[s] \in {"registered", "garbage"}
  BY <1>1, <1>5, Zenon DEF IInv, PointersOK
<1>9. PointersOK'
  <2>1. Pointed' = Pointed
    BY <1>1, <1>3, <1>4, ThreadKinds, Zenon DEF Pointed
  <2>2. \A v \in Workers : \A s \in refs'[v] : st[s] # "free"
    BY <1>4, <1>8, ThreadKinds DEF IInv, PointersOK
  <2> QED
    BY <1>1, <2>1, <2>2, Zenon DEF IInv, PointersOK
<1>10. GarbageOK'
  <2>1. \A q \in m_requests : q.flags \subseteq Workers
    BY DEF IInv, TypeOK, Request
  <2>2. \A q \in m_requests : q.slave = None =>
           \A v \in q.flags : \A s \in refs'[v] : st[s] # "fixed"
    BY <1>4, <1>8, <2>1, ThreadKinds DEF IInv, GarbageOK
  <2> QED
    BY <1>1, <2>2, Zenon DEF IInv, GarbageOK
<1>11. DropOK'
  BY <1>1, <1>4 DEF IInv, DropOK, DropRequestsAreCurrent
<1>12. JoinOK'
  <2>1. \A v \in Workers : serves'[v] # None =>
           \/ v = w /\ m_slaves \subseteq refs'[v]
           \/ v # w /\ serves[v] # None /\ refs'[v] = refs[v]
    BY <1>2, <1>4, ThreadKinds
  <2>2. \A q \in m_requests : q.flags \subseteq Workers
    BY DEF IInv, TypeOK, Request
  <2>3. \A s \in m_new_slaves' \cup gc_new' : m_valid'[s] =>
           /\ s \in m_slaves'
           /\ \A v \in Workers : serves'[v] # None => s \in refs'[v]
    BY <1>1, <2>1 DEF IInv, JoinOK
  <2>4. \A q \in m_requests' : q.slave # None /\ m_valid'[q.slave] =>
           /\ q.slave \in m_slaves'
           /\ \A v \in q.flags : serves'[v] # None => q.slave \in refs'[v]
    BY <1>1, <2>1, <2>2 DEF IInv, JoinOK
  <2> QED
    BY <2>3, <2>4, Zenon DEF JoinOK
<1>13. ObjectsOK' /\ UsedOK'
  BY <1>1, FrameObjects, Zenon DEF IInv, UsedOK
<1> QED
  BY <1>6, <1>7, <1>9, <1>10, <1>11, <1>12, <1>13, Zenon DEF IInv

\* remove_resource, when the socket is not valid any more and nobody else asks
\* for its removal.
LEMMA RemovePreserves ==
    ASSUME IInv, NEW r \in Res, st[r] = "registered", cb = "poll", Remove(r, FALSE),
           m_drop_req' \subseteq m_drop_req, fd[r] \notin m_drop_req',
           \A t \in Threads : at[t] = "drop" => using[t] # r,
           UNCHANGED <<kind, fd, at, refs, serves, using, m_slaves, m_new_slaves,
                       gc_new, m_requests, m_gc_thread, m_consecutive_gcs, cb,
                       joins, thrown>>
    PROVE  IInv'
<1>1. /\ st' = [st EXCEPT ![r] = "garbage"]
      /\ m_valid' = [m_valid EXCEPT ![r] = FALSE]
      /\ m_closed' = [m_closed EXCEPT ![r] = ~InUse(r)]
  BY Zenon DEF Remove
<1>2. /\ st'[r] = "garbage" /\ ~m_valid'[r] /\ m_closed'[r] = ~InUse(r)
      /\ \A s \in Res \ {r} : /\ st'[s] = st[s] /\ m_valid'[s] = m_valid[s]
                              /\ m_closed'[s] = m_closed[s]
  BY <1>1, Zenon DEF IInv, TypeOK
<1>3. TypeOK'
  <2>1. /\ st' \in [Res -> {"free", "registered", "garbage", "fixed"}]
        /\ m_valid' \in [Res -> BOOLEAN]
    BY <1>1, Zenon DEF IInv, TypeOK
  <2>2. m_closed' \in [Res -> BOOLEAN]
    <3>1. (~InUse(r)) \in BOOLEAN
      BY Zenon
    <3> HIDE DEF InUse
    <3> QED
      BY <1>1, <3>1, Zenon DEF IInv, TypeOK
  <2> QED
    BY <2>1, <2>2, Zenon DEF IInv, TypeOK
<1>4. ObjectsOK'
  <2>1. ~m_closed[r]
    BY Zenon DEF IInv, ObjectsOK
  <2>2. \A s \in Res : /\ m_valid'[s] => st'[s] = "registered"
                       /\ st'[s] = "registered" => ~m_closed'[s]
                       /\ st'[s] # "free" => fd[s] \in Fds
    BY <1>2 DEF IInv, ObjectsOK
  <2>3. \A s \in Res : /\ st'[s] # "free" => st[s] # "free"
                       /\ ~m_closed'[s] => ~m_closed[s]
    BY <1>2, <2>1, Zenon
  <2>4. \A s, u \in Res : st'[s] # "free" /\ ~m_closed'[s] /\ st'[u] # "free"
                          /\ ~m_closed'[u] /\ fd[s] = fd[u] => s = u
    BY <2>3, Zenon DEF IInv, ObjectsOK
  <2> QED
    BY <2>2, <2>4, Zenon DEF ObjectsOK
<1>5. UsedOK'
  <2>1. \A t \in Threads : using[t] = r => ~m_closed'[r]
    BY <1>2, Zenon DEF InUse
  <2>2. \A t \in Threads : using[t] # None => using[t] \in Res
    BY Zenon DEF IInv, TypeOK
  <2> QED
    BY <1>2, <2>1, <2>2 DEF IInv, UsedOK
<1>6. PointersOK'
  <2>1. Pointed' = Pointed
    BY Zenon DEF Pointed
  <2>2. Pointed \subseteq Res /\ \A w \in Workers : refs[w] \subseteq Res
    BY PointedAreSockets, ThreadKinds, Zenon DEF IInv, TypeOK
  <2>3. \A w \in Workers : \A s \in refs[w] : st'[s] # "free"
    BY <1>2, <2>2 DEF IInv, PointersOK
  <2>4. \A s \in Pointed : st'[s] \in {"registered", "garbage"}
    BY <1>2, <2>2 DEF IInv, PointersOK
  <2> QED
    BY <2>1, <2>3, <2>4, Zenon DEF PointersOK
<1>7. GarbageOK'
  <2>1. st[r] # "fixed" /\ st'[r] # "fixed"
    BY <1>2, Zenon
  <2> QED
    BY <1>2, <2>1, FixedStays, Zenon DEF IInv
<1>8. DropOK'
  <2>1. DropRequestsAreCurrent'
    <3> SUFFICES ASSUME NEW f \in m_drop_req'
                 PROVE  \E s \in Res : st'[s] = "registered" /\ fd[s] = f /\ ~m_valid'[s]
      BY Zenon DEF IInv, DropOK, DropRequestsAreCurrent
    <3>1. PICK s \in Res : st[s] = "registered" /\ fd[s] = f /\ ~m_valid[s]
      BY Zenon DEF IInv, DropOK, DropRequestsAreCurrent
    <3>2. s # r
      BY <3>1, Zenon
    <3> QED
      BY <1>2, <3>1, <3>2, Zenon
  <2>2. \A t \in Threads : at[t] = "drop" => using[t] \in Res \ {r}
    BY Zenon DEF IInv, TypeOK, ThreadsOK
  <2>3. \A t \in Threads : at[t] = "drop" =>
           /\ st'[using[t]] = "registered" /\ ~m_valid'[using[t]]
           /\ fd[using[t]] \notin m_drop_req'
    BY <1>2, <2>2 DEF IInv, DropOK
  <2>4. \A t, u \in Threads :
          at[t] = "drop" /\ at[u] = "drop" /\ using[t] = using[u] => t = u
    BY Zenon DEF IInv, DropOK
  <2> QED
    BY <2>1, <2>3, <2>4, Zenon DEF DropOK
<1>9. JoinOK'
  <2>1. \A s \in Res : m_valid'[s] => m_valid[s]
    BY <1>2, Zenon
  <2> QED
    BY <2>1, JoinShrinks, Zenon DEF IInv
<1>10. ThreadsOK'
  BY Zenon DEF IInv, ThreadsOK
<1> QED
  BY <1>3, <1>4, <1>5, <1>6, <1>7, <1>8, <1>9, <1>10, Zenon DEF IInv

\* Registered sockets have different descriptors.
LEMMA RegisteredFdsDiffer ==
    ASSUME IInv, NEW r \in Res, NEW s \in Res, fd[r] = fd[s],
           st[r] = "registered", st[s] = "registered"
    PROVE  r = s
<1>1. ~m_closed[r] /\ ~m_closed[s]
  BY Zenon DEF IInv, ObjectsOK
<1> QED
  BY <1>1 DEF IInv, ObjectsOK

\* The reactor removes a socket it has invalidated itself.
LEMMA HangupPreserves ==
    ASSUME IInv, NEW r \in Res, Hangup(r)
    PROVE  IInv'
<1>1. /\ cb = "poll" /\ st[r] = "registered" /\ m_valid[r] /\ Remove(r, FALSE)
      /\ UNCHANGED <<kind, fd, m_drop_req, at, refs, serves, using, m_slaves,
                     m_new_slaves, gc_new, m_requests, m_gc_thread,
                     m_consecutive_gcs, cb, joins, thrown>>
  BY Zenon DEF Hangup, threadVars, slaveVars, otherVars
<1>2. fd[r] \notin m_drop_req
  <2> SUFFICES ASSUME fd[r] \in m_drop_req PROVE FALSE
    BY Zenon
  <2>1. PICK s \in Res : st[s] = "registered" /\ fd[s] = fd[r] /\ ~m_valid[s]
    BY Zenon DEF IInv, DropOK, DropRequestsAreCurrent
  <2> QED
    BY <1>1, <2>1, RegisteredFdsDiffer, Zenon
<1>3. \A t \in Threads : at[t] = "drop" => using[t] # r
  BY <1>1, Zenon DEF IInv, DropOK
<1>4. m_drop_req' \subseteq m_drop_req /\ fd[r] \notin m_drop_req'
  BY <1>1, <1>2, Zenon
<1> QED
  BY <1>1, <1>3, <1>4, RemovePreserves, Zenon

\* The reactor serves a removal request; it finds the socket.
LEMMA DropPreserves ==
    ASSUME IInv, NEW f \in Fds, drop(f)
    PROVE  IInv'
<1>1. /\ cb = "poll" /\ f \in m_drop_req /\ m_drop_req' = m_drop_req \ {f}
      /\ UNCHANGED <<kind, fd, at, refs, serves, using, m_slaves, m_new_slaves,
                     gc_new, m_requests, m_gc_thread, m_consecutive_gcs, cb, joins>>
  BY Zenon DEF drop, threadVars, slaveVars
<1>2. PICK s \in Res : st[s] = "registered" /\ fd[s] = f /\ ~m_valid[s]
  BY <1>1, Zenon DEF IInv, DropOK, DropRequestsAreCurrent
<1>3. PICK r \in Res : /\ st[r] = "registered" /\ fd[r] = f
                       /\ Remove(r, m_valid[r]) /\ UNCHANGED thrown
  BY <1>2, Zenon DEF drop
<1>4. m_valid[r] = FALSE
  <2>1. r = s
    BY <1>2, <1>3, RegisteredFdsDiffer, Zenon
  <2>2. m_valid[r] \in BOOLEAN
    BY Zenon DEF IInv, TypeOK
  <2> QED
    BY <1>2, <2>1, <2>2, Zenon
<1>5. Remove(r, FALSE)
  BY <1>3, <1>4, Zenon
<1>6. \A t \in Threads : at[t] = "drop" => using[t] # r
  BY <1>1, <1>3, Zenon DEF IInv, DropOK
<1>7. m_drop_req' \subseteq m_drop_req /\ fd[r] \notin m_drop_req'
  BY <1>1, <1>3, Zenon
<1> QED
  BY <1>1, <1>3, <1>5, <1>6, <1>7, RemovePreserves, Zenon

-----------------------------------------------------------------------------
(* The interval callback *)

\* The slave list loses its invalid sockets and those that have timed out.
LEMMA CheckSlavesPreserves ==
    ASSUME IInv, NEW T \in SUBSET m_slaves, check_slaves(T)
    PROVE  IInv'
<1>1. /\ T \subseteq {r \in m_slaves : m_valid[r]}
      /\ m_slaves' = {r \in m_slaves : m_valid[r]} \ T
      /\ m_valid' = [r \in Res |-> m_valid[r] /\ r \notin T]
      /\ m_closed' = [r \in Res |-> IF r \in T THEN ~InUse(r) ELSE m_closed[r]]
      /\ st' = [r \in Res |-> IF r \in T THEN "garbage" ELSE st[r]]
      /\ cb' = "gc"
      /\ UNCHANGED <<kind, fd, m_drop_req, at, refs, serves, using, m_new_slaves,
                     gc_new, m_gc_thread, m_requests, m_consecutive_gcs, joins,
                     thrown>>
  BY Zenon DEF check_slaves, threadVars
<1>2. /\ T \subseteq Res /\ m_slaves' \subseteq m_slaves
      /\ \A r \in T : m_valid[r] /\ st[r] = "registered" /\ ~m_closed[r]
  BY <1>1, Zenon DEF IInv, TypeOK, ObjectsOK
<1>3. /\ \A r \in T : st'[r] = "garbage" /\ ~m_valid'[r] /\ m_closed'[r] = ~InUse(r)
      /\ \A r \in Res \ T : /\ st'[r] = st[r] /\ m_valid'[r] = m_valid[r]
                            /\ m_closed'[r] = m_closed[r]
  <2>1. \A r \in T : st'[r] = "garbage" /\ ~m_valid'[r] /\ m_closed'[r] = ~InUse(r)
    BY <1>1, <1>2, Zenon
  <2>2. \A r \in Res \ T : st'[r] = st[r] /\ m_closed'[r] = m_closed[r]
    BY <1>1, Zenon
  <2>3. \A r \in Res \ T : m_valid'[r] = m_valid[r]
    BY <1>1, Zenon DEF IInv, TypeOK
  <2> QED
    BY <2>1, <2>2, <2>3, Zenon
<1>4. TypeOK'
  <2>1. st' \in [Res -> {"free", "registered", "garbage", "fixed"}]
    BY <1>1, Zenon DEF IInv, TypeOK
  <2>2. m_valid' \in [Res -> BOOLEAN]
    BY <1>1, Zenon
  <2>3. m_closed' \in [Res -> BOOLEAN]
    <3>1. \A r \in Res : (IF r \in T THEN ~InUse(r) ELSE m_closed[r]) \in BOOLEAN
      BY Zenon DEF IInv, TypeOK
    <3> QED
      BY <1>1, <3>1, Zenon
  <2>4. m_slaves' \subseteq Res
    BY <1>2, Zenon DEF IInv, TypeOK
  <2> QED
    BY <1>1, <2>1, <2>2, <2>3, <2>4, Zenon DEF IInv, TypeOK
<1>5. ObjectsOK'
  <2>1. \A s \in Res : /\ m_valid'[s] => st'[s] = "registered"
                       /\ st'[s] = "registered" => ~m_closed'[s]
                       /\ st'[s] # "free" => fd[s] \in Fds
    BY <1>2, <1>3 DEF IInv, ObjectsOK
  <2>2. \A s \in Res : /\ st'[s] # "free" => st[s] # "free"
                       /\ ~m_closed'[s] => ~m_closed[s]
    BY <1>2, <1>3
  <2>3. \A s, u \in Res : st'[s] # "free" /\ ~m_closed'[s] /\ st'[u] # "free"
                          /\ ~m_closed'[u] /\ fd[s] = fd[u] => s = u
    BY <2>2, Zenon DEF IInv, ObjectsOK
  <2> QED
    BY <1>1, <2>1, <2>3, Zenon DEF ObjectsOK
<1>6. UsedOK'
  <2>1. \A t \in Threads : using[t] \in T => ~m_closed'[using[t]]
    BY <1>3, Zenon DEF InUse
  <2>2. \A t \in Threads : using[t] # None => using[t] \in Res
    BY Zenon DEF IInv, TypeOK
  <2> QED
    BY <1>1, <1>3, <2>1, <2>2 DEF IInv, UsedOK
<1>7. PointersOK'
  <2>1. Pointed' \subseteq Pointed
    BY <1>1, <1>2, Zenon DEF Pointed
  <2>2. Pointed \subseteq Res /\ \A w \in Workers : refs[w] \subseteq Res
    BY PointedAreSockets, ThreadKinds, ZenonT(30) DEF IInv, TypeOK
  <2>3. \A w \in Workers : \A s \in refs'[w] : st'[s] # "free"
    BY <1>1, <1>3, <2>2 DEF IInv, PointersOK
  <2>4. \A s \in Pointed' : st'[s] \in {"registered", "garbage"}
    BY <1>3, <2>1, <2>2 DEF IInv, PointersOK
  <2>5. \A s \in m_slaves' : st'[s] = "registered"
    <3>1. \A s \in m_slaves' : s \in Res \ T /\ st[s] = "registered"
      BY <1>1, Zenon DEF IInv, TypeOK, ObjectsOK
    <3> QED
      BY <1>3, <3>1, Zenon
  <2> QED
    BY <2>3, <2>4, <2>5, Zenon DEF PointersOK
<1>8. GarbageOK'
  <2>1. \A s \in Res : st'[s] = "fixed" <=> st[s] = "fixed"
    BY <1>2, <1>3
  <2>2. \A q \in m_requests : \A w \in q.flags : refs[w] \subseteq Res
    BY DEF IInv, TypeOK, Request, Threads
  <2>3. \A s \in Res : st'[s] = "fixed" => \E q \in m_requests' : q.slave = None
    BY <1>1, <2>1, ZenonT(30) DEF IInv, GarbageOK
  <2>4. \A q \in m_requests' : q.slave = None =>
           \A w \in q.flags : \A s \in refs'[w] : st'[s] # "fixed"
    BY <1>1, <2>1, <2>2 DEF IInv, GarbageOK
  <2> QED
    BY <2>3, <2>4, Zenon DEF GarbageOK
<1>9. DropOK'
  <2>1. DropRequestsAreCurrent'
    <3>1. \A s \in Res : st[s] = "registered" /\ ~m_valid[s] =>
             st'[s] = "registered" /\ ~m_valid'[s]
      BY <1>2, <1>3, Zenon
    <3> QED
      BY <1>1, <3>1, ZenonT(30) DEF IInv, DropOK, DropRequestsAreCurrent
  <2>2. \A t \in Threads : at[t] = "drop" => using[t] \in Res \ T
    BY <1>2, Zenon DEF IInv, TypeOK, ThreadsOK, DropOK
  <2>3. \A t \in Threads : at'[t] = "drop" =>
           /\ st'[using'[t]] = "registered" /\ ~m_valid'[using'[t]]
           /\ fd'[using'[t]] \notin m_drop_req'
    BY <1>1, <1>3, <2>2 DEF IInv, DropOK
  <2>4. \A t, u \in Threads :
          at'[t] = "drop" /\ at'[u] = "drop" /\ using'[t] = using'[u] => t = u
    BY <1>1, Zenon DEF IInv, DropOK
  <2> QED
    BY <2>1, <2>3, <2>4, ZenonT(30) DEF DropOK
<1>10. JoinOK'
  <2>1. \A s \in Res : m_valid'[s] => m_valid[s] /\ s \notin T
    BY <1>1, Zenon
  <2>2. \A s \in Res : m_valid'[s] /\ s \in m_slaves => s \in m_slaves'
    BY <1>1, <2>1, Zenon
  <2>3. m_new_slaves \cup gc_new \subseteq Res
    BY Zenon DEF IInv, TypeOK
  <2>4. \A q \in m_requests : q.slave # None => q.slave \in Res
    BY DEF IInv, TypeOK, Request
  <2>5. \A s \in m_new_slaves' \cup gc_new' : m_valid'[s] =>
           /\ s \in m_slaves'
           /\ \A w \in Workers : serves'[w] # None => s \in refs'[w]
    BY <1>1, <2>1, <2>2, <2>3 DEF IInv, JoinOK
  <2>6. \A q \in m_requests' : q.slave # None /\ m_valid'[q.slave] =>
           /\ q.slave \in m_slaves'
           /\ \A w \in q.flags : serves'[w] # None => q.slave \in refs'[w]
    BY <1>1, <2>1, <2>2, <2>4 DEF IInv, JoinOK
  <2> QED
    BY <2>5, <2>6, Zenon DEF JoinOK
<1>11. ThreadsOK'
  BY <1>1, Zenon DEF IInv, ThreadsOK
<1> QED
  BY <1>4, <1>5, <1>6, <1>7, <1>8, <1>9, <1>10, <1>11, Zenon DEF IInv

\* A finished GC thread is joined, and perhaps a new one is started, which
\* takes the new slaves over.
LEMMA GCReadyPreserves ==
    ASSUME IInv, NEW why \in {"urgent", "slaves", "interval", "no"}, gc_ready(why)
    PROVE  IInv'
<1>1. /\ cb = "gc" /\ at[GC] = "idle" /\ why \in Reasons /\ cb' = "reclaim"
      /\ m_consecutive_gcs' = CASE why = "slaves" -> m_consecutive_gcs + 1
                                [] why = "interval" -> 0
                                [] OTHER -> m_consecutive_gcs
      /\ UNCHANGED <<st, kind, m_valid, m_closed, fd, serves, using, m_drop_req,
                     m_slaves, m_requests, joins, thrown>>
  BY Zenon DEF gc_ready, objVars
<1>2. \/ /\ m_gc_thread' = FALSE /\ refs' = [refs EXCEPT ![GC] = {}] /\ gc_new' = {}
         /\ UNCHANGED <<at, m_new_slaves>>
      \/ /\ m_gc_thread' = TRUE /\ at' = [at EXCEPT ![GC] = "job"]
         /\ refs' = [refs EXCEPT ![GC] = m_slaves \cup m_new_slaves]
         /\ gc_new' = m_new_slaves /\ m_new_slaves' = {}
  BY Zenon DEF gc_ready
<1>3. /\ at' \in [Threads -> {"idle", "job", "in", "drop"}]
      /\ refs' \in [Threads -> SUBSET Res]
      /\ m_gc_thread' \in BOOLEAN
      /\ gc_new' \subseteq Res /\ m_new_slaves' \subseteq Res
  <2>1. CASE /\ m_gc_thread' = FALSE /\ refs' = [refs EXCEPT ![GC] = {}]
             /\ gc_new' = {} /\ UNCHANGED <<at, m_new_slaves>>
    BY <2>1, Zenon DEF IInv, TypeOK
  <2>2. CASE /\ m_gc_thread' = TRUE /\ at' = [at EXCEPT ![GC] = "job"]
             /\ refs' = [refs EXCEPT ![GC] = m_slaves \cup m_new_slaves]
             /\ gc_new' = m_new_slaves /\ m_new_slaves' = {}
    <3>1. m_slaves \cup m_new_slaves \in SUBSET Res
      BY Zenon DEF IInv, TypeOK
    <3> QED
      BY <2>2, <3>1, Zenon DEF IInv, TypeOK
  <2> QED
    BY <1>2, <2>1, <2>2, Zenon
<1>4. /\ at'[GC] \in {"idle", "job"}
      /\ ~m_gc_thread' => refs'[GC] = {} /\ gc_new' = {} /\ at'[GC] = "idle"
      /\ refs'[GC] \subseteq m_slaves \cup m_new_slaves
      /\ m_new_slaves' \cup gc_new' \subseteq m_new_slaves \cup gc_new
      /\ \A u \in Threads \ {GC} : at'[u] = at[u] /\ refs'[u] = refs[u]
  <2>1. CASE /\ m_gc_thread' = FALSE /\ refs' = [refs EXCEPT ![GC] = {}]
             /\ gc_new' = {} /\ UNCHANGED <<at, m_new_slaves>>
    BY <1>1, <2>1, ThreadKinds, Zenon DEF IInv, TypeOK
  <2>2. CASE /\ m_gc_thread' = TRUE /\ at' = [at EXCEPT ![GC] = "job"]
             /\ refs' = [refs EXCEPT ![GC] = m_slaves \cup m_new_slaves]
             /\ gc_new' = m_new_slaves /\ m_new_slaves' = {}
    BY <1>1, <2>2, ThreadKinds, Zenon DEF IInv, TypeOK
  <2> QED
    BY <1>2, <2>1, <2>2, Zenon
<1>5. \A w \in Workers : at'[w] = at[w] /\ refs'[w] = refs[w]
  BY <1>4, ThreadKinds, Zenon
<1>6. TypeOK'
  <2>1. m_consecutive_gcs' \in 0..MaxGCs
    BY <1>1, ReclaimAssumption DEF IInv, TypeOK, Reasons
  <2> QED
    BY <1>1, <1>3, <2>1, Zenon DEF IInv, TypeOK
<1>7. ThreadsOK'
  <2>1. \A w \in Workers : at'[w] = "idle" => refs'[w] = {} /\ serves[w] = None
    BY <1>5, Zenon DEF IInv, ThreadsOK
  <2>2. using[GC] = None
    BY <1>1, ThreadKinds, Zenon DEF IInv, ThreadsOK
  <2>3. \A u \in Threads : /\ using[u] # None <=> at'[u] \in {"in", "drop"}
                           /\ using[u] # None => using[u] \in refs'[u]
    BY <1>4, <2>2 DEF IInv, ThreadsOK
  <2> QED
    BY <1>1, <1>4, <2>1, <2>3, Zenon DEF ThreadsOK
<1>8. PointersOK'
  <2>1. Pointed' \subseteq Pointed
    BY <1>1, <1>4, Zenon DEF Pointed
  <2>2. \A w \in Workers : \A r \in refs'[w] : st'[r] # "free"
    BY <1>1, <1>5, ZenonT(30) DEF IInv, PointersOK
  <2>3. \A r \in Pointed' : st'[r] \in {"registered", "garbage"}
    BY <1>1, <2>1, Zenon DEF IInv, PointersOK
  <2>4. \A r \in m_slaves' : st'[r] = "registered"
    BY <1>1, Zenon DEF IInv, PointersOK
  <2> QED
    BY <2>2, <2>3, <2>4, Zenon DEF PointersOK
<1>9. \A q \in m_requests : q.flags \subseteq Workers
  BY DEF IInv, TypeOK, Request
<1>10. GarbageOK'
  BY <1>1, <1>5, <1>9 DEF IInv, GarbageOK
<1>11. DropOK'
  <2>1. \A t \in Threads : at'[t] = "drop" => at[t] = "drop"
    BY <1>4, Zenon
  <2> QED
    BY <1>1, <2>1 DEF IInv, DropOK, DropRequestsAreCurrent
<1>12. JoinOK'
  BY <1>1, <1>4, <1>5, <1>9 DEF IInv, JoinOK
<1>13. ObjectsOK' /\ UsedOK'
  BY <1>1, FrameObjects, Zenon DEF IInv, UsedOK
<1> QED
  BY <1>6, <1>7, <1>8, <1>10, <1>11, <1>12, <1>13, Zenon DEF IInv

\* The GC thread is left running.
LEMMA GCRunningPreserves ==
    ASSUME IInv, gc_still_running
    PROVE  IInv'
<1>1. /\ cb = "gc" /\ cb' = "reclaim"
      /\ UNCHANGED <<st, kind, m_valid, m_closed, fd, m_drop_req, at, refs, serves,
                     using, m_slaves, m_new_slaves, gc_new, m_gc_thread, m_requests,
                     m_consecutive_gcs, joins, thrown>>
  BY Zenon DEF gc_still_running, objVars, threadVars, slaveVars
<1>2. TypeOK'
  BY <1>1, Zenon DEF IInv, TypeOK
<1>3. PointersOK'
  <2>1. Pointed' = Pointed
    BY <1>1, Zenon DEF Pointed
  <2> QED
    BY <1>1, <2>1, Zenon DEF IInv, PointersOK
<1>4. ThreadsOK' /\ UsedOK'
  BY <1>1, Zenon DEF IInv, ThreadsOK, UsedOK
<1>5. ObjectsOK' /\ GarbageOK' /\ JoinOK'
  BY <1>1, FrameObjects, FrameGarbage, FrameJoin, Zenon DEF IInv
<1>6. DropOK'
  BY <1>1, Zenon DEF IInv, DropOK, DropRequestsAreCurrent
<1> QED
  BY <1>2, <1>3, <1>4, <1>5, <1>6, Zenon DEF IInv

\* Only reclaim and check change st without touching what is registered: the
\* flags, the descriptors and the removal requests are not affected.
LEMMA UnregisteredChange ==
    ASSUME IInv, UNCHANGED <<m_valid, fd, m_drop_req, at, using, thrown>>,
           \A r \in Res : /\ st'[r] = "registered" <=> st[r] = "registered"
                          /\ st'[r] # "free" => st[r] # "free"
                          /\ m_closed[r] => m_closed'[r]
                          /\ m_closed'[r] /\ ~m_closed[r] =>
                                st[r] # "registered" /\ ~InUse(r)
    PROVE  ObjectsOK' /\ UsedOK' /\ DropOK'
<1>1. ObjectsOK'
  <2>1. \A s \in Res : /\ m_valid'[s] => st'[s] = "registered"
                       /\ st'[s] = "registered" => ~m_closed'[s]
                       /\ st'[s] # "free" => fd'[s] \in Fds
    BY Zenon DEF IInv, ObjectsOK
  <2>2. \A s, u \in Res : st'[s] # "free" /\ ~m_closed'[s] /\ st'[u] # "free"
                          /\ ~m_closed'[u] /\ fd'[s] = fd'[u] => s = u
    BY Zenon DEF IInv, ObjectsOK
  <2> QED
    BY <2>1, <2>2, Zenon DEF ObjectsOK
<1>2. UsedOK'
  <2>1. \A t \in Threads : using[t] # None => using[t] \in Res /\ InUse(using[t])
    BY Zenon DEF IInv, TypeOK, InUse
  <2> QED
    BY <2>1 DEF IInv, UsedOK
<1>3. DropOK'
  <2>1. DropRequestsAreCurrent'
    BY Zenon DEF IInv, DropOK, DropRequestsAreCurrent
  <2>2. \A t \in Threads : at[t] = "drop" => using[t] \in Res
    BY Zenon DEF IInv, TypeOK, ThreadsOK
  <2> QED
    BY <2>1, <2>2 DEF IInv, DropOK
<1> QED
  BY <1>1, <1>2, <1>3, Zenon

\* fix_garbage and the request for gc().
LEMMA ReclaimPreserves ==
    ASSUME IInv, reclaim
    PROVE  IInv'
<1> DEFINE done == Complete(NewRequest(None))
<1>1. /\ cb = "reclaim" /\ cb' = "poll"
      /\ UNCHANGED <<kind, m_valid, fd, m_drop_req, at, refs, serves, using,
                     m_slaves, m_new_slaves, gc_new, m_gc_thread,
                     m_consecutive_gcs, joins>>
  BY Zenon DEF reclaim, threadVars, slaveVars
<1>2. CASE ~reactor_gc_ready
  <2>1. UNCHANGED <<st, m_closed, m_requests, thrown>>
    BY <1>2, Zenon DEF reclaim
  <2>2. TypeOK'
    BY <1>1, <2>1, Zenon DEF IInv, TypeOK
  <2>3. PointersOK'
    <3>1. Pointed' = Pointed
      BY <1>1, <2>1, Zenon DEF Pointed
    <3> QED
      BY <1>1, <2>1, <3>1, Zenon DEF IInv, PointersOK
  <2>4. ThreadsOK' /\ UsedOK'
    BY <1>1, <2>1, Zenon DEF IInv, ThreadsOK, UsedOK
  <2>5. ObjectsOK' /\ GarbageOK' /\ JoinOK'
    BY <1>1, <2>1, FrameObjects, FrameGarbage, FrameJoin, Zenon DEF IInv
  <2>6. DropOK'
    BY <1>1, <2>1, Zenon DEF IInv, DropOK, DropRequestsAreCurrent
  <2> QED
    BY <2>2, <2>3, <2>4, <2>5, <2>6, Zenon DEF IInv
<1>3. CASE reactor_gc_ready
  <2>1. m_requests = {} /\ m_new_slaves = {} /\ refs[GC] = {} /\ gc_new = {}
    BY <1>3, Zenon DEF reactor_gc_ready, IInv, ThreadsOK
  <2>2. \A r \in Res : st[r] # "fixed"
    BY <2>1, Zenon DEF IInv, GarbageOK
  <2>3. /\ m_closed' = [r \in Res |-> m_closed[r] \/ (st[r] = "garbage" /\ ~InUse(r))]
        /\ st' = [r \in Res |-> IF st[r] # "garbage" THEN st[r]
                                ELSE IF done THEN "free" ELSE "fixed"]
        /\ m_requests' = IF done THEN {} ELSE {NewRequest(None)}
        /\ UNCHANGED thrown
    BY <1>3, <2>2, Zenon DEF reclaim
  <2>4. /\ \A r \in Res : /\ st[r] # "garbage" => st'[r] = st[r]
                          /\ st[r] = "garbage" =>
                                st'[r] = IF done THEN "free" ELSE "fixed"
        /\ \A r \in Res : m_closed'[r] <=>
                             m_closed[r] \/ (st[r] = "garbage" /\ ~InUse(r))
    BY <2>3, Zenon
  <2>5. /\ NewRequest(None) \in Request /\ NewRequest(None).slave = None
        /\ NewRequest(None).flags = IdleWorkers
    BY DEF NewRequest, Request, IdleWorkers
  <2>6. \A w \in IdleWorkers : w \in Workers /\ refs[w] = {}
    BY Zenon DEF IdleWorkers, is_running, IInv, ThreadsOK
  <2>7. done => IdleWorkers = Workers
    BY <2>5, Zenon DEF Complete
  <2> HIDE DEF done
  <2>8. TypeOK'
    <3>1. st' \in [Res -> {"free", "registered", "garbage", "fixed"}]
      BY <2>3, Zenon DEF IInv, TypeOK
    <3>2. m_closed' \in [Res -> BOOLEAN]
      BY <2>3, Zenon
    <3>3. m_requests' \subseteq Request
      BY <2>3, <2>5, Zenon
    <3> QED
      BY <1>1, <2>3, <3>1, <3>2, <3>3, Zenon DEF IInv, TypeOK
  <2>9. ObjectsOK' /\ UsedOK' /\ DropOK'
    <3>1. \A r \in Res : /\ st'[r] = "registered" <=> st[r] = "registered"
                         /\ st'[r] # "free" => st[r] # "free"
      BY <2>4, Zenon
    <3>2. \A r \in Res : /\ m_closed[r] => m_closed'[r]
                         /\ m_closed'[r] /\ ~m_closed[r] =>
                               st[r] # "registered" /\ ~InUse(r)
      BY <2>4, Zenon
    <3> QED
      BY <1>1, <2>3, <3>1, <3>2, UnregisteredChange, Zenon
  <2>10. PointersOK'
    <3>1. \A r \in Pointed' : r \in m_slaves
      <4>1. \A q \in m_requests' : q.slave = None
        BY <2>3, <2>5, Zenon
      <4> QED
        BY <1>1, <2>1, <4>1 DEF Pointed
    <3>2. \A r \in m_slaves : r \in Res /\ st[r] = "registered"
      BY <1>1, Zenon DEF IInv, PointersOK, TypeOK
    <3>3. \A r \in Pointed' : st'[r] \in {"registered", "garbage"}
      BY <2>4, <3>1, <3>2
    <3>4. \A w \in Workers : \A r \in refs'[w] : st'[r] # "free"
      <4>1. \A w \in Workers : refs[w] \subseteq Res
        BY ThreadKinds, Zenon DEF IInv, TypeOK
      <4>2. CASE done
        BY <1>1, <2>6, <2>7, <4>2, Zenon
      <4>3. CASE ~done
        BY <1>1, <2>4, <4>1, <4>3 DEF IInv, PointersOK
      <4> QED
        BY <4>2, <4>3, Zenon
    <3> QED
      BY <1>1, <3>3, <3>4, Zenon DEF PointersOK
  <2>11. GarbageOK'
    <3>1. \A r \in Res : st'[r] = "fixed" => \E q \in m_requests' : q.slave = None
      BY <2>2, <2>3, <2>4, <2>5
    <3>2. \A q \in m_requests' : \A w \in q.flags : refs'[w] = {}
      BY <1>1, <2>3, <2>5, <2>6
    <3> QED
      BY <3>1, <3>2, ZenonT(30) DEF GarbageOK
  <2>12. JoinOK'
    BY <1>1, <2>1, <2>3, <2>5 DEF JoinOK
  <2>13. ThreadsOK'
    BY <1>1, Zenon DEF IInv, ThreadsOK
  <2> QED
    BY <2>8, <2>9, <2>10, <2>11, <2>12, <2>13, Zenon DEF IInv
<1> QED
  BY <1>2, <1>3, Zenon

\* What marking the idle workers does to the requests.
LEMMA MarkedFacts ==
    ASSUME IInv
    PROVE  /\ Marked \subseteq Request
           /\ \A p \in Marked : \E q \in m_requests :
                 p.slave = q.slave /\ p.flags = q.flags \cup IdleWorkers
           /\ \A q \in m_requests : \E p \in Marked : p.slave = q.slave
<1>1. \A q \in m_requests :
         /\ q \in Request
         /\ [q EXCEPT !.flags = @ \cup IdleWorkers] \in Request
         /\ [q EXCEPT !.flags = @ \cup IdleWorkers].slave = q.slave
         /\ [q EXCEPT !.flags = @ \cup IdleWorkers].flags = q.flags \cup IdleWorkers
  BY DEF IInv, TypeOK, Request, IdleWorkers
<1> QED
  BY <1>1, Zenon DEF Marked

\* syncer::check: the callbacks of the requests every worker has been idle
\* for.  What gc() destroys is not pointed to, and the new slaves are known to
\* every job.
LEMMA CheckPreserves ==
    ASSUME IInv, check
    PROVE  IInv'
<1> DEFINE ready == {q \in Marked : Complete(q)}
           purge == \E q \in ready : q.slave = None
<1>1. /\ cb' = "slaves" /\ m_requests' = Marked \ ready
      /\ m_new_slaves' = m_new_slaves \cup ({q.slave : q \in ready} \ {None})
      /\ st' = IF purge THEN [r \in Res |-> IF st[r] = "fixed" THEN "free" ELSE st[r]]
               ELSE st
      /\ UNCHANGED <<kind, m_valid, m_closed, fd, m_drop_req, at, refs, serves, using,
                     m_slaves, gc_new, m_gc_thread, m_consecutive_gcs, joins, thrown>>
  BY Zenon DEF check, Callbacks, threadVars
<1>2. \A w \in IdleWorkers : w \in Workers /\ refs[w] = {} /\ serves[w] = None
  BY Zenon DEF IdleWorkers, is_running, IInv, ThreadsOK
<1>3. \A q \in m_requests : /\ q.flags \subseteq Workers
                            /\ q.slave \in Res \cup {None}
  BY DEF IInv, TypeOK, Request
<1>4. \A p \in ready : \E q \in m_requests :
         p.slave = q.slave /\ Workers \subseteq q.flags \cup IdleWorkers
  BY MarkedFacts, Zenon DEF Complete
<1>5. \A p \in m_requests' : /\ p \in Request
                             /\ \E q \in m_requests : /\ p.slave = q.slave
                                                      /\ p.flags = q.flags \cup IdleWorkers
  BY <1>1, MarkedFacts, Zenon
<1>6. \A q \in m_requests : q.slave = None /\ ~purge =>
         \E p \in m_requests' : p.slave = None
  BY <1>1, MarkedFacts, Zenon
<1> HIDE DEF ready, purge
<1>7. \A r \in Res : /\ st[r] # "fixed" => st'[r] = st[r]
                     /\ st[r] = "fixed" => st'[r] = IF purge THEN "free" ELSE "fixed"
  BY <1>1, Zenon
<1>8. purge => \E q \in m_requests : /\ q.slave = None
                                     /\ Workers \subseteq q.flags \cup IdleWorkers
  BY <1>4, Zenon DEF purge
<1>9. purge => \A w \in Workers : \A r \in refs[w] : st[r] # "fixed"
  BY <1>2, <1>8 DEF IInv, GarbageOK
<1>10. \A w \in Workers : refs[w] \subseteq Res
  BY ThreadKinds, Zenon DEF IInv, TypeOK
<1>11. TypeOK'
  <2>1. st' \in [Res -> {"free", "registered", "garbage", "fixed"}]
    BY <1>1, Zenon DEF IInv, TypeOK
  <2>2. m_requests' \subseteq Request
    BY <1>5, ZenonT(30)
  <2>3. m_new_slaves' \subseteq Res
    <3>1. \A p \in ready : p.slave \in Res \cup {None}
      BY <1>3, <1>4, Zenon
    <3> QED
      BY <1>1, <3>1 DEF IInv, TypeOK
  <2> QED
    BY <1>1, <2>1, <2>2, <2>3, Zenon DEF IInv, TypeOK
<1>12. ObjectsOK' /\ UsedOK' /\ DropOK'
  <2>1. \A r \in Res : /\ st'[r] = "registered" <=> st[r] = "registered"
                       /\ st'[r] # "free" => st[r] # "free"
    BY <1>7, Zenon
  <2>2. \A r \in Res : /\ m_closed[r] => m_closed'[r]
                       /\ m_closed'[r] /\ ~m_closed[r] =>
                             st[r] # "registered" /\ ~InUse(r)
    BY <1>1, Zenon
  <2> QED
    BY <1>1, <2>1, <2>2, UnregisteredChange, Zenon
<1>13. PointersOK'
  <2>1. \A p \in ready : p.slave # None => p.slave \in Pointed
    BY <1>4, PointedParts, Zenon
  <2>2. \A p \in m_requests' : p.slave # None => p.slave \in Pointed
    BY <1>5, PointedParts, ZenonT(30)
  <2>3. Pointed' \subseteq Pointed
    <3>1. m_new_slaves' \subseteq Pointed
      BY <1>1, <2>1, PointedParts, Zenon
    <3>2. m_slaves' \cup gc_new' \cup refs'[GC] \subseteq Pointed
      BY <1>1, Zenon DEF Pointed
    <3> QED
      BY <2>2, <3>1, <3>2 DEF Pointed
  <2>4. Pointed \subseteq Res
    BY PointedAreSockets, Zenon DEF IInv
  <2>5. \A r \in Pointed' : st'[r] \in {"registered", "garbage"}
    BY <1>7, <2>3, <2>4 DEF IInv, PointersOK
  <2>6. \A w \in Workers : \A r \in refs'[w] : st'[r] # "free"
    BY <1>1, <1>7, <1>9, <1>10 DEF IInv, PointersOK
  <2>7. cb' \notin {"gc", "reclaim"}
    BY <1>1, Zenon
  <2> QED
    BY <2>5, <2>6, <2>7, Zenon DEF PointersOK
<1>14. GarbageOK'
  <2>1. \A r \in Res : st'[r] = "fixed" => st[r] = "fixed" /\ ~purge
    BY <1>7, Zenon
  <2>2. \A r \in Res : st'[r] = "fixed" => \E q \in m_requests' : q.slave = None
    BY <1>6, <2>1, Zenon DEF IInv, GarbageOK
  <2>3. ASSUME NEW p \in m_requests', p.slave = None, NEW w \in p.flags,
               NEW r \in refs'[w], st'[r] = "fixed"
        PROVE  FALSE
    <3>1. PICK q \in m_requests : /\ p.slave = q.slave
                                  /\ p.flags = q.flags \cup IdleWorkers
      BY <1>5, Zenon
    <3>2. w \in Workers /\ r \in refs[w]
      BY <1>1, <1>2, <1>3, <2>3, <3>1, Zenon
    <3>3. st[r] = "fixed"
      BY <1>10, <2>1, <2>3, <3>2, Zenon
    <3>4. w \in q.flags
      BY <1>2, <2>3, <3>1, <3>2, Zenon
    <3> QED
      BY <2>3, <3>1, <3>2, <3>3, <3>4, Zenon DEF IInv, GarbageOK
  <2> QED
    BY <2>2, <2>3, Zenon DEF GarbageOK
<1>15. JoinOK'
  <2>1. ASSUME NEW p \in ready, p.slave # None, m_valid[p.slave]
        PROVE  /\ p.slave \in m_slaves
               /\ \A w \in Workers : serves[w] # None => p.slave \in refs[w]
    <3>1. PICK q \in m_requests : /\ p.slave = q.slave
                                  /\ Workers \subseteq q.flags \cup IdleWorkers
      BY <1>4, <2>1, Zenon
    <3>2. /\ q.slave \in m_slaves
          /\ \A w \in q.flags : serves[w] # None => q.slave \in refs[w]
      BY <2>1, <3>1, ZenonT(30) DEF IInv, JoinOK
    <3> QED
      BY <1>2, <3>1, <3>2
  <2>2. \A s \in m_new_slaves' \cup gc_new' : m_valid'[s] =>
           /\ s \in m_slaves'
           /\ \A w \in Workers : serves'[w] # None => s \in refs'[w]
    <3> SUFFICES ASSUME NEW s \in m_new_slaves' \cup gc_new', m_valid'[s]
                 PROVE  /\ s \in m_slaves
                        /\ \A w \in Workers : serves[w] # None => s \in refs[w]
      BY <1>1, Zenon
    <3>1. CASE s \in m_new_slaves \cup gc_new
      BY <1>1, <3>1, Zenon DEF IInv, JoinOK
    <3>2. CASE \E p \in ready : p.slave = s /\ s # None
      BY <1>1, <2>1, <3>2, Zenon
    <3> QED
      BY <1>1, <3>1, <3>2, Zenon
  <2>3. ASSUME NEW p \in m_requests', p.slave # None, m_valid[p.slave]
        PROVE  /\ p.slave \in m_slaves
               /\ \A w \in p.flags : serves[w] # None => p.slave \in refs[w]
    <3>1. PICK q \in m_requests : /\ p.slave = q.slave
                                  /\ p.flags = q.flags \cup IdleWorkers
      BY <1>5, Zenon
    <3>2. /\ q.slave \in m_slaves
          /\ \A w \in q.flags : serves[w] # None => q.slave \in refs[w]
      BY <2>3, <3>1, ZenonT(30) DEF IInv, JoinOK
    <3> QED
      BY <1>2, <3>1, <3>2
  <2>4. \A q \in m_requests' : q.slave # None /\ m_valid'[q.slave] =>
           /\ q.slave \in m_slaves'
           /\ \A w \in q.flags : serves'[w] # None => q.slave \in refs'[w]
    BY <1>1, <2>3
  <2> QED
    BY <2>2, <2>4, Zenon DEF JoinOK
<1>16. ThreadsOK'
  BY <1>1, Zenon DEF IInv, ThreadsOK
<1> QED
  BY <1>11, <1>12, <1>13, <1>14, <1>15, <1>16, Zenon DEF IInv

-----------------------------------------------------------------------------
\* The invariant is inductive: every step of a thread, of the reactor between
\* two callbacks and of the callback preserves it.
LEMMA IInvIsInductive ==
    ASSUME IInv, [Next]_vars PROVE IInv'
<1>1. ASSUME NEW t \in Threads, Thread(t) PROVE IInv'
  BY <1>1, EnterPreserves, LeavePreserves, InvalidatePreserves, EndJobPreserves, Zenon
     DEF Thread
<1>2. CASE callback
  BY <1>2, CheckPreserves, CheckSlavesPreserves, GCReadyPreserves,
     GCRunningPreserves, ReclaimPreserves, Zenon DEF callback
<1>3. CASE UNCHANGED vars
  <2>1. UNCHANGED <<st, kind, m_valid, m_closed, fd, m_drop_req, at, refs, serves,
                    using, m_slaves, m_new_slaves, gc_new, m_gc_thread, m_requests,
                    m_consecutive_gcs, cb, joins, thrown>>
    BY <1>3, Zenon DEF vars
  <2>2. TypeOK'
    BY <2>1, Zenon DEF IInv, TypeOK
  <2>3. ThreadsOK' /\ UsedOK'
    BY <2>1, Zenon DEF IInv, ThreadsOK, UsedOK
  <2>4. DropOK'
    BY <2>1, Zenon DEF IInv, DropOK, DropRequestsAreCurrent
  <2>5. ObjectsOK' /\ PointersOK' /\ GarbageOK' /\ JoinOK'
    BY <2>1, FrameObjects, FramePointers, FrameGarbage, FrameJoin, Zenon DEF IInv
  <2> QED
    BY <2>2, <2>3, <2>4, <2>5, Zenon DEF IInv
<1> QED
  BY <1>1, <1>2, <1>3, ClientPreserves, SlavePreserves, PostPreserves,
     HangupPreserves, DropPreserves, Zenon DEF Next

\* No socket, no job and no request at the start.
LEMMA InitIInv == Init => IInv
<1> SUFFICES ASSUME Init PROVE IInv
  BY Zenon
<1>1. TypeOK
  <2>1. 0 \in 0..MaxGCs /\ 0 \in 0..MaxJoins
    BY ReclaimAssumption
  <2> QED
    BY <2>1, Zenon DEF Init, TypeOK
<1>2. ThreadsOK
  BY ThreadKinds, Zenon DEF Init, ThreadsOK
<1>3. ObjectsOK /\ UsedOK
  BY Zenon DEF Init, ObjectsOK, UsedOK
<1>4. PointersOK
  <2>1. Pointed = {}
    BY ThreadKinds DEF Init, Pointed
  <2> QED
    BY <2>1, ThreadKinds, ZenonT(30) DEF Init, PointersOK
<1>5. GarbageOK /\ JoinOK
  BY Zenon DEF Init, GarbageOK, JoinOK
<1>6. DropOK
  BY Zenon DEF Init, DropOK, DropRequestsAreCurrent
<1> QED
  BY <1>1, <1>2, <1>3, <1>4, <1>5, <1>6, Zenon DEF IInv

\* The invariant holds throughout.
THEOREM Invariance == Spec => []IInv
BY InitIInv, IInvIsInductive, PTL DEF Spec

\* No pointer to a destroyed socket is ever left, with a worker, with the GC
\* thread, in the slave lists or in a sync_request, whatever the order in which
\* jobs, GC runs, disconnections and callbacks come.
THEOREM NoDanglingPointersHolds == Spec => []NoDanglingPointers
<1>1. ASSUME IInv PROVE NoDanglingPointers
  <2>1. \A r \in Pointed : r \in Live
    BY <1>1, PointedAreSockets, Zenon DEF IInv, PointersOK, Live
  <2>2. \A t \in Threads : refs[t] \subseteq Live
    <3>1. refs[GC] \subseteq Live
      BY <2>1, Zenon DEF Pointed
    <3>2. \A w \in Workers : refs[w] \subseteq Live
      BY <1>1, ThreadKinds, Zenon DEF IInv, PointersOK, TypeOK, Live
    <3> QED
      BY <3>1, <3>2, Zenon DEF Threads
  <2>3. m_slaves \cup m_new_slaves \cup gc_new \subseteq Live
    BY <2>1, Zenon DEF Pointed
  <2>4. \A q \in m_requests : q.slave # None => q.slave \in Live
    BY <2>1, PointedParts, ZenonT(30)
  <2> QED
    BY <1>1, <2>2, <2>3, <2>4, Zenon DEF IInv, NoDanglingPointers
<1> QED
  BY <1>1, Invariance, PTL

\* A thread inside with_fd always works on an open descriptor that no other
\* socket has.
THEOREM NoUseOfClosedFdHolds == Spec => []NoUseOfClosedFd
<1>1. ASSUME IInv PROVE NoUseOfClosedFd
  <2> SUFFICES ASSUME NEW t \in Threads, using[t] # None
               PROVE  /\ ~m_closed[using[t]]
                      /\ \A r \in Live : fd[r] = fd[using[t]] /\ ~m_closed[r] =>
                                            r = using[t]
    BY Zenon DEF NoUseOfClosedFd
  <2>1. using[t] \in Res /\ ~m_closed[using[t]]
    BY <1>1, Zenon DEF IInv, TypeOK, UsedOK
  <2>2. st[using[t]] # "free"
    <3>1. using[t] \in refs[t]
      BY <1>1, Zenon DEF IInv, ThreadsOK
    <3> QED
      BY <1>1, <2>1, <3>1, FreeIsUnknown, Zenon
  <2> QED
    BY <1>1, <2>1, <2>2, ZenonT(30) DEF IInv, ObjectsOK, Live
<1> QED
  BY <1>1, Invariance, PTL

\* Every removal request names the socket it was made for, and the reactor
\* never throws.
THEOREM DropRequestsAreCurrentHolds == Spec => []DropRequestsAreCurrent
<1>1. IInv => DropRequestsAreCurrent
  BY Zenon DEF IInv, DropOK
<1> QED
  BY <1>1, Invariance, PTL

\* When the GC thread copies the hash to a new slave, every client's job in
\* progress replicates its updates to that slave.
THEOREM NewSlavesMissNothingHolds == Spec => []NewSlavesMissNothing
<1>1. IInv => NewSlavesMissNothing
  BY Zenon DEF IInv, JoinOK, NewSlavesMissNothing
<1> QED
  BY <1>1, Invariance, PTL
=============================================================================
