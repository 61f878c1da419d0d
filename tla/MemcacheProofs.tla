--------------------------- MODULE MemcacheProofs ---------------------------
(***************************************************************************)
(* The lock records of Memcache agree in every reachable state, for any    *)
(* sets of keys, connections, descriptors and workers.                     *)
(***************************************************************************)
EXTENDS Memcache, TLAPS

\* The pcs a job has once it has received requests: its context is then set.
Contexted == {"exec", "unlock", "quit", "deny"}

\* A worker with a job serves a socket that is neither destroyed nor being
\* destroyed.
JobsAreAlive ==
    \A w \in Workers :
        /\ pc[w] = "idle" => job[w] = NoConn
        /\ pc[w] # "idle" => job[w] \in Conns /\ st[job[w]] \notin {"free", "dead"}

\* The pcs of a job that has tried to set its context.
Started == {"recv", "leave"}

\* The context of a worker that executes commands is its socket's descriptor,
\* and so is that of a job that has started on a socket which is still valid.
ContextIsFd ==
    \A w \in Workers :
        (\/ pc[w] \in Contexted
         \/ pc[w] \in Started /\ st[job[w]] = "open") => g_context[w] = fd[job[w]]

FdsAreNumbers == \A c \in Conns : st[c] # "free" => fd[c] \in Fds

\* The states of a socket whose descriptor is not closed.
Unclosed == {"open", "gone", "removed"}

\* The kernel hands out a number again only when it has been closed.
OpenFdsDiffer ==
    \A c, d \in Conns :
        c # d /\ st[c] \in Unclosed /\ st[d] \in Unclosed => fd[c] # fd[d]

\* The inductive invariant: LockOwnership needs to know that a command runs
\* with the right context and that a socket in use has a descriptor, and the
\* action properties that two sockets share a number only if one is closed.
IInv ==
    /\ TypeOK /\ LockOwnership /\ JobsAreAlive /\ ContextIsFd /\ FdsAreNumbers
    /\ OpenFdsDiffer

-----------------------------------------------------------------------------
\* An object is told from an empty slot.
LEMMA ObjectsExist == NoObject \notin Object
BY DEF Object, NoObject

\* Nobody holds the lock of an unlocked object.
LEMMA UnlockedIsUnheld ==
    ASSUME IInv, NEW k \in Keys, ~locked(m_hash[k])
    PROVE  \A c \in Conns : k \notin m_locks[c]
<1>1. SUFFICES ASSUME NEW c \in Conns, k \in m_locks[c] PROVE FALSE
  BY Zenon
<1>2. m_hash[k].lock = fd[c] /\ st[c] # "free"
  BY <1>1, Zenon DEF IInv, LockOwnership
<1>3. fd[c] \in Fds
  BY <1>2, Zenon DEF IInv, FdsAreNumbers
<1> QED
  BY <1>2, <1>3, MemcacheAssumption DEF locked, NoLock

\* A step that stores an object and keeps its lock preserves the invariant.
LEMMA PutPreserves ==
    ASSUME IInv, NEW k \in Keys, NEW o \in Object,
           o.lock = m_hash[k].lock, Put(k, o)
    PROVE  IInv'
<1> USE DEF Put, sockVars, workVars, timeVars
<1>1. TypeOK'
  BY Zenon DEF IInv, TypeOK
<1>2. LockOwnership'
  <2>1. o # NoObject
    BY DEF Object, NoObject
  <2>2. \A x \in Keys : m_hash'[x].lock = m_hash[x].lock /\ (Exists(x) => Exists(x)')
    BY <2>1, Zenon DEF IInv, TypeOK, Exists
  <2> QED
    BY <2>2 DEF IInv, TypeOK, LockOwnership, locked
<1> QED
  BY <1>1, <1>2, Zenon DEF IInv, JobsAreAlive, ContextIsFd, FdsAreNumbers, OpenFdsDiffer

\* A step that locks k for socket c preserves the invariant, when k is
\* unlocked and the lock it is given is the descriptor of c.
LEMMA TakeLockPreserves ==
    ASSUME IInv, NEW c \in Conns, NEW k \in Keys, NEW o \in Object,
           ~locked(m_hash[k]), o.lock = fd[c], st[c] # "free",
           m_hash' = [m_hash EXCEPT ![k] = o],
           m_locks' = [m_locks EXCEPT ![c] = @ \cup {k}],
           UNCHANGED <<sockVars, workVars, timeVars, thrown>>
    PROVE  IInv'
<1> USE DEF sockVars, workVars, timeVars
<1>1. TypeOK'
  BY Zenon DEF IInv, TypeOK
<1>2. LockOwnership'
  <2>1. \A d \in Conns : k \notin m_locks[d]
    BY UnlockedIsUnheld, Zenon
  <2>2. \A x \in Keys : x # k => m_hash'[x] = m_hash[x]
    BY Zenon DEF IInv, TypeOK
  <2>3. m_hash'[k] = o /\ o # NoObject
    BY DEF IInv, TypeOK, Object, NoObject
  <2>4. \A d \in Conns : m_locks'[d] = IF d = c THEN m_locks[d] \cup {k} ELSE m_locks[d]
    BY Zenon DEF IInv, TypeOK
  <2>5. \A d \in Conns : \A x \in m_locks'[d] :
           Exists(x)' /\ m_hash'[x].lock = fd'[d] /\ st'[d] # "free"
    <3> SUFFICES ASSUME NEW d \in Conns, NEW x \in m_locks'[d]
                 PROVE  Exists(x)' /\ m_hash'[x].lock = fd'[d] /\ st'[d] # "free"
      BY Zenon
    <3>1. CASE x = k
      BY <3>1, <2>1, <2>3, <2>4, Zenon DEF Exists
    <3>2. CASE x # k
      BY <3>2, <2>2, <2>4 DEF IInv, TypeOK, LockOwnership, Exists
    <3> QED
      BY <3>1, <3>2, Zenon
  <2>6. \A x \in Keys : locked(m_hash'[x]) => \E d \in Conns : x \in m_locks'[d]
    BY <2>2, <2>4 DEF IInv, LockOwnership
  <2>7. \A d, e \in Conns : d # e => m_locks'[d] \cap m_locks'[e] = {}
    BY <2>1, <2>4 DEF IInv, LockOwnership
  <2> QED
    BY <2>5, <2>6, <2>7, Zenon DEF LockOwnership, locked
<1> QED
  BY <1>1, <1>2, Zenon DEF IInv, JobsAreAlive, ContextIsFd, FdsAreNumbers, OpenFdsDiffer

\* AddLock, in a command of worker w.
LEMMA AddLockPreserves ==
    ASSUME IInv, NEW w \in Workers, NEW k \in Keys, NEW o \in Object,
           pc[w] = "exec", ~locked(m_hash[k]), AddLock(w, k, o)
    PROVE  IInv'
<1>1. job[w] \in Conns /\ st[job[w]] # "free" /\ g_context[w] = fd[job[w]]
  BY Zenon DEF IInv, JobsAreAlive, ContextIsFd, Contexted
<1>2. lock(w, o) \in Object /\ lock(w, o).lock = fd[job[w]]
  BY <1>1, Zenon DEF lock, Object, IInv, TypeOK
<1>3. /\ m_hash' = [m_hash EXCEPT ![k] = lock(w, o)]
      /\ m_locks' = [m_locks EXCEPT ![job[w]] = @ \cup {k}]
      /\ UNCHANGED <<sockVars, workVars, timeVars, thrown>>
  BY Zenon DEF AddLock
<1> QED
  BY <1>1, <1>2, <1>3, TakeLockPreserves, ZenonT(30)

\* A step that takes k from the locks of socket c and leaves k unlocked or
\* removed preserves the invariant, when c holds k or nobody does.
LEMMA DropLockPreserves ==
    ASSUME IInv, NEW c \in Conns, NEW k \in Keys, NEW o \in Object \cup {NoObject},
           o.lock = NoLock,
           k \in m_locks[c] \/ ~locked(m_hash[k]),
           m_hash' = [m_hash EXCEPT ![k] = o],
           m_locks' = [m_locks EXCEPT ![c] = @ \ {k}],
           UNCHANGED <<sockVars, workVars, timeVars, thrown>>
    PROVE  IInv'
<1> USE DEF sockVars, workVars, timeVars
<1>1. TypeOK'
  BY Zenon DEF IInv, TypeOK
<1>2. LockOwnership'
  <2>1. \A d \in Conns : k \notin m_locks'[d]
    BY UnlockedIsUnheld, Zenon DEF IInv, TypeOK, LockOwnership
  <2>2. \A d \in Conns : m_locks'[d] \subseteq m_locks[d]
                         /\ \A x \in m_locks[d] : x # k => x \in m_locks'[d]
    BY Zenon DEF IInv, TypeOK
  <2>3. \A x \in Keys : x # k => m_hash'[x] = m_hash[x]
    BY Zenon DEF IInv, TypeOK
  <2>4. ~locked(m_hash'[k])
    BY Zenon DEF IInv, TypeOK, locked
  <2>5. \A d \in Conns : \A x \in m_locks'[d] :
           Exists(x)' /\ m_hash'[x].lock = fd'[d] /\ st'[d] # "free"
    BY <2>1, <2>2, <2>3 DEF IInv, TypeOK, LockOwnership, Exists
  <2>6. \A x \in Keys : locked(m_hash'[x]) => \E d \in Conns : x \in m_locks'[d]
    BY <2>2, <2>3, <2>4, Zenon DEF IInv, LockOwnership
  <2>7. \A d, e \in Conns : d # e => m_locks'[d] \cap m_locks'[e] = {}
    BY <2>2, Zenon DEF IInv, LockOwnership
  <2> QED
    BY <2>5, <2>6, <2>7, Zenon DEF LockOwnership, locked
<1> QED
  BY <1>1, <1>2, Zenon DEF IInv, JobsAreAlive, ContextIsFd, FdsAreNumbers, OpenFdsDiffer

\* A throw changes nothing but the flag.
LEMMA ThrowPreserves ==
    ASSUME IInv, Throw PROVE IInv'
BY ZenonT(30) DEF Throw, IInv, TypeOK, LockOwnership, JobsAreAlive, ContextIsFd,
       FdsAreNumbers, OpenFdsDiffer, Exists, locked, sockVars, workVars, timeVars

-----------------------------------------------------------------------------
\* The member functions of object keep it an object and, but for unlock, keep
\* its lock.
LEMMA ObjectOps ==
    ASSUME NEW o \in Object, NEW e \in Exptimes
    PROVE  /\ touch(o, e) \in Object /\ touch(o, e).lock = o.lock
           /\ set(o, e) \in Object /\ set(o, e).lock = o.lock
<1>1. touch(o, e) \in Object /\ touch(o, e).lock = o.lock
  BY MemcacheAssumption DEF touch, Object
<1>2. set(o, e) \in Object /\ set(o, e).lock = o.lock
  BY MemcacheAssumption DEF set, Object
<1> QED
  BY <1>1, <1>2, Zenon

\* A new object is unlocked.
LEMMA NewObjectType ==
    ASSUME NEW e \in Exptimes
    PROVE  NewObject(e) \in Object /\ NewObject(e).lock = NoLock
BY MemcacheAssumption DEF NewObject, Object

\* The same for the functions without an expiration time; unlock unlocks.
LEMMA ObjectOps2 ==
    ASSUME NEW o \in Object
    PROVE  /\ unlock(o) \in Object /\ unlock(o).lock = NoLock
           /\ survive(o) \in Object /\ survive(o).lock = o.lock
           /\ data(o) \in Object /\ data(o).lock = o.lock
           /\ modify(o) \in Object /\ modify(o).lock = o.lock
<1>1. unlock(o) \in Object /\ unlock(o).lock = NoLock
  BY Zenon DEF unlock, Object
<1>2. survive(o) \in Object /\ survive(o).lock = o.lock
  BY MemcacheAssumption DEF survive, Object
<1>3. data(o) \in Object /\ data(o).lock = o.lock
  BY MemcacheAssumption DEF data, Object
<1>4. modify(o) \in Object /\ modify(o).lock = o.lock
  BY MemcacheAssumption DEF modify, set, Object
<1> QED
  BY <1>1, <1>2, <1>3, <1>4, Zenon

\* An empty slot of the hash counts as unlocked.
LEMMA NoObjectIsUnlocked == NoObject.lock = NoLock
BY Zenon DEF NoObject

\* The unlocking of an object the socket of worker w holds.
LEMMA RemoveLockPreserves ==
    ASSUME IInv, NEW w \in Workers, NEW k \in Keys, NEW o \in Object,
           pc[w] = "exec", RemoveLock(w, k, o)
    PROVE  IInv'
<1>1. CASE k \notin m_locks[job[w]]
  BY <1>1, ThrowPreserves, Zenon DEF RemoveLock
<1>2. CASE k \in m_locks[job[w]]
  <2>1. job[w] \in Conns
    BY Zenon DEF IInv, JobsAreAlive
  <2>2. unlock(o) \in Object /\ unlock(o).lock = NoLock
    BY ObjectOps2, Zenon
  <2> QED
    BY <1>2, <2>1, <2>2, DropLockPreserves, Zenon DEF RemoveLock
<1> QED
  BY <1>1, <1>2, Zenon

\* Delete removes an object that is unlocked or held by its own socket.
LEMMA DeletePreserves ==
    ASSUME IInv, NEW w \in Workers, NEW k \in Keys, NEW cas \in CasArgs,
           Delete(w, k, cas)
    PROVE  IInv'
<1>1. job[w] \in Conns
  BY Zenon DEF IInv, JobsAreAlive, Delete, Executing
<1>2. CASE locked_by_self(w, m_hash[k]) /\ k \notin m_locks[job[w]]
  BY <1>2, ThrowPreserves, Zenon DEF Delete
<1>3. CASE locked_by_self(w, m_hash[k]) /\ k \in m_locks[job[w]]
  BY <1>1, <1>3, DropLockPreserves, NoObjectIsUnlocked, Zenon DEF Delete
<1>4. CASE ~locked_by_self(w, m_hash[k])
  <2>1. ~locked(m_hash[k])
    BY <1>4, Zenon DEF Delete, locked_by_other
  <2>2. k \notin m_locks[job[w]]
    BY <1>1, <2>1, UnlockedIsUnheld, Zenon
  <2>3. m_locks \in [Conns -> SUBSET Keys]
    BY Zenon DEF IInv, TypeOK
  <2>4. m_locks' = [m_locks EXCEPT ![job[w]] = @ \ {k}]
    BY <1>1, <1>4, <2>2, <2>3, Zenon DEF Delete
  <2>5. /\ m_hash' = [m_hash EXCEPT ![k] = NoObject]
        /\ UNCHANGED <<sockVars, workVars, timeVars, thrown>>
    BY <1>4, Zenon DEF Delete
  <2> QED
    BY <1>1, <2>1, <2>4, <2>5, DropLockPreserves, NoObjectIsUnlocked, ZenonT(30)
<1> QED
  BY <1>2, <1>3, <1>4, Zenon

\* Set, add and replace keep the lock of the object they find or create.
LEMMA StorePreserves ==
    ASSUME IInv, NEW w \in Workers, NEW k \in Keys, NEW cas, NEW cmd,
           NEW e \in Exptimes, Store(w, k, cmd, cas, e)
    PROVE  IInv'
<1>1. CASE Exists(k)
  <2>1. m_hash[k] \in Object
    BY <1>1, Zenon DEF IInv, TypeOK, Exists
  <2> QED
    BY <1>1, <2>1, ObjectOps, PutPreserves, Zenon DEF Store
<1>2. CASE ~Exists(k)
  BY <1>2, NewObjectType, PutPreserves, NoObjectIsUnlocked, Zenon DEF Store, Exists
<1> QED
  BY <1>1, <1>2, Zenon

\* Every command of the binary protocol.
LEMMA BinaryPreserves ==
    ASSUME IInv, NEW w \in Workers, NEW k \in Keys, cmd_bin(w, k)
    PROVE  IInv'
<1>0. Exists(k) => m_hash[k] \in Object
  BY Zenon DEF IInv, TypeOK, Exists
<1>1. CASE Get(w, k)
  BY <1>0, <1>1, ObjectOps2, PutPreserves, Zenon DEF Get
<1>2. CASE \E e \in Exptimes : GaT(w, k, e) \/ Touch(w, k, e)
  BY <1>0, <1>2, ObjectOps, PutPreserves, Zenon DEF GaT, Touch
<1>3. CASE \E cmd \in {"set", "add", "replace"}, cas \in CasArgs, e \in Exptimes :
              Store(w, k, cmd, cas, e)
  BY <1>3, StorePreserves, Zenon
<1>4. CASE \E cas \in CasArgs : Append(w, k, cas) \/ Increment(w, k, cas)
  BY <1>0, <1>4, ObjectOps2, PutPreserves, Zenon DEF Append, Increment, Modify
<1>5. CASE \E e \in Exptimes : IncrementCreate(w, k, e)
  BY <1>5, NewObjectType, PutPreserves, NoObjectIsUnlocked, Zenon
     DEF IncrementCreate, Exists
<1>6. CASE \E cas \in CasArgs : Delete(w, k, cas)
  BY <1>6, DeletePreserves, Zenon
<1>7. CASE Lock(w, k)
  BY <1>0, <1>7, AddLockPreserves, Zenon DEF Lock, Executing
<1>8. CASE LaG(w, k)
  BY <1>0, <1>8, ObjectOps2, AddLockPreserves, Zenon DEF LaG, Executing
<1>9. CASE \E e \in Exptimes : LaGTouch(w, k, e)
  BY <1>0, <1>9, ObjectOps, AddLockPreserves, Zenon DEF LaGTouch, Executing
<1>10. CASE Unlock(w, k)
  BY <1>0, <1>10, RemoveLockPreserves, Zenon DEF Unlock, Executing
<1>11. CASE \E cas \in CasArgs, e \in Exptimes : RaU(w, k, cas, e)
  BY <1>0, <1>11, ObjectOps, RemoveLockPreserves, Zenon DEF RaU, Executing
<1> QED
  BY <1>1, <1>2, <1>3, <1>4, <1>5, <1>6, <1>7, <1>8, <1>9, <1>10, <1>11, Zenon
     DEF cmd_bin

\* The commands that only the text protocol has.
LEMMA TextPreserves ==
    ASSUME IInv, NEW w \in Workers, NEW k \in Keys, cmd_text(w, k)
    PROVE  IInv'
<1>0. Exists(k) => m_hash[k] \in Object
  BY Zenon DEF IInv, TypeOK, Exists
<1>1. 0 \in CasArgs
  BY MemcacheAssumption DEF CasArgs
<1>2. CASE \/ TextGet(w, k) \/ TextAppend(w, k) \/ TextIncr(w, k)
           \/ TextDelete(w, k) \/ TextLock(w, k) \/ TextUnlock(w, k)
           \/ \E e \in Exptimes : TextTouch(w, k, e)
  <2>1. cmd_bin(w, k)
    BY <1>1, <1>2, Zenon DEF cmd_bin, TextGet, TextAppend, TextIncr, TextDelete, TextLock,
                      TextUnlock, TextTouch
  <2> QED
    BY <2>1, BinaryPreserves, Zenon
<1>3. CASE \E cmd \in {"set", "add", "replace"}, e \in Exptimes :
              TextStore(w, k, cmd, e)
  BY <1>3, StorePreserves, Zenon DEF TextStore
<1>4. CASE \E cas \in CasArgs, e \in Exptimes : TextCas(w, k, cas, e)
  BY <1>0, <1>4, ObjectOps, PutPreserves, Zenon DEF TextCas
<1> QED
  BY <1>2, <1>3, <1>4, Zenon DEF cmd_text

-----------------------------------------------------------------------------
\* A step that changes neither the hash nor the m_locks, nor the descriptor of
\* a socket that holds locks, keeps the records in agreement.
LEMMA FrameOwnership ==
    ASSUME IInv, UNCHANGED <<m_hash, m_locks>>,
           \A c \in Conns : m_locks[c] # {} => fd'[c] = fd[c] /\ st'[c] # "free"
    PROVE  LockOwnership'
BY Zenon DEF IInv, LockOwnership, Exists, locked

\* A step that leaves everything but the times and the GC's state alone.
LEMMA RestPreserved ==
    ASSUME IInv, TypeOK', UNCHANGED <<m_hash, m_locks, st, fd, job, pc, g_context>>
    PROVE  IInv'
<1>1. LockOwnership'
  BY Zenon DEF IInv, LockOwnership, Exists, locked
<1>2. JobsAreAlive' /\ ContextIsFd' /\ FdsAreNumbers' /\ OpenFdsDiffer'
  BY Zenon DEF IInv, JobsAreAlive, ContextIsFd, FdsAreNumbers, OpenFdsDiffer
<1> QED
  BY <1>1, <1>2, Zenon DEF IInv

\* One turn of the loop of unlock_all.
LEMMA UnlockAllPreserves ==
    ASSUME IInv, NEW w \in Workers, NEW k \in Keys, unlock_all(w, k)
    PROVE  IInv'
<1>1. job[w] \in Conns /\ k \in m_locks[job[w]]
  BY Zenon DEF IInv, JobsAreAlive, unlock_all
<1>2. Exists(k) /\ m_hash[k] \in Object
  BY <1>1 DEF IInv, LockOwnership, TypeOK, Exists
<1>3. unlock(m_hash[k]) \in Object /\ unlock(m_hash[k]).lock = NoLock
  BY <1>2, ObjectOps2, Zenon
<1>4. CASE ~locked_by_self(w, m_hash[k])
  BY <1>2, <1>4, ThrowPreserves, Zenon DEF unlock_all
<1>5. CASE locked_by_self(w, m_hash[k])
  BY <1>1, <1>2, <1>3, <1>5, DropLockPreserves, Zenon DEF unlock_all
<1> QED
  BY <1>4, <1>5, Zenon

\* What a step of worker w's job has to keep: the hash, the locks and the
\* descriptors are left alone, a socket may be invalidated, and the job w goes
\* on with has a live socket and, once it has requests, the right context.
LEMMA JobFrame ==
    ASSUME IInv, TypeOK', NEW w \in Workers,
           UNCHANGED <<m_hash, m_locks, fd>>,
           \A c \in Conns : st'[c] = st[c] \/ (st[c] = "open" /\ st'[c] = "gone"),
           \A v \in Workers \ {w} :
              pc'[v] = pc[v] /\ job'[v] = job[v] /\ g_context'[v] = g_context[v],
           pc'[w] = "idle" => job'[w] = NoConn,
           pc'[w] # "idle" => job'[w] \in Conns /\ st[job'[w]] \notin {"free", "dead"},
           pc'[w] \in Contexted => g_context'[w] = fd[job'[w]],
           pc'[w] \in Started /\ st[job'[w]] = "open" => g_context'[w] = fd[job'[w]]
    PROVE  IInv'
<1>1. LockOwnership'
  <2>1. \A c \in Conns : m_locks[c] # {} => st[c] # "free"
    BY Zenon DEF IInv, LockOwnership
  <2>2. \A c \in Conns : m_locks[c] # {} => fd'[c] = fd[c] /\ st'[c] # "free"
    BY <2>1, Zenon
  <2> QED
    BY <2>2, FrameOwnership, Zenon
<1>2. JobsAreAlive'
  <2> SUFFICES ASSUME NEW v \in Workers
               PROVE  /\ pc'[v] = "idle" => job'[v] = NoConn
                      /\ pc'[v] # "idle" => /\ job'[v] \in Conns
                                            /\ st'[job'[v]] \notin {"free", "dead"}
    BY Zenon DEF JobsAreAlive
  <2>1. CASE v = w
    BY <2>1, Zenon
  <2>2. CASE v # w
    <3>1. /\ pc[v] = "idle" => job[v] = NoConn
          /\ pc[v] # "idle" => job[v] \in Conns /\ st[job[v]] \notin {"free", "dead"}
      BY Zenon DEF IInv, JobsAreAlive
    <3> QED
      BY <2>2, <3>1, Zenon
  <2> QED
    BY <2>1, <2>2, Zenon
<1>3. ContextIsFd'
  <2> SUFFICES ASSUME NEW v \in Workers,
                      \/ pc'[v] \in Contexted
                      \/ pc'[v] \in Started /\ st'[job'[v]] = "open"
               PROVE  g_context'[v] = fd'[job'[v]]
    BY Zenon DEF ContextIsFd
  <2>1. job'[v] \in Conns
    BY <1>2, Zenon DEF JobsAreAlive, Contexted, Started
  <2>2. pc'[v] \in Contexted \/ (pc'[v] \in Started /\ st[job'[v]] = "open")
    BY <2>1, Zenon
  <2>3. CASE v = w
    BY <2>1, <2>2, <2>3, Zenon DEF Contexted
  <2>4. CASE v # w
    <3>1. pc[v] \in Contexted \/ (pc[v] \in Started /\ st[job[v]] = "open")
      BY <2>2, <2>4, Zenon
    <3>2. g_context[v] = fd[job[v]]
      BY <3>1, Zenon DEF IInv, ContextIsFd
    <3> QED
      BY <2>4, <3>2, Zenon
  <2> QED
    BY <2>3, <2>4, Zenon
<1>4. FdsAreNumbers'
  <2>1. \A c \in Conns : st'[c] # "free" => st[c] # "free"
    BY Zenon
  <2> QED
    BY <2>1, Zenon DEF IInv, FdsAreNumbers
<1>5. OpenFdsDiffer'
  <2>1. \A c \in Conns : st'[c] \in Unclosed => st[c] \in Unclosed
    BY Zenon DEF Unclosed
  <2> QED
    BY <2>1, Zenon DEF IInv, OpenFdsDiffer
<1> QED
  BY <1>1, <1>2, <1>3, <1>4, <1>5, Zenon DEF IInv

\* A worker with a job serves a live socket.
LEMMA WorkingOnLive ==
    ASSUME IInv, NEW w \in Workers, pc[w] # "idle"
    PROVE  /\ job[w] \in Conns /\ st[job[w]] \notin {"free", "dead"}
           /\ pc[w] \in Contexted => g_context[w] = fd[job[w]]
           /\ pc[w] \in Started /\ st[job[w]] = "open" => g_context[w] = fd[job[w]]
BY Zenon DEF IInv, JobsAreAlive, ContextIsFd

\* A step that only moves the job of w to l.
LEMMA GotoPreserves ==
    ASSUME IInv, NEW w \in Workers, NEW l \in PCs, l # "idle", pc[w] # "idle",
           pc[w] \in Contexted \/ (pc[w] \in Started /\ st[job[w]] = "open"),
           Goto(w, l),
           UNCHANGED <<m_hash, m_locks, sockVars, job, g_context, timeVars, thrown>>
    PROVE  IInv'
<1> USE DEF sockVars, timeVars, Goto
<1>1. TypeOK'
  BY Zenon DEF IInv, TypeOK
<1>2. pc'[w] = l /\ \A v \in Workers \ {w} : pc'[v] = pc[v]
  BY Zenon DEF IInv, TypeOK
<1>3. job[w] \in Conns /\ st[job[w]] \notin {"free", "dead"} /\ g_context[w] = fd[job[w]]
  BY WorkingOnLive, Zenon
<1> QED
  BY <1>1, <1>2, <1>3, JobFrame, Zenon

\* The job goes on with the context of its socket, if that is still valid.
LEMMA SetContextPreserves ==
    ASSUME IInv, NEW w \in Workers, SetContext(w)
    PROVE  IInv'
<1>1. /\ pc[w] = "posted" /\ pc' = [pc EXCEPT ![w] = "recv"]
      /\ g_context' = IF st[job[w]] = "open"
                      THEN [g_context EXCEPT ![w] = fd[job[w]]] ELSE g_context
      /\ UNCHANGED <<m_hash, m_locks, st, fd, job, now, flush_time, gc, thrown>>
  BY Zenon DEF SetContext, Goto, sockVars, timeVars
<1>2. job[w] \in Conns /\ st[job[w]] \notin {"free", "dead"}
  BY <1>1, WorkingOnLive, Zenon
<1>3. fd[job[w]] \in Fds
  BY <1>2, Zenon DEF IInv, FdsAreNumbers
<1>4. g_context' \in [Workers -> Fds \cup {NoLock}]
  BY <1>1, <1>3, Zenon DEF IInv, TypeOK
<1>5. TypeOK'
  BY <1>1, <1>4, Zenon DEF IInv, TypeOK, PCs
<1>6. /\ pc'[w] = "recv"
      /\ st[job[w]] = "open" => g_context'[w] = fd[job[w]]
      /\ \A v \in Workers \ {w} : pc'[v] = pc[v] /\ g_context'[v] = g_context[v]
  BY <1>1, Zenon DEF IInv, TypeOK
<1>7. pc'[w] \notin Contexted
  BY <1>6, Zenon DEF Contexted
<1> QED
  BY <1>1, <1>2, <1>5, <1>6, <1>7, JobFrame, Zenon

\* The job ends because there is nothing to receive.
LEMMA RecvAgainPreserves ==
    ASSUME IInv, NEW w \in Workers, RecvAgain(w)
    PROVE  IInv'
<1>1. /\ pc' = [pc EXCEPT ![w] = "idle"] /\ job' = [job EXCEPT ![w] = NoConn]
      /\ UNCHANGED <<m_hash, m_locks, st, fd, g_context, now, flush_time, gc, thrown>>
  BY Zenon DEF RecvAgain, Goto, sockVars, timeVars
<1>2. TypeOK'
  BY <1>1, Zenon DEF IInv, TypeOK, PCs
<1>3. /\ pc'[w] = "idle" /\ job'[w] = NoConn
      /\ \A v \in Workers \ {w} : pc'[v] = pc[v] /\ job'[v] = job[v]
  BY <1>1, Zenon DEF IInv, TypeOK
<1>4. pc'[w] \notin Contexted \cup Started
  BY <1>3, Zenon DEF Contexted, Started
<1> QED
  BY <1>1, <1>2, <1>3, <1>4, JobFrame, Zenon

\* A step of worker w may invalidate the socket it serves.
LEMMA MayInvalidate ==
    ASSUME IInv, NEW c \in Conns, NEW b \in BOOLEAN,
           st' = [st EXCEPT ![c] = IF @ = "open" /\ b THEN "gone" ELSE @]
    PROVE  /\ st' \in [Conns -> SockStates]
           /\ \A d \in Conns : st'[d] = st[d] \/ (st[d] = "open" /\ st'[d] = "gone")
<1>1. st \in [Conns -> SockStates]
  BY Zenon DEF IInv, TypeOK
<1> QED
  BY <1>1, Zenon DEF SockStates

\* The connection has failed.
LEMMA RecvResetPreserves ==
    ASSUME IInv, NEW w \in Workers, RecvReset(w)
    PROVE  IInv'
<1>1. /\ pc[w] = "recv" /\ pc' = [pc EXCEPT ![w] = "leave"]
      /\ st' = [st EXCEPT ![job[w]] = IF @ = "open" THEN "gone" ELSE @]
      /\ UNCHANGED <<m_hash, m_locks, fd, job, g_context, now, flush_time, gc, thrown>>
  BY Zenon DEF RecvReset, Goto, timeVars
<1>2. job[w] \in Conns /\ st[job[w]] \notin {"free", "dead"}
  BY <1>1, WorkingOnLive, Zenon
<1>3. st' = [st EXCEPT ![job[w]] = IF @ = "open" /\ TRUE THEN "gone" ELSE @]
  BY <1>1, Zenon
<1>4. /\ st' \in [Conns -> SockStates]
      /\ \A c \in Conns : st'[c] = st[c] \/ (st[c] = "open" /\ st'[c] = "gone")
  BY <1>2, <1>3, MayInvalidate, Zenon
<1>5. TypeOK'
  BY <1>1, <1>4, Zenon DEF IInv, TypeOK, PCs
<1>6. pc'[w] = "leave" /\ \A v \in Workers \ {w} : pc'[v] = pc[v]
  BY <1>1, Zenon DEF IInv, TypeOK
<1>7. pc'[w] \notin Contexted
  BY <1>6, Zenon DEF Contexted
<1>8. st[job[w]] = "open" => g_context[w] = fd[job[w]]
  BY <1>1, WorkingOnLive, Zenon DEF Started
<1>9. /\ pc'[w] \in Started /\ st[job'[w]] = "open" => g_context'[w] = fd[job'[w]]
      /\ pc'[w] # "idle" => job'[w] \in Conns /\ st[job'[w]] \notin {"free", "dead"}
      /\ pc'[w] # "idle"
      /\ \A v \in Workers \ {w} :
            pc'[v] = pc[v] /\ job'[v] = job[v] /\ g_context'[v] = g_context[v]
  BY <1>1, <1>2, <1>6, <1>8, Zenon
<1>10. UNCHANGED <<m_hash, m_locks, fd>>
  BY <1>1, Zenon
<1> QED
  BY <1>4, <1>5, <1>7, <1>9, <1>10, JobFrame, Zenon

\* unlock_all is done.
LEMMA UnlockedPreserves ==
    ASSUME IInv, NEW w \in Workers, Unlocked(w)
    PROVE  IInv'
<1> DEFINE l == IF pc[w] \in {"unlock", "quit"} THEN "exec" ELSE "idle"
           j == IF pc[w] \in {"unlock", "quit"} THEN job[w] ELSE NoConn
<1>1. /\ pc[w] \in {"unlock", "quit", "leave", "deny"}
      /\ st' = [st EXCEPT ![job[w]] =
                  IF @ = "open" /\ pc[w] \in {"quit", "deny"} THEN "gone" ELSE @]
      /\ UNCHANGED <<m_hash, m_locks, fd, g_context, now, flush_time, gc, thrown>>
  BY Zenon DEF Unlocked, timeVars
<1>2. pc' = [pc EXCEPT ![w] = l] /\ job' = [job EXCEPT ![w] = j]
  BY Zenon DEF Unlocked, Goto, IInv, TypeOK
<1>3. /\ job[w] \in Conns /\ st[job[w]] \notin {"free", "dead"}
      /\ pc[w] \in Contexted => g_context[w] = fd[job[w]]
  BY <1>1, WorkingOnLive, Zenon
<1>4. /\ st' \in [Conns -> SockStates]
      /\ \A c \in Conns : st'[c] = st[c] \/ (st[c] = "open" /\ st'[c] = "gone")
  <2>1. (pc[w] \in {"quit", "deny"}) \in BOOLEAN
    OBVIOUS
  <2> QED
    BY <1>1, <1>3, <2>1, MayInvalidate, Zenon
<1>5. l \in PCs /\ j \in Conns \cup {NoConn}
  BY <1>3, Zenon DEF PCs
<1>6. TypeOK'
  <2> HIDE DEF l, j
  <2> QED
    BY <1>1, <1>2, <1>4, <1>5, Zenon DEF IInv, TypeOK
<1>7. /\ pc'[w] = l /\ job'[w] = j
      /\ \A v \in Workers \ {w} : pc'[v] = pc[v] /\ job'[v] = job[v]
  <2> HIDE DEF l, j
  <2> QED
    BY <1>2, Zenon DEF IInv, TypeOK
<1>8. /\ l = "idle" => j = NoConn
      /\ l # "idle" => j = job[w] /\ pc[w] \in Contexted
      /\ l \notin Started
      /\ "idle" \notin Contexted
  BY Zenon DEF Contexted, Started
<1> HIDE DEF l, j
<1>9. /\ l = "idle" => j = NoConn
      /\ l # "idle" => j \in Conns /\ st[j] \notin {"free", "dead"}
      /\ l \in Contexted => g_context[w] = fd[j]
  BY <1>3, <1>8, Zenon
<1>10. /\ pc'[w] = "idle" => job'[w] = NoConn
       /\ pc'[w] # "idle" => job'[w] \in Conns /\ st[job'[w]] \notin {"free", "dead"}
       /\ pc'[w] \in Contexted => g_context'[w] = fd[job'[w]]
       /\ pc'[w] \in Started /\ st[job'[w]] = "open" => g_context'[w] = fd[job'[w]]
  BY <1>1, <1>7, <1>8, <1>9, Zenon
<1>11. \A v \in Workers \ {w} :
          pc'[v] = pc[v] /\ job'[v] = job[v] /\ g_context'[v] = g_context[v]
  BY <1>1, <1>7, Zenon
<1>12. UNCHANGED <<m_hash, m_locks, fd>>
  BY <1>1, Zenon
<1> QED
  BY <1>4, <1>6, <1>10, <1>11, <1>12, JobFrame, Zenon

\* The steps of a job that touch neither the hash nor the locks.
LEMMA JobPreserves ==
    ASSUME IInv, NEW w \in Workers,
           \/ SetContext(w) \/ RecvOK(w) \/ RecvAgain(w) \/ RecvNone(w)
           \/ RecvReset(w) \/ EndBatch(w) \/ TooLarge(w) \/ Unlocked(w)
           \/ UnlockAll(w) \/ Quit(w)
    PROVE  IInv'
<1>1. CASE RecvOK(w)
  BY <1>1, GotoPreserves, Zenon DEF RecvOK, PCs, Started
<1>2. CASE RecvNone(w)
  BY <1>2, GotoPreserves, Zenon DEF RecvNone, PCs, Started
<1>3. CASE EndBatch(w)
  BY <1>3, GotoPreserves, Zenon DEF EndBatch, PCs, Contexted
<1>4. CASE TooLarge(w)
  BY <1>4, GotoPreserves, Zenon DEF TooLarge, PCs, Contexted
<1>5. CASE UnlockAll(w)
  BY <1>5, GotoPreserves, Zenon DEF UnlockAll, Executing, PCs, Contexted
<1>6. CASE Quit(w)
  BY <1>6, GotoPreserves, Zenon DEF Quit, Executing, PCs, Contexted
<1> QED
  BY <1>1, <1>2, <1>3, <1>4, <1>5, <1>6, SetContextPreserves, RecvAgainPreserves,
     RecvResetPreserves, UnlockedPreserves, Zenon

-----------------------------------------------------------------------------
\* What a step in the life of socket c has to keep: the socket neither becomes
\* free nor gets another descriptor while it holds locks, and while a worker
\* serves it, it does not die, is not revived and keeps its descriptor.
LEMMA SocketFrame ==
    ASSUME IInv, TypeOK', NEW c \in Conns,
           UNCHANGED <<m_hash, m_locks, workVars>>,
           \A d \in Conns \ {c} : st'[d] = st[d] /\ fd'[d] = fd[d],
           m_locks[c] # {} => st'[c] # "free" /\ fd'[c] = fd[c],
           Busy(c) => /\ st'[c] \notin {"free", "dead", "open"}
                      /\ fd'[c] = fd[c],
           st'[c] # "free" => fd'[c] \in Fds,
           st'[c] \in Unclosed =>
              \A d \in Conns \ {c} : st[d] \in Unclosed => fd'[c] # fd[d]
    PROVE  IInv'
<1> USE DEF workVars
<1>1. LockOwnership'
  <2>1. \A d \in Conns : m_locks[d] # {} => st[d] # "free"
    BY ZenonT(30) DEF IInv, LockOwnership
  <2>2. \A d \in Conns : m_locks[d] # {} => fd'[d] = fd[d] /\ st'[d] # "free"
    BY <2>1, Zenon
  <2> QED
    BY <2>2, FrameOwnership, ZenonT(30)
<1>2. JobsAreAlive'
  <2> SUFFICES ASSUME NEW v \in Workers
               PROVE  /\ pc[v] = "idle" => job[v] = NoConn
                      /\ pc[v] # "idle" => /\ job[v] \in Conns
                                           /\ st'[job[v]] \notin {"free", "dead"}
    BY Zenon DEF JobsAreAlive
  <2>1. /\ pc[v] = "idle" => job[v] = NoConn
        /\ pc[v] # "idle" => job[v] \in Conns /\ st[job[v]] \notin {"free", "dead"}
    BY Zenon DEF IInv, JobsAreAlive
  <2>2. job[v] = c => st'[c] \notin {"free", "dead"}
    BY Zenon DEF Busy
  <2> QED
    BY <2>1, <2>2, Zenon
<1>3. ContextIsFd'
  <2> SUFFICES ASSUME NEW v \in Workers,
                      \/ pc[v] \in Contexted
                      \/ pc[v] \in Started /\ st'[job[v]] = "open"
               PROVE  g_context[v] = fd'[job[v]]
    BY Zenon DEF ContextIsFd
  <2>1. job[v] \in Conns
    BY <1>2, Zenon DEF JobsAreAlive, Contexted, Started
  <2>2. job[v] = c => st'[c] # "open" /\ fd'[c] = fd[c]
    BY Zenon DEF Busy
  <2>3. pc[v] \in Contexted \/ (pc[v] \in Started /\ st[job[v]] = "open")
    BY <2>1, <2>2, Zenon
  <2>4. g_context[v] = fd[job[v]]
    BY <2>3, Zenon DEF IInv, ContextIsFd
  <2> QED
    BY <2>1, <2>2, <2>4, Zenon
<1>4. FdsAreNumbers'
  <2>1. \A d \in Conns \ {c} : st'[d] # "free" => fd'[d] \in Fds
    BY Zenon DEF IInv, FdsAreNumbers
  <2> QED
    BY <2>1, ZenonT(30) DEF FdsAreNumbers
<1>5. OpenFdsDiffer'
  <2>1. \A d, e \in Conns \ {c} :
           d # e /\ st'[d] \in Unclosed /\ st'[e] \in Unclosed => fd'[d] # fd'[e]
    BY Zenon DEF IInv, OpenFdsDiffer
  <2>2. \A d \in Conns \ {c} :
           st'[c] \in Unclosed /\ st'[d] \in Unclosed => fd'[c] # fd'[d]
    BY Zenon
  <2> QED
    BY <2>1, <2>2, Zenon DEF OpenFdsDiffer
<1> QED
  BY <1>1, <1>2, <1>3, <1>4, <1>5, ZenonT(30) DEF IInv

\* The steps of the reactor that move a socket through its life.
LEMMA SocketPreserves ==
    ASSUME IInv, NEW c \in Conns,
           \/ invalidate_and_close(c) \/ remove_resource(c) \/ fix_garbage(c)
           \/ Destroy(c)
    PROVE  IInv'
<1>1. PICK s \in {"gone", "removed", "closed", "dead"} :
         /\ st' = [st EXCEPT ![c] = s]
         /\ s = "dead" => ~Busy(c)
         /\ st[c] # "free"
         /\ s \in Unclosed => st[c] \in Unclosed
  BY Zenon DEF invalidate_and_close, remove_resource, fix_garbage, Destroy, Unclosed
<1>2. UNCHANGED <<m_hash, m_locks, fd, workVars, timeVars, thrown>>
  BY Zenon DEF invalidate_and_close, remove_resource, fix_garbage, Destroy
<1>3. TypeOK'
  BY <1>1, <1>2, Zenon DEF IInv, TypeOK, SockStates, workVars, timeVars
<1>4. st'[c] = s /\ \A d \in Conns \ {c} : st'[d] = st[d]
  BY <1>1, Zenon DEF IInv, TypeOK
<1>5. fd[c] \in Fds
  BY <1>1, Zenon DEF IInv, FdsAreNumbers
<1>6. st'[c] \in Unclosed =>
         \A d \in Conns \ {c} : st[d] \in Unclosed => fd[c] # fd[d]
  BY <1>1, <1>4, Zenon DEF IInv, OpenFdsDiffer
<1> QED
  BY <1>1, <1>2, <1>3, <1>4, <1>5, <1>6, SocketFrame, Zenon

\* Only sockets that hold no locks and serve no job are free or destroyed.
LEMMA FreeIsUnused ==
    ASSUME IInv, NEW c \in Conns
    PROVE  /\ st[c] = "free" => m_locks[c] = {}
           /\ st[c] \in {"free", "dead"} => ~Busy(c)
<1>1. st[c] = "free" => m_locks[c] = {}
  BY Zenon DEF IInv, TypeOK, LockOwnership
<1>2. st[c] \in {"free", "dead"} => ~Busy(c)
  BY MemcacheAssumption, Zenon DEF IInv, JobsAreAlive, Busy
<1> QED
  BY <1>1, <1>2, Zenon

\* Accepting a connection.
LEMMA AcceptPreserves ==
    ASSUME IInv, NEW c \in Conns, NEW f \in Fds, make_memcache_socket(c, f)
    PROVE  IInv'
<1>1. /\ st[c] = "free"
      /\ st' = [st EXCEPT ![c] = "open"] /\ fd' = [fd EXCEPT ![c] = f]
      /\ UNCHANGED <<m_hash, m_locks, workVars, timeVars, thrown>>
  BY Zenon DEF make_memcache_socket
<1>2. TypeOK'
  BY <1>1, Zenon DEF IInv, TypeOK, SockStates, workVars, timeVars
<1>3. /\ st'[c] = "open" /\ fd'[c] = f
      /\ \A d \in Conns \ {c} : st'[d] = st[d] /\ fd'[d] = fd[d]
  BY <1>1, ZenonT(30) DEF IInv, TypeOK
<1>4. m_locks[c] = {} /\ ~Busy(c)
  BY <1>1, FreeIsUnused, ZenonT(30)
<1>5. \A d \in Conns : st[d] \in Unclosed => f # fd[d]
  BY Zenon DEF make_memcache_socket, FdsInUse, Unclosed
<1>6. /\ st'[c] # "free" => fd'[c] \in Fds
      /\ st'[c] \in Unclosed =>
            \A d \in Conns \ {c} : st[d] \in Unclosed => fd'[c] # fd[d]
      /\ UNCHANGED <<m_hash, m_locks, workVars>>
  BY <1>1, <1>3, <1>5, Zenon
<1> QED
  BY <1>2, <1>3, <1>4, <1>6, SocketFrame, Zenon

\* Posting a job.
LEMMA PostPreserves ==
    ASSUME IInv, NEW c \in Conns, NEW w \in Workers, on_readable(c, w)
    PROVE  IInv'
<1>1. /\ st[c] \in {"open", "gone"}
      /\ job' = [job EXCEPT ![w] = c] /\ pc' = [pc EXCEPT ![w] = "posted"]
      /\ UNCHANGED <<m_hash, m_locks, st, fd, g_context, timeVars, thrown>>
  BY Zenon DEF on_readable, Goto, sockVars
<1>2. TypeOK'
  BY <1>1, Zenon DEF IInv, TypeOK, PCs, timeVars
<1>3. /\ pc'[w] = "posted" /\ job'[w] = c
      /\ \A v \in Workers \ {w} : pc'[v] = pc[v] /\ job'[v] = job[v]
  BY <1>1, Zenon DEF IInv, TypeOK
<1>4. /\ pc'[w] # "idle" /\ pc'[w] \notin Contexted \cup Started
      /\ job'[w] \in Conns /\ st[job'[w]] \notin {"free", "dead"}
  BY <1>1, <1>3, Zenon DEF Contexted, Started
<1> QED
  BY <1>1, <1>2, <1>3, <1>4, JobFrame, Zenon

\* The destructor: it unlocks what the socket holds, whoever runs it.
LEMMA DestructorPreserves ==
    ASSUME IInv, NEW c \in Conns,
           (\E k \in Keys : DestroyUnlock(c, k)) \/ Destroyed(c)
    PROVE  IInv'
<1>1. ASSUME NEW k \in Keys, DestroyUnlock(c, k) PROVE IInv'
  <2>1. Exists(k) /\ m_hash[k] \in Object
    BY <1>1 DEF DestroyUnlock, IInv, LockOwnership, TypeOK, Exists
  <2>2. unlock(m_hash[k]) \in Object /\ unlock(m_hash[k]).lock = NoLock
    BY <2>1, ObjectOps2, Zenon
  <2>3. m_hash' = [m_hash EXCEPT ![k] = unlock(m_hash[k])]
    BY <1>1, <2>1, Zenon DEF DestroyUnlock
  <2>4. /\ k \in m_locks[c] /\ m_locks' = [m_locks EXCEPT ![c] = @ \ {k}]
        /\ UNCHANGED <<sockVars, workVars, timeVars, thrown>>
    BY <1>1, Zenon DEF DestroyUnlock
  <2> QED
    BY <2>2, <2>3, <2>4, DropLockPreserves, ZenonT(30)
<1>2. CASE Destroyed(c)
  <2>1. /\ st[c] = "dead" /\ m_locks[c] = {}
        /\ st' = [st EXCEPT ![c] = "free"] /\ fd' = [fd EXCEPT ![c] = NoLock]
        /\ UNCHANGED <<m_hash, m_locks, workVars, timeVars, thrown>>
    BY <1>2, Zenon DEF Destroyed
  <2>2. TypeOK'
    BY <2>1, Zenon DEF IInv, TypeOK, SockStates, workVars, timeVars
  <2>3. st'[c] = "free" /\ \A d \in Conns \ {c} : st'[d] = st[d] /\ fd'[d] = fd[d]
    BY <2>1, Zenon DEF IInv, TypeOK
  <2>4. ~Busy(c) /\ st'[c] \notin Unclosed
    BY <2>1, <2>3, FreeIsUnused, Zenon DEF Unclosed
  <2> QED
    BY <2>1, <2>2, <2>3, <2>4, SocketFrame, ZenonT(30)
<1> QED
  BY <1>1, <1>2, Zenon

-----------------------------------------------------------------------------
\* flush_all and the once-a-second callback touch neither hash nor locks.
LEMMA TimePreserves ==
    ASSUME IInv,
           \/ \E w \in Workers, t \in 0..MaxTime : Flush(w, t)
           \/ \E t \in now..MaxTime : on_master_interval(t)
    PROVE  IInv'
<1>1. UNCHANGED <<m_hash, m_locks, st, fd, job, pc, g_context, thrown>>
  BY ZenonT(30) DEF Flush, on_master_interval, sockVars, workVars
<1>2. now' \in Nat /\ flush_time' \in Nat
  BY MemcacheAssumption DEF Flush, on_master_interval, IInv, TypeOK
<1>3. gc' \in [on : BOOLEAN, todo : SUBSET Keys, flush : BOOLEAN, evict : Nat]
  <2>1. \/ gc' = gc
        \/ \E b \in BOOLEAN, e \in EvictAges \cup {0} :
              gc' = [on |-> TRUE, todo |-> Keys, flush |-> b, evict |-> e]
    <3>1. \A t : FlushDue(t) \in BOOLEAN
      BY Zenon DEF FlushDue
    <3> QED
      BY <3>1, Zenon DEF Flush, on_master_interval
  <2>2. EvictAges \cup {0} \subseteq Nat
    BY MemcacheAssumption
  <2>3. CASE gc' = gc
    BY <2>3, Zenon DEF IInv, TypeOK
  <2>4. ASSUME NEW b \in BOOLEAN, NEW e \in EvictAges \cup {0},
               gc' = [on |-> TRUE, todo |-> Keys, flush |-> b, evict |-> e]
        PROVE  gc' \in [on : BOOLEAN, todo : SUBSET Keys, flush : BOOLEAN, evict : Nat]
    BY <2>2, <2>4, Zenon
  <2> QED
    BY <2>1, <2>3, <2>4, Zenon
<1>4. TypeOK'
  BY <1>1, <1>2, <1>3, Zenon DEF IInv, TypeOK
<1> QED
  BY <1>1, <1>4, RestPreserved, Zenon

\* The GC thread removes unlocked objects only.
LEMMA GCPreserves ==
    ASSUME IInv, (\E k \in Keys : gc_visit(k)) \/ gc_end
    PROVE  IInv'
<1> USE DEF sockVars, workVars
<1>1. ASSUME NEW k \in Keys, gc_visit(k) PROVE IInv'
  <2>1. gc' \in [on : BOOLEAN, todo : SUBSET Keys, flush : BOOLEAN, evict : Nat]
    BY <1>1, Zenon DEF gc_visit, IInv, TypeOK
  <2>2. m_hash'[k] = NoObject \/ m_hash'[k] = survive(m_hash[k])
    BY <1>1, Zenon DEF gc_visit, IInv, TypeOK
  <2>3. m_hash'[k] = NoObject => ~locked(m_hash[k])
    <3>1. CASE ~Exists(k)
      BY <3>1, NoObjectIsUnlocked, Zenon DEF Exists, locked
    <3>2. CASE Exists(k) /\ Collect(m_hash[k])
      BY <3>2, Zenon DEF Collect, expired
    <3>3. CASE Exists(k) /\ ~Collect(m_hash[k])
      <4>1. m_hash'[k] = survive(m_hash[k]) /\ m_hash[k] \in Object
        BY <1>1, <3>3, ZenonT(30) DEF gc_visit, IInv, TypeOK, Exists
      <4>2. m_hash'[k] # NoObject
        BY <4>1, ObjectOps2, ObjectsExist, Zenon
      <4> QED
        BY <4>2, Zenon
    <3> QED
      BY <3>1, <3>2, <3>3, Zenon
  <2>4. m_hash'[k] # NoObject => m_hash'[k] \in Object /\ m_hash'[k].lock = m_hash[k].lock
    <3>1. m_hash'[k] # NoObject => Exists(k)
      BY <1>1, Zenon DEF gc_visit, IInv, TypeOK
    <3> QED
      BY <2>2, <3>1, ObjectOps2, ZenonT(30) DEF IInv, TypeOK, Exists
  <2>5. \A x \in Keys : x # k => m_hash'[x] = m_hash[x]
    BY <1>1, Zenon DEF gc_visit, IInv, TypeOK
  <2>6. TypeOK'
    <3>1. m_hash' \in [Keys -> Object \cup {NoObject}]
      BY <1>1, <2>4, <2>5, Zenon DEF gc_visit, IInv, TypeOK
    <3> QED
      BY <1>1, <2>1, <3>1, Zenon DEF gc_visit, IInv, TypeOK
  <2>7. \A x \in Keys : locked(m_hash'[x]) => locked(m_hash[x])
    BY <2>2, <2>4, <2>5, NoObjectIsUnlocked, Zenon DEF locked
  <2>8. \A x \in Keys : locked(m_hash[x]) =>
           Exists(x)' /\ m_hash'[x].lock = m_hash[x].lock
    BY <2>3, <2>4, <2>5, NoObjectIsUnlocked, Zenon DEF Exists, locked
  <2>9. LockOwnership'
    <3>1. \A c \in Conns : \A x \in m_locks[c] : x \in Keys /\ locked(m_hash[x])
      BY UnlockedIsUnheld, Zenon DEF IInv, TypeOK
    <3> QED
      BY <1>1, <2>7, <2>8, <3>1, ZenonT(30) DEF gc_visit, IInv, LockOwnership, locked
  <2>10. UNCHANGED <<st, fd, job, pc, g_context>>
    BY <1>1, Zenon DEF gc_visit
  <2>11. JobsAreAlive' /\ ContextIsFd' /\ FdsAreNumbers' /\ OpenFdsDiffer'
    BY <2>10, Zenon DEF IInv, JobsAreAlive, ContextIsFd, FdsAreNumbers, OpenFdsDiffer
  <2> QED
    BY <2>6, <2>9, <2>11, Zenon DEF IInv
<1>2. CASE gc_end
  <2>1. TypeOK'
    BY <1>2, ZenonT(30) DEF gc_end, NoGC, IInv, TypeOK
  <2>2. UNCHANGED <<m_hash, m_locks, st, fd, job, pc, g_context>>
    BY <1>2, ZenonT(30) DEF gc_end
  <2> QED
    BY <2>1, <2>2, RestPreserved, ZenonT(30)
<1> QED
  BY <1>1, <1>2, Zenon

-----------------------------------------------------------------------------
\* The invariant is inductive: every step of a worker, of the reactor and of
\* the GC thread preserves it.
LEMMA IInvIsInductive ==
    ASSUME IInv, [Next]_vars PROVE IInv'
<1>1. ASSUME NEW w \in Workers, Worker(w) PROVE IInv'
  BY <1>1, JobPreserves, UnlockAllPreserves, BinaryPreserves, TextPreserves,
     TimePreserves, Zenon DEF Worker
<1>2. ASSUME NEW c \in Conns, Reactor(c) PROVE IInv'
  BY <1>2, AcceptPreserves, PostPreserves, SocketPreserves, DestructorPreserves, Zenon
     DEF Reactor
<1>3. CASE \E t \in now..MaxTime : on_master_interval(t)
  BY <1>3, TimePreserves, Zenon
<1>4. CASE (\E k \in Keys : gc_visit(k)) \/ gc_end
  BY <1>4, GCPreserves, Zenon
<1>5. CASE UNCHANGED vars
  <2>1. TypeOK'
    BY <1>5, Zenon DEF vars, IInv, TypeOK
  <2> QED
    BY <1>5, <2>1, RestPreserved, Zenon DEF vars
<1> QED
  BY <1>1, <1>2, <1>3, <1>4, <1>5, Zenon DEF Next

\* No object, no socket and no job at the start.
LEMMA InitIInv == Init => IInv
<1> SUFFICES ASSUME Init PROVE IInv
  BY Zenon
<1> USE DEF Init
<1>1. TypeOK
  BY ZenonT(30) DEF TypeOK, SockStates, PCs, NoGC
<1>2. LockOwnership
  BY NoObjectIsUnlocked, Zenon DEF LockOwnership, locked
<1> QED
  BY <1>1, <1>2, Zenon DEF IInv, JobsAreAlive, ContextIsFd, FdsAreNumbers,
                             OpenFdsDiffer, Contexted, Started, Unclosed

\* The invariant holds throughout.
THEOREM Invariance == Spec => []IInv
BY InitIInv, IInvIsInductive, PTL DEF Spec

\* Hash, sockets and workers keep their types for any number of each.
THEOREM TypeCorrectness == Spec => []TypeOK
<1>1. IInv => TypeOK
  BY Zenon DEF IInv
<1> QED
  BY <1>1, Invariance, PTL

\* The lock an object carries and the m_locks of the sockets agree in every
\* reachable state, whatever commands, disconnections, descriptor reuse and GC
\* runs come in whatever order: no lock record dangles and none is orphaned.
THEOREM LockOwnershipHolds == Spec => []LockOwnership
<1>1. IInv => LockOwnership
  BY Zenon DEF IInv
<1> QED
  BY <1>1, Invariance, PTL

-----------------------------------------------------------------------------
(* What one step does to an object.  The commands, the destructors and the   *)
(* GC thread each do one of a few things, and the action properties follow   *)
(* from the list.                                                            *)

\* The slot of k is given the content o: a new object; the same object but for
\* its age; a live object with the same data; a lock taken or released; and
\* new data, or none, for an object that is unlocked or held by the command's
\* own context.
Effect(k, o) ==
    \/ ~Exists(k)
    \/ /\ o.cas = m_hash[k].cas /\ o.exptime = m_hash[k].exptime
       /\ o.lock = m_hash[k].lock
    \/ o.cas = m_hash[k].cas /\ ~expired(m_hash[k])
    \/ o.cas = m_hash[k].cas /\ o.lock # m_hash[k].lock
    \/ ~locked(m_hash[k]) /\ o.cas # m_hash[k].cas
    \/ \E w \in Workers : pc[w] = "exec" /\ locked_by_self(w, m_hash[k])

HashStep == (\A k \in Keys : Effect(k, m_hash'[k])) /\ now <= now'

\* A step that leaves the hash alone.
LEMMA NoChange ==
    ASSUME IInv, UNCHANGED m_hash, now <= now' PROVE HashStep
BY Zenon DEF HashStep, Effect

\* A step that writes one slot.
LEMMA ChangeEffect ==
    ASSUME IInv, NEW k \in Keys, NEW o, m_hash' = [m_hash EXCEPT ![k] = o],
           Effect(k, o), UNCHANGED now
    PROVE  HashStep
<1>1. now <= now'
  BY DEF IInv, TypeOK
<1>2. \A x \in Keys : m_hash'[x] = IF x = k THEN o ELSE m_hash[x]
  BY Zenon DEF IInv, TypeOK
<1>3. \A x \in Keys \ {k} : Effect(x, m_hash'[x])
  BY <1>2, Zenon DEF Effect
<1>4. Effect(k, m_hash'[k])
  BY <1>2, Zenon
<1> QED
  BY <1>1, <1>3, <1>4, Zenon DEF HashStep

\* A step that leaves hash and clock alone.
LEMMA NoEffect ==
    ASSUME IInv, UNCHANGED <<m_hash, now>> PROVE HashStep
<1>1. now <= now'
  BY DEF IInv, TypeOK
<1> QED
  BY <1>1, NoChange, Zenon

\* Only set gives new data; unlock only unlocks.
LEMMA OpsEffect ==
    ASSUME NEW o \in Object, NEW e
    PROVE  /\ touch(o, e).cas = o.cas
           /\ set(o, e).cas # o.cas
           /\ modify(o).cas # o.cas
           /\ data(o).cas = o.cas /\ data(o).exptime = o.exptime
           /\ data(o).lock = o.lock
           /\ survive(o).cas = o.cas /\ survive(o).exptime = o.exptime
           /\ survive(o).lock = o.lock
           /\ unlock(o).cas = o.cas /\ unlock(o).lock = NoLock
           /\ NoObject.cas # o.cas
<1>1. touch(o, e).cas = o.cas /\ set(o, e).cas # o.cas /\ modify(o).cas # o.cas
  BY DEF Object, touch, set, modify
<1>2. /\ data(o).cas = o.cas /\ data(o).exptime = o.exptime
      /\ data(o).lock = o.lock
  BY DEF Object, data
<1>3. /\ survive(o).cas = o.cas /\ survive(o).exptime = o.exptime
      /\ survive(o).lock = o.lock
  BY DEF Object, survive
<1>4. unlock(o).cas = o.cas /\ unlock(o).lock = NoLock /\ NoObject.cas # o.cas
  BY DEF Object, unlock, NoObject
<1> QED
  BY <1>1, <1>2, <1>3, <1>4, Zenon

\* Set, add and replace.
LEMMA StoreEffect ==
    ASSUME IInv, NEW w \in Workers, NEW k \in Keys, NEW cas, NEW cmd,
           NEW e \in Exptimes, Store(w, k, cmd, cas, e)
    PROVE  HashStep
<1>1. CASE Exists(k)
  <2>1. /\ m_hash' = [m_hash EXCEPT ![k] = set(m_hash[k], e)] /\ UNCHANGED now
        /\ ~locked_by_other(w, m_hash[k]) /\ pc[w] = "exec"
    BY <1>1, Zenon DEF Store, Put, timeVars, Executing
  <2>2. m_hash[k] \in Object
    BY <1>1, Zenon DEF IInv, TypeOK, Exists
  <2>3. Effect(k, set(m_hash[k], e))
    BY <2>1, <2>2, OpsEffect, Zenon DEF Effect, locked_by_other
  <2> QED
    BY <2>1, <2>3, ChangeEffect, Zenon
<1>2. CASE ~Exists(k)
  <2>1. m_hash' = [m_hash EXCEPT ![k] = NewObject(e)] /\ UNCHANGED now
    BY <1>2, Zenon DEF Store, Put, timeVars
  <2> QED
    BY <1>2, <2>1, ChangeEffect, Zenon DEF Effect
<1> QED
  BY <1>1, <1>2, Zenon

\* The context of a worker that executes commands is a descriptor.
LEMMA ContextOfExec ==
    ASSUME IInv, NEW w \in Workers, pc[w] = "exec"
    PROVE  /\ job[w] \in Conns /\ st[job[w]] \notin {"free", "dead"}
           /\ g_context[w] = fd[job[w]] /\ g_context[w] # NoLock
<1>1. /\ job[w] \in Conns /\ st[job[w]] \notin {"free", "dead"}
      /\ g_context[w] = fd[job[w]]
  BY WorkingOnLive, Zenon DEF Contexted
<1>2. fd[job[w]] \in Fds
  BY <1>1, Zenon DEF IInv, FdsAreNumbers
<1>3. NoLock \notin Fds
  BY MemcacheAssumption DEF NoLock
<1> QED
  BY <1>1, <1>2, <1>3, Zenon

\* Taking the lock of an unlocked object.
LEMMA LockEffect ==
    ASSUME IInv, NEW w \in Workers, pc[w] = "exec", NEW k \in Keys, Exists(k),
           NEW o \in Object, o.cas = m_hash[k].cas, ~locked(m_hash[k]),
           AddLock(w, k, o)
    PROVE  HashStep
<1>1. m_hash' = [m_hash EXCEPT ![k] = lock(w, o)] /\ UNCHANGED now
  BY Zenon DEF AddLock, timeVars
<1>2. lock(w, o).cas = o.cas /\ lock(w, o).lock = g_context[w]
  BY DEF Object, lock
<1>3. lock(w, o).lock # m_hash[k].lock
  BY <1>2, ContextOfExec, Zenon DEF locked
<1>4. Effect(k, lock(w, o))
  BY <1>2, <1>3, Zenon DEF Effect
<1> QED
  BY <1>1, <1>4, ChangeEffect, Zenon

\* Releasing the lock of an object, with new data or not.
LEMMA UnlockEffect ==
    ASSUME IInv, NEW w \in Workers, pc[w] = "exec", NEW k \in Keys, NEW o,
           locked_by_self(w, m_hash[k]), RemoveLock(w, k, o)
    PROVE  HashStep
<1>1. CASE k \notin m_locks[job[w]]
  BY <1>1, NoEffect, Zenon DEF RemoveLock, Throw, timeVars
<1>2. CASE k \in m_locks[job[w]]
  <2>1. m_hash' = [m_hash EXCEPT ![k] = unlock(o)] /\ UNCHANGED now
    BY <1>2, Zenon DEF RemoveLock, timeVars
  <2> QED
    BY <2>1, ChangeEffect, Zenon DEF Effect
<1> QED
  BY <1>1, <1>2, Zenon

\* Each command of the binary protocol.
LEMMA BinaryEffect ==
    ASSUME IInv, NEW w \in Workers, NEW k \in Keys, cmd_bin(w, k)
    PROVE  HashStep
<1>0. Exists(k) => m_hash[k] \in Object
  BY Zenon DEF IInv, TypeOK, Exists
<1>1. CASE Get(w, k)
  <2>1. /\ m_hash' = [m_hash EXCEPT ![k] = data(m_hash[k])] /\ UNCHANGED now
        /\ Exists(k)
    BY <1>1, Zenon DEF Get, Put, timeVars
  <2>2. Effect(k, data(m_hash[k]))
    BY <1>0, <2>1, OpsEffect, Zenon DEF Effect
  <2> QED
    BY <2>1, <2>2, ChangeEffect, Zenon
<1>2. ASSUME NEW e \in Exptimes, GaT(w, k, e) \/ Touch(w, k, e) PROVE HashStep
  <2>1. /\ m_hash' = [m_hash EXCEPT ![k] = touch(m_hash[k], e)] /\ UNCHANGED now
        /\ Exists(k) /\ ~expired(m_hash[k])
    BY <1>2, Zenon DEF GaT, Touch, Put, timeVars
  <2>2. Effect(k, touch(m_hash[k], e))
    BY <1>0, <2>1, OpsEffect, Zenon DEF Effect
  <2> QED
    BY <2>1, <2>2, ChangeEffect, Zenon
<1>3. ASSUME NEW cmd, NEW cas, NEW e \in Exptimes, Store(w, k, cmd, cas, e)
      PROVE  HashStep
  BY <1>3, StoreEffect, Zenon
<1>4. ASSUME NEW cas \in CasArgs, Append(w, k, cas) \/ Increment(w, k, cas)
      PROVE  HashStep
  <2>1. /\ m_hash' = [m_hash EXCEPT ![k] = modify(m_hash[k])] /\ UNCHANGED now
        /\ Exists(k) /\ ~locked_by_other(w, m_hash[k]) /\ pc[w] = "exec"
    BY <1>4, Zenon DEF Append, Increment, Modify, Put, timeVars, Executing
  <2>2. Effect(k, modify(m_hash[k]))
    BY <1>0, <2>1, OpsEffect, Zenon DEF Effect, locked_by_other
  <2> QED
    BY <2>1, <2>2, ChangeEffect, Zenon
<1>5. ASSUME NEW e \in Exptimes, IncrementCreate(w, k, e) PROVE HashStep
  <2>1. /\ m_hash' = [m_hash EXCEPT ![k] = NewObject(e)] /\ UNCHANGED now
        /\ ~Exists(k)
    BY <1>5, Zenon DEF IncrementCreate, Put, timeVars
  <2> QED
    BY <2>1, ChangeEffect, Zenon DEF Effect
<1>6. ASSUME NEW cas \in CasArgs, Delete(w, k, cas) PROVE HashStep
  <2>1. CASE locked_by_self(w, m_hash[k]) /\ k \notin m_locks[job[w]]
    BY <1>6, <2>1, NoEffect, Zenon DEF Delete, Throw, timeVars
  <2>2. CASE ~(locked_by_self(w, m_hash[k]) /\ k \notin m_locks[job[w]])
    <3>1. /\ m_hash' = [m_hash EXCEPT ![k] = NoObject] /\ UNCHANGED now
          /\ Exists(k) /\ ~locked_by_other(w, m_hash[k]) /\ pc[w] = "exec"
      BY <1>6, <2>2, Zenon DEF Delete, timeVars, Executing
    <3>2. Effect(k, NoObject)
      BY <1>0, <3>1, OpsEffect, Zenon DEF Effect, locked_by_other
    <3> QED
      BY <3>1, <3>2, ChangeEffect, Zenon
  <2> QED
    BY <2>1, <2>2, Zenon
<1>7. CASE Lock(w, k)
  BY <1>0, <1>7, LockEffect, Zenon DEF Lock, Executing
<1>8. CASE LaG(w, k)
  <2>1. /\ pc[w] = "exec" /\ Exists(k) /\ ~locked(m_hash[k])
        /\ AddLock(w, k, data(m_hash[k]))
    BY <1>8, Zenon DEF LaG, Executing
  <2>2. data(m_hash[k]) \in Object /\ data(m_hash[k]).cas = m_hash[k].cas
    BY <1>0, <2>1, OpsEffect, ObjectOps2, Zenon
  <2> QED
    BY <2>1, <2>2, LockEffect, Zenon
<1>9. ASSUME NEW e \in Exptimes, LaGTouch(w, k, e) PROVE HashStep
  <2>1. /\ pc[w] = "exec" /\ Exists(k) /\ ~locked(m_hash[k])
        /\ AddLock(w, k, touch(m_hash[k], e))
    BY <1>9, Zenon DEF LaGTouch, Executing
  <2>2. touch(m_hash[k], e) \in Object
    BY <1>0, <2>1, ObjectOps, Zenon
  <2>3. touch(m_hash[k], e).cas = m_hash[k].cas
    BY <1>0, <2>1, OpsEffect, Zenon
  <2> QED
    BY <2>1, <2>2, <2>3, LockEffect, Zenon
<1>10. CASE Unlock(w, k)
  BY <1>10, UnlockEffect, Zenon DEF Unlock, Executing
<1>11. ASSUME NEW cas \in CasArgs, NEW e \in Exptimes, RaU(w, k, cas, e)
       PROVE  HashStep
  BY <1>11, UnlockEffect, Zenon DEF RaU, Executing
<1> QED
  BY <1>1, <1>2, <1>3, <1>4, <1>5, <1>6, <1>7, <1>8, <1>9, <1>10, <1>11, Zenon
     DEF cmd_bin

\* The text protocol, whose handlers but one are those of the binary protocol.
LEMMA TextEffect ==
    ASSUME IInv, NEW w \in Workers, NEW k \in Keys, cmd_text(w, k)
    PROVE  HashStep
<1>1. 0 \in CasArgs
  BY MemcacheAssumption DEF CasArgs
<1>2. CASE \/ TextGet(w, k) \/ TextAppend(w, k) \/ TextIncr(w, k)
           \/ TextDelete(w, k) \/ TextLock(w, k) \/ TextUnlock(w, k)
           \/ \E e \in Exptimes : TextTouch(w, k, e)
  <2>1. cmd_bin(w, k)
    BY <1>1, <1>2, Zenon DEF cmd_bin, TextGet, TextAppend, TextIncr, TextDelete,
                             TextLock, TextUnlock, TextTouch
  <2> QED
    BY <2>1, BinaryEffect, Zenon
<1>3. CASE \E cmd \in {"set", "add", "replace"}, e \in Exptimes :
              TextStore(w, k, cmd, e)
  BY <1>3, StoreEffect, Zenon DEF TextStore
<1>4. ASSUME NEW cas \in CasArgs, NEW e \in Exptimes, TextCas(w, k, cas, e)
      PROVE  HashStep
  <2>1. /\ m_hash' = [m_hash EXCEPT ![k] = set(m_hash[k], e)] /\ UNCHANGED now
        /\ Exists(k) /\ ~locked_by_other(w, m_hash[k]) /\ pc[w] = "exec"
    BY <1>4, Zenon DEF TextCas, Put, timeVars, Executing
  <2>2. m_hash[k] \in Object
    BY <2>1, Zenon DEF IInv, TypeOK, Exists
  <2>3. Effect(k, set(m_hash[k], e))
    BY <2>1, <2>2, OpsEffect, Zenon DEF Effect, locked_by_other
  <2> QED
    BY <2>1, <2>3, ChangeEffect, Zenon
<1> QED
  BY <1>2, <1>3, <1>4, Zenon DEF cmd_text

\* unlock_all and the destructor only release locks.
LEMMA ReleaseEffect ==
    ASSUME IInv, NEW k \in Keys, NEW c \in Conns, k \in m_locks[c],
           m_hash' = [m_hash EXCEPT ![k] = IF Exists(k) THEN unlock(@) ELSE @],
           UNCHANGED now
    PROVE  HashStep
<1>1. Exists(k) /\ m_hash[k] \in Object
  <2>1. Exists(k)
    BY Zenon DEF IInv, LockOwnership
  <2> QED
    BY <2>1, Zenon DEF IInv, TypeOK, Exists
<1>2. locked(m_hash[k])
  BY UnlockedIsUnheld, Zenon
<1>3. m_hash' = [m_hash EXCEPT ![k] = unlock(m_hash[k])]
  BY <1>1, Zenon
<1>4. Effect(k, unlock(m_hash[k]))
  BY <1>1, <1>2, OpsEffect, Zenon DEF Effect, locked
<1> QED
  BY <1>3, <1>4, ChangeEffect, Zenon

\* The GC thread removes unlocked objects and makes the others older.
LEMMA GCEffect ==
    ASSUME IInv, NEW k \in Keys, gc_visit(k)
    PROVE  HashStep
<1> DEFINE o == IF ~Exists(k) \/ Collect(m_hash[k]) THEN NoObject
                ELSE survive(m_hash[k])
<1>1. m_hash' = [m_hash EXCEPT ![k] = o] /\ UNCHANGED now
  BY Zenon DEF gc_visit
<1>2. Exists(k) => m_hash[k] \in Object
  BY Zenon DEF IInv, TypeOK, Exists
<1>3. Effect(k, o)
  <2>1. CASE ~Exists(k)
    BY <2>1, Zenon DEF Effect
  <2>2. CASE Exists(k) /\ Collect(m_hash[k])
    <3>1. ~locked(m_hash[k])
      BY <2>2, Zenon DEF Collect, expired
    <3> QED
      BY <1>2, <2>2, <3>1, OpsEffect, Zenon DEF Effect
  <2>3. CASE Exists(k) /\ ~Collect(m_hash[k])
    BY <1>2, <2>3, OpsEffect, Zenon DEF Effect
  <2> QED
    BY <2>1, <2>2, <2>3, Zenon
<1> HIDE DEF o
<1> QED
  BY <1>1, <1>3, ChangeEffect, Zenon

\* Every step of the specification does one of the things on the list to each
\* object, and the clock never runs backwards.
LEMMA StepEffect ==
    ASSUME IInv, [Next]_vars PROVE HashStep
<1>1. ASSUME NEW w \in Workers, NEW k \in Keys, unlock_all(w, k) PROVE HashStep
  <2>1. job[w] \in Conns /\ k \in m_locks[job[w]]
    BY <1>1, Zenon DEF unlock_all, IInv, JobsAreAlive
  <2>2. CASE Exists(k) /\ ~locked_by_self(w, m_hash[k])
    BY <1>1, <2>2, NoEffect, Zenon DEF unlock_all, Throw, timeVars
  <2>3. CASE ~(Exists(k) /\ ~locked_by_self(w, m_hash[k]))
    <3>1. /\ m_hash' = [m_hash EXCEPT ![k] = IF Exists(k) THEN unlock(@) ELSE @]
          /\ UNCHANGED now
      BY <1>1, <2>3, Zenon DEF unlock_all, timeVars
    <3> QED
      BY <2>1, <3>1, ReleaseEffect, Zenon
  <2> QED
    BY <2>2, <2>3, Zenon
<1>2. ASSUME NEW c \in Conns, NEW k \in Keys, DestroyUnlock(c, k) PROVE HashStep
  <2>1. /\ m_hash' = [m_hash EXCEPT ![k] = IF Exists(k) THEN unlock(@) ELSE @]
        /\ UNCHANGED now /\ k \in m_locks[c]
    BY <1>2, Zenon DEF DestroyUnlock, timeVars
  <2> QED
    BY <2>1, ReleaseEffect, Zenon
<1>3. ASSUME NEW w \in Workers,
             \/ SetContext(w) \/ RecvOK(w) \/ RecvAgain(w) \/ RecvNone(w)
             \/ RecvReset(w) \/ EndBatch(w) \/ TooLarge(w) \/ Unlocked(w)
             \/ UnlockAll(w) \/ Quit(w) \/ (\E t \in 0..MaxTime : Flush(w, t))
      PROVE  HashStep
  <2>1. UNCHANGED <<m_hash, now>>
    BY <1>3, Zenon DEF SetContext, RecvOK, RecvAgain, RecvNone, RecvReset, EndBatch,
                       TooLarge, Unlocked, UnlockAll, Quit, Flush, timeVars
  <2> QED
    BY <2>1, NoEffect, Zenon
<1>4. ASSUME NEW c \in Conns,
             \/ (\E f \in Fds : make_memcache_socket(c, f))
             \/ (\E w \in Workers : on_readable(c, w))
             \/ invalidate_and_close(c) \/ remove_resource(c) \/ fix_garbage(c)
             \/ Destroy(c) \/ Destroyed(c)
      PROVE  HashStep
  <2>1. UNCHANGED <<m_hash, now>>
    BY <1>4, Zenon DEF make_memcache_socket, on_readable, invalidate_and_close,
                       remove_resource, fix_garbage, Destroy, Destroyed, timeVars
  <2> QED
    BY <2>1, NoEffect, Zenon
<1>5. ASSUME NEW t \in now..MaxTime, on_master_interval(t) PROVE HashStep
  <2>1. UNCHANGED m_hash /\ now <= t /\ now' = t
    BY <1>5, Zenon DEF on_master_interval
  <2> QED
    BY <2>1, NoChange, Zenon
<1>6. CASE gc_end \/ UNCHANGED vars
  <2>1. UNCHANGED <<m_hash, now>>
    BY <1>6, Zenon DEF gc_end, vars
  <2> QED
    BY <2>1, NoEffect, Zenon
<1>7. ASSUME NEW w \in Workers, Worker(w) PROVE HashStep
  BY <1>1, <1>3, <1>7, BinaryEffect, TextEffect, Zenon DEF Worker
<1>8. ASSUME NEW c \in Conns, Reactor(c) PROVE HashStep
  BY <1>2, <1>4, <1>8, Zenon DEF Reactor
<1> QED
  BY <1>5, <1>6, <1>7, <1>8, GCEffect, Zenon DEF Next

\* Two sockets with one descriptor number: one of them has closed it.
LEMMA SharedFd ==
    ASSUME IInv, NEW c \in Conns, NEW d \in Conns, c # d, fd[c] = fd[d],
           st[c] # "free", st[d] # "free"
    PROVE  ShareFd(c, d)
<1>1. ~(st[c] \in Unclosed /\ st[d] \in Unclosed)
  BY Zenon DEF IInv, OpenFdsDiffer
<1>2. st[c] \in SockStates /\ st[d] \in SockStates
  BY Zenon DEF IInv, TypeOK
<1>3. st[c] \in {"closed", "dead"} \/ st[d] \in {"closed", "dead"}
  BY <1>1, <1>2, Zenon DEF SockStates, Unclosed
<1> QED
  BY <1>3, Zenon DEF ShareFd

\* A key in the m_locks of a socket names a locked object with its number.
LEMMA HeldIsLocked ==
    ASSUME IInv, NEW c \in Conns, NEW k \in m_locks[c]
    PROVE  /\ k \in Keys /\ Exists(k) /\ locked(m_hash[k])
           /\ m_hash[k].lock = fd[c] /\ st[c] # "free"
<1>1. k \in Keys
  BY Zenon DEF IInv, TypeOK
<1>2. Exists(k) /\ m_hash[k].lock = fd[c] /\ st[c] # "free"
  BY Zenon DEF IInv, LockOwnership
<1>3. locked(m_hash[k])
  BY <1>1, UnlockedIsUnheld, Zenon
<1> QED
  BY <1>1, <1>2, <1>3, Zenon

\* While an object is locked, only a command of its holder changes its data or
\* removes it, or one of a connection that shares the holder's number.
THEOREM LockedIsProtectedHolds == Spec => LockedIsProtected
<1> DEFINE P == \A c \in Conns : \A k \in m_locks[c] : Writes(k) =>
                   \E w \in Workers : /\ pc[w] = "exec"
                                      /\ job[w] = c \/ ShareFd(c, job[w])
<1>1. ASSUME IInv, [Next]_vars PROVE [P]_vars
  <2> SUFFICES ASSUME NEW c \in Conns, NEW k \in m_locks[c], Writes(k)
               PROVE  \E w \in Workers : /\ pc[w] = "exec"
                                         /\ job[w] = c \/ ShareFd(c, job[w])
    BY Zenon
  <2>1. /\ k \in Keys /\ Exists(k) /\ locked(m_hash[k])
        /\ m_hash[k].lock = fd[c] /\ st[c] # "free"
    BY <1>1, HeldIsLocked, Zenon
  <2>2. Effect(k, m_hash'[k])
    BY <1>1, <2>1, StepEffect, Zenon DEF HashStep
  <2>3. PICK w \in Workers : pc[w] = "exec" /\ locked_by_self(w, m_hash[k])
    BY <2>1, <2>2, Zenon DEF Effect, Writes
  <2>4. /\ job[w] \in Conns /\ st[job[w]] \notin {"free", "dead"}
        /\ fd[c] = fd[job[w]]
    BY <1>1, <2>1, <2>3, ContextOfExec, Zenon DEF locked_by_self
  <2>5. job[w] = c \/ ShareFd(c, job[w])
    BY <1>1, <2>1, <2>4, SharedFd, Zenon
  <2> QED
    BY <2>3, <2>5, Zenon
<1> QED
  BY <1>1, Invariance, PTL DEF Spec, LockedIsProtected

\* An object that has expired is live again only by a write, by a lock taken
\* on it, or by a change of the flush request.
THEOREM ExpiredStaysExpiredHolds == Spec => ExpiredStaysExpired
<1> DEFINE P == \A k \in Keys :
                   Exists(k) /\ expired(m_hash[k]) /\ ~expired(m_hash[k])' =>
                      \/ Writes(k)
                      \/ m_hash[k].lock # m_hash'[k].lock
                      \/ flush_time # flush_time'
<1>1. ASSUME IInv, [Next]_vars PROVE [P]_vars
  <2> SUFFICES ASSUME NEW k \in Keys, Exists(k), expired(m_hash[k]),
                      m_hash'[k].cas = m_hash[k].cas,
                      m_hash[k].lock = m_hash'[k].lock, flush_time' = flush_time
               PROVE  expired(m_hash[k])'
    BY Zenon DEF Writes
  <2>1. Effect(k, m_hash'[k]) /\ now <= now'
    BY <1>1, StepEffect, Zenon DEF HashStep
  <2>2. \/ m_hash'[k].exptime = m_hash[k].exptime
        \/ \E w \in Workers : pc[w] = "exec" /\ locked_by_self(w, m_hash[k])
    BY <2>1, Zenon DEF Effect
  <2>3. ~locked(m_hash[k])
    BY Zenon DEF expired
  <2>4. \A w \in Workers : pc[w] = "exec" => ~locked_by_self(w, m_hash[k])
    BY <1>1, <2>3, ContextOfExec, Zenon DEF locked, locked_by_self
  <2>5. m_hash'[k].exptime = m_hash[k].exptime
    BY <2>2, <2>4, Zenon
  <2>6. /\ now \in Nat /\ now' \in Nat /\ flush_time \in Nat
        /\ m_hash[k].exptime \in Nat
    <3>1. TypeOK /\ TypeOK'
      BY <1>1, IInvIsInductive, Zenon DEF IInv
    <3> QED
      BY <3>1 DEF TypeOK, Object, NoObject
  <2> QED
    BY <2>1, <2>5, <2>6 DEF expired, locked
<1> QED
  BY <1>1, Invariance, PTL DEF Spec, ExpiredStaysExpired

\* A command of worker w meets a lock of its own number that its socket does
\* not have: another socket has it.
LEMMA ForeignLock ==
    ASSUME IInv, NEW w \in Workers, pc[w] = "exec", NEW k \in Keys,
           locked_by_self(w, m_hash[k]), k \notin m_locks[job[w]]
    PROVE  \E c \in Conns : m_locks[c] # {} /\ ShareFd(c, job[w])
<1>1. /\ job[w] \in Conns /\ st[job[w]] \notin {"free", "dead"}
      /\ m_hash[k].lock = fd[job[w]] /\ m_hash[k].lock # NoLock
  BY ContextOfExec, Zenon DEF locked_by_self
<1>2. PICK c \in Conns : k \in m_locks[c]
  BY <1>1, Zenon DEF IInv, LockOwnership, locked
<1>3. m_hash[k].lock = fd[c] /\ st[c] # "free"
  BY <1>2, HeldIsLocked, Zenon
<1>4. ShareFd(c, job[w])
  BY <1>1, <1>2, <1>3, SharedFd, Zenon
<1> QED
  BY <1>2, <1>4, Zenon

\* The causes ThrowIsExplained names.
Explained ==
    \E w \in Workers, d \in Conns :
       /\ job[w] = d
       /\ \/ st[d] # "open" /\ g_context[w] # fd[d]
          \/ \E c \in Conns : m_locks[c] # {} /\ ShareFd(c, d)

\* The steps that throw: a command whose number another socket shares, and a
\* walk over the locks of a socket with a context that is not its own.
LEMMA ThrowStep ==
    ASSUME IInv, [Next]_vars, ~thrown, thrown' PROVE Explained
<1>1. ASSUME NEW w \in Workers, NEW k \in Keys, unlock_all(w, k) PROVE Explained
  <2>1. /\ pc[w] \in {"unlock", "quit", "leave", "deny"} /\ k \in m_locks[job[w]]
        /\ ~locked_by_self(w, m_hash[k])
    BY <1>1, Zenon DEF unlock_all
  <2>2. job[w] \in Conns
    BY <2>1, Zenon DEF IInv, JobsAreAlive
  <2>3. g_context[w] # fd[job[w]]
    BY <2>1, <2>2, HeldIsLocked, Zenon DEF locked_by_self
  <2>4. st[job[w]] # "open"
    BY <2>1, <2>3, Zenon DEF IInv, ContextIsFd, Contexted, Started
  <2> QED
    BY <2>2, <2>3, <2>4, Zenon DEF Explained
<1>2. ASSUME NEW w \in Workers, NEW k \in Keys,
             \/ Unlock(w, k) \/ (\E cas \in CasArgs : Delete(w, k, cas))
             \/ (\E cas \in CasArgs, e \in Exptimes : RaU(w, k, cas, e))
      PROVE  Explained
  <2>1. pc[w] = "exec" /\ locked_by_self(w, m_hash[k]) /\ k \notin m_locks[job[w]]
    BY <1>2, Zenon DEF Unlock, Delete, RaU, RemoveLock, Executing
  <2> QED
    BY <2>1, ForeignLock, ContextOfExec, Zenon DEF Explained
<1>3. ASSUME NEW w \in Workers, NEW k \in Keys, cmd_bin(w, k) PROVE Explained
  <2>1. \A o : ~Put(k, o) /\ ~AddLock(w, k, o)
    BY Zenon DEF Put, AddLock
  <2>2. /\ ~Get(w, k) /\ ~Lock(w, k) /\ ~LaG(w, k)
        /\ \A e \in Exptimes : /\ ~GaT(w, k, e) /\ ~Touch(w, k, e)
                               /\ ~IncrementCreate(w, k, e) /\ ~LaGTouch(w, k, e)
    BY <2>1, Zenon DEF Get, GaT, Touch, IncrementCreate, Lock, LaG, LaGTouch
  <2>3. /\ \A cmd, cas, e : ~Store(w, k, cmd, cas, e)
        /\ \A cas : ~Append(w, k, cas) /\ ~Increment(w, k, cas)
    BY <2>1, Zenon DEF Store, Append, Increment, Modify
  <2> QED
    BY <1>2, <1>3, <2>2, <2>3, Zenon DEF cmd_bin
<1>4. ASSUME NEW w \in Workers, NEW k \in Keys, cmd_text(w, k) PROVE Explained
  <2>1. 0 \in CasArgs
    BY MemcacheAssumption DEF CasArgs
  <2>2. \A cmd, cas, e : ~Store(w, k, cmd, cas, e) /\ ~TextCas(w, k, cas, e)
    BY Zenon DEF Store, TextCas, Put
  <2>3. cmd_bin(w, k)
    BY <1>4, <2>1, <2>2, Zenon
       DEF cmd_text, cmd_bin, TextGet, TextAppend, TextIncr, TextDelete, TextLock,
           TextUnlock, TextTouch, TextStore
  <2> QED
    BY <1>3, <2>3, Zenon
<1>5. \A w \in Workers :
         /\ ~SetContext(w) /\ ~RecvOK(w) /\ ~RecvAgain(w) /\ ~RecvNone(w)
         /\ ~RecvReset(w) /\ ~EndBatch(w) /\ ~TooLarge(w) /\ ~Unlocked(w)
         /\ ~UnlockAll(w) /\ ~Quit(w) /\ \A t : ~Flush(w, t)
  BY Zenon DEF SetContext, RecvOK, RecvAgain, RecvNone, RecvReset, EndBatch,
               TooLarge, Unlocked, UnlockAll, Quit, Flush
<1>6. \A c \in Conns : ~Reactor(c)
  BY Zenon DEF Reactor, make_memcache_socket, on_readable, invalidate_and_close,
               remove_resource, fix_garbage, Destroy, DestroyUnlock, Destroyed
<1>7. /\ \A t : ~on_master_interval(t)
      /\ \A k : ~gc_visit(k)
      /\ ~gc_end /\ ~UNCHANGED vars
  BY Zenon DEF on_master_interval, gc_visit, gc_end, vars
<1>8. ASSUME NEW w \in Workers, Worker(w) PROVE Explained
  BY <1>1, <1>3, <1>4, <1>5, <1>8, Zenon DEF Worker
<1> QED
  BY <1>6, <1>7, <1>8, Zenon DEF Next

\* A logic_error has one of the two causes: a job on a socket that was
\* invalidated before the job could set its context, or two sockets with one
\* descriptor number of which one is closed and one holds locks.
THEOREM ThrowIsExplainedHolds == Spec => ThrowIsExplained
<1>1. ASSUME IInv, [Next]_vars PROVE [~thrown /\ thrown' => Explained]_vars
  BY <1>1, ThrowStep, Zenon
<1> QED
  BY <1>1, Invariance, PTL DEF Spec, ThrowIsExplained, Explained
=============================================================================
