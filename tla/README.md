# yrmcds in TLA+

Models of yrmcds, the properties they should have, TLC runs that check these on
small instances, and proofs checked by TLAPS.
Everything is translated from `src/` and `cybozu/`; where the documents under
`docs/` and the code disagree, the modules follow the code.

## The system

A server is a master or a slave. In both roles one *reactor* thread polls all
sockets with edge-triggered epoll. A master also has *worker* threads and, from
time to time, a *GC* thread for each protocol.

| part | source | modelled in |
|---|---|---|
| memcache commands, objects, server-side locks | `src/memcache/sockets.*`, `object.*` | Memcache |
| expiry, flush and eviction by the memcache GC thread | `src/memcache/gc.*` | Memcache; slaves in Replication |
| counter protocol (named semaphores) | `src/counter/` | Counter, CounterPeak |
| request parsers, receiving | `src/memcache/memcache.*`, `src/counter/counter.*`, `m_recvjob`, `tcp.hpp` | Protocol, Framing |
| workers and the dispatch of jobs | `cybozu/worker.hpp`, `src/server.cpp`, `on_readable` | Dispatch |
| reactor: readable list, removal, closing, destruction | `cybozu/reactor.*` | Dispatch, Reclaim |
| syncer and the interval callback of a master | `src/sync.hpp`, `src/server.cpp`, `src/memcache/handler.cpp` | Reclaim, Replication |
| replication to slaves, initial copy | `src/memcache/replication.cpp`, `gc.cpp`, `handler.cpp` | Replication; its messages in Protocol and Framing |
| TCP send buffers | `cybozu/tcp.*` | SendBuffer, with ByteStream as its specification |
| role of a server, virtual IP, promotion | `src/server.cpp`, `src/memcache/handler.cpp` | Roles |
| hash map | `cybozu/hash_map.*` | HashMap, with KeyValue as its specification |
| dynamic buffers, temporary files, data of objects | `cybozu/dynbuf.hpp`, `src/tempfile.*`, `object.cpp` | DynBuf, Storage, Numerals |
| responses, configuration, logging, signals, addresses | the rest | not modelled: output, I/O and start-up |

How the parts interact: the reactor finds a readable client socket, gives it to
an idle worker (Dispatch), and the worker receives bytes, cuts them into requests
(Framing) and executes these on the hash (Memcache, Counter; HashMap below them).
Answers, and changes for the slaves, go through the send buffers (SendBuffer, Replication), which the reactor or a
worker drains later. A socket that fails is invalidated by whoever notices; the
reactor closes and destroys it when no other thread can still use it (Reclaim).
Which server is the master, and to whom slaves connect, follows a virtual address
(Roles).

## Modules

In each module an action is a whole handler, or, where the code gives up a lock
or waits inside a handler, the part up to there. Names are those of the code
where TLA+ allows it. Operators marked `Mutation` are broken variants of
definitions of the code. No specification uses them; each one shows that some
property notices the defect when it takes the place of the original.

**Memcache** has the hash, the client sockets with their lives (`st`), the
workers with their position in `m_recvjob` and their thread-local `g_context`,
the clock, the flush request and the GC thread. An object is its CAS number
(which stands for the data), expiration time, lock and age. Every command of the
binary and the text protocol that changes one of these is an operator
(`cmd_bin`, `cmd_text`). `unlock_all` and the destructor are one step per key,
because they take one bucket lock per key. `thrown` records that a
`std::logic_error` is reached, after which nothing happens.

**Counter** has the semaphores, the table of each connection, the steps of
`release_all` and the GC thread. The phase of a connection says whether a worker runs
its job, and whether the socket has been invalidated under the job, which then goes
on with the requests it has received. `Width` replaces the 32 bits of a count;
addition wraps at `2^Width`. **CounterPeak** adds history variables with the
true maximum of the current interval and with whether a sum has wrapped.

**Dispatch** has `post_job`, `stop` and `run` of a worker statement by
statement, `m_busy`, `m_readables` and the epoll edge. A worker's thread begins at
any time after `start()`, so that jobs can be posted to it before; the sockets of
such jobs are in the history variable `early`.

**Reclaim** has the resources of the reactor (valid, closed, garbage, fixed),
the requests of other threads to drop a descriptor, `syncer`, and the interval
callback in its order: `syncer::check`, the slaves, the GC thread, reclamation.

**SendBuffer** has one connection: free and pending buffers, `m_tmpbuf`, the
threads in `send`, waiting, or in `write_pending_data`, and the kernel's buffer.
Bytes carry the message and the position they come from. The parts of a `sendv` are
one message: `_sendv` offers them to the kernel and copies them to the buffers one
behind the other, and MCSendBuffer has TLC compare the copying part by part with
`Fill` (`PartsAreOneMessage`). **ByteStream** is what
the comments in `tcp.hpp` promise: each message is appended whole or not at all,
bytes leave in order, and after invalidation nothing more is sent.

**Replication** has the hash of the master, the lists of slaves that workers and
the GC thread hold, the syncer, and for each connection the stream of `SetQ`,
`Touch` and `DeleteQ` and the hash of the slave. An object is the update that
stored its data and the update that set its expiration time. `copied` and `late`
are history variables. It composes the send buffers with the bucket mutexes: a
sender that finds the buffers of a hung slave full waits in the lock of its bucket
(`waiting`), and the reactor may wait for a bucket in the destructor of a client's
socket (`reactor`), during which it does none of its other work.

**Roles** has a cluster: `serve`, `serve_slave`, `on_slave_start`,
`on_slave_interval` and `on_slave_end` with the loop of `reactor::run` in its three
parts (poll, callback, test of `m_running`), and the life of the socket that
`m_repl_client_socket` points to, up to the use of a destroyed one, which may go
unnoticed or end the process. A master is one state with its number of slaves.
Moves of the address, crashes, restarts and broken connections are actions of the
surroundings. `offered` is a history variable: what the peer of a slave has had
since the slave connected.

**Protocol** has the parsers as operators on sequences of cells: a word or number
of a text line, CR, LF, a byte of data, the beginning of a binary header with its
fields. What the code tells apart is kept: early returns, the order of tests,
lengths, limits, the width and the sign of numbers and `errno`. It also has the encoders and the
decoder of replication. **DynBuf** is `cybozu::dynbuf` with its capacities.
**Framing** runs the parsers: a worker with its one buffer serves connections in
turn, `receive` takes any part of what has arrived, and the unparsed rest goes to
`m_pending`; a slave does likewise with the updates of its master.

**HashMap** has the chains of `hash_map` item by item: a walk holds the address of
a pointer (`item**`), addresses are used again after `delete`, and `foreach` and
`gc` give up the lock between buckets. **Storage** has the objects that the items
hold, in a buffer or in a file, and **Numerals** what `std::stoull` and `snprintf`
do. **KeyValue** is what the commands rely on: a map from keys to bytes, and calls in
progress, each of which takes effect at once some time before it returns. How bytes
are read as a number, and a number written, are its parameters; HashMap gives it
those of Numerals.

`MC*.tla` instantiate the modules; `*Proofs.tla` hold the proofs.

## What the runs check

Passing runs:

| run | properties | instance |
|---|---|---|
| `counter` | consumption is what connections hold, modulo the word (`Conservation`); a `logic_error` only after a sum has wrapped (`ThrowNeedsOverflow`); the reported maximum is exact (`PeakIsExact`); once the load subsides, a gone connection gives everything back, also what the rest of its last batch acquires (`GoneIsReleased`) | 2 names in 1 bucket, 2 connections, one interval boundary, counts up to the top of the word |
| `lock` | object and socket agree on every lock (`LockOwnership`); a locked object changes only through its holder, or a connection with its descriptor (`LockedIsProtected`); a `logic_error` has one of two causes (`ThrowIsExplained`) | 2 keys, 2 connections, 2 descriptors, 2 workers |
| `store` | `LockedIsProtected` for all commands with expiry, flush and eviction; an expired object does not come back (`ExpiredStaysExpired`); once the load subsides, the locks of a gone client are released (`LocksAreReleased`) | 1 key, 2 connections on 1 descriptor, 1 worker |
| `dispatch` | one worker per socket (`OneWorkerPerSocket`), no lost wakeup (`WakeupIsRemembered`), all input is received but for jobs posted before the thread began (`InputIsReceived`), workers are joined but for one that spins (`StopTerminates`) | 2 sockets, 2 workers, 2 requests each |
| `reclaim` | no dangling pointer, no use of a closed descriptor; removal requests never name a reused descriptor and no `logic_error` is reached (`DropRequestsAreCurrent`); the initial copy waits for every old job (`NewSlavesMissNothing`) | 2 sockets, 2 descriptors, 2 workers, GC |
| `reclaim_live` | removed sockets are destroyed once the load subsides (`GarbageIsDestroyed`) | 2 sockets, 1 descriptor, 1 worker |
| `send_buffer` | SendBuffer implements ByteStream (`SendsAtomically`); buffers are conserved; no sender waits that could go on; pending data is watched; sends complete | 2 workers, 2 buffers of 2 bytes, 3 messages of 1, 3 or 5 bytes, kernel buffer of 2 bytes |
| `replication` | a slave misses no object after its initial copy (`ReplicaIsComplete`), keeps no removed object (`RemovedIsForgotten`), never goes back (`NeverBackwards`); a hung slave does not stop the GC thread, unless all wait for each other (`GCTerminates`) | 1 key, 1 connection, 2 workers, 2 updates |
| `roles` | a slave has nothing of earlier masters (`ForgetsOldMaster`); when the address stays, its owner is the only master and all others follow it, but for deserted slaves (`ClusterConverges`) | 2 servers, 1 object, 3 faults, `MAX_SLAVES` 1 |
| `framing` | the commands executed are those sent (`CommandsAsSent`), none is held back (`NothingHeldBack`), only too large ones are refused (`OnlyTooLargeIsDenied`), buffers are bounded (`BuffersAreBounded`), a slave decodes what the master encodes (`ReplicaDecodes`) | 2 connections, 1 worker, over 50 kinds of requests, 15 sequences of updates, segments of at most 3 cells |
| `structures` | chains are sound and walks safe (`ChainsAreSound`), scans meet every object once (`ScanIsComplete`), bytes are where their size says (`StoredBySize`), HashMap implements KeyValue (`BehavesAsMap`) | 3 keys in 2 buckets, 2 workers and GC, 4 operations, limit of 2 bytes, 2-bit numbers |

`TypeOK` of a module is a conjunct of one of its invariants, except in Memcache,
where it is proved.

A run in which TLC finds the code at odds with its documentation:

| run | what happens |
|---|---|
| `zombie_slave` | `on_slave_interval` (`src/memcache/handler.cpp:174`) sends a heartbeat on a connection that has just been reset. `send` invalidates the socket, `poll` removes it before it looks for events, and none of the callbacks that quit the loop is called. The slave polls for ever without a connection, and uses the destroyed socket in every interval; `docs/design.md:22-25` says that it tries to become the master or connects again |

### Bounds

Two connections, workers or sockets are needed for every race above, and two are
enough for a defect in which one actor interferes with another; none of the
handlers treats a third differently. Two descriptors, or one, with more socket
slots than open connections make the kernel reuse numbers. In `counter` the
clock crosses one boundary of the statistics interval, and after a sum has wrapped
nobody acquires any more, while everything held is still given back. In
`send_buffer` five bytes exceed both buffers, so that `m_tmpbuf` is used, and three-byte messages
end inside a buffer. In `replication` one connection is enough because sending is
pointwise, and one key because each bucket has a lock of its own; two updates
besides those of the GC thread give every order of set, touch, delete, copy and
removal. In `roles` two servers are a master and a slave in both directions; with three
faults the address moves, comes back, and a connection breaks in between. In
`framing` each kind of request stands before and after others, a buffer holds two
receives, and the longest request is longer than `MAX_REQUEST_LENGTH`; numbers lie
at and beyond the limits of their types. In `structures` two keys share a bucket,
which gives chains in which an item is first, last or alone. Assumptions of MCHashMap
check `nearest_prime` for all numbers up to 130, and that `to_uint64` reads what
`s_value` writes. `MaxCas`, `MaxAge`, `MaxTime`, `MaxInput`,
`MaxJoins`, `MaxMessages`, `MaxUpdates`, `MaxFaults` and `MaxOps` bound counters.
Symmetry is used only in runs without liveness.

### Fairness

- Memcache: GC runs and destructors go on, and the reactor serves removal requests
  at every turn. It destroys a socket only after it has seen every worker idle, and
  begins to wait for that only when there is no GC thread. So destruction is fair
  only under the condition `LoadSubsides`: from some time on no worker has a job, and
  no flush or memory pressure calls for GC runs back to back. Then it happens between
  the periodic GC runs. Fairness is strong, because the destructor of another socket
  may be in progress in between.
- Counter: a `release_all` goes on; the destruction of sockets is fair under the same
  condition (here: no connection has a job; the memcache side, which shares the
  workers, is taken to pause as well).
- The two properties that rest on this have `LoadSubsides` as their premise and say
  nothing about lasting load. That the waiting of the reactor does come to an end is
  what Reclaim shows, where workers, GC thread, new slaves and syncer are all modelled.
- Dispatch: the reactor and each worker take their next statement.
- Reclaim: the callback runs once a second; functions given to `with_fd` return;
  `GarbageIsDestroyed` also assumes that from some time on no job is posted and
  no GC run is started, since the code does not reclaim under lasting load.
- SendBuffer: threads run, and a peer that has not reset acknowledges.
- Replication: the GC thread runs, a slave that is neither hung nor gone reads,
  and the reactor notices missing heartbeats, unless it waits for a bucket. A hung
  slave need not recover.
- Roles: the threads of a server run, the interval passes again and again (strong
  fairness of the callback, since `poll` comes in between), the GC thread is started
  every `gc_interval` (`gc_ready`; it is not modelled here how), the service manager restarts a process, and TCP reports a
  broken connection in the end because heartbeats are sent. The address and the
  faults are not fair.
- Framing and HashMap have safety properties only.

## What is proved

The theorems hold for every value of the constants that satisfies the `ASSUME` of
the module: any number of keys, connections, sockets, workers, servers or updates,
where the runs have two or three. `Spec` is in each case the specification of the
runs without its fairness.

| module | theorems | assumptions beyond types of constants |
|---|---|---|
| MemcacheProofs | `TypeCorrectness`, `LockOwnershipHolds`, and for steps `LockedIsProtectedHolds`, `ExpiredStaysExpiredHolds`, `ThrowIsExplainedHolds` | none |
| CounterProofs | `ConservationHolds`, `ThrowNeedsOverflowHolds`, `PeakIsExactHolds` | finitely many connections (their holdings are summed up) |
| DispatchProofs | `OneWorkerPerSocketHolds`, `WakeupIsRememberedHolds` | at least one worker |
| ReclaimProofs | `NoDanglingPointersHolds`, `NoUseOfClosedFdHolds`, `DropRequestsAreCurrentHolds`, `NewSlavesMissNothingHolds` | none |
| ReplicationProofs | `ReplicaIsCompleteHolds`, `RemovedIsForgottenHolds`, and for steps `NeverBackwardsHolds` | finitely many slaves (they are counted) |
| RolesProofs | `ForgetsOldMasterHolds` | finitely many servers (slaves are counted) |
| HashMapProofs | `ChainsAreSoundHolds`, `ScanIsCompleteHolds`, `StoredBySizeHolds`, and the refinement `BehavesAsMapHolds` | there is a bucket; a numeral fits into a buffer (it has at most 20 digits, `heap_data_limit` is at least 4096 by `config.cpp`) |
| SendBufferProofs | `BuffersAreConservedHolds`, `WaitersCannotSendHolds`, `QueueIsWatchedHolds`, and the refinement `SendsAtomicallyHolds` | a buffer and the kernel's buffer hold at least one byte (`SENDBUF_SIZE` is 1 MiB) |

A theorem `XHolds` is about the property `X` that a run checks. None of these
properties is inductive. Each module has a theorem `Invariance` for an inductive
strengthening `IInv`; TLC has checked each `IInv` on the instance of the run before
it was proved (in HashMap with lists up to the number of addresses). The proofs have one lemma per action (or per group of actions that
change the same variables), in which there is a step for each conjunct that the
action can disturb.

- **Memcache.** That a command records a lock with its own socket's descriptor
  depends on where the worker is: a worker with a job has a socket that is not
  destroyed, and while it executes commands its `g_context` is that socket's
  descriptor. Four lemmas carry the commands, which are instances of them: storing
  an object with its lock unchanged, taking a lock, dropping a lock, and throwing.
  For the action properties two sockets that are both open have different
  descriptors, so that whoever passes the test of `object::locked_by_self` is the
  holder or shares a closed descriptor.
- **Counter.** `SumsOK` says that each object counts what connections hold, modulo
  `2^Width`; that alone is inductive as long as nothing is thrown. `ExactOK` adds
  that before a sum wraps no table has an entry of zero, so that a name in a table
  has an object and `release` cannot fail. `PeaksOK` relates the three fields of an
  object to the history: the object is stale exactly when its maximum is out of
  date. The total over connections is the cardinality of a set of units, so that
  the change of one connection changes it by as much (`TotalChange`). The proofs
  are about `SpecHistory`, in which clients may acquire after a sum has wrapped;
  the run has the bound of `SpecPeak` (`BoundIsARestriction`).
- **Dispatch.** `Holds(w)` covers a worker from the moment `m_running` is up, before
  it has read the job. The sockets so held are busy and differ, and the one the
  reactor is about to post is held by nobody. `RunningOK` is what makes the test of
  `m_running` by the finder safe: past `read()` a worker's flag is up.
- **Reclaim.** Who may point to a socket in which state of its life: workers to any
  socket that is not destroyed, the lists and requests to none in `m_garbage_copy`.
  A request for `gc()` promises that the workers marked in it do not point to
  garbage, and a request for a new slave that the marked ones know the slave
  (`GarbageOK`, `JoinOK`). A thread that is about to request a removal is the only
  one to do so for its socket (`DropOK`).
- **Replication.** A slave is known to every job once its request is complete
  (`JoinOK`), and a slave that is not late to the GC thread as well (`EarlyOK`), so
  that every change of an object is appended to its stream. What the slave will
  have, `Final`, is defined by replaying the stream; `ReplayAppend` and
  `ReplayTail` say what sending and receiving one command does to it. They rest on
  the existence and uniqueness of the recursive function `Replay`, shown by
  induction over the length of the stream (`NatSetInduction`). `NeverBackwards` needs the order of versions along the
  stream and up to the master (`VersionsOK`, `StreamsOK`).
- **Roles.** What a slave receives is a subset of what its master had
  (`LinkOK`): a connection that is up leads to a master all of whose objects are
  in `offered`.
- **HashMap.** Every bucket has a chain (`ChainsOK`): a finite list that begins at
  its head, goes on through the fields `next` to a null pointer, and has the items
  of the bucket, each once and each with a key of its own. A walk is at a position
  of the chain of a bucket whose lock it has (`WalksOK`): a call has none of the
  items before it with its key, and a scan has met exactly the items before it.
  `UnlinkedChain` and `InsertedChain` say what becomes of the list when an item is
  taken out or added, and `UnlinkedWalk` that the walk that did it stands well; the
  walks of other threads are in other buckets, and `KeptChain` and `KeptWalk` carry
  them over. That every set of positions has a least one (`Ordered`) is part of the
  invariant: it holds for the empty list, is kept when a list grows or shrinks by
  one, and takes the place of induction in the proof of `ChainsAreSound`. `ScanOK`
  says what a scan has met in the buckets behind and before it. Addresses may be
  infinite in number. For the storage, `Stored` says that the bytes are in the buffer
  or in the file; lemmas for each operation of an object say that it keeps this and
  what bytes result.
- **HashMap implements KeyValue.** Items with one key are one item, so `Data_of` is
  the data of the item that a walk stands on. `Apply`, `Insert`, `NotFound` and
  `Remove_if` are the abstract `Found` and `NotFound`; a removal by `Collect` is the
  abstract `Collect`, the end of a scan is `EndScan`, and locking, walking on and
  visiting leave map and calls as they are. `CallsStore` relates the bytes that the
  handlers write to those that KeyValue asks for.
- **SendBuffer.** `Sound` says how buffers are filled: all but the last are full and
  none is sent completely. `ListFacts` and `AcceptFacts` say what sending and
  queueing does to such a list: it stays sound, the bytes it holds lose a prefix or
  gain what is queued, and as many buffers change between the two lists as
  `capacity` has promised. They rest on cuts of concatenated sequences and on
  `Unsent`, a recursive function over the buffers, unfolded by induction
  (`NatSetInduction`). `CountOK` counts the buffers also while a socket is
  invalidated, and `FailureOK` says that a socket that is being invalidated is
  broken, so that only broken connections lose data. That no sender waits in vain
  follows action by action: whatever adds room either notifies all or leaves the
  connection broken, and whoever begins to wait has found no room under the lock.
- **SendBuffer implements ByteStream.** The abstract queue is `m_tmpbuf` followed by
  what is unsent in the buffers. A message is new for the stream because a blocked
  sender's message has a number of its own (`MessagesOK`) of which no byte is queued
  or sent as long as the connection works (`BytesOK`). A call that is accepted, a
  write and an acknowledgement are the abstract `Carry`, with and without a message;
  an error, a reset and the end of an invalidation are `GoDown` or `Down`.

### Only model-checked

- Liveness under fairness (`GoneIsReleased`, `LocksAreReleased`, `InputIsReceived`,
  `StopTerminates`, `GarbageIsDestroyed`, `SendsComplete`, `GCTerminates`,
  `ClusterConverges`): out of the prover's reach.
- Protocol and Framing: what the parsers compute is defined by folds and choices over
  sequences of cells; the properties compare it with all the requests of a finite
  list.
- That the parts of a `sendv` can be copied as one message (an assumption of
  MCSendBuffer): a fold over the parts.
- That `nearest_prime` finds a prime, and that numerals are read back: assumptions of
  MCHashMap.

## Disagreements without a run

Points where reading the code against its documents showed a difference:

- `src/counter/object.hpp:26`: the 32-bit sum in `object::acquire` wraps, although
  `docs/counter.md:182` compares the true sum; a later release then reaches the
  `logic_error` of `src/counter/sockets.cpp:185`. `ThrowNeedsOverflow` says that
  this is the only way to it.
- `src/memcache/sockets.cpp:47`: a job of a socket that was invalidated before the
  job began walks its locks with the `g_context` of another connection, and
  `object::unlock` throws (`src/memcache/object.hpp:138-146`). One of the two causes
  in `ThrowIsExplained`.
- `src/memcache/object.hpp:158`: a lock is owned by a descriptor number; a new
  connection with the number of a closed socket that awaits destruction writes the
  locked object, against `docs/locking.md:19-21`. `LockedIsProtected` excepts
  connections that share a descriptor (`ShareFd`).
- `cybozu/worker.hpp:70`: `stop()` beside a worker that ends its job: the worker
  clears `m_running` again and spins for ever, so the join never returns.
  `StopTerminates` has this as its only exception (`SpinsForEver`).
- `cybozu/worker.hpp:79`: `start()` returns before `run()` has cleared
  `m_running`. A job posted in between is forgotten and its socket stays busy.
  `InputIsReceived` excepts these sockets (`early`).
- `cybozu/tcp.cpp:165`: the destructor of a client's socket, run by the reactor,
  waits for a bucket whose thread waits for room in a slave's buffers, which only
  the reactor makes or gives up. `docs/design.md`, "Locks and ordering", does not
  have this order. The exception `AllWait` in `GCTerminates`.
- `src/memcache/handler.cpp:178`: `on_slave_end` reads `m_repl_client_socket` after
  a callback may have destroyed it (`UseOfFreed` in Roles).
- `src/memcache/replication.cpp:104-124`: a `SetQ` without data is not well formed
  and one beyond `MAX_REQUEST_LENGTH` is too large for the parser, so that an empty
  object, or one grown by `append`, is stored without its data, flags and expiration
  time; times are cut to 32 bits. `ReplicaDecodes` is about portable objects.
- `src/memcache/memcache.cpp:59`: `to_uint` reads `errno` without clearing it, so
  that 2^64-1 is refused after an overflow in an earlier request of the thread. The
  exception in `CommandsAsSent` (`Stale`).
- `src/memcache/sockets.cpp:87`: a request longer than `MAX_REQUEST_LENGTH` is
  refused or executed depending on how it arrives.
- `src/memcache/memcache.cpp:163`: the data block of a malformed storage command is
  parsed as commands.
- `cybozu/hash_map.cpp:9`: `nearest_prime` yields the next prime, not the nearest,
  and 1 for 1.
- `src/memcache/sockets.cpp:193`: LaG locks the object before it tests
  `expired()`, which is false for a locked object, so it returns an expired one;
  `docs/locking.md:143` says the answer is that of `Get`. `LaG` in Memcache does
  what the code does.
- `src/memcache/sockets.cpp:220`: a quiet LaG of a missing key answers nothing,
  `docs/locking.md:145` describes an answer.
- `docs/design.md:33` says that slaves receive only `SetQ` and `DeleteQ`; they
  receive `Touch` as well.
- `docs/design.md:118-121` says that a slave added while a GC thread is running
  may fail to remove some objects. A slave added while a job is running may too:
  the job has the old list and deletes what a newer job has just sent. This is
  why `RemovedIsForgotten` excepts the slaves in `late`.
- `src/memcache/handler.cpp:174`: the reactor thread of a slave calls `send`,
  which `cybozu/tcp.hpp:85` forbids.
- A command that follows `quit` in one batch makes `send` fail after
  `send_close`, and the pending answer is dropped; `cybozu/tcp.hpp:126` says the
  socket is closed after data are sent.

## Not modelled

Statistics that nothing reads back, responses (output only; which request is
answered, and in which order, follows from the commands executed), connecting and
listening, configuration, logging and signals. SipHash is any function from keys to
numbers. White space other than the spaces between words of a text line, which
`strtoull` would skip too, does not occur in the cells of Protocol. Errors of system calls on temporary files throw inside a bucket lock and
end the process, which nothing observes. In Memcache and Counter receiving is
modelled by its four results and the hash is a function from keys to objects; Framing
and HashMap have the detail. Memory orders weaker than sequential consistency are not
modelled; the code pairs acquire and release on each flag it waits for. In
Replication, *when* a GC run starts and *which* objects it removes is left open;
Reclaim and Memcache have these. Roles leaves the order of updates on a connection
to Replication.

The GC thread resets `flush_time` at its end (`src/memcache/gc.cpp:146`), also when a
new `flush_all` has come in meanwhile. Memcache has this step; no document says what
should happen to the second request, so no property is about it.

## Plan

1. Roles with three servers and the streams of Replication below it.
2. The answers of the commands, against the order in which requests were sent.
