------------------------------ MODULE HashMap ------------------------------
(***************************************************************************)
(* cybozu::hash_map: buckets with a mutex each and a chain of items, and   *)
(* the walks of workers and of the GC thread along the chains.  Items have *)
(* addresses that are used again after delete.  A walk holds the address   *)
(* of the pointer to the item it looks at (item** in the code), so that it *)
(* can unlink the item.                                                    *)
(***************************************************************************)
EXTENDS Storage, TLC

CONSTANTS
    Keys,
    Hash,         \* Hash[k] is key.hash()
    buckets,      \* the configured number of buckets
    Threads,      \* workers
    gc,           \* the GC thread
    Addresses,    \* of items
    null,
    Payloads,     \* data that clients send
    Deltas,       \* operands of incr and decr, and 0 for the others
    Calls,        \* the operations on a key that threads call, see Operations
    MaxOps        \* bound on the number of operations

ASSUME HashMapAssumption ==
    /\ gc \notin Threads /\ null \notin Addresses \cup Threads \cup {gc}
    /\ Hash \in [Keys -> Nat] /\ buckets \in Nat
    /\ Deltas \subseteq 0..(2^Width - 1)
    /\ Payloads \subseteq Seq(Nat) /\ MaxOps \in Nat

\* The smallest odd number from n on that has no odd divisor up to the root.
nearest_prime(n) ==
    LET Odd(i) == i % 2 = 1
        rint(i) == CHOOSE r \in 0..i : r * r - r < i /\ i <= r * r + r
        Found(i) == Odd(i) /\ \A j \in 3..rint(i) : Odd(j) => i % j # 0
    IN  IF n = 2 THEN 2
        ELSE CHOOSE i \in n..(2 * n + 1) : Found(i) /\ \A j \in n..(i - 1) : ~ Found(j)

m_size == nearest_prime(buckets)

\* Some number is found for the configured one.
ASSUME SizeAssumption == m_size \in Nat \ {0}

Buckets == 0..(m_size - 1)

get_bucket(k) == Hash[k] % m_size

VARIABLES
    m_objects,   \* m_objects[b]: address of the first item of bucket b, or null
    item,        \* item[a]: the item at address a; "live" is FALSE if there is none
    m_lock,      \* m_lock[b]: the thread in bucket b, or null
    op,          \* op[t]: the operation of thread t
    pc,          \* pc[t]: "idle", "lock" or "walk"
    bucket,      \* bucket[t]: the bucket that t is in or about to enter
    p,           \* p[t]: where the pointer to the current item is, see Place
    ops,         \* operations begun
    steady,      \* history: keys that have been present since t began to scan
    visits       \* history: visits[t][k], how often the scan of t has met key k

vars == <<m_objects, item, m_lock, op, pc, bucket, p, ops, steady, visits>>

AllThreads == Threads \cup {gc}

\* The pointer m_objects of a bucket, or the pointer next of the item at a.
Head_of(b) == [in |-> "bucket", at |-> b]
Next_of(a) == [in |-> "item", at |-> a]
Deref(pp) == IF pp.in = "bucket" THEN m_objects[pp.at] ELSE item[pp.at].next

NoItem == [live |-> FALSE, key |-> null, object |-> object(<<>>), next |-> null]
NoOp == [name |-> "none", key |-> null, data |-> <<>>, n |-> 0]

Op(name, k, d, n) == [name |-> name, key |-> k, data |-> d, n |-> n]

\* apply is called with a handler for the object, with a creator, or with both.
\* "incr" and "decr" are the text commands; "incr_or" and "decr_or" are the binary
\* ones, whose initial value is taken to be the operand.
HandlerOnly == {"get", "replace", "append", "prepend", "incr", "decr"}
WithCreator == {"set", "add", "incr_or", "decr_or"}

\* remove_if is told by a predicate on the object whether to delete it.
Operations ==
    [name : HandlerOnly \cup WithCreator \cup {"remove_if"},
     key : Keys, data : Payloads \cup {<<>>}, n : Deltas]

ASSUME CallsAssumption == Calls \subseteq Operations

Foreach == Op("foreach", null, <<>>, 0)
GC == Op("gc", null, <<>>, 0)
Scans == {Foreach, GC}

Present == {item[a].key : a \in {a \in Addresses : item[a].live}}

Init ==
    /\ m_objects = [b \in Buckets |-> null]
    /\ item = [a \in Addresses |-> NoItem]
    /\ m_lock = [b \in Buckets |-> null]
    /\ op = [t \in AllThreads |-> NoOp]
    /\ pc = [t \in AllThreads |-> "idle"]
    /\ bucket = [t \in AllThreads |-> 0]
    /\ p = [t \in AllThreads |-> Head_of(0)]
    /\ ops = 0
    /\ steady = [t \in AllThreads |-> {}]
    /\ visits = [t \in AllThreads |-> [k \in Keys |-> 0]]

-----------------------------------------------------------------------------
Begin(t, o) ==
    /\ pc[t] = "idle"
    /\ ops < MaxOps
    /\ (t = gc) = (o = GC)
    /\ ops' = ops + 1
    /\ op' = [op EXCEPT ![t] = o]
    /\ pc' = [pc EXCEPT ![t] = "lock"]
    /\ bucket' = [bucket EXCEPT ![t] = IF o \in Scans THEN 0 ELSE get_bucket(o.key)]
    /\ steady' = [steady EXCEPT ![t] = IF o \in Scans THEN Present ELSE {}]
    /\ visits' = [visits EXCEPT ![t] = [k \in Keys |-> 0]]
    /\ UNCHANGED <<m_objects, item, m_lock, p>>

Lock(t) ==
    /\ pc[t] = "lock"
    /\ m_lock[bucket[t]] = null
    /\ m_lock' = [m_lock EXCEPT ![bucket[t]] = t]
    /\ p' = [p EXCEPT ![t] = Head_of(bucket[t])]
    /\ pc' = [pc EXCEPT ![t] = "walk"]
    /\ UNCHANGED <<m_objects, item, op, bucket, ops, steady, visits>>

\* The lock_guard goes out of scope.  A scan goes on with the next bucket.  The
\* local variables of other operations are gone; what a scan was is kept for
\* ScanIsComplete.
Leave(t) ==
    LET more == op[t] \in Scans /\ bucket[t] + 1 \in Buckets
    IN  /\ m_lock' = [m_lock EXCEPT ![bucket[t]] = null]
        /\ bucket' = [bucket EXCEPT ![t] = IF more THEN @ + 1 ELSE 0]
        /\ pc' = [pc EXCEPT ![t] = IF more THEN "lock" ELSE "idle"]
        /\ op' = [op EXCEPT ![t] = IF @ \in Scans THEN @ ELSE NoOp]
        /\ p' = [p EXCEPT ![t] = Head_of(0)]

\* The item a that p[t] points to is unlinked and deleted.
Unlink(t, a) ==
    LET rest == IF p[t].in = "bucket" THEN item
                ELSE [item EXCEPT ![p[t].at].next = item[a].next]
    IN  /\ item' = [rest EXCEPT ![a] = NoItem]
        /\ m_objects' = IF p[t].in = "item" THEN m_objects
                        ELSE [m_objects EXCEPT ![p[t].at] = item[a].next]
        /\ steady' = [u \in AllThreads |-> steady[u] \ {item[a].key}]

\* What the handler of an operation makes of an object.  The one of add does nothing,
\* and incr and decr of other data than a number throw and leave the object as it is.
Handled(o, obj) ==
    CASE o.name \in {"set", "replace"} -> object_set(obj, o.data)
      [] o.name = "append" -> object_append(obj, o.data)
      [] o.name = "prepend" -> object_prepend(obj, o.data)
      [] o.name \in {"incr", "incr_or"} /\ ~ not_a_number(obj) -> object_incr(obj, o.n)
      [] o.name \in {"decr", "decr_or"} /\ ~ not_a_number(obj) -> object_decr(obj, o.n)
      [] OTHER -> obj

Created(o) == IF o.name \in {"set", "add"} THEN object(o.data) ELSE number_object(o.n)

\* The item has another key.
Step(t) ==
    LET a == Deref(p[t])
    IN  /\ pc[t] = "walk" /\ a # null
        /\ op[t] \notin Scans /\ item[a].key # op[t].key
        /\ p' = [p EXCEPT ![t] = Next_of(a)]
        /\ UNCHANGED <<m_objects, item, m_lock, op, pc, bucket, ops, steady, visits>>

\* apply finds the key and calls the handler.
Apply(t) ==
    LET a == Deref(p[t])
    IN  /\ pc[t] = "walk" /\ a # null
        /\ op[t].name \in HandlerOnly \cup WithCreator /\ item[a].key = op[t].key
        /\ item' = [item EXCEPT ![a].object = Handled(op[t], @)]
        /\ Leave(t)
        /\ UNCHANGED <<m_objects, ops, steady, visits>>

\* Mutation: the new item does not point to the old chain.
InsertAlone(t, a) ==
    /\ pc[t] = "walk" /\ Deref(p[t]) = null
    /\ op[t].name \in WithCreator
    /\ ~ item[a].live
    /\ item' = [item EXCEPT ![a] = [live |-> TRUE, key |-> op[t].key,
                                    object |-> Created(op[t]), next |-> null]]
    /\ m_objects' = [m_objects EXCEPT ![bucket[t]] = a]
    /\ Leave(t)
    /\ UNCHANGED <<ops, steady, visits>>

\* apply finds no item: it calls the creator, if there is one, for a new item a at
\* the head of the chain.
Insert(t, a) ==
    /\ pc[t] = "walk" /\ Deref(p[t]) = null
    /\ op[t].name \in WithCreator
    /\ ~ item[a].live
    /\ item' = [item EXCEPT ![a] = [live |-> TRUE, key |-> op[t].key,
                                    object |-> Created(op[t]),
                                    next |-> m_objects[bucket[t]]]]
    /\ m_objects' = [m_objects EXCEPT ![bucket[t]] = a]
    /\ Leave(t)
    /\ UNCHANGED <<ops, steady, visits>>

\* The walk ends without an item.
NotFound(t) ==
    /\ pc[t] = "walk" /\ Deref(p[t]) = null
    /\ op[t].name \notin WithCreator
    /\ Leave(t)
    /\ UNCHANGED <<m_objects, item, ops, steady, visits>>

\* remove_if finds the key, and the predicate tells whether to delete the item.
Remove_if(t) ==
    LET a == Deref(p[t])
    IN  /\ pc[t] = "walk" /\ a # null
        /\ op[t].name = "remove_if" /\ item[a].key = op[t].key
        /\ \/ Unlink(t, a)
           \/ UNCHANGED <<m_objects, item, steady>>
        /\ Leave(t)
        /\ UNCHANGED <<ops, visits>>

\* foreach, and gc for an item that survives.
Visit(t) ==
    LET a == Deref(p[t])
    IN  /\ pc[t] = "walk" /\ a # null
        /\ op[t] \in Scans
        /\ visits' = [visits EXCEPT ![t][item[a].key] = @ + 1]
        /\ p' = [p EXCEPT ![t] = Next_of(a)]
        /\ UNCHANGED <<m_objects, item, m_lock, op, pc, bucket, ops, steady>>

\* Mutation: gc goes on behind the item that takes the place of the deleted one.
CollectAndStep(t) ==
    LET a == Deref(p[t])
    IN  /\ pc[t] = "walk" /\ a # null
        /\ op[t] = GC
        /\ Unlink(t, a)
        /\ p' = IF item[a].next = null THEN p ELSE [p EXCEPT ![t] = Next_of(item[a].next)]
        /\ UNCHANGED <<m_lock, op, pc, bucket, ops, visits>>

\* gc deletes an item and looks at the one that takes its place.
Collect(t) ==
    LET a == Deref(p[t])
    IN  /\ pc[t] = "walk" /\ a # null
        /\ op[t] = GC
        /\ Unlink(t, a)
        /\ UNCHANGED <<m_lock, op, pc, bucket, p, ops, visits>>

\* clear_nolock of every bucket: a server becomes a slave and has no other thread.
Clear ==
    /\ \A t \in AllThreads : pc[t] = "idle"
    /\ ops < MaxOps
    /\ ops' = ops + 1
    /\ m_objects' = [b \in Buckets |-> null]
    /\ item' = [a \in Addresses |-> NoItem]
    /\ steady' = [t \in AllThreads |-> {}]
    /\ UNCHANGED <<m_lock, op, pc, bucket, p, visits>>

Next ==
    \/ \E t \in AllThreads :
         \/ \E o \in Calls \cup Scans : Begin(t, o)
         \/ Lock(t) \/ Step(t) \/ Apply(t) \/ NotFound(t) \/ Remove_if(t)
         \/ Visit(t) \/ Collect(t)
         \/ \E a \in Addresses : Insert(t, a)
    \/ Clear

Spec == Init /\ [][Next]_vars

-----------------------------------------------------------------------------
\* The items of bucket b, and the pointers of the bucket and of the items in S.
ItemsOf(b) == {a \in Addresses : item[a].live /\ get_bucket(item[a].key) = b}
Pointers(b, S) == {Head_of(b)} \cup {Next_of(a) : a \in S}

\* The pointers lead to items of the bucket, each to another one, and from the head to
\* every item: no items are reached from one another only.
SoundChain(b) ==
    LET here == ItemsOf(b)
    IN  /\ \A q \in Pointers(b, here) : Deref(q) \in here \cup {null}
        /\ \A q, r \in Pointers(b, here) : Deref(q) = Deref(r) /\ Deref(q) # null => q = r
        /\ \A S \in SUBSET here : S # {} => \E q \in Pointers(b, here \ S) : Deref(q) \in S
        /\ \A a, x \in here : item[a].key = item[x].key => a = x

\* A chain has no item twice, no item of another bucket and no deleted item, keys are
\* unique, and no item is lost: every item that has not been deleted is in a chain
\* (hash_map::bucket, whose operations move raw pointers).  No walk stands on a
\* deleted item, and no two are in one bucket.
ChainsAreSound ==
    /\ \A b \in Buckets : SoundChain(b)
    /\ \A t \in AllThreads :
         pc[t] = "walk" =>
             /\ p[t].in = "item" => item[p[t].at].live
             /\ \A u \in AllThreads : pc[u] = "walk" /\ bucket[u] = bucket[t] => u = t

\* foreach and gc, which give up the lock between buckets, still meet every object that
\* is there from their beginning to their end, and no object twice (the initial copy
\* for a slave and "keys" rely on it).
ScanIsComplete ==
    \A t \in AllThreads :
        /\ \A k \in Keys : visits[t][k] <= 1
        /\ pc[t] = "idle" /\ op[t] \in Scans => \A k \in steady[t] : visits[t][k] = 1

\* m_length, which append, prepend, incr and decr go by, is the length of the data, and
\* exactly the data larger than heap_data_limit are in a file; gc counts on this when
\* it tells large objects by their size.
StoredBySize ==
    \A a \in Addresses :
        item[a].live =>
            LET o == item[a].object
            IN  /\ o.length = object_size(o)
                /\ o.file.open = (o.length > heap_data_limit)
                /\ o.file.open => o.data.bytes = <<>>

\* By ChainsAreSound the items that have not been deleted are those that a walk finds.
Data_of(k) ==
    contents(item[CHOOSE a \in Addresses : item[a].live /\ item[a].key = k].object)

KV == INSTANCE KeyValue WITH
          Threads <- AllThreads, Calls <- Calls \cup Scans, NoCall <- NoOp,
          map <- [k \in Present |-> Data_of(k)],
          call <- [t \in AllThreads |-> IF pc[t] = "idle" THEN NoOp ELSE op[t]]

\* The chains, with all their locks, pointers, buffers and files, behave as a map from
\* keys to data: each apply and remove_if takes effect at once and does to the data
\* what the command asks for, whatever other threads walk the bucket, and nothing but
\* commands, gc and clear changes the data.
BehavesAsMap == KV!Spec
=============================================================================
