------------------------- MODULE ReplicationProofs -------------------------
(***************************************************************************)
(* Proofs, for every set of keys, slaves and workers and for every bound:  *)
(* a slave misses nothing that the initial copy has passed, a slave that   *)
(* joined an idle master keeps nothing that was removed, and no slave ever *)
(* goes back to an older state of an object.                               *)
(*                                                                         *)
(* What a stream leads to is computed by a recursive function; the facts   *)
(* about it are proved by induction over the set of the natural numbers    *)
(* for which they hold.                                                    *)
(***************************************************************************)
EXTENDS Replication, FiniteSetTheorems, WellFoundedInduction, TLAPS

\* All jobs in progress that have the bits F of a request know slave s.
KnownTo(s, F) == \A w \in F : busy[w] => s \in refs[w]

\* A connection that is not yet accepted has left no trace.
AwayOK ==
    \A s \in Slaves : link[s] = "away" =>
        /\ ~valid[s] /\ stream[s] = <<>> /\ replica[s] = NoObjects
        /\ s \notin copied \cup m_new_slaves \cup gc.fresh
        /\ \A q \in m_requests : q.slave # s

\* A slave with a valid socket is on the list.  It is known to every job once
\* its request is complete, and before that to the workers marked in it.
JoinOK ==
    /\ \A s \in Slaves : valid[s] => s \in m_slaves
    /\ \A s \in copied \cup m_new_slaves \cup gc.fresh : valid[s] => KnownTo(s, Workers)
    /\ \A q \in m_requests : valid[q.slave] => KnownTo(q.slave, q.flags)

\* A slave that is not late is known to every job and to the GC thread.
EarlyOK ==
    \A s \in Slaves \ late : valid[s] =>
        KnownTo(s, Workers) /\ (gc.on => s \in gc.slaves)

\* Only a GC run has buckets to scan.
GCOK == ~gc.on => gc.todo = {}

\* Object o is not newer than object p.
Older(o, p) == o.data <= p.data /\ o.exptime <= p.exptime

\* No object for key k in the commands q is newer than o.
NoneNewer(q, k, o) ==
    \A i \in 1..Len(q) : q[i].key = k /\ q[i].obj # None => Older(q[i].obj, o)

\* The commands q, sent to a slave with the objects h, never go back.
Ordered(h, q) ==
    /\ \A i \in 1..Len(q) :
          h[q[i].key] # None /\ q[i].obj # None => Older(h[q[i].key], q[i].obj)
    /\ \A i, j \in 1..Len(q) :
          i < j /\ q[i].key = q[j].key /\ q[i].obj # None /\ q[j].obj # None =>
             Older(q[i].obj, q[j].obj)

\* No object the slaves have or are sent is newer than o, the state of key k.
Newest(k, o) ==
    \A s \in Slaves : /\ NoneNewer(stream[s], k, o)
                      /\ replica[s][k] # None => Older(replica[s][k], o)

\* An object of the present moment.
Now == [data |-> updates, exptime |-> updates]

\* Nothing is newer than the present moment, and no slave has or is sent
\* anything newer than the master's object.
VersionsOK ==
    \A k \in Keys : /\ Newest(k, Now)
                    /\ hash[k] # None => Newest(k, hash[k]) /\ Older(hash[k], Now)

StreamsOK == \A s \in Slaves : Ordered(replica[s], stream[s])

IInv ==
    /\ TypeOK /\ AwayOK /\ JoinOK /\ EarlyOK /\ GCOK
    /\ ReplicaIsComplete /\ RemovedIsForgotten
    /\ VersionsOK /\ StreamsOK

-----------------------------------------------------------------------------
(* What a stream leads to *)

\* Induction over the set of the numbers for which a fact holds.
LEMMA NatSetInduction ==
    ASSUME NEW S, 0 \in S, \A n \in Nat : n \in S => n + 1 \in S
    PROVE  Nat \subseteq S
<1> DEFINE T == Nat \ S
           R == OpToRel(<, Nat)
<1>1. SUFFICES ASSUME T # {} PROVE FALSE
  OBVIOUS
<1>2. IsWellFoundedOn(R, Nat)
  BY NatLessThanWellFounded
<1>3. PICK x \in T : \A y \in T : ~ (<<y, x>> \in R)
  <2> HIDE DEF R
  <2> QED
    BY <1>1, <1>2, WFMin, Zenon
<1>4. x \in Nat /\ x # 0
  BY <1>3
<1>5. x - 1 \in Nat /\ x - 1 \notin T
  <2>1. x - 1 \in Nat /\ x - 1 < x
    BY <1>4
  <2>2. <<x - 1, x>> \in R
    BY <2>1, <1>4 DEF OpToRel
  <2> QED
    BY <1>3, <2>1, <2>2
<1>6. x \in S
  BY <1>4, <1>5
<1> QED
  BY <1>3, <1>6

\* The length of a stream and its commands.
LEMMA LenFacts ==
    ASSUME NEW q \in Seq(Command)
    PROVE  /\ Len(q) \in Nat /\ q \in [1..Len(q) -> Command]
           /\ DOMAIN q = 1..Len(q) /\ \A i \in 1..Len(q) : q[i] \in Command
           /\ q = <<>> <=> Len(q) = 0
OBVIOUS

\* A stream with one more command.
LEMMA AppendFacts ==
    ASSUME NEW q \in Seq(Command), NEW c \in Command
    PROVE  /\ Append(q, c) \in Seq(Command) /\ Append(q, c) # <<>>
           /\ Len(Append(q, c)) = Len(q) + 1 /\ Append(q, c)[Len(q) + 1] = c
           /\ \A i \in 1..Len(q) : Append(q, c)[i] = q[i]
OBVIOUS

\* The first command of a stream and the others.
LEMMA HeadTailFacts ==
    ASSUME NEW q \in Seq(Command), q # <<>>
    PROVE  /\ Head(q) \in Command /\ Head(q) = q[1]
           /\ Tail(q) \in Seq(Command) /\ Len(Tail(q)) = Len(q) - 1
           /\ \A i \in 1..Len(Tail(q)) : Tail(q)[i] = q[i + 1]
OBVIOUS

\* g lists the states of a slave with the objects h that applies q.
IsReplay(g, h, q) ==
    g = [i \in 0..Len(q) |-> IF i = 0 THEN h ELSE Applied(g[i - 1], q[i])]

\* The same, without the domain of g.
Follows(g, h, q, n) ==
    /\ g[0] = h
    /\ \A i \in 1..n : g[i] = Applied(g[i - 1], q[i])

\* The states can be computed one after the other.
LEMMA ReplayExists ==
    ASSUME NEW h, NEW q \in Seq(Command)
    PROVE  \E g : IsReplay(g, h, q)
<1> DEFINE S == {n \in Nat : n <= Len(q) =>
                    \E g : g = [i \in 0..n |-> IF i = 0 THEN h
                                               ELSE Applied(g[i - 1], q[i])]}
<1>1. 0 \in S
  <2>1. [i \in 0..0 |-> h] = [i \in 0..0 |-> IF i = 0 THEN h ELSE
                                Applied([j \in 0..0 |-> h][i - 1], q[i])]
    OBVIOUS
  <2>2. \E g : g = [i \in 0..0 |-> IF i = 0 THEN h ELSE Applied(g[i - 1], q[i])]
    BY <2>1, Zenon
  <2> QED
    BY <2>2
<1>2. ASSUME NEW n \in Nat, n \in S PROVE n + 1 \in S
  <2> SUFFICES ASSUME n + 1 <= Len(q)
               PROVE  \E g : g = [i \in 0..(n + 1) |->
                                    IF i = 0 THEN h ELSE Applied(g[i - 1], q[i])]
    OBVIOUS
  <2>1. n <= Len(q)
    BY LenFacts
  <2>2. PICK g : g = [i \in 0..n |-> IF i = 0 THEN h ELSE Applied(g[i - 1], q[i])]
    BY <1>2, <2>1
  <2> DEFINE f == [i \in 0..(n + 1) |-> IF i = n + 1 THEN Applied(g[n], q[n + 1])
                                        ELSE g[i]]
  <2>3. \A i \in 0..n : g[i] = IF i = 0 THEN h ELSE Applied(g[i - 1], q[i])
    BY <2>2, Zenon
  <2>4. \A i \in 0..(n + 1) : f[i] = IF i = 0 THEN h ELSE Applied(f[i - 1], q[i])
    <3> SUFFICES ASSUME NEW i \in 0..(n + 1)
                 PROVE  f[i] = IF i = 0 THEN h ELSE Applied(f[i - 1], q[i])
      BY Zenon
    <3>1. CASE i = n + 1
      <4>1. i # 0 /\ i - 1 = n /\ n \in 0..(n + 1) /\ n # n + 1
        BY <3>1
      <4>2. f[i] = Applied(g[n], q[n + 1]) /\ f[n] = g[n]
        BY <3>1, <4>1, Zenon
      <4> HIDE DEF f
      <4> QED
        BY <3>1, <4>1, <4>2, Zenon
    <3>2. CASE i # n + 1
      <4>1. i \in 0..n /\ f[i] = g[i]
        BY <3>2
      <4>2. i # 0 => i - 1 \in 0..(n + 1) /\ i - 1 # n + 1
        BY <3>2
      <4>3. i # 0 => f[i - 1] = g[i - 1]
        BY <4>2, Zenon
      <4> HIDE DEF f
      <4> QED
        BY <2>3, <4>1, <4>3, Zenon
    <3> QED
      BY <3>1, <3>2, Zenon
  <2>5. f = [i \in 0..(n + 1) |-> f[i]]
    BY Zenon
  <2>6. f = [i \in 0..(n + 1) |-> IF i = 0 THEN h ELSE Applied(f[i - 1], q[i])]
    <3> HIDE DEF f
    <3> QED
      BY <2>4, <2>5, Zenon
  <2> HIDE DEF f
  <2> QED
    BY <2>6, Zenon
<1>3. Nat \subseteq S
  <2> HIDE DEF S
  <2> QED
    BY <1>1, <1>2, NatSetInduction, Zenon
<1>4. Len(q) \in Nat
  BY LenFacts
<1>5. Len(q) \in S
  BY <1>3, <1>4
<1> QED
  BY <1>4, <1>5 DEF IsReplay

\* Two computations agree.
LEMMA ReplayIsUnique ==
    ASSUME NEW f, NEW g, NEW h, NEW q, NEW n \in Nat,
           Follows(f, h, q, n), Follows(g, h, q, n)
    PROVE  f[n] = g[n]
<1> DEFINE S == {m \in Nat : m <= n => f[m] = g[m]}
<1>1. 0 \in S
  BY DEF Follows
<1>2. ASSUME NEW m \in Nat, m \in S PROVE m + 1 \in S
  <2> SUFFICES ASSUME m + 1 <= n PROVE f[m + 1] = g[m + 1]
    OBVIOUS
  <2>1. m + 1 \in 1..n /\ (m + 1) - 1 = m /\ m <= n
    OBVIOUS
  <2>2. f[m] = g[m]
    BY <1>2, <2>1
  <2>3. f[m + 1] = Applied(f[m], q[m + 1]) /\ g[m + 1] = Applied(g[m], q[m + 1])
    BY <2>1, Zenon DEF Follows
  <2> QED
    BY <2>2, <2>3, Zenon
<1>3. Nat \subseteq S
  <2> HIDE DEF S
  <2> QED
    BY <1>1, <1>2, NatSetInduction, Zenon
<1> QED
  BY <1>3

\* The value of Replay is the end of such a computation.
LEMMA ReplayFollows ==
    ASSUME NEW h, NEW q \in Seq(Command)
    PROVE  \E g : Follows(g, h, q, Len(q)) /\ Replay(h, q) = g[Len(q)]
<1> DEFINE F == CHOOSE g : IsReplay(g, h, q)
<1>1. IsReplay(F, h, q)
  BY ReplayExists, Zenon
<1>2. Replay(h, q) = F[Len(q)]
  BY Zenon DEF Replay, IsReplay
<1>3. Len(q) \in Nat
  BY LenFacts
<1> HIDE DEF F
<1>4. \A i \in 0..Len(q) : F[i] = IF i = 0 THEN h ELSE Applied(F[i - 1], q[i])
  BY <1>1, Zenon DEF IsReplay
<1>5. 0 \in 0..Len(q) /\ \A i \in 1..Len(q) : i \in 0..Len(q) /\ i # 0
  BY <1>3
<1>6. Follows(F, h, q, Len(q))
  BY <1>4, <1>5, Zenon DEF Follows
<1> QED
  BY <1>2, <1>6, Zenon

\* Whatever computes the states computes Replay.
LEMMA ReplayIs ==
    ASSUME NEW h, NEW q \in Seq(Command), NEW g, Follows(g, h, q, Len(q))
    PROVE  Replay(h, q) = g[Len(q)]
<1>1. Len(q) \in Nat
  BY LenFacts
<1>2. PICK f : Follows(f, h, q, Len(q)) /\ Replay(h, q) = f[Len(q)]
  BY ReplayFollows, Zenon
<1>3. f[Len(q)] = g[Len(q)]
  BY <1>1, <1>2, ReplayIsUnique, Zenon
<1> QED
  BY <1>2, <1>3, Zenon

\* A command turns objects into objects.
LEMMA AppliedType ==
    ASSUME NEW h \in Hash, NEW c \in Command
    PROVE  /\ Applied(h, c) \in Hash
           /\ \A k \in Keys \ {c.key} : Applied(h, c)[k] = h[k]
           /\ c.op = "SetQ" => Applied(h, c)[c.key] = c.obj
           /\ c.op = "DeleteQ" => Applied(h, c)[c.key] = None
           /\ c.op = "Touch" /\ h[c.key] = None => Applied(h, c)[c.key] = None
           /\ c.op = "Touch" /\ h[c.key] # None =>
                 Applied(h, c)[c.key] = [h[c.key] EXCEPT !.exptime = c.obj.exptime]
<1> DEFINE v == CASE c.op = "SetQ" -> c.obj
                  [] c.op = "Touch" /\ h[c.key] # None ->
                        [h[c.key] EXCEPT !.exptime = c.obj.exptime]
                  [] c.op = "Touch" /\ h[c.key] = None -> None
                  [] c.op = "DeleteQ" -> None
<1>1. Applied(h, c) = [h EXCEPT ![c.key] = v]
  BY Zenon DEF Applied
<1>2. /\ c.key \in Keys /\ c.op \in {"SetQ", "Touch", "DeleteQ"}
      /\ c.op \in {"SetQ", "Touch"} => c.obj \in Object
  BY DEF Command
<1>3. /\ c.op = "SetQ" => v = c.obj
      /\ c.op = "DeleteQ" => v = None
      /\ c.op = "Touch" /\ h[c.key] = None => v = None
      /\ c.op = "Touch" /\ h[c.key] # None =>
            v = [h[c.key] EXCEPT !.exptime = c.obj.exptime]
  BY <1>2
<1>4. v \in Object \cup {None}
  <2> HIDE DEF v
  <2>1. CASE c.op = "Touch" /\ h[c.key] # None
    <3>1. h[c.key] \in Object
      BY <1>2, <2>1, Zenon DEF Hash
    <3> QED
      BY <1>2, <1>3, <2>1, <3>1 DEF Object
  <2> QED
    BY <1>2, <1>3, <2>1
<1> HIDE DEF v
<1>5. /\ Applied(h, c) \in Hash /\ Applied(h, c)[c.key] = v
      /\ \A k \in Keys \ {c.key} : Applied(h, c)[k] = h[k]
  BY <1>1, <1>2, <1>4, Zenon DEF Hash
<1> QED
  BY <1>3, <1>5, Zenon

\* The commands applied one by one turn objects into objects.
LEMMA ReplayType ==
    ASSUME NEW h \in Hash, NEW q \in Seq(Command)
    PROVE  Replay(h, q) \in Hash
<1>1. PICK g : Follows(g, h, q, Len(q)) /\ Replay(h, q) = g[Len(q)]
  BY ReplayFollows, Zenon
<1> DEFINE S == {n \in Nat : n <= Len(q) => g[n] \in Hash}
<1>2. Len(q) \in Nat /\ \A i \in 1..Len(q) : q[i] \in Command
  BY LenFacts
<1>3. 0 \in S
  BY <1>1 DEF Follows
<1>4. ASSUME NEW n \in Nat, n \in S PROVE n + 1 \in S
  <2> SUFFICES ASSUME n + 1 <= Len(q) PROVE g[n + 1] \in Hash
    OBVIOUS
  <2>1. n + 1 \in 1..Len(q) /\ (n + 1) - 1 = n /\ n <= Len(q)
    BY <1>2
  <2>2. g[n] \in Hash
    BY <1>4, <2>1
  <2>3. g[n + 1] = Applied(g[n], q[n + 1])
    BY <1>1, <2>1, Zenon DEF Follows
  <2>4. q[n + 1] \in Command
    BY <1>2, <2>1, Zenon
  <2> QED
    BY <2>2, <2>3, <2>4, AppliedType, Zenon
<1>5. Nat \subseteq S
  <2> HIDE DEF S
  <2> QED
    BY <1>3, <1>4, NatSetInduction, Zenon
<1> QED
  BY <1>1, <1>2, <1>5

\* A command at the end of the stream is applied last.
LEMMA ReplayAppend ==
    ASSUME NEW h, NEW q \in Seq(Command), NEW c \in Command
    PROVE  Replay(h, Append(q, c)) = Applied(Replay(h, q), c)
<1>1. PICK g : Follows(g, h, q, Len(q)) /\ Replay(h, q) = g[Len(q)]
  BY ReplayFollows, Zenon
<1> DEFINE n == Len(q)
           a == Append(q, c)
           f == [i \in 0..(n + 1) |-> IF i = n + 1 THEN Applied(g[n], c) ELSE g[i]]
<1>2. n \in Nat
  BY LenFacts
<1>3. /\ a \in Seq(Command) /\ Len(a) = n + 1 /\ a[n + 1] = c
      /\ \A i \in 1..n : a[i] = q[i]
  BY AppendFacts
<1> HIDE DEF a
<1>4. /\ 0 \in 0..(n + 1) /\ 0 # n + 1 /\ n + 1 \in 0..(n + 1)
      /\ n \in 0..(n + 1) /\ n # n + 1 /\ (n + 1) - 1 = n
      /\ \A i \in 1..n : /\ i \in 0..(n + 1) /\ i - 1 \in 0..(n + 1)
                         /\ i # n + 1 /\ i - 1 # n + 1
      /\ \A i \in 1..(n + 1) : i = n + 1 \/ i \in 1..n
  BY <1>2
<1>5. /\ f[0] = g[0] /\ f[n] = g[n] /\ f[n + 1] = Applied(g[n], c)
      /\ \A i \in 1..n : f[i] = g[i] /\ f[i - 1] = g[i - 1]
  BY <1>4, Zenon
<1> HIDE DEF f
<1>6. f[0] = h /\ \A i \in 1..n : g[i] = Applied(g[i - 1], q[i])
  BY <1>1, <1>5, Zenon DEF Follows
<1> HIDE DEF n
<1>7. \A i \in 1..n : f[i] = Applied(f[i - 1], a[i])
  BY <1>3, <1>5, <1>6, Zenon
<1>8. f[n + 1] = Applied(f[(n + 1) - 1], a[n + 1])
  BY <1>3, <1>4, <1>5, Zenon
<1>9. Follows(f, h, a, Len(a))
  BY <1>3, <1>4, <1>6, <1>7, <1>8, Zenon DEF Follows
<1>10. Replay(h, a) = f[n + 1]
  BY <1>3, <1>9, ReplayIs, Zenon
<1> QED
  BY <1>1, <1>5, <1>10, Zenon DEF a, n

\* Applying the first command changes nothing in the end.
LEMMA ReplayTail ==
    ASSUME NEW h, NEW q \in Seq(Command), q # <<>>
    PROVE  Replay(Applied(h, Head(q)), Tail(q)) = Replay(h, q)
<1>1. PICK g : Follows(g, h, q, Len(q)) /\ Replay(h, q) = g[Len(q)]
  BY ReplayFollows, Zenon
<1> DEFINE n == Len(q) - 1
           a == Tail(q)
           f == [i \in 0..n |-> g[i + 1]]
<1>2. /\ n \in Nat /\ Len(q) = n + 1 /\ a \in Seq(Command) /\ Len(a) = n
      /\ \A i \in 1..n : a[i] = q[i + 1]
      /\ Head(q) = q[1]
  BY HeadTailFacts, LenFacts
<1> HIDE DEF a
<1>3. g[0] = h /\ \A i \in 1..(n + 1) : g[i] = Applied(g[i - 1], q[i])
  BY <1>1, <1>2, Zenon DEF Follows
<1> HIDE DEF n
<1>4. /\ 0 \in 0..n /\ n \in 0..n /\ 0 + 1 = 1 /\ 1 \in 1..(n + 1) /\ 1 - 1 = 0
      /\ \A i \in 1..n : /\ i \in 0..n /\ i - 1 \in 0..n /\ i + 1 \in 1..(n + 1)
                         /\ (i + 1) - 1 = i /\ (i - 1) + 1 = i
  BY <1>2
<1>5. /\ f[0] = g[1] /\ f[n] = g[n + 1]
      /\ \A i \in 1..n : f[i] = g[i + 1] /\ f[i - 1] = g[i]
  <2>1. \A i \in 0..n : f[i] = g[i + 1]
    BY Zenon
  <2> HIDE DEF f
  <2> QED
    BY <1>4, <2>1
<1> HIDE DEF f
<1>6. f[0] = Applied(h, Head(q))
  BY <1>2, <1>3, <1>4, <1>5, Zenon
<1>7. \A i \in 1..n : f[i] = Applied(f[i - 1], a[i])
  <2>1. \A i \in 1..n : g[i + 1] = Applied(g[i], q[i + 1])
    BY <1>3, <1>4
  <2> QED
    BY <1>2, <1>5, <2>1, Zenon
<1>8. Follows(f, Applied(h, Head(q)), a, Len(a))
  BY <1>2, <1>6, <1>7, Zenon DEF Follows
<1>9. Replay(Applied(h, Head(q)), a) = f[n]
  BY <1>2, <1>8, ReplayIs, Zenon
<1> QED
  BY <1>1, <1>2, <1>5, <1>9, Zenon DEF a

\* Without commands nothing changes.
LEMMA ReplayEmpty ==
    ASSUME NEW h PROVE Replay(h, <<>>) = h
<1>1. <<>> \in Seq(Command) /\ Len(<<>>) = 0
  OBVIOUS
<1>2. PICK g : Follows(g, h, <<>>, Len(<<>>)) /\ Replay(h, <<>>) = g[Len(<<>>)]
  BY <1>1, ReplayFollows, Zenon
<1> QED
  BY <1>1, <1>2, Zenon DEF Follows

-----------------------------------------------------------------------------
(* The order of the commands in a stream *)

\* Being no newer is transitive.
LEMMA OlderTransitive ==
    ASSUME NEW o \in Object, NEW p \in Object, NEW r \in Object,
           Older(o, p), Older(p, r)
    PROVE  Older(o, r)
BY ReplicationAssumption DEF Older, Object, Update

\* The object of a command that carries one.
LEMMA CommandParts ==
    ASSUME NEW c \in Command
    PROVE  /\ c.key \in Keys
           /\ c.obj # None => c.obj \in Object
BY DEF Command

\* The same for the commands of a stream.
LEMMA StreamParts ==
    ASSUME NEW q \in Seq(Command)
    PROVE  /\ Len(q) \in Nat
           /\ \A i \in 1..Len(q) : q[i] \in Command /\ q[i].key \in Keys
                                   /\ (q[i].obj # None => q[i].obj \in Object)
<1>1. Len(q) \in Nat /\ \A i \in 1..Len(q) : q[i] \in Command
  BY LenFacts
<1> QED
  BY <1>1, CommandParts, Zenon

\* What is not newer than o is not newer than a newer object.
LEMMA NoneNewerGrows ==
    ASSUME NEW q \in Seq(Command), NEW k, NEW o \in Object, NEW p \in Object,
           NoneNewer(q, k, o), Older(o, p)
    PROVE  NoneNewer(q, k, p)
BY StreamParts, OlderTransitive, Zenon DEF NoneNewer

\* One more command at the end.
LEMMA NoneNewerAppend ==
    ASSUME NEW q \in Seq(Command), NEW c \in Command, NEW k, NEW o,
           NoneNewer(q, k, o), c.key = k /\ c.obj # None => Older(c.obj, o)
    PROVE  NoneNewer(Append(q, c), k, o)
<1> DEFINE a == Append(q, c)
<1>1. /\ Len(a) = Len(q) + 1 /\ a[Len(q) + 1] = c /\ Len(q) \in Nat
      /\ \A i \in 1..Len(q) : a[i] = q[i]
  BY AppendFacts, LenFacts
<1> HIDE DEF a
<1>2. \A i \in 1..Len(a) : i \in 1..Len(q) \/ i = Len(q) + 1
  BY <1>1
<1>3. \A i \in 1..Len(a) : a[i].key = k /\ a[i].obj # None => Older(a[i].obj, o)
  BY <1>1, <1>2, Zenon DEF NoneNewer
<1> QED
  BY <1>3, Zenon DEF NoneNewer, a

\* A command that is not older than those before it keeps the order.
LEMMA OrderedAppend ==
    ASSUME NEW h, NEW q \in Seq(Command), NEW c \in Command, Ordered(h, q),
           c.obj # None => NoneNewer(q, c.key, c.obj),
           c.obj # None /\ h[c.key] # None => Older(h[c.key], c.obj)
    PROVE  Ordered(h, Append(q, c))
<1> DEFINE a == Append(q, c)
           n == Len(q)
<1>1. /\ Len(a) = n + 1 /\ a[n + 1] = c /\ n \in Nat
      /\ \A i \in 1..n : a[i] = q[i]
  BY AppendFacts, LenFacts
<1> HIDE DEF a
<1>2. \A i \in 1..Len(a) : i \in 1..n \/ i = n + 1
  BY <1>1
<1>3. \A i, j \in 1..Len(a) : i < j => i \in 1..n
  BY <1>1
<1>4. \A i \in 1..Len(a) :
         h[a[i].key] # None /\ a[i].obj # None => Older(h[a[i].key], a[i].obj)
  BY <1>1, <1>2, Zenon DEF Ordered
<1>5. ASSUME NEW i \in 1..Len(a), NEW j \in 1..Len(a), i < j, a[i].key = a[j].key,
             a[i].obj # None, a[j].obj # None
      PROVE  Older(a[i].obj, a[j].obj)
  <2>1. i \in 1..n /\ a[i] = q[i]
    BY <1>1, <1>3, <1>5, Zenon
  <2>2. CASE j \in 1..n
    <3>1. a[j] = q[j]
      BY <1>1, <2>2, Zenon
    <3> QED
      BY <1>5, <2>1, <2>2, <3>1, Zenon DEF Ordered
  <2>3. CASE j = n + 1
    BY <1>1, <1>5, <2>1, <2>3, Zenon DEF NoneNewer
  <2> QED
    BY <1>2, <2>2, <2>3, Zenon
<1> QED
  BY <1>4, <1>5, Zenon DEF Ordered, a

\* The beginning of a stream.
LEMMA PrefixFacts ==
    ASSUME NEW q \in Seq(Command), NEW n \in 0..Len(q)
    PROVE  /\ SubSeq(q, 1, n) \in Seq(Command) /\ Len(SubSeq(q, 1, n)) = n
           /\ \A h : Ordered(h, q) => Ordered(h, SubSeq(q, 1, n))
           /\ \A k, o : NoneNewer(q, k, o) => NoneNewer(SubSeq(q, 1, n), k, o)
<1> DEFINE a == SubSeq(q, 1, n)
<1>1. /\ a \in Seq(Command) /\ Len(a) = n /\ \A i \in 1..n : a[i] = q[i]
  BY LenFacts
<1>2. \A i \in 1..n : i \in 1..Len(q)
  BY LenFacts
<1> HIDE DEF a
<1>3. \A h : Ordered(h, q) => Ordered(h, a)
  BY <1>1, <1>2, Zenon DEF Ordered
<1>4. \A k, o : NoneNewer(q, k, o) => NoneNewer(a, k, o)
  BY <1>1, <1>2, Zenon DEF NoneNewer
<1> QED
  BY <1>1, <1>3, <1>4, Zenon DEF a

\* The stream without its first command, for a slave that has applied it.
LEMMA TailFacts ==
    ASSUME NEW h \in Hash, NEW q \in Seq(Command), q # <<>>
    PROVE  /\ Tail(q) \in Seq(Command) /\ Len(Tail(q)) <= Len(q)
           /\ Head(q) \in Command
           /\ Ordered(h, q) => Ordered(Applied(h, Head(q)), Tail(q))
           /\ \A k, o : NoneNewer(q, k, o) => NoneNewer(Tail(q), k, o)
<1> DEFINE a == Tail(q)
           c == Head(q)
           n == Len(q) - 1
<1>1. /\ n \in Nat /\ Len(q) = n + 1 /\ a \in Seq(Command) /\ Len(a) = n
      /\ \A i \in 1..n : a[i] = q[i + 1]
      /\ c = q[1]
  BY HeadTailFacts, LenFacts
<1>2. 1 \in 1..Len(q) /\ \A i \in 1..n : i + 1 \in 1..Len(q) /\ 1 < i + 1
  BY <1>1
<1>3. c \in Command
  BY <1>1, <1>2, StreamParts, Zenon
<1> HIDE DEF a, n, c
<1> DEFINE b == Applied(h, c)
<1>7. /\ \A k \in Keys \ {c.key} : b[k] = h[k]
      /\ c.op = "SetQ" => b[c.key] = c.obj
      /\ c.op = "DeleteQ" => b[c.key] = None
      /\ c.op = "Touch" /\ h[c.key] = None => b[c.key] = None
      /\ c.op = "Touch" /\ h[c.key] # None =>
            b[c.key] = [h[c.key] EXCEPT !.exptime = c.obj.exptime]
  BY <1>3, AppliedType, Zenon
<1> HIDE DEF b
<1>4. \A k, o : NoneNewer(q, k, o) => NoneNewer(a, k, o)
  BY <1>1, <1>2, Zenon DEF NoneNewer
<1>5. ASSUME Ordered(h, q) PROVE Ordered(b, a)
  <2>1. \A i, j \in 1..n : i < j => i + 1 < j + 1
    BY <1>1
  <2>2. ASSUME NEW i \in 1..n, NEW j \in 1..n, i < j, a[i].key = a[j].key,
               a[i].obj # None, a[j].obj # None
        PROVE  Older(a[i].obj, a[j].obj)
    <3>1. a[i] = q[i + 1] /\ a[j] = q[j + 1]
      BY <1>1, Zenon
    <3>2. i + 1 \in 1..Len(q) /\ j + 1 \in 1..Len(q) /\ i + 1 < j + 1
      BY <1>2, <2>1, <2>2, Zenon
    <3> QED
      BY <1>5, <2>2, <3>1, <3>2, Zenon DEF Ordered
  <2>3. ASSUME NEW i \in 1..n, b[a[i].key] # None, a[i].obj # None
        PROVE  Older(b[a[i].key], a[i].obj)
    <3>1. a[i] = q[i + 1] /\ i + 1 \in 1..Len(q) /\ 1 < i + 1
      BY <1>1, <1>2, Zenon
    <3>2. a[i].key \in Keys /\ a[i].obj \in Object
      BY <2>3, <3>1, StreamParts, Zenon
    <3>3. h[a[i].key] # None => Older(h[a[i].key], a[i].obj)
      BY <1>5, <2>3, <3>1, Zenon DEF Ordered
    <3>4. c.key = a[i].key /\ c.obj # None => Older(c.obj, a[i].obj)
      BY <1>1, <1>2, <1>5, <2>3, <3>1, Zenon DEF Ordered
    <3>5. CASE a[i].key # c.key
      <4>1. b[a[i].key] = h[a[i].key]
        BY <1>7, <3>2, <3>5, Zenon
      <4> QED
        BY <2>3, <3>3, <4>1, Zenon
    <3>6. CASE a[i].key = c.key /\ c.op = "SetQ"
      <4>1. b[a[i].key] = c.obj
        BY <1>7, <3>6, Zenon
      <4> QED
        BY <2>3, <3>4, <3>6, <4>1, Zenon
    <3>7. CASE a[i].key = c.key /\ c.op = "Touch"
      <4>1. c.obj \in Object /\ c.obj # None
        BY <1>3, <3>7, NoneAssumption DEF Command
      <4>2. h[c.key] # None
        BY <1>7, <2>3, <3>7, Zenon
      <4>3. h[c.key] \in Object
        BY <1>3, <4>2, CommandParts, Zenon DEF Hash
      <4>4. b[a[i].key] = [h[c.key] EXCEPT !.exptime = c.obj.exptime]
        BY <1>7, <3>7, <4>2, Zenon
      <4> QED
        BY <3>2, <3>3, <3>4, <3>7, <4>1, <4>2, <4>3, <4>4 DEF Older, Object, Update
    <3>8. CASE a[i].key = c.key /\ c.op = "DeleteQ"
      BY <1>7, <2>3, <3>8, Zenon
    <3> QED
      BY <1>3, <3>5, <3>6, <3>7, <3>8 DEF Command
  <2> QED
    BY <1>1, <2>2, <2>3, Zenon DEF Ordered
<1>6. Len(a) <= Len(q)
  BY <1>1
<1> QED
  BY <1>1, <1>3, <1>4, <1>5, <1>6, Zenon DEF a, b, c

-----------------------------------------------------------------------------
(* What sending does *)

\* sendv appends the command to the streams of the open connections among S.
LEMMA SendFacts ==
    ASSUME TypeOK, NEW S, NEW c \in Command, Send(S, c)
    PROVE  /\ stream' \in [Slaves -> Seq(Command)]
           /\ \A s \in Slaves :
                 /\ stream[s] \in Seq(Command) /\ Len(stream'[s]) <= BufCnt
                 /\ s \in S /\ Open(s) => stream'[s] = Append(stream[s], c)
                 /\ ~(s \in S /\ Open(s)) => stream'[s] = stream[s]
<1>1. stream' = [s \in Slaves |-> IF s \in S /\ Open(s) THEN Append(stream[s], c)
                                  ELSE stream[s]]
  BY Zenon DEF Send
<1>2. \A s \in Slaves : /\ stream[s] \in Seq(Command) /\ Len(stream[s]) <= BufCnt
                        /\ s \in S /\ Open(s) => Len(stream[s]) < BufCnt
  BY Zenon DEF Send, TypeOK
<1>3. \A s \in Slaves : /\ Append(stream[s], c) \in Seq(Command)
                        /\ Len(Append(stream[s], c)) = Len(stream[s]) + 1
  BY <1>2, AppendFacts
<1>4. \A s \in Slaves : /\ s \in S /\ Open(s) => stream'[s] = Append(stream[s], c)
                        /\ ~(s \in S /\ Open(s)) => stream'[s] = stream[s]
  BY <1>1, Zenon
<1>5. \A s \in Slaves : Len(stream[s]) < BufCnt => Len(stream[s]) + 1 <= BufCnt
  BY <1>2, LenFacts, ReplicationAssumption
<1>6. \A s \in Slaves : stream'[s] \in Seq(Command) /\ Len(stream'[s]) <= BufCnt
  BY <1>2, <1>3, <1>4, <1>5, Zenon
<1>7. stream' \in [Slaves -> Seq(Command)]
  BY <1>1, <1>2, <1>3, Zenon
<1> QED
  BY <1>2, <1>4, <1>6, <1>7, Zenon

\* The command comes last on the slaves that get it.
LEMMA FinalAfterSend ==
    ASSUME TypeOK, NEW S, NEW c \in Command, Send(S, c), replica' = replica
    PROVE  /\ \A s \in Slaves : Final(s) \in Hash
           /\ \A s \in Slaves : /\ s \in S /\ Open(s) => Final(s)' = Applied(Final(s), c)
                                /\ ~(s \in S /\ Open(s)) => Final(s)' = Final(s)
           /\ \A s \in Slaves : \A k \in Keys \ {c.key} : Final(s)'[k] = Final(s)[k]
<1>1. \A s \in Slaves : replica[s] \in Hash /\ stream[s] \in Seq(Command)
  BY Zenon DEF TypeOK
<1>2. \A s \in Slaves : Final(s) \in Hash
  BY <1>1, ReplayType, Zenon DEF Final
<1>3. \A s \in Slaves : /\ s \in S /\ Open(s) => Final(s)' = Applied(Final(s), c)
                        /\ ~(s \in S /\ Open(s)) => Final(s)' = Final(s)
  <2> SUFFICES ASSUME NEW s \in Slaves
               PROVE  /\ s \in S /\ Open(s) => Final(s)' = Applied(Final(s), c)
                      /\ ~(s \in S /\ Open(s)) => Final(s)' = Final(s)
    BY Zenon
  <2>1. /\ s \in S /\ Open(s) => stream'[s] = Append(stream[s], c)
        /\ ~(s \in S /\ Open(s)) => stream'[s] = stream[s]
    BY SendFacts, Zenon
  <2>2. Replay(replica[s], Append(stream[s], c)) = Applied(Replay(replica[s], stream[s]), c)
    BY <1>1, ReplayAppend, Zenon
  <2> QED
    BY <2>1, <2>2, Zenon DEF Final
<1>4. \A s \in Slaves : \A k \in Keys \ {c.key} : Applied(Final(s), c)[k] = Final(s)[k]
  BY <1>2, AppliedType, Zenon
<1> QED
  BY <1>2, <1>3, <1>4, Zenon

\* The present moment, before and after a step, is an object, and time passes.
LEMMA NowFacts ==
    ASSUME TypeOK, updates' \in Update, updates' >= updates
    PROVE  Now \in Object /\ Now' \in Object /\ Older(Now, Now')
BY ReplicationAssumption DEF TypeOK, Now, Object, Update, Older

\* Commands for key k that carry the newest state of k keep the order.
LEMMA SendVersions ==
    ASSUME TypeOK, VersionsOK, StreamsOK, NEW S, NEW c \in Command, Send(S, c),
           replica' = replica, updates' \in Update, updates' >= updates,
           \A k \in Keys \ {c.key} : hash'[k] = hash[k],
           c.obj # None =>
              /\ hash'[c.key] = c.obj /\ Newest(c.key, c.obj) /\ Older(c.obj, Now'),
           c.obj = None => hash'[c.key] = None
    PROVE  VersionsOK' /\ StreamsOK'
<1>1. \A s \in Slaves : /\ stream[s] \in Seq(Command)
                        /\ stream'[s] \in {stream[s], Append(stream[s], c)}
  BY SendFacts, Zenon
<1>2. Now \in Object /\ Now' \in Object /\ Older(Now, Now')
  BY NowFacts, Zenon
<1>3. c.key \in Keys /\ (c.obj # None => c.obj \in Object)
  BY CommandParts, Zenon
<1>4. \A s \in Slaves : replica[s] \in Hash
  BY Zenon DEF TypeOK
<1>5. \A k \in Keys : hash[k] # None => hash[k] \in Object
  BY Zenon DEF TypeOK, Hash
<1>6. \A k \in Keys : \A o : Newest(k, o) /\ (c.key = k /\ c.obj # None => Older(c.obj, o))
         => Newest(k, o)'
  <2> SUFFICES ASSUME NEW k \in Keys, NEW o, Newest(k, o),
                      c.key = k /\ c.obj # None => Older(c.obj, o), NEW s \in Slaves
               PROVE  /\ NoneNewer(stream'[s], k, o)
                      /\ replica'[s][k] # None => Older(replica'[s][k], o)
    BY Zenon DEF Newest
  <2>1. NoneNewer(stream[s], k, o) /\ (replica[s][k] # None => Older(replica[s][k], o))
    BY Zenon DEF Newest
  <2>2. NoneNewer(Append(stream[s], c), k, o)
    BY <1>1, <2>1, NoneNewerAppend, Zenon
  <2> QED
    BY <1>1, <2>1, <2>2, Zenon
<1>7. \A k \in Keys : Newest(k, Now')
  <2> SUFFICES ASSUME NEW k \in Keys, NEW s \in Slaves
               PROVE  /\ NoneNewer(stream[s], k, Now')
                      /\ replica[s][k] # None => Older(replica[s][k], Now')
    BY Zenon DEF Newest
  <2>1. NoneNewer(stream[s], k, Now) /\ (replica[s][k] # None => Older(replica[s][k], Now))
    BY Zenon DEF VersionsOK, Newest
  <2>2. NoneNewer(stream[s], k, Now')
    BY <1>1, <1>2, <2>1, NoneNewerGrows, Zenon
  <2>3. replica[s][k] # None => replica[s][k] \in Object
    BY <1>4, Zenon DEF Hash
  <2> QED
    BY <1>2, <2>1, <2>2, <2>3, OlderTransitive, Zenon
<1>8. \A k \in Keys : Newest(k, Now)'
  <2>1. \A k \in Keys : c.key = k /\ c.obj # None => Older(c.obj, Now')
    BY Zenon
  <2> QED
    BY <1>6, <1>7, <2>1, Zenon
<1>9. \A k \in Keys : hash'[k] # None => Newest(k, hash[k])' /\ Older(hash[k], Now)'
  <2> SUFFICES ASSUME NEW k \in Keys, hash'[k] # None
               PROVE  Newest(k, hash[k])' /\ Older(hash'[k], Now')
    BY Zenon
  <2>1. CASE k = c.key
    <3>1. c.obj # None
      BY <2>1, Zenon
    <3>2. hash'[k] = c.obj /\ Newest(k, c.obj) /\ Older(c.obj, Now')
      BY <2>1, <3>1, Zenon
    <3>3. Older(c.obj, c.obj)
      BY <1>3, <3>1 DEF Older, Object, Update
    <3> QED
      BY <1>6, <3>2, <3>3, Zenon
  <2>2. CASE k # c.key
    <3>1. hash'[k] = hash[k]
      BY <2>2, Zenon
    <3>2. Newest(k, hash[k]) /\ Older(hash[k], Now) /\ hash[k] \in Object
      BY <1>5, <3>1, Zenon DEF VersionsOK
    <3>3. Older(hash[k], Now')
      BY <1>2, <3>2, OlderTransitive, Zenon
    <3> QED
      BY <1>6, <2>2, <3>1, <3>2, <3>3, Zenon
  <2> QED
    BY <2>1, <2>2, Zenon
<1>10. StreamsOK'
  <2> SUFFICES ASSUME NEW s \in Slaves PROVE Ordered(replica'[s], stream'[s])
    BY Zenon DEF StreamsOK
  <2>1. Ordered(replica[s], stream[s])
    BY Zenon DEF StreamsOK
  <2>2. /\ c.obj # None => NoneNewer(stream[s], c.key, c.obj)
        /\ c.obj # None /\ replica[s][c.key] # None => Older(replica[s][c.key], c.obj)
    BY Zenon DEF Newest
  <2>3. Ordered(replica[s], Append(stream[s], c))
    BY <1>1, <2>1, <2>2, OrderedAppend, Zenon
  <2> QED
    BY <1>1, <2>1, <2>3, Zenon
<1> QED
  BY <1>8, <1>9, <1>10, Zenon DEF VersionsOK

-----------------------------------------------------------------------------
(* Steps that leave the objects of the master alone *)

\* The content of the slaves: connections close, join without objects, or keep
\* what they lead to.
LEMMA ContentKept ==
    ASSUME IInv, TypeOK', hash' = hash,
           \A s \in Slaves : Open(s)' =>
              \/ /\ Open(s) /\ Final(s)' = Final(s)
                 /\ \A k \in Keys : Passed(s, k)' => Passed(s, k)
                 /\ s \notin late' => s \notin late
              \/ \A k \in Keys : ~Passed(s, k)' /\ Final(s)'[k] = None
    PROVE  ReplicaIsComplete' /\ RemovedIsForgotten'
<1>1. \A s \in Slaves, k \in Keys :
         Open(s)' /\ Passed(s, k)' /\ hash'[k] # None => Final(s)'[k] = hash'[k]
  BY Zenon DEF IInv, ReplicaIsComplete
<1>2. \A s \in Slaves \ late', k \in Keys :
         Open(s)' => Final(s)'[k] \in {None, hash'[k]}
  BY Zenon DEF IInv, RemovedIsForgotten
<1> QED
  BY <1>1, <1>2, Zenon DEF ReplicaIsComplete, RemovedIsForgotten

\* The streams: what was ordered stays ordered, what was not newer is not newer.
Kept(s) ==
    /\ Ordered(replica[s], stream[s]) => Ordered(replica[s], stream[s])'
    /\ \A k \in Keys, o \in Object :
          NoneNewer(stream[s], k, o) /\ (replica[s][k] # None => Older(replica[s][k], o))
          => /\ NoneNewer(stream'[s], k, o)
             /\ replica'[s][k] # None => Older(replica'[s][k], o)

\* Such steps preserve the order of the versions.
LEMMA OrderKept ==
    ASSUME IInv, hash' = hash, updates' = updates, \A s \in Slaves : Kept(s)
    PROVE  VersionsOK' /\ StreamsOK'
<1>1. Now \in Object /\ \A k \in Keys : hash[k] # None => hash[k] \in Object
  BY DEF IInv, TypeOK, Now, Object, Hash
<1>2. \A k \in Keys, o \in Object : Newest(k, o) => Newest(k, o)'
  BY Zenon DEF Newest, Kept
<1>3. Now' = Now
  BY Zenon DEF Now
<1>4. VersionsOK'
  <2> SUFFICES ASSUME NEW k \in Keys
               PROVE  /\ Newest(k, Now)'
                      /\ hash'[k] # None => Newest(k, hash[k])' /\ Older(hash'[k], Now')
    BY Zenon DEF VersionsOK
  <2>1. Newest(k, Now) /\ (hash[k] # None => Newest(k, hash[k]) /\ Older(hash[k], Now))
    BY Zenon DEF IInv, VersionsOK
  <2>2. Newest(k, Now)'
    BY <1>1, <1>2, <1>3, <2>1, Zenon
  <2>3. hash[k] # None => Newest(k, hash[k])'
    BY <1>1, <1>2, <2>1, Zenon
  <2> QED
    BY <1>3, <2>1, <2>2, <2>3, Zenon
<1>5. StreamsOK'
  BY Zenon DEF IInv, StreamsOK, Kept
<1> QED
  BY <1>4, <1>5, Zenon

\* A step that does not touch streams and replicas.
LEMMA UntouchedIsKept ==
    ASSUME UNCHANGED <<stream, replica>>, NEW s \in Slaves
    PROVE  Kept(s) /\ Final(s)' = Final(s)
BY Zenon DEF Kept, Final

\* Waiting threads: only waiting and reactor change.
LEMMA WaitPreserves ==
    ASSUME IInv, waiting' \in [Keys -> Workers \cup {GC, None}],
           reactor' \in Keys \cup {None},
           UNCHANGED <<hash, updates, busy, refs, m_slaves, m_requests, m_new_slaves,
                       gc, valid, stream, link, replica, copied, late>>
    PROVE  IInv'
<1>1. TypeOK'
  BY Zenon DEF IInv, TypeOK
<1>2. \A s \in Slaves : Kept(s) /\ Final(s)' = Final(s)
  BY UntouchedIsKept, Zenon
<1>3. ReplicaIsComplete' /\ RemovedIsForgotten'
  <2>1. \A s \in Slaves : /\ Open(s)' => Open(s)
                          /\ \A k \in Keys : Passed(s, k)' => Passed(s, k)
    BY Zenon DEF Open, Passed
  <2> QED
    BY <1>1, <1>2, <2>1, ContentKept, Zenon
<1>4. VersionsOK' /\ StreamsOK'
  BY <1>2, OrderKept, Zenon
<1>5. AwayOK' /\ GCOK'
  BY Zenon DEF IInv, AwayOK, GCOK
<1>6. JoinOK' /\ EarlyOK'
  BY Zenon DEF IInv, JoinOK, EarlyOK, KnownTo
<1> QED
  BY <1>1, <1>3, <1>4, <1>5, <1>6, Zenon DEF IInv

\* A thread waits for buffers in the lock of a bucket, the reactor for the lock.
LEMMA WaitingPreserves ==
    ASSUME IInv,
           \/ \E w \in Workers, k \in Keys : WaitInJob(w, k)
           \/ \E k \in Keys : WaitInGC(k) \/ BlockReactor(k)
           \/ UnblockReactor
    PROVE  IInv'
<1>1. ASSUME NEW t \in Workers \cup {GC}, NEW k \in Keys, NEW S, Wait(t, k, S)
      PROVE  IInv'
  <2>1. /\ waiting' = [waiting EXCEPT ![k] = t]
        /\ UNCHANGED <<hash, updates, busy, refs, m_slaves, m_requests, m_new_slaves,
                       gc, reactor, valid, stream, link, replica, copied, late>>
    BY <1>1, Zenon DEF Wait, listVars, history
  <2>2. waiting' \in [Keys -> Workers \cup {GC, None}]
    BY <2>1 DEF IInv, TypeOK
  <2> QED
    BY <2>1, <2>2, WaitPreserves, Zenon DEF IInv, TypeOK
<1>2. ASSUME \/ \E k \in Keys : BlockReactor(k)
             \/ UnblockReactor
      PROVE  IInv'
  <2>1. /\ reactor' \in Keys \cup {None}
        /\ UNCHANGED <<hash, updates, busy, refs, m_slaves, m_requests, m_new_slaves,
                       gc, waiting, valid, stream, link, replica, copied, late>>
    BY <1>2, Zenon DEF BlockReactor, UnblockReactor, listVars, history
  <2> QED
    BY <2>1, WaitPreserves, Zenon DEF IInv, TypeOK
<1> QED
  BY <1>1, <1>2, Zenon DEF WaitInJob, WaitInGC

\* on_readable: the new job knows the slaves of the list.
LEMMA PostPreserves ==
    ASSUME IInv, NEW w \in Workers, post_job(w) \/ EndJob(w)
    PROVE  IInv'
<1>1. /\ \/ /\ busy' = [busy EXCEPT ![w] = TRUE]
            /\ refs' = [refs EXCEPT ![w] = m_slaves]
         \/ /\ busy' = [busy EXCEPT ![w] = FALSE]
            /\ refs' = [refs EXCEPT ![w] = {}]
      /\ UNCHANGED <<hash, updates, m_slaves, m_requests, m_new_slaves, gc, waiting,
                     reactor, valid, stream, link, replica, copied, late>>
  BY Zenon DEF post_job, EndJob, listVars, lockVars, history
<1>2. /\ busy' \in [Workers -> BOOLEAN] /\ refs' \in [Workers -> SUBSET Slaves]
      /\ busy'[w] => refs'[w] = m_slaves
      /\ \A v \in Workers \ {w} : busy'[v] = busy[v] /\ refs'[v] = refs[v]
  <2>1. busy \in [Workers -> BOOLEAN] /\ refs \in [Workers -> SUBSET Slaves]
        /\ m_slaves \in SUBSET Slaves
    BY Zenon DEF IInv, TypeOK
  <2> QED
    BY <1>1, <2>1, Zenon
<1>3. TypeOK'
  BY <1>1, <1>2, Zenon DEF IInv, TypeOK
<1>4. \A s \in Slaves : Kept(s) /\ Final(s)' = Final(s)
  BY <1>1, UntouchedIsKept, Zenon
<1>5. ReplicaIsComplete' /\ RemovedIsForgotten'
  <2>1. \A s \in Slaves : /\ Open(s)' => Open(s)
                          /\ \A k \in Keys : Passed(s, k)' => Passed(s, k)
    BY <1>1, Zenon DEF Open, Passed
  <2> QED
    BY <1>1, <1>3, <1>4, <2>1, ContentKept, Zenon
<1>6. VersionsOK' /\ StreamsOK'
  BY <1>1, <1>4, OrderKept, Zenon
<1>7. AwayOK' /\ GCOK'
  BY <1>1, Zenon DEF IInv, AwayOK, GCOK
<1>8. \A s, F : s \in m_slaves /\ F \subseteq Workers /\ KnownTo(s, F) => KnownTo(s, F)'
  BY <1>2 DEF KnownTo
<1>9. JoinOK'
  <2>1. /\ \A s \in copied \cup m_new_slaves \cup gc.fresh : s \in Slaves
        /\ \A q \in m_requests : q.slave \in Slaves /\ q.flags \subseteq Workers
    BY DEF IInv, TypeOK
  <2> QED
    BY <1>1, <1>8, <2>1, Zenon DEF IInv, JoinOK
<1>10. EarlyOK'
  BY <1>1, <1>8, Zenon DEF IInv, JoinOK, EarlyOK
<1> QED
  BY <1>3, <1>5, <1>6, <1>7, <1>9, <1>10, Zenon DEF IInv

\* The rest of the callback and the GC thread: what marking does to the requests.
LEMMA MarkedFacts ==
    ASSUME IInv
    PROVE  /\ Marked \subseteq [slave : Slaves, flags : SUBSET Workers]
           /\ \A p \in Marked : \E q \in m_requests :
                 p.slave = q.slave /\ p.flags = q.flags \cup IdleWorkers
<1>1. \A q \in m_requests :
         /\ [q EXCEPT !.flags = @ \cup IdleWorkers]
               \in [slave : Slaves, flags : SUBSET Workers]
         /\ [q EXCEPT !.flags = @ \cup IdleWorkers].slave = q.slave
         /\ [q EXCEPT !.flags = @ \cup IdleWorkers].flags = q.flags \cup IdleWorkers
  <2>1. IdleWorkers \subseteq Workers
    BY Zenon DEF IdleWorkers
  <2>2. m_requests \subseteq [slave : Slaves, flags : SUBSET Workers]
    BY Zenon DEF IInv, TypeOK
  <2> QED
    BY <2>1, <2>2
<1> QED
  BY <1>1, Zenon DEF Marked

\* syncer::check: every worker of a completed request has been idle since the
\* slave is on the list.
LEMMA CheckPreserves ==
    ASSUME IInv, check
    PROVE  IInv'
<1> DEFINE ready == {q \in Marked : Complete(q)}
<1>1. /\ m_requests' = Marked \ ready
      /\ m_new_slaves' = m_new_slaves \cup {q.slave : q \in ready}
      /\ UNCHANGED <<hash, updates, busy, refs, m_slaves, gc, waiting, reactor, valid,
                     stream, link, replica, copied, late>>
  BY Zenon DEF check, lockVars, history
<1>2. \A p \in m_requests' : /\ p \in [slave : Slaves, flags : SUBSET Workers]
                             /\ \E q \in m_requests : /\ p.slave = q.slave
                                                      /\ p.flags = q.flags \cup IdleWorkers
  BY <1>1, MarkedFacts, Zenon
<1>3. \A s \in m_new_slaves' \ m_new_slaves : \E q \in m_requests :
         s = q.slave /\ Workers \subseteq q.flags \cup IdleWorkers
  <2>1. \A p \in ready : \E q \in m_requests :
           p.slave = q.slave /\ Workers \subseteq q.flags \cup IdleWorkers
    BY MarkedFacts, Zenon DEF Complete
  <2> HIDE DEF ready
  <2>2. \A s \in m_new_slaves' \ m_new_slaves : \E p \in ready : s = p.slave
    BY <1>1, Zenon
  <2> QED
    BY <2>1, <2>2, Zenon
<1> HIDE DEF ready
<1>4. \A q \in m_requests : q.slave \in Slaves
  BY DEF IInv, TypeOK
<1>5. TypeOK'
  <2>1. m_requests' \subseteq [slave : Slaves, flags : SUBSET Workers]
    BY <1>2, Zenon
  <2>2. m_new_slaves' \subseteq Slaves
    <3>1. m_new_slaves \subseteq Slaves
      BY Zenon DEF IInv, TypeOK
    <3>2. \A s \in m_new_slaves' \ m_new_slaves : s \in Slaves
      BY <1>3, <1>4, Zenon
    <3> QED
      BY <3>1, <3>2
  <2> QED
    BY <1>1, <2>1, <2>2, Zenon DEF IInv, TypeOK
<1>6. \A s \in Slaves : Kept(s) /\ Final(s)' = Final(s)
  BY <1>1, UntouchedIsKept, Zenon
<1>7. ReplicaIsComplete' /\ RemovedIsForgotten'
  <2>1. \A s \in Slaves : /\ Open(s)' => Open(s)
                          /\ \A k \in Keys : Passed(s, k)' => Passed(s, k)
    BY <1>1, Zenon DEF Open, Passed
  <2> QED
    BY <1>1, <1>5, <1>6, <2>1, ContentKept, Zenon
<1>8. VersionsOK' /\ StreamsOK'
  BY <1>1, <1>6, OrderKept, Zenon
<1>9. AwayOK'
  <2> SUFFICES ASSUME NEW s \in Slaves, link[s] = "away"
               PROVE  /\ ~valid[s] /\ stream[s] = <<>> /\ replica[s] = NoObjects
                      /\ s \notin copied \cup m_new_slaves' \cup gc.fresh
                      /\ \A q \in m_requests' : q.slave # s
    BY <1>1, Zenon DEF AwayOK
  <2>1. /\ ~valid[s] /\ stream[s] = <<>> /\ replica[s] = NoObjects
        /\ s \notin copied \cup m_new_slaves \cup gc.fresh
        /\ \A q \in m_requests : q.slave # s
    BY Zenon DEF IInv, AwayOK
  <2>2. s \notin m_new_slaves'
    BY <1>3, <2>1, Zenon
  <2>3. \A q \in m_requests' : q.slave # s
    BY <1>2, <2>1, Zenon
  <2> QED
    BY <2>1, <2>2, <2>3, Zenon
<1>10. \A s, F, G : KnownTo(s, F) /\ G \subseteq F \cup IdleWorkers => KnownTo(s, G)'
  BY <1>1, Zenon DEF KnownTo, IdleWorkers
<1>11. JoinOK'
  <2>1. \A s \in Slaves : valid'[s] => s \in m_slaves'
    BY <1>1, Zenon DEF IInv, JoinOK
  <2>2. \A s \in copied' \cup m_new_slaves' \cup gc'.fresh : valid'[s] => KnownTo(s, Workers)'
    <3>1. ASSUME NEW s \in m_new_slaves' \ m_new_slaves, valid[s]
          PROVE  KnownTo(s, Workers)'
      <4>1. PICK q \in m_requests : /\ s = q.slave
                                /\ Workers \subseteq q.flags \cup IdleWorkers
        BY <1>3, <3>1, Zenon
      <4>2. KnownTo(s, q.flags)
        BY <3>1, <4>1, Zenon DEF IInv, JoinOK
      <4> QED
        BY <1>10, <4>1, <4>2, Zenon
    <3>2. \A s \in copied \cup m_new_slaves \cup gc.fresh : valid[s] => KnownTo(s, Workers)'
      BY <1>1, Zenon DEF IInv, JoinOK, KnownTo
    <3> QED
      BY <1>1, <3>1, <3>2, Zenon
  <2>3. \A q \in m_requests' : valid'[q.slave] => KnownTo(q.slave, q.flags)'
    <3> SUFFICES ASSUME NEW p \in m_requests', valid[p.slave]
                 PROVE  KnownTo(p.slave, p.flags)'
      BY <1>1, Zenon
    <3>1. PICK q \in m_requests : p.slave = q.slave /\ p.flags = q.flags \cup IdleWorkers
      BY <1>2, Zenon
    <3>2. KnownTo(q.slave, q.flags)
      BY <3>1, Zenon DEF IInv, JoinOK
    <3> QED
      BY <1>10, <3>1, <3>2, Zenon
  <2> QED
    BY <2>1, <2>2, <2>3, Zenon DEF JoinOK
<1>12. EarlyOK' /\ GCOK'
  BY <1>1, Zenon DEF IInv, EarlyOK, KnownTo, GCOK
<1> QED
  BY <1>5, <1>7, <1>8, <1>9, <1>11, <1>12, Zenon DEF IInv

\* What Invalidate leaves of the streams.
LEMMA InvalidateFacts ==
    ASSUME IInv, NEW S \in SUBSET Slaves, Invalidate(S), replica' = replica
    PROVE  /\ valid' \in [Slaves -> BOOLEAN]
           /\ \A s \in Slaves : valid'[s] <=> valid[s] /\ s \notin S
           /\ stream' \in [Slaves -> Seq(Command)]
           /\ \A s \in Slaves : Len(stream'[s]) <= BufCnt /\ Kept(s)
           /\ \A s \in Slaves : s \notin S => stream'[s] = stream[s]
           /\ \A s \in Slaves : stream[s] = <<>> => stream'[s] = <<>>
<1>1. valid' = [s \in Slaves |-> valid[s] /\ s \notin S]
  BY Zenon DEF Invalidate
<1>2. PICK n \in [S -> 0..BufCnt] :
         /\ \A s \in S : n[s] <= Len(stream[s])
         /\ stream' = [s \in Slaves |-> IF s \in S THEN SubSeq(stream[s], 1, n[s])
                                                   ELSE stream[s]]
  BY Zenon DEF Invalidate
<1>3. \A s \in Slaves : stream[s] \in Seq(Command) /\ Len(stream[s]) <= BufCnt
  BY Zenon DEF IInv, TypeOK
<1>4. \A s \in S : n[s] \in 0..Len(stream[s])
  <2> SUFFICES ASSUME NEW s \in S PROVE n[s] \in 0..Len(stream[s])
    BY Zenon
  <2>1. n[s] \in 0..BufCnt /\ n[s] <= Len(stream[s]) /\ stream[s] \in Seq(Command)
    BY <1>2, <1>3, Zenon
  <2> QED
    BY <2>1, LenFacts, ReplicationAssumption
<1>5. \A s \in Slaves : /\ s \in S => stream'[s] = SubSeq(stream[s], 1, n[s])
                        /\ s \notin S => stream'[s] = stream[s]
  BY <1>2, Zenon
<1>6. ASSUME NEW s \in S
      PROVE  /\ stream'[s] \in Seq(Command) /\ Len(stream'[s]) <= BufCnt /\ Kept(s)
             /\ stream[s] = <<>> => stream'[s] = <<>>
  <2>1. /\ stream'[s] \in Seq(Command) /\ Len(stream'[s]) = n[s]
        /\ \A h : Ordered(h, stream[s]) => Ordered(h, stream'[s])
        /\ \A k, o : NoneNewer(stream[s], k, o) => NoneNewer(stream'[s], k, o)
    <3>1. stream[s] \in Seq(Command) /\ n[s] \in 0..Len(stream[s])
      BY <1>3, <1>4, Zenon
    <3>2. /\ SubSeq(stream[s], 1, n[s]) \in Seq(Command)
          /\ Len(SubSeq(stream[s], 1, n[s])) = n[s]
          /\ \A h : Ordered(h, stream[s]) => Ordered(h, SubSeq(stream[s], 1, n[s]))
          /\ \A k, o : NoneNewer(stream[s], k, o) =>
                          NoneNewer(SubSeq(stream[s], 1, n[s]), k, o)
      BY <3>1, PrefixFacts, Zenon
    <3>3. stream'[s] = SubSeq(stream[s], 1, n[s])
      BY <1>5, Zenon
    <3> QED
      BY <3>2, <3>3, Zenon
  <2>2. Kept(s)
    BY <2>1, Zenon DEF Kept
  <2>3. n[s] \in 0..Len(stream[s]) /\ stream[s] \in Seq(Command) /\ Len(stream[s]) <= BufCnt
    BY <1>3, <1>4, Zenon
  <2>4. Len(stream'[s]) <= BufCnt
    BY <2>1, <2>3, LenFacts, ReplicationAssumption
  <2>5. stream[s] = <<>> => Len(stream'[s]) = 0
    BY <2>1, <2>3
  <2> QED
    BY <2>1, <2>2, <2>4, <2>5, LenFacts
<1>7. ASSUME NEW s \in Slaves \ S
      PROVE  stream'[s] \in Seq(Command) /\ Len(stream'[s]) <= BufCnt /\ Kept(s)
  BY <1>3, <1>5, Zenon DEF Kept
<1>8. valid' \in [Slaves -> BOOLEAN] /\ \A s \in Slaves : valid'[s] <=> valid[s] /\ s \notin S
  BY <1>1, Zenon
<1>9. stream' \in [Slaves -> Seq(Command)]
  <2>1. \A s \in Slaves : stream'[s] \in Seq(Command)
    BY <1>6, <1>7, Zenon
  <2>2. stream' = [s \in Slaves |-> stream'[s]]
    BY <1>2, Zenon
  <2> QED
    BY <2>1, <2>2, Zenon
<1>10. \A s \in Slaves : Len(stream'[s]) <= BufCnt /\ Kept(s)
  BY <1>6, <1>7, Zenon
<1>11. \A s \in Slaves : stream[s] = <<>> => stream'[s] = <<>>
  BY <1>5, <1>6, Zenon
<1> QED
  BY <1>5, <1>8, <1>9, <1>10, <1>11, Zenon

\* The sets of slaves are finite, and a smaller one has no more elements.
LEMMA SlavesFinite ==
    ASSUME NEW A \in SUBSET Slaves
    PROVE  /\ IsFiniteSet(A) /\ Cardinality(A) \in Nat
           /\ \A B \in SUBSET A : Cardinality(B) <= Cardinality(A)
           /\ \A s \in Slaves : s \notin A => Cardinality(A \cup {s}) = Cardinality(A) + 1
<1>1. IsFiniteSet(A)
  BY FS_Subset, ReplicationAssumption, Zenon
<1>2. Cardinality(A) \in Nat
  BY <1>1, FS_CardinalityType, Zenon
<1>3. \A B \in SUBSET A : Cardinality(B) <= Cardinality(A)
  BY <1>1, FS_Subset, Zenon
<1>4. \A s \in Slaves : s \notin A => Cardinality(A \cup {s}) = Cardinality(A) + 1
  BY <1>1, FS_AddElement, Zenon
<1> QED
  BY <1>1, <1>2, <1>3, <1>4, Zenon

\* on_master_interval: a slave that leaves the list is not valid any more, and a
\* new GC thread knows every slave that is.
LEMMA IntervalPreserves ==
    ASSUME IInv, NEW T \in SUBSET Slaves, on_master_interval(T)
    PROVE  IInv'
<1>1. /\ m_slaves' = {s \in m_slaves : valid[s] /\ s \notin T} /\ Invalidate(T)
      /\ UNCHANGED <<hash, updates, busy, refs, m_requests, waiting, reactor, link,
                     replica, copied, late>>
  BY Zenon DEF on_master_interval, EraseSlaves, lockVars, history
<1>2. \/ UNCHANGED <<gc, m_new_slaves>>
      \/ /\ gc' = [on |-> TRUE, todo |-> Keys, slaves |-> m_slaves' \cup m_new_slaves,
                   fresh |-> m_new_slaves]
         /\ m_new_slaves' = {}
  BY Zenon DEF on_master_interval, StartGC
<1>3. /\ valid' \in [Slaves -> BOOLEAN]
      /\ \A s \in Slaves : valid'[s] <=> valid[s] /\ s \notin T
      /\ stream' \in [Slaves -> Seq(Command)]
      /\ \A s \in Slaves : Len(stream'[s]) <= BufCnt /\ Kept(s)
      /\ \A s \in Slaves : s \notin T => stream'[s] = stream[s]
      /\ \A s \in Slaves : stream[s] = <<>> => stream'[s] = <<>>
  BY <1>1, InvalidateFacts, Zenon
<1>4. /\ m_slaves \subseteq Slaves /\ m_new_slaves \subseteq Slaves
      /\ gc \in [on : BOOLEAN, todo : SUBSET Keys, slaves : SUBSET Slaves,
                 fresh : SUBSET Slaves]
      /\ copied \subseteq Slaves /\ Cardinality(m_slaves) <= MaxSlaves
      /\ m_requests \subseteq [slave : Slaves, flags : SUBSET Workers]
  BY Zenon DEF IInv, TypeOK
<1>5. m_slaves' \subseteq m_slaves /\ \A s \in Slaves : valid'[s] => s \in m_slaves'
  BY <1>1, <1>3, Zenon DEF IInv, JoinOK
<1>6. /\ gc' \in [on : BOOLEAN, todo : SUBSET Keys, slaves : SUBSET Slaves,
                  fresh : SUBSET Slaves]
      /\ m_new_slaves' \subseteq Slaves
      /\ m_new_slaves' \cup gc'.fresh \subseteq m_new_slaves \cup gc.fresh
      /\ gc'.on => gc' = gc \/ (gc'.todo = Keys /\ m_slaves' \subseteq gc'.slaves)
      /\ ~gc'.on => gc' = gc
  <2>1. CASE UNCHANGED <<gc, m_new_slaves>>
    BY <1>4, <2>1, Zenon
  <2>2. CASE /\ gc' = [on |-> TRUE, todo |-> Keys, slaves |-> m_slaves' \cup m_new_slaves,
                       fresh |-> m_new_slaves]
             /\ m_new_slaves' = {}
    <3>1. /\ gc'.on = TRUE /\ gc'.todo = Keys /\ gc'.slaves = m_slaves' \cup m_new_slaves
          /\ gc'.fresh = m_new_slaves
      BY <2>2, Zenon
    <3>2. gc' \in [on : BOOLEAN, todo : SUBSET Keys, slaves : SUBSET Slaves,
                   fresh : SUBSET Slaves]
      <4>1. m_slaves' \cup m_new_slaves \in SUBSET Slaves
        BY <1>4, <1>5, Zenon
      <4> QED
        BY <1>4, <2>2, <4>1
    <3> QED
      BY <1>4, <2>2, <3>1, <3>2, Zenon
  <2> QED
    BY <1>2, <2>1, <2>2, Zenon
<1>7. TypeOK'
  <2>1. m_slaves' \subseteq Slaves /\ Cardinality(m_slaves') <= MaxSlaves
    <3>1. /\ Cardinality(m_slaves') <= Cardinality(m_slaves)
          /\ Cardinality(m_slaves) \in Nat /\ Cardinality(m_slaves') \in Nat
      BY <1>4, <1>5, SlavesFinite, Zenon
    <3> QED
      BY <1>4, <1>5, <3>1, ReplicationAssumption
  <2> QED
    BY <1>1, <1>3, <1>6, <2>1, Zenon DEF IInv, TypeOK
<1>8. ReplicaIsComplete' /\ RemovedIsForgotten'
  <2> SUFFICES ASSUME NEW s \in Slaves, Open(s)'
               PROVE  /\ Open(s) /\ Final(s)' = Final(s)
                      /\ \A k \in Keys : Passed(s, k)' => Passed(s, k)
    BY <1>1, <1>7, ContentKept, Zenon
  <2>1. Open(s) /\ s \notin T
    BY <1>1, <1>3, Zenon DEF Open
  <2>2. Final(s)' = Final(s)
    BY <1>1, <1>3, <2>1, Zenon DEF Final
  <2>3. \A k \in Keys : Passed(s, k)' => Passed(s, k)
    BY <1>1, <1>6, Zenon DEF Passed
  <2> QED
    BY <2>1, <2>2, <2>3, Zenon
<1>9. VersionsOK' /\ StreamsOK'
  BY <1>1, <1>3, OrderKept, Zenon
<1>10. AwayOK'
  <2> SUFFICES ASSUME NEW s \in Slaves, link[s] = "away"
               PROVE  /\ ~valid'[s] /\ stream'[s] = <<>> /\ replica[s] = NoObjects
                      /\ s \notin copied \cup m_new_slaves' \cup gc'.fresh
                      /\ \A q \in m_requests : q.slave # s
    BY <1>1, Zenon DEF AwayOK
  <2>1. /\ ~valid[s] /\ stream[s] = <<>> /\ replica[s] = NoObjects
        /\ s \notin copied \cup m_new_slaves \cup gc.fresh
        /\ \A q \in m_requests : q.slave # s
    BY Zenon DEF IInv, AwayOK
  <2> QED
    BY <1>3, <1>6, <2>1, Zenon
<1>11. \A s, F : KnownTo(s, F) => KnownTo(s, F)'
  BY <1>1, Zenon DEF KnownTo
<1>12. JoinOK'
  <2>1. \A s \in copied' \cup m_new_slaves' \cup gc'.fresh : valid'[s] => KnownTo(s, Workers)'
    <3>1. \A s \in copied' \cup m_new_slaves' \cup gc'.fresh :
             s \in Slaves /\ s \in copied \cup m_new_slaves \cup gc.fresh
      BY <1>1, <1>4, <1>6
    <3> QED
      BY <1>3, <1>11, <3>1, Zenon DEF IInv, JoinOK
  <2>2. \A q \in m_requests' : valid'[q.slave] => KnownTo(q.slave, q.flags)'
    <3>1. \A q \in m_requests : q.slave \in Slaves
      BY <1>4
    <3> QED
      BY <1>1, <1>3, <1>11, <3>1, Zenon DEF IInv, JoinOK
  <2> QED
    BY <1>5, <2>1, <2>2, Zenon DEF JoinOK
<1>13. EarlyOK' /\ GCOK'
  <2>1. EarlyOK'
    BY <1>1, <1>3, <1>5, <1>6, <1>11, Zenon DEF IInv, EarlyOK
  <2> QED
    BY <1>6, <2>1, Zenon DEF IInv, GCOK
<1> QED
  BY <1>7, <1>8, <1>9, <1>10, <1>12, <1>13, Zenon DEF IInv

\* Connections that end: less is valid, the slave loses its objects or hangs.
\* The lists and the threads do not change.
LEMMA EndPreserves ==
    ASSUME IInv, UNCHANGED <<hash, updates, busy, refs, m_slaves, m_requests, m_new_slaves,
                             gc, waiting, reactor, copied, late>>,
           valid' \in [Slaves -> BOOLEAN], stream' \in [Slaves -> Seq(Command)],
           link' \in [Slaves -> {"away", "up", "hung", "down"}],
           replica' \in [Slaves -> Hash],
           \A s \in Slaves :
              /\ valid'[s] => valid[s]
              /\ link'[s] = "away" => /\ link[s] = "away" /\ replica'[s] = replica[s]
                                      /\ stream[s] = <<>> => stream'[s] = <<>>
              /\ Open(s)' => Open(s) /\ Final(s)' = Final(s)
              /\ Len(stream'[s]) <= BufCnt /\ Kept(s)
    PROVE  IInv'
<1>1. TypeOK'
  BY Zenon DEF IInv, TypeOK
<1>2. ReplicaIsComplete' /\ RemovedIsForgotten'
  <2>1. \A s \in Slaves : \A k \in Keys : Passed(s, k)' => Passed(s, k)
    BY Zenon DEF Passed
  <2> QED
    BY <1>1, <2>1, ContentKept, Zenon
<1>3. VersionsOK' /\ StreamsOK'
  BY OrderKept, Zenon
<1>4. AwayOK'
  BY Zenon DEF IInv, AwayOK
<1>5. \A s, F : KnownTo(s, F) => KnownTo(s, F)'
  BY Zenon DEF KnownTo
<1>6. JoinOK'
  <2>1. /\ \A s \in copied \cup m_new_slaves \cup gc.fresh : s \in Slaves
        /\ \A q \in m_requests : q.slave \in Slaves
    BY DEF IInv, TypeOK
  <2> QED
    BY <1>5, <2>1, Zenon DEF IInv, JoinOK
<1>7. EarlyOK' /\ GCOK'
  BY <1>5, Zenon DEF IInv, EarlyOK, GCOK
<1> QED
  BY <1>1, <1>2, <1>3, <1>4, <1>6, <1>7, Zenon DEF IInv

\* The master sees the end of a connection.
LEMMA DisconnectPreserves ==
    ASSUME IInv, NEW s \in Slaves, Disconnect(s)
    PROVE  IInv'
<1>1. /\ Invalidate({s})
      /\ UNCHANGED <<hash, updates, busy, refs, m_slaves, m_requests, m_new_slaves,
                     gc, waiting, reactor, link, replica, copied, late>>
  BY Zenon DEF Disconnect, masterVars, listVars, lockVars, history
<1>2. {s} \in SUBSET Slaves
  BY Zenon
<1>3. /\ valid' \in [Slaves -> BOOLEAN]
      /\ \A u \in Slaves : valid'[u] <=> valid[u] /\ u \notin {s}
      /\ stream' \in [Slaves -> Seq(Command)]
      /\ \A u \in Slaves : Len(stream'[u]) <= BufCnt /\ Kept(u)
      /\ \A u \in Slaves : u \notin {s} => stream'[u] = stream[u]
      /\ \A u \in Slaves : stream[u] = <<>> => stream'[u] = <<>>
  BY <1>1, <1>2, InvalidateFacts, Zenon
<1>4. \A u \in Slaves : Open(u)' => Open(u) /\ Final(u)' = Final(u)
  BY <1>1, <1>3, Zenon DEF Open, Final
<1>5. link' \in [Slaves -> {"away", "up", "hung", "down"}] /\ replica' \in [Slaves -> Hash]
  BY <1>1, Zenon DEF IInv, TypeOK
<1> QED
  BY <1>1, <1>3, <1>4, <1>5, EndPreserves, Zenon

\* The slave leaves, or hangs.
LEMMA LeavePreserves ==
    ASSUME IInv, NEW s \in Slaves, on_slave_end(s) \/ Hang(s)
    PROVE  IInv'
<1>1. /\ link[s] # "away"
      /\ \/ /\ link' = [link EXCEPT ![s] = "down"]
            /\ stream' = [stream EXCEPT ![s] = <<>>]
            /\ replica' = [replica EXCEPT ![s] = NoObjects]
         \/ /\ link' = [link EXCEPT ![s] = "hung"]
            /\ link[s] # "down" /\ UNCHANGED <<stream, replica>>
      /\ UNCHANGED <<hash, updates, busy, refs, m_slaves, m_requests, m_new_slaves,
                     gc, waiting, reactor, valid, copied, late>>
  <2>1. on_slave_end(s) => link[s] # "away"
    BY DEF on_slave_end
  <2>2. Hang(s) => link[s] # "away" /\ link[s] # "down"
    BY DEF Hang
  <2> QED
    BY <2>1, <2>2, Zenon DEF on_slave_end, Hang, masterVars, listVars, lockVars, history
<1>2. /\ link \in [Slaves -> {"away", "up", "hung", "down"}] /\ replica \in [Slaves -> Hash]
      /\ stream \in [Slaves -> Seq(Command)] /\ valid \in [Slaves -> BOOLEAN]
      /\ \A u \in Slaves : Len(stream[u]) <= BufCnt
  BY Zenon DEF IInv, TypeOK
<1>3. <<>> \in Seq(Command) /\ Len(<<>>) <= BufCnt /\ NoObjects \in Hash
  BY ReplicationAssumption DEF NoObjects, Hash
<1>4. /\ link' \in [Slaves -> {"away", "up", "hung", "down"}]
      /\ link'[s] \in {"down", "hung"} /\ link'[s] # "away"
      /\ \A u \in Slaves \ {s} : link'[u] = link[u]
      /\ link'[s] # "down" => link[s] # "down"
  BY <1>1, <1>2, Zenon
<1>5. /\ stream' \in [Slaves -> Seq(Command)] /\ replica' \in [Slaves -> Hash]
      /\ \A u \in Slaves : Len(stream'[u]) <= BufCnt
      /\ \A u \in Slaves \ {s} : stream'[u] = stream[u] /\ replica'[u] = replica[u]
      /\ \/ link'[s] = "down" /\ stream'[s] = <<>> /\ replica'[s] = NoObjects
         \/ stream'[s] = stream[s] /\ replica'[s] = replica[s]
  <2>1. CASE /\ link' = [link EXCEPT ![s] = "down"]
             /\ stream' = [stream EXCEPT ![s] = <<>>]
             /\ replica' = [replica EXCEPT ![s] = NoObjects]
    BY <1>2, <1>3, <2>1, Zenon
  <2>2. CASE UNCHANGED <<stream, replica>>
    BY <1>2, <2>2, Zenon
  <2> QED
    BY <1>1, <2>1, <2>2, Zenon
<1>6. \A u \in Slaves \ {s} : Kept(u) /\ Final(u)' = Final(u)
  BY <1>5, Zenon DEF Kept, Final
<1>7. Kept(s)
  <2>1. CASE stream'[s] = <<>> /\ replica'[s] = NoObjects
    <3>1. 1..Len(<<>>) = {}
      OBVIOUS
    <3>2. \A h : Ordered(h, <<>>)
      BY <3>1, Zenon DEF Ordered
    <3>3. \A k, o : NoneNewer(<<>>, k, o)
      BY <3>1, Zenon DEF NoneNewer
    <3>4. \A k \in Keys : replica'[s][k] = None
      BY <2>1, Zenon DEF NoObjects
    <3> QED
      BY <2>1, <3>2, <3>3, <3>4, Zenon DEF Kept
  <2>2. CASE stream'[s] = stream[s] /\ replica'[s] = replica[s]
    BY <2>2, Zenon DEF Kept
  <2> QED
    BY <1>5, <2>1, <2>2, Zenon
<1>8. Open(s)' => Open(s) /\ Final(s)' = Final(s)
  BY <1>1, <1>4, <1>5, Zenon DEF Open, Final
<1>9. \A u \in Slaves \ {s} : Open(u)' => Open(u)
  BY <1>1, <1>4, Zenon DEF Open
<1>10. \A u \in Slaves :
         /\ valid'[u] => valid[u]
         /\ link'[u] = "away" => /\ link[u] = "away" /\ replica'[u] = replica[u]
                                 /\ stream[u] = <<>> => stream'[u] = <<>>
         /\ Open(u)' => Open(u) /\ Final(u)' = Final(u)
         /\ Len(stream'[u]) <= BufCnt /\ Kept(u)
  <2> SUFFICES ASSUME NEW u \in Slaves
               PROVE  /\ link'[u] = "away" => /\ link[u] = "away" /\ replica'[u] = replica[u]
                                              /\ stream[u] = <<>> => stream'[u] = <<>>
                      /\ Open(u)' => Open(u) /\ Final(u)' = Final(u)
                      /\ Kept(u)
    BY <1>1, <1>5, Zenon
  <2>1. CASE u = s
    BY <1>4, <1>7, <1>8, <2>1, Zenon
  <2>2. CASE u # s
    BY <1>4, <1>5, <1>6, <1>9, <2>2, Zenon
  <2> QED
    BY <2>1, <2>2, Zenon
<1>11. valid' \in [Slaves -> BOOLEAN]
  BY <1>1, <1>2, Zenon
<1> QED
  BY <1>1, <1>4, <1>5, <1>10, <1>11, EndPreserves, Zenon

\* repl_recv: the slave applies the first command of its stream.
LEMMA RecvPreserves ==
    ASSUME IInv, NEW s \in Slaves, repl_recv(s)
    PROVE  IInv'
<1>1. /\ link[s] = "up" /\ stream[s] # <<>>
      /\ replica' = [replica EXCEPT ![s] = Applied(@, Head(stream[s]))]
      /\ stream' = [stream EXCEPT ![s] = Tail(@)]
      /\ UNCHANGED <<hash, updates, busy, refs, m_slaves, m_requests, m_new_slaves,
                     gc, waiting, reactor, valid, link, copied, late>>
  BY Zenon DEF repl_recv, masterVars, listVars, lockVars, history
<1>2. /\ link \in [Slaves -> {"away", "up", "hung", "down"}] /\ replica \in [Slaves -> Hash]
      /\ stream \in [Slaves -> Seq(Command)] /\ valid \in [Slaves -> BOOLEAN]
      /\ \A u \in Slaves : Len(stream[u]) <= BufCnt
  BY Zenon DEF IInv, TypeOK
<1> DEFINE h == replica[s]
           q == stream[s]
<1>3. h \in Hash /\ q \in Seq(Command) /\ q # <<>>
  BY <1>1, <1>2, Zenon
<1>4. /\ replica'[s] = Applied(h, Head(q)) /\ stream'[s] = Tail(q)
      /\ \A u \in Slaves \ {s} : replica'[u] = replica[u] /\ stream'[u] = stream[u]
  BY <1>1, <1>2, Zenon
<1> HIDE DEF h, q
<1>5. /\ Tail(q) \in Seq(Command) /\ Len(Tail(q)) <= Len(q) /\ Head(q) \in Command
      /\ Ordered(h, q) => Ordered(Applied(h, Head(q)), Tail(q))
      /\ \A k, o : NoneNewer(q, k, o) => NoneNewer(Tail(q), k, o)
  BY <1>3, TailFacts, Zenon
<1>6. Applied(h, Head(q)) \in Hash
  BY <1>3, <1>5, AppliedType, Zenon
<1>7. stream' \in [Slaves -> Seq(Command)] /\ replica' \in [Slaves -> Hash]
  BY <1>1, <1>2, <1>5, <1>6, Zenon DEF h, q
<1>8. Len(Tail(q)) <= BufCnt
  <2>1. Len(q) <= BufCnt /\ Len(q) \in Nat /\ Len(Tail(q)) \in Nat
    BY <1>2, <1>3, <1>5, LenFacts, Zenon DEF q
  <2> QED
    BY <1>5, <2>1, ReplicationAssumption
<1>9. Kept(s)
  <2>1. Ordered(replica[s], stream[s]) => Ordered(replica'[s], stream'[s])
    BY <1>4, <1>5, Zenon DEF h, q
  <2>2. ASSUME NEW k \in Keys, NEW o \in Object, NoneNewer(q, k, o),
               h[k] # None => Older(h[k], o), Applied(h, Head(q))[k] # None
        PROVE  Older(Applied(h, Head(q))[k], o)
    <3> DEFINE c == Head(q)
               b == Applied(h, c)
    <3>1. /\ b[k] = h[k] \/ c.key = k
          /\ c.op = "SetQ" => b[c.key] = c.obj
          /\ c.op = "DeleteQ" => b[c.key] = None
          /\ c.op = "Touch" /\ h[c.key] = None => b[c.key] = None
          /\ c.op = "Touch" /\ h[c.key] # None =>
                b[c.key] = [h[c.key] EXCEPT !.exptime = c.obj.exptime]
      BY <1>3, <1>5, AppliedType, Zenon
    <3>2. /\ c \in Command /\ c.op \in {"SetQ", "Touch", "DeleteQ"}
          /\ c.op \in {"SetQ", "Touch"} => c.obj \in Object /\ c.obj # None
      BY <1>5, NoneAssumption DEF Command
    <3>3. c.key = k /\ c.obj # None => Older(c.obj, o)
      <4>1. Len(q) \in Nat /\ Len(q) # 0 /\ c = q[1]
        BY <1>3, HeadTailFacts, LenFacts
      <4>2. 1 \in 1..Len(q)
        BY <4>1
      <4> QED
        BY <2>2, <4>1, <4>2, Zenon DEF NoneNewer
    <3>4. h[k] # None => h[k] \in Object
      BY <1>3, Zenon DEF Hash
    <3> HIDE DEF b, c
    <3>5. CASE b[k] = h[k]
      BY <2>2, <3>5, Zenon DEF b, c
    <3>6. CASE c.key = k /\ c.op = "SetQ"
      BY <3>1, <3>2, <3>3, <3>6 DEF b, c
    <3>7. CASE c.key = k /\ c.op = "Touch"
      <4>1. h[k] # None /\ h[k] \in Object
        BY <2>2, <3>1, <3>4, <3>7, Zenon DEF b, c
      <4>2. b[k] = [h[k] EXCEPT !.exptime = c.obj.exptime]
        BY <3>1, <3>7, <4>1, Zenon
      <4>3. c.obj \in Object /\ Older(c.obj, o) /\ Older(h[k], o)
        BY <2>2, <3>2, <3>3, <3>7, <4>1
      <4>4. Older(b[k], o)
        BY <4>1, <4>2, <4>3 DEF Older, Object
      <4> QED
        BY <4>4, Zenon DEF b, c
    <3>8. CASE c.key = k /\ c.op = "DeleteQ"
      BY <2>2, <3>1, <3>8, Zenon DEF b, c
    <3> QED
      BY <3>1, <3>2, <3>5, <3>6, <3>7, <3>8
  <2>3. \A k \in Keys, o \in Object :
          NoneNewer(stream[s], k, o) /\ (replica[s][k] # None => Older(replica[s][k], o))
          => /\ NoneNewer(stream'[s], k, o)
             /\ replica'[s][k] # None => Older(replica'[s][k], o)
    BY <1>4, <1>5, <2>2, Zenon DEF h, q
  <2> QED
    BY <2>1, <2>3, Zenon DEF Kept
<1>10. Final(s)' = Final(s)
  <2>1. Replay(Applied(h, Head(q)), Tail(q)) = Replay(h, q)
    BY <1>3, ReplayTail, Zenon
  <2> QED
    BY <1>4, <2>1, Zenon DEF Final, h, q
<1>11. \A u \in Slaves \ {s} : Kept(u) /\ Final(u)' = Final(u)
  BY <1>4, Zenon DEF Kept, Final
<1>12. \A u \in Slaves : /\ Open(u)' => Open(u) /\ Final(u)' = Final(u)
                         /\ Len(stream'[u]) <= BufCnt /\ Kept(u)
  <2>1. \A u \in Slaves : Open(u)' => Open(u)
    BY <1>1, Zenon DEF Open
  <2>2. \A u \in Slaves : Len(stream'[u]) <= BufCnt
    BY <1>2, <1>4, <1>8, Zenon
  <2> QED
    BY <1>9, <1>10, <1>11, <2>1, <2>2, Zenon
<1>13. \A u \in Slaves :
          /\ valid'[u] => valid[u]
          /\ link'[u] = "away" => /\ link[u] = "away" /\ replica'[u] = replica[u]
                                  /\ stream[u] = <<>> => stream'[u] = <<>>
  <2>1. link[s] # "away"
    BY <1>1
  <2> QED
    BY <1>1, <1>4, <2>1, Zenon
<1>14. /\ link' \in [Slaves -> {"away", "up", "hung", "down"}]
       /\ valid' \in [Slaves -> BOOLEAN]
  BY <1>1, <1>2, Zenon
<1> QED
  BY <1>1, <1>7, <1>12, <1>13, <1>14, EndPreserves, Zenon

\* make_repl_socket: the new slave has nothing, and nothing of it is left over.
LEMMA JoinPreserves ==
    ASSUME IInv, NEW s \in Slaves, make_repl_socket(s)
    PROVE  IInv'
<1>1. /\ link[s] = "away" /\ Cardinality(m_slaves) # MaxSlaves
      /\ link' = [link EXCEPT ![s] = "up"] /\ valid' = [valid EXCEPT ![s] = TRUE]
      /\ m_slaves' = m_slaves \cup {s}
      /\ \/ m_new_slaves' = m_new_slaves \cup {s} /\ m_requests' = m_requests
            /\ Workers \subseteq IdleWorkers
         \/ m_requests' = m_requests \cup {NewRequest(s)} /\ m_new_slaves' = m_new_slaves
      /\ late' = IF gc.on \/ IdleWorkers # Workers THEN late \cup {s} ELSE late
      /\ UNCHANGED <<hash, updates, busy, refs, gc, waiting, reactor, stream, replica,
                     copied>>
  <2>1. Complete(NewRequest(s)) => Workers \subseteq IdleWorkers
    BY DEF Complete, NewRequest
  <2> QED
    BY <2>1, Zenon DEF make_repl_socket, lockVars
<1>2. /\ ~valid[s] /\ stream[s] = <<>> /\ replica[s] = NoObjects
      /\ s \notin copied \cup m_new_slaves \cup gc.fresh
      /\ \A q \in m_requests : q.slave # s
  BY <1>1, Zenon DEF IInv, AwayOK
<1>3. /\ link' \in [Slaves -> {"away", "up", "hung", "down"}]
      /\ valid' \in [Slaves -> BOOLEAN]
      /\ \A u \in Slaves \ {s} : link'[u] = link[u] /\ valid'[u] = valid[u]
      /\ link'[s] = "up"
  BY <1>1, Zenon DEF IInv, TypeOK
<1>4. /\ NewRequest(s) \in [slave : Slaves, flags : SUBSET Workers]
      /\ NewRequest(s).slave = s /\ NewRequest(s).flags = IdleWorkers
  BY DEF NewRequest, IdleWorkers
<1>5. TypeOK'
  <2>1. m_slaves' \subseteq Slaves /\ Cardinality(m_slaves') <= MaxSlaves
    <3>1. m_slaves \subseteq Slaves /\ Cardinality(m_slaves) <= MaxSlaves
      BY Zenon DEF IInv, TypeOK
    <3>2. CASE s \in m_slaves
      <4>1. m_slaves' = m_slaves
        BY <1>1, <3>2, Zenon
      <4> QED
        BY <3>1, <4>1, Zenon
    <3>3. CASE s \notin m_slaves
      <4>1. /\ Cardinality(m_slaves') = Cardinality(m_slaves) + 1
            /\ Cardinality(m_slaves) \in Nat
        BY <1>1, <3>1, <3>3, SlavesFinite, Zenon
      <4>2. Cardinality(m_slaves') <= MaxSlaves
        BY <1>1, <3>1, <4>1, ReplicationAssumption
      <4> QED
        BY <1>1, <3>1, <4>2, Zenon
    <3> QED
      BY <3>2, <3>3, Zenon
  <2>2. /\ m_new_slaves' \subseteq Slaves
        /\ m_requests' \subseteq [slave : Slaves, flags : SUBSET Workers]
    <3>1. /\ m_new_slaves \subseteq Slaves
          /\ m_requests \subseteq [slave : Slaves, flags : SUBSET Workers]
      BY Zenon DEF IInv, TypeOK
    <3> QED
      BY <1>1, <1>4, <3>1, Zenon
  <2>3. late' \subseteq Slaves
    BY <1>1 DEF IInv, TypeOK
  <2> QED
    BY <1>1, <1>3, <2>1, <2>2, <2>3, Zenon DEF IInv, TypeOK
<1>6. \A u \in Slaves : Kept(u) /\ Final(u)' = Final(u)
  BY <1>1, UntouchedIsKept, Zenon
<1>7. ReplicaIsComplete' /\ RemovedIsForgotten'
  <2>1. \A u \in Slaves \ {s} :
           /\ Open(u)' => Open(u)
           /\ \A k \in Keys : Passed(u, k)' => Passed(u, k)
           /\ u \notin late' => u \notin late
    BY <1>1, <1>3, Zenon DEF Open, Passed
  <2>2. \A k \in Keys : ~Passed(s, k)' /\ Final(s)'[k] = None
    <3>1. Final(s) = NoObjects
      BY <1>2, ReplayEmpty, Zenon DEF Final
    <3>2. Final(s)' = NoObjects
      BY <1>6, <3>1, Zenon
    <3>3. \A k \in Keys : NoObjects[k] = None
      BY Zenon DEF NoObjects
    <3>4. \A k \in Keys : ~Passed(s, k)'
      BY <1>1, <1>2, Zenon DEF Passed
    <3> QED
      BY <3>2, <3>3, <3>4, Zenon
  <2>3. \A u \in Slaves : Open(u)' =>
              \/ /\ Open(u) /\ Final(u)' = Final(u)
                 /\ \A k \in Keys : Passed(u, k)' => Passed(u, k)
                 /\ u \notin late' => u \notin late
              \/ \A k \in Keys : ~Passed(u, k)' /\ Final(u)'[k] = None
    BY <1>6, <2>1, <2>2, Zenon
  <2> QED
    BY <1>1, <1>5, <2>3, ContentKept, Zenon
<1>8. VersionsOK' /\ StreamsOK'
  BY <1>1, <1>6, OrderKept, Zenon
<1>9. AwayOK'
  <2> SUFFICES ASSUME NEW u \in Slaves, link'[u] = "away"
               PROVE  /\ ~valid'[u] /\ stream[u] = <<>> /\ replica[u] = NoObjects
                      /\ u \notin copied \cup m_new_slaves' \cup gc.fresh
                      /\ \A q \in m_requests' : q.slave # u
    BY <1>1, Zenon DEF AwayOK
  <2>1. u # s
    BY <1>3
  <2>2. /\ ~valid[u] /\ stream[u] = <<>> /\ replica[u] = NoObjects
        /\ u \notin copied \cup m_new_slaves \cup gc.fresh
        /\ \A q \in m_requests : q.slave # u
    BY <1>3, <2>1, Zenon DEF IInv, AwayOK
  <2>3. ~valid'[u]
    BY <1>3, <2>1, <2>2, Zenon
  <2>4. u \notin m_new_slaves' /\ \A q \in m_requests' : q.slave # u
    BY <1>1, <1>4, <2>1, <2>2, Zenon
  <2> QED
    BY <2>2, <2>3, <2>4, Zenon
<1>10. /\ \A u, F : KnownTo(u, F) => KnownTo(u, F)'
       /\ \A F : F \subseteq IdleWorkers => KnownTo(s, F)'
  BY <1>1, Zenon DEF KnownTo, IdleWorkers
<1>11. JoinOK'
  <2>1. \A u \in Slaves : valid'[u] => u \in m_slaves'
    BY <1>1, <1>3, Zenon DEF IInv, JoinOK
  <2>2. \A u \in copied' \cup m_new_slaves' \cup gc'.fresh : valid'[u] => KnownTo(u, Workers)'
    <3> SUFFICES ASSUME NEW u \in copied \cup m_new_slaves' \cup gc.fresh, valid'[u]
                 PROVE  KnownTo(u, Workers)'
      BY <1>1, Zenon
    <3>1. CASE u \in copied \cup m_new_slaves \cup gc.fresh
      <4>1. u # s /\ u \in Slaves
        BY <1>2, <3>1 DEF IInv, TypeOK
      <4>2. valid[u]
        BY <1>3, <4>1, Zenon
      <4> QED
        BY <1>10, <3>1, <4>2, Zenon DEF IInv, JoinOK
    <3>2. CASE u = s /\ Workers \subseteq IdleWorkers
      BY <1>10, <3>2, Zenon
    <3> QED
      BY <1>1, <3>1, <3>2, Zenon
  <2>3. \A q \in m_requests' : valid'[q.slave] => KnownTo(q.slave, q.flags)'
    <3> SUFFICES ASSUME NEW q \in m_requests', valid'[q.slave]
                 PROVE  KnownTo(q.slave, q.flags)'
      BY Zenon
    <3>1. CASE q \in m_requests
      <4>1. q.slave # s /\ q.slave \in Slaves
        BY <1>2, <3>1 DEF IInv, TypeOK
      <4>2. valid[q.slave]
        BY <1>3, <4>1, Zenon
      <4> QED
        BY <1>10, <3>1, <4>2, Zenon DEF IInv, JoinOK
    <3>2. CASE q = NewRequest(s)
      <4>1. q.slave = s /\ q.flags \subseteq IdleWorkers
        BY <1>4, <3>2, Zenon
      <4> QED
        BY <1>10, <4>1, Zenon
    <3> QED
      BY <1>1, <3>1, <3>2, Zenon
  <2> QED
    BY <2>1, <2>2, <2>3, Zenon DEF JoinOK
<1>12. EarlyOK'
  <2> SUFFICES ASSUME NEW u \in Slaves, u \notin late', valid'[u]
               PROVE  KnownTo(u, Workers)' /\ (gc.on => u \in gc.slaves)
    BY <1>1, Zenon DEF EarlyOK
  <2>1. CASE u = s
    <3>1. ~gc.on /\ IdleWorkers = Workers
      BY <1>1, <2>1
    <3> QED
      BY <1>10, <2>1, <3>1, Zenon
  <2>2. CASE u # s
    <3>1. u \notin late /\ valid[u]
      BY <1>1, <1>3, <2>2
    <3> QED
      BY <1>10, <3>1, Zenon DEF IInv, EarlyOK
  <2> QED
    BY <2>1, <2>2, Zenon
<1>13. GCOK'
  BY <1>1, Zenon DEF IInv, GCOK
<1> QED
  BY <1>5, <1>7, <1>8, <1>9, <1>11, <1>12, <1>13, Zenon DEF IInv

\* The GC thread ends: its new slaves have been copied.
LEMMA EndGCPreserves ==
    ASSUME IInv, EndGC
    PROVE  IInv'
<1>1. /\ gc.on /\ gc.todo = {} /\ gc' = NoGC /\ copied' = copied \cup gc.fresh
      /\ UNCHANGED <<hash, updates, busy, refs, m_slaves, m_requests, m_new_slaves,
                     waiting, reactor, valid, stream, link, replica, late>>
  BY Zenon DEF EndGC, listVars, lockVars
<1>2. /\ gc' \in [on : BOOLEAN, todo : SUBSET Keys, slaves : SUBSET Slaves,
                  fresh : SUBSET Slaves]
      /\ gc'.on = FALSE /\ gc'.todo = {} /\ gc'.fresh = {}
  BY <1>1 DEF NoGC
<1>3. TypeOK'
  <2>1. copied' \subseteq Slaves
    BY <1>1 DEF IInv, TypeOK
  <2> QED
    BY <1>1, <1>2, <2>1, Zenon DEF IInv, TypeOK
<1>4. \A s \in Slaves : Kept(s) /\ Final(s)' = Final(s)
  BY <1>1, UntouchedIsKept, Zenon
<1>5. ReplicaIsComplete' /\ RemovedIsForgotten'
  <2>1. \A s \in Slaves : /\ Open(s)' => Open(s)
                          /\ \A k \in Keys : Passed(s, k)' => Passed(s, k)
    BY <1>1, <1>2, Zenon DEF Open, Passed
  <2> QED
    BY <1>1, <1>3, <1>4, <2>1, ContentKept, Zenon
<1>6. VersionsOK' /\ StreamsOK'
  BY <1>1, <1>4, OrderKept, Zenon
<1>7. AwayOK'
  BY <1>1, <1>2, Zenon DEF IInv, AwayOK
<1>8. \A s, F : KnownTo(s, F) => KnownTo(s, F)'
  BY <1>1, Zenon DEF KnownTo
<1>9. JoinOK'
  BY <1>1, <1>2, <1>8, Zenon DEF IInv, JoinOK
<1>10. EarlyOK' /\ GCOK'
  BY <1>1, <1>2, <1>8, Zenon DEF IInv, EarlyOK, GCOK
<1> QED
  BY <1>3, <1>5, <1>6, <1>7, <1>9, <1>10, Zenon DEF IInv

-----------------------------------------------------------------------------
(* Steps that change the objects of the master *)

\* A step in the lock of a bucket that sends c and leaves the lists alone.
LEMMA BucketFrame ==
    ASSUME IInv, NEW S, NEW c \in Command, Send(S, c),
           UNCHANGED <<busy, refs, m_slaves, m_requests, m_new_slaves, valid, link,
                       replica, copied, late>>,
           gc'.on = gc.on, gc'.fresh = gc.fresh, gc'.slaves = gc.slaves,
           gc'.todo \subseteq gc.todo
    PROVE  AwayOK' /\ JoinOK' /\ EarlyOK' /\ GCOK'
<1>1. \A s \in Slaves : ~valid[s] => stream'[s] = stream[s]
  BY SendFacts, Zenon DEF IInv, Open
<1>2. AwayOK'
  BY <1>1, Zenon DEF IInv, AwayOK
<1>3. \A s, F : KnownTo(s, F) => KnownTo(s, F)'
  BY Zenon DEF KnownTo
<1>4. JoinOK'
  BY <1>3, Zenon DEF IInv, JoinOK
<1>5. EarlyOK' /\ GCOK'
  BY <1>3, Zenon DEF IInv, EarlyOK, GCOK
<1> QED
  BY <1>2, <1>4, <1>5, Zenon

\* Command c makes objects o of the states of k that slaves may have.
Brings(c, k, o) ==
    /\ \A h \in Hash : (hash[k] # None => h[k] = hash[k]) /\ o # None
                          => Applied(h, c)[k] = o
    /\ \A h \in Hash : h[k] \in {None, hash[k]} => Applied(h, c)[k] \in {None, o}

\* o is the newest state of k, as of the next moment.
BecomesNewest(k, o) == o # None => Newest(k, o) /\ Older(o, Now')

\* A command c of worker w makes k map to o, the newest state, and brings every
\* slave that has the state of the master to o as well.
LEMMA ApplyPreserves ==
    ASSUME IInv, NEW w \in Workers, NEW k \in Keys, NEW o \in Object \cup {None},
           NEW c \in Command, c.key = k, c.obj = o, Apply(w, k, o, c),
           BecomesNewest(k, o), Brings(c, k, o)
    PROVE  IInv'
<1>1. /\ busy[w] /\ updates < MaxUpdates /\ updates' = updates + 1
      /\ hash' = [hash EXCEPT ![k] = o] /\ Send(refs[w], c)
      /\ waiting' = [waiting EXCEPT ![k] = None]
      /\ UNCHANGED <<busy, refs, m_slaves, m_requests, m_new_slaves, gc, reactor, valid,
                     link, replica, copied, late>>
  BY Zenon DEF Apply, Locks, listVars, history
<1>2. TypeOK
  BY Zenon DEF IInv
<1>3. hash' \in Hash /\ hash'[k] = o /\ \A j \in Keys \ {k} : hash'[j] = hash[j]
  BY <1>1, <1>2, Zenon DEF TypeOK, Hash
<1>4. updates' \in Update /\ updates' >= updates
  BY <1>1, <1>2, ReplicationAssumption DEF TypeOK, Update
<1>5. stream' \in [Slaves -> Seq(Command)] /\ \A s \in Slaves : Len(stream'[s]) <= BufCnt
  BY <1>1, <1>2, SendFacts, Zenon
<1>6. TypeOK'
  <2>1. waiting' \in [Keys -> Workers \cup {GC, None}]
    BY <1>1, <1>2, Zenon DEF TypeOK
  <2> QED
    BY <1>1, <1>2, <1>3, <1>4, <1>5, <2>1, Zenon DEF TypeOK
<1>7. AwayOK' /\ JoinOK' /\ EarlyOK' /\ GCOK'
  BY <1>1, BucketFrame, Zenon
<1>8. VersionsOK' /\ StreamsOK'
  <2>1. VersionsOK /\ StreamsOK
    BY Zenon DEF IInv
  <2>2. c.obj # None =>
           /\ hash'[c.key] = c.obj /\ Newest(c.key, c.obj) /\ Older(c.obj, Now')
    BY <1>3, Zenon DEF BecomesNewest
  <2>3. c.obj = None => hash'[c.key] = None
    BY <1>3, Zenon
  <2> QED
    BY <1>1, <1>2, <1>3, <1>4, <2>1, <2>2, <2>3, SendVersions, Zenon
<1>9. /\ \A s \in Slaves : Final(s) \in Hash
      /\ \A s \in Slaves : /\ s \in refs[w] /\ Open(s) => Final(s)' = Applied(Final(s), c)
                           /\ ~(s \in refs[w] /\ Open(s)) => Final(s)' = Final(s)
      /\ \A s \in Slaves : \A j \in Keys \ {k} : Final(s)'[j] = Final(s)[j]
  BY <1>1, <1>2, FinalAfterSend, Zenon
<1>10. \A s \in Slaves : Open(s)' => Open(s) /\ valid[s]
  BY <1>1, Zenon DEF Open
<1>11. \A s \in Slaves, j \in Keys : Passed(s, j)' => Passed(s, j)
  BY <1>1, Zenon DEF Passed
<1>12. ReplicaIsComplete'
  <2> SUFFICES ASSUME NEW s \in Slaves, NEW j \in Keys, Open(s)', Passed(s, j)',
                      hash'[j] # None
               PROVE  Final(s)'[j] = hash'[j]
    BY <1>6, Zenon DEF ReplicaIsComplete
  <2>1. Open(s) /\ valid[s] /\ Passed(s, j)
    BY <1>10, <1>11, Zenon
  <2>2. hash[j] # None => Final(s)[j] = hash[j]
    BY <2>1, Zenon DEF IInv, ReplicaIsComplete
  <2>3. CASE j # k
    BY <1>3, <1>9, <2>2, <2>3, Zenon
  <2>4. CASE j = k
    <3>1. s \in copied \cup gc.fresh
      BY <2>1, Zenon DEF Passed
    <3>2. s \in refs[w]
      BY <1>1, <2>1, <3>1, Zenon DEF IInv, JoinOK, KnownTo
    <3>3. Final(s)' = Applied(Final(s), c) /\ Final(s) \in Hash
      BY <1>9, <2>1, <3>2, Zenon
    <3>4. o # None
      BY <1>3, <2>4, Zenon
    <3> QED
      BY <1>3, <2>2, <2>4, <3>3, <3>4, Zenon DEF Brings
  <2> QED
    BY <2>3, <2>4, Zenon
<1>13. RemovedIsForgotten'
  <2> SUFFICES ASSUME NEW s \in Slaves \ late, NEW j \in Keys, Open(s)'
               PROVE  Final(s)'[j] \in {None, hash'[j]}
    BY <1>1, Zenon DEF RemovedIsForgotten
  <2>1. Open(s) /\ valid[s] /\ Final(s)[j] \in {None, hash[j]}
    BY <1>10, Zenon DEF IInv, RemovedIsForgotten
  <2>2. CASE j # k
    BY <1>3, <1>9, <2>1, <2>2, Zenon
  <2>3. CASE j = k
    <3>1. s \in refs[w]
      BY <1>1, <2>1, Zenon DEF IInv, EarlyOK, KnownTo
    <3>2. Final(s)' = Applied(Final(s), c) /\ Final(s) \in Hash
      BY <1>9, <2>1, <3>1, Zenon
    <3> QED
      BY <1>3, <2>1, <2>3, <3>2, Zenon DEF Brings
  <2> QED
    BY <2>2, <2>3, Zenon
<1> QED
  BY <1>6, <1>7, <1>8, <1>12, <1>13, Zenon DEF IInv

\* An object is newer than what the slaves have when both its parts are of this
\* update, or one is and the other is that of the master's object.
LEMMA NewIsNewest ==
    ASSUME IInv, NEW k \in Keys, updates < MaxUpdates, updates' = updates + 1
    PROVE  LET whole == [data |-> New, exptime |-> New]
               part  == [hash[k] EXCEPT !.data = New]
               aged  == [hash[k] EXCEPT !.exptime = New]
           IN  /\ whole \in Object /\ Newest(k, whole) /\ Older(whole, Now')
               /\ hash[k] # None =>
                     /\ part \in Object /\ Newest(k, part) /\ Older(part, Now')
                     /\ aged \in Object /\ Newest(k, aged) /\ Older(aged, Now')
<1> DEFINE whole == [data |-> New, exptime |-> New]
           part == [hash[k] EXCEPT !.data = New]
           aged == [hash[k] EXCEPT !.exptime = New]
<1>1. updates \in 0..MaxUpdates /\ New \in Update /\ MaxUpdates \in Nat
  BY ReplicationAssumption DEF IInv, TypeOK, Update, New
<1>2. whole \in Object /\ Older(whole, Now') /\ Older(Now, whole) /\ Now \in Object
  BY <1>1 DEF Object, Older, Now, New, Update
<1>3. hash[k] # None => hash[k] \in Object /\ Older(hash[k], Now)
  BY Zenon DEF IInv, TypeOK, Hash, VersionsOK
<1>4. hash[k] # None =>
         /\ part \in Object /\ Older(part, Now') /\ Older(hash[k], part)
         /\ aged \in Object /\ Older(aged, Now') /\ Older(hash[k], aged)
  BY <1>1, <1>3 DEF Object, Older, Now, New, Update
<1> HIDE DEF whole, part, aged
<1>5. \A o, p \in Object : Newest(k, o) /\ Older(o, p) => Newest(k, p)
  <2> SUFFICES ASSUME NEW o \in Object, NEW p \in Object, Newest(k, o), Older(o, p),
                      NEW s \in Slaves
               PROVE  /\ NoneNewer(stream[s], k, p)
                      /\ replica[s][k] # None => Older(replica[s][k], p)
    BY Zenon DEF Newest
  <2>1. /\ NoneNewer(stream[s], k, o) /\ stream[s] \in Seq(Command)
        /\ replica[s][k] # None => Older(replica[s][k], o) /\ replica[s][k] \in Object
    <3>1. stream[s] \in Seq(Command) /\ replica[s] \in Hash
      BY Zenon DEF IInv, TypeOK
    <3>2. replica[s][k] # None => replica[s][k] \in Object
      BY <3>1, Zenon DEF Hash
    <3> QED
      BY <3>1, <3>2, Zenon DEF Newest
  <2>2. NoneNewer(stream[s], k, p)
    BY <2>1, NoneNewerGrows, Zenon
  <2> QED
    BY <2>1, <2>2, OlderTransitive, Zenon
<1>6. Newest(k, Now) /\ (hash[k] # None => Newest(k, hash[k]))
  BY Zenon DEF IInv, VersionsOK
<1>7. Newest(k, whole)
  BY <1>2, <1>5, <1>6, Zenon
<1>8. hash[k] # None => Newest(k, part) /\ Newest(k, aged)
  BY <1>3, <1>4, <1>5, <1>6, Zenon
<1> QED
  BY <1>2, <1>4, <1>7, <1>8, Zenon DEF whole, part, aged

\* Set, and the commands that keep the expiration time.
LEMMA StorePreserves ==
    ASSUME IInv, NEW w \in Workers, NEW k \in Keys, Store(w, k)
    PROVE  IInv'
<1>1. ASSUME NEW o \in Object, Newest(k, o), Older(o, Now'), Apply(w, k, o, SetQ(k, o))
      PROVE  IInv'
  <2> DEFINE c == SetQ(k, o)
  <2>1. c \in Command /\ c.key = k /\ c.obj = o /\ c.op = "SetQ" /\ Apply(w, k, o, c)
    BY <1>1 DEF SetQ, Command
  <2> HIDE DEF c
  <2>2. \A h \in Hash : Applied(h, c)[k] = o
    <3>1. \A h \in Hash : Applied(h, c)[c.key] = c.obj
      BY <2>1, AppliedType, Zenon
    <3> QED
      BY <2>1, <3>1, Zenon
  <2>3. Brings(c, k, o)
    BY <2>2, Zenon DEF Brings
  <2>5. o \in Object \cup {None}
    BY Zenon
  <2>6. BecomesNewest(k, o)
    BY <1>1, Zenon DEF BecomesNewest
  <2> QED
    BY <2>1, <2>3, <2>5, <2>6, ApplyPreserves, Zenon
<1>2. updates < MaxUpdates /\ updates' = updates + 1
  BY Zenon DEF Store, Apply
<1> DEFINE whole == [data |-> New, exptime |-> New]
           part == [hash[k] EXCEPT !.data = New]
<1>3. \/ Apply(w, k, whole, SetQ(k, whole))
      \/ hash[k] # None /\ Apply(w, k, part, SetQ(k, part))
  BY Zenon DEF Store
<1>4. /\ whole \in Object /\ Newest(k, whole) /\ Older(whole, Now')
      /\ hash[k] # None => part \in Object /\ Newest(k, part) /\ Older(part, Now')
  BY <1>2, NewIsNewest, Zenon
<1> HIDE DEF whole, part
<1> QED
  BY <1>1, <1>3, <1>4, Zenon

\* Touch brings the slaves to the new expiration time if they have the object.
LEMMA TouchPreserves ==
    ASSUME IInv, NEW w \in Workers, NEW k \in Keys, Touch(w, k)
    PROVE  IInv'
<1> DEFINE o == [hash[k] EXCEPT !.exptime = New]
           c == TouchOf(k, o)
<1>1. hash[k] # None /\ Apply(w, k, o, c)
  BY Zenon DEF Touch
<1>2. updates < MaxUpdates /\ updates' = updates + 1
  BY <1>1, Zenon DEF Apply
<1>3. o \in Object /\ Newest(k, o) /\ Older(o, Now')
  BY <1>1, <1>2, NewIsNewest, Zenon
<1>4. hash[k] \in Object
  BY <1>1, Zenon DEF IInv, TypeOK, Hash
<1>5. o.exptime = New
  BY <1>4 DEF Object
<1>6. \A x : x = hash[k] => [x EXCEPT !.exptime = o.exptime] = o
  BY <1>5, Zenon
<1> HIDE DEF o
<1>7. c \in Command /\ c.key = k /\ c.obj = o /\ c.op = "Touch"
  BY <1>3 DEF TouchOf, Command
<1> HIDE DEF c
<1>8. \A h \in Hash :
         /\ h[k] = None => Applied(h, c)[k] = None
         /\ h[k] # None => Applied(h, c)[k] = [h[k] EXCEPT !.exptime = o.exptime]
  BY <1>7, AppliedType, Zenon
<1>9. \A h \in Hash : h[k] = hash[k] => Applied(h, c)[k] = o
  BY <1>1, <1>6, <1>8, Zenon
<1>10. \A h \in Hash : h[k] \in {None, hash[k]} => Applied(h, c)[k] \in {None, o}
  BY <1>8, <1>9, Zenon
<1>11. Brings(c, k, o)
  BY <1>1, <1>9, <1>10, Zenon DEF Brings
<1>12. o \in Object \cup {None}
  BY <1>3, Zenon
<1>13. BecomesNewest(k, o)
  BY <1>3, Zenon DEF BecomesNewest
<1>14. Apply(w, k, o, c)
  BY <1>1, Zenon
<1> QED
  BY <1>7, <1>11, <1>12, <1>13, <1>14, ApplyPreserves, Zenon

\* Delete.
LEMMA DeletePreserves ==
    ASSUME IInv, NEW w \in Workers, NEW k \in Keys, Delete(w, k)
    PROVE  IInv'
<1> DEFINE c == DeleteQ(k)
           o == None
<1>1. /\ c \in Command /\ c.key = k /\ c.obj = o /\ c.op = "DeleteQ"
      /\ Apply(w, k, o, c)
  BY DEF Delete, DeleteQ, Command
<1>2. o \in Object \cup {None} /\ o = None
  BY Zenon
<1> HIDE DEF c, o
<1>3. \A h \in Hash : Applied(h, c)[k] = None
  <2>1. \A h \in Hash : Applied(h, c)[c.key] = None
    BY <1>1, AppliedType, Zenon
  <2> QED
    BY <1>1, <2>1, Zenon
<1>4. Brings(c, k, o)
  BY <1>2, <1>3, Zenon DEF Brings
<1>5. BecomesNewest(k, o)
  BY <1>2, Zenon DEF BecomesNewest
<1> QED
  BY <1>1, <1>2, <1>4, <1>5, ApplyPreserves, Zenon

\* The GC thread scans a bucket: an object that is removed is removed from all
\* slaves the thread knows, one that survives is sent to the new ones.
LEMMA GCPreserves ==
    ASSUME IInv, NEW k \in Keys, gc_bucket(k)
    PROVE  IInv'
<1>1. /\ k \in gc.todo /\ waiting' = [waiting EXCEPT ![k] = None]
      /\ gc' = [gc EXCEPT !.todo = @ \ {k}]
      /\ UNCHANGED <<updates, busy, refs, m_slaves, m_requests, m_new_slaves, reactor,
                     valid, link, replica, copied, late>>
  BY Zenon DEF gc_bucket, Locks, listVars, history
<1>2. RemoveObject(k) \/ Survive(k) \/ (hash[k] = None /\ UNCHANGED <<hash, stream>>)
  BY Zenon DEF gc_bucket
<1>3. TypeOK
  BY Zenon DEF IInv
<1>4. /\ gc' \in [on : BOOLEAN, todo : SUBSET Keys, slaves : SUBSET Slaves,
                  fresh : SUBSET Slaves]
      /\ gc'.on = gc.on /\ gc'.fresh = gc.fresh /\ gc'.slaves = gc.slaves
      /\ gc'.todo = gc.todo \ {k}
  <2>1. gc \in [on : BOOLEAN, todo : SUBSET Keys, slaves : SUBSET Slaves,
                fresh : SUBSET Slaves]
    BY <1>3, Zenon DEF TypeOK
  <2> QED
    BY <1>1, <2>1
<1>5. waiting' \in [Keys -> Workers \cup {GC, None}]
  BY <1>1, <1>3, Zenon DEF TypeOK
<1>6. /\ gc.on /\ gc'.todo \subseteq gc.todo
      /\ updates' \in Update /\ updates' >= updates
  <2>1. gc.on
    BY <1>1, Zenon DEF IInv, GCOK
  <2>2. updates \in Update
    BY <1>3, Zenon DEF TypeOK
  <2> QED
    BY <1>1, <1>4, <2>1, <2>2 DEF Update
<1>7. \A s \in Slaves : Open(s)' => Open(s) /\ valid[s]
  BY <1>1, Zenon DEF Open
<1>8. \A s \in Slaves, j \in Keys \ {k} : Passed(s, j)' => Passed(s, j)
  BY <1>1, <1>4, Zenon DEF Passed
<1>9. CASE RemoveObject(k)
  <2> DEFINE c == DeleteQ(k)
  <2>1. /\ hash' = [hash EXCEPT ![k] = None] /\ Send(gc.slaves, c)
        /\ c \in Command /\ c.key = k /\ c.obj = None /\ c.op = "DeleteQ"
    BY <1>9 DEF RemoveObject, DeleteQ, Command
  <2> HIDE DEF c
  <2>2. hash' \in Hash /\ hash'[k] = None /\ \A j \in Keys \ {k} : hash'[j] = hash[j]
    BY <1>3, <2>1, Zenon DEF TypeOK, Hash
  <2>3. TypeOK'
    <3>1. stream' \in [Slaves -> Seq(Command)] /\ \A s \in Slaves : Len(stream'[s]) <= BufCnt
      BY <1>3, <2>1, SendFacts, Zenon
    <3> QED
      BY <1>1, <1>3, <1>4, <1>5, <1>6, <2>2, <3>1, Zenon DEF TypeOK
  <2>4. AwayOK' /\ JoinOK' /\ EarlyOK' /\ GCOK'
    BY <1>1, <1>4, <1>6, <2>1, BucketFrame, Zenon
  <2>5. VersionsOK' /\ StreamsOK'
    <3>1. VersionsOK /\ StreamsOK
      BY Zenon DEF IInv
    <3>2. c.obj # None =>
             /\ hash'[c.key] = c.obj /\ Newest(c.key, c.obj) /\ Older(c.obj, Now')
      BY <2>1, Zenon
    <3>3. c.obj = None => hash'[c.key] = None
      BY <2>1, <2>2, Zenon
    <3> QED
      BY <1>1, <1>3, <1>6, <2>1, <2>2, <3>1, <3>2, <3>3, SendVersions, Zenon
  <2>6. /\ \A s \in Slaves : Final(s) \in Hash
        /\ \A s \in Slaves : s \in gc.slaves /\ Open(s) => Final(s)' = Applied(Final(s), c)
        /\ \A s \in Slaves : \A j \in Keys \ {k} : Final(s)'[j] = Final(s)[j]
    BY <1>1, <1>3, <2>1, FinalAfterSend, Zenon
  <2>7. ReplicaIsComplete'
    <3> SUFFICES ASSUME NEW s \in Slaves, NEW j \in Keys, Open(s)', Passed(s, j)',
                        hash'[j] # None
                 PROVE  Final(s)'[j] = hash'[j]
      BY <2>3, Zenon DEF ReplicaIsComplete
    <3>1. j # k
      BY <2>2, Zenon
    <3>2. Open(s) /\ Passed(s, j) /\ hash[j] # None
      BY <1>7, <1>8, <2>2, <3>1, Zenon
    <3> QED
      BY <2>2, <2>6, <3>1, <3>2, Zenon DEF IInv, ReplicaIsComplete
  <2>8. RemovedIsForgotten'
    <3> SUFFICES ASSUME NEW s \in Slaves \ late, NEW j \in Keys, Open(s)'
                 PROVE  Final(s)'[j] \in {None, hash'[j]}
      BY <1>1, Zenon DEF RemovedIsForgotten
    <3>1. Open(s) /\ valid[s] /\ Final(s)[j] \in {None, hash[j]}
      BY <1>7, Zenon DEF IInv, RemovedIsForgotten
    <3>2. CASE j # k
      BY <2>2, <2>6, <3>1, <3>2, Zenon
    <3>3. CASE j = k
      <4>1. s \in gc.slaves
        BY <1>6, <3>1, Zenon DEF IInv, EarlyOK
      <4>2. Final(s)' = Applied(Final(s), c) /\ Final(s) \in Hash
        BY <2>6, <3>1, <4>1, Zenon
      <4>3. Applied(Final(s), c)[c.key] = None
        BY <2>1, <4>2, AppliedType, Zenon
      <4> QED
        BY <2>1, <3>3, <4>2, <4>3, Zenon
    <3> QED
      BY <3>2, <3>3, Zenon
  <2> QED
    BY <2>3, <2>4, <2>5, <2>7, <2>8, Zenon DEF IInv
<1>10. CASE Survive(k)
  <2> DEFINE c == SetQ(k, hash[k])
  <2>1. hash[k] # None /\ hash' = hash /\ Send(gc.fresh, c)
    BY <1>10, Zenon DEF Survive
  <2>2. hash[k] \in Object
    BY <1>3, <2>1, Zenon DEF TypeOK, Hash
  <2>3. c \in Command /\ c.key = k /\ c.obj = hash[k] /\ c.op = "SetQ"
    BY <2>2 DEF SetQ, Command
  <2> HIDE DEF c
  <2>4. TypeOK'
    <3>1. stream' \in [Slaves -> Seq(Command)] /\ \A s \in Slaves : Len(stream'[s]) <= BufCnt
      BY <1>3, <2>1, <2>3, SendFacts, Zenon
    <3> QED
      BY <1>1, <1>3, <1>4, <1>5, <2>1, <3>1, Zenon DEF TypeOK
  <2>5. AwayOK' /\ JoinOK' /\ EarlyOK' /\ GCOK'
    BY <1>1, <1>4, <1>6, <2>1, <2>3, BucketFrame, Zenon
  <2>6. VersionsOK' /\ StreamsOK'
    <3>1. VersionsOK /\ StreamsOK /\ Now' = Now
      BY <1>1, Zenon DEF IInv, Now
    <3>2. c.obj # None =>
             /\ hash'[c.key] = c.obj /\ Newest(c.key, c.obj) /\ Older(c.obj, Now')
      BY <2>1, <2>3, <3>1, Zenon DEF VersionsOK
    <3>3. /\ c.obj = None => hash'[c.key] = None
          /\ \A j \in Keys \ {c.key} : hash'[j] = hash[j]
      BY <2>1, <2>3, Zenon
    <3> QED
      BY <1>1, <1>3, <1>6, <2>1, <2>3, <3>1, <3>2, <3>3, SendVersions, Zenon
  <2>7. /\ \A s \in Slaves : Final(s) \in Hash
        /\ \A s \in Slaves :
              /\ s \in gc.fresh /\ Open(s) => Final(s)' = Applied(Final(s), c)
              /\ ~(s \in gc.fresh /\ Open(s)) => Final(s)' = Final(s)
        /\ \A s \in Slaves : \A j \in Keys \ {k} : Final(s)'[j] = Final(s)[j]
    BY <1>1, <1>3, <2>1, <2>3, FinalAfterSend, Zenon
  <2>8. \A s \in Slaves : s \in gc.fresh /\ Open(s) => Final(s)'[k] = hash[k]
    <3>1. \A s \in Slaves : Applied(Final(s), c)[c.key] = c.obj
      BY <2>3, <2>7, AppliedType, Zenon
    <3> QED
      BY <2>3, <2>7, <3>1, Zenon
  <2>9. ReplicaIsComplete'
    <3> SUFFICES ASSUME NEW s \in Slaves, NEW j \in Keys, Open(s)', Passed(s, j)',
                        hash[j] # None
                 PROVE  Final(s)'[j] = hash[j]
      BY <2>1, <2>4, Zenon DEF ReplicaIsComplete
    <3>1. Open(s)
      BY <1>7, Zenon
    <3>2. CASE j # k
      <4>1. Passed(s, j)
        BY <1>8, <3>2, Zenon
      <4> QED
        BY <2>7, <3>1, <3>2, <4>1, Zenon DEF IInv, ReplicaIsComplete
    <3>3. CASE j = k /\ s \in gc.fresh
      BY <2>8, <3>1, <3>3, Zenon
    <3>4. CASE j = k /\ s \notin gc.fresh
      <4>1. Passed(s, j)
        BY <1>1, <1>4, <3>4, Zenon DEF Passed
      <4> QED
        BY <2>7, <3>1, <3>4, <4>1, Zenon DEF IInv, ReplicaIsComplete
    <3> QED
      BY <3>2, <3>3, <3>4, Zenon
  <2>10. RemovedIsForgotten'
    <3> SUFFICES ASSUME NEW s \in Slaves \ late, NEW j \in Keys, Open(s)'
                 PROVE  Final(s)'[j] \in {None, hash[j]}
      BY <1>1, <2>1, Zenon DEF RemovedIsForgotten
    <3>1. Open(s) /\ Final(s)[j] \in {None, hash[j]}
      BY <1>7, Zenon DEF IInv, RemovedIsForgotten
    <3>2. CASE j # k
      BY <2>7, <3>1, <3>2, Zenon
    <3>3. CASE j = k /\ s \in gc.fresh
      BY <2>8, <3>1, <3>3, Zenon
    <3>4. CASE s \notin gc.fresh
      BY <2>7, <3>1, <3>4, Zenon
    <3> QED
      BY <3>2, <3>3, <3>4, Zenon
  <2> QED
    BY <2>4, <2>5, <2>6, <2>9, <2>10, Zenon DEF IInv
<1>11. CASE hash[k] = None /\ UNCHANGED <<hash, stream>>
  <2>1. \A s \in Slaves : Kept(s) /\ Final(s)' = Final(s)
    BY <1>1, <1>11, UntouchedIsKept, Zenon
  <2>2. TypeOK'
    BY <1>1, <1>3, <1>4, <1>5, <1>11, Zenon DEF TypeOK
  <2>3. ReplicaIsComplete' /\ RemovedIsForgotten'
    <3>1. \A s \in Slaves, j \in Keys :
             Open(s)' /\ Passed(s, j)' /\ hash'[j] # None => Final(s)'[j] = hash'[j]
      BY <1>7, <1>8, <1>11, <2>1, Zenon DEF IInv, ReplicaIsComplete
    <3>2. \A s \in Slaves \ late', j \in Keys :
             Open(s)' => Final(s)'[j] \in {None, hash'[j]}
      BY <1>1, <1>7, <1>11, <2>1, Zenon DEF IInv, RemovedIsForgotten
    <3> QED
      BY <2>2, <3>1, <3>2, Zenon DEF ReplicaIsComplete, RemovedIsForgotten
  <2>4. VersionsOK' /\ StreamsOK'
    BY <1>1, <1>11, <2>1, OrderKept, Zenon
  <2>5. AwayOK'
    BY <1>1, <1>4, <1>11, Zenon DEF IInv, AwayOK
  <2>6. \A s, F : KnownTo(s, F) => KnownTo(s, F)'
    BY <1>1, Zenon DEF KnownTo
  <2>7. JoinOK'
    BY <1>1, <1>4, <2>6, Zenon DEF IInv, JoinOK
  <2>8. EarlyOK' /\ GCOK'
    BY <1>1, <1>4, <1>6, <2>6, Zenon DEF IInv, EarlyOK, GCOK
  <2> QED
    BY <2>2, <2>3, <2>4, <2>5, <2>7, <2>8, Zenon DEF IInv
<1> QED
  BY <1>2, <1>9, <1>10, <1>11, Zenon

-----------------------------------------------------------------------------
\* The invariant is inductive.
LEMMA IInvIsInductive ==
    ASSUME IInv, [Next]_vars PROVE IInv'
<1>1. ASSUME NEW w \in Workers,
             \/ post_job(w) \/ EndJob(w)
             \/ \E k \in Keys : Store(w, k) \/ Touch(w, k) \/ Delete(w, k) \/ WaitInJob(w, k)
      PROVE  IInv'
  BY <1>1, PostPreserves, StorePreserves, TouchPreserves, DeletePreserves,
     WaitingPreserves, Zenon
<1>2. ASSUME NEW s \in Slaves,
             \/ make_repl_socket(s) \/ Disconnect(s)
             \/ repl_recv(s) \/ on_slave_end(s) \/ Hang(s)
      PROVE  IInv'
  BY <1>2, JoinPreserves, DisconnectPreserves, RecvPreserves, LeavePreserves, Zenon
<1>3. CASE UNCHANGED vars
  <2>1. UNCHANGED <<hash, updates, busy, refs, m_slaves, m_requests, m_new_slaves, gc,
                    waiting, reactor, valid, stream, link, replica, copied, late>>
    BY <1>3, Zenon DEF vars
  <2> QED
    BY <2>1, WaitPreserves, Zenon DEF IInv, TypeOK
<1> QED
  BY <1>1, <1>2, <1>3, CheckPreserves, IntervalPreserves, GCPreserves,
     WaitingPreserves, EndGCPreserves, Zenon DEF Next

\* A new master has no slave.
LEMMA InitIInv == Init => IInv
<1> SUFFICES ASSUME Init PROVE IInv
  BY Zenon
<1>1. /\ \A s \in Slaves : /\ ~valid[s] /\ stream[s] = <<>> /\ replica[s] = NoObjects
                           /\ Len(<<>>) = 0
      /\ 1..Len(<<>>) = {}
  <2>1. Len(<<>>) = 0 /\ 1..Len(<<>>) = {}
    OBVIOUS
  <2> QED
    BY <2>1, Zenon DEF Init
<1>2. TypeOK
  <2>1. hash \in Hash
    <3>1. [data |-> 0, exptime |-> 0] \in Object
      BY ReplicationAssumption DEF Object, Update
    <3> QED
      BY <3>1, Zenon DEF Init, Hash
  <2>2. updates \in Update /\ Cardinality(m_slaves) <= MaxSlaves
    BY FS_EmptySet, ReplicationAssumption DEF Init, Update
  <2>3. gc \in [on : BOOLEAN, todo : SUBSET Keys, slaves : SUBSET Slaves,
                fresh : SUBSET Slaves]
    BY DEF Init, NoGC
  <2>4. stream \in [Slaves -> Seq(Command)] /\ replica \in [Slaves -> Hash]
    <3>1. <<>> \in Seq(Command) /\ NoObjects \in Hash
      BY DEF NoObjects, Hash
    <3> QED
      BY <3>1, Zenon DEF Init
  <2>5. \A s \in Slaves : Len(stream[s]) <= BufCnt
    BY <1>1, ReplicationAssumption
  <2> QED
    BY <2>1, <2>2, <2>3, <2>4, <2>5, Zenon DEF Init, TypeOK
<1>3. AwayOK
  <2>1. gc.fresh = {}
    BY DEF Init, NoGC
  <2> QED
    BY <1>1, <2>1, Zenon DEF Init, AwayOK
<1>4. JoinOK /\ EarlyOK
  <2>1. gc.fresh = {}
    BY DEF Init, NoGC
  <2> QED
    BY <1>1, <2>1, Zenon DEF Init, JoinOK, EarlyOK
<1>5. GCOK
  BY DEF Init, NoGC, GCOK
<1>6. ReplicaIsComplete /\ RemovedIsForgotten
  BY <1>1, <1>2, Zenon DEF ReplicaIsComplete, RemovedIsForgotten, Open
<1>7. \A s \in Slaves, k \in Keys : replica[s][k] = None
  BY <1>1, Zenon DEF NoObjects
<1>8. \A k \in Keys : \A o : Newest(k, o)
  BY <1>1, <1>7, Zenon DEF Newest, NoneNewer
<1>9. VersionsOK
  <2>1. \A k \in Keys : hash[k] # None => Older(hash[k], Now)
    BY DEF Init, Older, Now
  <2> QED
    BY <1>8, <2>1, Zenon DEF VersionsOK
<1>10. StreamsOK
  BY <1>1, Zenon DEF StreamsOK, Ordered
<1> QED
  BY <1>2, <1>3, <1>4, <1>5, <1>6, <1>9, <1>10, Zenon DEF IInv

\* The invariant holds throughout.
THEOREM Invariance == Spec => []IInv
BY InitIInv, IInvIsInductive, PTL DEF Spec

\* Every object of the master that the initial copy has passed is on the slave,
\* with the same data and expiration time, as soon as the slave has applied its
\* stream: for any number of keys, slaves, workers and updates.
THEOREM ReplicaIsCompleteHolds == Spec => []ReplicaIsComplete
<1>1. IInv => ReplicaIsComplete
  BY Zenon DEF IInv
<1> QED
  BY <1>1, Invariance, PTL

\* A slave that joined an idle master never keeps what the master has removed.
THEOREM RemovedIsForgottenHolds == Spec => []RemovedIsForgotten
<1>1. IInv => RemovedIsForgotten
  BY Zenon DEF IInv
<1> QED
  BY <1>1, Invariance, PTL

\* A slave never goes back to an older state of an object.
THEOREM NeverBackwardsHolds == Spec => NeverBackwards
<1> DEFINE Forward == \A s \in Slaves, k \in Keys :
                         replica[s][k] # None /\ replica'[s][k] # None
                         => /\ replica'[s][k].data >= replica[s][k].data
                            /\ replica'[s][k].exptime >= replica[s][k].exptime
<1>1. ASSUME IInv, [Next]_vars PROVE [Forward]_vars
  <2>1. ASSUME NEW s \in Slaves, NEW k \in Keys, replica'[s][k] # None,
               replica[s][k] # None
        PROVE  Older(replica[s][k], replica'[s][k]) /\ replica[s][k] \in Object
               /\ replica'[s][k] \in Object
    <3>1. IInv'
      BY <1>1, IInvIsInductive
    <3>2. replica[s][k] \in Object /\ replica'[s][k] \in Object
      <4>1. replica[s] \in Hash /\ replica'[s] \in Hash
        BY <1>1, <3>1, Zenon DEF IInv, TypeOK
      <4> QED
        BY <2>1, <4>1, Zenon DEF Hash
    <3>3. CASE replica'[s][k] = replica[s][k]
      BY <3>2, <3>3 DEF Older, Object, Update
    <3>4. CASE repl_recv(s)
      <4> DEFINE h == replica[s]
                 q == stream[s]
                 c == Head(q)
      <4>1. h \in Hash /\ q \in Seq(Command) /\ q # <<>> /\ Ordered(h, q)
        BY <1>1, <3>4, Zenon DEF repl_recv, IInv, TypeOK, StreamsOK
      <4>2. replica'[s] = Applied(h, c)
        BY <1>1, <3>4, Zenon DEF repl_recv, IInv, TypeOK
      <4> HIDE DEF h, q
      <4>3. c \in Command /\ c = q[1] /\ 1 \in 1..Len(q)
        <5>1. c = q[1] /\ Len(q) \in Nat /\ Len(q) # 0
          BY <4>1, HeadTailFacts, LenFacts
        <5>2. 1 \in 1..Len(q)
          BY <5>1
        <5> QED
          BY <4>1, <5>1, <5>2, StreamParts, Zenon
      <4> HIDE DEF c
      <4>4. h[c.key] # None /\ c.obj # None => Older(h[c.key], c.obj)
        BY <4>1, <4>3, Zenon DEF Ordered
      <4>5. /\ c.op \in {"SetQ", "Touch", "DeleteQ"}
            /\ c.op \in {"SetQ", "Touch"} => c.obj \in Object /\ c.obj # None
        BY <4>3, NoneAssumption DEF Command
      <4>6. /\ Applied(h, c)[k] = h[k] \/ c.key = k
            /\ c.op = "SetQ" => Applied(h, c)[c.key] = c.obj
            /\ c.op = "DeleteQ" => Applied(h, c)[c.key] = None
            /\ c.op = "Touch" /\ h[c.key] # None =>
                  Applied(h, c)[c.key] = [h[c.key] EXCEPT !.exptime = c.obj.exptime]
        BY <4>1, <4>3, AppliedType, Zenon
      <4>7. h[k] # None /\ Applied(h, c)[k] # None /\ h[k] \in Object
        BY <2>1, <3>2, <4>2, Zenon DEF h
      <4>8. CASE c.key = k /\ c.op = "SetQ"
        <5>1. Applied(h, c)[k] = c.obj /\ Older(h[k], c.obj)
          BY <4>4, <4>5, <4>6, <4>7, <4>8
        <5> QED
          BY <3>2, <4>2, <5>1, Zenon DEF h
      <4>9. CASE c.key = k /\ c.op = "Touch"
        <5>1. /\ Applied(h, c)[k] = [h[k] EXCEPT !.exptime = c.obj.exptime]
              /\ Older(h[k], c.obj) /\ c.obj \in Object
          BY <4>4, <4>5, <4>6, <4>7, <4>9
        <5>2. Older(h[k], Applied(h, c)[k])
          BY <4>7, <5>1 DEF Older, Object, Update
        <5> QED
          BY <3>2, <4>2, <5>2, Zenon DEF h
      <4>10. CASE Applied(h, c)[k] = h[k]
        BY <3>3, <4>2, <4>10, Zenon DEF h
      <4>11. ~(c.key = k /\ c.op = "DeleteQ")
        BY <4>6, <4>7, Zenon
      <4> QED
        BY <4>5, <4>6, <4>8, <4>9, <4>10, <4>11
    <3>5. \/ replica' = replica
          \/ \E u \in Slaves : repl_recv(u) \/ on_slave_end(u)
      BY <1>1, Zenon DEF Next, post_job, EndJob, Store, Touch, Delete, Apply, WaitInJob,
         Wait, make_repl_socket, Disconnect, Hang, check, on_master_interval, gc_bucket,
         WaitInGC, BlockReactor, UnblockReactor, EndGC, vars
    <3>6. ASSUME NEW u \in Slaves, on_slave_end(u)
          PROVE  replica'[s][k] = replica[s][k]
      <4>1. replica' = [replica EXCEPT ![u] = NoObjects] /\ NoObjects[k] = None
        BY <3>6, Zenon DEF on_slave_end, NoObjects
      <4>2. u # s
        BY <1>1, <2>1, <4>1, Zenon DEF IInv, TypeOK
      <4> QED
        BY <1>1, <4>1, <4>2, Zenon DEF IInv, TypeOK
    <3>7. ASSUME NEW u \in Slaves, u # s, repl_recv(u)
          PROVE  replica'[s][k] = replica[s][k]
      BY <1>1, <3>7, Zenon DEF repl_recv, IInv, TypeOK
    <3> QED
      BY <3>3, <3>4, <3>5, <3>6, <3>7, <3>2, Zenon
  <2>2. Forward
    <3> SUFFICES ASSUME NEW s \in Slaves, NEW k \in Keys,
                        replica[s][k] # None, replica'[s][k] # None
                 PROVE  /\ replica'[s][k].data >= replica[s][k].data
                        /\ replica'[s][k].exptime >= replica[s][k].exptime
      BY Zenon
    <3>1. /\ Older(replica[s][k], replica'[s][k])
          /\ replica[s][k] \in Object /\ replica'[s][k] \in Object
      BY <2>1, Zenon
    <3> QED
      BY <3>1, ReplicationAssumption DEF Older, Object, Update
  <2> QED
    BY <2>2, Zenon
<1> QED
  BY <1>1, Invariance, PTL DEF Spec, NeverBackwards
=============================================================================
