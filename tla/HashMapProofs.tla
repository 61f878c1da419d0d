----------------------------- MODULE HashMapProofs -----------------------------
(***************************************************************************)
(* Proofs, for any keys, threads, addresses, data and number of buckets:   *)
(* the chains are sound while threads walk and change them, scans that     *)
(* give up the lock between buckets meet every object once, data are where *)
(* their size says, and the whole behaves as a map from keys to data.      *)
(*                                                                         *)
(* First come facts on the data of objects and on chains of items: what    *)
(* the operations on objects store and where, and what becomes of a chain, *)
(* and of the walks along it, when an item is inserted or unlinked.        *)
(***************************************************************************)
EXTENDS HashMap, TLAPS

(***************************************************************************)
(* The data of objects.                                                    *)
(***************************************************************************)

\* A sequence of whatever.
IsSeq(s) == s \in Seq({s[i] : i \in DOMAIN s})

IsBuffer(b) ==
    b = [bytes |-> b.bytes, cap |-> b.cap, dflt |-> b.dflt] /\ IsSeq(b.bytes)

\* Data in a buffer, and data in a file.
InBuffer(o, d) ==
    /\ o = [length |-> Len(d), data |-> o.data, file |-> o.file] /\ Len(d) <= heap_data_limit
    /\ IsBuffer(o.data) /\ o.data.bytes = d
    /\ o.file = NoFile

InFile(o, d) ==
    /\ o = [length |-> Len(d), data |-> o.data, file |-> NewFile(d)] /\ Len(d) > heap_data_limit
    /\ IsBuffer(o.data) /\ o.data.bytes = <<>>

\* The data of an object are where their size says.
Stored(o) == IsSeq(contents(o)) /\ (InBuffer(o, contents(o)) \/ InFile(o, contents(o)))

\* A sequence of members of any set is a sequence.
LEMMA SequenceIsSeq == ASSUME NEW S, NEW s \in Seq(S) PROVE IsSeq(s)
<1>1. \A i \in DOMAIN s : s[i] \in {s[j] : j \in DOMAIN s}  OBVIOUS
<1>2. Len(s) \in Nat /\ DOMAIN s = 1..Len(s) /\ s = [i \in 1..Len(s) |-> s[i]]  OBVIOUS
<1>3. s \in [1..Len(s) -> {s[j] : j \in DOMAIN s}]  BY <1>1, <1>2
<1> QED  BY <1>2, <1>3 DEF IsSeq

\* What the operators on sequences do, for sequences of whatever.
LEMMA SequenceFacts ==
    ASSUME NEW s, NEW r, IsSeq(s), IsSeq(r)
    PROVE  /\ IsSeq(s \o r) /\ Len(s \o r) = Len(s) + Len(r)
           /\ Len(s) \in Nat /\ SubSeq(s, 1, Len(s)) = s
           /\ <<>> \o s = s /\ s \o <<>> = s
           /\ Len(s) = 0 => s = <<>>
<1> DEFINE S == {s[i] : i \in DOMAIN s} \cup {r[i] : i \in DOMAIN r}
<1>1. s \in Seq(S) /\ r \in Seq(S)
  <2>1. s \in Seq({s[i] : i \in DOMAIN s}) /\ r \in Seq({r[i] : i \in DOMAIN r})  BY DEF IsSeq
  <2> DEFINE A == {s[i] : i \in DOMAIN s}
             B == {r[i] : i \in DOMAIN r}
  <2> HIDE DEF A, B
  <2>2. s \in Seq(A) /\ r \in Seq(B)  BY <2>1 DEF A, B
  <2>3. s \in Seq(A \cup B) /\ r \in Seq(A \cup B)  BY <2>2
  <2> QED  BY <2>3 DEF A, B
<1> HIDE DEF S
<1>2. IsSeq(s \o r)
  <2>1. s \o r \in Seq(S)  BY <1>1
  <2> QED  BY <2>1, SequenceIsSeq, Zenon
<1>3. Len(s \o r) = Len(s) + Len(r) /\ Len(s) \in Nat  BY <1>1
<1>4. SubSeq(s, 1, Len(s)) = s  BY <1>1
<1>5. <<>> \o s = s /\ s \o <<>> = s  BY <1>1
<1>6. Len(s) = 0 => s = <<>>  BY <1>1
<1> QED  BY <1>2, <1>3, <1>4, <1>5, <1>6

\* The empty sequence is one.
LEMMA EmptyIsSeq == IsSeq(<<>>) /\ Len(<<>>) = 0
<1>1. <<>> \in Seq({})  OBVIOUS
<1>2. IsSeq(<<>>)  BY <1>1, SequenceIsSeq, Zenon
<1> QED  BY <1>2

\* An object of either kind is stored as its size says.
LEMMA StoredFacts ==
    ASSUME NEW o, NEW d, IsSeq(d), InBuffer(o, d) \/ InFile(o, d)
    PROVE  /\ Stored(o) /\ contents(o) = d
           /\ o.length = object_size(o)
           /\ o.file.open = (o.length > heap_data_limit)
           /\ o.file.open => o.data.bytes = <<>>
<1> USE DEF Stored
<1>1. Len(d) \in Nat /\ IsSeq(<<>>) /\ Len(<<>>) = 0  BY SequenceFacts, EmptyIsSeq, Zenon
<1>2. CASE InBuffer(o, d)
  <2>1. o.file = [open |-> FALSE, bytes |-> <<>>]  BY <1>2 DEF InBuffer, NoFile
  <2>2. object_size(o) = Len(d) /\ contents(o) = d
    BY <1>2, <2>1 DEF InBuffer, object_size, contents, size
  <2>3. /\ o = [length |-> o.length, data |-> o.data, file |-> o.file]
        /\ o.length = Len(d) /\ ~ (Len(d) > heap_data_limit)
    BY <1>1, <1>2, StorageAssumption DEF InBuffer
  <2>4. /\ o.file = [open |-> o.file.open, bytes |-> o.file.bytes]
        /\ o.file.open = FALSE /\ o.file.bytes = <<>>
    BY <2>1
  <2>5. (o.length > heap_data_limit) = FALSE  BY <2>3
  <2>6. IsBuffer(o.data)  BY <1>2, Zenon DEF InBuffer
  <2> QED  BY <1>1, <2>2, <2>3, <2>4, <2>5, <2>6, Zenon
<1>3. CASE InFile(o, d)
  <2>1. o.file = [open |-> TRUE, bytes |-> d]  BY <1>3 DEF InFile, NewFile
  <2>2. object_size(o) = Len(d) /\ contents(o) = d
    BY <1>3, <2>1 DEF InFile, object_size, contents
  <2>3. /\ o = [length |-> o.length, data |-> o.data, file |-> o.file]
        /\ o.length = Len(d) /\ Len(d) > heap_data_limit
    BY <1>3 DEF InFile
  <2>4. /\ o.file = [open |-> o.file.open, bytes |-> o.file.bytes]
        /\ o.file.open = TRUE /\ o.file.bytes = d
    BY <2>1
  <2>5. (o.length > heap_data_limit) = TRUE  BY <2>3, Zenon
  <2>6. IsBuffer(o.data) /\ o.data.bytes = <<>>  BY <1>3, Zenon DEF InFile
  <2> QED  BY <2>2, <2>3, <2>4, <2>5, <2>6, Zenon
<1> QED  BY <1>2, <1>3

\* A call is not a scan, has a key and comes with a sequence.
LEMMA CallFacts ==
    ASSUME NEW o \in Calls
    PROVE  /\ o.key \in Keys /\ IsSeq(o.data)
           /\ o.name \in HandlerOnly \cup WithCreator \cup {"remove_if"}
           /\ o \notin Scans /\ o # NoOp /\ o.n \in 0..(2^Width - 1)
<1>1. o \in Operations  BY CallsAssumption
<1>2. o.key \in Keys /\ o.data \in Payloads \cup {<<>>}
      /\ o.name \in HandlerOnly \cup WithCreator \cup {"remove_if"}
  BY <1>1 DEF Operations
<1>3. IsSeq(o.data)
  <2>1. CASE o.data \in Payloads
    <3>1. o.data \in Seq(Nat)  BY <2>1, HashMapAssumption
    <3> QED  BY <3>1, SequenceIsSeq, Zenon
  <2>2. CASE o.data = <<>>  BY <2>2, EmptyIsSeq, Zenon
  <2> QED  BY <1>2, <2>1, <2>2
<1>4. o.name \notin {"foreach", "gc", "none"}  BY <1>2 DEF HandlerOnly, WithCreator
<1>5. o \notin Scans /\ o # NoOp  BY <1>4 DEF Scans, Foreach, GC, Op, NoOp
<1>6. o.n \in 0..(2^Width - 1)
  <2>1. o.n \in Deltas  BY <1>1 DEF Operations
  <2> QED  BY <2>1, HashMapAssumption, Zenon
<1> QED  BY <1>2, <1>3, <1>5, <1>6

\* What scans are called.
LEMMA ScanFacts ==
    ASSUME NEW o \in Scans
    PROVE  /\ o.name \in {"foreach", "gc"} /\ (o.name = "gc" => o = GC) /\ o # NoOp
           /\ o.name \notin HandlerOnly \cup WithCreator \cup {"remove_if"}
BY DEF Scans, Foreach, GC, Op, NoOp, HandlerOnly, WithCreator

\* A creator makes an object with the data that the call asks for, and every handler
\* leaves one; the object is stored as its size says.
LEMMA CallsStore ==
    \A o \in Calls :
       /\ Stored(Created(o)) /\ contents(Created(o)) = KV!Initial(o)
       /\ \A obj : Stored(obj) =>
             /\ Stored(Handled(o, obj))
             /\ contents(Handled(o, obj)) = KV!Modified(o, contents(obj))
\* A numeral is a sequence that fits a buffer.
<1>NumeralFacts.
      ASSUME NEW n \in 0..(2^Width - 1)
      PROVE  IsSeq(s_value(n)) /\ Len(s_value(n)) \in Nat /\ Len(s_value(n)) <= heap_data_limit
  <2> USE <1>NumeralFacts
  <2> DEFINE s == s_value(n)
  <2>1. s \in Seq(Nat) /\ Len(s) <= heap_data_limit  BY StorageAssumption, Zenon
  <2> HIDE DEF s
  <2>2. IsSeq(s)  BY <2>1, SequenceIsSeq, Zenon
  <2>3. Len(s) \in Nat  BY <2>1
  <2> QED  BY <2>1, <2>2, <2>3, Zenon DEF s

\* What is read is a number, and so is what incr and decr make of it.
<1>NumberFacts.
      ASSUME NEW d, to_uint64(d) # NaN, NEW n \in 0..(2^Width - 1)
      PROVE  /\ (to_uint64(d) + n) % 2^Width \in 0..(2^Width - 1)
             /\ (IF to_uint64(d) < n THEN 0 ELSE to_uint64(d) - n) \in 0..(2^Width - 1)
  <2> USE <1>NumberFacts
  <2> DEFINE w == 2^Width
             u == to_uint64(d)
  <2>1. u \in 0..(w - 1)
    <3> DEFINE v == Number(Digits(d))
    <3>1. v \in 0..(w - 1) /\ (u = v \/ u = (w - v) % w)  BY Zenon DEF to_uint64
    <3>2. w \in Int  BY NumeralsAssumption
    <3> HIDE DEF w, u, v
    <3> QED  BY <3>1, <3>2
  <2>2. w \in Int  BY NumeralsAssumption
  <2>3. n \in 0..(w - 1)  OBVIOUS
  <2> HIDE DEF w, u
  <2>4. w \in Nat \ {0} /\ u + n \in Nat  BY <2>1, <2>2, <2>3
  <2>5. (u + n) % w \in 0..(w - 1)  BY <2>4
  <2>6. (IF u < n THEN 0 ELSE u - n) \in 0..(w - 1)  BY <2>1, <2>2, <2>3
  <2> QED  BY <2>5, <2>6, Zenon DEF w, u

\* append of a buffer, whether it has to be enlarged or not, and reset.
<1>BufferFacts.
      ASSUME NEW b, NEW d, IsBuffer(b), IsSeq(d)
      PROVE  /\ IsBuffer(append(b, d)) /\ append(b, d).bytes = b.bytes \o d
             /\ IsBuffer(reset(b)) /\ reset(b).bytes = <<>>
             /\ IsBuffer(append(reset(b), d)) /\ append(reset(b), d).bytes = d
  <2> USE <1>BufferFacts
  <2>1. ASSUME NEW x, IsBuffer(x)
        PROVE  IsBuffer(append(x, d)) /\ append(x, d).bytes = x.bytes \o d
    <3> DEFINE y == prepare(x, Len(d))
    <3>1. /\ y = [bytes |-> y.bytes, cap |-> y.cap, dflt |-> y.dflt]
          /\ y.bytes = x.bytes
      BY <2>1 DEF IsBuffer, prepare, enlarge
    <3> HIDE DEF y
    <3>2. append(x, d) = [bytes |-> x.bytes \o d, cap |-> y.cap, dflt |-> y.dflt]
      <4>1. append(x, d) = [y EXCEPT !.bytes = @ \o d]  BY Zenon DEF append, consume, y
      <4> QED  BY <3>1, <4>1, Zenon
    <3>3. IsSeq(x.bytes \o d)  BY <2>1, SequenceFacts, Zenon DEF IsBuffer
    <3> QED  BY <3>2, <3>3 DEF IsBuffer
  <2>2. IsBuffer(reset(b)) /\ reset(b).bytes = <<>>
    <3>1. PICK x, y, z : b = [bytes |-> x, cap |-> y, dflt |-> z]  BY Zenon DEF IsBuffer
    <3> DEFINE q == [b EXCEPT !.bytes = <<>>]
    <3>2. q = [bytes |-> <<>>, cap |-> y, dflt |-> z]  BY <3>1
    <3>3. reset(b) = [q EXCEPT !.cap = b.dflt]  BY Zenon DEF reset
    <3> HIDE DEF q
    <3>4. reset(b) = [bytes |-> <<>>, cap |-> z, dflt |-> z]  BY <3>1, <3>2, <3>3
    <3> QED  BY <3>4, EmptyIsSeq DEF IsBuffer
  <2>3. <<>> \o d = d  BY SequenceFacts, Zenon
  <2>4. IsBuffer(append(reset(b), d)) /\ append(reset(b), d).bytes = d
    BY <2>1, <2>2, <2>3, Zenon
  <2> QED  BY <2>1, <2>2, <2>4, Zenon

\* swap takes the contents of the other buffer.
<1>SwapFacts.
      ASSUME NEW b, NEW c, IsBuffer(b), IsBuffer(c)
      PROVE  IsBuffer(swap(b, c)) /\ swap(b, c).bytes = c.bytes
  <2> USE <1>SwapFacts
  <2>1. PICK x, y, z : b = [bytes |-> x, cap |-> y, dflt |-> z]  BY Zenon DEF IsBuffer
  <2> DEFINE q == [b EXCEPT !.bytes = c.bytes]
  <2>2. q = [bytes |-> c.bytes, cap |-> y, dflt |-> z]  BY <2>1
  <2>3. swap(b, c) = [q EXCEPT !.cap = c.cap]  BY Zenon DEF swap
  <2> HIDE DEF q
  <2>4. swap(b, c) = [bytes |-> c.bytes, cap |-> c.cap, dflt |-> z]  BY <2>2, <2>3
  <2>5. IsSeq(c.bytes)  BY Zenon DEF IsBuffer
  <2> QED  BY <2>4, <2>5 DEF IsBuffer

\* A new buffer.
<1>NewBufferFacts.
      ASSUME NEW n, NEW d, IsSeq(d)
      PROVE  /\ IsBuffer(dynbuf(n)) /\ dynbuf(n).bytes = <<>>
             /\ IsBuffer(append(dynbuf(n), d)) /\ append(dynbuf(n), d).bytes = d
  <2> USE <1>NewBufferFacts
  <2>1. IsBuffer(dynbuf(n)) /\ dynbuf(n).bytes = <<>>  BY EmptyIsSeq DEF IsBuffer, dynbuf
  <2>2. <<>> \o d = d  BY SequenceFacts, Zenon
  <2>3. IsBuffer(append(dynbuf(n), d)) /\ append(dynbuf(n), d).bytes = <<>> \o d
    <3> DEFINE b == dynbuf(n)
    <3> HIDE DEF b
    <3>1. IsBuffer(b) /\ b.bytes = <<>>  BY <2>1 DEF b
    <3>2. IsBuffer(append(b, d)) /\ append(b, d).bytes = b.bytes \o d  BY <3>1, <1>BufferFacts, Zenon
    <3> QED  BY <3>1, <3>2, Zenon DEF b
  <2> QED  BY <2>1, <2>2, <2>3, Zenon

\* Two fields of an object change.
<1>ObjectUpdate.
      ASSUME NEW o, NEW l, NEW x, NEW y, o = [length |-> l, data |-> o.data, file |-> o.file]
      PROVE  /\ [o EXCEPT !.length = x, !.data = y] = [length |-> x, data |-> y, file |-> o.file]
             /\ [o EXCEPT !.length = x, !.file = y] = [length |-> x, data |-> o.data, file |-> y]
  <2> USE <1>ObjectUpdate
  <2>1. PICK b, f : o = [length |-> l, data |-> b, file |-> f]  BY Zenon
  <2> DEFINE q == [o EXCEPT !.length = x]
  <2>2. q = [length |-> x, data |-> b, file |-> f]  BY <2>1
  <2>3. /\ [o EXCEPT !.length = x, !.data = y] = [q EXCEPT !.data = y]
        /\ [o EXCEPT !.length = x, !.file = y] = [q EXCEPT !.file = y]
    BY Zenon
  <2> HIDE DEF q
  <2>4. [q EXCEPT !.data = y] = [length |-> x, data |-> y, file |-> f]  BY <2>2
  <2>5. [q EXCEPT !.file = y] = [length |-> x, data |-> b, file |-> y]  BY <2>2
  <2>6. o.data = b /\ o.file = f  BY <2>1
  <2> QED  BY <2>3, <2>4, <2>5, <2>6, Zenon

\* How objects of either kind are built.
<1>BuildObject.
      ASSUME NEW o, NEW d, NEW b, IsSeq(d), IsBuffer(b)
      PROVE  /\ /\ o = [length |-> Len(d), data |-> b, file |-> NoFile]
                /\ b.bytes = d /\ Len(d) <= heap_data_limit
                => Stored(o) /\ contents(o) = d
             /\ /\ o = [length |-> Len(d), data |-> b, file |-> NewFile(d)]
                /\ b.bytes = <<>> /\ Len(d) > heap_data_limit
                => Stored(o) /\ contents(o) = d
  <2> USE <1>BuildObject
  <2>1. ASSUME o = [length |-> Len(d), data |-> b, file |-> NoFile],
               b.bytes = d, Len(d) <= heap_data_limit
        PROVE  Stored(o) /\ contents(o) = d
    <3>1. o.data = b /\ o.file = NoFile  BY <2>1
    <3>2. InBuffer(o, d)  BY <2>1, <3>1, Zenon DEF InBuffer
    <3> QED  BY <3>2, StoredFacts, Zenon
  <2>2. ASSUME o = [length |-> Len(d), data |-> b, file |-> NewFile(d)],
               b.bytes = <<>>, Len(d) > heap_data_limit
        PROVE  Stored(o) /\ contents(o) = d
    <3>1. o.data = b  BY <2>2
    <3>2. InFile(o, d)  BY <2>2, <3>1, Zenon DEF InFile
    <3> QED  BY <3>2, StoredFacts, Zenon
  <2> QED  BY <2>1, <2>2, Zenon

\* The constructors.
<1>ObjectIsStored.
      ASSUME NEW d, IsSeq(d)
      PROVE  Stored(object(d)) /\ contents(object(d)) = d
  <2> USE <1>ObjectIsStored
  <2>1. Len(d) \in Nat  BY SequenceFacts, Zenon
  <2>2. /\ IsBuffer(dynbuf(0)) /\ dynbuf(0).bytes = <<>>
        /\ IsBuffer(append(dynbuf(0), d)) /\ append(dynbuf(0), d).bytes = d
    BY <1>NewBufferFacts, Zenon
  <2>3. CASE Len(d) > heap_data_limit
    <3>1. object(d) = [length |-> Len(d), data |-> dynbuf(0), file |-> NewFile(d)]
      BY <2>3, Zenon DEF object
    <3> QED  BY <2>2, <2>3, <3>1, <1>BuildObject, Zenon
  <2>4. CASE ~ (Len(d) > heap_data_limit)
    <3>1. object(d) = [length |-> Len(d), data |-> append(dynbuf(0), d), file |-> NoFile]
      BY <2>4, Zenon DEF object
    <3>2. Len(d) <= heap_data_limit  BY <2>1, <2>4, StorageAssumption
    <3> QED  BY <2>2, <3>1, <3>2, <1>BuildObject, Zenon
  <2> QED  BY <2>3, <2>4

\* The constructor for the initial value of incr and decr.
<1>NumberObjectIsStored.
      ASSUME NEW n \in 0..(2^Width - 1)
      PROVE  Stored(number_object(n)) /\ contents(number_object(n)) = s_value(n)
  <2> USE <1>NumberObjectIsStored
  <2> DEFINE d == s_value(n)
             b == append(dynbuf(Width), d)
  <2>1. IsSeq(d) /\ Len(d) <= heap_data_limit  BY <1>NumeralFacts, Zenon
  <2>2. number_object(n) = [length |-> Len(d), data |-> b, file |-> NoFile]
    BY Zenon DEF number_object
  <2>3. IsBuffer(b) /\ b.bytes = d
    <3> HIDE DEF d
    <3> QED  BY <2>1, <1>NewBufferFacts, Zenon
  <2> HIDE DEF b
  <2> SUFFICES Stored(number_object(n)) /\ contents(number_object(n)) = d  OBVIOUS
  <2> HIDE DEF d
  <2> QED  BY <2>1, <2>2, <2>3, <1>BuildObject, Zenon

\* object::set.
<1>SetIsStored.
      ASSUME NEW o, NEW d, Stored(o), IsSeq(d)
      PROVE  Stored(object_set(o, d)) /\ contents(object_set(o, d)) = d
  <2> USE <1>SetIsStored
  <2>1. Len(d) \in Nat  BY SequenceFacts, Zenon
  <2>2. IsBuffer(o.data)  BY Zenon DEF Stored, InBuffer, InFile
  <2>3. /\ IsBuffer(reset(o.data)) /\ reset(o.data).bytes = <<>>
        /\ IsBuffer(append(reset(o.data), d)) /\ append(reset(o.data), d).bytes = d
    BY <2>2, <1>BufferFacts, Zenon
  <2>4. CASE Len(d) > heap_data_limit
    <3>1. object_set(o, d) = [length |-> Len(d), data |-> reset(o.data), file |-> NewFile(d)]
      BY <2>4, Zenon DEF object_set
    <3> QED  BY <2>3, <2>4, <3>1, <1>BuildObject, Zenon
  <2>5. CASE ~ (Len(d) > heap_data_limit)
    <3>1. object_set(o, d) = [length |-> Len(d), data |-> append(reset(o.data), d), file |-> NoFile]
      BY <2>5, Zenon DEF object_set
    <3>2. Len(d) <= heap_data_limit  BY <2>1, <2>5, StorageAssumption
    <3> QED  BY <2>3, <3>1, <3>2, <1>BuildObject, Zenon
  <2> QED  BY <2>4, <2>5

\* The two kinds of objects, and what the operations read of them.
<1>StoredCases.
      ASSUME NEW o, Stored(o)
      PROVE  LET d == contents(o)
             IN  /\ IsSeq(d) /\ Len(d) \in Nat /\ IsBuffer(o.data) /\ o.length = Len(d)
                 /\ o = [length |-> Len(d), data |-> o.data, file |-> o.file]
                 /\ \/ /\ o.file = NoFile /\ o.file.open = FALSE /\ Len(d) <= heap_data_limit
                       /\ HeapBytes(o) = d /\ o.data.bytes = d
                    \/ /\ o.file = NewFile(d) /\ o.file.open = TRUE /\ o.file.bytes = d
                       /\ Len(d) > heap_data_limit /\ o.data.bytes = <<>>
  <2> USE <1>StoredCases
  <2> DEFINE d == contents(o)
  <2>1. IsSeq(d) /\ (InBuffer(o, d) \/ InFile(o, d))  BY Zenon DEF Stored
  <2> SUFFICES /\ IsSeq(d) /\ Len(d) \in Nat /\ IsBuffer(o.data) /\ o.length = Len(d)
               /\ o = [length |-> Len(d), data |-> o.data, file |-> o.file]
               /\ \/ /\ o.file = NoFile /\ o.file.open = FALSE /\ Len(d) <= heap_data_limit
                     /\ HeapBytes(o) = d /\ o.data.bytes = d
                  \/ /\ o.file = NewFile(d) /\ o.file.open = TRUE /\ o.file.bytes = d
                     /\ Len(d) > heap_data_limit /\ o.data.bytes = <<>>
    BY Zenon
  <2> HIDE DEF d
  <2>2. Len(d) \in Nat /\ SubSeq(d, 1, Len(d)) = d  BY <2>1, SequenceFacts, Zenon
  <2>3. CASE InBuffer(o, d)
    <3>1. /\ o = [length |-> Len(d), data |-> o.data, file |-> o.file] /\ Len(d) <= heap_data_limit
          /\ IsBuffer(o.data) /\ o.data.bytes = d /\ o.file = NoFile
      BY <2>3, Zenon DEF InBuffer
    <3>2. o.length = Len(d)  BY <3>1
    <3>3. o.file.open = FALSE  BY <3>1 DEF NoFile
    <3>4. HeapBytes(o) = d  BY <2>2, <3>1, <3>2, Zenon DEF HeapBytes
    <3> QED  BY <2>1, <2>2, <3>1, <3>2, <3>3, <3>4, Zenon
  <2>4. CASE InFile(o, d)
    <3>1. /\ o = [length |-> Len(d), data |-> o.data, file |-> NewFile(d)]
          /\ Len(d) > heap_data_limit /\ IsBuffer(o.data) /\ o.data.bytes = <<>>
      BY <2>4, Zenon DEF InFile
    <3>2. o.length = Len(d) /\ o.file = NewFile(d)  BY <3>1
    <3>3. o.file.open = TRUE /\ o.file.bytes = d  BY <3>2 DEF NewFile
    <3> QED  BY <2>1, <2>2, <3>1, <3>2, <3>3, Zenon
  <2> QED  BY <2>1, <2>3, <2>4, Zenon

\* tempfile::write of a file that has just been written.
<1>WriteFile.
      ASSUME NEW d, NEW e PROVE write(NewFile(d), e) = NewFile(d \o e)
  <2> USE <1>WriteFile
  <2> DEFINE f == [open |-> TRUE, bytes |-> d]
  <2>1. ASSUME NEW u, NEW y, NEW x
        PROVE  [[open |-> u, bytes |-> y] EXCEPT !.bytes = x] = [open |-> u, bytes |-> x]
    OBVIOUS
  <2>2. f.bytes = d  OBVIOUS
  <2>3. write(NewFile(d), e) = [f EXCEPT !.bytes = f.bytes \o e]  BY Zenon DEF write, NewFile
  <2>4. [f EXCEPT !.bytes = d \o e] = [open |-> TRUE, bytes |-> d \o e]  BY <2>1, Zenon
  <2> HIDE DEF f
  <2> QED  BY <2>2, <2>3, <2>4, Zenon DEF NewFile

\* object::append, in the buffer, from the buffer to a file, and in a file.
<1>AppendIsStored.
      ASSUME NEW o, NEW e, Stored(o), IsSeq(e)
      PROVE  /\ Stored(object_append(o, e))
             /\ contents(object_append(o, e)) = contents(o) \o e
  <2> USE <1>AppendIsStored
  <2> DEFINE d == contents(o)
             r == object_append(o, e)
             n == o.length + Len(e)
  <2> SUFFICES Stored(r) /\ contents(r) = d \o e  BY Zenon
  <2>1. /\ IsSeq(d) /\ Len(d) \in Nat /\ IsBuffer(o.data) /\ o.length = Len(d)
        /\ o = [length |-> Len(d), data |-> o.data, file |-> o.file]
        /\ \/ /\ o.file = NoFile /\ o.file.open = FALSE /\ Len(d) <= heap_data_limit
              /\ HeapBytes(o) = d /\ o.data.bytes = d
           \/ /\ o.file = NewFile(d) /\ o.file.open = TRUE /\ o.file.bytes = d
              /\ Len(d) > heap_data_limit /\ o.data.bytes = <<>>
    BY <1>StoredCases, Zenon
  <2>2. CASE e = <<>>
    <3>1. r = o  BY <2>2 DEF object_append
    <3> HIDE DEF d, r
    <3>2. d \o e = d  BY <2>1, <2>2, SequenceFacts, Zenon
    <3> QED  BY <3>1, <3>2, Zenon DEF d
  <2>3. CASE e # <<>> /\ n > heap_data_limit /\ ~ o.file.open
    <3>1. r = [length |-> n, data |-> reset(o.data), file |-> write(NewFile(HeapBytes(o)), e)]
      BY <2>3 DEF object_append
    <3> HIDE DEF r, d
    <3>2. Len(d \o e) = Len(d) + Len(e) /\ IsSeq(d \o e)  BY <2>1, SequenceFacts, Zenon
    <3>3. n = Len(d \o e)  BY <2>1, <3>2, Zenon
    <3>4. HeapBytes(o) = d  BY <2>1, <2>3, Zenon
    <3>5. write(NewFile(d), e) = NewFile(d \o e)  BY <1>WriteFile, Zenon
    <3>6. IsBuffer(reset(o.data)) /\ reset(o.data).bytes = <<>>  BY <2>1, <1>BufferFacts, Zenon
    <3>7. r = [length |-> Len(d \o e), data |-> reset(o.data), file |-> NewFile(d \o e)]
      BY <3>1, <3>3, <3>4, <3>5, Zenon
    <3>8. Len(d \o e) > heap_data_limit  BY <2>3, <3>3, Zenon
    <3> QED  BY <3>2, <3>6, <3>7, <3>8, <1>BuildObject, Zenon
  <2>4. CASE e # <<>> /\ n > heap_data_limit /\ o.file.open
    <3>1. r = [o EXCEPT !.length = n, !.file = write(o.file, e)]
      BY <2>4 DEF object_append
    <3> HIDE DEF r, d
    <3>2. Len(d \o e) = Len(d) + Len(e) /\ IsSeq(d \o e)  BY <2>1, SequenceFacts, Zenon
    <3>3. n = Len(d \o e)  BY <2>1, <3>2, Zenon
    <3>4. o.file = NewFile(d) /\ o.data.bytes = <<>>  BY <2>1, <2>4, Zenon
    <3>5. write(NewFile(d), e) = NewFile(d \o e)  BY <1>WriteFile, Zenon
    <3>6. r = [length |-> Len(d \o e), data |-> o.data, file |-> NewFile(d \o e)]
      BY <2>1, <3>1, <3>3, <3>4, <3>5, <1>ObjectUpdate, Zenon
    <3>7. Len(d \o e) > heap_data_limit  BY <2>4, <3>3, Zenon
    <3> QED  BY <2>1, <3>2, <3>4, <3>6, <3>7, <1>BuildObject, Zenon
  <2>5. CASE e # <<>> /\ ~ (n > heap_data_limit)
    <3>1. r = [o EXCEPT !.length = n, !.data = append(o.data, e)]
      BY <2>5 DEF object_append
    <3> HIDE DEF r, d
    <3>2. Len(d \o e) = Len(d) + Len(e) /\ IsSeq(d \o e) /\ Len(e) \in Nat
      BY <2>1, SequenceFacts, Zenon
    <3>3. n = Len(d \o e)  BY <2>1, <3>2, Zenon
    <3>4. Len(d) <= heap_data_limit /\ Len(d \o e) <= heap_data_limit
      BY <2>1, <2>5, <3>2, <3>3, StorageAssumption
    <3>5. o.file = NoFile /\ o.data.bytes = d
      <4>1. ~ (Len(d) > heap_data_limit)  BY <2>1, <3>4, StorageAssumption
      <4> QED  BY <2>1, <4>1, Zenon
    <3>6. IsBuffer(append(o.data, e)) /\ append(o.data, e).bytes = o.data.bytes \o e
      <4>1. IsBuffer(o.data)  BY <2>1, Zenon
      <4> QED  BY <4>1, <1>BufferFacts, Zenon
    <3>7. r = [length |-> Len(d \o e), data |-> append(o.data, e), file |-> NoFile]
      BY <2>1, <3>1, <3>3, <3>5, <1>ObjectUpdate, Zenon
    <3>8. append(o.data, e).bytes = d \o e  BY <3>5, <3>6, Zenon
    <3> QED  BY <3>2, <3>4, <3>6, <3>7, <3>8, <1>BuildObject, Zenon
  <2> QED  BY <2>2, <2>3, <2>4, <2>5, Zenon

\* object::prepend.
<1>PrependIsStored.
      ASSUME NEW o, NEW e, Stored(o), IsSeq(e)
      PROVE  /\ Stored(object_prepend(o, e))
             /\ contents(object_prepend(o, e)) = e \o contents(o)
  <2> USE <1>PrependIsStored
  <2> DEFINE d == contents(o)
             r == object_prepend(o, e)
             n == o.length + Len(e)
             b == append(dynbuf(n), e)
  <2> SUFFICES Stored(r) /\ contents(r) = e \o d  BY Zenon
  <2>1. /\ IsSeq(d) /\ Len(d) \in Nat /\ IsBuffer(o.data) /\ o.length = Len(d)
        /\ o = [length |-> Len(d), data |-> o.data, file |-> o.file]
        /\ \/ /\ o.file = NoFile /\ o.file.open = FALSE /\ Len(d) <= heap_data_limit
              /\ HeapBytes(o) = d /\ o.data.bytes = d
           \/ /\ o.file = NewFile(d) /\ o.file.open = TRUE /\ o.file.bytes = d
              /\ Len(d) > heap_data_limit /\ o.data.bytes = <<>>
    BY <1>StoredCases, Zenon
  <2>2. IsSeq(d) /\ IsBuffer(o.data)  BY <2>1, Zenon
  <2>3. CASE e = <<>>
    <3>1. r = o  BY <2>3 DEF object_prepend
    <3> HIDE DEF d, r
    <3>2. e \o d = d  BY <2>1, <2>3, SequenceFacts, Zenon
    <3> QED  BY <3>1, <3>2, Zenon DEF d
  <2>4. CASE e # <<>> /\ n > heap_data_limit /\ ~ o.file.open
    <3>1. r = [length |-> n, data |-> reset(o.data), file |-> write(NewFile(e), HeapBytes(o))]
      BY <2>4 DEF object_prepend
    <3>2. HeapBytes(o) = d  BY <2>1, <2>4, Zenon
    <3> HIDE DEF r, d
    <3>3. Len(e \o d) = Len(e) + Len(d) /\ IsSeq(e \o d) /\ Len(e) \in Nat
      BY ONLY <2>2, <1>PrependIsStored, SequenceFacts, Zenon
    <3>4. n = Len(e \o d)  BY <2>1, <3>3
    <3>5. write(NewFile(e), d) = NewFile(e \o d)  BY <1>WriteFile, Zenon
    <3>6. IsBuffer(reset(o.data)) /\ reset(o.data).bytes = <<>>  BY <2>1, <1>BufferFacts, Zenon
    <3>7. r = [length |-> Len(e \o d), data |-> reset(o.data), file |-> NewFile(e \o d)]
      BY <3>1, <3>2, <3>4, <3>5, Zenon
    <3>8. Len(e \o d) > heap_data_limit  BY <2>4, <3>4, Zenon
    <3> QED  BY <3>3, <3>6, <3>7, <3>8, <1>BuildObject, Zenon
  <2>5. CASE e # <<>> /\ n > heap_data_limit /\ o.file.open
    <3>1. r = [o EXCEPT !.length = n, !.file = NewFile(SubSeq(append(b, o.file.bytes).bytes, 1, n))]
      BY <2>5 DEF object_prepend
    <3>2. o.file.bytes = d /\ o.data.bytes = <<>>  BY <2>1, <2>5, Zenon
    <3> HIDE DEF r, d
    <3>3. IsBuffer(b) /\ b.bytes = e  BY <1>NewBufferFacts, Zenon
    <3> HIDE DEF b
    <3>4. /\ Len(e \o d) = Len(e) + Len(d) /\ IsSeq(e \o d) /\ Len(e) \in Nat
      BY ONLY <2>2, <1>PrependIsStored, SequenceFacts, Zenon
    <3>5. n = Len(e \o d)  BY <2>1, <3>4
    <3>6. SubSeq(e \o d, 1, Len(e \o d)) = e \o d  BY <3>4, SequenceFacts, Zenon
    <3>7. append(b, d).bytes = b.bytes \o d
      <4>1. IsSeq(d)  BY <2>1, Zenon
      <4> QED  BY <3>3, <4>1, <1>BufferFacts, Zenon
    <3>8. NewFile(SubSeq(append(b, o.file.bytes).bytes, 1, n)) = NewFile(e \o d)
      BY <3>2, <3>3, <3>5, <3>6, <3>7, Zenon
    <3>9. r = [length |-> Len(e \o d), data |-> o.data, file |-> NewFile(e \o d)]
      BY <2>1, <3>1, <3>5, <3>8, <1>ObjectUpdate, Zenon
    <3>10. Len(e \o d) > heap_data_limit  BY <2>5, <3>5, Zenon
    <3> QED  BY <2>1, <3>2, <3>4, <3>9, <3>10, <1>BuildObject, Zenon
  <2>6. CASE e # <<>> /\ ~ (n > heap_data_limit)
    <3>1. r = [o EXCEPT !.length = n, !.data = swap(o.data, append(b, HeapBytes(o)))]
      BY <2>6 DEF object_prepend
    <3> HIDE DEF r, d
    <3>2. IsBuffer(b) /\ b.bytes = e  BY <1>NewBufferFacts, Zenon
    <3> HIDE DEF b
    <3>3. /\ Len(e \o d) = Len(e) + Len(d) /\ IsSeq(e \o d) /\ Len(e) \in Nat
      BY ONLY <2>2, <1>PrependIsStored, SequenceFacts, Zenon
    <3>4. n = Len(e \o d)  BY <2>1, <3>3
    <3>5. Len(d) <= heap_data_limit /\ Len(e \o d) <= heap_data_limit
      BY <2>1, <2>6, <3>3, <3>4, StorageAssumption
    <3>6. o.file = NoFile /\ HeapBytes(o) = d
      <4>1. ~ (Len(d) > heap_data_limit)  BY <2>1, <3>5, StorageAssumption
      <4> QED  BY <2>1, <4>1, Zenon
    <3>7. IsBuffer(append(b, d)) /\ append(b, d).bytes = b.bytes \o d
      BY <2>1, <3>2, <1>BufferFacts, Zenon
    <3> DEFINE c == swap(o.data, append(b, d))
    <3>8. IsBuffer(c) /\ c.bytes = append(b, d).bytes
      BY <2>2, <3>7, <1>SwapFacts, Zenon
    <3>9. r = [length |-> Len(e \o d), data |-> c, file |-> NoFile]
      BY <2>1, <3>1, <3>4, <3>6, <1>ObjectUpdate, Zenon
    <3> HIDE DEF c
    <3>10. c.bytes = e \o d  BY <3>2, <3>7, <3>8, Zenon
    <3> QED  BY <3>3, <3>5, <3>8, <3>9, <3>10, <1>BuildObject, Zenon
  <2> QED  BY <2>3, <2>4, <2>5, <2>6, Zenon

\* object::incr and object::decr write a numeral over the data.
<1>NumberIsStored.
      ASSUME NEW o, NEW n \in 0..(2^Width - 1), Stored(o), ~ o.file.open
      PROVE  Stored(store_number(o, n)) /\ contents(store_number(o, n)) = s_value(n)
  <2> USE <1>NumberIsStored
  <2> DEFINE e == s_value(n)
             b == append(reset(o.data), e)
  <2>1. IsSeq(e) /\ Len(e) <= heap_data_limit  BY <1>NumeralFacts, Zenon
  <2>2. store_number(o, n) = [o EXCEPT !.length = Len(e), !.data = b]  BY Zenon DEF store_number
  <2> SUFFICES Stored(store_number(o, n)) /\ contents(store_number(o, n)) = e  OBVIOUS
  <2> HIDE DEF e
  <2>3. /\ IsBuffer(o.data) /\ o.file = NoFile
        /\ o = [length |-> Len(contents(o)), data |-> o.data, file |-> o.file]
    BY <1>StoredCases, Zenon
  <2>4. IsBuffer(b) /\ b.bytes = e  BY <2>1, <2>3, <1>BufferFacts, Zenon
  <2> HIDE DEF b
  <2>5. store_number(o, n) = [length |-> Len(e), data |-> b, file |-> NoFile]
    BY <2>2, <2>3, <1>ObjectUpdate, Zenon
  <2> QED  BY <2>1, <2>4, <2>5, <1>BuildObject, Zenon

\* A creator makes an object with the data that the call asks for.
<1>CreatedIsStored.
      ASSUME NEW o \in Calls
      PROVE  Stored(Created(o)) /\ contents(Created(o)) = KV!Initial(o)
  <2> USE <1>CreatedIsStored
  <2>1. CASE o.name \in {"set", "add"}
    <3>1. Created(o) = object(o.data) /\ KV!Initial(o) = o.data
      BY <2>1, Zenon DEF Created, KV!Initial
    <3> QED  BY <3>1, CallFacts, <1>ObjectIsStored, Zenon
  <2>2. CASE o.name \notin {"set", "add"}
    <3>1. Created(o) = number_object(o.n) /\ KV!Initial(o) = s_value(o.n)
      BY <2>2, Zenon DEF Created, KV!Initial
    <3> QED  BY <3>1, CallFacts, <1>NumberObjectIsStored, Zenon
  <2> QED  BY <2>1, <2>2

\* incr and decr take the same data for numbers as the map does.
<1>SameNumbers.
      ASSUME NEW o, Stored(o)
      PROVE  /\ KV!IsNumber(contents(o)) <=> ~ not_a_number(o)
             /\ ~ not_a_number(o) => HeapBytes(o) = contents(o) /\ ~ o.file.open
  <2> USE <1>SameNumbers
  <2> DEFINE d == contents(o)
  <2>1. \/ /\ o.file.open = FALSE /\ Len(d) <= heap_data_limit /\ HeapBytes(o) = d
        \/ /\ o.file.open = TRUE /\ Len(d) > heap_data_limit
    BY <1>StoredCases, Zenon
  <2>2. Len(d) \in Nat  BY <1>StoredCases, Zenon
  <2> SUFFICES /\ KV!IsNumber(d) <=> ~ not_a_number(o)
               /\ ~ not_a_number(o) => HeapBytes(o) = d /\ ~ o.file.open
    BY Zenon
  <2> HIDE DEF d
  <2>3. KV!IsNumber(d) <=> (Len(d) <= heap_data_limit /\ to_uint64(d) # NaN)  BY Zenon DEF KV!IsNumber
  <2>4. Len(d) > heap_data_limit => ~ (Len(d) <= heap_data_limit)  BY <2>2, StorageAssumption
  <2> QED  BY <2>1, <2>3, <2>4, Zenon DEF not_a_number

\* Every handler leaves an object that is stored as its size says, with the data that
\* the call asks for.
<1>HandledIsStored.
      ASSUME NEW o \in Calls, NEW obj, Stored(obj)
      PROVE  /\ Stored(Handled(o, obj))
             /\ contents(Handled(o, obj)) = KV!Modified(o, contents(obj))
  <2> USE <1>HandledIsStored
  <2> DEFINE d == contents(obj)
             u == to_uint64(d)
  <2>1. IsSeq(o.data)  BY CallFacts, Zenon
  <2>2. KV!IsNumber(d) <=> ~ not_a_number(obj)  BY <1>SameNumbers, Zenon
  <2>3. /\ o.n \in 0..(2^Width - 1)
        /\ ~ not_a_number(obj) => HeapBytes(obj) = d /\ ~ obj.file.open /\ u # NaN
    <3>1. ~ not_a_number(obj) => HeapBytes(obj) = d /\ ~ obj.file.open  BY <1>SameNumbers, Zenon
    <3>2. ~ not_a_number(obj) => u # NaN  BY <3>1, Zenon DEF not_a_number
    <3> QED  BY <3>1, <3>2, CallFacts, Zenon
  <2>4. CASE o.name \in {"set", "replace"}
    <3>1. Handled(o, obj) = object_set(obj, o.data) /\ KV!Modified(o, d) = o.data
      BY <2>4 DEF Handled, KV!Modified
    <3> QED  BY <2>1, <3>1, <1>SetIsStored, Zenon
  <2>5. CASE o.name = "append"
    <3>1. Handled(o, obj) = object_append(obj, o.data) /\ KV!Modified(o, d) = d \o o.data
      BY <2>5 DEF Handled, KV!Modified
    <3> QED  BY <2>1, <3>1, <1>AppendIsStored, Zenon
  <2>6. CASE o.name = "prepend"
    <3>1. Handled(o, obj) = object_prepend(obj, o.data) /\ KV!Modified(o, d) = o.data \o d
      BY <2>6 DEF Handled, KV!Modified
    <3> QED  BY <2>1, <3>1, <1>PrependIsStored, Zenon
  <2>7. CASE o.name \in {"incr", "incr_or"} /\ ~ not_a_number(obj)
    <3>1. /\ Handled(o, obj) = object_incr(obj, o.n)
          /\ KV!Modified(o, d) = s_value((u + o.n) % 2^Width)
      BY <2>2, <2>7 DEF Handled, KV!Modified
    <3>2. object_incr(obj, o.n) = store_number(obj, (u + o.n) % 2^Width)
      BY <2>3, <2>7, Zenon DEF object_incr
    <3>3. (u + o.n) % 2^Width \in 0..(2^Width - 1)  BY <2>3, <2>7, <1>NumberFacts, Zenon
    <3> QED  BY <2>3, <2>7, <3>1, <3>2, <3>3, <1>NumberIsStored, Zenon
  <2>8. CASE o.name \in {"decr", "decr_or"} /\ ~ not_a_number(obj)
    <3>1. /\ Handled(o, obj) = object_decr(obj, o.n)
          /\ KV!Modified(o, d) = s_value(IF u < o.n THEN 0 ELSE u - o.n)
      BY <2>2, <2>8 DEF Handled, KV!Modified
    <3>2. object_decr(obj, o.n) = store_number(obj, IF u < o.n THEN 0 ELSE u - o.n)
      BY <2>3, <2>8, Zenon DEF object_decr
    <3>3. (IF u < o.n THEN 0 ELSE u - o.n) \in 0..(2^Width - 1)
      BY <2>3, <2>8, <1>NumberFacts, Zenon
    <3> QED  BY <2>3, <2>8, <3>1, <3>2, <3>3, <1>NumberIsStored, Zenon
  <2>9. CASE /\ o.name \notin {"set", "replace", "append", "prepend"}
             /\ ~ (o.name \in {"incr", "incr_or"} /\ ~ not_a_number(obj))
             /\ ~ (o.name \in {"decr", "decr_or"} /\ ~ not_a_number(obj))
    <3>1. Handled(o, obj) = obj /\ KV!Modified(o, d) = d
      BY <2>2, <2>9 DEF Handled, KV!Modified
    <3> QED  BY <3>1, Zenon
  <2> QED  BY <2>4, <2>5, <2>6, <2>7, <2>8, <2>9

<1> QED  BY <1>CreatedIsStored, <1>HandledIsStored, Zenon

-----------------------------------------------------------------------------
(***************************************************************************)
(* Chains and walks, for any value mo of m_objects and it of item.         *)
(***************************************************************************)

\* Some of the numbers from 1 to n include a least one.  Induction would show it for
\* every n; the chains carry it along.
Ordered(n) == \A I \in SUBSET (1..n) : I # {} => \E i \in I : \A j \in I : i <= j

LEMMA OrderedFacts ==
    /\ Ordered(0)
    /\ \A n \in Nat : Ordered(n) => Ordered(n + 1)
    /\ \A n \in Nat : n > 0 /\ Ordered(n) => Ordered(n - 1)
<1>1. Ordered(0)
  <2>1. 1..0 = {}  OBVIOUS
  <2> QED  BY <2>1, Zenon DEF Ordered
<1>2. ASSUME NEW n \in Nat, Ordered(n) PROVE Ordered(n + 1)
  <2> SUFFICES ASSUME NEW I \in SUBSET (1..(n + 1)), I # {}
               PROVE  \E i \in I : \A j \in I : i <= j
    BY Zenon DEF Ordered
  <2> DEFINE J == I \cap (1..n)
  <2>1. \A i \in I : i <= n + 1 /\ (i \in J \/ i = n + 1)  OBVIOUS
  <2>2. CASE J = {}
    <3>1. \A i \in I : i = n + 1  BY <2>1, <2>2, Zenon
    <3>2. n + 1 <= n + 1  OBVIOUS
    <3> QED  BY <3>1, <3>2, Zenon
  <2>3. CASE J # {}
    <3>1. J \in SUBSET (1..n)  OBVIOUS
    <3>2. PICK i \in J : \A j \in J : i <= j  BY <1>2, <2>3, <3>1, Zenon DEF Ordered
    <3>3. i \in I /\ i <= n + 1  BY <2>1
    <3> QED  BY <2>1, <3>2, <3>3, Zenon
  <2> QED  BY <2>2, <2>3
<1>3. ASSUME NEW n \in Nat, n > 0, Ordered(n) PROVE Ordered(n - 1)
  <2>1. 1..(n - 1) \subseteq 1..n  OBVIOUS
  <2> QED  BY <1>3, <2>1, Zenon DEF Ordered
<1> QED  BY <1>1, <1>2, <1>3, Zenon

\* The items that bucket b leads to, with mo for m_objects and it for the items, are
\* the n items of c.
Chain(mo, it, b, n, c) ==
    /\ Ordered(n)
    /\ n = 0 => mo[b] = null
    /\ n > 0 => mo[b] = c[1] /\ it[c[n]].next = null
    /\ \A i \in 1..n : i < n => it[c[i]].next = c[i + 1]
    /\ \A i \in 1..n : it[c[i]].live /\ get_bucket(it[c[i]].key) = b
    /\ \A i, j \in 1..n : it[c[i]].key = it[c[j]].key => i = j
    /\ \A a \in Addresses : it[a].live /\ get_bucket(it[a].key) = b =>
                             \E i \in 1..n : c[i] = a

HasChain(mo, it, b) == \E n \in Nat : \E c \in [1..n -> Addresses] : Chain(mo, it, b, n, c)

\* A walk at q for call o is behind item i of chain c and has passed no item with its
\* key.  A scan has visited, by v, the items that it has passed and none of the others.
Stands(it, o, q, b, v, n, c, i) ==
    /\ i = 0 => q = Head_of(b)
    /\ i > 0 => q = Next_of(c[i])
    /\ o \notin Scans => \A j \in 1..i : it[c[j]].key # o.key
    /\ o \in Scans => \A j \in 1..n : v[it[c[j]].key] = IF j <= i THEN 1 ELSE 0

Walk(mo, it, o, q, b, v) ==
    \E n \in Nat : \E c \in [1..n -> Addresses] :
        Chain(mo, it, b, n, c) /\ \E i \in 0..n : Stands(it, o, q, b, v, n, c, i)

\* What pointer q points to.
Follow(mo, it, q) == IF q.in = "bucket" THEN mo[q.at] ELSE it[q.at].next

\* The items of bucket b are the same, with the same keys and pointers.
Kept(mo, it, mo2, it2, b) ==
    /\ mo2[b] = mo[b]
    /\ \A a \in Addresses : it[a].live /\ get_bucket(it[a].key) = b =>
          it2[a].live /\ it2[a].key = it[a].key /\ it2[a].next = it[a].next
    /\ \A a \in Addresses : it2[a].live /\ get_bucket(it2[a].key) = b =>
          it[a].live /\ get_bucket(it[a].key) = b

\* The chain of a bucket whose items are the same is the same.
LEMMA KeptChain ==
    ASSUME NEW mo, NEW it, NEW mo2, NEW it2, NEW b, Kept(mo, it, mo2, it2, b),
           NEW n \in Nat, NEW c \in [1..n -> Addresses], Chain(mo, it, b, n, c)
    PROVE  /\ Chain(mo2, it2, b, n, c)
           /\ \A i \in 1..n : it2[c[i]].key = it[c[i]].key
<1>1. \A i \in 1..n : c[i] \in Addresses  OBVIOUS
<1>2. \A i \in 1..n : it[c[i]].live /\ get_bucket(it[c[i]].key) = b  BY Zenon DEF Chain
<1>3. \A i \in 1..n : /\ it2[c[i]].live /\ it2[c[i]].key = it[c[i]].key
                      /\ it2[c[i]].next = it[c[i]].next
  BY <1>1, <1>2, Zenon DEF Kept
<1>4. n = 0 => mo2[b] = null  BY Zenon DEF Chain, Kept
<1>5. n > 0 => mo2[b] = c[1] /\ it2[c[n]].next = null
  <2>1. n > 0 => n \in 1..n  OBVIOUS
  <2> QED  BY <1>3, <2>1, Zenon DEF Chain, Kept
<1>6. \A i \in 1..n : i < n => it2[c[i]].next = c[i + 1]  BY <1>3, Zenon DEF Chain
<1>7. \A i \in 1..n : it2[c[i]].live /\ get_bucket(it2[c[i]].key) = b
  BY <1>2, <1>3, Zenon
<1>8. \A i, j \in 1..n : it2[c[i]].key = it2[c[j]].key => i = j
  BY <1>3, Zenon DEF Chain
<1>9. \A a \in Addresses : it2[a].live /\ get_bucket(it2[a].key) = b => \E i \in 1..n : c[i] = a
  BY Zenon DEF Chain, Kept
<1>10. Ordered(n)  BY Zenon DEF Chain
<1> QED  BY <1>3, <1>4, <1>5, <1>6, <1>7, <1>8, <1>9, <1>10, Zenon DEF Chain

\* So are the walks along it.
LEMMA KeptWalk ==
    ASSUME NEW mo, NEW it, NEW mo2, NEW it2, NEW b, Kept(mo, it, mo2, it2, b)
    PROVE  /\ HasChain(mo, it, b) => HasChain(mo2, it2, b)
           /\ \A o, q, v : Walk(mo, it, o, q, b, v) => Walk(mo2, it2, o, q, b, v)
<1>1. HasChain(mo, it, b) => HasChain(mo2, it2, b)  BY KeptChain, Zenon DEF HasChain
<1>2. ASSUME NEW o, NEW q, NEW v, Walk(mo, it, o, q, b, v)
      PROVE  Walk(mo2, it2, o, q, b, v)
  <2>1. PICK n \in Nat : \E c \in [1..n -> Addresses] :
           Chain(mo, it, b, n, c) /\ \E i \in 0..n : Stands(it, o, q, b, v, n, c, i)
    BY <1>2, Zenon DEF Walk
  <2>2. PICK c \in [1..n -> Addresses] :
           Chain(mo, it, b, n, c) /\ \E i \in 0..n : Stands(it, o, q, b, v, n, c, i)
    BY <2>1, Zenon
  <2>3. PICK i \in 0..n : Stands(it, o, q, b, v, n, c, i)  BY <2>2, Zenon
  <2>4. Chain(mo2, it2, b, n, c) /\ \A j \in 1..n : it2[c[j]].key = it[c[j]].key
    <3>1. Chain(mo, it, b, n, c)  BY <2>2, Zenon
    <3> QED  BY <3>1, KeptChain
  <2>5. \A j \in 1..i : j \in 1..n  OBVIOUS
  <2>6. Stands(it2, o, q, b, v, n, c, i)  BY <2>3, <2>4, <2>5, Zenon DEF Stands
  <2> QED  BY <2>4, <2>6, Zenon DEF Walk
<1> QED  BY <1>1, <1>2, Zenon

\* Where a walk stands, as facts about the pointer that it holds.
Position(mo, it, o, q, b, v, n, c, i) ==
    /\ Chain(mo, it, b, n, c) /\ Stands(it, o, q, b, v, n, c, i)
    /\ i = n => Follow(mo, it, q) = null
    /\ i < n => Follow(mo, it, q) = c[i + 1]
    /\ i = 0 => q.in = "bucket" /\ q.at = b
    /\ i > 0 => q.in = "item" /\ q.at = c[i]

\* Every walk is somewhere.
LEMMA WalkFacts ==
    ASSUME NEW mo, NEW it, NEW o, NEW q, NEW b \in Buckets, NEW v, Walk(mo, it, o, q, b, v)
    PROVE  \E n \in Nat : \E c \in [1..n -> Addresses] : \E i \in 0..n :
              Position(mo, it, o, q, b, v, n, c, i)
<1>1. PICK n \in Nat : \E c \in [1..n -> Addresses] :
         Chain(mo, it, b, n, c) /\ \E i \in 0..n : Stands(it, o, q, b, v, n, c, i)
  BY Zenon DEF Walk
<1>2. PICK c \in [1..n -> Addresses] :
         Chain(mo, it, b, n, c) /\ \E i \in 0..n : Stands(it, o, q, b, v, n, c, i)
  BY <1>1, Zenon
<1>3. PICK i \in 0..n : Stands(it, o, q, b, v, n, c, i)  BY <1>2, Zenon
<1>4. /\ i = 0 => q.in = "bucket" /\ q.at = b
      /\ i > 0 => q.in = "item" /\ q.at = c[i]
  <2>1. /\ i = 0 => q = [in |-> "bucket", at |-> b]
        /\ i > 0 => q = [in |-> "item", at |-> c[i]]
    BY <1>3, Zenon DEF Stands, Head_of, Next_of
  <2> QED  BY <2>1
<1>5. /\ n = 0 => mo[b] = null
      /\ n > 0 => mo[b] = c[1] /\ it[c[n]].next = null
      /\ \A j \in 1..n : j < n => it[c[j]].next = c[j + 1]
  BY <1>2, Zenon DEF Chain
<1>6. i = n => Follow(mo, it, q) = null
  <2>1. CASE n = 0  BY <1>4, <1>5, <2>1 DEF Follow
  <2>2. CASE n > 0  BY <1>4, <1>5, <2>2 DEF Follow
  <2> QED  BY <2>1, <2>2
<1>7. i < n => Follow(mo, it, q) = c[i + 1]
  <2>1. CASE i = 0  BY <1>4, <1>5, <2>1 DEF Follow
  <2>2. CASE i > 0  BY <1>4, <1>5, <2>2 DEF Follow
  <2> QED  BY <2>1, <2>2
<1>8. Position(mo, it, o, q, b, v, n, c, i)
  BY <1>2, <1>3, <1>4, <1>6, <1>7, Zenon DEF Position
<1> QED  BY <1>8, Zenon

\* A walk begins at the head of a bucket; the scan has visited nothing there.
LEMMA WalkBegins ==
    ASSUME NEW mo, NEW it, NEW o, NEW b \in Buckets, NEW v, HasChain(mo, it, b),
           \A a \in Addresses : it[a].live => it[a].key \in Keys,
           o \in Scans => \A k \in Keys : get_bucket(k) = b => v[k] = 0
    PROVE  Walk(mo, it, o, Head_of(b), b, v)
<1>1. PICK n \in Nat : \E c \in [1..n -> Addresses] : Chain(mo, it, b, n, c)
  BY Zenon DEF HasChain
<1>2. PICK c \in [1..n -> Addresses] : Chain(mo, it, b, n, c)  BY <1>1, Zenon
<1>3. \A j \in 1..n : it[c[j]].key \in Keys /\ get_bucket(it[c[j]].key) = b
  <2>1. \A j \in 1..n : c[j] \in Addresses  OBVIOUS
  <2> QED  BY <1>2, <2>1, Zenon DEF Chain
<1>4. o \in Scans => \A j \in 1..n : v[it[c[j]].key] = IF j <= 0 THEN 1 ELSE 0
  <2>1. \A j \in 1..n : ~ (j <= 0)  OBVIOUS
  <2> QED  BY <1>3, <2>1, Zenon
<1>5. 0 \in 0..n /\ ~ (0 > 0) /\ \A j : j \notin 1..0  OBVIOUS
<1>6. Stands(it, o, Head_of(b), b, v, n, c, 0)  BY <1>4, <1>5, Zenon DEF Stands
<1> QED  BY <1>2, <1>5, <1>6, Zenon DEF Walk

\* Address a is one of an item of bucket b that has not been deleted, and that a scan
\* has still to visit.
Ahead(it, o, b, v, a) ==
    /\ a \in Addresses /\ it[a].live /\ get_bucket(it[a].key) = b
    /\ o \in Scans => v[it[a].key] = 0

\* A walk points to such items.
LEMMA WalkFinds ==
    ASSUME NEW mo, NEW it, NEW o, NEW q, NEW b \in Buckets, NEW v, Walk(mo, it, o, q, b, v),
           Follow(mo, it, q) # null
    PROVE  Ahead(it, o, b, v, Follow(mo, it, q))
<1>1. PICK n \in Nat : \E c \in [1..n -> Addresses] : \E i \in 0..n :
         Position(mo, it, o, q, b, v, n, c, i)
  BY WalkFacts, Zenon
<1>2. PICK c \in [1..n -> Addresses] : \E i \in 0..n : Position(mo, it, o, q, b, v, n, c, i)
  BY <1>1, Zenon
<1>3. PICK i \in 0..n : Position(mo, it, o, q, b, v, n, c, i)  BY <1>2, Zenon
<1>4. i < n /\ Follow(mo, it, q) = c[i + 1]
  <2>1. i # n  BY <1>3, Zenon DEF Position
  <2>2. i < n  BY <2>1
  <2> QED  BY <1>3, <2>2, Zenon DEF Position
<1>5. i + 1 \in 1..n /\ ~ (i + 1 <= i)  BY <1>4
<1>6. c[i + 1] \in Addresses  BY <1>5
<1>7. it[c[i + 1]].live /\ get_bucket(it[c[i + 1]].key) = b
  BY <1>3, <1>5, Zenon DEF Position, Chain
<1>8. o \in Scans => v[it[c[i + 1]].key] = 0
  BY <1>3, <1>5, Zenon DEF Position, Stands
<1>9. Ahead(it, o, b, v, c[i + 1])  BY <1>6, <1>7, <1>8, Zenon DEF Ahead
<1> QED  BY <1>4, <1>9, Zenon

\* A pointer in an item is one of an item of the bucket that has not been deleted.
LEMMA WalkHolds ==
    ASSUME NEW mo, NEW it, NEW o, NEW q, NEW b \in Buckets, NEW v, Walk(mo, it, o, q, b, v)
    PROVE  \/ q.in = "bucket" /\ q.at = b
           \/ /\ q.in = "item" /\ q.at \in Addresses
              /\ it[q.at].live /\ get_bucket(it[q.at].key) = b
<1>1. PICK n \in Nat : \E c \in [1..n -> Addresses] : \E i \in 0..n :
         Position(mo, it, o, q, b, v, n, c, i)
  BY WalkFacts, Zenon
<1>2. PICK c \in [1..n -> Addresses] : \E i \in 0..n : Position(mo, it, o, q, b, v, n, c, i)
  BY <1>1, Zenon
<1>3. PICK i \in 0..n : Position(mo, it, o, q, b, v, n, c, i)  BY <1>2, Zenon
<1>4. CASE i = 0  BY <1>3, <1>4, Zenon DEF Position
<1>5. CASE i > 0
  <2>1. q.in = "item" /\ q.at = c[i]  BY <1>3, <1>5, Zenon DEF Position
  <2>2. i \in 1..n  BY <1>5
  <2>3. c[i] \in Addresses  BY <2>2
  <2>4. it[c[i]].live /\ get_bucket(it[c[i]].key) = b  BY <1>3, <2>2, Zenon DEF Position, Chain
  <2> QED  BY <2>1, <2>3, <2>4, Zenon
<1> QED  BY <1>4, <1>5

\* A scan has visited all the items of the bucket, and a call has not met its key.
Met(it, o, b, v) ==
    \A a \in Addresses : it[a].live /\ get_bucket(it[a].key) = b =>
        /\ o \notin Scans => it[a].key # o.key
        /\ o \in Scans => v[it[a].key] = 1

\* So it is at the end of a chain.
LEMMA WalkEnds ==
    ASSUME NEW mo, NEW it, NEW o, NEW q, NEW b \in Buckets, NEW v, Walk(mo, it, o, q, b, v),
           Follow(mo, it, q) = null, null \notin Addresses
    PROVE  Met(it, o, b, v)
<1>1. PICK n \in Nat : \E c \in [1..n -> Addresses] : \E i \in 0..n :
         Position(mo, it, o, q, b, v, n, c, i)
  BY WalkFacts, Zenon
<1>2. PICK c \in [1..n -> Addresses] : \E i \in 0..n : Position(mo, it, o, q, b, v, n, c, i)
  BY <1>1, Zenon
<1>3. PICK i \in 0..n : Position(mo, it, o, q, b, v, n, c, i)  BY <1>2, Zenon
<1>4. i = n
  <2> SUFFICES ASSUME i < n PROVE FALSE  OBVIOUS
  <2>1. null = c[i + 1]  BY <1>3, Zenon DEF Position
  <2>2. c[i + 1] \in Addresses  OBVIOUS
  <2> QED  BY <2>1, <2>2
<1>5. ASSUME NEW a \in Addresses, it[a].live, get_bucket(it[a].key) = b
      PROVE  /\ o \notin Scans => it[a].key # o.key
             /\ o \in Scans => v[it[a].key] = 1
  <2>1. PICK j \in 1..n : c[j] = a  BY <1>3, <1>5, Zenon DEF Position, Chain
  <2>2. j <= n  OBVIOUS
  <2>3. /\ o \notin Scans => \A x \in 1..n : it[c[x]].key # o.key
        /\ o \in Scans => \A x \in 1..n : v[it[c[x]].key] = IF x <= n THEN 1 ELSE 0
    BY <1>3, <1>4, Zenon DEF Position, Stands
  <2> QED  BY <2>1, <2>2, <2>3, Zenon
<1> QED  BY <1>5, Zenon DEF Met

\* A walk goes on behind an item with another key, and a scan behind an item that it
\* has visited.
LEMMA WalkGoesOn ==
    ASSUME NEW mo, NEW it, NEW o, NEW q, NEW b \in Buckets, NEW v, Walk(mo, it, o, q, b, v),
           NEW a, a = Follow(mo, it, q), a # null,
           o \notin Scans => it[a].key # o.key,
           \A x \in Addresses : it[x].live => it[x].key \in Keys,
           NEW w, o \in Scans => /\ w[it[a].key] = 1
                                 /\ \A k \in Keys : k # it[a].key => w[k] = v[k]
    PROVE  Walk(mo, it, o, Next_of(a), b, w)
<1>1. PICK n \in Nat : \E c \in [1..n -> Addresses] : \E i \in 0..n :
         Position(mo, it, o, q, b, v, n, c, i)
  BY WalkFacts, Zenon
<1>2. PICK c \in [1..n -> Addresses] : \E i \in 0..n : Position(mo, it, o, q, b, v, n, c, i)
  BY <1>1, Zenon
<1>3. PICK i \in 0..n : Position(mo, it, o, q, b, v, n, c, i)  BY <1>2, Zenon
<1>4. i < n /\ a = c[i + 1]
  <2>1. i # n  BY <1>3, Zenon DEF Position
  <2>2. i < n  BY <2>1
  <2> QED  BY <1>3, <2>2, Zenon DEF Position
<1> DEFINE m == i + 1
<1>5. m \in 1..n /\ m \in 0..n /\ m # 0 /\ m > 0  BY <1>4
<1>6. \A j \in 1..m : j \in 1..i \/ j = m  OBVIOUS
<1>7. \A j \in 1..n : (j <= m) <=> (j <= i \/ j = m)  OBVIOUS
<1>8. a = c[m]  BY <1>4
<1> HIDE DEF m
<1>9. o \notin Scans => \A j \in 1..m : it[c[j]].key # o.key
  BY <1>3, <1>6, <1>8, Zenon DEF Position, Stands
<1>10. o \in Scans => \A j \in 1..n : w[it[c[j]].key] = IF j <= m THEN 1 ELSE 0
  <2> SUFFICES ASSUME o \in Scans, NEW j \in 1..n
               PROVE  w[it[c[j]].key] = IF j <= m THEN 1 ELSE 0
    OBVIOUS
  <2>1. v[it[c[j]].key] = IF j <= i THEN 1 ELSE 0  BY <1>3, Zenon DEF Position, Stands
  <2>2. CASE j = m  BY <1>7, <1>8, <2>2, Zenon
  <2>3. CASE j # m
    <3>1. it[c[j]].key # it[a].key  BY <1>3, <1>5, <1>8, <2>3, Zenon DEF Position, Chain
    <3>2. c[j] \in Addresses  OBVIOUS
    <3>3. it[c[j]].key \in Keys  BY <1>3, <3>2, Zenon DEF Position, Chain
    <3> QED  BY <1>7, <2>1, <2>3, <3>1, <3>3, Zenon
  <2> QED  BY <2>2, <2>3
<1>11. Stands(it, o, Next_of(a), b, w, n, c, m)  BY <1>5, <1>8, <1>9, <1>10, Zenon DEF Stands
<1> QED  BY <1>3, <1>5, <1>11, Zenon DEF Position, Walk

\* What Unlink does to the pointers and the items.
Unlinked(mo, it, mo2, it2, q, a) ==
    /\ ~ it2[a].live
    /\ \A x \in Addresses : x # a => /\ it2[x].live <=> it[x].live
                                     /\ it2[x].key = it[x].key
    /\ \A x \in Addresses : x # a /\ ~ (q.in = "item" /\ x = q.at) => it2[x].next = it[x].next
    /\ q.in = "item" /\ q.at # a => it2[q.at].next = it[a].next
    /\ q.in = "bucket" => mo2[q.at] = it[a].next
    /\ \A b \in Buckets : ~ (q.in = "bucket" /\ b = q.at) => mo2[b] = mo[b]

\* Item i + 1 of a chain is unlinked: the rest is the chain, and the walk stands where
\* it stood.
LEMMA UnlinkedChain ==
    ASSUME NEW mo, NEW it, NEW mo2, NEW it2, NEW o, NEW q, NEW b \in Buckets, NEW v,
           NEW n \in Nat, NEW c \in [1..n -> Addresses], NEW i \in 0..n, i < n,
           Position(mo, it, o, q, b, v, n, c, i), Unlinked(mo, it, mo2, it2, q, c[i + 1])
    PROVE  Walk(mo2, it2, o, q, b, v)
<1> DEFINE a == c[i + 1]
           m == n - 1
           at(j) == IF j <= i THEN j ELSE j + 1
           d == [j \in 1..m |-> c[at(j)]]
<1>1. m \in Nat /\ i \in 0..m /\ i + 1 \in 1..n /\ a \in Addresses  OBVIOUS
<1>2. \A j \in 1..m : at(j) \in 1..n /\ at(j) # i + 1  OBVIOUS
<1>3. \A j, k \in 1..m : at(j) = at(k) => j = k  OBVIOUS
<1>4. d \in [1..m -> Addresses] /\ \A j \in 1..m : d[j] = c[at(j)]
  <2> HIDE DEF at, m
  <2>1. \A j \in 1..m : c[at(j)] \in Addresses  BY <1>2
  <2> QED  BY <2>1
<1>5. \A j \in 1..n : j # i + 1 => at(IF j <= i THEN j ELSE j - 1) = j
                                   /\ (IF j <= i THEN j ELSE j - 1) \in 1..m
  OBVIOUS
<1>6. /\ mo[b] = c[1] /\ it[c[n]].next = null
      /\ \A j \in 1..n : j < n => it[c[j]].next = c[j + 1]
      /\ \A j \in 1..n : it[c[j]].live /\ get_bucket(it[c[j]].key) = b
      /\ \A j, k \in 1..n : it[c[j]].key = it[c[k]].key => j = k
      /\ \A x \in Addresses : it[x].live /\ get_bucket(it[x].key) = b => \E j \in 1..n : c[j] = x
  <2>1. n > 0  OBVIOUS
  <2> QED  BY <2>1, Zenon DEF Position, Chain
<1>7. \A j, k \in 1..n : c[j] = c[k] => j = k  BY <1>6, Zenon
<1>8. \A j \in 1..m : d[j] # a  BY <1>1, <1>2, <1>4, <1>7, Zenon
<1>9. \A j \in 1..m : it2[d[j]].live /\ it2[d[j]].key = it[c[at(j)]].key
  <2>1. \A j \in 1..m : d[j] \in Addresses  BY <1>4, Zenon
  <2>2. \A j \in 1..m : (it2[d[j]].live <=> it[d[j]].live) /\ it2[d[j]].key = it[d[j]].key
    BY <1>8, <2>1, Zenon DEF Unlinked
  <2>3. \A j \in 1..m : it[d[j]].live  BY <1>2, <1>4, <1>6, Zenon
  <2> QED  BY <1>4, <2>2, <2>3, Zenon
<1>10. /\ i = 0 => q.in = "bucket" /\ q.at = b
       /\ i > 0 => q.in = "item" /\ q.at = c[i]
  BY Zenon DEF Position
<1>11. it[a].next = IF i + 1 < n THEN c[i + 2] ELSE null
  <2>1. i + 1 < n => it[c[i + 1]].next = c[(i + 1) + 1]  BY <1>1, <1>6
  <2>2. ~ (i + 1 < n) => it[c[i + 1]].next = null  BY <1>6
  <2> QED  BY <2>1, <2>2
<1>12. it[a].next = IF i < m THEN d[i + 1] ELSE null
  <2>1. CASE i < m
    <3>1. i + 1 \in 1..m /\ at(i + 1) = i + 2 /\ i + 1 < n  BY <2>1
    <3>2. d[i + 1] = c[i + 2]  BY <1>4, <3>1, Zenon
    <3> QED  BY <1>11, <2>1, <3>1, <3>2, Zenon
  <2>2. CASE ~ (i < m)
    <3>1. ~ (i + 1 < n)  BY <2>2
    <3> QED  BY <1>11, <2>2, <3>1, Zenon
  <2> QED  BY <2>1, <2>2
<1>13. \A j \in 1..m : j < m => it2[d[j]].next = d[j + 1]
  <2> SUFFICES ASSUME NEW j \in 1..m, j < m PROVE it2[d[j]].next = d[j + 1]  BY Zenon
  <2>1. CASE j = i
    <3>1. d[j] = c[i] /\ i > 0 /\ i < m  BY <1>4, <2>1
    <3>2. q.in = "item" /\ q.at = d[j]  BY <1>10, <3>1, Zenon
    <3>3. it2[d[j]].next = it[a].next  BY <1>8, <3>2, Zenon DEF Unlinked
    <3> QED  BY <1>12, <2>1, <3>1, <3>3, Zenon
  <2>2. CASE j # i
    <3>1. j + 1 \in 1..m /\ at(j) < n /\ at(j + 1) = at(j) + 1  BY <2>2
    <3>2. d[j] \in Addresses /\ d[j] = c[at(j)]  BY <1>4, Zenon
    <3>3. ~ (q.in = "item" /\ d[j] = q.at)
      <4>1. i > 0 => i \in 1..n /\ at(j) # i  BY <2>2
      <4>2. ~ (i > 0) => i = 0  OBVIOUS
      <4>3. CASE i > 0
        <5>1. c[at(j)] # c[i]  BY <1>2, <1>7, <4>1, <4>3, Zenon
        <5> QED  BY <1>10, <3>2, <4>3, <5>1, Zenon
      <4>4. CASE i = 0
        <5>1. "bucket" # "item"  OBVIOUS
        <5> QED  BY <1>10, <4>4, <5>1, Zenon
      <4> QED  BY <4>2, <4>3, <4>4
    <3>4. it2[d[j]].next = it[d[j]].next  BY <1>8, <3>2, <3>3, Zenon DEF Unlinked
    <3>5. it[c[at(j)]].next = c[at(j) + 1]  BY <1>2, <1>6, <3>1, Zenon
    <3>6. d[j + 1] = c[at(j + 1)]  BY <1>4, <3>1, Zenon
    <3> QED  BY <3>1, <3>2, <3>4, <3>5, <3>6, Zenon
  <2> QED  BY <2>1, <2>2
<1>14. /\ m = 0 => mo2[b] = null
       /\ m > 0 => mo2[b] = d[1]
  <2>1. CASE i = 0
    <3>1. mo2[b] = it[a].next  BY <1>10, <2>1, Zenon DEF Unlinked
    <3>2. m = 0 => ~ (i < m)  BY <2>1
    <3>3. m > 0 => i < m /\ i + 1 = 1  BY <2>1
    <3> QED  BY <1>12, <3>1, <3>2, <3>3, Zenon
  <2>2. CASE i > 0
    <3>1. "bucket" # "item"  OBVIOUS
    <3>2. mo2[b] = mo[b]  BY <1>10, <2>2, <3>1, Zenon DEF Unlinked
    <3>3. m > 0 /\ m # 0 /\ 1 \in 1..m /\ at(1) = 1  BY <2>2
    <3> QED  BY <1>4, <1>6, <3>2, <3>3, Zenon
  <2> QED  BY <2>1, <2>2
<1>15. m > 0 => it2[d[m]].next = null
  <2> SUFFICES ASSUME m > 0 PROVE it2[d[m]].next = null  BY Zenon
  <2>1. m \in 1..m  OBVIOUS
  <2>2. d[m] \in Addresses /\ d[m] = c[at(m)] /\ d[m] # a  BY <1>4, <1>8, <2>1, Zenon
  <2>3. CASE i = m
    <3>1. at(m) = i /\ i > 0 /\ ~ (i < m)  BY <2>3
    <3>2. q.in = "item" /\ q.at = d[m]  BY <1>10, <2>2, <3>1, Zenon
    <3>3. it2[d[m]].next = it[a].next  BY <2>2, <3>2, Zenon DEF Unlinked
    <3> QED  BY <1>12, <3>1, <3>3, Zenon
  <2>4. CASE i < m
    <3>1. at(m) = n /\ n \in 1..n /\ i # n  BY <2>4
    <3>2. ~ (q.in = "item" /\ d[m] = q.at)
      <4>1. CASE i > 0
        <5>1. i \in 1..n  BY <4>1
        <5>2. c[n] # c[i]  BY <1>7, <3>1, <5>1, Zenon
        <5> QED  BY <1>10, <2>2, <3>1, <4>1, <5>2, Zenon
      <4>2. CASE i = 0
        <5>1. "bucket" # "item"  OBVIOUS
        <5> QED  BY <1>10, <4>2, <5>1, Zenon
      <4> QED  BY <4>1, <4>2
    <3>3. it2[d[m]].next = it[d[m]].next  BY <2>2, <3>2, Zenon DEF Unlinked
    <3> QED  BY <1>6, <2>2, <3>1, <3>3, Zenon
  <2> QED  BY <1>1, <2>3, <2>4
<1>16. \A j, k \in 1..m : it2[d[j]].key = it2[d[k]].key => j = k
  <2> SUFFICES ASSUME NEW j \in 1..m, NEW k \in 1..m, it2[d[j]].key = it2[d[k]].key
               PROVE  j = k
    BY Zenon
  <2> HIDE DEF at, d, m
  <2>1. at(j) \in 1..n /\ at(k) \in 1..n  BY <1>2, Zenon
  <2>2. it[c[at(j)]].key = it[c[at(k)]].key  BY <1>9, Zenon
  <2>3. at(j) = at(k)  BY <1>6, <2>1, <2>2, Zenon
  <2> QED  BY <1>3, <2>3, Zenon
<1>17. \A j \in 1..m : it2[d[j]].live /\ get_bucket(it2[d[j]].key) = b
  <2> SUFFICES ASSUME NEW j \in 1..m
               PROVE  it2[d[j]].live /\ get_bucket(it2[d[j]].key) = b
    BY Zenon
  <2> HIDE DEF at, d, m
  <2>1. at(j) \in 1..n  BY <1>2, Zenon
  <2>2. get_bucket(it[c[at(j)]].key) = b  BY <1>6, <2>1, Zenon
  <2>3. it2[d[j]].live /\ it2[d[j]].key = it[c[at(j)]].key  BY <1>9, Zenon
  <2> QED  BY <2>2, <2>3, Zenon
<1>18. ASSUME NEW x \in Addresses, it2[x].live, get_bucket(it2[x].key) = b
       PROVE  \E j \in 1..m : d[j] = x
  <2>1. x # a  BY <1>18, Zenon DEF Unlinked
  <2>2. it[x].live /\ get_bucket(it[x].key) = b  BY <1>18, <2>1, Zenon DEF Unlinked
  <2>3. PICK j \in 1..n : c[j] = x  BY <1>6, <2>2, Zenon
  <2>4. j # i + 1  BY <2>1, <2>3, Zenon
  <2> DEFINE k == IF j <= i THEN j ELSE j - 1
  <2>5. k \in 1..m /\ at(k) = j  BY <1>5, <2>4, Zenon
  <2> HIDE DEF k
  <2> QED  BY <1>4, <2>3, <2>5, Zenon
<1>19. Stands(it2, o, q, b, v, m, d, i)
  <2>1. Stands(it, o, q, b, v, n, c, i)  BY Zenon DEF Position
  <2>2. i > 0 => d[i] = c[i]
    <3>1. i > 0 => i \in 1..m /\ at(i) = i  BY <1>1
    <3> QED  BY <1>4, <3>1, Zenon
  <2>3. o \notin Scans => \A j \in 1..i : it2[d[j]].key # o.key
    <3>1. \A j \in 1..i : j \in 1..m /\ at(j) = j  BY <1>1
    <3> QED  BY <1>9, <2>1, <3>1, Zenon DEF Stands
  <2>4. o \in Scans => \A j \in 1..m : v[it2[d[j]].key] = IF j <= i THEN 1 ELSE 0
    <3>1. \A j \in 1..m : at(j) <= i <=> j <= i  OBVIOUS
    <3> QED  BY <1>2, <1>9, <2>1, <3>1, Zenon DEF Stands
  <2> QED  BY <2>1, <2>2, <2>3, <2>4, Zenon DEF Stands
<1> HIDE DEF d, m, at, a
<1>20. Chain(mo2, it2, b, m, d)
  <2>1. Ordered(m)
    <3>1. n > 0  OBVIOUS
    <3>2. Ordered(n)  BY Zenon DEF Position, Chain
    <3> QED  BY <3>1, <3>2, OrderedFacts, Zenon DEF m
  <2> QED  BY <1>13, <1>14, <1>15, <1>16, <1>17, <1>18, <2>1, Zenon DEF Chain
<1> QED  BY <1>1, <1>4, <1>19, <1>20, Zenon DEF Walk

\* The other buckets keep their items, since the pointer and the item are in this one.
LEMMA UnlinkedWalk ==
    ASSUME NEW mo, NEW it, NEW mo2, NEW it2, NEW o, NEW q, NEW b \in Buckets, NEW v, NEW a,
           Walk(mo, it, o, q, b, v), a = Follow(mo, it, q), a # null,
           Unlinked(mo, it, mo2, it2, q, a)
    PROVE  /\ Walk(mo2, it2, o, q, b, v)
           /\ \A e \in Buckets : e # b => Kept(mo, it, mo2, it2, e)
<1>1. Walk(mo2, it2, o, q, b, v)
  <2>1. PICK n \in Nat : \E c \in [1..n -> Addresses] : \E i \in 0..n :
           Position(mo, it, o, q, b, v, n, c, i)
    BY WalkFacts, Zenon
  <2>2. PICK c \in [1..n -> Addresses] : \E i \in 0..n : Position(mo, it, o, q, b, v, n, c, i)
    BY <2>1, Zenon
  <2>3. PICK i \in 0..n : Position(mo, it, o, q, b, v, n, c, i)  BY <2>2, Zenon
  <2>4. i < n
    <3>1. i # n  BY <2>3, Zenon DEF Position
    <3> QED  BY <3>1
  <2>5. a = c[i + 1]  BY <2>3, <2>4, Zenon DEF Position
  <2>6. Unlinked(mo, it, mo2, it2, q, c[i + 1])  BY <2>5, Zenon
  <2> QED  BY <2>3, <2>4, <2>6, UnlinkedChain
<1>2. a \in Addresses /\ it[a].live /\ get_bucket(it[a].key) = b
  <2>1. Follow(mo, it, q) # null  BY Zenon
  <2>2. Ahead(it, o, b, v, Follow(mo, it, q))  BY <2>1, WalkFinds, Zenon
  <2>3. Ahead(it, o, b, v, a)  BY <2>2, Zenon
  <2> QED  BY <2>3, Zenon DEF Ahead
<1>3. \/ q.in = "bucket" /\ q.at = b
      \/ /\ q.in = "item" /\ q.at \in Addresses
         /\ it[q.at].live /\ get_bucket(it[q.at].key) = b
  BY WalkHolds, Zenon
<1>4. ASSUME NEW e \in Buckets, e # b PROVE Kept(mo, it, mo2, it2, e)
  <2>1. mo2[e] = mo[e]
    <3>1. ~ (q.in = "bucket" /\ e = q.at)  BY <1>3, <1>4
    <3> QED  BY <3>1, Zenon DEF Unlinked
  <2>2. ASSUME NEW x \in Addresses, it[x].live, get_bucket(it[x].key) = e
        PROVE  it2[x].live /\ it2[x].key = it[x].key /\ it2[x].next = it[x].next
    <3>1. x # a /\ ~ (q.in = "item" /\ x = q.at)
      <4>1. "bucket" # "item"  OBVIOUS
      <4> QED  BY <1>2, <1>3, <1>4, <2>2, <4>1, Zenon
    <3> QED  BY <2>2, <3>1, Zenon DEF Unlinked
  <2>3. ASSUME NEW x \in Addresses, it2[x].live, get_bucket(it2[x].key) = e
        PROVE  it[x].live /\ get_bucket(it[x].key) = e
    <3>1. x # a  BY <2>3, Zenon DEF Unlinked
    <3> QED  BY <2>3, <3>1, Zenon DEF Unlinked
  <2> QED  BY <2>1, <2>2, <2>3, Zenon DEF Kept
<1> QED  BY <1>1, <1>4, Zenon

\* What Insert does.
Inserted(mo, it, mo2, it2, b, a, k) ==
    /\ it2[a].live /\ it2[a].key = k /\ it2[a].next = mo[b]
    /\ \A x \in Addresses : x # a => it2[x] = it[x]
    /\ mo2[b] = a /\ \A e \in Buckets : e # b => mo2[e] = mo[e]

\* No item of bucket b has key k.
Lacks(it, b, k) ==
    \A x \in Addresses : it[x].live /\ get_bucket(it[x].key) = b => it[x].key # k

\* A new item at the head of a chain that does not have its key.
LEMMA InsertedChain ==
    ASSUME NEW mo, NEW it, NEW mo2, NEW it2, NEW b \in Buckets, NEW a \in Addresses, NEW k,
           HasChain(mo, it, b), ~ it[a].live, get_bucket(k) = b,
           Lacks(it, b, k), Inserted(mo, it, mo2, it2, b, a, k)
    PROVE  /\ HasChain(mo2, it2, b)
           /\ \A e \in Buckets : e # b => Kept(mo, it, mo2, it2, e)
<1>1. PICK n \in Nat : \E c \in [1..n -> Addresses] : Chain(mo, it, b, n, c)
  BY Zenon DEF HasChain
<1>2. PICK c \in [1..n -> Addresses] : Chain(mo, it, b, n, c)  BY <1>1, Zenon
<1> DEFINE m == n + 1
           d == [j \in 1..m |-> IF j = 1 THEN a ELSE c[j - 1]]
<1>3. m \in Nat /\ m > 0 /\ m # 0 /\ 1 \in 1..m  OBVIOUS
<1>4. /\ d \in [1..m -> Addresses] /\ d[1] = a
      /\ \A j \in 1..n : j + 1 \in 1..m /\ d[j + 1] = c[j]
      /\ \A j \in 1..m : j = 1 \/ \E h \in 1..n : j = h + 1
  <2>1. \A j \in 1..m : j # 1 => j - 1 \in 1..n  OBVIOUS
  <2>2. \A j \in 1..m : (IF j = 1 THEN a ELSE c[j - 1]) \in Addresses  BY <2>1
  <2>3. d \in [1..m -> Addresses]  BY <2>2, Zenon
  <2>4. \A j \in 1..n : j + 1 \in 1..m /\ j + 1 # 1 /\ (j + 1) - 1 = j  OBVIOUS
  <2>5. \A j \in 1..m : j # 1 => j = (j - 1) + 1  OBVIOUS
  <2>6. d[1] = a /\ \A j \in 1..n : d[j + 1] = c[j]  BY <1>3, <2>4, Zenon
  <2> QED  BY <2>1, <2>3, <2>4, <2>5, <2>6, Zenon
<1> HIDE DEF d
<1>5. \A j \in 1..n : c[j] \in Addresses /\ c[j] # a /\ it2[c[j]] = it[c[j]]
  <2>1. \A j \in 1..n : c[j] \in Addresses  OBVIOUS
  <2>2. \A j \in 1..n : c[j] # a  BY <1>2, Zenon DEF Chain
  <2> QED  BY <2>1, <2>2, Zenon DEF Inserted
<1>6. /\ n = 0 => mo[b] = null
      /\ n > 0 => mo[b] = c[1] /\ it[c[n]].next = null
      /\ \A j \in 1..n : j < n => it[c[j]].next = c[j + 1]
      /\ \A j \in 1..n : it[c[j]].live /\ get_bucket(it[c[j]].key) = b
      /\ \A i, j \in 1..n : it[c[i]].key = it[c[j]].key => i = j
      /\ \A x \in Addresses : it[x].live /\ get_bucket(it[x].key) = b => \E j \in 1..n : c[j] = x
  BY <1>2, Zenon DEF Chain
<1>7. \A j \in 1..n : it[c[j]].key # k  BY <1>5, <1>6, Zenon DEF Lacks
<1>8. it2[a].live /\ it2[a].key = k /\ it2[a].next = mo[b] /\ mo2[b] = a  BY Zenon DEF Inserted
<1>9. it2[d[m]].next = null
  <2>1. CASE n = 0
    <3>1. m = 1  BY <2>1
    <3> QED  BY <1>4, <1>6, <1>8, <2>1, <3>1, Zenon
  <2>2. CASE n > 0
    <3>1. n \in 1..n  BY <2>2
    <3>2. d[m] = c[n]  BY <1>4, <3>1, Zenon
    <3> QED  BY <1>5, <1>6, <2>2, <3>1, <3>2, Zenon
  <2> QED  BY <2>1, <2>2
<1>10. \A j \in 1..m : j < m => it2[d[j]].next = d[j + 1]
  <2> SUFFICES ASSUME NEW j \in 1..m, j < m PROVE it2[d[j]].next = d[j + 1]  BY Zenon
  <2>1. CASE j = 1
    <3>1. n > 0 /\ 1 \in 1..n  BY <2>1
    <3>2. d[j + 1] = c[1]  BY <1>4, <2>1, <3>1, Zenon
    <3> QED  BY <1>4, <1>6, <1>8, <2>1, <3>1, <3>2, Zenon
  <2>2. CASE j # 1
    <3>1. PICK h \in 1..n : j = h + 1  BY <1>4, <2>2, Zenon
    <3>2. h < n /\ h + 1 \in 1..n  BY <3>1
    <3>3. d[j] = c[h] /\ d[j + 1] = c[h + 1]  BY <1>4, <3>1, <3>2, Zenon
    <3>4. it[c[h]].next = c[h + 1]  BY <1>6, <3>2, Zenon
    <3> QED  BY <1>5, <3>3, <3>4, Zenon
  <2> QED  BY <2>1, <2>2
<1>11. \A j \in 1..m : it2[d[j]].live /\ get_bucket(it2[d[j]].key) = b
  <2> SUFFICES ASSUME NEW j \in 1..m
               PROVE  it2[d[j]].live /\ get_bucket(it2[d[j]].key) = b
    BY Zenon
  <2>1. CASE j = 1  BY <1>4, <1>8, <2>1, Zenon
  <2>2. CASE j # 1
    <3>1. PICK h \in 1..n : j = h + 1  BY <1>4, <2>2, Zenon
    <3>2. it2[d[j]] = it[c[h]]  BY <1>4, <1>5, <3>1, Zenon
    <3>3. it[c[h]].live /\ get_bucket(it[c[h]].key) = b  BY <1>6, Zenon
    <3> QED  BY <3>2, <3>3, Zenon
  <2> QED  BY <2>1, <2>2
<1>12. ASSUME NEW i \in 1..m, NEW j \in 1..m, it2[d[i]].key = it2[d[j]].key PROVE i = j
  <2>1. i = 1 \/ \E h \in 1..n : i = h + 1  BY <1>4, Zenon
  <2>2. j = 1 \/ \E h \in 1..n : j = h + 1  BY <1>4, Zenon
  <2>3. \A h \in 1..n : it2[d[h + 1]].key = it[c[h]].key  BY <1>4, <1>5, Zenon
  <2>4. it2[d[1]].key = k  BY <1>4, <1>8, Zenon
  <2>5. CASE i = 1 /\ j = 1  BY <2>5, Zenon
  <2>6. CASE i = 1 /\ j # 1
    <3>1. PICK h \in 1..n : j = h + 1  BY <2>2, <2>6, Zenon
    <3> QED  BY <1>7, <1>12, <2>3, <2>4, <2>6, <3>1, Zenon
  <2>7. CASE i # 1 /\ j = 1
    <3>1. PICK h \in 1..n : i = h + 1  BY <2>1, <2>7, Zenon
    <3> QED  BY <1>7, <1>12, <2>3, <2>4, <2>7, <3>1, Zenon
  <2>8. CASE i # 1 /\ j # 1
    <3>1. PICK h \in 1..n : i = h + 1  BY <2>1, <2>8, Zenon
    <3>2. PICK g \in 1..n : j = g + 1  BY <2>2, <2>8, Zenon
    <3>3. it[c[h]].key = it[c[g]].key  BY <1>12, <2>3, <3>1, <3>2, Zenon
    <3>4. h = g  BY <1>6, <3>3, Zenon
    <3> QED  BY <3>1, <3>2, <3>4, Zenon
  <2> QED  BY <2>5, <2>6, <2>7, <2>8, Zenon
<1>13. ASSUME NEW x \in Addresses, it2[x].live, get_bucket(it2[x].key) = b
       PROVE  \E j \in 1..m : d[j] = x
  <2>1. CASE x = a  BY <1>3, <1>4, <2>1, Zenon
  <2>2. CASE x # a
    <3>1. it[x].live /\ get_bucket(it[x].key) = b  BY <1>13, <2>2, Zenon DEF Inserted
    <3>2. PICK j \in 1..n : c[j] = x  BY <1>6, <3>1, Zenon
    <3> QED  BY <1>4, <3>2, Zenon
  <2> QED  BY <2>1, <2>2
<1>14. HasChain(mo2, it2, b)
  <2> HIDE DEF m
  <2>1. Ordered(m)
    <3>1. Ordered(n)  BY <1>2, Zenon DEF Chain
    <3> QED  BY <3>1, OrderedFacts, Zenon DEF m
  <2>2. Chain(mo2, it2, b, m, d)
    BY <2>1, <1>3, <1>4, <1>8, <1>9, <1>10, <1>11, <1>12, <1>13, Zenon DEF Chain
  <2> QED  BY <1>3, <1>4, <2>2, Zenon DEF HasChain
<1>15. ASSUME NEW e \in Buckets, e # b PROVE Kept(mo, it, mo2, it2, e)
  BY <1>15, Zenon DEF Inserted, Kept
<1> QED  BY <1>14, <1>15, Zenon


\* Buckets are numbers, and every key has one.
LEMMA BucketFacts ==
    /\ 0 \in Buckets /\ Buckets \subseteq Nat
    /\ \A k \in Keys : get_bucket(k) \in Buckets
    /\ \A b \in Buckets : b + 1 \notin Buckets => \A e \in Buckets : e <= b
<1> DEFINE s == m_size
<1>1. s \in Nat \ {0}  BY SizeAssumption
<1>2. Buckets = 0..(s - 1)  BY DEF Buckets
<1>3. \A k \in Keys : get_bucket(k) = Hash[k] % s /\ Hash[k] \in Nat
  BY HashMapAssumption DEF get_bucket
<1> HIDE DEF s
<1> QED  BY <1>1, <1>2, <1>3

\* What a thread holds is not null.
LEMMA NullFacts == null \notin Addresses /\ null \notin AllThreads
BY HashMapAssumption DEF AllThreads

-----------------------------------------------------------------------------
(***************************************************************************)
(* The items of sound chains make a map.                                   *)
(***************************************************************************)

\* An item is a record of its four fields.
IsItem(i) ==
    /\ i = [live |-> i.live, key |-> i.key, object |-> i.object, next |-> i.next]
    /\ i.live \in BOOLEAN /\ i.next \in Addresses \cup {null} /\ (i.live => i.key \in Keys)

\* No two items have one key.
Unique(it) ==
    \A a, x \in Addresses : it[a].live /\ it[x].live /\ it[a].key = it[x].key => a = x

LEMMA KeysAreUnique ==
    ASSUME NEW mo, NEW it, \A a \in Addresses : IsItem(it[a]),
           \A b \in Buckets : HasChain(mo, it, b)
    PROVE  Unique(it)
<1> SUFFICES ASSUME NEW a \in Addresses, NEW x \in Addresses,
                    it[a].live, it[x].live, it[a].key = it[x].key
             PROVE  a = x
  BY Zenon DEF Unique
<1> DEFINE b == get_bucket(it[a].key)
<1>1. it[a].key \in Keys  BY Zenon DEF IsItem
<1>2. b \in Buckets  BY <1>1, BucketFacts, Zenon
<1>3. HasChain(mo, it, b)  BY <1>2, Zenon
<1>4. PICK n \in Nat : \E c \in [1..n -> Addresses] : Chain(mo, it, b, n, c)
  BY <1>3, Zenon DEF HasChain
<1>5. PICK c \in [1..n -> Addresses] : Chain(mo, it, b, n, c)  BY <1>4, Zenon
<1>6. PICK i \in 1..n : c[i] = a  BY <1>5, Zenon DEF Chain
<1>7. PICK j \in 1..n : c[j] = x
  <2>1. get_bucket(it[x].key) = b  BY Zenon
  <2> HIDE DEF b
  <2> QED  BY <1>5, <2>1, Zenon DEF Chain
<1>8. i = j  BY <1>5, <1>6, <1>7, Zenon DEF Chain
<1> QED  BY <1>6, <1>7, <1>8

\* The keys of items, the data of a key, and the map.
KeysIn(it) == {it[a].key : a \in {a \in Addresses : it[a].live}}

DataIn(it, k) ==
    contents(it[CHOOSE a \in Addresses : it[a].live /\ it[a].key = k].object)

MapOf(it) == [k \in KeysIn(it) |-> DataIn(it, k)]

\* The data of a key are those of its item.
LEMMA DataOfItem ==
    ASSUME NEW it, Unique(it), NEW a \in Addresses, it[a].live
    PROVE  it[a].key \in KeysIn(it) /\ DataIn(it, it[a].key) = contents(it[a].object)
<1> DEFINE x == CHOOSE x \in Addresses : it[x].live /\ it[x].key = it[a].key
<1>1. \E y \in Addresses : it[y].live /\ it[y].key = it[a].key  BY Zenon
<1>2. x \in Addresses /\ it[x].live /\ it[x].key = it[a].key  BY <1>1, Zenon
<1>3. DataIn(it, it[a].key) = contents(it[x].object)  BY Zenon DEF DataIn
<1> HIDE DEF x
<1>4. x = a  BY <1>2, Zenon DEF Unique
<1>5. it[a].key \in KeysIn(it)  BY Zenon DEF KeysIn
<1> QED  BY <1>3, <1>4, <1>5, Zenon

\* A key is that of an item.
LEMMA KeyHasItem ==
    ASSUME NEW it, NEW k \in KeysIn(it)
    PROVE  \E a \in Addresses : it[a].live /\ it[a].key = k
BY Zenon DEF KeysIn

\* The items after a change to the object of the one at a, without it, and with a new one.
Altered(it, it2, a) ==
    /\ \A x \in Addresses : it2[x].live = it[x].live /\ it2[x].key = it[x].key
    /\ \A x \in Addresses : x # a => it2[x].object = it[x].object

Reduced(it, it2, a) ==
    /\ it[a].live /\ ~ it2[a].live
    /\ \A x \in Addresses : x # a => /\ it2[x].live <=> it[x].live
                                     /\ it2[x].key = it[x].key
    /\ \A x \in Addresses : x # a => it2[x].object = it[x].object

Enlarged(it, it2, a) ==
    ~ it[a].live /\ it2[a].live /\ \A x \in Addresses : x # a => it2[x] = it[x]

\* The map of items with data d for key k.
With(it, k, d) == [j \in KeysIn(it) \cup {k} |-> IF j = k THEN d ELSE MapOf(it)[j]]

\* The maps of such items.
LEMMA MapChanges ==
    ASSUME NEW it, NEW it2, Unique(it), Unique(it2), NEW a \in Addresses, it[a].live,
           Altered(it, it2, a)
    PROVE  MapOf(it2) = [MapOf(it) EXCEPT ![it[a].key] = contents(it2[a].object)]
<1> USE DEF Altered
<1> DEFINE d == contents(it2[a].object)
           j == it[a].key
<1>1. KeysIn(it2) = KeysIn(it)  BY Zenon DEF KeysIn
<1>2. ASSUME NEW k \in KeysIn(it)
      PROVE  DataIn(it2, k) = IF k = j THEN d ELSE DataIn(it, k)
  <2>1. PICK x \in Addresses : it[x].live /\ it[x].key = k  BY KeyHasItem, Zenon
  <2>2. it2[x].live /\ it2[x].key = k  BY <2>1, Zenon
  <2>3. DataIn(it2, k) = contents(it2[x].object)  BY <2>2, DataOfItem, Zenon
  <2>4. DataIn(it, k) = contents(it[x].object)  BY <2>1, DataOfItem, Zenon
  <2>5. CASE x = a  BY <2>1, <2>3, <2>5, Zenon
  <2>6. CASE x # a
    <3>1. k # j  BY <2>1, <2>6, Zenon DEF Unique
    <3> QED  BY <2>3, <2>4, <2>6, <3>1, Zenon
  <2> QED  BY <2>5, <2>6
<1> HIDE DEF d, j
<1>3. MapOf(it2) = [k \in KeysIn(it) |-> IF k = j THEN d ELSE DataIn(it, k)]
  BY <1>1, <1>2, Zenon DEF MapOf
<1>4. [MapOf(it) EXCEPT ![j] = d] = [k \in KeysIn(it) |-> IF k = j THEN d ELSE DataIn(it, k)]
  BY Zenon DEF MapOf
<1> QED  BY <1>3, <1>4, Zenon DEF d, j

LEMMA MapDrops ==
    ASSUME NEW it, NEW it2, Unique(it), Unique(it2), NEW a \in Addresses,
           Reduced(it, it2, a)
    PROVE  MapOf(it2) = [k \in KeysIn(it) \ {it[a].key} |-> MapOf(it)[k]]
<1> USE DEF Reduced
<1> DEFINE j == it[a].key
<1>1. ASSUME NEW k \in KeysIn(it) \ {j}
      PROVE  k \in KeysIn(it2) /\ DataIn(it2, k) = DataIn(it, k)
  <2>1. PICK x \in Addresses : it[x].live /\ it[x].key = k  BY KeyHasItem, Zenon
  <2>2. x # a  BY <2>1, Zenon
  <2>3. it2[x].live /\ it2[x].key = k /\ it2[x].object = it[x].object  BY <2>1, <2>2, Zenon
  <2>4. k \in KeysIn(it2) /\ DataIn(it2, k) = contents(it2[x].object)
    BY <2>3, DataOfItem, Zenon
  <2>5. DataIn(it, k) = contents(it[x].object)  BY <2>1, DataOfItem, Zenon
  <2> QED  BY <2>3, <2>4, <2>5, Zenon
<1>2. ASSUME NEW k \in KeysIn(it2) PROVE k \in KeysIn(it) \ {j}
  <2>1. PICK x \in Addresses : it2[x].live /\ it2[x].key = k  BY KeyHasItem, Zenon
  <2>2. x # a  BY <2>1, Zenon
  <2>3. it[x].live /\ it[x].key = k  BY <2>1, <2>2, Zenon
  <2>4. k # j  BY <2>2, <2>3, Zenon DEF Unique
  <2> QED  BY <2>3, <2>4, Zenon DEF KeysIn
<1> HIDE DEF j
<1>3. KeysIn(it2) = KeysIn(it) \ {j}  BY <1>1, <1>2, Zenon
<1>4. \A k \in KeysIn(it) : MapOf(it)[k] = DataIn(it, k)  BY Zenon DEF MapOf
<1>5. \A k \in KeysIn(it) \ {j} : DataIn(it2, k) = MapOf(it)[k]  BY <1>1, <1>4, Zenon
<1>6. MapOf(it2) = [k \in KeysIn(it) \ {j} |-> DataIn(it2, k)]  BY <1>3, Zenon DEF MapOf
<1>7. [k \in KeysIn(it) \ {j} |-> DataIn(it2, k)] = [k \in KeysIn(it) \ {j} |-> MapOf(it)[k]]
  BY <1>5, Zenon
<1> QED  BY <1>6, <1>7, Zenon DEF j

LEMMA MapGrows ==
    ASSUME NEW it, NEW it2, Unique(it), Unique(it2), NEW a \in Addresses,
           Enlarged(it, it2, a)
    PROVE  MapOf(it2) = With(it, it2[a].key, contents(it2[a].object))
<1> USE DEF Enlarged
<1> DEFINE j == it2[a].key
           d == contents(it2[a].object)
<1>1. j \in KeysIn(it2) /\ DataIn(it2, j) = d  BY DataOfItem, Zenon
<1>2. ASSUME NEW k \in KeysIn(it)
      PROVE  k # j /\ k \in KeysIn(it2) /\ DataIn(it2, k) = DataIn(it, k)
  <2>1. PICK x \in Addresses : it[x].live /\ it[x].key = k  BY KeyHasItem, Zenon
  <2>2. x # a  BY <2>1, Zenon
  <2>3. it2[x].live /\ it2[x].key = k /\ it2[x].object = it[x].object  BY <2>1, <2>2, Zenon
  <2>4. k \in KeysIn(it2) /\ DataIn(it2, k) = contents(it2[x].object)
    BY <2>3, DataOfItem, Zenon
  <2>5. DataIn(it, k) = contents(it[x].object)  BY <2>1, DataOfItem, Zenon
  <2>6. k # j  BY <2>2, <2>3, Zenon DEF Unique
  <2> QED  BY <2>3, <2>4, <2>5, <2>6, Zenon
<1>3. ASSUME NEW k \in KeysIn(it2) PROVE k = j \/ k \in KeysIn(it)
  <2>1. PICK x \in Addresses : it2[x].live /\ it2[x].key = k  BY KeyHasItem, Zenon
  <2>2. CASE x = a  BY <2>1, <2>2, Zenon
  <2>3. CASE x # a
    <3>1. it[x].live /\ it[x].key = k  BY <2>1, <2>3, Zenon
    <3> QED  BY <3>1, Zenon DEF KeysIn
  <2> QED  BY <2>2, <2>3
<1> HIDE DEF j, d
<1> DEFINE S == KeysIn(it) \cup {j}
<1>4. KeysIn(it2) = S  BY <1>1, <1>2, <1>3, Zenon
<1>5. \A k \in KeysIn(it) : MapOf(it)[k] = DataIn(it, k)  BY Zenon DEF MapOf
<1>6. \A k \in S : DataIn(it2, k) = IF k = j THEN d ELSE MapOf(it)[k]
  BY <1>1, <1>2, <1>5, Zenon
<1>7. MapOf(it2) = [k \in S |-> DataIn(it2, k)]  BY <1>4, Zenon DEF MapOf
<1>8. [k \in S |-> DataIn(it2, k)] = [k \in S |-> IF k = j THEN d ELSE MapOf(it)[k]]
  BY <1>6, Zenon
<1>9. MapOf(it2) = With(it, j, d)  BY <1>7, <1>8, Zenon DEF With
<1> QED  BY <1>9, Zenon DEF j, d

LEMMA MapIsEmpty ==
    ASSUME NEW it, \A a \in Addresses : ~ it[a].live
    PROVE  MapOf(it) = <<>>
<1>1. KeysIn(it) = {}  BY Zenon DEF KeysIn
<1>2. MapOf(it) = [k \in {} |-> DataIn(it, k)]  BY <1>1, Zenon DEF MapOf
<1>3. [k \in {} |-> DataIn(it, k)] = <<>>  OBVIOUS
<1> QED  BY <1>2, <1>3, Zenon

-----------------------------------------------------------------------------
(***************************************************************************)
(* The invariant.                                                          *)
(***************************************************************************)

Places == [in : {"bucket"}, at : Buckets] \cup [in : {"item"}, at : Addresses]

TypesOK ==
    /\ m_objects \in [Buckets -> Addresses \cup {null}]
    /\ item = [a \in Addresses |-> item[a]] /\ \A a \in Addresses : IsItem(item[a])
    /\ m_lock \in [Buckets -> AllThreads \cup {null}]
    /\ op \in [AllThreads -> Calls \cup Scans \cup {NoOp}]
    /\ pc \in [AllThreads -> {"idle", "lock", "walk"}]
    /\ bucket \in [AllThreads -> Buckets]
    /\ p \in [AllThreads -> Places]
    /\ steady \in [AllThreads -> SUBSET Keys]
    /\ visits \in [AllThreads -> [Keys -> 0..1]]

\* Threads that are not idle have a call, whose key tells the bucket unless it is
\* a scan.  A walk has the lock.
ThreadsOK ==
    \A t \in AllThreads :
        /\ pc[t] = "idle" => op[t] \in Scans \cup {NoOp}
        /\ pc[t] # "idle" => op[t] \in Calls \cup Scans
        /\ pc[t] # "idle" /\ op[t] \notin Scans => bucket[t] = get_bucket(op[t].key)
        /\ pc[t] = "walk" => m_lock[bucket[t]] = t

ChainsOK == \A b \in Buckets : HasChain(m_objects, item, b)

WalksOK ==
    \A t \in AllThreads :
        pc[t] = "walk" => Walk(m_objects, item, op[t], p[t], bucket[t], visits[t])

\* A scan has visited what it should have in the buckets behind it, and nothing in
\* those before it.
ScanOK(t) ==
    /\ steady[t] \subseteq Present
    /\ pc[t] = "idle" => \A k \in steady[t] : visits[t][k] = 1
    /\ pc[t] # "idle" => \A k \in steady[t] : get_bucket(k) < bucket[t] => visits[t][k] = 1
    /\ pc[t] # "idle" => \A k \in Keys :
          get_bucket(k) > bucket[t] \/ (get_bucket(k) = bucket[t] /\ pc[t] = "lock") =>
             visits[t][k] = 0

ScansOK == \A t \in AllThreads : op[t] \in Scans => ScanOK(t)

StoredOK == \A a \in Addresses : item[a].live => Stored(item[a].object)

IInv == TypesOK /\ ThreadsOK /\ ChainsOK /\ WalksOK /\ ScansOK /\ StoredOK

-----------------------------------------------------------------------------
(***************************************************************************)
(* The actions.                                                            *)
(***************************************************************************)

\* Deref follows a pointer.
LEMMA DerefFollows == ASSUME NEW q PROVE Deref(q) = Follow(m_objects, item, q)
BY Zenon DEF Deref, Follow

\* The threads other than t are where they were.
Others(t) ==
    \A u \in AllThreads : u # t =>
        /\ pc'[u] = pc[u] /\ op'[u] = op[u] /\ p'[u] = p[u]
        /\ bucket'[u] = bucket[u] /\ visits'[u] = visits[u]

\* Chains and walks after a step of t that leaves the buckets of the others alone.
LEMMA OthersWalkOn ==
    ASSUME NEW t \in AllThreads, WalksOK, Others(t),
           \A b \in Buckets : HasChain(m_objects', item', b),
           \A u \in AllThreads : u # t /\ pc[u] = "walk" =>
              Kept(m_objects, item, m_objects', item', bucket[u]),
           pc'[t] = "walk" => Walk(m_objects', item', op'[t], p'[t], bucket'[t], visits'[t])
    PROVE  ChainsOK' /\ WalksOK'
<1>1. ChainsOK'  BY Zenon DEF ChainsOK
<1>2. ASSUME NEW u \in AllThreads, pc'[u] = "walk"
      PROVE  Walk(m_objects', item', op'[u], p'[u], bucket'[u], visits'[u])
  <2>1. CASE u = t  BY <1>2, <2>1, Zenon
  <2>2. CASE u # t
    <3>1. /\ pc[u] = "walk" /\ op'[u] = op[u] /\ p'[u] = p[u]
          /\ bucket'[u] = bucket[u] /\ visits'[u] = visits[u]
      BY <1>2, <2>2, Zenon DEF Others
    <3>2. Walk(m_objects, item, op[u], p[u], bucket[u], visits[u])  BY <3>1, Zenon DEF WalksOK
    <3>3. Kept(m_objects, item, m_objects', item', bucket[u])  BY <2>2, <3>1, Zenon
    <3>4. Walk(m_objects', item', op[u], p[u], bucket[u], visits[u])
      BY <3>2, <3>3, KeptWalk, Zenon
    <3> QED  BY <3>1, <3>4, Zenon
  <2> QED  BY <2>1, <2>2
<1> QED  BY <1>1, <1>2, Zenon DEF WalksOK

\* Two walks are never in one bucket.
LEMMA WalksExclude ==
    ASSUME ThreadsOK, NEW t \in AllThreads, NEW u \in AllThreads, u # t,
           pc[t] = "walk", pc[u] = "walk"
    PROVE  bucket[u] # bucket[t]
BY Zenon DEF ThreadsOK

\* Chains and walks after a step of a walking thread t that changes its bucket only.
LEMMA OwnBucketChanges ==
    ASSUME TypesOK, ThreadsOK, ChainsOK, WalksOK, NEW t \in AllThreads, pc[t] = "walk", Others(t),
           HasChain(m_objects', item', bucket[t]),
           \A e \in Buckets : e # bucket[t] => Kept(m_objects, item, m_objects', item', e),
           pc'[t] = "walk" => Walk(m_objects', item', op'[t], p'[t], bucket'[t], visits'[t])
    PROVE  ChainsOK' /\ WalksOK'
<1>1. \A b \in Buckets : HasChain(m_objects', item', b)
  <2> SUFFICES ASSUME NEW b \in Buckets PROVE HasChain(m_objects', item', b)  BY Zenon
  <2>1. CASE b = bucket[t]  BY <2>1, Zenon
  <2>2. CASE b # bucket[t]
    <3>1. Kept(m_objects, item, m_objects', item', b) /\ HasChain(m_objects, item, b)
      BY <2>2, Zenon DEF ChainsOK
    <3> QED  BY <3>1, KeptWalk, Zenon
  <2> QED  BY <2>1, <2>2
<1>2. ASSUME NEW u \in AllThreads, u # t, pc[u] = "walk"
      PROVE  Kept(m_objects, item, m_objects', item', bucket[u])
  <2>1. bucket[u] # bucket[t]  BY <1>2, WalksExclude, Zenon
  <2>2. bucket[u] \in Buckets  BY DEF TypesOK
  <2> QED  BY <2>1, <2>2, Zenon
<1> QED  BY <1>1, <1>2, OthersWalkOn, Zenon

\* Chains and walks after a step that keeps the items of every bucket.
LEMMA NoBucketChanges ==
    ASSUME TypesOK, ChainsOK, WalksOK, NEW t \in AllThreads, Others(t),
           \A e \in Buckets : Kept(m_objects, item, m_objects', item', e),
           pc'[t] = "walk" => Walk(m_objects', item', op'[t], p'[t], bucket'[t], visits'[t])
    PROVE  ChainsOK' /\ WalksOK'
<1>1. \A b \in Buckets : HasChain(m_objects', item', b)
  <2> SUFFICES ASSUME NEW b \in Buckets PROVE HasChain(m_objects', item', b)  BY Zenon
  <2>1. Kept(m_objects, item, m_objects', item', b) /\ HasChain(m_objects, item, b)
    BY Zenon DEF ChainsOK
  <2> QED  BY <2>1, KeptWalk, Zenon
<1>2. ASSUME NEW u \in AllThreads, u # t, pc[u] = "walk"
      PROVE  Kept(m_objects, item, m_objects', item', bucket[u])
  <2>1. bucket[u] \in Buckets  BY DEF TypesOK
  <2> QED  BY <2>1, Zenon
<1> QED  BY <1>1, <1>2, OthersWalkOn, Zenon

\* Items that do not change are kept.
LEMMA UnchangedIsKept ==
    ASSUME m_objects' = m_objects, item' = item
    PROVE  \A e \in Buckets : Kept(m_objects, item, m_objects', item', e)
BY Zenon DEF Kept

\* Scans after a step of t that takes no present key from another scan's steady keys.
LEMMA OthersScanOn ==
    ASSUME NEW t \in AllThreads, ScansOK, Others(t),
           \A u \in AllThreads : u # t /\ op[u] \in Scans =>
              steady'[u] \subseteq steady[u] /\ steady'[u] \subseteq Present',
           op'[t] \in Scans => ScanOK(t)'
    PROVE  ScansOK'
<1> SUFFICES ASSUME NEW u \in AllThreads, u # t, op'[u] \in Scans PROVE ScanOK(u)'
  BY Zenon DEF ScansOK
<1>1. pc'[u] = pc[u] /\ op'[u] = op[u] /\ bucket'[u] = bucket[u] /\ visits'[u] = visits[u]
  BY Zenon DEF Others
<1>2. ScanOK(u)  BY <1>1, Zenon DEF ScansOK
<1>3. steady'[u] \subseteq steady[u] /\ steady'[u] \subseteq Present'  BY <1>1, Zenon
<1> QED  BY <1>1, <1>2, <1>3, Zenon DEF ScanOK

\* Begin.
LEMMA BeginPreserves ==
    ASSUME IInv, NEW t \in AllThreads, NEW o \in Calls \cup Scans, Begin(t, o)
    PROVE  IInv'
<1>1. /\ op' = [op EXCEPT ![t] = o] /\ pc' = [pc EXCEPT ![t] = "lock"]
      /\ bucket' = [bucket EXCEPT ![t] = IF o \in Scans THEN 0 ELSE get_bucket(o.key)]
      /\ steady' = [steady EXCEPT ![t] = IF o \in Scans THEN Present ELSE {}]
      /\ visits' = [visits EXCEPT ![t] = [k \in Keys |-> 0]]
      /\ m_objects' = m_objects /\ item' = item /\ m_lock' = m_lock /\ p' = p
  BY Zenon DEF Begin
<1> USE DEF IInv
<1>2. /\ op'[t] = o /\ pc'[t] = "lock" /\ visits'[t] = [k \in Keys |-> 0]
      /\ bucket'[t] = IF o \in Scans THEN 0 ELSE get_bucket(o.key)
      /\ steady'[t] = IF o \in Scans THEN Present ELSE {}
  BY <1>1, Zenon DEF TypesOK
<1>3. \A u \in AllThreads : u # t =>
         /\ pc'[u] = pc[u] /\ op'[u] = op[u] /\ p'[u] = p[u]
         /\ bucket'[u] = bucket[u] /\ visits'[u] = visits[u] /\ steady'[u] = steady[u]
  BY <1>1, Zenon DEF TypesOK
<1>4. o \notin Scans => get_bucket(o.key) \in Buckets
  BY BucketFacts, CallFacts, Zenon
<1>5. Present \subseteq Keys  BY Zenon DEF Present, TypesOK, IsItem
<1>6. TypesOK'
  <2>1. op' \in [AllThreads -> Calls \cup Scans \cup {NoOp}]  BY <1>1, Zenon DEF TypesOK
  <2>2. pc' \in [AllThreads -> {"idle", "lock", "walk"}]  BY <1>1, Zenon DEF TypesOK
  <2>3. bucket' \in [AllThreads -> Buckets]
    <3>1. (IF o \in Scans THEN 0 ELSE get_bucket(o.key)) \in Buckets  BY <1>4, BucketFacts, Zenon
    <3> QED  BY <1>1, <3>1, Zenon DEF TypesOK
  <2>4. steady' \in [AllThreads -> SUBSET Keys]
    <3>1. (IF o \in Scans THEN Present ELSE {}) \in SUBSET Keys  BY <1>5, Zenon
    <3> QED  BY <1>1, <3>1, Zenon DEF TypesOK
  <2>5. visits' \in [AllThreads -> [Keys -> 0..1]]
    <3>1. [k \in Keys |-> 0] \in [Keys -> 0..1]  OBVIOUS
    <3> QED  BY <1>1, <3>1, Zenon DEF TypesOK
  <2> QED  BY <1>1, <2>1, <2>2, <2>3, <2>4, <2>5, Zenon DEF TypesOK
<1>7. ThreadsOK'
  <2> SUFFICES ASSUME NEW u \in AllThreads
               PROVE  /\ pc'[u] = "idle" => op'[u] \in Scans \cup {NoOp}
                      /\ pc'[u] # "idle" => op'[u] \in Calls \cup Scans
                      /\ pc'[u] # "idle" /\ op'[u] \notin Scans =>
                            bucket'[u] = get_bucket(op'[u].key)
                      /\ pc'[u] = "walk" => m_lock'[bucket'[u]] = u
    BY Zenon DEF ThreadsOK
  <2>1. CASE u = t
    <3>1. "lock" # "idle" /\ "lock" # "walk"  OBVIOUS
    <3> QED  BY <1>2, <2>1, <3>1, Zenon
  <2>2. CASE u # t
    <3>1. /\ pc[u] = "idle" => op[u] \in Scans \cup {NoOp}
          /\ pc[u] # "idle" => op[u] \in Calls \cup Scans
          /\ pc[u] # "idle" /\ op[u] \notin Scans => bucket[u] = get_bucket(op[u].key)
          /\ pc[u] = "walk" => m_lock[bucket[u]] = u
      BY Zenon DEF ThreadsOK
    <3>2. pc'[u] = pc[u] /\ op'[u] = op[u] /\ bucket'[u] = bucket[u]  BY <1>3, <2>2, Zenon
    <3> QED  BY <1>1, <3>1, <3>2, Zenon
  <2> QED  BY <2>1, <2>2
<1>8. Others(t)  BY <1>3, Zenon DEF Others
<1>9. ChainsOK' /\ WalksOK'
  <2>1. \A e \in Buckets : Kept(m_objects, item, m_objects', item', e)
    BY <1>1, UnchangedIsKept, Zenon
  <2>2. pc'[t] # "walk"
    <3>1. "lock" # "walk"  OBVIOUS
    <3> QED  BY <1>2, <3>1, Zenon
  <2> QED  BY <1>8, <2>1, <2>2, NoBucketChanges, Zenon
<1>10. Present' = Present  BY <1>1, Zenon DEF Present
<1>11. ScansOK'
  <2>1. ASSUME NEW u \in AllThreads, u # t, op[u] \in Scans
        PROVE  steady'[u] \subseteq steady[u] /\ steady'[u] \subseteq Present'
    BY <1>3, <1>10, <2>1, Zenon DEF ScansOK, ScanOK
  <2>2. ASSUME op'[t] \in Scans PROVE ScanOK(t)'
    <3>1. steady'[t] = Present /\ bucket'[t] = 0  BY <1>2, <2>2, Zenon
    <3>2. \A k \in Keys : visits'[t][k] = 0  BY <1>2, Zenon
    <3>3. "lock" # "idle"  OBVIOUS
    <3>4. \A k \in Keys : ~ (get_bucket(k) < 0)
      <4>1. \A k \in Keys : get_bucket(k) \in Nat  BY BucketFacts, Zenon
      <4>2. \A n \in Nat : ~ (n < 0)  OBVIOUS
      <4> QED  BY <4>1, <4>2, Zenon
    <3> QED  BY <1>2, <1>5, <1>10, <3>1, <3>2, <3>3, <3>4, Zenon DEF ScanOK
  <2> QED  BY <1>8, <2>1, <2>2, OthersScanOn, Zenon
<1>12. StoredOK'  BY <1>1, Zenon DEF StoredOK
<1> QED  BY <1>6, <1>7, <1>9, <1>11, <1>12, Zenon

\* Lock.
LEMMA LockPreserves ==
    ASSUME IInv, NEW t \in AllThreads, Lock(t)
    PROVE  IInv'
<1>1. /\ pc[t] = "lock" /\ m_lock[bucket[t]] = null
      /\ m_lock' = [m_lock EXCEPT ![bucket[t]] = t]
      /\ p' = [p EXCEPT ![t] = Head_of(bucket[t])]
      /\ pc' = [pc EXCEPT ![t] = "walk"]
      /\ m_objects' = m_objects /\ item' = item /\ op' = op /\ bucket' = bucket
      /\ steady' = steady /\ visits' = visits
  BY Zenon DEF Lock
<1> USE DEF IInv
<1>2. bucket[t] \in Buckets  BY DEF TypesOK
<1>3. p'[t] = Head_of(bucket[t]) /\ pc'[t] = "walk" /\ m_lock'[bucket[t]] = t
  BY <1>1, <1>2, Zenon DEF TypesOK
<1>4. \A u \in AllThreads : u # t => pc'[u] = pc[u] /\ p'[u] = p[u]
  BY <1>1, Zenon DEF TypesOK
<1>5. Others(t)  BY <1>1, <1>4, Zenon DEF Others
<1>6. TypesOK'
  <2>1. Head_of(bucket[t]) \in Places  BY <1>2 DEF Head_of, Places
  <2>2. p' \in [AllThreads -> Places]  BY <1>1, <2>1, Zenon DEF TypesOK
  <2>3. pc' \in [AllThreads -> {"idle", "lock", "walk"}]  BY <1>1, Zenon DEF TypesOK
  <2>4. m_lock' \in [Buckets -> AllThreads \cup {null}]  BY <1>1, Zenon DEF TypesOK
  <2> QED  BY <1>1, <2>2, <2>3, <2>4, Zenon DEF TypesOK
<1>7. op[t] \in Calls \cup Scans /\ (op[t] \notin Scans => bucket[t] = get_bucket(op[t].key))
  <2>1. "lock" # "idle"  OBVIOUS
  <2> QED  BY <1>1, <2>1, Zenon DEF ThreadsOK
<1>8. ThreadsOK'
  <2> SUFFICES ASSUME NEW u \in AllThreads
               PROVE  /\ pc'[u] = "idle" => op'[u] \in Scans \cup {NoOp}
                      /\ pc'[u] # "idle" => op'[u] \in Calls \cup Scans
                      /\ pc'[u] # "idle" /\ op'[u] \notin Scans =>
                            bucket'[u] = get_bucket(op'[u].key)
                      /\ pc'[u] = "walk" => m_lock'[bucket'[u]] = u
    BY Zenon DEF ThreadsOK
  <2>1. CASE u = t
    <3>1. "walk" # "idle"  OBVIOUS
    <3> QED  BY <1>1, <1>3, <1>7, <2>1, <3>1, Zenon
  <2>2. CASE u # t
    <3>1. ASSUME pc[u] = "walk" PROVE m_lock'[bucket[u]] = u
      <4>1. m_lock[bucket[u]] = u /\ u # null  BY <3>1, NullFacts, Zenon DEF ThreadsOK
      <4>2. bucket[u] # bucket[t]  BY <1>1, <4>1, Zenon
      <4>3. bucket[u] \in Buckets  BY DEF TypesOK
      <4> QED  BY <1>1, <4>1, <4>2, <4>3, Zenon DEF TypesOK
    <3> QED  BY <1>1, <1>4, <2>2, <3>1, Zenon DEF ThreadsOK
  <2> QED  BY <2>1, <2>2
<1>9. op[t] \in Scans => \A k \in Keys : get_bucket(k) = bucket[t] => visits[t][k] = 0
  <2>1. "lock" # "idle"  OBVIOUS
  <2> QED  BY <1>1, <2>1, Zenon DEF ScansOK, ScanOK
<1>10. ChainsOK' /\ WalksOK'
  <2>1. \A e \in Buckets : Kept(m_objects, item, m_objects', item', e)
    BY <1>1, UnchangedIsKept, Zenon
  <2>2. HasChain(m_objects, item, bucket[t])  BY <1>2, Zenon DEF ChainsOK
  <2>3. \A a \in Addresses : item[a].live => item[a].key \in Keys  BY Zenon DEF TypesOK, IsItem
  <2>4. Walk(m_objects, item, op[t], Head_of(bucket[t]), bucket[t], visits[t])
    BY <1>2, <1>9, <2>2, <2>3, WalkBegins, Zenon
  <2>5. Walk(m_objects', item', op'[t], p'[t], bucket'[t], visits'[t])
    BY <1>1, <1>3, <2>4, Zenon
  <2> QED  BY <1>5, <2>1, <2>5, NoBucketChanges, Zenon
<1>11. Present' = Present  BY <1>1, Zenon DEF Present
<1>12. ScansOK'
  <2>1. ASSUME NEW u \in AllThreads, u # t, op[u] \in Scans
        PROVE  steady'[u] \subseteq steady[u] /\ steady'[u] \subseteq Present'
    BY <1>1, <1>11, <2>1, Zenon DEF ScansOK, ScanOK
  <2>2. ASSUME op'[t] \in Scans PROVE ScanOK(t)'
    <3>1. "walk" # "idle" /\ "lock" # "idle" /\ "walk" # "lock"  OBVIOUS
    <3>2. ScanOK(t)  BY <1>1, <2>2, Zenon DEF ScansOK
    <3> QED  BY <1>1, <1>3, <1>11, <3>1, <3>2, Zenon DEF ScanOK
  <2> QED  BY <1>5, <2>1, <2>2, OthersScanOn, Zenon
<1>13. StoredOK'  BY <1>1, Zenon DEF StoredOK
<1> QED  BY <1>6, <1>8, <1>10, <1>12, <1>13, Zenon

\* A pointer to the item behind a walk is a place.
LEMMA NextIsPlace == ASSUME NEW a \in Addresses PROVE Next_of(a) \in Places
BY DEF Next_of, Places

\* What a walking thread stands on.
LEMMA WalkerFacts ==
    ASSUME IInv, NEW t \in AllThreads, pc[t] = "walk"
    PROVE  /\ bucket[t] \in Buckets /\ op[t] \in Calls \cup Scans
           /\ Walk(m_objects, item, op[t], p[t], bucket[t], visits[t])
           /\ HasChain(m_objects, item, bucket[t])
           /\ Deref(p[t]) = Follow(m_objects, item, p[t])
           /\ Deref(p[t]) # null => Ahead(item, op[t], bucket[t], visits[t], Deref(p[t]))
           /\ \A a \in Addresses : item[a].live => item[a].key \in Keys
<1> USE DEF IInv
<1>1. bucket[t] \in Buckets  BY DEF TypesOK
<1>2. op[t] \in Calls \cup Scans
  <2>1. "walk" # "idle"  OBVIOUS
  <2> QED  BY <2>1, Zenon DEF ThreadsOK
<1>3. Walk(m_objects, item, op[t], p[t], bucket[t], visits[t])  BY Zenon DEF WalksOK
<1>4. HasChain(m_objects, item, bucket[t])  BY <1>1, Zenon DEF ChainsOK
<1>5. Deref(p[t]) = Follow(m_objects, item, p[t])  BY DerefFollows, Zenon
<1>6. Deref(p[t]) # null => Ahead(item, op[t], bucket[t], visits[t], Deref(p[t]))
  <2> SUFFICES ASSUME Follow(m_objects, item, p[t]) # null
               PROVE  Ahead(item, op[t], bucket[t], visits[t], Follow(m_objects, item, p[t]))
    BY <1>5, Zenon
  <2> QED  BY <1>1, <1>3, WalkFinds, Zenon
<1>7. \A a \in Addresses : item[a].live => item[a].key \in Keys  BY Zenon DEF TypesOK, IsItem
<1> QED  BY <1>1, <1>2, <1>3, <1>4, <1>5, <1>6, <1>7, Zenon

\* A walk at its end has met the items of its bucket.
LEMMA WalkerEnds ==
    ASSUME IInv, NEW t \in AllThreads, pc[t] = "walk", Deref(p[t]) = null
    PROVE  Met(item, op[t], bucket[t], visits[t])
<1>1. /\ bucket[t] \in Buckets /\ Follow(m_objects, item, p[t]) = null
      /\ Walk(m_objects, item, op[t], p[t], bucket[t], visits[t])
  BY WalkerFacts, Zenon
<1>2. null \notin Addresses  BY NullFacts, Zenon
<1> QED  BY <1>1, <1>2, WalkEnds, Zenon

\* Step.
LEMMA StepPreserves ==
    ASSUME IInv, NEW t \in AllThreads, Step(t)
    PROVE  IInv'
<1> DEFINE a == Deref(p[t])
<1>1. /\ pc[t] = "walk" /\ a # null /\ op[t] \notin Scans /\ item[a].key # op[t].key
      /\ p' = [p EXCEPT ![t] = Next_of(a)]
      /\ m_objects' = m_objects /\ item' = item /\ m_lock' = m_lock /\ op' = op /\ pc' = pc
      /\ bucket' = bucket /\ steady' = steady /\ visits' = visits
  BY Zenon DEF Step
<1>2. /\ bucket[t] \in Buckets /\ a = Follow(m_objects, item, p[t])
      /\ Walk(m_objects, item, op[t], p[t], bucket[t], visits[t])
      /\ Ahead(item, op[t], bucket[t], visits[t], a)
      /\ \A x \in Addresses : item[x].live => item[x].key \in Keys
  BY <1>1, WalkerFacts, Zenon
<1> HIDE DEF a
<1> USE DEF IInv
<1>3. a \in Addresses  BY <1>2, Zenon DEF Ahead
<1>4. p'[t] = Next_of(a) /\ \A u \in AllThreads : u # t => p'[u] = p[u]
  BY <1>1, Zenon DEF TypesOK
<1>5. Others(t)  BY <1>1, <1>4, Zenon DEF Others
<1>6. TypesOK'
  <2>1. p' \in [AllThreads -> Places]  BY <1>1, <1>3, NextIsPlace, Zenon DEF TypesOK
  <2> QED  BY <1>1, <2>1, Zenon DEF TypesOK
<1>7. ThreadsOK'  BY <1>1, Zenon DEF ThreadsOK
<1>8. ChainsOK' /\ WalksOK'
  <2>1. \A e \in Buckets : Kept(m_objects, item, m_objects', item', e)
    BY <1>1, UnchangedIsKept, Zenon
  <2>2. Walk(m_objects, item, op[t], Next_of(a), bucket[t], visits[t])
    <3> DEFINE w == visits[t]
    <3>1. op[t] \in Scans => /\ w[item[a].key] = 1
                             /\ \A k \in Keys : k # item[a].key => w[k] = visits[t][k]
      BY <1>1, Zenon
    <3>2. op[t] \notin Scans => item[a].key # op[t].key  BY <1>1, Zenon
    <3> QED  BY <1>1, <1>2, <3>1, <3>2, WalkGoesOn
  <2>3. Walk(m_objects', item', op'[t], p'[t], bucket'[t], visits'[t])
    BY <1>1, <1>4, <2>2, Zenon
  <2> QED  BY <1>5, <2>1, <2>3, NoBucketChanges, Zenon
<1>9. ScansOK'
  <2>1. Present' = Present  BY <1>1, Zenon DEF Present
  <2> SUFFICES ASSUME NEW u \in AllThreads, op[u] \in Scans PROVE ScanOK(u)'
    BY <1>1, Zenon DEF ScansOK
  <2>2. ScanOK(u)  BY Zenon DEF ScansOK
  <2> QED  BY <1>1, <2>1, <2>2, Zenon DEF ScanOK
<1>10. StoredOK'  BY <1>1, Zenon DEF StoredOK
<1> QED  BY <1>6, <1>7, <1>8, <1>9, <1>10, Zenon

\* Visit.
LEMMA VisitPreserves ==
    ASSUME IInv, NEW t \in AllThreads, Visit(t)
    PROVE  IInv'
<1> DEFINE a == Deref(p[t])
           k == item[a].key
<1>1. /\ pc[t] = "walk" /\ a # null /\ op[t] \in Scans
      /\ visits' = [visits EXCEPT ![t] = [visits[t] EXCEPT ![k] = visits[t][k] + 1]]
      /\ p' = [p EXCEPT ![t] = Next_of(a)]
      /\ m_objects' = m_objects /\ item' = item /\ m_lock' = m_lock /\ op' = op /\ pc' = pc
      /\ bucket' = bucket /\ steady' = steady
  BY Zenon DEF Visit
<1>2. /\ bucket[t] \in Buckets /\ a = Follow(m_objects, item, p[t])
      /\ Walk(m_objects, item, op[t], p[t], bucket[t], visits[t])
      /\ Ahead(item, op[t], bucket[t], visits[t], a)
      /\ \A x \in Addresses : item[x].live => item[x].key \in Keys
  BY <1>1, WalkerFacts, Zenon
<1>3. a \in Addresses /\ k \in Keys /\ get_bucket(k) = bucket[t] /\ visits[t][k] = 0
  BY <1>1, <1>2, Zenon DEF Ahead
<1> HIDE DEF a, k
<1> USE DEF IInv
<1>4. /\ p'[t] = Next_of(a) /\ visits'[t] = [visits[t] EXCEPT ![k] = 1]
      /\ \A u \in AllThreads : u # t => p'[u] = p[u] /\ visits'[u] = visits[u]
  <2>1. visits[t][k] + 1 = 1  BY <1>3
  <2> QED  BY <1>1, <2>1, Zenon DEF TypesOK
<1>5. visits[t] \in [Keys -> 0..1]  BY Zenon DEF TypesOK
<1>6. visits'[t][k] = 1 /\ \A j \in Keys : j # k => visits'[t][j] = visits[t][j]
  BY <1>3, <1>4, <1>5, Zenon
<1>7. Others(t)  BY <1>1, <1>4, Zenon DEF Others
<1>8. TypesOK'
  <2>1. p' \in [AllThreads -> Places]  BY <1>1, <1>3, NextIsPlace, Zenon DEF TypesOK
  <2>2. [visits[t] EXCEPT ![k] = 1] \in [Keys -> 0..1]  BY <1>3, <1>5
  <2>3. visits' = [visits EXCEPT ![t] = [visits[t] EXCEPT ![k] = 1]]
    <3>1. visits[t][k] + 1 = 1  BY <1>3
    <3> QED  BY <1>1, <3>1, Zenon
  <2>4. visits' \in [AllThreads -> [Keys -> 0..1]]  BY <2>2, <2>3, Zenon DEF TypesOK
  <2> QED  BY <1>1, <2>1, <2>4, Zenon DEF TypesOK
<1>9. ThreadsOK'  BY <1>1, Zenon DEF ThreadsOK
<1>10. ChainsOK' /\ WalksOK'
  <2>1. \A e \in Buckets : Kept(m_objects, item, m_objects', item', e)
    BY <1>1, UnchangedIsKept, Zenon
  <2>2. Walk(m_objects, item, op[t], Next_of(a), bucket[t], visits'[t])
    <3> DEFINE w == visits'[t]
    <3>1. op[t] \in Scans => /\ w[item[a].key] = 1
                             /\ \A j \in Keys : j # item[a].key => w[j] = visits[t][j]
      BY <1>6, Zenon DEF k
    <3>2. op[t] \notin Scans => item[a].key # op[t].key  BY <1>1, Zenon
    <3> HIDE DEF w
    <3>3. Walk(m_objects, item, op[t], Next_of(a), bucket[t], w)
      BY <1>1, <1>2, <3>1, <3>2, WalkGoesOn
    <3> QED  BY <3>3 DEF w
  <2>3. Walk(m_objects', item', op'[t], p'[t], bucket'[t], visits'[t])
    BY <1>1, <1>4, <2>2, Zenon
  <2> QED  BY <1>7, <2>1, <2>3, NoBucketChanges, Zenon
<1>11. Present' = Present  BY <1>1, Zenon DEF Present
<1>12. ScansOK'
  <2>1. ASSUME NEW u \in AllThreads, u # t, op[u] \in Scans
        PROVE  steady'[u] \subseteq steady[u] /\ steady'[u] \subseteq Present'
    BY <1>1, <1>11, <2>1, Zenon DEF ScansOK, ScanOK
  <2>2. ScanOK(t)'
    <3>1. ScanOK(t)  BY <1>1, Zenon DEF ScansOK
    <3>2. steady[t] \subseteq Keys  BY Zenon DEF TypesOK
    <3>3. "walk" # "idle" /\ "walk" # "lock"  OBVIOUS
    <3>4. \A j \in Keys : get_bucket(j) > bucket[t] => j # k
      <4>1. bucket[t] \in Nat  BY <1>2, BucketFacts, Zenon
      <4>2. ~ (bucket[t] > bucket[t])  BY <4>1
      <4> QED  BY <1>3, <4>2, Zenon
    <3>5. \A j \in steady[t] : get_bucket(j) < bucket[t] => visits'[t][j] = 1
      BY <1>1, <1>6, <3>1, <3>2, <3>3, Zenon DEF ScanOK
    <3>6. \A j \in Keys : get_bucket(j) > bucket[t] => visits'[t][j] = 0
      BY <1>1, <1>6, <3>1, <3>3, <3>4, Zenon DEF ScanOK
    <3>7. steady'[t] \subseteq Present'  BY <1>1, <1>11, <3>1, Zenon DEF ScanOK
    <3> QED  BY <1>1, <3>3, <3>5, <3>6, <3>7, Zenon DEF ScanOK
  <2> QED  BY <1>7, <2>1, <2>2, OthersScanOn, Zenon
<1>13. StoredOK'  BY <1>1, Zenon DEF StoredOK
<1> QED  BY <1>8, <1>9, <1>10, <1>12, <1>13, Zenon

\* Thread t has left its bucket: it is done, or a scan goes on with the next bucket.
Left(t) ==
    /\ Others(t) /\ ThreadsOK'
    /\ m_lock' \in [Buckets -> AllThreads \cup {null}]
    /\ op' \in [AllThreads -> Calls \cup Scans \cup {NoOp}]
    /\ pc' \in [AllThreads -> {"idle", "lock", "walk"}]
    /\ bucket' \in [AllThreads -> Buckets] /\ p' \in [AllThreads -> Places]
    /\ pc'[t] # "walk"
    /\ op[t] \notin Scans => op'[t] = NoOp /\ pc'[t] = "idle"
    /\ op[t] \in Scans => op'[t] = op[t]
    /\ op[t] \in Scans /\ bucket[t] + 1 \in Buckets =>
          pc'[t] = "lock" /\ bucket'[t] = bucket[t] + 1
    /\ op[t] \in Scans /\ bucket[t] + 1 \notin Buckets => pc'[t] = "idle"

\* Leave lets the lock go.
LEMMA LeaveFacts ==
    ASSUME TypesOK, ThreadsOK, NEW t \in AllThreads, pc[t] = "walk", visits' = visits, Leave(t)
    PROVE  Left(t)
<1> DEFINE more == op[t] \in Scans /\ bucket[t] + 1 \in Buckets
           nb == IF more THEN bucket[t] + 1 ELSE 0
           np == IF more THEN "lock" ELSE "idle"
           no == IF op[t] \in Scans THEN op[t] ELSE NoOp
<1>1. /\ m_lock' = [m_lock EXCEPT ![bucket[t]] = null]
      /\ bucket' = [bucket EXCEPT ![t] = nb] /\ pc' = [pc EXCEPT ![t] = np]
      /\ op' = [op EXCEPT ![t] = no] /\ p' = [p EXCEPT ![t] = Head_of(0)]
  BY Zenon DEF Leave
<1>2. nb \in Buckets /\ np \in {"idle", "lock", "walk"} /\ np # "walk"
      /\ no \in Scans \cup {NoOp} /\ Head_of(0) \in Places
  <2>1. 0 \in Buckets  BY BucketFacts, Zenon
  <2>2. nb \in Buckets  BY <2>1, Zenon
  <2>3. np \in {"idle", "lock", "walk"} /\ np # "walk"
    <3>1. "lock" # "walk" /\ "idle" # "walk"  OBVIOUS
    <3> QED  BY <3>1, Zenon
  <2>4. no \in Scans \cup {NoOp}  BY Zenon
  <2>5. Head_of(0) \in Places  BY <2>1 DEF Head_of, Places
  <2> QED  BY <2>2, <2>3, <2>4, <2>5
<1>3. /\ op[t] \notin Scans => no = NoOp /\ np = "idle"
      /\ op[t] \in Scans => no = op[t]
      /\ op[t] \in Scans /\ bucket[t] + 1 \in Buckets => np = "lock" /\ nb = bucket[t] + 1
      /\ op[t] \in Scans /\ bucket[t] + 1 \notin Buckets => np = "idle"
      /\ np # "idle" => op[t] \in Scans
  BY Zenon
<1> HIDE DEF more, nb, np, no
<1>4. /\ m_lock' \in [Buckets -> AllThreads \cup {null}]
      /\ op' \in [AllThreads -> Calls \cup Scans \cup {NoOp}]
      /\ pc' \in [AllThreads -> {"idle", "lock", "walk"}]
      /\ bucket' \in [AllThreads -> Buckets] /\ p' \in [AllThreads -> Places]
  <2>1. m_lock' \in [Buckets -> AllThreads \cup {null}]  BY <1>1, Zenon DEF TypesOK
  <2>2. op' \in [AllThreads -> Calls \cup Scans \cup {NoOp}]  BY <1>1, <1>2, Zenon DEF TypesOK
  <2>3. pc' \in [AllThreads -> {"idle", "lock", "walk"}]  BY <1>1, <1>2, Zenon DEF TypesOK
  <2>4. bucket' \in [AllThreads -> Buckets]  BY <1>1, <1>2, Zenon DEF TypesOK
  <2>5. p' \in [AllThreads -> Places]  BY <1>1, <1>2, Zenon DEF TypesOK
  <2> QED  BY <2>1, <2>2, <2>3, <2>4, <2>5
<1>5. bucket'[t] = nb /\ pc'[t] = np /\ op'[t] = no
  BY <1>1, Zenon DEF TypesOK
<1>6. \A u \in AllThreads : u # t =>
         pc'[u] = pc[u] /\ op'[u] = op[u] /\ p'[u] = p[u] /\ bucket'[u] = bucket[u]
  BY <1>1, Zenon DEF TypesOK
<1>7. Others(t)  BY <1>6, Zenon DEF Others
<1>8. ThreadsOK'
  <2> SUFFICES ASSUME NEW u \in AllThreads
               PROVE  /\ pc'[u] = "idle" => op'[u] \in Scans \cup {NoOp}
                      /\ pc'[u] # "idle" => op'[u] \in Calls \cup Scans
                      /\ pc'[u] # "idle" /\ op'[u] \notin Scans =>
                            bucket'[u] = get_bucket(op'[u].key)
                      /\ pc'[u] = "walk" => m_lock'[bucket'[u]] = u
    BY Zenon DEF ThreadsOK
  <2>1. CASE u = t  BY <1>2, <1>3, <1>5, <2>1, Zenon
  <2>2. CASE u # t
    <3>1. ASSUME pc[u] = "walk" PROVE m_lock'[bucket[u]] = u
      <4>1. m_lock[bucket[u]] = u  BY <3>1, Zenon DEF ThreadsOK
      <4>2. bucket[u] # bucket[t]  BY <2>2, <3>1, WalksExclude, Zenon
      <4>3. bucket[u] \in Buckets  BY DEF TypesOK
      <4> QED  BY <1>1, <4>1, <4>2, <4>3, Zenon DEF TypesOK
    <3>2. pc'[u] = pc[u] /\ op'[u] = op[u] /\ bucket'[u] = bucket[u]  BY <1>6, <2>2, Zenon
    <3> QED  BY <3>1, <3>2, Zenon DEF ThreadsOK
  <2> QED  BY <2>1, <2>2
<1> QED  BY <1>2, <1>3, <1>4, <1>5, <1>7, <1>8, Zenon DEF Left

\* The types after a thread has left its bucket.
LEMMA LeftTypes ==
    ASSUME TypesOK, NEW t \in AllThreads, Left(t), visits' = visits,
           m_objects' \in [Buckets -> Addresses \cup {null}],
           item' = [a \in Addresses |-> item'[a]], \A a \in Addresses : IsItem(item'[a]),
           steady' \in [AllThreads -> SUBSET Keys]
    PROVE  TypesOK'
BY Zenon DEF TypesOK, Left

\* The scans after a thread that does not scan has left its bucket.
LEMMA LeftScans ==
    ASSUME ScansOK, NEW t \in AllThreads, Left(t), op[t] \notin Scans,
           \A u \in AllThreads : steady'[u] \subseteq steady[u],
           \A u \in AllThreads : op[u] \in Scans => steady'[u] \subseteq Present'
    PROVE  ScansOK'
<1>1. op'[t] \notin Scans
  <2>1. NoOp \notin Scans  BY ScanFacts, Zenon
  <2> QED  BY <2>1, Zenon DEF Left
<1>2. Others(t)  BY Zenon DEF Left
<1>3. \A u \in AllThreads : u # t /\ op[u] \in Scans =>
         steady'[u] \subseteq steady[u] /\ steady'[u] \subseteq Present'
  BY Zenon
<1> QED  BY <1>1, <1>2, <1>3, OthersScanOn, Zenon

\* NotFound.
LEMMA NotFoundPreserves ==
    ASSUME IInv, NEW t \in AllThreads, NotFound(t)
    PROVE  IInv'
<1>1. /\ pc[t] = "walk" /\ Deref(p[t]) = null /\ Leave(t)
      /\ m_objects' = m_objects /\ item' = item /\ steady' = steady /\ visits' = visits
  BY Zenon DEF NotFound
<1> USE DEF IInv
<1>2. Left(t)  BY <1>1, LeaveFacts, Zenon
<1>3. Others(t) /\ pc'[t] # "walk" /\ ThreadsOK'  BY <1>2, Zenon DEF Left
<1>4. TypesOK'
  <2>1. /\ m_objects \in [Buckets -> Addresses \cup {null}]
        /\ item = [a \in Addresses |-> item[a]] /\ \A a \in Addresses : IsItem(item[a])
        /\ steady \in [AllThreads -> SUBSET Keys]
    BY Zenon DEF TypesOK
  <2> QED  BY <1>1, <1>2, <2>1, LeftTypes, Zenon
<1>5. ChainsOK' /\ WalksOK'
  <2>1. \A e \in Buckets : Kept(m_objects, item, m_objects', item', e)
    BY <1>1, UnchangedIsKept, Zenon
  <2> QED  BY <1>3, <2>1, NoBucketChanges, Zenon
<1>6. Present' = Present  BY <1>1, Zenon DEF Present
<1>7. \A u \in AllThreads : /\ steady'[u] \subseteq steady[u]
                            /\ op[u] \in Scans => steady'[u] \subseteq Present'
  BY <1>1, <1>6, Zenon DEF ScansOK, ScanOK
<1>8. ScansOK'
  <2>1. CASE op[t] \notin Scans  BY <1>2, <1>7, <2>1, LeftScans, Zenon
  <2>2. CASE op[t] \in Scans
    <3>1. bucket[t] \in Buckets
      BY <1>1, WalkerFacts, Zenon
    <3>2. \A a \in Addresses : item[a].live /\ get_bucket(item[a].key) = bucket[t] =>
             visits[t][item[a].key] = 1
      <4>1. Met(item, op[t], bucket[t], visits[t])  BY <1>1, WalkerEnds, Zenon
      <4> QED  BY <2>2, <4>1, Zenon DEF Met
    <3>3. ScanOK(t)  BY <2>2, Zenon DEF ScansOK
    <3>4. "walk" # "idle" /\ "walk" # "lock" /\ "lock" # "idle"  OBVIOUS
    <3>5. \A k \in steady[t] : k \in Keys /\ k \in Present  BY <3>3, Zenon DEF ScanOK, TypesOK
    <3>6. \A k \in steady[t] : get_bucket(k) = bucket[t] => visits[t][k] = 1
      <4> SUFFICES ASSUME NEW k \in steady[t], get_bucket(k) = bucket[t] PROVE visits[t][k] = 1
        BY Zenon
      <4>1. PICK a \in Addresses : item[a].live /\ item[a].key = k  BY <3>5, Zenon DEF Present
      <4> QED  BY <3>2, <4>1, Zenon
    <3>7. \A k \in steady[t] : get_bucket(k) < bucket[t] => visits[t][k] = 1
      BY <1>1, <3>3, <3>4, Zenon DEF ScanOK
    <3>8. \A k \in Keys : get_bucket(k) > bucket[t] => visits[t][k] = 0
      BY <1>1, <3>3, <3>4, Zenon DEF ScanOK
    <3>9. \A k \in Keys : get_bucket(k) \in Nat /\ get_bucket(k) \in Buckets
      BY BucketFacts, Zenon
    <3>10. bucket[t] \in Nat  BY <3>1, BucketFacts, Zenon
    <3>11. ScanOK(t)'
      <4>1. CASE bucket[t] + 1 \in Buckets
        <5>1. pc'[t] = "lock" /\ bucket'[t] = bucket[t] + 1  BY <1>2, <2>2, <4>1, Zenon DEF Left
        <5>2. ASSUME NEW k \in steady[t], get_bucket(k) < bucket[t] + 1 PROVE visits[t][k] = 1
          <6>1. get_bucket(k) \in Nat  BY <3>5, <3>9
          <6>2. get_bucket(k) < bucket[t] \/ get_bucket(k) = bucket[t]  BY <3>10, <5>2, <6>1
          <6> QED  BY <3>6, <3>7, <6>2, Zenon
        <5>3. ASSUME NEW k \in Keys,
                     get_bucket(k) > bucket[t] + 1 \/ get_bucket(k) = bucket[t] + 1
              PROVE  visits[t][k] = 0
          <6>1. get_bucket(k) \in Nat  BY <3>9
          <6>2. get_bucket(k) > bucket[t]  BY <3>10, <5>3, <6>1
          <6> QED  BY <3>8, <6>2, Zenon
        <5> QED  BY <1>1, <1>7, <2>2, <3>4, <5>1, <5>2, <5>3, Zenon DEF ScanOK
      <4>2. CASE bucket[t] + 1 \notin Buckets
        <5>1. pc'[t] = "idle"  BY <1>2, <2>2, <4>2, Zenon DEF Left
        <5>2. \A e \in Buckets : e <= bucket[t]  BY <3>1, <4>2, BucketFacts, Zenon
        <5>3. ASSUME NEW k \in steady[t] PROVE visits[t][k] = 1
          <6>1. get_bucket(k) \in Nat /\ get_bucket(k) <= bucket[t]  BY <3>5, <3>9, <5>2, Zenon
          <6>2. get_bucket(k) < bucket[t] \/ get_bucket(k) = bucket[t]  BY <3>10, <6>1
          <6> QED  BY <3>6, <3>7, <6>2, Zenon
        <5> QED  BY <1>1, <1>7, <2>2, <5>1, <5>3, Zenon DEF ScanOK
      <4> QED  BY <4>1, <4>2
    <3>12. \A u \in AllThreads : u # t /\ op[u] \in Scans =>
              steady'[u] \subseteq steady[u] /\ steady'[u] \subseteq Present'
      BY <1>7, Zenon
    <3> QED  BY <1>3, <3>11, <3>12, OthersScanOn, Zenon
  <2> QED  BY <2>1, <2>2
<1>9. StoredOK'  BY <1>1, Zenon DEF StoredOK
<1> QED  BY <1>3, <1>4, <1>5, <1>8, <1>9, Zenon

\* A thread at an item that its call may change.
LEMMA CallerFacts ==
    ASSUME IInv, NEW t \in AllThreads, pc[t] = "walk",
           op[t].name \in HandlerOnly \cup WithCreator \cup {"remove_if"}
    PROVE  op[t] \in Calls /\ op[t] \notin Scans /\ op[t].key \in Keys
           /\ bucket[t] = get_bucket(op[t].key)
<1>1. op[t] \in Calls \cup Scans  BY WalkerFacts, Zenon
<1>2. op[t] \notin Scans  BY ScanFacts, Zenon
<1>3. "walk" # "idle"  OBVIOUS
<1>4. bucket[t] = get_bucket(op[t].key)  BY <1>2, <1>3, Zenon DEF IInv, ThreadsOK
<1> QED  BY <1>1, <1>2, <1>4, CallFacts, Zenon

\* What Apply changes: the object of one item.
Changed(a, o) ==
    /\ item' = [x \in Addresses |-> item'[x]]
    /\ \A x \in Addresses : IsItem(item'[x])
    /\ \A x \in Addresses : /\ item'[x].live = item[x].live /\ item'[x].key = item[x].key
                            /\ item'[x].next = item[x].next
    /\ item'[a].object = Handled(o, item[a].object)
    /\ \A x \in Addresses : x # a => item'[x].object = item[x].object

LEMMA ApplyChanges ==
    ASSUME TypesOK, NEW a \in Addresses, NEW o,
           item' = [item EXCEPT ![a].object = Handled(o, @)]
    PROVE  Changed(a, o)
<1> DEFINE h == Handled(o, item[a].object)
<1>1. item' = [item EXCEPT ![a] = [item[a] EXCEPT !.object = h]]  BY Zenon
<1>2. item = [x \in Addresses |-> item[x]] /\ \A x \in Addresses : IsItem(item[x])
  BY Zenon DEF TypesOK
<1>3. item'[a] = [item[a] EXCEPT !.object = h]
      /\ \A x \in Addresses : x # a => item'[x] = item[x]
  BY <1>1, <1>2
<1> DEFINE i == item[a]
           j == item'[a]
<1>4. i = [live |-> i.live, key |-> i.key, object |-> i.object, next |-> i.next]
      /\ i.live \in BOOLEAN /\ i.next \in Addresses \cup {null} /\ (i.live => i.key \in Keys)
  BY <1>2, Zenon DEF IsItem
<1>5. j = [i EXCEPT !.object = h]  BY <1>3
<1> HIDE DEF i, j, h
<1>6. /\ j = [live |-> i.live, key |-> i.key, object |-> h, next |-> i.next]
      /\ j.live = i.live /\ j.key = i.key /\ j.object = h /\ j.next = i.next
  BY <1>4, <1>5
<1>7. IsItem(j)  BY <1>4, <1>6, Zenon DEF IsItem
<1> USE DEF i, j, h
<1>8. item' = [x \in Addresses |-> item'[x]]  BY <1>1, <1>2
<1>9. \A x \in Addresses : IsItem(item'[x])
  <2> SUFFICES ASSUME NEW x \in Addresses PROVE IsItem(item'[x])  BY Zenon
  <2>1. CASE x = a  BY <1>7, <2>1, Zenon
  <2>2. CASE x # a  BY <1>2, <1>3, <2>2, Zenon
  <2> QED  BY <2>1, <2>2
<1>10. \A x \in Addresses : /\ item'[x].live = item[x].live /\ item'[x].key = item[x].key
                            /\ item'[x].next = item[x].next
  <2> SUFFICES ASSUME NEW x \in Addresses
               PROVE  /\ item'[x].live = item[x].live /\ item'[x].key = item[x].key
                      /\ item'[x].next = item[x].next
    BY Zenon
  <2>1. CASE x = a  BY <1>6, <2>1, Zenon
  <2>2. CASE x # a  BY <1>3, <2>2, Zenon
  <2> QED  BY <2>1, <2>2
<1>11. item'[a].object = h  BY <1>6, Zenon
<1>12. \A x \in Addresses : x # a => item'[x].object = item[x].object  BY <1>3, Zenon
<1> QED  BY <1>8, <1>9, <1>10, <1>11, <1>12, Zenon DEF Changed

\* Apply.
LEMMA ApplyPreserves ==
    ASSUME IInv, NEW t \in AllThreads, Apply(t)
    PROVE  IInv'
<1> DEFINE a == Deref(p[t])
<1>1. /\ pc[t] = "walk" /\ a # null
      /\ op[t].name \in HandlerOnly \cup WithCreator
      /\ item' = [item EXCEPT ![a].object = Handled(op[t], @)]
      /\ Leave(t) /\ m_objects' = m_objects /\ steady' = steady /\ visits' = visits
  BY Zenon DEF Apply
<1>2. Ahead(item, op[t], bucket[t], visits[t], a)  BY <1>1, WalkerFacts, Zenon
<1>3. op[t] \in Calls /\ op[t] \notin Scans  BY <1>1, CallerFacts, Zenon
<1>4. a \in Addresses /\ item[a].live  BY <1>2, Zenon DEF Ahead
<1> USE DEF IInv
<1>5. Changed(a, op[t])  BY <1>1, <1>4, ApplyChanges, Zenon
<1> HIDE DEF a
<1>6. \A x \in Addresses : /\ item'[x].live = item[x].live /\ item'[x].key = item[x].key
                           /\ item'[x].next = item[x].next
  BY <1>5, Zenon DEF Changed
<1>7. Left(t)  BY <1>1, LeaveFacts, Zenon
<1>8. Others(t) /\ pc'[t] # "walk" /\ ThreadsOK'  BY <1>7, Zenon DEF Left
<1>9. TypesOK'
  <2>1. /\ m_objects' \in [Buckets -> Addresses \cup {null}]
        /\ steady' \in [AllThreads -> SUBSET Keys]
    BY <1>1, Zenon DEF TypesOK
  <2>2. item' = [x \in Addresses |-> item'[x]] /\ \A x \in Addresses : IsItem(item'[x])
    BY <1>5, Zenon DEF Changed
  <2> QED  BY <1>1, <1>7, <2>1, <2>2, LeftTypes, Zenon
<1>10. ChainsOK' /\ WalksOK'
  <2>1. \A e \in Buckets : Kept(m_objects, item, m_objects', item', e)
    BY <1>1, <1>6, Zenon DEF Kept
  <2> QED  BY <1>8, <2>1, NoBucketChanges, Zenon
<1>11. Present' = Present  BY <1>6 DEF Present
<1>12. ScansOK'
  <2>1. \A u \in AllThreads : /\ steady'[u] \subseteq steady[u]
                              /\ op[u] \in Scans => steady'[u] \subseteq Present'
    BY <1>1, <1>11, Zenon DEF ScansOK, ScanOK
  <2> QED  BY <1>3, <1>7, <2>1, LeftScans, Zenon
<1>13. StoredOK'
  <2> SUFFICES ASSUME NEW x \in Addresses, item'[x].live PROVE Stored(item'[x].object)
    BY Zenon DEF StoredOK
  <2>1. Stored(item[x].object)  BY <1>6, Zenon DEF StoredOK
  <2>2. CASE x = a
    <3>1. item'[x].object = Handled(op[t], item[x].object)  BY <1>5, <2>2, Zenon DEF Changed
    <3> QED  BY <1>3, <2>1, <3>1, CallsStore, Zenon
  <2>3. CASE x # a  BY <1>5, <2>1, <2>3, Zenon DEF Changed
  <2> QED  BY <2>2, <2>3
<1> QED  BY <1>8, <1>9, <1>10, <1>12, <1>13, Zenon

\* Insert.
LEMMA InsertPreserves ==
    ASSUME IInv, NEW t \in AllThreads, NEW a \in Addresses, Insert(t, a)
    PROVE  IInv'
<1> DEFINE b == bucket[t]
           k == op[t].key
           i == [live |-> TRUE, key |-> k, object |-> Created(op[t]), next |-> m_objects[b]]
<1>1. /\ pc[t] = "walk" /\ Deref(p[t]) = null
      /\ op[t].name \in WithCreator /\ ~ item[a].live
      /\ item' = [item EXCEPT ![a] = i] /\ m_objects' = [m_objects EXCEPT ![b] = a]
      /\ Leave(t) /\ steady' = steady /\ visits' = visits
  BY Zenon DEF Insert
<1>2. op[t] \in Calls /\ op[t] \notin Scans /\ k \in Keys /\ b = get_bucket(k)
  BY <1>1, CallerFacts, Zenon
<1>3. b \in Buckets /\ HasChain(m_objects, item, b)  BY <1>1, WalkerFacts, Zenon
<1>4. Lacks(item, b, k)
  <2>1. Met(item, op[t], b, visits[t])  BY <1>1, WalkerEnds, Zenon
  <2> QED  BY <1>2, <2>1, Zenon DEF Met, Lacks
<1> USE DEF IInv
<1>5. /\ item = [x \in Addresses |-> item[x]] /\ \A x \in Addresses : IsItem(item[x])
      /\ m_objects \in [Buckets -> Addresses \cup {null}]
  BY Zenon DEF TypesOK
<1>6. /\ i = [live |-> i.live, key |-> i.key, object |-> i.object, next |-> i.next]
      /\ i.live = TRUE /\ i.key = k /\ i.object = Created(op[t]) /\ i.next = m_objects[b]
  OBVIOUS
<1> HIDE DEF b, k, i
<1>7. IsItem(i)
  <2>1. m_objects[b] \in Addresses \cup {null}  BY <1>3, <1>5, Zenon
  <2>2. TRUE \in BOOLEAN  OBVIOUS
  <2> QED  BY <1>2, <1>6, <2>1, <2>2, Zenon DEF IsItem
<1>8. /\ item'[a] = i /\ \A x \in Addresses : x # a => item'[x] = item[x]
      /\ item' = [x \in Addresses |-> item'[x]]
  BY <1>1, <1>5
<1>9. /\ m_objects'[b] = a /\ \A e \in Buckets : e # b => m_objects'[e] = m_objects[e]
      /\ m_objects' \in [Buckets -> Addresses \cup {null}]
  BY <1>1, <1>3, <1>5
<1>10. Left(t)  BY <1>1, LeaveFacts, Zenon
<1>11. Others(t) /\ pc'[t] # "walk" /\ ThreadsOK'  BY <1>10, Zenon DEF Left
<1>12. TypesOK'
  <2>1. \A x \in Addresses : IsItem(item'[x])
    <3> SUFFICES ASSUME NEW x \in Addresses PROVE IsItem(item'[x])  BY Zenon
    <3>1. CASE x = a  BY <1>7, <1>8, <3>1, Zenon
    <3>2. CASE x # a  BY <1>5, <1>8, <3>2, Zenon
    <3> QED  BY <3>1, <3>2
  <2>2. steady' \in [AllThreads -> SUBSET Keys]  BY <1>1, Zenon DEF TypesOK
  <2> QED  BY <1>1, <1>8, <1>9, <1>10, <2>1, <2>2, LeftTypes, Zenon
<1>13. ChainsOK' /\ WalksOK'
  <2>1. Inserted(m_objects, item, m_objects', item', b, a, k)
    <3>1. item'[a].live /\ item'[a].key = k /\ item'[a].next = m_objects[b]
      BY <1>6, <1>8, Zenon
    <3> QED  BY <1>8, <1>9, <3>1, Zenon DEF Inserted
  <2>2. /\ HasChain(m_objects', item', b)
        /\ \A e \in Buckets : e # b => Kept(m_objects, item, m_objects', item', e)
    <3>1. ~ item[a].live /\ get_bucket(k) = b  BY <1>1, <1>2
    <3> QED  BY <1>3, <1>4, <2>1, <3>1, InsertedChain, Zenon
  <2> QED  BY <1>1, <1>11, <2>2, OwnBucketChanges, Zenon DEF b
<1>14. ScansOK'
  <2>1. Present \subseteq Present'
    <3> SUFFICES ASSUME NEW x \in Addresses, item[x].live PROVE item[x].key \in Present'
      BY Zenon DEF Present
    <3>1. x # a  BY <1>1, Zenon
    <3>2. item'[x] = item[x]  BY <1>8, <3>1, Zenon
    <3> QED  BY <3>2, Zenon DEF Present
  <2>2. \A u \in AllThreads : op[u] \in Scans => steady[u] \subseteq Present
    BY Zenon DEF ScansOK, ScanOK
  <2>3. \A u \in AllThreads : /\ steady'[u] \subseteq steady[u]
                              /\ op[u] \in Scans => steady'[u] \subseteq Present'
    BY <1>1, <2>1, <2>2, Zenon
  <2> QED  BY <1>2, <1>10, <2>3, LeftScans, Zenon
<1>15. StoredOK'
  <2> SUFFICES ASSUME NEW x \in Addresses, item'[x].live PROVE Stored(item'[x].object)
    BY Zenon DEF StoredOK
  <2>1. CASE x = a
    <3>1. item'[x].object = Created(op[t])  BY <1>6, <1>8, <2>1, Zenon
    <3> QED  BY <1>2, <3>1, CallsStore, Zenon
  <2>2. CASE x # a
    <3>1. item'[x] = item[x]  BY <1>8, <2>2, Zenon
    <3> QED  BY <3>1, Zenon DEF StoredOK
  <2> QED  BY <2>1, <2>2
<1> QED  BY <1>11, <1>12, <1>13, <1>14, <1>15, Zenon

\* The item where no item is.
LEMMA NoItemFacts == IsItem(NoItem) /\ ~ NoItem.live
<1>1. /\ NoItem = [live |-> NoItem.live, key |-> NoItem.key, object |-> NoItem.object,
                   next |-> NoItem.next]
      /\ NoItem.live = FALSE /\ NoItem.next = null
  BY DEF NoItem
<1>2. FALSE \in BOOLEAN  OBVIOUS
<1> QED  BY <1>1, <1>2, Zenon DEF IsItem

\* What Unlink does to the items, and to what scans are to visit.
Dropped(t, a) ==
    /\ Unlinked(m_objects, item, m_objects', item', p[t], a)
    /\ m_objects' \in [Buckets -> Addresses \cup {null}]
    /\ item' = [x \in Addresses |-> item'[x]] /\ \A x \in Addresses : IsItem(item'[x])
    /\ \A x \in Addresses : x # a => item'[x].object = item[x].object
    /\ steady' \in [AllThreads -> SUBSET Keys]
    /\ \A u \in AllThreads : steady'[u] = steady[u] \ {item[a].key}

LEMMA UnlinkFacts ==
    ASSUME TypesOK, NEW t \in AllThreads, NEW a \in Addresses, Unlink(t, a)
    PROVE  Dropped(t, a)
<1> DEFINE q == p[t]
           n == item[a].next
           rest == IF q.in = "bucket" THEN item ELSE [item EXCEPT ![q.at].next = n]
<1>1. /\ item' = [rest EXCEPT ![a] = NoItem]
      /\ m_objects' = IF q.in = "item" THEN m_objects ELSE [m_objects EXCEPT ![q.at] = n]
      /\ steady' = [u \in AllThreads |-> steady[u] \ {item[a].key}]
  BY Zenon DEF Unlink
<1>2. /\ item = [x \in Addresses |-> item[x]] /\ \A x \in Addresses : IsItem(item[x])
      /\ m_objects \in [Buckets -> Addresses \cup {null}]
      /\ steady \in [AllThreads -> SUBSET Keys] /\ q \in Places
  BY Zenon DEF TypesOK
<1>3. n \in Addresses \cup {null}  BY <1>2, Zenon DEF IsItem
<1>4. \/ q.in = "bucket" /\ q.in # "item" /\ q.at \in Buckets
      \/ q.in = "item" /\ q.in # "bucket" /\ q.at \in Addresses
  BY <1>2 DEF Places
<1>5. ASSUME NEW x \in Addresses, NEW j, j = [item[x] EXCEPT !.next = n]
      PROVE  /\ IsItem(j) /\ j.live = item[x].live /\ j.key = item[x].key
             /\ j.object = item[x].object /\ j.next = n
  <2> DEFINE i == item[x]
  <2>1. i = [live |-> i.live, key |-> i.key, object |-> i.object, next |-> i.next]
        /\ i.live \in BOOLEAN /\ (i.live => i.key \in Keys)
    BY <1>2, Zenon DEF IsItem
  <2>2. j = [i EXCEPT !.next = n]  BY <1>5
  <2> HIDE DEF i, n
  <2>3. /\ j = [live |-> i.live, key |-> i.key, object |-> i.object, next |-> n]
        /\ j.live = i.live /\ j.key = i.key /\ j.object = i.object /\ j.next = n
    BY <2>1, <2>2
  <2>4. IsItem(j)  BY <1>3, <2>1, <2>3, Zenon DEF IsItem
  <2> QED  BY <2>3, <2>4, Zenon DEF i
<1>6. /\ rest = [x \in Addresses |-> rest[x]]
      /\ \A x \in Addresses : /\ IsItem(rest[x]) /\ rest[x].live = item[x].live
                              /\ rest[x].key = item[x].key /\ rest[x].object = item[x].object
      /\ \A x \in Addresses : ~ (q.in = "item" /\ x = q.at) => rest[x].next = item[x].next
      /\ q.in = "item" => rest[q.at].next = n
  <2>1. CASE q.in = "bucket"
    <3>1. rest = item /\ q.in # "item"  BY <1>4, <2>1, Zenon
    <3> HIDE DEF rest, q, n
    <3>2. rest = [x \in Addresses |-> rest[x]]  BY <1>2, <3>1, Zenon
    <3>3. \A x \in Addresses : /\ IsItem(rest[x]) /\ rest[x].live = item[x].live
                                /\ rest[x].key = item[x].key /\ rest[x].object = item[x].object
                                /\ rest[x].next = item[x].next
      BY <1>2, <3>1, Zenon
    <3> QED  BY <3>1, <3>2, <3>3, Zenon
  <2>2. CASE q.in = "item" /\ q.in # "bucket" /\ q.at \in Addresses
    <3>1. rest = [item EXCEPT ![q.at] = [item[q.at] EXCEPT !.next = n]]  BY <2>2, Zenon
    <3> HIDE DEF rest, q, n
    <3>2. /\ rest = [x \in Addresses |-> rest[x]]
          /\ rest[q.at] = [item[q.at] EXCEPT !.next = n]
          /\ \A x \in Addresses : x # q.at => rest[x] = item[x]
      BY <1>2, <2>2, <3>1
    <3>3. /\ IsItem(rest[q.at]) /\ rest[q.at].live = item[q.at].live
          /\ rest[q.at].key = item[q.at].key /\ rest[q.at].object = item[q.at].object
          /\ rest[q.at].next = n
      BY <1>5, <2>2, <3>2, Zenon
    <3>4. ASSUME NEW x \in Addresses
          PROVE  /\ IsItem(rest[x]) /\ rest[x].live = item[x].live
                 /\ rest[x].key = item[x].key /\ rest[x].object = item[x].object
      <4>1. CASE x = q.at  BY <3>3, <4>1, Zenon
      <4>2. CASE x # q.at  BY <1>2, <3>2, <4>2, Zenon
      <4> QED  BY <4>1, <4>2
    <3>5. \A x \in Addresses : ~ (q.in = "item" /\ x = q.at) => rest[x].next = item[x].next
      BY <2>2, <3>2, Zenon
    <3>6. q.in = "item" => rest[q.at].next = n  BY <3>3, Zenon
    <3> QED  BY <3>2, <3>4, <3>5, <3>6, Zenon
  <2> QED  BY <1>4, <2>1, <2>2, Zenon
<1> HIDE DEF rest, n
<1>7. /\ item'[a] = NoItem /\ \A x \in Addresses : x # a => item'[x] = rest[x]
      /\ item' = [x \in Addresses |-> item'[x]]
  BY <1>1, <1>6
<1>8. \A x \in Addresses : IsItem(item'[x])
  <2> SUFFICES ASSUME NEW x \in Addresses PROVE IsItem(item'[x])  BY Zenon
  <2>1. CASE x = a  BY <1>7, <2>1, NoItemFacts, Zenon
  <2>2. CASE x # a  BY <1>6, <1>7, <2>2, Zenon
  <2> QED  BY <2>1, <2>2
<1>9. \A x \in Addresses : x # a => item'[x].object = item[x].object  BY <1>6, <1>7, Zenon
<1>10. /\ m_objects' \in [Buckets -> Addresses \cup {null}]
       /\ q.in = "bucket" => m_objects'[q.at] = n
       /\ \A b \in Buckets : ~ (q.in = "bucket" /\ b = q.at) => m_objects'[b] = m_objects[b]
  <2>1. CASE q.in = "item" /\ q.in # "bucket"  BY <1>1, <1>2, <2>1, Zenon
  <2>2. CASE q.in = "bucket" /\ q.in # "item" /\ q.at \in Buckets
    <3>1. m_objects' = [m_objects EXCEPT ![q.at] = n]  BY <1>1, <2>2, Zenon
    <3> HIDE DEF q
    <3> QED  BY <1>2, <1>3, <2>2, <3>1
  <2> QED  BY <1>4, <2>1, <2>2, Zenon
<1>11. Unlinked(m_objects, item, m_objects', item', p[t], a)
  <2> DEFINE K(x) == /\ item'[x].live <=> item[x].live
                     /\ item'[x].key = item[x].key
  <2>1. ~ item'[a].live  BY <1>7, NoItemFacts, Zenon
  <2>2. \A x \in Addresses : x # a => K(x)  BY <1>6, <1>7, Zenon
  <2>3. \A x \in Addresses : x # a /\ ~ (q.in = "item" /\ x = q.at) =>
           item'[x].next = item[x].next
    BY <1>6, <1>7, Zenon
  <2>4. q.in = "item" /\ q.at # a => item'[q.at].next = n
    <3> SUFFICES ASSUME q.in = "item", q.at # a PROVE item'[q.at].next = n  BY Zenon
    <3>1. q.at \in Addresses
      <4>1. "item" # "bucket"  OBVIOUS
      <4> QED  BY <1>4, <4>1, Zenon
    <3> QED  BY <1>6, <1>7, <3>1, Zenon
  <2> QED  BY <1>10, <2>1, <2>2, <2>3, <2>4, Zenon DEF Unlinked, n
<1>12. /\ steady' \in [AllThreads -> SUBSET Keys]
       /\ \A u \in AllThreads : steady'[u] = steady[u] \ {item[a].key}
  <2>1. \A u \in AllThreads : steady[u] \ {item[a].key} \in SUBSET Keys  BY <1>2, Zenon
  <2> QED  BY <1>1, <2>1, Zenon
<1> QED  BY <1>7, <1>8, <1>9, <1>10, <1>11, <1>12, Zenon DEF Dropped

\* The chains, the scans and the data after a walking thread has dropped an item.
LEMMA DroppedFacts ==
    ASSUME IInv, NEW t \in AllThreads, pc[t] = "walk", NEW a, a = Deref(p[t]), a # null,
           Dropped(t, a)
    PROVE  /\ Walk(m_objects', item', op[t], p[t], bucket[t], visits[t])
           /\ HasChain(m_objects', item', bucket[t])
           /\ \A e \in Buckets : e # bucket[t] => Kept(m_objects, item, m_objects', item', e)
           /\ \A u \in AllThreads : steady'[u] \subseteq steady[u]
           /\ \A u \in AllThreads : op[u] \in Scans => steady'[u] \subseteq Present'
           /\ StoredOK'
<1>1. /\ bucket[t] \in Buckets /\ a = Follow(m_objects, item, p[t])
      /\ Walk(m_objects, item, op[t], p[t], bucket[t], visits[t])
      /\ Ahead(item, op[t], bucket[t], visits[t], a)
  BY WalkerFacts, Zenon
<1>2. a \in Addresses  BY <1>1, Zenon DEF Ahead
<1>3. Unlinked(m_objects, item, m_objects', item', p[t], a)  BY Zenon DEF Dropped
<1>4. /\ Walk(m_objects', item', op[t], p[t], bucket[t], visits[t])
      /\ \A e \in Buckets : e # bucket[t] => Kept(m_objects, item, m_objects', item', e)
  BY <1>1, <1>3, UnlinkedWalk, Zenon
<1>5. HasChain(m_objects', item', bucket[t])
  <2>1. PICK n \in Nat : \E c \in [1..n -> Addresses] :
           /\ Chain(m_objects', item', bucket[t], n, c)
           /\ \E i \in 0..n : Stands(item', op[t], p[t], bucket[t], visits[t], n, c, i)
    BY <1>4, Zenon DEF Walk
  <2> QED  BY <2>1, Zenon DEF HasChain
<1>6. /\ ~ item'[a].live
      /\ \A x \in Addresses : x # a =>
            (item'[x].live <=> item[x].live) /\ item'[x].key = item[x].key
  BY <1>3, Zenon DEF Unlinked
<1>7. /\ \A u \in AllThreads : steady'[u] = steady[u] \ {item[a].key}
      /\ \A x \in Addresses : x # a => item'[x].object = item[x].object
  BY Zenon DEF Dropped
<1>8. ASSUME NEW u \in AllThreads, op[u] \in Scans PROVE steady'[u] \subseteq Present'
  <2> SUFFICES ASSUME NEW k \in steady[u], k # item[a].key PROVE k \in Present'
    BY <1>7, Zenon
  <2>1. k \in Present  BY <1>8, Zenon DEF IInv, ScansOK, ScanOK
  <2>2. PICK x \in Addresses : item[x].live /\ item[x].key = k  BY <2>1, Zenon DEF Present
  <2>3. item'[x].live /\ item'[x].key = k  BY <1>6, <2>2, Zenon
  <2> QED  BY <2>3, Zenon DEF Present
<1>9. StoredOK'
  <2> SUFFICES ASSUME NEW x \in Addresses, item'[x].live PROVE Stored(item'[x].object)
    BY Zenon DEF StoredOK
  <2>1. x # a  BY <1>6, Zenon
  <2>2. item[x].live /\ item'[x].object = item[x].object  BY <1>6, <1>7, <2>1, Zenon
  <2> QED  BY <2>2, Zenon DEF IInv, StoredOK
<1>10. \A u \in AllThreads : steady'[u] \subseteq steady[u]  BY <1>7, Zenon
<1> QED  BY <1>4, <1>5, <1>8, <1>9, <1>10, Zenon

\* Remove_if.
LEMMA Remove_ifPreserves ==
    ASSUME IInv, NEW t \in AllThreads, Remove_if(t)
    PROVE  IInv'
<1> DEFINE a == Deref(p[t])
<1>1. /\ pc[t] = "walk" /\ a # null /\ op[t].name = "remove_if"
      /\ Unlink(t, a) \/ (m_objects' = m_objects /\ item' = item /\ steady' = steady)
      /\ Leave(t) /\ visits' = visits
  BY Zenon DEF Remove_if
<1>2. Ahead(item, op[t], bucket[t], visits[t], a)  BY <1>1, WalkerFacts, Zenon
<1>3. a \in Addresses /\ a = Deref(p[t]) /\ op[t] \notin Scans
  BY <1>1, <1>2, CallerFacts, Zenon DEF Ahead
<1> HIDE DEF a
<1> USE DEF IInv
<1>4. Left(t)  BY <1>1, LeaveFacts, Zenon
<1>5. Others(t) /\ pc'[t] # "walk" /\ ThreadsOK'  BY <1>4, Zenon DEF Left
<1>6. CASE Unlink(t, a)
  <2>1. Dropped(t, a)  BY <1>3, <1>6, UnlinkFacts, Zenon
  <2>2. /\ HasChain(m_objects', item', bucket[t])
        /\ \A e \in Buckets : e # bucket[t] => Kept(m_objects, item, m_objects', item', e)
        /\ \A u \in AllThreads : steady'[u] \subseteq steady[u]
        /\ \A u \in AllThreads : op[u] \in Scans => steady'[u] \subseteq Present'
        /\ StoredOK'
    BY <1>1, <1>3, <2>1, DroppedFacts, Zenon
  <2>3. TypesOK'
    <3>1. /\ m_objects' \in [Buckets -> Addresses \cup {null}]
          /\ item' = [x \in Addresses |-> item'[x]] /\ \A x \in Addresses : IsItem(item'[x])
          /\ steady' \in [AllThreads -> SUBSET Keys]
      BY <2>1, Zenon DEF Dropped
    <3> QED  BY <1>1, <1>4, <3>1, LeftTypes, Zenon
  <2>4. ChainsOK' /\ WalksOK'  BY <1>1, <1>5, <2>2, OwnBucketChanges, Zenon
  <2>5. ScansOK'  BY <1>3, <1>4, <2>2, LeftScans, Zenon
  <2> QED  BY <1>5, <2>2, <2>3, <2>4, <2>5, Zenon
<1>7. CASE m_objects' = m_objects /\ item' = item /\ steady' = steady
  <2>1. TypesOK'
    <3>1. /\ m_objects \in [Buckets -> Addresses \cup {null}]
          /\ item = [x \in Addresses |-> item[x]] /\ \A x \in Addresses : IsItem(item[x])
          /\ steady \in [AllThreads -> SUBSET Keys]
      BY Zenon DEF TypesOK
    <3> QED  BY <1>1, <1>4, <1>7, <3>1, LeftTypes, Zenon
  <2>2. ChainsOK' /\ WalksOK'
    <3>1. \A e \in Buckets : Kept(m_objects, item, m_objects', item', e)
      BY <1>7, UnchangedIsKept, Zenon
    <3> QED  BY <1>5, <3>1, NoBucketChanges, Zenon
  <2>3. ScansOK'
    <3>1. Present' = Present  BY <1>7, Zenon DEF Present
    <3>2. \A u \in AllThreads : /\ steady'[u] \subseteq steady[u]
                                /\ op[u] \in Scans => steady'[u] \subseteq Present'
      BY <1>7, <3>1, Zenon DEF ScansOK, ScanOK
    <3> QED  BY <1>3, <1>4, <3>2, LeftScans, Zenon
  <2>4. StoredOK'  BY <1>7, Zenon DEF StoredOK
  <2> QED  BY <1>5, <2>1, <2>2, <2>3, <2>4, Zenon
<1> QED  BY <1>1, <1>6, <1>7, Zenon

\* Collect.
LEMMA CollectPreserves ==
    ASSUME IInv, NEW t \in AllThreads, Collect(t)
    PROVE  IInv'
<1> DEFINE a == Deref(p[t])
<1>1. /\ pc[t] = "walk" /\ a # null /\ Unlink(t, a)
      /\ m_lock' = m_lock /\ op' = op /\ pc' = pc /\ bucket' = bucket /\ p' = p
      /\ visits' = visits
  BY Zenon DEF Collect
<1>2. Ahead(item, op[t], bucket[t], visits[t], a)  BY <1>1, WalkerFacts, Zenon
<1>3. a \in Addresses /\ a = Deref(p[t])  BY <1>2, Zenon DEF Ahead
<1> HIDE DEF a
<1> USE DEF IInv
<1>4. Dropped(t, a)  BY <1>1, <1>3, UnlinkFacts, Zenon
<1>5. /\ Walk(m_objects', item', op[t], p[t], bucket[t], visits[t])
      /\ HasChain(m_objects', item', bucket[t])
      /\ \A e \in Buckets : e # bucket[t] => Kept(m_objects, item, m_objects', item', e)
      /\ \A u \in AllThreads : steady'[u] \subseteq steady[u]
      /\ \A u \in AllThreads : op[u] \in Scans => steady'[u] \subseteq Present'
      /\ StoredOK'
  BY <1>1, <1>3, <1>4, DroppedFacts, Zenon
<1>6. Others(t)  BY <1>1, Zenon DEF Others
<1>7. TypesOK'
  <2>1. /\ m_objects' \in [Buckets -> Addresses \cup {null}]
        /\ item' = [x \in Addresses |-> item'[x]] /\ \A x \in Addresses : IsItem(item'[x])
        /\ steady' \in [AllThreads -> SUBSET Keys]
    BY <1>4, Zenon DEF Dropped
  <2> QED  BY <1>1, <2>1, Zenon DEF TypesOK
<1>8. ThreadsOK'  BY <1>1, Zenon DEF ThreadsOK
<1>9. ChainsOK' /\ WalksOK'
  <2>1. Walk(m_objects', item', op'[t], p'[t], bucket'[t], visits'[t])  BY <1>1, <1>5, Zenon
  <2> QED  BY <1>1, <1>5, <1>6, <2>1, OwnBucketChanges, Zenon
<1>10. ScansOK'
  <2>1. ASSUME op'[t] \in Scans PROVE ScanOK(t)'
    <3>1. ScanOK(t)  BY <1>1, <2>1, Zenon DEF ScansOK
    <3>2. steady'[t] \subseteq steady[t] /\ steady'[t] \subseteq Present'
      BY <1>1, <1>5, <2>1, Zenon
    <3> QED  BY <1>1, <3>1, <3>2, Zenon DEF ScanOK
  <2>2. \A u \in AllThreads : u # t /\ op[u] \in Scans =>
           steady'[u] \subseteq steady[u] /\ steady'[u] \subseteq Present'
    BY <1>5, Zenon
  <2> QED  BY <1>6, <2>1, <2>2, OthersScanOn, Zenon
<1> QED  BY <1>5, <1>7, <1>8, <1>9, <1>10, Zenon

\* Without items all chains are empty.
LEMMA EmptyChains ==
    ASSUME NEW mo, NEW it, NEW b \in Buckets, mo[b] = null,
           \A a \in Addresses : ~ it[a].live
    PROVE  HasChain(mo, it, b)
<1> DEFINE c == [i \in 1..0 |-> null]
<1>1. 0 \in Nat /\ ~ (0 > 0) /\ \A i \in 1..0 : FALSE  OBVIOUS
<1>2. c \in [1..0 -> Addresses]  BY <1>1, Zenon
<1> HIDE DEF c
<1>3. Chain(mo, it, b, 0, c)  BY <1>1, OrderedFacts, Zenon DEF Chain
<1> QED  BY <1>1, <1>2, <1>3, Zenon DEF HasChain

\* Clear.
LEMMA ClearPreserves ==
    ASSUME IInv, Clear
    PROVE  IInv'
<1>1. /\ \A t \in AllThreads : pc[t] = "idle"
      /\ m_objects' = [b \in Buckets |-> null] /\ item' = [a \in Addresses |-> NoItem]
      /\ steady' = [t \in AllThreads |-> {}]
      /\ m_lock' = m_lock /\ op' = op /\ pc' = pc /\ bucket' = bucket /\ p' = p
      /\ visits' = visits
  BY Zenon DEF Clear
<1> USE DEF IInv
<1>2. /\ \A b \in Buckets : m_objects'[b] = null
      /\ \A a \in Addresses : item'[a] = NoItem
      /\ \A t \in AllThreads : steady'[t] = {}
  BY <1>1, Zenon
<1>3. TypesOK'
  <2>1. item' = [a \in Addresses |-> item'[a]]  BY <1>1
  <2>2. \A a \in Addresses : IsItem(item'[a])  BY <1>2, NoItemFacts, Zenon
  <2>3. m_objects' \in [Buckets -> Addresses \cup {null}]  BY <1>1, Zenon
  <2>4. steady' \in [AllThreads -> SUBSET Keys]  BY <1>1, Zenon
  <2> QED  BY <1>1, <2>1, <2>2, <2>3, <2>4, Zenon DEF TypesOK
<1>4. ThreadsOK'  BY <1>1, Zenon DEF ThreadsOK
<1>5. ChainsOK'
  <2>1. \A a \in Addresses : ~ item'[a].live  BY <1>2, NoItemFacts, Zenon
  <2> QED  BY <1>2, <2>1, EmptyChains, Zenon DEF ChainsOK
<1>6. WalksOK'
  <2>1. "walk" # "idle"  OBVIOUS
  <2> QED  BY <1>1, <2>1, Zenon DEF WalksOK
<1>7. ScansOK'  BY <1>1, <1>2, Zenon DEF ScansOK, ScanOK
<1>8. StoredOK'  BY <1>2, NoItemFacts, Zenon DEF StoredOK
<1> QED  BY <1>3, <1>4, <1>5, <1>6, <1>7, <1>8, Zenon

\* The empty hash.
LEMMA InitIInv == Init => IInv
<1> SUFFICES ASSUME Init PROVE IInv  OBVIOUS
<1>1. /\ m_objects = [b \in Buckets |-> null] /\ item = [a \in Addresses |-> NoItem]
      /\ m_lock = [b \in Buckets |-> null] /\ op = [t \in AllThreads |-> NoOp]
      /\ pc = [t \in AllThreads |-> "idle"] /\ bucket = [t \in AllThreads |-> 0]
      /\ p = [t \in AllThreads |-> Head_of(0)] /\ steady = [t \in AllThreads |-> {}]
      /\ visits = [t \in AllThreads |-> [k \in Keys |-> 0]]
  BY Zenon DEF Init
<1>2. /\ \A b \in Buckets : m_objects[b] = null
      /\ \A a \in Addresses : item[a] = NoItem
      /\ \A t \in AllThreads : op[t] = NoOp /\ pc[t] = "idle" /\ steady[t] = {}
  BY <1>1, Zenon
<1>3. TypesOK
  <2>1. 0 \in Buckets  BY BucketFacts, Zenon
  <2>2. Head_of(0) \in Places  BY <2>1 DEF Head_of, Places
  <2>3. item = [a \in Addresses |-> item[a]]  BY <1>1
  <2>4. \A a \in Addresses : IsItem(item[a])  BY <1>2, NoItemFacts, Zenon
  <2>5. visits \in [AllThreads -> [Keys -> 0..1]]
    <3>1. [k \in Keys |-> 0] \in [Keys -> 0..1]  OBVIOUS
    <3> QED  BY <1>1, <3>1, Zenon
  <2>6. /\ m_objects \in [Buckets -> Addresses \cup {null}]
        /\ m_lock \in [Buckets -> AllThreads \cup {null}]
    BY <1>1, Zenon
  <2>7. /\ op \in [AllThreads -> Calls \cup Scans \cup {NoOp}]
        /\ pc \in [AllThreads -> {"idle", "lock", "walk"}]
    BY <1>1, Zenon
  <2>8. bucket \in [AllThreads -> Buckets] /\ p \in [AllThreads -> Places]
    BY <1>1, <2>1, <2>2, Zenon
  <2>9. steady \in [AllThreads -> SUBSET Keys]  BY <1>1, Zenon
  <2> QED  BY <2>3, <2>4, <2>5, <2>6, <2>7, <2>8, <2>9, Zenon DEF TypesOK
<1>4. "walk" # "idle"  OBVIOUS
<1>5. ThreadsOK  BY <1>2, <1>4, Zenon DEF ThreadsOK
<1>6. ChainsOK
  <2>1. \A a \in Addresses : ~ item[a].live  BY <1>2, NoItemFacts, Zenon
  <2> QED  BY <1>2, <2>1, EmptyChains, Zenon DEF ChainsOK
<1>7. WalksOK  BY <1>2, <1>4, Zenon DEF WalksOK
<1>8. ScansOK
  <2>1. NoOp \notin Scans  BY ScanFacts, Zenon
  <2> QED  BY <1>2, <2>1, Zenon DEF ScansOK
<1>9. StoredOK  BY <1>2, NoItemFacts, Zenon DEF StoredOK
<1> QED  BY <1>3, <1>5, <1>6, <1>7, <1>8, <1>9, Zenon DEF IInv

\* Nothing happens.
LEMMA StutterPreserves ==
    ASSUME IInv, UNCHANGED vars
    PROVE  IInv'
<1>1. /\ m_objects' = m_objects /\ item' = item /\ m_lock' = m_lock /\ op' = op /\ pc' = pc
      /\ bucket' = bucket /\ p' = p /\ steady' = steady /\ visits' = visits
  BY DEF vars
<1> USE DEF IInv
<1>2. TypesOK'  BY <1>1, Zenon DEF TypesOK
<1>3. ThreadsOK'  BY <1>1, Zenon DEF ThreadsOK
<1>4. ChainsOK' /\ WalksOK'  BY <1>1, Zenon DEF ChainsOK, WalksOK
<1>5. ScansOK'
  <2>1. Present' = Present  BY <1>1, Zenon DEF Present
  <2> SUFFICES ASSUME NEW u \in AllThreads, op[u] \in Scans PROVE ScanOK(u)'
    BY <1>1, Zenon DEF ScansOK
  <2>2. ScanOK(u)  BY Zenon DEF ScansOK
  <2> QED  BY <1>1, <2>1, <2>2, Zenon DEF ScanOK
<1>6. StoredOK'  BY <1>1, Zenon DEF StoredOK
<1> QED  BY <1>2, <1>3, <1>4, <1>5, <1>6, Zenon

\* IInv is inductive.
LEMMA IInvIsInductive == IInv /\ [Next]_vars => IInv'
<1> SUFFICES ASSUME IInv, [Next]_vars PROVE IInv'  OBVIOUS
<1>1. CASE Next
  <2>1. \/ Clear
        \/ \E t \in AllThreads :
             \/ \E o \in Calls \cup Scans : Begin(t, o)
             \/ Lock(t) \/ Step(t) \/ Apply(t) \/ NotFound(t) \/ Remove_if(t)
             \/ Visit(t) \/ Collect(t)
             \/ \E a \in Addresses : Insert(t, a)
    BY <1>1, Zenon DEF Next
  <2>2. CASE Clear  BY <2>2, ClearPreserves, Zenon
  <2>3. ASSUME NEW t \in AllThreads,
               \/ \E o \in Calls \cup Scans : Begin(t, o)
               \/ Lock(t) \/ Step(t) \/ Apply(t) \/ NotFound(t) \/ Remove_if(t)
               \/ Visit(t) \/ Collect(t)
               \/ \E a \in Addresses : Insert(t, a)
        PROVE  IInv'
    <3>1. CASE \E o \in Calls \cup Scans : Begin(t, o)  BY <3>1, BeginPreserves, Zenon
    <3>2. CASE Lock(t)  BY <3>2, LockPreserves, Zenon
    <3>3. CASE Step(t)  BY <3>3, StepPreserves, Zenon
    <3>4. CASE Apply(t)  BY <3>4, ApplyPreserves, Zenon
    <3>5. CASE NotFound(t)  BY <3>5, NotFoundPreserves, Zenon
    <3>6. CASE Remove_if(t)  BY <3>6, Remove_ifPreserves, Zenon
    <3>7. CASE Visit(t)  BY <3>7, VisitPreserves, Zenon
    <3>8. CASE Collect(t)  BY <3>8, CollectPreserves, Zenon
    <3>9. CASE \E a \in Addresses : Insert(t, a)  BY <3>9, InsertPreserves, Zenon
    <3> QED  BY <2>3, <3>1, <3>2, <3>3, <3>4, <3>5, <3>6, <3>7, <3>8, <3>9, Zenon
  <2> QED  BY <2>1, <2>2, <2>3, Zenon
<1>2. CASE UNCHANGED vars  BY <1>2, StutterPreserves, Zenon
<1> QED  BY <1>1, <1>2, Zenon

-----------------------------------------------------------------------------
(***************************************************************************)
(* What follows.                                                           *)
(***************************************************************************)

\* IInv holds in all states: while threads lock, walk and change the buckets, every
\* chain holds the items of its bucket, and every walk stands in a chain.
THEOREM Invariance == Spec => []IInv
BY InitIInv, IInvIsInductive, PTL DEF Spec

\* foreach and gc (hash_map::foreach and gc, which give up the lock between buckets)
\* meet every object that is there from their beginning to their end, and none twice,
\* whatever other threads insert and remove behind and before them.
THEOREM ScanIsCompleteHolds == Spec => []ScanIsComplete
<1>1. ASSUME IInv PROVE ScanIsComplete
  <2>1. ASSUME NEW t \in AllThreads, NEW k \in Keys PROVE visits[t][k] <= 1
    <3>1. visits[t] \in [Keys -> 0..1]  BY <1>1, Zenon DEF IInv, TypesOK
    <3>2. visits[t][k] \in 0..1  BY <3>1, Zenon
    <3> QED  BY <3>2
  <2>2. ASSUME NEW t \in AllThreads, pc[t] = "idle", op[t] \in Scans
        PROVE  \A k \in steady[t] : visits[t][k] = 1
    BY <1>1, <2>2, Zenon DEF IInv, ScansOK, ScanOK
  <2> QED  BY <2>1, <2>2, Zenon DEF ScanIsComplete
<1> QED  BY <1>1, Invariance, PTL

\* The m_length of every object (object.hpp) is the length of its data, and exactly the
\* data larger than heap_data_limit are in a file, whatever commands have set, appended,
\* prepended and counted.
THEOREM StoredBySizeHolds == Spec => []StoredBySize
<1>1. ASSUME IInv PROVE StoredBySize
  <2> SUFFICES ASSUME NEW a \in Addresses, item[a].live, NEW o, o = item[a].object
               PROVE  /\ o.length = object_size(o)
                      /\ o.file.open = (o.length > heap_data_limit)
                      /\ o.file.open => o.data.bytes = <<>>
    BY Zenon DEF StoredBySize
  <2>1. Stored(o)  BY <1>1, Zenon DEF IInv, StoredOK
  <2>2. IsSeq(contents(o)) /\ (InBuffer(o, contents(o)) \/ InFile(o, contents(o)))
    BY <2>1, Zenon DEF Stored
  <2> QED  BY <2>2, StoredFacts, Zenon
<1> QED  BY <1>1, Invariance, PTL


\* Pointer number i of a chain: that of the bucket, or that of the i-th item.
Pointer(b, c, i) == IF i = 0 THEN Head_of(b) ELSE Next_of(c[i])

\* The pointers of a chain.
LEMMA ChainPointers ==
    ASSUME NEW b \in Buckets, NEW n \in Nat, NEW c \in [1..n -> Addresses],
           Chain(m_objects, item, b, n, c), NEW i \in 0..n
    PROVE  Deref(Pointer(b, c, i)) = IF i < n THEN c[i + 1] ELSE null
<1>1. CASE i = 0
  <2>1. Deref(Pointer(b, c, i)) = m_objects[b]
    <3>1. Pointer(b, c, i) = Head_of(b)  BY <1>1, Zenon DEF Pointer
    <3>2. Head_of(b).in = "bucket" /\ Head_of(b).at = b  BY DEF Head_of
    <3> QED  BY <3>1, <3>2, Zenon DEF Deref
  <2>2. CASE n = 0
    <3>1. ~ (i < n)  BY <1>1, <2>2
    <3> QED  BY <2>1, <2>2, <3>1, Zenon DEF Chain
  <2>3. CASE n # 0
    <3>1. i < n /\ n > 0 /\ i + 1 = 1  BY <1>1, <2>3
    <3> QED  BY <2>1, <3>1, Zenon DEF Chain
  <2> QED  BY <2>2, <2>3
<1>2. CASE i # 0
  <2>1. Deref(Pointer(b, c, i)) = item[c[i]].next
    <3>1. Pointer(b, c, i) = Next_of(c[i])  BY <1>2, Zenon DEF Pointer
    <3>2. Next_of(c[i]).in # "bucket" /\ Next_of(c[i]).at = c[i]  BY DEF Next_of
    <3> QED  BY <3>1, <3>2, Zenon DEF Deref
  <2>2. CASE i = n
    <3>1. ~ (i < n) /\ n > 0  BY <1>2, <2>2
    <3> QED  BY <2>1, <2>2, <3>1, Zenon DEF Chain
  <2>3. CASE i # n
    <3>1. i < n /\ i \in 1..n  BY <1>2, <2>3
    <3> QED  BY <2>1, <3>1, Zenon DEF Chain
  <2> QED  BY <2>2, <2>3
<1> QED  BY <1>1, <1>2

\* The chain is sound.
LEMMA ChainIsSound ==
    ASSUME NEW b \in Buckets, HasChain(m_objects, item, b)
    PROVE  SoundChain(b)
<1>1. PICK n \in Nat : \E c \in [1..n -> Addresses] : Chain(m_objects, item, b, n, c)
  BY Zenon DEF HasChain
<1>2. PICK c \in [1..n -> Addresses] : Chain(m_objects, item, b, n, c)  BY <1>1, Zenon
<1> DEFINE here == ItemsOf(b)
           to(i) == Deref(Pointer(b, c, i))
<1>3. /\ Ordered(n)
      /\ \A i \in 1..n : item[c[i]].live /\ get_bucket(item[c[i]].key) = b
      /\ \A i, j \in 1..n : item[c[i]].key = item[c[j]].key => i = j
      /\ \A a \in Addresses : item[a].live /\ get_bucket(item[a].key) = b =>
            \E i \in 1..n : c[i] = a
  BY <1>2, Zenon DEF Chain
<1>4. \A i \in 1..n : c[i] \in Addresses  OBVIOUS
<1>5. \A i \in 1..n : c[i] \in here  BY <1>3, <1>4, Zenon DEF ItemsOf
<1>6. \A a \in here : \E i \in 1..n : c[i] = a  BY <1>3, Zenon DEF ItemsOf
<1>7. \A i \in 0..n : to(i) = IF i < n THEN c[i + 1] ELSE null  BY <1>2, ChainPointers, Zenon
<1>8. ASSUME NEW q \in Pointers(b, here) PROVE \E i \in 0..n : q = Pointer(b, c, i)
  <2>1. q = Head_of(b) \/ \E a \in here : q = Next_of(a)  BY Zenon DEF Pointers
  <2>2. CASE q = Head_of(b)
    <3>1. 0 \in 0..n  OBVIOUS
    <3> QED  BY <2>2, <3>1, Zenon DEF Pointer
  <2>3. CASE \E a \in here : q = Next_of(a)
    <3>1. PICK i \in 1..n : q = Next_of(c[i])  BY <1>6, <2>3, Zenon
    <3>2. i \in 0..n /\ i # 0  OBVIOUS
    <3>3. q = Pointer(b, c, i)  BY <3>1, <3>2, Zenon DEF Pointer
    <3> QED  BY <3>2, <3>3, Zenon
  <2> QED  BY <2>1, <2>2, <2>3
<1> HIDE DEF here
<1>9. /\ \A i \in 0..n : i < n => i + 1 \in 1..n
      /\ \A i, j \in 0..n : i + 1 = j + 1 => i = j
  OBVIOUS
<1>10. \A i, j \in 1..n : c[i] = c[j] => i = j  BY <1>3, Zenon
<1>11. ASSUME NEW q \in Pointers(b, here) PROVE Deref(q) \in here \cup {null}
  <2>1. PICK i \in 0..n : q = Pointer(b, c, i)  BY <1>8, Zenon
  <2>2. CASE i < n
    <3>1. Deref(q) = c[i + 1] /\ i + 1 \in 1..n  BY <1>7, <1>9, <2>1, <2>2, Zenon
    <3> QED  BY <1>5, <3>1, Zenon
  <2>3. CASE ~ (i < n)  BY <1>7, <2>1, <2>3, Zenon
  <2> QED  BY <2>2, <2>3
<1>12. ASSUME NEW q \in Pointers(b, here), NEW r \in Pointers(b, here), Deref(q) = Deref(r),
              Deref(q) # null
       PROVE  q = r
  <2>1. PICK i \in 0..n : q = Pointer(b, c, i)  BY <1>8, Zenon
  <2>2. PICK j \in 0..n : r = Pointer(b, c, j)  BY <1>8, Zenon
  <2>3. /\ i < n /\ Deref(q) = c[i + 1] /\ i + 1 \in 1..n
        /\ j < n /\ Deref(r) = c[j + 1] /\ j + 1 \in 1..n
    BY <1>7, <1>9, <1>12, <2>1, <2>2, Zenon
  <2>4. c[i + 1] = c[j + 1]  BY <1>12, <2>3, Zenon
  <2>5. i + 1 = j + 1  BY <1>10, <2>3, <2>4, Zenon
  <2>6. i = j  BY <1>9, <2>5, Zenon
  <2> QED  BY <2>1, <2>2, <2>6, Zenon
<1>13. ASSUME NEW S \in SUBSET here, S # {}
       PROVE  \E q \in Pointers(b, here \ S) : Deref(q) \in S
  <2> DEFINE I == {i \in 1..n : c[i] \in S}
  <2>1. I \in SUBSET (1..n) /\ I # {}  BY <1>6, <1>13, Zenon
  <2>2. PICK i \in I : \A j \in I : i <= j  BY <1>3, <2>1, Zenon DEF Ordered
  <2>3. i \in 1..n /\ c[i] \in S  BY <2>2, Zenon
  <2> DEFINE h == i - 1
  <2>4. /\ h \in 0..n /\ h < n /\ h + 1 = i /\ ~ (i <= h) /\ (h # 0 => h \in 1..n)
    BY <2>3
  <2> HIDE DEF h
  <2>5. Deref(Pointer(b, c, h)) \in S  BY <1>7, <2>3, <2>4, Zenon
  <2>6. Pointer(b, c, h) \in Pointers(b, here \ S)
    <3>1. CASE h = 0  BY <3>1, Zenon DEF Pointer, Pointers
    <3>2. CASE h # 0
      <4>1. c[h] \in here \ S  BY <1>5, <2>2, <2>4, <3>2, Zenon
      <4> QED  BY <3>2, <4>1, Zenon DEF Pointer, Pointers
    <3> QED  BY <3>1, <3>2
  <2> QED  BY <2>5, <2>6, Zenon
<1>14. ASSUME NEW a \in here, NEW x \in here, item[a].key = item[x].key PROVE a = x
  <2>1. PICK i \in 1..n : c[i] = a  BY <1>6, Zenon
  <2>2. PICK j \in 1..n : c[j] = x  BY <1>6, Zenon
  <2>3. i = j  BY <1>3, <1>14, <2>1, <2>2, Zenon
  <2> QED  BY <2>1, <2>2, <2>3, Zenon
<1> QED  BY <1>11, <1>12, <1>13, <1>14, Zenon DEF SoundChain, here

\* The chains of the buckets are sound: in no order of locks, walks, insertions and
\* removals do the raw pointers of hash_map::bucket lose an item, hold one twice or lead
\* to a deleted one, and no two threads walk one bucket.
THEOREM ChainsAreSoundHolds == Spec => []ChainsAreSound
<1>1. ASSUME IInv PROVE ChainsAreSound
  <2>1. ASSUME NEW b \in Buckets PROVE SoundChain(b)
    <3>1. HasChain(m_objects, item, b)  BY <1>1, Zenon DEF IInv, ChainsOK
    <3> QED  BY <3>1, ChainIsSound, Zenon
  <2>2. ASSUME NEW t \in AllThreads, pc[t] = "walk", p[t].in = "item"
        PROVE  item[p[t].at].live
    <3>1. bucket[t] \in Buckets /\ Walk(m_objects, item, op[t], p[t], bucket[t], visits[t])
      BY <1>1, <2>2, WalkerFacts, Zenon
    <3>2. \/ p[t].in = "bucket" /\ p[t].at = bucket[t]
          \/ /\ p[t].in = "item" /\ p[t].at \in Addresses
             /\ item[p[t].at].live /\ get_bucket(item[p[t].at].key) = bucket[t]
      BY <3>1, WalkHolds, Zenon
    <3>3. "item" # "bucket"  OBVIOUS
    <3> QED  BY <2>2, <3>2, <3>3, Zenon
  <2>3. ASSUME NEW t \in AllThreads, pc[t] = "walk", NEW u \in AllThreads, pc[u] = "walk",
               bucket[u] = bucket[t]
        PROVE  u = t
    BY <1>1, <2>3, WalksExclude, Zenon DEF IInv
  <2> QED  BY <2>1, <2>2, <2>3, Zenon DEF ChainsAreSound
<1> QED  BY <1>1, Invariance, PTL


-----------------------------------------------------------------------------
(***************************************************************************)
(* The hash is a map.                                                      *)
(***************************************************************************)

\* What KeyValue sees of the hash.
Map == [k \in Present |-> Data_of(k)]
Call == [t \in AllThreads |-> IF pc[t] = "idle" THEN NoOp ELSE op[t]]

\* A step of the hash is one of the map, or changes nothing that KeyValue sees.
Mapped == KV!Next \/ (Map' = Map /\ Call' = Call)

\* The steps of KeyValue.
LEMMA KVBegin ==
    ASSUME NEW t \in AllThreads, NEW o \in Calls \cup Scans, Call[t] = NoOp,
           Call' = [Call EXCEPT ![t] = o], Map' = Map
    PROVE  KV!Next
BY Zenon DEF KV!Next, KV!Begin, Map, Call

LEMMA KVFound ==
    ASSUME NEW t \in AllThreads, Call[t] # NoOp, Call' = [Call EXCEPT ![t] = NoOp],
           Call[t].key \in DOMAIN Map,
           \/ Map' = [Map EXCEPT ![Call[t].key] = KV!Modified(Call[t], Map[Call[t].key])]
           \/ /\ Call[t].name = "remove_if"
              /\ Map' = [j \in DOMAIN Map \ {Call[t].key} |-> Map[j]]
    PROVE  KV!Next
<1>1. KV!Return(t)  BY Zenon DEF KV!Return, Call
<1>2. KV!Found(t)  BY <1>1, Zenon DEF KV!Found, KV!Without, Map, Call
<1> QED  BY <1>2, Zenon DEF KV!Next

LEMMA KVNotFound ==
    ASSUME NEW t \in AllThreads, Call[t] # NoOp, Call' = [Call EXCEPT ![t] = NoOp],
           Call[t].name \notin {"foreach", "gc"}, Call[t].key \notin DOMAIN Map,
           Map' = IF Call[t].name \in {"set", "add", "incr_or", "decr_or"}
                  THEN [j \in DOMAIN Map \cup {Call[t].key} |->
                           IF j = Call[t].key THEN KV!Initial(Call[t]) ELSE Map[j]]
                  ELSE Map
    PROVE  KV!Next
<1>1. KV!Return(t)  BY Zenon DEF KV!Return, Call
<1>2. KV!NotFound(t)
  BY <1>1, Zenon DEF KV!NotFound, KV!Scans, KV!Creates, KV!With, Map, Call
<1> QED  BY <1>2, Zenon DEF KV!Next

LEMMA KVCollect ==
    ASSUME NEW t \in AllThreads, Call[t].name = "gc", Call' = Call,
           NEW k \in DOMAIN Map, Map' = [j \in DOMAIN Map \ {k} |-> Map[j]]
    PROVE  KV!Next
<1>1. KV!Collect(t)  BY Zenon DEF KV!Collect, KV!Without, Map, Call
<1> QED  BY <1>1, Zenon DEF KV!Next

LEMMA KVEndScan ==
    ASSUME NEW t \in AllThreads, Call[t] # NoOp, Call' = [Call EXCEPT ![t] = NoOp],
           Call[t].name \in {"foreach", "gc"}, Map' = Map
    PROVE  KV!Next
<1>1. KV!Return(t)  BY Zenon DEF KV!Return, Call
<1>2. KV!EndScan(t)  BY <1>1, Zenon DEF KV!EndScan, KV!Scans, Map, Call
<1> QED  BY <1>2, Zenon DEF KV!Next

LEMMA KVClear ==
    ASSUME \A t \in AllThreads : Call[t] = NoOp, Map' = <<>>, Call' = Call
    PROVE  KV!Next
<1>1. KV!Clear  BY Zenon DEF KV!Clear, Map, Call
<1> QED  BY <1>1, Zenon DEF KV!Next

\* The map is that of the items.
LEMMA MapOfItems ==
    /\ Map = MapOf(item) /\ DOMAIN Map = KeysIn(item)
    /\ Map' = MapOf(item')
<1>1. Map = MapOf(item)  BY Zenon DEF Map, MapOf, KeysIn, DataIn, Present, Data_of
<1>2. Map' = MapOf(item')  BY Zenon DEF Map, MapOf, KeysIn, DataIn, Present, Data_of
<1>3. DOMAIN MapOf(item) = KeysIn(item)  BY Zenon DEF MapOf
<1> QED  BY <1>1, <1>2, <1>3, Zenon

LEMMA MapStays == ASSUME item' = item PROVE Map' = Map
BY MapOfItems, Zenon

\* The call of a thread changes with its pc and op.
LEMMA CallChanges ==
    ASSUME NEW t \in AllThreads,
           \A u \in AllThreads : u # t => pc'[u] = pc[u] /\ op'[u] = op[u]
    PROVE  /\ pc'[t] = "idle" => Call' = [Call EXCEPT ![t] = NoOp]
           /\ pc'[t] # "idle" => Call' = [Call EXCEPT ![t] = op'[t]]
           /\ pc[t] = "idle" => Call[t] = NoOp
           /\ pc[t] # "idle" => Call[t] = op[t]
           /\ pc[t] # "idle" /\ pc'[t] # "idle" /\ op'[t] = op[t] => Call' = Call
<1> DEFINE C(u) == IF pc[u] = "idle" THEN NoOp ELSE op[u]
           D(u) == IF pc'[u] = "idle" THEN NoOp ELSE op'[u]
<1>1. Call = [u \in AllThreads |-> C(u)]  BY Zenon DEF Call
<1>2. Call' = [u \in AllThreads |-> D(u)]  BY Zenon DEF Call
<1>3. \A u \in AllThreads : u # t => D(u) = C(u)  BY Zenon
<1>4. /\ pc'[t] = "idle" => D(t) = NoOp
      /\ pc'[t] # "idle" => D(t) = op'[t]
      /\ pc[t] = "idle" => C(t) = NoOp
      /\ pc[t] # "idle" => C(t) = op[t]
  BY Zenon
<1> HIDE DEF C, D
<1>5. Call' = [Call EXCEPT ![t] = D(t)]
  <2>1. [Call EXCEPT ![t] = D(t)] = [u \in AllThreads |-> IF u = t THEN D(t) ELSE C(u)]
    BY <1>1, Zenon
  <2>2. [u \in AllThreads |-> IF u = t THEN D(t) ELSE C(u)] = [u \in AllThreads |-> D(u)]
    BY <1>3, Zenon
  <2> QED  BY <1>2, <2>1, <2>2, Zenon
<1>6. D(t) = C(t) => Call' = Call
  <2> SUFFICES ASSUME D(t) = C(t) PROVE Call' = Call  BY Zenon
  <2>1. \A u \in AllThreads : D(u) = C(u)  BY <1>3, Zenon
  <2> QED  BY <1>1, <1>2, <2>1, Zenon
<1>7. Call[t] = C(t)  BY <1>1, Zenon
<1>8. /\ pc'[t] = "idle" => Call' = [Call EXCEPT ![t] = NoOp]
      /\ pc'[t] # "idle" => Call' = [Call EXCEPT ![t] = op'[t]]
  BY <1>4, <1>5, Zenon
<1>9. /\ pc[t] = "idle" => Call[t] = NoOp
      /\ pc[t] # "idle" => Call[t] = op[t]
  BY <1>4, <1>7, Zenon
<1>10. pc[t] # "idle" /\ pc'[t] # "idle" /\ op'[t] = op[t] => Call' = Call
  BY <1>4, <1>6, Zenon
<1> QED  BY <1>8, <1>9, <1>10, Zenon

\* What the map needs of the items.
LEMMA ItemsAreUnique == IInv => Unique(item)
BY KeysAreUnique, Zenon DEF IInv, TypesOK, ChainsOK

LEMMA NextItemsAreUnique == IInv' => Unique(item')
<1> SUFFICES ASSUME IInv' PROVE Unique(item')  BY Zenon
<1>1. /\ \A a \in Addresses : IsItem(item'[a])
      /\ \A b \in Buckets : HasChain(m_objects', item', b)
  BY Zenon DEF IInv, TypesOK, ChainsOK
<1> QED  BY <1>1, KeysAreUnique, Zenon

\* A thread that leaves its bucket returns, unless it scans on.
LEMMA LeftReturns ==
    ASSUME IInv, NEW t \in AllThreads, pc[t] = "walk", Left(t)
    PROVE  /\ Call[t] = op[t] /\ op[t] # NoOp
           /\ op[t] \notin Scans => Call' = [Call EXCEPT ![t] = NoOp]
           /\ op[t] \in Scans => Call' = Call \/ Call' = [Call EXCEPT ![t] = NoOp]
<1>1. \A u \in AllThreads : u # t => pc'[u] = pc[u] /\ op'[u] = op[u]
  BY Zenon DEF Left, Others
<1>2. "walk" # "idle" /\ "lock" # "idle"  OBVIOUS
<1>3. op[t] \in Calls \cup Scans  BY WalkerFacts, Zenon
<1>4. op[t] # NoOp  BY <1>3, CallFacts, ScanFacts, Zenon
<1>5. Call[t] = op[t]  BY <1>1, <1>2, CallChanges, Zenon
<1>6. ASSUME op[t] \notin Scans PROVE Call' = [Call EXCEPT ![t] = NoOp]
  <2>1. pc'[t] = "idle"  BY <1>6, Zenon DEF Left
  <2> QED  BY <1>1, <2>1, CallChanges, Zenon
<1>7. ASSUME op[t] \in Scans PROVE Call' = Call \/ Call' = [Call EXCEPT ![t] = NoOp]
  <2>1. CASE bucket[t] + 1 \in Buckets
    <3>1. pc'[t] = "lock" /\ op'[t] = op[t]  BY <1>7, <2>1, Zenon DEF Left
    <3> QED  BY <1>1, <1>2, <3>1, CallChanges, Zenon
  <2>2. CASE bucket[t] + 1 \notin Buckets
    <3>1. pc'[t] = "idle"  BY <1>7, <2>2, Zenon DEF Left
    <3> QED  BY <1>1, <3>1, CallChanges, Zenon
  <2> QED  BY <2>1, <2>2
<1> QED  BY <1>4, <1>5, <1>6, <1>7, Zenon

\* Begin.
LEMMA BeginMaps ==
    ASSUME IInv, NEW t \in AllThreads, NEW o \in Calls \cup Scans, Begin(t, o)
    PROVE  Mapped
<1>1. /\ pc[t] = "idle" /\ pc' = [pc EXCEPT ![t] = "lock"] /\ op' = [op EXCEPT ![t] = o]
      /\ item' = item
  BY Zenon DEF Begin
<1>2. /\ pc'[t] = "lock" /\ op'[t] = o
      /\ \A u \in AllThreads : u # t => pc'[u] = pc[u] /\ op'[u] = op[u]
  BY <1>1, Zenon DEF IInv, TypesOK
<1>3. "lock" # "idle"  OBVIOUS
<1>4. Call[t] = NoOp /\ Call' = [Call EXCEPT ![t] = o]
  BY <1>1, <1>2, <1>3, CallChanges, Zenon
<1>5. Map' = Map  BY <1>1, MapStays, Zenon
<1> QED  BY <1>4, <1>5, KVBegin, Zenon DEF Mapped

\* Lock, Step and Visit.
LEMMA MovesMap ==
    ASSUME IInv, NEW t \in AllThreads, Lock(t) \/ Step(t) \/ Visit(t)
    PROVE  Mapped
<1>1. item' = item /\ op' = op
  <2>1. CASE Lock(t)  BY <2>1, Zenon DEF Lock
  <2>2. CASE Step(t)  BY <2>2, Zenon DEF Step
  <2>3. CASE Visit(t)  BY <2>3, Zenon DEF Visit
  <2> QED  BY <2>1, <2>2, <2>3
<1>2. Map' = Map  BY <1>1, MapStays, Zenon
<1>3. Call' = Call
  <2>1. CASE Lock(t)
    <3>1. pc[t] = "lock" /\ pc' = [pc EXCEPT ![t] = "walk"]  BY <2>1, Zenon DEF Lock
    <3>2. pc'[t] = "walk" /\ \A u \in AllThreads : u # t => pc'[u] = pc[u]
      BY <3>1, Zenon DEF IInv, TypesOK
    <3>3. "walk" # "idle" /\ "lock" # "idle"  OBVIOUS
    <3> QED  BY <1>1, <3>1, <3>2, <3>3, CallChanges, Zenon
  <2>2. CASE Step(t) \/ Visit(t)
    <3>1. pc' = pc  BY <2>2, Zenon DEF Step, Visit
    <3> QED  BY <1>1, <3>1, Zenon DEF Call
  <2> QED  BY <2>1, <2>2
<1> QED  BY <1>2, <1>3, Zenon DEF Mapped

\* Apply.
LEMMA ApplyMaps ==
    ASSUME IInv, IInv', NEW t \in AllThreads, Apply(t)
    PROVE  Mapped
<1> DEFINE a == Deref(p[t])
           k == op[t].key
<1>1. /\ pc[t] = "walk" /\ a # null
      /\ op[t].name \in HandlerOnly \cup WithCreator /\ item[a].key = k
      /\ item' = [item EXCEPT ![a].object = Handled(op[t], @)]
      /\ Leave(t) /\ visits' = visits
  BY Zenon DEF Apply
<1>2. Ahead(item, op[t], bucket[t], visits[t], a)  BY <1>1, WalkerFacts, Zenon
<1>3. op[t] \in Calls /\ op[t] \notin Scans  BY <1>1, CallerFacts, Zenon
<1>4. a \in Addresses /\ item[a].live  BY <1>2, Zenon DEF Ahead
<1>5. TypesOK /\ ThreadsOK /\ StoredOK  BY Zenon DEF IInv
<1>6. Changed(a, op[t])  BY <1>1, <1>4, <1>5, ApplyChanges, Zenon
<1> HIDE DEF a, k
<1>7. Left(t)  BY <1>1, <1>5, LeaveFacts, Zenon
<1>8. Call[t] = op[t] /\ op[t] # NoOp /\ Call' = [Call EXCEPT ![t] = NoOp]
  BY <1>1, <1>3, <1>7, LeftReturns, Zenon
<1>9. Unique(item) /\ Unique(item')  BY ItemsAreUnique, NextItemsAreUnique, Zenon
<1>10. MapOf(item') = [MapOf(item) EXCEPT ![item[a].key] = contents(item'[a].object)]
  <2>1. Altered(item, item', a)  BY <1>6, Zenon DEF Changed, Altered
  <2> QED  BY <1>4, <1>9, <2>1, MapChanges, Zenon
<1>11. item[a].key \in KeysIn(item) /\ DataIn(item, item[a].key) = contents(item[a].object)
  BY <1>4, <1>9, DataOfItem, Zenon
<1>12. k \in DOMAIN Map /\ Map[k] = contents(item[a].object)
  BY <1>1, <1>11, MapOfItems, Zenon DEF MapOf
<1>13. contents(item'[a].object) = KV!Modified(op[t], Map[k])
  <2>1. item'[a].object = Handled(op[t], item[a].object)  BY <1>6, Zenon DEF Changed
  <2>2. Stored(item[a].object)  BY <1>4, <1>5, Zenon DEF StoredOK
  <2> QED  BY <1>3, <1>12, <2>1, <2>2, CallsStore, Zenon
<1>14. Map' = [Map EXCEPT ![k] = KV!Modified(op[t], Map[k])]
  BY <1>1, <1>10, <1>13, MapOfItems, Zenon
<1>15. Call[t].key = k  BY <1>8, Zenon DEF k
<1>16. KV!Next  BY <1>8, <1>12, <1>14, <1>15, KVFound, Zenon
<1> QED  BY <1>16, Zenon DEF Mapped

\* Insert.
LEMMA InsertMaps ==
    ASSUME IInv, IInv', NEW t \in AllThreads, NEW a \in Addresses, Insert(t, a)
    PROVE  Mapped
<1> DEFINE k == op[t].key
           i == [live |-> TRUE, key |-> k, object |-> Created(op[t]),
                 next |-> m_objects[bucket[t]]]
<1>1. /\ pc[t] = "walk" /\ Deref(p[t]) = null
      /\ op[t].name \in WithCreator /\ ~ item[a].live
      /\ item' = [item EXCEPT ![a] = i] /\ Leave(t) /\ visits' = visits
  BY Zenon DEF Insert
<1>2. op[t] \in Calls /\ op[t] \notin Scans /\ bucket[t] = get_bucket(k)
  BY <1>1, CallerFacts, Zenon
<1>3. i.live = TRUE /\ i.key = k /\ i.object = Created(op[t])  OBVIOUS
<1>4. Met(item, op[t], bucket[t], visits[t])  BY <1>1, WalkerEnds, Zenon
<1>5. TypesOK /\ ThreadsOK  BY Zenon DEF IInv
<1>6. item = [x \in Addresses |-> item[x]]  BY <1>5, Zenon DEF TypesOK
<1> HIDE DEF i
<1>7. item'[a] = i /\ \A x \in Addresses : x # a => item'[x] = item[x]  BY <1>1, <1>6
<1>8. Left(t)  BY <1>1, <1>5, LeaveFacts, Zenon
<1>9. Call[t] = op[t] /\ op[t] # NoOp /\ Call' = [Call EXCEPT ![t] = NoOp]
  BY <1>1, <1>2, <1>8, LeftReturns, Zenon
<1>10. Unique(item) /\ Unique(item')  BY ItemsAreUnique, NextItemsAreUnique, Zenon
<1>11. k \notin KeysIn(item)
  <2> SUFFICES ASSUME k \in KeysIn(item) PROVE FALSE  BY Zenon
  <2>1. PICK x \in Addresses : item[x].live /\ item[x].key = k  BY KeyHasItem, Zenon
  <2> QED  BY <1>2, <1>4, <2>1, Zenon DEF Met
<1> HIDE DEF k
<1>12. item'[a].live /\ item'[a].key = k /\ item'[a].object = Created(op[t])
  BY <1>3, <1>7, Zenon
<1> DEFINE d == contents(item'[a].object)
<1>13. Map' = With(item, k, contents(item'[a].object))
  <2>1. Enlarged(item, item', a)  BY <1>1, <1>7, <1>12, Zenon DEF Enlarged
  <2>2. MapOf(item') = With(item, item'[a].key, contents(item'[a].object))
    BY <1>10, <2>1, MapGrows, Zenon
  <2> QED  BY <1>12, <2>2, MapOfItems, Zenon
<1>14. contents(item'[a].object) = KV!Initial(op[t])  BY <1>2, <1>12, CallsStore, Zenon
<1>15. Map' = [j \in DOMAIN Map \cup {k} |-> IF j = k THEN KV!Initial(op[t]) ELSE Map[j]]
  <2>1. Map' = With(item, k, KV!Initial(op[t]))  BY <1>13, <1>14, Zenon
  <2> QED  BY <2>1, MapOfItems, Zenon DEF With
<1>16. op[t].name \in {"set", "add", "incr_or", "decr_or"}
       /\ op[t].name \notin {"foreach", "gc"}
  BY <1>1 DEF WithCreator
<1>17. k \notin DOMAIN Map  BY <1>11, MapOfItems, Zenon
<1>18. KV!Next  BY <1>9, <1>15, <1>16, <1>17, KVNotFound, Zenon DEF k
<1> QED  BY <1>18, Zenon DEF Mapped

\* NotFound: a call without a creator returns, and a scan goes on or returns.
LEMMA NotFoundMaps ==
    ASSUME IInv, NEW t \in AllThreads, NotFound(t)
    PROVE  Mapped
<1>1. /\ pc[t] = "walk" /\ Deref(p[t]) = null /\ op[t].name \notin WithCreator
      /\ item' = item /\ Leave(t) /\ visits' = visits
  BY Zenon DEF NotFound
<1>2. TypesOK /\ ThreadsOK  BY Zenon DEF IInv
<1>3. Left(t)  BY <1>1, <1>2, LeaveFacts, Zenon
<1>4. Map' = Map  BY <1>1, MapStays, Zenon
<1>5. Call[t] = op[t] /\ op[t] # NoOp  BY <1>1, <1>3, LeftReturns, Zenon
<1>6. op[t] \in Calls \cup Scans  BY <1>1, WalkerFacts, Zenon
<1>7. CASE op[t] \in Scans
  <2>1. Call' = Call \/ Call' = [Call EXCEPT ![t] = NoOp]
    BY <1>1, <1>3, <1>7, LeftReturns, Zenon
  <2>2. Call[t].name \in {"foreach", "gc"}  BY <1>5, <1>7, ScanFacts, Zenon
  <2>3. CASE Call' = Call  BY <1>4, <2>3, Zenon DEF Mapped
  <2>4. CASE Call' = [Call EXCEPT ![t] = NoOp]
    <3>1. Call[t] # NoOp  BY <1>5, Zenon
    <3>2. KV!Next  BY <1>4, <2>2, <2>4, <3>1, KVEndScan, Zenon
    <3> QED  BY <3>2, Zenon DEF Mapped
  <2> QED  BY <2>1, <2>3, <2>4
<1>8. CASE op[t] \notin Scans
  <2>1. Call' = [Call EXCEPT ![t] = NoOp] /\ Call[t] # NoOp
    BY <1>1, <1>3, <1>5, <1>8, LeftReturns, Zenon
  <2>2. op[t].name \in HandlerOnly \cup WithCreator \cup {"remove_if"}
    BY <1>6, <1>8, CallFacts, Zenon
  <2>3. bucket[t] = get_bucket(op[t].key)  BY <1>1, <2>2, CallerFacts, Zenon
  <2>4. Met(item, op[t], bucket[t], visits[t])  BY <1>1, WalkerEnds, Zenon
  <2>5. op[t].key \notin KeysIn(item)
    <3> SUFFICES ASSUME op[t].key \in KeysIn(item) PROVE FALSE  BY Zenon
    <3>1. PICK x \in Addresses : item[x].live /\ item[x].key = op[t].key  BY KeyHasItem, Zenon
    <3> QED  BY <1>8, <2>3, <2>4, <3>1, Zenon DEF Met
  <2>6. Call[t].key \notin DOMAIN Map  BY <1>5, <2>5, MapOfItems, Zenon
  <2>7. op[t].name \notin {"set", "add", "incr_or", "decr_or"} /\ op[t].name \notin {"foreach", "gc"}
    BY <1>1, <2>2 DEF WithCreator, HandlerOnly
  <2>8. KV!Next  BY <1>4, <1>5, <2>1, <2>6, <2>7, KVNotFound, Zenon
  <2> QED  BY <2>8, Zenon DEF Mapped
<1> QED  BY <1>7, <1>8

\* The map after an item has been dropped.
LEMMA DroppedMap ==
    ASSUME IInv, IInv', NEW t \in AllThreads, NEW a \in Addresses, item[a].live, Dropped(t, a)
    PROVE  /\ item[a].key \in DOMAIN Map
           /\ Map' = [j \in DOMAIN Map \ {item[a].key} |-> Map[j]]
<1>1. Unique(item) /\ Unique(item')  BY ItemsAreUnique, NextItemsAreUnique, Zenon
<1>2. Unlinked(m_objects, item, m_objects', item', p[t], a)  BY Zenon DEF Dropped
<1>3. /\ ~ item'[a].live
      /\ \A x \in Addresses : x # a => /\ item'[x].live <=> item[x].live
                                       /\ item'[x].key = item[x].key
  BY <1>2, Zenon DEF Unlinked
<1>4. \A x \in Addresses : x # a => item'[x].object = item[x].object  BY Zenon DEF Dropped
<1>5. MapOf(item') = [j \in KeysIn(item) \ {item[a].key} |-> MapOf(item)[j]]
  <2>1. Reduced(item, item', a)  BY <1>3, <1>4, Zenon DEF Reduced
  <2> QED  BY <1>1, <2>1, MapDrops, Zenon
<1>6. item[a].key \in KeysIn(item)  BY Zenon DEF KeysIn
<1> QED  BY <1>5, <1>6, MapOfItems, Zenon

\* Remove_if.
LEMMA Remove_ifMaps ==
    ASSUME IInv, IInv', NEW t \in AllThreads, Remove_if(t)
    PROVE  Mapped
<1> DEFINE a == Deref(p[t])
           k == op[t].key
<1>1. /\ pc[t] = "walk" /\ a # null /\ op[t].name = "remove_if" /\ item[a].key = k
      /\ Unlink(t, a) \/ item' = item
      /\ Leave(t) /\ visits' = visits
  BY Zenon DEF Remove_if
<1>2. Ahead(item, op[t], bucket[t], visits[t], a)  BY <1>1, WalkerFacts, Zenon
<1>3. a \in Addresses /\ item[a].live /\ op[t] \notin Scans
  BY <1>1, <1>2, CallerFacts, Zenon DEF Ahead
<1> HIDE DEF a
<1>4. TypesOK /\ ThreadsOK  BY Zenon DEF IInv
<1>5. Left(t)  BY <1>1, <1>4, LeaveFacts, Zenon
<1>6. Call[t] = op[t] /\ op[t] # NoOp /\ Call' = [Call EXCEPT ![t] = NoOp]
  BY <1>1, <1>3, <1>5, LeftReturns, Zenon
<1>7. Call[t] # NoOp /\ Call[t].key = k /\ Call[t].name = "remove_if"  BY <1>1, <1>6, Zenon
<1> HIDE DEF k
<1>8. k \in DOMAIN Map
  <2>1. item[a].key \in KeysIn(item)  BY <1>3, Zenon DEF KeysIn
  <2> QED  BY <1>1, <2>1, MapOfItems, Zenon
<1>9. KV!Next
  <2>1. CASE Unlink(t, a)
    <3>1. Dropped(t, a)  BY <1>3, <1>4, <2>1, UnlinkFacts, Zenon
    <3>2. Map' = [j \in DOMAIN Map \ {k} |-> Map[j]]  BY <1>1, <1>3, <3>1, DroppedMap, Zenon
    <3> QED  BY <1>6, <1>7, <1>8, <3>2, KVFound, Zenon
  <2>2. CASE item' = item
    <3>1. Map' = Map  BY <2>2, MapStays, Zenon
    <3>2. KV!Modified(Call[t], Map[k]) = Map[k]  BY <1>7 DEF KV!Modified
    <3>3. Map = [j \in DOMAIN Map |-> Map[j]]  BY MapOfItems, Zenon DEF MapOf
    <3>4. [Map EXCEPT ![k] = Map[k]] = Map
      <4> DEFINE m == Map
      <4>1. m = [j \in DOMAIN m |-> m[j]]  BY <3>3
      <4> HIDE DEF m
      <4>2. [m EXCEPT ![k] = m[k]] = m  BY <4>1
      <4> QED  BY <4>2 DEF m
    <3>5. Map' = [Map EXCEPT ![k] = KV!Modified(Call[t], Map[k])]
      BY <3>1, <3>2, <3>4, Zenon
    <3> QED  BY <1>6, <1>7, <1>8, <3>5, KVFound, Zenon
  <2> QED  BY <1>1, <2>1, <2>2
<1> QED  BY <1>9, Zenon DEF Mapped

\* Collect.
LEMMA CollectMaps ==
    ASSUME IInv, IInv', NEW t \in AllThreads, Collect(t)
    PROVE  Mapped
<1> DEFINE a == Deref(p[t])
<1>1. /\ pc[t] = "walk" /\ a # null /\ op[t] = GC /\ Unlink(t, a)
      /\ op' = op /\ pc' = pc
  BY Zenon DEF Collect
<1>2. Ahead(item, op[t], bucket[t], visits[t], a)  BY <1>1, WalkerFacts, Zenon
<1>3. a \in Addresses /\ item[a].live  BY <1>2, Zenon DEF Ahead
<1> HIDE DEF a
<1>4. TypesOK  BY Zenon DEF IInv
<1>5. Dropped(t, a)  BY <1>1, <1>3, <1>4, UnlinkFacts, Zenon
<1>6. /\ item[a].key \in DOMAIN Map
      /\ Map' = [j \in DOMAIN Map \ {item[a].key} |-> Map[j]]
  BY <1>3, <1>5, DroppedMap, Zenon
<1>7. Call' = Call  BY <1>1, Zenon DEF Call
<1>8. Call[t].name = "gc"
  <2>1. "walk" # "idle"  OBVIOUS
  <2>2. Call[t] = op[t]  BY <1>1, <2>1, Zenon DEF Call
  <2>3. GC.name = "gc"  BY DEF GC, Op
  <2> QED  BY <1>1, <2>2, <2>3, Zenon
<1>9. KV!Next  BY <1>6, <1>7, <1>8, KVCollect, Zenon
<1> QED  BY <1>9, Zenon DEF Mapped

\* Clear.
LEMMA ClearMaps ==
    ASSUME IInv, Clear
    PROVE  Mapped
<1>1. /\ \A t \in AllThreads : pc[t] = "idle"
      /\ item' = [a \in Addresses |-> NoItem] /\ op' = op /\ pc' = pc
  BY Zenon DEF Clear
<1>2. \A a \in Addresses : ~ item'[a].live  BY <1>1, NoItemFacts, Zenon
<1>3. Map' = <<>>  BY <1>2, MapIsEmpty, MapOfItems, Zenon
<1>4. Call' = Call  BY <1>1, Zenon DEF Call
<1>5. \A t \in AllThreads : Call[t] = NoOp  BY <1>1, Zenon DEF Call
<1>6. KV!Next  BY <1>3, <1>4, <1>5, KVClear, Zenon
<1> QED  BY <1>6, Zenon DEF Mapped

\* Every step of the hash is one of the map.
LEMMA NextMaps ==
    ASSUME IInv, IInv', [Next]_vars
    PROVE  Mapped
<1>1. CASE Next
  <2>1. \/ Clear
        \/ \E t \in AllThreads :
             \/ \E o \in Calls \cup Scans : Begin(t, o)
             \/ Lock(t) \/ Step(t) \/ Apply(t) \/ NotFound(t) \/ Remove_if(t)
             \/ Visit(t) \/ Collect(t)
             \/ \E a \in Addresses : Insert(t, a)
    BY <1>1, Zenon DEF Next
  <2>2. CASE Clear  BY <2>2, ClearMaps, Zenon
  <2>3. ASSUME NEW t \in AllThreads,
               \/ \E o \in Calls \cup Scans : Begin(t, o)
               \/ Lock(t) \/ Step(t) \/ Apply(t) \/ NotFound(t) \/ Remove_if(t)
               \/ Visit(t) \/ Collect(t)
               \/ \E a \in Addresses : Insert(t, a)
        PROVE  Mapped
    <3>1. CASE \E o \in Calls \cup Scans : Begin(t, o)  BY <3>1, BeginMaps, Zenon
    <3>2. CASE Lock(t) \/ Step(t) \/ Visit(t)  BY <3>2, MovesMap, Zenon
    <3>3. CASE Apply(t)  BY <3>3, ApplyMaps, Zenon
    <3>4. CASE NotFound(t)  BY <3>4, NotFoundMaps, Zenon
    <3>5. CASE Remove_if(t)  BY <3>5, Remove_ifMaps, Zenon
    <3>6. CASE Collect(t)  BY <3>6, CollectMaps, Zenon
    <3>7. CASE \E a \in Addresses : Insert(t, a)  BY <3>7, InsertMaps, Zenon
    <3> QED  BY <2>3, <3>1, <3>2, <3>3, <3>4, <3>5, <3>6, <3>7, Zenon
  <2> QED  BY <2>1, <2>2, <2>3, Zenon
<1>2. CASE UNCHANGED vars
  <2>1. item' = item /\ pc' = pc /\ op' = op  BY <1>2 DEF vars
  <2>2. Map' = Map  BY <2>1, MapStays, Zenon
  <2>3. Call' = Call  BY <2>1, Zenon DEF Call
  <2> QED  BY <2>2, <2>3, Zenon DEF Mapped
<1> QED  BY <1>1, <1>2, Zenon

\* The hash of chains, locks, buffers and files behaves as a map from keys to data
\* (hash_map::apply, remove_if, foreach, gc and clear): each call takes effect at one
\* moment between its beginning and its end, does to the data of its key what the command
\* asks for, and leaves those of all other keys alone.
THEOREM BehavesAsMapHolds == Spec => BehavesAsMap
<1>1. Init => KV!Init
  <2> SUFFICES ASSUME Init PROVE KV!Init  OBVIOUS
  <2>1. item = [a \in Addresses |-> NoItem] /\ pc = [t \in AllThreads |-> "idle"]
    BY Zenon DEF Init
  <2>2. \A a \in Addresses : ~ item[a].live  BY <2>1, NoItemFacts, Zenon
  <2>3. Map = <<>>  BY <2>2, MapIsEmpty, MapOfItems, Zenon
  <2>4. Call = [t \in AllThreads |-> NoOp]  BY <2>1, Zenon DEF Call
  <2> QED  BY <2>3, <2>4, Zenon DEF KV!Init, Map, Call
<1>2. IInv /\ IInv' /\ [Next]_vars =>
        [KV!Next]_<<[k \in Present |-> Data_of(k)],
                    [t \in AllThreads |-> IF pc[t] = "idle" THEN NoOp ELSE op[t]]>>
  <2> SUFFICES ASSUME IInv, IInv', [Next]_vars
               PROVE  [KV!Next]_<<[k \in Present |-> Data_of(k)],
                                  [t \in AllThreads |-> IF pc[t] = "idle" THEN NoOp ELSE op[t]]>>
    OBVIOUS
  <2>1. KV!Next \/ (Map' = Map /\ Call' = Call)  BY NextMaps, Zenon DEF Mapped
  <2>2. ASSUME Map' = Map, Call' = Call
        PROVE  UNCHANGED <<[k \in Present |-> Data_of(k)],
                           [t \in AllThreads |-> IF pc[t] = "idle" THEN NoOp ELSE op[t]]>>
    BY <2>2 DEF Map, Call
  <2> QED  BY <2>1, <2>2
<1> QED  BY <1>1, <1>2, Invariance, PTL DEF Spec, BehavesAsMap, KV!Spec
====
