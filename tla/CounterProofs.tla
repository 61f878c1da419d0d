--------------------------- MODULE CounterProofs ---------------------------
(***************************************************************************)
(* Proofs, for every set of names, every finite set of connections and     *)
(* every width of the integers: what the objects count is what the         *)
(* connections hold, release never fails unless a sum has wrapped, and the *)
(* reported maximum is the highest consumption of the interval.  They do   *)
(* not need the bound of SpecPeak: clients may acquire after a sum has     *)
(* wrapped.                                                                *)
(***************************************************************************)
EXTENDS CounterPeak, FiniteSetTheorems, TLAPS

TypesOK == TypeOK /\ peak \in [Names -> 0..(Mod - 1)] /\ wrapped \in BOOLEAN

\* release_all visits only names of its table.
DrainOK == \A c \in Conns : draining[c] => todo[c] \subseteq DOMAIN m_acquired[c]

SumsOK == ~thrown => \A n \in Names : m_hash[n].consumption = HeldByAll(n) % Mod

\* Before a sum wraps nothing is thrown, sums are exact, and no entry of a table
\* is zero.
ExactOK ==
    ~wrapped =>
        /\ ~thrown
        /\ \A n \in Names : HeldByAll(n) < Mod
        /\ \A c \in Conns : \A n \in DOMAIN m_acquired[c] : m_acquired[c][n] > 0

PeaksOK ==
    ~wrapped =>
        \A n \in Names : /\ m_hash[n].last_updated <= now
                         /\ m_hash[n].consumption <= peak[n]
                         /\ max_consumption(m_hash[n]) = peak[n]

IInv == TypesOK /\ DrainOK /\ SumsOK /\ ExactOK /\ PeaksOK

-----------------------------------------------------------------------------
(* Arithmetic *)

\* What the remainder is.
LEMMA ModFacts ==
    ASSUME NEW x \in Int
    PROVE  /\ Mod \in Nat \ {0} /\ x % Mod \in 0..(Mod - 1) /\ x \div Mod \in Int
           /\ x = (x \div Mod) * Mod + (x % Mod)
<1> DEFINE M == Mod
<1>1. M \in Nat \ {0}
  BY CounterAssumption
<1> HIDE DEF M
<1>2. x % M \in 0..(M - 1) /\ x \div M \in Int /\ x = (x \div M) * M + (x % M)
  BY <1>1
<1> QED
  BY <1>1, <1>2 DEF M

\* The remainder of a division by 2^Width is determined by its range.
LEMMA ModIs ==
    ASSUME NEW x \in Int, NEW k \in Int, NEW y \in 0..(Mod - 1), x = k * Mod + y
    PROVE  x % Mod = y
<1> DEFINE M == Mod
<1>1. M \in Nat \ {0}
  BY CounterAssumption
<1>2. y \in 0..(M - 1) /\ x = k * M + y
  BY Zenon
<1> DEFINE d == x \div M
           z == x % M
<1>3. z \in 0..(M - 1) /\ d \in Int /\ x = d * M + z
  BY ModFacts, ZenonT(30)
<1> HIDE DEF M, d, z
<1>4. ~(k >= d + 1)
  <2> SUFFICES ASSUME k - d >= 1 PROVE FALSE
    BY <1>3
  <2>1. (k - d) * M >= M
    BY <1>1, <1>3
  <2> QED
    BY <1>1, <1>2, <1>3, <2>1
<1>5. ~(d >= k + 1)
  <2> SUFFICES ASSUME d - k >= 1 PROVE FALSE
    BY <1>3
  <2>1. (d - k) * M >= M
    BY <1>1, <1>3
  <2> QED
    BY <1>1, <1>2, <1>3, <2>1
<1>6. d = k
  BY <1>3, <1>4, <1>5
<1>7. z = y
  BY <1>1, <1>2, <1>3, <1>6
<1> QED
  BY <1>7 DEF M, z

\* A number below 2^Width is its own remainder.
LEMMA ModSmall ==
    ASSUME NEW x \in 0..(Mod - 1)
    PROVE  x % Mod = x
<1> DEFINE M == Mod
<1>1. M \in Nat \ {0}
  BY CounterAssumption
<1>2. x \in 0..(M - 1)
  BY Zenon
<1> HIDE DEF M
<1>3. x \in Int /\ x = 0 * M + x
  BY <1>1, <1>2
<1> QED
  BY <1>2, <1>3, ModIs DEF M

\* Taking 2^Width off.
LEMMA ModMinus ==
    ASSUME NEW x \in Int
    PROVE  (x - Mod) % Mod = x % Mod
<1> DEFINE M == Mod
           d == x \div M
           y == x % M
<1>1. M \in Nat \ {0} /\ y \in 0..(M - 1) /\ d \in Int /\ x = d * M + y
  BY ModFacts
<1> HIDE DEF y, d
<1>2. x - M \in Int /\ d - 1 \in Int /\ x - M = (d - 1) * M + y
  <2> HIDE DEF M
  <2> QED
    BY <1>1
<1>3. (x - M) % M = y
  BY <1>1, <1>2, ModIs
<1> QED
  BY <1>3 DEF y

\* Taking a part of the remainder off, and adding to the remainder.
LEMMA ModSteps ==
    ASSUME NEW x \in Int, NEW r \in Int
    PROVE  /\ r \in 0..(x % Mod) => (x - r) % Mod = (x % Mod) - r
           /\ ((x % Mod) + r) % Mod = (x + r) % Mod
<1> DEFINE M == Mod
           d == x \div M
           y == x % M
           e == (x + r) \div M
           z == (x + r) % M
<1>1. M \in Nat \ {0} /\ y \in 0..(M - 1) /\ d \in Int /\ x = d * M + y
  BY ModFacts
<1>2. z \in 0..(M - 1) /\ e \in Int /\ x + r = e * M + z
  <2>1. x + r \in Int
    OBVIOUS
  <2> QED
    BY <2>1, ModFacts
<1> HIDE DEF y, d, z, e
<1>3. ASSUME r \in 0..y PROVE (x - r) % M = y - r
  <2>1. x - r \in Int /\ y - r \in 0..(M - 1) /\ x - r = d * M + (y - r)
    <3> HIDE DEF M
    <3> QED
      BY <1>1, <1>3
  <2> QED
    BY <1>1, <2>1, ModIs
<1>4. (y + r) % M = z
  <2>1. y + r \in Int /\ e - d \in Int /\ y + r = (e - d) * M + z
    <3> HIDE DEF M
    <3> QED
      BY <1>1, <1>2
  <2> QED
    BY <1>2, <2>1, ModIs
<1> QED
  BY <1>3, <1>4 DEF y, z

\* A sum of two numbers below 2^Width loses one bit at most.
LEMMA ModSum ==
    ASSUME NEW a \in 0..(Mod - 1), NEW r \in 0..(Mod - 1)
    PROVE  (a + r) % Mod = IF a + r < Mod THEN a + r ELSE (a + r) - Mod
<1> DEFINE s == a + r
<1>1. Mod \in Nat \ {0} /\ s \in Int /\ s >= 0 /\ s < Mod + Mod
  BY CounterAssumption
<1> HIDE DEF s
<1>2. s < Mod => s % Mod = s
  <2> SUFFICES ASSUME s < Mod PROVE s % Mod = s
    OBVIOUS
  <2>1. s \in 0..(Mod - 1)
    BY <1>1
  <2> QED
    BY <2>1, ModSmall, Zenon
<1>3. ~(s < Mod) => s % Mod = s - Mod
  <2> SUFFICES ASSUME ~(s < Mod) PROVE s % Mod = s - Mod
    OBVIOUS
  <2>1. s - Mod \in 0..(Mod - 1)
    BY <1>1
  <2>2. (s - Mod) % Mod = s - Mod
    BY <2>1, ModSmall, Zenon
  <2>3. (s - Mod) % Mod = s % Mod
    BY <1>1, ModMinus, Zenon
  <2> QED
    BY <2>2, <2>3, Zenon
<1>4. s % Mod = IF s < Mod THEN s ELSE s - Mod
  BY <1>2, <1>3, Zenon
<1> QED
  BY <1>4, Zenon DEF s

\* The boundary at or before a time, and the next one.
LEMMA BoundaryFacts ==
    ASSUME NEW t \in Nat
    PROVE  /\ nearest_boundary(t) \in Nat /\ nearest_boundary(t) <= t
           /\ t < nearest_boundary(t) + StatInterval
           /\ t \div StatInterval \in Nat
BY CounterAssumption DEF nearest_boundary

\* Later times have later boundaries, and a boundary that is passed is after
\* all times of the interval before.
LEMMA BoundaryOrder ==
    ASSUME NEW t \in Nat, NEW u \in Nat, t <= u
    PROVE  /\ nearest_boundary(t) <= nearest_boundary(u)
           /\ nearest_boundary(t) < nearest_boundary(u) => t < nearest_boundary(u)
<1> DEFINE I == StatInterval
           a == t \div I
           b == u \div I
<1>1. I \in Nat \ {0}
  BY CounterAssumption
<1>2. /\ a \in Nat /\ b \in Nat /\ a * I <= t /\ t < a * I + I
      /\ b * I <= u /\ u < b * I + I
  BY BoundaryFacts DEF nearest_boundary
<1> HIDE DEF I, a, b
<1>3. a <= b
  <2> SUFFICES ASSUME b + 1 <= a PROVE FALSE
    BY <1>2
  <2>1. (b + 1) * I <= a * I
    BY <1>1, <1>2
  <2> QED
    BY <1>1, <1>2, <2>1
<1>4. a * I <= b * I
  BY <1>1, <1>2, <1>3
<1>5. a < b => a * I + I <= b * I
  <2> SUFFICES ASSUME a + 1 <= b PROVE a * I + I <= b * I
    BY <1>2
  <2>1. (a + 1) * I <= b * I
    BY <1>1, <1>2
  <2> QED
    BY <1>1, <1>2, <2>1
<1>6. a * I < b * I => t < b * I
  BY <1>1, <1>2, <1>3, <1>5
<1> QED
  BY <1>4, <1>6 DEF nearest_boundary, a, b, I

-----------------------------------------------------------------------------
(* What all connections hold *)

\* The number of units when connection c holds h[c].
Total(h) == Cardinality({u \in Conns \X (1..Mod) : u[2] <= h[u[1]]})

\* The units of all connections but c.
Others(h, c) == {u \in (Conns \ {c}) \X (1..Mod) : u[2] <= h[u[1]]}

Holdings == [Conns -> 0..(Mod - 1)]

\* The total is what one connection holds and what the others hold.
LEMMA TotalSplit ==
    ASSUME NEW h \in Holdings, NEW c \in Conns
    PROVE  /\ Cardinality(Others(h, c)) \in Nat
           /\ Total(h) = Cardinality(Others(h, c)) + h[c]
<1> DEFINE M == Mod
           A == {u \in Conns \X (1..M) : u[2] <= h[u[1]]}
           B == Others(h, c)
           D == {c} \X (1..h[c])
<1>1. M \in Nat \ {0} /\ h[c] \in 0..(M - 1) /\ IsFiniteSet(Conns)
  BY CounterAssumption DEF Holdings
<1>2. IsFiniteSet(1..M) /\ IsFiniteSet(1..h[c]) /\ Cardinality(1..h[c]) = h[c]
  BY <1>1, FS_Interval
<1>3. IsFiniteSet(Conns \X (1..M))
  BY <1>1, <1>2, FS_Product, Zenon
<1>4. B \subseteq Conns \X (1..M)
  BY DEF Others
<1>5. IsFiniteSet(B) /\ Cardinality(B) \in Nat
  BY <1>3, <1>4, FS_Subset, FS_CardinalityType, Zenon
<1>6. IsFiniteSet(D) /\ Cardinality(D) = h[c]
  <2>1. IsFiniteSet({c}) /\ Cardinality({c}) = 1
    BY FS_Singleton, Zenon
  <2>2. IsFiniteSet(D) /\ Cardinality(D) = Cardinality({c}) * Cardinality(1..h[c])
    BY <1>2, <2>1, FS_Product, Zenon
  <2>3. Cardinality(D) = 1 * h[c]
    <3> HIDE DEF D
    <3> QED
      BY <1>2, <2>1, <2>2, Zenon
  <2> QED
    BY <1>1, <2>2, <2>3
<1>7. A = B \cup D
  <2>1. A \subseteq B \cup D
    BY <1>1 DEF Others
  <2>2. B \subseteq A
    BY DEF Others
  <2>3. D \subseteq A
    BY <1>1
  <2> QED
    BY <2>1, <2>2, <2>3
<1>8. B \cap D = {}
  BY DEF Others
<1> HIDE DEF B, D
<1>9. Cardinality(B \cup D) = Cardinality(B) + Cardinality(D) - Cardinality(B \cap D)
  <2> HIDE DEF A
  <2> QED
    BY <1>5, <1>6, FS_Union, Zenon
<1>10. Cardinality({}) = 0
  BY FS_EmptySet, Zenon
<1>11. Cardinality(A) = Cardinality(B) + h[c]
  <2> HIDE DEF A
  <2>1. Cardinality(B \cap D) = 0
    BY <1>8, <1>10, Zenon
  <2> DEFINE a == Cardinality(A)
             b == Cardinality(B)
             x == h[c]
  <2>2. a = b + x - 0 /\ b \in Nat /\ x \in Nat
    <3>1. x \in Nat
      BY <1>1
    <3> QED
      BY <1>5, <1>6, <1>7, <1>9, <2>1, <3>1, Zenon
  <2> HIDE DEF a, b, x
  <2>3. a = b + x
    BY <2>2
  <2> QED
    BY <2>3, Zenon DEF a, b, x
<1> QED
  BY <1>5, <1>11, Zenon DEF Total, B

\* When one connection holds another number, the total changes by as much.
LEMMA TotalChange ==
    ASSUME NEW h \in Holdings, NEW g \in Holdings, NEW c \in Conns,
           \A d \in Conns : d # c => g[d] = h[d]
    PROVE  /\ Total(h) \in Nat /\ Total(g) \in Nat /\ h[c] <= Total(h)
           /\ Total(g) = (Total(h) - h[c]) + g[c]
<1>1. Others(g, c) = Others(h, c)
  BY Zenon DEF Others
<1>2. h[c] \in Nat /\ g[c] \in Nat
  BY CounterAssumption DEF Holdings
<1>3. /\ Cardinality(Others(h, c)) \in Nat
      /\ Total(h) = Cardinality(Others(h, c)) + h[c]
      /\ Total(g) = Cardinality(Others(h, c)) + g[c]
  BY <1>1, TotalSplit, Zenon
<1> QED
  BY <1>2, <1>3

\* The total is a number, and bounds what each connection holds.
LEMMA TotalFacts ==
    ASSUME NEW h \in Holdings
    PROVE  Total(h) \in Nat /\ \A c \in Conns : h[c] <= Total(h)
<1>1. IsFiniteSet(Conns \X (1..Mod))
  <2>1. IsFiniteSet(1..Mod)
    BY CounterAssumption, FS_Interval
  <2> QED
    BY <2>1, CounterAssumption, FS_Product, Zenon
<1>2. Total(h) \in Nat
  BY <1>1, FS_Subset, FS_CardinalityType, Zenon DEF Total
<1> QED
  BY <1>2, TotalChange, Zenon

-----------------------------------------------------------------------------
(* The objects *)

\* An object's fields; a name without object has one that counts nothing.
LEMMA ObjectFacts ==
    ASSUME IInv, NEW n \in Names
    PROVE  /\ m_hash[n].consumption \in 0..(Mod - 1)
           /\ m_hash[n].max_consumption \in 0..(Mod - 1)
           /\ m_hash[n].last_updated \in Int /\ m_hash[n].last_updated <= MaxTime
           /\ Exists(n) => m_hash[n] \in Object
           /\ ~Exists(n) => m_hash[n].consumption = 0
           /\ now \in Nat /\ now <= MaxTime /\ MaxTime \in Nat /\ Mod \in Nat \ {0}
<1>1. m_hash[n] \in Object \cup {NoObject} /\ now \in 0..MaxTime
  BY Zenon DEF IInv, TypesOK, TypeOK
<1> QED
  BY <1>1, CounterAssumption DEF Object, NoObject, Exists

\* A new object.
LEMMA NewObjectFacts ==
    ASSUME IInv, NEW r \in 0..(Mod - 1)
    PROVE  /\ NewObject(r) \in Object /\ NewObject(r).consumption = r
           /\ NewObject(r).max_consumption = r /\ NewObject(r).last_updated = now
<1>1. now \in 0..MaxTime
  BY Zenon DEF IInv, TypesOK, TypeOK
<1> QED
  BY <1>1 DEF NewObject, Object

\* The fields after object::acquire.
LEMMA AcquireFacts ==
    ASSUME IInv, NEW o \in Object, NEW r \in 0..(Mod - 1)
    PROVE  /\ acquire(o, r) \in Object
           /\ acquire(o, r).consumption = (o.consumption + r) % Mod
           /\ acquire(o, r).max_consumption =
                 IF Stale(o) THEN (o.consumption + r) % Mod
                 ELSE MaxOf(o.max_consumption, (o.consumption + r) % Mod)
           /\ acquire(o, r).last_updated = now
<1> DEFINE sum == (o.consumption + r) % Mod
<1>1. now \in 0..MaxTime
  BY Zenon DEF IInv, TypesOK, TypeOK
<1>2. sum \in 0..(Mod - 1)
  <2>1. o.consumption + r \in Int
    BY DEF Object
  <2> QED
    BY <2>1, ModFacts, Zenon
<1> HIDE DEF sum
<1>3. (IF Stale(o) THEN sum ELSE MaxOf(o.max_consumption, sum)) \in 0..(Mod - 1)
  BY <1>2 DEF Object, MaxOf
<1>4. acquire(o, r) = [consumption |-> sum,
                       max_consumption |-> IF Stale(o) THEN sum
                                           ELSE MaxOf(o.max_consumption, sum),
                       last_updated |-> now]
  BY Zenon DEF acquire, sum
<1>5. /\ acquire(o, r) \in Object
      /\ acquire(o, r).consumption = sum
      /\ acquire(o, r).max_consumption = IF Stale(o) THEN sum ELSE MaxOf(o.max_consumption, sum)
      /\ acquire(o, r).last_updated = now
  BY <1>1, <1>2, <1>3, <1>4 DEF Object
<1> QED
  BY <1>5, Zenon DEF sum

\* The fields after object::release.
LEMMA ReleaseFacts ==
    ASSUME IInv, NEW o \in Object, NEW r \in 0..(Mod - 1), CanRelease(o, r)
    PROVE  /\ release(o, r) \in Object
           /\ release(o, r).consumption = o.consumption - r
           /\ release(o, r).max_consumption =
                 IF Stale(o) THEN o.consumption ELSE o.max_consumption
           /\ release(o, r).last_updated = now
<1>1. now \in 0..MaxTime
  BY Zenon DEF IInv, TypesOK, TypeOK
<1>2. /\ o.consumption \in 0..(Mod - 1) /\ o.max_consumption \in 0..(Mod - 1)
      /\ o.consumption - r \in 0..(Mod - 1)
  BY CounterAssumption DEF Object, CanRelease
<1> DEFINE m == IF Stale(o) THEN o.consumption ELSE o.max_consumption
<1>3. m \in 0..(Mod - 1)
  BY <1>2
<1>4. release(o, r) = [consumption |-> o.consumption - r, max_consumption |-> m,
                       last_updated |-> now]
  BY Zenon DEF release
<1> HIDE DEF m
<1>5. /\ release(o, r) \in Object
      /\ release(o, r).consumption = o.consumption - r
      /\ release(o, r).max_consumption = m
      /\ release(o, r).last_updated = now
  BY <1>1, <1>2, <1>3, <1>4 DEF Object
<1> QED
  BY <1>5, Zenon DEF m

\* An object that is updated now belongs to the current interval.
LEMMA FreshFacts ==
    ASSUME IInv, NEW o, o.last_updated = now
    PROVE  ~Stale(o)
<1>1. now \in Nat
  BY CounterAssumption DEF IInv, TypesOK, TypeOK
<1> QED
  BY <1>1, BoundaryFacts DEF Stale

-----------------------------------------------------------------------------
(* The history variables *)

\* What may happen to the object of n while the clock stands still and no sum
\* wraps.
Changes(n) ==
    \/ m_hash'[n] = m_hash[n]
    \/ \E r \in 1..(Mod - 1) :
          \/ ~Exists(n) /\ m_hash'[n] = NewObject(r)
          \/ Exists(n) /\ m_hash'[n] = acquire(m_hash[n], r) /\ m_hash[n].consumption + r < Mod
    \/ \E r \in 0..(Mod - 1) :
          Exists(n) /\ CanRelease(m_hash[n], r) /\ m_hash'[n] = release(m_hash[n], r)
    \/ m_hash'[n] = NoObject /\ deletable(m_hash[n])

\* The history variables keep their types, and a sum that has wrapped stays so.
LEMMA ObserveTypes ==
    ASSUME IInv, Observe, TypeOK'
    PROVE  TypesOK' /\ (wrapped => wrapped')
<1>1. /\ wrapped' = (wrapped \/ Wraps)
      /\ peak' = [n \in Names |->
                  IF wrapped' THEN 0
                  ELSE IF nearest_boundary(now) < nearest_boundary(now')
                  THEN m_hash'[n].consumption
                  ELSE MaxOf(peak[n], m_hash'[n].consumption)]
  BY Zenon DEF Observe
<1>2. wrapped' \in BOOLEAN /\ (wrapped => wrapped')
  BY <1>1, Zenon
<1>3. ASSUME NEW n \in Names PROVE peak'[n] \in 0..(Mod - 1)
  <2>1. peak[n] \in 0..(Mod - 1)
    BY Zenon DEF IInv, TypesOK
  <2>2. m_hash'[n].consumption \in 0..(Mod - 1) /\ 0 \in 0..(Mod - 1)
    <3>1. m_hash'[n] \in Object \cup {NoObject}
      BY Zenon DEF TypeOK
    <3> QED
      BY <3>1, CounterAssumption DEF Object, NoObject
  <2>3. MaxOf(peak[n], m_hash'[n].consumption) \in 0..(Mod - 1)
    BY <2>1, <2>2, Zenon DEF MaxOf
  <2> QED
    BY <1>1, <2>2, <2>3, Zenon
<1>4. peak' \in [Names -> 0..(Mod - 1)]
  <2>1. peak' = [n \in Names |-> peak'[n]]
    BY <1>1, Zenon
  <2> QED
    BY <1>3, <2>1, Zenon
<1> QED
  BY <1>2, <1>4, Zenon DEF TypesOK

\* While the clock stands still the recorded peak follows the objects.
LEMMA PeakKept ==
    ASSUME IInv, Observe, UNCHANGED now, ~wrapped', \A n \in Names : Changes(n)
    PROVE  PeaksOK'
<1>1. ~wrapped
  BY Zenon DEF Observe
<1> SUFFICES ASSUME NEW n \in Names
             PROVE  /\ m_hash'[n].last_updated <= now
                    /\ m_hash'[n].consumption <= peak'[n]
                    /\ max_consumption(m_hash[n])' = peak'[n]
  BY Zenon DEF PeaksOK
<1> DEFINE o == m_hash[n]
           p == m_hash'[n]
<1>2. /\ o.consumption \in 0..(Mod - 1) /\ o.max_consumption \in 0..(Mod - 1)
      /\ o.last_updated \in Int
      /\ Exists(n) => o \in Object
      /\ ~Exists(n) => o.consumption = 0
      /\ now \in Nat /\ Mod \in Nat \ {0}
  BY ObjectFacts, Zenon
<1>3. /\ o.last_updated <= now /\ o.consumption <= peak[n]
      /\ max_consumption(o) = peak[n] /\ peak[n] \in 0..(Mod - 1)
  BY <1>1, Zenon DEF IInv, PeaksOK, TypesOK
<1>4. peak'[n] = MaxOf(peak[n], p.consumption)
  <2>1. peak' = [m \in Names |->
                  IF wrapped' THEN 0
                  ELSE IF nearest_boundary(now) < nearest_boundary(now)
                  THEN m_hash'[m].consumption
                  ELSE MaxOf(peak[m], m_hash'[m].consumption)]
    BY Zenon DEF Observe
  <2>2. ~(nearest_boundary(now) < nearest_boundary(now))
    BY <1>2, BoundaryFacts
  <2> QED
    BY <2>1, <2>2, Zenon
<1>5. max_consumption(m_hash[n])' = IF p.last_updated < nearest_boundary(now)
                                    THEN p.consumption ELSE p.max_consumption
  BY Zenon DEF max_consumption, Stale, nearest_boundary
<1>6. max_consumption(o) = IF Stale(o) THEN o.consumption ELSE o.max_consumption
  BY Zenon DEF max_consumption
<1>7. nearest_boundary(now) \in Nat /\ nearest_boundary(now) <= now
  BY <1>2, BoundaryFacts, Zenon
<1> DEFINE x == nearest_boundary(now)
           Fits(q) == /\ q.last_updated <= now
                      /\ q.consumption <= MaxOf(peak[n], q.consumption)
                      /\ (IF q.last_updated < x THEN q.consumption ELSE q.max_consumption)
                            = MaxOf(peak[n], q.consumption)
<1> HIDE DEF x
<1>8. Fits(p)
  <2>1. CASE p = o
    <3>1. Fits(o)
      BY <1>2, <1>3, <1>6 DEF MaxOf, Stale, x
    <3> QED
      BY <2>1, <3>1, Zenon
  <2>2. ASSUME NEW r \in 1..(Mod - 1), ~Exists(n), p = NewObject(r) PROVE Fits(p)
    <3>1. r \in 0..(Mod - 1)
      BY <1>2, <2>2
    <3>2. p.consumption = r /\ p.max_consumption = r /\ p.last_updated = now
      BY <2>2, <3>1, NewObjectFacts, Zenon
    <3>3. peak[n] = 0
      <4>1. o = NoObject
        BY <2>2, Zenon DEF Exists
      <4>2. o.last_updated = -1
        BY <4>1 DEF NoObject
      <4>3. Stale(o)
        BY <1>7, <4>2 DEF Stale
      <4> QED
        BY <1>2, <1>3, <1>6, <2>2, <4>3, Zenon
    <3> QED
      BY <1>2, <1>7, <2>2, <3>2, <3>3 DEF MaxOf, x
  <2>3. ASSUME NEW r \in 1..(Mod - 1), Exists(n), p = acquire(o, r), o.consumption + r < Mod
        PROVE  Fits(p)
    <3>1. r \in 0..(Mod - 1) /\ o.consumption + r \in 0..(Mod - 1)
      BY <1>2, <2>3
    <3>2. (o.consumption + r) % Mod = o.consumption + r
      BY <3>1, ModSmall, Zenon
    <3>3. /\ p.consumption = o.consumption + r
          /\ p.max_consumption = IF Stale(o) THEN o.consumption + r
                                 ELSE MaxOf(o.max_consumption, o.consumption + r)
          /\ p.last_updated = now
      <4>1. o \in Object
        BY <1>2, <2>3, Zenon
      <4> HIDE DEF o, p
      <4>2. /\ acquire(o, r).consumption = (o.consumption + r) % Mod
            /\ acquire(o, r).max_consumption =
                 IF Stale(o) THEN (o.consumption + r) % Mod
                 ELSE MaxOf(o.max_consumption, (o.consumption + r) % Mod)
            /\ acquire(o, r).last_updated = now
        BY <3>1, <4>1, AcquireFacts, Zenon
      <4> QED
        BY <2>3, <3>2, <4>2, Zenon
    <3> QED
      BY <1>2, <1>3, <1>6, <1>7, <2>3, <3>3 DEF MaxOf, x
  <2>4. ASSUME NEW r \in 0..(Mod - 1), Exists(n), CanRelease(o, r), p = release(o, r)
        PROVE  Fits(p)
    <3>1. /\ p.consumption = o.consumption - r
          /\ p.max_consumption = IF Stale(o) THEN o.consumption ELSE o.max_consumption
          /\ p.last_updated = now
      <4>1. o \in Object
        BY <1>2, <2>4, Zenon
      <4> HIDE DEF o, p
      <4>2. /\ release(o, r).consumption = o.consumption - r
            /\ release(o, r).max_consumption =
                 IF Stale(o) THEN o.consumption ELSE o.max_consumption
            /\ release(o, r).last_updated = now
        BY <2>4, <4>1, ReleaseFacts, Zenon
      <4> QED
        BY <2>4, <4>2, Zenon
    <3> QED
      BY <1>2, <1>3, <1>6, <1>7, <2>4, <3>1 DEF MaxOf, x
  <2>5. CASE p = NoObject /\ deletable(o)
    <3>1. o.consumption = 0 /\ Stale(o)
      BY <2>5, Zenon DEF deletable
    <3>2. peak[n] = 0
      BY <1>3, <1>6, <3>1, Zenon
    <3>3. p.consumption = 0 /\ p.max_consumption = 0 /\ p.last_updated = -1
      BY <2>5 DEF NoObject
    <3> QED
      BY <1>2, <1>7, <3>2, <3>3 DEF MaxOf, x
  <2>6. Changes(n)
    BY Zenon
  <2> QED
    BY <2>1, <2>2, <2>3, <2>4, <2>5, <2>6, Zenon DEF Changes
<1> QED
  BY <1>4, <1>5, <1>8, Zenon DEF x

\* When the clock moves on, a new interval begins with what is held, and the
\* objects of the old one are stale.
LEMMA PeakOverTime ==
    ASSUME IInv, Observe, UNCHANGED m_hash, now <= now', now' \in Nat, ~wrapped'
    PROVE  PeaksOK'
<1>1. ~wrapped
  BY Zenon DEF Observe
<1> SUFFICES ASSUME NEW n \in Names
             PROVE  /\ m_hash[n].last_updated <= now'
                    /\ m_hash[n].consumption <= peak'[n]
                    /\ max_consumption(m_hash[n])' = peak'[n]
  BY Zenon DEF PeaksOK
<1> DEFINE o == m_hash[n]
           x == nearest_boundary(now)
           y == nearest_boundary(now)'
<1>2. /\ o.consumption \in 0..(Mod - 1) /\ o.max_consumption \in 0..(Mod - 1)
      /\ o.last_updated \in Int /\ now \in Nat /\ Mod \in Nat \ {0}
  BY ObjectFacts, Zenon
<1>3. /\ o.last_updated <= now /\ o.consumption <= peak[n]
      /\ max_consumption(o) = peak[n] /\ peak[n] \in 0..(Mod - 1)
  BY <1>1, Zenon DEF IInv, PeaksOK, TypesOK
<1>4. y = nearest_boundary(now')
  BY DEF nearest_boundary
<1>5. x \in Nat /\ y \in Nat /\ x <= y /\ (x < y => now < y)
  BY <1>2, <1>4, BoundaryFacts, BoundaryOrder, Zenon
<1>6. peak'[n] = IF x < y THEN o.consumption ELSE MaxOf(peak[n], o.consumption)
  BY <1>4, Zenon DEF Observe
<1>7. /\ max_consumption(m_hash[n])' = IF o.last_updated < y
                                       THEN o.consumption ELSE o.max_consumption
      /\ max_consumption(o) = IF o.last_updated < x
                              THEN o.consumption ELSE o.max_consumption
  BY Zenon DEF max_consumption, Stale, nearest_boundary
<1> HIDE DEF x, y
<1> QED
  BY <1>2, <1>3, <1>5, <1>6, <1>7 DEF MaxOf

-----------------------------------------------------------------------------
(* The tables of the connections *)

\* What the connections hold of n.
HeldOf(n) == [c \in Conns |-> Held(c, n)]

\* The tables and the objects are what TypeOK says.
LEMMA TypeFacts ==
    ASSUME IInv
    PROVE  /\ m_hash \in [Names -> Object \cup {NoObject}]
           /\ m_acquired \in [Conns -> Table] /\ phase \in [Conns -> Phases]
           /\ todo \in [Conns -> SUBSET Names] /\ draining \in [Conns -> BOOLEAN]
           /\ now \in 0..MaxTime /\ gc \in {"none", "running", "done"}
           /\ gcpos \in 1..(Buckets + 1) /\ m_last_gc \in 0..MaxTime
           /\ thrown \in BOOLEAN
BY Zenon DEF IInv, TypesOK, TypeOK

\* A table maps some names to numbers.
LEMMA TableFacts ==
    ASSUME NEW a
    PROVE  a \in Table <=> a \in [DOMAIN a -> 0..(Mod - 1)] /\ DOMAIN a \subseteq Names
<1>1. ASSUME a \in Table PROVE a \in [DOMAIN a -> 0..(Mod - 1)] /\ DOMAIN a \subseteq Names
  <2>1. PICK D \in SUBSET Names : a \in [D -> 0..(Mod - 1)]
    BY <1>1, Zenon DEF Table
  <2> QED
    BY <2>1, Zenon
<1>2. ASSUME a \in [DOMAIN a -> 0..(Mod - 1)], DOMAIN a \subseteq Names PROVE a \in Table
  <2>1. DOMAIN a \in SUBSET Names
    BY <1>2, Zenon
  <2> QED
    BY <1>2, <2>1, Zenon DEF Table
<1> QED
  BY <1>1, <1>2

\* What the connections hold, and the total.
LEMMA HeldFacts ==
    ASSUME m_acquired \in [Conns -> Table], NEW n \in Names
    PROVE  /\ HeldOf(n) \in Holdings /\ HeldByAll(n) = Total(HeldOf(n))
           /\ \A c \in Conns : HeldOf(n)[c] = Held(c, n) /\ Held(c, n) \in 0..(Mod - 1)
<1>1. 0 \in 0..(Mod - 1)
  BY CounterAssumption
<1>2. \A c \in Conns : HeldOf(n)[c] = Held(c, n) /\ Held(c, n) \in 0..(Mod - 1)
  BY <1>1, TableFacts, Zenon DEF HeldOf, Held
<1>3. HeldOf(n) \in Holdings
  BY <1>2, Zenon DEF HeldOf, Holdings
<1>4. Units(n) = {u \in Conns \X (1..Mod) : u[2] <= HeldOf(n)[u[1]]}
  <2>1. \A u \in Conns \X (1..Mod) : u[1] \in Conns
    OBVIOUS
  <2> QED
    BY <1>2, <2>1, Zenon DEF Units
<1> QED
  BY <1>2, <1>3, <1>4, Zenon DEF HeldByAll, Total

\* The same after a step.
LEMMA HeldFactsAfter ==
    ASSUME (m_acquired \in [Conns -> Table])', NEW n \in Names
    PROVE  /\ HeldOf(n)' \in Holdings /\ HeldByAll(n)' = Total(HeldOf(n)')
           /\ \A c \in Conns : HeldOf(n)'[c] = Held(c, n)' /\ Held(c, n)' \in 0..(Mod - 1)
<1>1. 0 \in 0..(Mod - 1)
  BY CounterAssumption
<1>2. \A c \in Conns : HeldOf(n)'[c] = Held(c, n)' /\ Held(c, n)' \in 0..(Mod - 1)
  <2>1. m_acquired' \in [Conns -> Table]
    BY Zenon DEF Table
  <2> QED
    BY <1>1, <2>1, TableFacts, Zenon DEF HeldOf, Held
<1>3. HeldOf(n)' \in Holdings
  BY <1>2, Zenon DEF HeldOf, Holdings
<1>4. Units(n)' = {u \in Conns \X (1..Mod) : u[2] <= HeldOf(n)'[u[1]]}
  <2>1. \A u \in Conns \X (1..Mod) : u[1] \in Conns
    OBVIOUS
  <2>2. Units(n)' = {u \in Conns \X (1..Mod) : u[2] <= Held(u[1], n)'}
    BY Zenon DEF Units, Mod
  <2> QED
    BY <1>2, <2>1, <2>2, Zenon
<1> QED
  BY <1>2, <1>3, <1>4, Zenon DEF HeldByAll, Total

\* What a connection holds does not change with the tables of others.
LEMMA HeldSame ==
    ASSUME NEW c \in Conns, NEW n \in Names, m_acquired'[c] = m_acquired[c],
           todo'[c] = todo[c], draining'[c] = draining[c]
    PROVE  Held(c, n)' = Held(c, n)
BY Zenon DEF Held

\* The total changes by what one connection gives or takes.
LEMMA HeldMoves ==
    ASSUME IInv, m_acquired' \in [Conns -> Table], NEW n \in Names, NEW c \in Conns,
           \A d \in Conns : d # c => Held(d, n)' = Held(d, n)
    PROVE  /\ HeldByAll(n) \in Nat /\ HeldByAll(n)' \in Nat
           /\ Held(c, n) \in 0..(Mod - 1) /\ Held(c, n)' \in 0..(Mod - 1)
           /\ Held(c, n) <= HeldByAll(n) /\ Held(c, n)' <= HeldByAll(n)'
           /\ HeldByAll(n)' = (HeldByAll(n) - Held(c, n)) + Held(c, n)'
<1>1. /\ HeldOf(n) \in Holdings /\ HeldByAll(n) = Total(HeldOf(n))
      /\ \A d \in Conns : HeldOf(n)[d] = Held(d, n) /\ Held(d, n) \in 0..(Mod - 1)
  BY TypeFacts, HeldFacts, Zenon
<1>2. /\ HeldOf(n)' \in Holdings /\ HeldByAll(n)' = Total(HeldOf(n)')
      /\ \A d \in Conns : HeldOf(n)'[d] = Held(d, n)' /\ Held(d, n)' \in 0..(Mod - 1)
  <2>1. (m_acquired \in [Conns -> Table])'
    BY Zenon DEF Table
  <2> QED
    BY <2>1, HeldFactsAfter, Zenon
<1> DEFINE h == HeldOf(n)
           g == HeldOf(n)'
<1>3. h \in Holdings /\ g \in Holdings /\ \A d \in Conns : d # c => g[d] = h[d]
  BY <1>1, <1>2, Zenon
<1> HIDE DEF h, g
<1>4. /\ Total(h) \in Nat /\ Total(g) \in Nat /\ h[c] <= Total(h) /\ g[c] <= Total(g)
      /\ Total(g) = (Total(h) - h[c]) + g[c]
  BY <1>3, TotalChange, TotalFacts, Zenon
<1> QED
  BY <1>1, <1>2, <1>4, Zenon DEF h, g

\* The total stays when every connection holds what it held.
LEMMA HeldStays ==
    ASSUME NEW n \in Names, \A d \in Conns : Held(d, n)' = Held(d, n)
    PROVE  HeldByAll(n)' = HeldByAll(n)
<1>1. \A u \in Conns \X (1..Mod) : u[1] \in Conns
  OBVIOUS
<1>2. Units(n)' = {u \in Conns \X (1..Mod) : u[2] <= Held(u[1], n)'}
  BY Zenon DEF Units, Mod
<1>3. Units(n)' = Units(n)
  BY <1>1, <1>2, Zenon DEF Units
<1> QED
  BY <1>3, Zenon DEF HeldByAll

-----------------------------------------------------------------------------
(* Steps that give and take nothing *)

\* No entry of a table is zero.
NoZeros == \A c \in Conns : \A n \in DOMAIN m_acquired[c] : m_acquired[c][n] > 0

\* Until a sum wraps, nothing has been thrown and the objects count exactly.
LEMMA ExactFacts ==
    ASSUME IInv, NEW n \in Names
    PROVE  /\ ~thrown => m_hash[n].consumption = HeldByAll(n) % Mod
           /\ ~wrapped => /\ ~thrown /\ NoZeros /\ HeldByAll(n) < Mod
                          /\ m_hash[n].consumption = HeldByAll(n)
<1>1. /\ ~thrown => m_hash[n].consumption = HeldByAll(n) % Mod
      /\ ~wrapped => ~thrown /\ NoZeros /\ HeldByAll(n) < Mod
  BY Zenon DEF IInv, SumsOK, ExactOK, NoZeros
<1>2. HeldByAll(n) \in Nat
  BY TypeFacts, HeldFacts, TotalFacts, Zenon
<1>3. ASSUME ~wrapped PROVE m_hash[n].consumption = HeldByAll(n)
  <2>1. HeldByAll(n) \in 0..(Mod - 1)
    BY <1>1, <1>2, <1>3, CounterAssumption
  <2>2. HeldByAll(n) % Mod = HeldByAll(n)
    BY <2>1, ModSmall, Zenon
  <2> QED
    BY <1>1, <1>3, <2>2, Zenon
<1> QED
  BY <1>1, <1>3, Zenon

\* All connections hold what they held, and all objects count what they counted.
LEMMA NothingMoves ==
    ASSUME IInv, Observe, TypeOK', DrainOK', UNCHANGED thrown,
           \A n \in Names : /\ m_hash'[n].consumption = m_hash[n].consumption
                            /\ \A c \in Conns : Held(c, n)' = Held(c, n),
           NoZeros => NoZeros',
           ~wrapped' => PeaksOK'
    PROVE  IInv'
<1>1. TypesOK' /\ (wrapped => wrapped')
  BY ObserveTypes
<1>2. \A n \in Names : HeldByAll(n)' = HeldByAll(n)
  BY HeldStays, Zenon
<1>3. SumsOK'
  <2> SUFFICES ASSUME ~thrown, NEW n \in Names
               PROVE  (m_hash[n].consumption = HeldByAll(n) % Mod)'
    BY Zenon DEF SumsOK
  <2>1. m_hash[n].consumption = HeldByAll(n) % Mod
    BY Zenon DEF IInv, SumsOK
  <2> QED
    BY <1>2, <2>1, Zenon DEF Mod
<1>4. ExactOK'
  <2>1. ~wrapped => ~thrown /\ NoZeros /\ \A n \in Names : HeldByAll(n) < Mod
    BY Zenon DEF IInv, ExactOK, NoZeros
  <2>2. ~wrapped' => ~thrown' /\ NoZeros' /\ \A n \in Names : HeldByAll(n)' < Mod
    BY <1>1, <1>2, <2>1, Zenon
  <2> QED
    BY <2>2, Zenon DEF ExactOK, NoZeros, Mod
<1>5. PeaksOK'
  BY Zenon DEF PeaksOK
<1> QED
  BY <1>1, <1>3, <1>4, <1>5, Zenon DEF IInv

\* A step that leaves the objects and the tables alone.
LEMMA FramePreserves ==
    ASSUME IInv, Observe, TypeOK', UNCHANGED <<m_hash, m_acquired, todo, draining, thrown>>,
           now <= now', now' \in Nat
    PROVE  IInv'
<1>1. DrainOK' /\ (NoZeros => NoZeros')
  BY Zenon DEF IInv, DrainOK, NoZeros
<1>2. \A n \in Names : \A c \in Conns : Held(c, n)' = Held(c, n)
  BY HeldSame, Zenon
<1>3. ~wrapped' => PeaksOK'
  BY PeakOverTime, Zenon
<1>4. \A n \in Names : /\ m_hash'[n].consumption = m_hash[n].consumption
                       /\ \A c \in Conns : Held(c, n)' = Held(c, n)
  BY <1>2, Zenon
<1> QED
  BY <1>1, <1>3, <1>4, NothingMoves, Zenon

\* A connection is accepted or invalidated, its job begins or ends, or the GC thread
\* ends.
LEMMA PhasePreserves ==
    ASSUME IInv, Observe,
           gc_end \/ \E c \in Conns : \/ make_counter_socket(c) \/ on_readable(c)
                                     \/ RecvAgain(c) \/ Hangup(c)
    PROVE  IInv'
<1>1. /\ UNCHANGED <<m_hash, m_acquired, todo, draining, now, gcpos, m_last_gc, thrown>>
      /\ UNCHANGED gc \/ gc' = "done"
      /\ UNCHANGED phase \/ \E c \in Conns : \E p \in {"open", "busy", "ending", "gone"} :
                                phase' = [phase EXCEPT ![c] = p]
  BY Zenon DEF gc_end, make_counter_socket, on_readable, RecvAgain, Hangup, gcVars, connVars
<1>2. phase' \in [Conns -> Phases] /\ gc' \in {"none", "running", "done"}
  <2>1. {"open", "busy", "ending", "gone"} \subseteq Phases
    BY Zenon DEF Phases
  <2> QED
    BY <1>1, <2>1, TypeFacts, Zenon
<1>3. TypeOK'
  BY <1>1, <1>2, Zenon DEF IInv, TypesOK, TypeOK, Object, NoObject, Table, Mod
<1>4. now \in Nat
  BY TypeFacts
<1> QED
  <2>1. now <= now' /\ now' \in Nat
    BY <1>1, <1>4
  <2> QED
    BY <1>1, <1>3, <2>1, FramePreserves, Zenon

\* The clock moves on, and a GC thread may start or be joined.
LEMMA IntervalPreserves ==
    ASSUME IInv, Observe, NEW t \in now..MaxTime, on_master_interval(t)
    PROVE  IInv'
<1>1. /\ now' = t /\ m_last_gc' \in {t, m_last_gc}
      /\ gc' \in {"running", "none", gc} /\ gcpos' \in {1, gcpos}
      /\ UNCHANGED <<m_hash, m_acquired, phase, todo, draining, thrown>>
  BY Zenon DEF on_master_interval, connVars
<1>2. now \in 0..MaxTime /\ gcpos \in 1..(Buckets + 1) /\ m_last_gc \in 0..MaxTime
      /\ gc \in {"none", "running", "done"}
  BY TypeFacts
<1>3. now' \in 0..MaxTime /\ now <= now' /\ now' \in Nat
  BY <1>1, <1>2, CounterAssumption
<1>4. gcpos' \in 1..(Buckets + 1) /\ m_last_gc' \in 0..MaxTime
  BY <1>1, <1>2, <1>3, CounterAssumption
<1>5. gc' \in {"none", "running", "done"}
  BY <1>1, <1>2
<1>6. TypeOK'
  BY <1>1, <1>3, <1>4, <1>5, Zenon DEF IInv, TypesOK, TypeOK, Object, NoObject, Table, Mod
<1> QED
  BY <1>1, <1>3, <1>6, FramePreserves, Zenon

\* release_all starts: all names of the table are still to be visited.
LEMMA StartPreserves ==
    ASSUME IInv, Observe, NEW c \in Conns,
           RecvNone(c) \/ TooLarge(c) \/ RecvReset(c) \/ Destroy(c)
    PROVE  IInv'
<1>1. /\ ~draining[c] /\ \E p \in Phases : phase' = [phase EXCEPT ![c] = p]
      /\ draining' = [draining EXCEPT ![c] = TRUE]
      /\ todo' = [todo EXCEPT ![c] = DOMAIN m_acquired[c]]
      /\ UNCHANGED <<m_hash, m_acquired, now, gc, gcpos, m_last_gc, thrown>>
  <2>1. {"eof", "deny", "gone", "dead"} \subseteq Phases
    BY Zenon DEF Phases
  <2> QED
    BY <2>1, Zenon DEF RecvNone, TooLarge, RecvReset, Destroy, Serving, StartReleaseAll, gcVars
<1>2. DOMAIN m_acquired[c] \subseteq Names
  BY TypeFacts, TableFacts, Zenon
<1>3. TypeOK'
  <2>1. todo' \in [Conns -> SUBSET Names]
    BY <1>1, <1>2, TypeFacts, Zenon
  <2>2. draining' \in [Conns -> BOOLEAN] /\ phase' \in [Conns -> Phases]
    BY <1>1, TypeFacts, Zenon
  <2> QED
    BY <1>1, <2>1, <2>2, Zenon DEF IInv, TypesOK, TypeOK, Object, NoObject, Table, Mod
<1>4. /\ draining'[c] = TRUE /\ todo'[c] = DOMAIN m_acquired[c]
      /\ \A d \in Conns : d # c => draining'[d] = draining[d] /\ todo'[d] = todo[d]
  BY <1>1, TypeFacts, Zenon
<1>5. DrainOK' /\ (NoZeros => NoZeros')
  BY <1>1, <1>4, Zenon DEF IInv, DrainOK, NoZeros
<1>6. ASSUME NEW n \in Names, NEW d \in Conns PROVE Held(d, n)' = Held(d, n)
  <2>1. CASE d = c
    BY <1>1, <1>4, <2>1, Zenon DEF Held
  <2>2. CASE d # c
    BY <1>1, <1>4, <2>2, HeldSame, Zenon
  <2> QED
    BY <2>1, <2>2
<1>7. now <= now' /\ now' \in Nat
  BY <1>1, TypeFacts
<1>8. ~wrapped' => PeaksOK'
  BY <1>1, <1>7, PeakOverTime, Zenon
<1>9. \A n \in Names : /\ m_hash'[n].consumption = m_hash[n].consumption
                       /\ \A d \in Conns : Held(d, n)' = Held(d, n)
  BY <1>1, <1>6, Zenon
<1> QED
  BY <1>1, <1>3, <1>5, <1>8, <1>9, NothingMoves, Zenon

\* release_all ends: a table whose names have all been visited is cleared.
LEMMA FinishPreserves ==
    ASSUME IInv, Observe, NEW c \in Conns, FinishReleaseAll(c)
    PROVE  IInv'
<1>1. /\ draining[c] /\ todo[c] = {}
      /\ m_acquired' = [m_acquired EXCEPT ![c] = EmptyMap]
      /\ draining' = [draining EXCEPT ![c] = FALSE]
      /\ phase' = [phase EXCEPT ![c] = AfterReleaseAll(phase[c])]
      /\ UNCHANGED <<m_hash, todo, now, gc, gcpos, m_last_gc, thrown>>
  BY Zenon DEF FinishReleaseAll, gcVars
<1>2. EmptyMap \in Table /\ DOMAIN EmptyMap = {}
  <2>1. DOMAIN EmptyMap = {} /\ EmptyMap = [n \in {} |-> 0]
    BY Zenon DEF EmptyMap
  <2>2. EmptyMap \in [DOMAIN EmptyMap -> 0..(Mod - 1)]
    BY <2>1, Zenon
  <2> QED
    BY <2>1, <2>2, TableFacts, Zenon
<1>3. TypeOK'
  <2>1. m_acquired' \in [Conns -> Table]
    BY <1>1, <1>2, TypeFacts, Zenon
  <2>2. AfterReleaseAll(phase[c]) \in Phases
    BY TypeFacts DEF AfterReleaseAll, Phases
  <2>3. draining' \in [Conns -> BOOLEAN] /\ phase' \in [Conns -> Phases]
    BY <1>1, <2>2, TypeFacts, Zenon
  <2> QED
    BY <1>1, <2>1, <2>3, Zenon DEF IInv, TypesOK, TypeOK, Object, NoObject, Table, Mod
<1>4. /\ draining'[c] = FALSE /\ m_acquired'[c] = EmptyMap
      /\ \A d \in Conns : d # c => draining'[d] = draining[d] /\ m_acquired'[d] = m_acquired[d]
  BY <1>1, TypeFacts, Zenon
<1>5. DrainOK' /\ (NoZeros => NoZeros')
  BY <1>1, <1>2, <1>4, Zenon DEF IInv, DrainOK, NoZeros
<1>6. ASSUME NEW n \in Names, NEW d \in Conns PROVE Held(d, n)' = Held(d, n)
  <2>1. CASE d = c
    <3>1. Held(c, n) = 0 /\ Held(c, n)' = 0
      BY <1>1, <1>2, <1>4, Zenon DEF Held
    <3> QED
      BY <2>1, <3>1, Zenon
  <2>2. CASE d # c
    BY <1>1, <1>4, <2>2, HeldSame, Zenon
  <2> QED
    BY <2>1, <2>2
<1>7. now <= now' /\ now' \in Nat
  BY <1>1, TypeFacts
<1>8. ~wrapped' => PeaksOK'
  BY <1>1, <1>7, PeakOverTime, Zenon
<1>9. \A n \in Names : /\ m_hash'[n].consumption = m_hash[n].consumption
                       /\ \A d \in Conns : Held(d, n)' = Held(d, n)
  BY <1>1, <1>6, Zenon
<1> QED
  BY <1>1, <1>3, <1>5, <1>8, <1>9, NothingMoves, Zenon

\* The GC thread removes objects that count nothing.
LEMMA BucketPreserves ==
    ASSUME IInv, Observe, gc_bucket
    PROVE  IInv'
<1>1. /\ gcpos <= Buckets /\ gcpos' = gcpos + 1
      /\ m_hash' = [n \in Names |->
                      IF BucketOf[n] = gcpos /\ Exists(n) /\ deletable(m_hash[n])
                      THEN NoObject ELSE m_hash[n]]
      /\ UNCHANGED <<m_acquired, phase, todo, draining, now, gc, m_last_gc, thrown>>
  BY Zenon DEF gc_bucket, connVars
<1>2. \A n \in Names : \/ m_hash'[n] = m_hash[n]
                       \/ m_hash'[n] = NoObject /\ deletable(m_hash[n])
  BY <1>1, Zenon
<1>3. TypeOK'
  <2>1. m_hash' \in [Names -> Object \cup {NoObject}]
    <3>1. m_hash' = [n \in Names |-> m_hash'[n]]
      BY <1>1, Zenon
    <3>2. \A n \in Names : m_hash'[n] \in Object \cup {NoObject}
      BY <1>2, TypeFacts, Zenon
    <3> QED
      BY <3>1, <3>2, Zenon
  <2>2. gcpos' \in 1..(Buckets + 1)
    BY <1>1, TypeFacts, CounterAssumption
  <2> QED
    BY <1>1, <2>1, <2>2, Zenon DEF IInv, TypesOK, TypeOK, Object, NoObject, Table, Mod
<1>4. DrainOK' /\ (NoZeros => NoZeros')
  BY <1>1, Zenon DEF IInv, DrainOK, NoZeros
<1>5. \A n \in Names : m_hash'[n].consumption = m_hash[n].consumption
  <2>1. NoObject.consumption = 0
    BY DEF NoObject
  <2> QED
    BY <1>2, <2>1, Zenon DEF deletable
<1>6. \A n \in Names : /\ m_hash'[n].consumption = m_hash[n].consumption
                       /\ \A d \in Conns : Held(d, n)' = Held(d, n)
  BY <1>1, <1>5, HeldSame, Zenon
<1>7. \A n \in Names : Changes(n)
  BY <1>2, Zenon DEF Changes
<1>8. ~wrapped' => PeaksOK'
  BY <1>1, <1>7, PeakKept, Zenon
<1> QED
  BY <1>1, <1>3, <1>4, <1>6, <1>8, NothingMoves, Zenon

-----------------------------------------------------------------------------
(* Steps that give back and take *)

\* Connection c holds r less of n, and the object of n counts r less; or it is
\* missing or counts less than r, which happens only after a sum has wrapped.
LEMMA GiveBack ==
    ASSUME IInv, Observe, TypeOK', DrainOK', UNCHANGED now, ~thrown,
           NEW c \in Conns, NEW n \in Names, NEW r \in 0..(Mod - 1),
           Held(c, n)' = Held(c, n) - r, r <= Held(c, n),
           \A m \in Names : \A d \in Conns : m # n \/ d # c => Held(d, m)' = Held(d, m),
           NoZeros => NoZeros',
           NoZeros => Exists(n) \/ r > 0,
           \/ /\ Exists(n) /\ CanRelease(m_hash[n], r) /\ ~thrown'
              /\ m_hash' = [m_hash EXCEPT ![n] = release(m_hash[n], r)]
           \/ /\ ~(Exists(n) /\ CanRelease(m_hash[n], r))
              /\ thrown' /\ UNCHANGED m_hash
    PROVE  IInv'
<1>1. TypesOK' /\ (wrapped => wrapped')
  BY ObserveTypes
<1>2. m_acquired' \in [Conns -> Table]
  BY Zenon DEF TypeOK, Table, Mod
<1>3. \A m \in Names : m # n => HeldByAll(m)' = HeldByAll(m)
  BY HeldStays, Zenon
<1>4. /\ HeldByAll(n) \in Nat /\ Held(c, n) \in 0..(Mod - 1) /\ Held(c, n) <= HeldByAll(n)
      /\ HeldByAll(n)' = (HeldByAll(n) - Held(c, n)) + Held(c, n)'
  BY <1>2, HeldMoves, Zenon
<1> DEFINE h == HeldByAll(n)
           g == HeldByAll(n)'
           k == m_hash[n].consumption
<1>5. h \in Nat /\ g \in Nat /\ r \in Nat /\ r <= h /\ g = h - r
  BY <1>4, CounterAssumption
<1>6. /\ k = h % Mod
      /\ ~wrapped => NoZeros /\ h < Mod /\ k = h
  BY ExactFacts, Zenon
<1>7. ~wrapped => Exists(n) /\ CanRelease(m_hash[n], r)
  <2> SUFFICES ASSUME ~wrapped PROVE Exists(n) /\ r <= k
    BY Zenon DEF CanRelease
  <2>1. r <= k
    BY <1>5, <1>6
  <2>2. Exists(n) \/ r > 0
    BY <1>6, Zenon
  <2>3. ~Exists(n) => k = 0
    BY ObjectFacts, Zenon
  <2> QED
    BY <1>5, <2>1, <2>2, <2>3
<1>8. CASE thrown'
  <2>1. wrapped'
    BY <1>1, <1>7, <1>8, Zenon
  <2> QED
    BY <1>1, <1>8, <2>1, Zenon DEF IInv, SumsOK, ExactOK, PeaksOK
<1>9. CASE ~thrown'
  <2>1. /\ Exists(n) /\ CanRelease(m_hash[n], r)
        /\ m_hash' = [m_hash EXCEPT ![n] = release(m_hash[n], r)]
    BY <1>9, Zenon
  <2>2. /\ m_hash'[n] = release(m_hash[n], r)
        /\ \A m \in Names : m # n => m_hash'[m] = m_hash[m]
    BY <2>1, TypeFacts, Zenon
  <2>3. m_hash'[n].consumption = k - r
    <3>1. m_hash[n] \in Object
      BY <2>1, ObjectFacts, Zenon
    <3> QED
      BY <2>1, <2>2, <3>1, ReleaseFacts, Zenon
  <2>4. g % Mod = k - r
    <3>1. h \in Int /\ r \in Int /\ r \in 0..(h % Mod)
      <4>1. r <= k
        BY <2>1, Zenon DEF CanRelease
      <4>2. k \in Nat
        BY ObjectFacts, CounterAssumption
      <4> HIDE DEF h, k
      <4> QED
        BY <1>5, <1>6, <4>1, <4>2
    <3>2. (h - r) % Mod = (h % Mod) - r
      <4> HIDE DEF h
      <4> QED
        BY <3>1, ModSteps, Zenon
    <3> HIDE DEF h, k, g
    <3> QED
      BY <1>5, <1>6, <3>2, Zenon
  <2>5. SumsOK'
    <3> SUFFICES ASSUME NEW m \in Names PROVE (m_hash[m].consumption = HeldByAll(m) % Mod)'
      BY Zenon DEF SumsOK
    <3>1. m_hash[m].consumption = HeldByAll(m) % Mod
      BY ExactFacts, Zenon
    <3>2. m_hash'[m].consumption = HeldByAll(m)' % Mod
      BY <1>3, <2>2, <2>3, <2>4, <3>1, Zenon
    <3> QED
      BY <3>2, Zenon DEF Mod
  <2>6. ~wrapped' => NoZeros' /\ \A m \in Names : HeldByAll(m)' < Mod
    <3> SUFFICES ASSUME ~wrapped', NEW m \in Names
                 PROVE  NoZeros' /\ HeldByAll(m)' < Mod
      <4>1. Names # {}
        BY Zenon
      <4> QED
        BY <4>1, Zenon
    <3>1. ~wrapped
      BY <1>1, Zenon
    <3>2. NoZeros /\ HeldByAll(m) < Mod
      BY <3>1, ExactFacts, Zenon
    <3>3. g < Mod
      <4>1. Mod \in Nat /\ h < Mod
        BY <1>6, <3>1, CounterAssumption, Zenon
      <4> HIDE DEF h, g
      <4> QED
        BY <1>5, <4>1
    <3> QED
      BY <1>3, <3>2, <3>3, Zenon
  <2>7. ExactOK'
    BY <1>9, <2>6, Zenon DEF ExactOK, NoZeros, Mod
  <2>8. \A m \in Names : Changes(m)
    BY <2>1, <2>2, Zenon DEF Changes
  <2>9. PeaksOK'
    <3>1. CASE ~wrapped'
      BY <2>8, <3>1, PeakKept, Zenon
    <3>2. CASE wrapped'
      BY <3>2, Zenon DEF PeaksOK
    <3> QED
      BY <3>1, <3>2
  <2> QED
    BY <1>1, <2>5, <2>7, <2>9, Zenon DEF IInv
<1> QED
  BY <1>8, <1>9

\* b is table a with r less of n, and without n when nothing is left.
Reduced(a, b, n, r) ==
    /\ n \in DOMAIN a /\ r <= a[n] /\ a[n] \in 0..(Mod - 1)
    /\ b \in Table /\ DOMAIN b \subseteq DOMAIN a
    /\ \A m \in Names : m # n => /\ m \in DOMAIN b <=> m \in DOMAIN a
                                 /\ b[m] = a[m] \/ m \notin DOMAIN a
    /\ a[n] = r => n \notin DOMAIN b
    /\ a[n] # r => n \in DOMAIN b /\ b[n] = a[n] - r

\* The table after on_release.
LEMMA OnReleaseFacts ==
    ASSUME IInv, NEW c \in Conns, NEW n \in Names, NEW r \in 0..(Mod - 1),
           HasAcquired(c, n, r)
    PROVE  Reduced(m_acquired[c], on_release(c, n, r), n, r)
<1> DEFINE a == m_acquired[c]
           b == on_release(c, n, r)
<1>1. /\ n \in DOMAIN a /\ r <= a[n] /\ a \in [DOMAIN a -> 0..(Mod - 1)]
      /\ DOMAIN a \subseteq Names /\ a[n] \in 0..(Mod - 1)
  <2>1. a \in Table
    BY TypeFacts, Zenon
  <2> HIDE DEF a
  <2>2. a \in [DOMAIN a -> 0..(Mod - 1)] /\ DOMAIN a \subseteq Names
    BY <2>1, TableFacts, Zenon
  <2>3. n \in DOMAIN a /\ r <= a[n]
    BY Zenon DEF HasAcquired, a
  <2> QED
    BY <2>2, <2>3, Zenon
<1>2. b = IF a[n] = r THEN [x \in DOMAIN a \ {n} |-> a[x]] ELSE [a EXCEPT ![n] = a[n] - r]
  BY Zenon DEF on_release, Restrict
<1> SUFFICES Reduced(a, b, n, r)
  BY Zenon
<1> HIDE DEF a, b
<1>3. CASE a[n] = r
  <2>1. b = [x \in DOMAIN a \ {n} |-> a[x]]
    BY <1>2, <1>3, Zenon
  <2>2. DOMAIN b = DOMAIN a \ {n} /\ \A m \in DOMAIN b : b[m] = a[m]
    BY <2>1, Zenon
  <2>3. b = [x \in DOMAIN b |-> b[x]]
    BY <2>1, Zenon
  <2>4. b \in [DOMAIN b -> 0..(Mod - 1)]
    BY <1>1, <2>2, <2>3, Zenon
  <2>5. b \in Table
    BY <1>1, <2>2, <2>4, TableFacts, Zenon
  <2> QED
    BY <1>1, <1>3, <2>2, <2>5, Zenon DEF Reduced
<1>4. CASE a[n] # r
  <2>1. b = [a EXCEPT ![n] = a[n] - r]
    BY <1>2, <1>4, Zenon
  <2>2. DOMAIN b = DOMAIN a /\ b[n] = a[n] - r /\ \A m \in DOMAIN b : m # n => b[m] = a[m]
    BY <1>1, <2>1, Zenon
  <2>3. a[n] - r \in 0..(Mod - 1)
    BY <1>1, CounterAssumption
  <2>4. b \in [DOMAIN b -> 0..(Mod - 1)]
    BY <1>1, <2>1, <2>2, <2>3, Zenon
  <2>5. b \in Table
    BY <1>1, <2>2, <2>4, TableFacts, Zenon
  <2> QED
    BY <1>1, <1>4, <2>2, <2>5, Zenon DEF Reduced
<1> QED
  BY <1>3, <1>4

\* The objects keep their type when one of them is replaced.
LEMMA HashTypes ==
    ASSUME IInv, NEW n \in Names, NEW o \in Object, m_hash' = [m_hash EXCEPT ![n] = o]
    PROVE  /\ m_hash' \in [Names -> Object \cup {NoObject}] /\ m_hash'[n] = o
           /\ \A m \in Names : m # n => m_hash'[m] = m_hash[m]
BY TypeFacts, Zenon

\* Release.
LEMMA ReleasePreserves ==
    ASSUME IInv, Observe, NEW c \in Conns, NEW n \in Names, NEW r \in Releases[n],
           cmd_release(c, n, r)
    PROVE  IInv'
<1> DEFINE a == m_acquired[c]
           b == on_release(c, n, r)
<1>1. /\ ~draining[c] /\ ~thrown /\ Exists(n) /\ HasAcquired(c, n, r)
      /\ m_acquired' = [m_acquired EXCEPT ![c] = b]
      /\ UNCHANGED <<phase, todo, draining, now, gc, gcpos, m_last_gc>>
      /\ \/ /\ CanRelease(m_hash[n], r) /\ UNCHANGED thrown
            /\ m_hash' = [m_hash EXCEPT ![n] = release(m_hash[n], r)]
         \/ ~CanRelease(m_hash[n], r) /\ thrown' = TRUE /\ UNCHANGED m_hash
  BY Zenon DEF cmd_release, Serving, connVars, gcVars
<1>2. r \in 0..(Mod - 1)
  BY CounterAssumption, Zenon
<1>3. /\ n \in DOMAIN a /\ r <= a[n] /\ a[n] \in 0..(Mod - 1)
      /\ b \in Table /\ DOMAIN b \subseteq DOMAIN a
      /\ \A m \in Names : m # n => /\ m \in DOMAIN b <=> m \in DOMAIN a
                                   /\ b[m] = a[m] \/ m \notin DOMAIN a
      /\ a[n] = r => n \notin DOMAIN b
      /\ a[n] # r => n \in DOMAIN b /\ b[n] = a[n] - r
  <2>1. Reduced(a, b, n, r)
    BY <1>1, <1>2, OnReleaseFacts, Zenon
  <2> HIDE DEF a, b
  <2> QED
    BY <2>1, Zenon DEF Reduced
<1>4. /\ m_acquired' \in [Conns -> Table] /\ m_acquired'[c] = b
      /\ \A d \in Conns : d # c => m_acquired'[d] = m_acquired[d]
  BY <1>1, <1>3, TypeFacts, Zenon
<1> HIDE DEF b
<1>5. TypeOK'
  <2>1. m_hash' \in [Names -> Object \cup {NoObject}]
    <3>1. CASE UNCHANGED m_hash
      BY <3>1, TypeFacts, Zenon
    <3>2. CASE CanRelease(m_hash[n], r) /\ m_hash' = [m_hash EXCEPT ![n] = release(m_hash[n], r)]
      <4>1. m_hash[n] \in Object
        BY <1>1, ObjectFacts, Zenon
      <4>2. release(m_hash[n], r) \in Object
        BY <1>2, <3>2, <4>1, ReleaseFacts, Zenon
      <4> QED
        BY <3>2, <4>2, HashTypes, Zenon
    <3> QED
      BY <1>1, <3>1, <3>2, Zenon
  <2>2. thrown' \in BOOLEAN
    BY <1>1, TypeFacts, Zenon
  <2> QED
    BY <1>1, <1>4, <2>1, <2>2, Zenon DEF IInv, TypesOK, TypeOK, Object, NoObject, Table, Mod
<1>6. DrainOK'
  BY <1>1, <1>4, Zenon DEF IInv, DrainOK
<1>7. Held(c, n) = a[n] /\ Held(c, n)' = a[n] - r
  <2>1. Held(c, n) = a[n]
    BY <1>1, <1>3, Zenon DEF Held
  <2>2. Held(c, n)' = IF n \in DOMAIN b THEN b[n] ELSE 0
    BY <1>1, <1>4, Zenon DEF Held
  <2>3. a[n] = r => a[n] - r = 0
    BY <1>3
  <2>4. Held(c, n)' = a[n] - r
    <3>1. CASE a[n] = r
      BY <1>3, <2>2, <2>3, <3>1, Zenon
    <3>2. CASE a[n] # r
      BY <1>3, <2>2, <3>2, Zenon
    <3> QED
      BY <3>1, <3>2
  <2> QED
    BY <2>1, <2>4, Zenon
<1>8. ASSUME NEW m \in Names, NEW d \in Conns, m # n \/ d # c
      PROVE  Held(d, m)' = Held(d, m)
  <2>1. CASE d # c
    BY <1>1, <1>4, <2>1, HeldSame, Zenon
  <2>2. CASE d = c
    <3>1. m # n
      BY <1>8, <2>2, Zenon
    <3>2. Held(c, m)' = IF m \in DOMAIN b THEN b[m] ELSE 0
      BY <1>1, <1>4, Zenon DEF Held
    <3>3. Held(c, m) = IF m \in DOMAIN a THEN a[m] ELSE 0
      BY <1>1, Zenon DEF Held
    <3> QED
      BY <1>3, <2>2, <3>1, <3>2, <3>3, Zenon
  <2> QED
    BY <2>1, <2>2
<1>9. NoZeros => NoZeros'
  <2> SUFFICES ASSUME NoZeros, NEW d \in Conns, NEW m \in DOMAIN m_acquired'[d]
               PROVE  m_acquired'[d][m] > 0
    BY Zenon DEF NoZeros
  <2>1. CASE d # c
    BY <1>4, <2>1, Zenon DEF NoZeros
  <2>2. CASE d = c
    <3>1. m \in DOMAIN b /\ m_acquired'[d][m] = b[m] /\ m \in DOMAIN a
      BY <1>3, <1>4, <2>2, Zenon
    <3>2. CASE m = n
      <4>1. a[n] # r /\ b[n] = a[n] - r
        BY <1>3, <3>1, <3>2, Zenon
      <4>2. a[n] - r > 0
        BY <1>2, <1>3, <4>1
      <4> QED
        BY <3>1, <3>2, <4>1, <4>2, Zenon
    <3>3. CASE m # n
      <4>1. m \in Names
        BY <3>1, TypeFacts, TableFacts, Zenon
      <4> QED
        BY <1>3, <3>1, <3>3, <4>1, Zenon DEF NoZeros
    <3> QED
      BY <3>2, <3>3
  <2> QED
    BY <2>1, <2>2
<1>10. \/ /\ Exists(n) /\ CanRelease(m_hash[n], r) /\ ~thrown'
          /\ m_hash' = [m_hash EXCEPT ![n] = release(m_hash[n], r)]
       \/ /\ ~(Exists(n) /\ CanRelease(m_hash[n], r))
          /\ thrown' /\ UNCHANGED m_hash
  BY <1>1, Zenon
<1>11. Held(c, n)' = Held(c, n) - r /\ r <= Held(c, n)
  BY <1>3, <1>7, Zenon
<1> QED
  BY <1>1, <1>2, <1>5, <1>6, <1>8, <1>9, <1>10, <1>11, GiveBack, Zenon

\* One turn of the loop of release_all.
LEMMA ReleaseOnePreserves ==
    ASSUME IInv, Observe, NEW c \in Conns, NEW n \in Names, ReleaseOne(c, n)
    PROVE  IInv'
<1> DEFINE a == m_acquired[c]
           r == m_acquired[c][n]
<1>1. /\ ~thrown /\ draining[c] /\ n \in todo[c]
      /\ UNCHANGED <<m_acquired, phase, draining, now, gc, gcpos, m_last_gc>>
      /\ \/ /\ Exists(n) /\ CanRelease(m_hash[n], r) /\ UNCHANGED thrown
            /\ m_hash' = [m_hash EXCEPT ![n] = release(m_hash[n], r)]
            /\ todo' = [todo EXCEPT ![c] = todo[c] \ {n}]
         \/ /\ ~(Exists(n) /\ CanRelease(m_hash[n], r))
            /\ thrown' = TRUE /\ UNCHANGED <<m_hash, todo>>
  BY Zenon DEF ReleaseOne, gcVars
<1>2. n \in DOMAIN a /\ r \in 0..(Mod - 1)
  <2>1. n \in DOMAIN a
    BY <1>1, Zenon DEF IInv, DrainOK
  <2>2. a \in Table
    BY TypeFacts, Zenon
  <2> HIDE DEF a
  <2>3. a[n] \in 0..(Mod - 1)
    BY <2>1, <2>2, TableFacts, Zenon
  <2> QED
    BY <2>1, <2>3, Zenon DEF a
<1> HIDE DEF a, r
<1>3. \/ todo' = todo
      \/ /\ todo'[c] = todo[c] \ {n} /\ todo' = [todo EXCEPT ![c] = todo[c] \ {n}]
         /\ \A d \in Conns : d # c => todo'[d] = todo[d]
  BY <1>1, TypeFacts, Zenon
<1>4. TypeOK'
  <2>1. m_hash' \in [Names -> Object \cup {NoObject}]
    <3>1. CASE UNCHANGED m_hash
      BY <3>1, TypeFacts, Zenon
    <3>2. CASE /\ Exists(n) /\ CanRelease(m_hash[n], r)
               /\ m_hash' = [m_hash EXCEPT ![n] = release(m_hash[n], r)]
      <4>1. m_hash[n] \in Object
        BY <3>2, ObjectFacts, Zenon
      <4>2. release(m_hash[n], r) \in Object
        BY <1>2, <3>2, <4>1, ReleaseFacts, Zenon
      <4> QED
        BY <3>2, <4>2, HashTypes, Zenon
    <3> QED
      BY <1>1, <3>1, <3>2, Zenon
  <2>2. thrown' \in BOOLEAN
    BY <1>1, TypeFacts, Zenon
  <2>3. todo' \in [Conns -> SUBSET Names]
    <3>1. todo[c] \ {n} \in SUBSET Names
      BY TypeFacts, Zenon
    <3> QED
      BY <1>3, <3>1, TypeFacts, Zenon
  <2> QED
    BY <1>1, <2>1, <2>2, <2>3, Zenon DEF IInv, TypesOK, TypeOK, Object, NoObject, Table, Mod
<1>5. DrainOK'
  BY <1>1, <1>3, Zenon DEF IInv, DrainOK
<1>6. NoZeros => NoZeros' /\ r > 0
  BY <1>1, <1>2, Zenon DEF NoZeros, a, r
<1>7. CASE ~(Exists(n) /\ CanRelease(m_hash[n], r))
  <2>1. thrown' = TRUE
    BY <1>1, <1>7, Zenon
  <2>2. TypesOK' /\ (wrapped => wrapped')
    BY <1>4, ObserveTypes, Zenon
  <2>3. wrapped
    <3> SUFFICES ASSUME ~wrapped PROVE FALSE
      BY Zenon
    <3> DEFINE h == HeldByAll(n)
               k == m_hash[n].consumption
    <3>1. NoZeros /\ k = h
      BY ExactFacts, Zenon
    <3>2. r <= h
      <4>1. Held(c, n) = r
        BY <1>1, <1>2, Zenon DEF Held, a, r
      <4>2. Held(c, n) <= HeldByAll(n)
        BY TypeFacts, HeldFacts, TotalFacts, Zenon
      <4> QED
        BY <4>1, <4>2, Zenon
    <3>3. ~Exists(n) => k = 0
      BY ObjectFacts, Zenon
    <3>4. k \in Nat
      BY ObjectFacts
    <3>5. r <= k => CanRelease(m_hash[n], r)
      BY Zenon DEF CanRelease
    <3> HIDE DEF h, k
    <3> QED
      BY <1>2, <1>6, <1>7, <3>1, <3>2, <3>3, <3>4, <3>5
  <2> QED
    BY <1>5, <2>1, <2>2, <2>3, Zenon DEF IInv, SumsOK, ExactOK, PeaksOK
<1>8. CASE Exists(n) /\ CanRelease(m_hash[n], r)
  <2>1. /\ UNCHANGED thrown /\ m_hash' = [m_hash EXCEPT ![n] = release(m_hash[n], r)]
        /\ todo' = [todo EXCEPT ![c] = todo[c] \ {n}]
    BY <1>1, <1>8, Zenon
  <2>2. /\ todo'[c] = todo[c] \ {n}
        /\ \A d \in Conns : d # c => todo'[d] = todo[d]
    BY <2>1, TypeFacts, Zenon
  <2>3. Held(c, n) = r /\ Held(c, n)' = 0
    BY <1>1, <1>2, <2>2, Zenon DEF Held, a, r
  <2>4. Held(c, n)' = Held(c, n) - r /\ r <= Held(c, n)
    <3>1. r - r = 0 /\ r <= r
      BY <1>2
    <3> QED
      BY <2>3, <3>1, Zenon
  <2>5. ASSUME NEW m \in Names, NEW d \in Conns, m # n \/ d # c
        PROVE  Held(d, m)' = Held(d, m)
    <3>1. CASE d # c
      BY <1>1, <2>2, <3>1, HeldSame, Zenon
    <3>2. CASE d = c
      BY <1>1, <2>2, <2>5, <3>2, Zenon DEF Held
    <3> QED
      BY <3>1, <3>2
  <2>6. NoZeros => NoZeros'
    BY <1>6, Zenon
  <2>7. NoZeros => Exists(n) \/ r > 0
    BY <1>8, Zenon
  <2>8. \/ /\ Exists(n) /\ CanRelease(m_hash[n], r) /\ ~thrown'
           /\ m_hash' = [m_hash EXCEPT ![n] = release(m_hash[n], r)]
        \/ /\ ~(Exists(n) /\ CanRelease(m_hash[n], r))
           /\ thrown' /\ UNCHANGED m_hash
    BY <1>1, <1>8, <2>1, Zenon
  <2> QED
    BY <1>1, <1>2, <1>4, <1>5, <2>4, <2>5, <2>6, <2>7, <2>8, GiveBack, Zenon
<1> QED
  BY <1>7, <1>8

\* b is table a with r more of n, modulo 2^Width.
Raised(a, b, n, r) ==
    /\ b \in Table /\ DOMAIN b = DOMAIN a \cup {n}
    /\ \A m \in DOMAIN a : m # n => b[m] = a[m]
    /\ b[n] = ((IF n \in DOMAIN a THEN a[n] ELSE 0) + r) % Mod

\* The table after on_acquire.
LEMMA OnAcquireFacts ==
    ASSUME IInv, NEW c \in Conns, NEW n \in Names, NEW r \in 0..(Mod - 1)
    PROVE  Raised(m_acquired[c], on_acquire(c, n, r), n, r)
<1> DEFINE a == m_acquired[c]
           b == on_acquire(c, n, r)
<1>1. a \in [DOMAIN a -> 0..(Mod - 1)] /\ DOMAIN a \subseteq Names
  <2>1. a \in Table
    BY TypeFacts, Zenon
  <2> HIDE DEF a
  <2> QED
    BY <2>1, TableFacts, Zenon
<1>2. b = IF n \in DOMAIN a THEN [a EXCEPT ![n] = (a[n] + r) % Mod]
          ELSE [x \in DOMAIN a \cup {n} |-> IF x = n THEN r ELSE a[x]]
  BY Zenon DEF on_acquire
<1> SUFFICES Raised(a, b, n, r)
  BY Zenon
<1> HIDE DEF a, b
<1>3. CASE n \in DOMAIN a
  <2> DEFINE s == (a[n] + r) % Mod
  <2>1. s \in 0..(Mod - 1)
    <3>1. a[n] \in 0..(Mod - 1)
      BY <1>1, <1>3, Zenon
    <3>2. a[n] + r \in Int
      BY <3>1
    <3> QED
      BY <3>2, ModFacts, Zenon
  <2>2. b = [a EXCEPT ![n] = s]
    BY <1>2, <1>3, Zenon
  <2>3. (IF n \in DOMAIN a THEN a[n] ELSE 0) = a[n]
    BY <1>3, Zenon
  <2>4. ((IF n \in DOMAIN a THEN a[n] ELSE 0) + r) % Mod = s
    BY <2>3, Zenon
  <2> HIDE DEF s
  <2>5. DOMAIN b = DOMAIN a /\ b[n] = s /\ \A m \in DOMAIN a : m # n => b[m] = a[m]
    BY <1>1, <1>3, <2>2, Zenon
  <2>6. b \in [DOMAIN b -> 0..(Mod - 1)]
    BY <1>1, <2>1, <2>2, <2>5, Zenon
  <2>7. b \in Table
    BY <1>1, <2>5, <2>6, TableFacts, Zenon
  <2>8. DOMAIN b = DOMAIN a \cup {n}
    BY <1>3, <2>5, Zenon
  <2> QED
    BY <2>4, <2>5, <2>7, <2>8, Zenon DEF Raised
<1>4. CASE n \notin DOMAIN a
  <2>1. b = [x \in DOMAIN a \cup {n} |-> IF x = n THEN r ELSE a[x]]
    BY <1>2, <1>4, Zenon
  <2>2. DOMAIN b = DOMAIN a \cup {n} /\ b[n] = r /\ \A m \in DOMAIN a : m # n => b[m] = a[m]
    BY <1>1, <1>4, <2>1, Zenon
  <2>3. b \in [DOMAIN b -> 0..(Mod - 1)]
    <3>1. b = [x \in DOMAIN b |-> b[x]]
      BY <2>1, Zenon
    <3>2. \A x \in DOMAIN b : b[x] \in 0..(Mod - 1)
      BY <1>1, <2>2, Zenon
    <3> QED
      BY <3>1, <3>2, Zenon
  <2>4. b \in Table
    BY <1>1, <2>2, <2>3, TableFacts, Zenon
  <2>5. ((IF n \in DOMAIN a THEN a[n] ELSE 0) + r) % Mod = r
    <3>1. (IF n \in DOMAIN a THEN a[n] ELSE 0) = 0
      BY <1>4, Zenon
    <3>2. 0 + r = r
      OBVIOUS
    <3>3. r % Mod = r
      BY ModSmall, Zenon
    <3> QED
      BY <3>1, <3>2, <3>3, Zenon
  <2> QED
    BY <2>2, <2>4, <2>5, Zenon DEF Raised
<1> QED
  BY <1>3, <1>4

\* The object of n counts r more, modulo 2^Width, in a new or in an old object.
LEMMA HashAfterAcquire ==
    ASSUME IInv, NEW n \in Names, NEW r \in 1..(Mod - 1),
           m_hash' = [m_hash EXCEPT ![n] = IF Exists(n) THEN acquire(m_hash[n], r)
                                           ELSE NewObject(r)]
    PROVE  /\ m_hash' \in [Names -> Object \cup {NoObject}]
           /\ m_hash'[n].consumption = (m_hash[n].consumption + r) % Mod
           /\ \A m \in Names : m # n => m_hash'[m] = m_hash[m]
           /\ m_hash[n].consumption + r < Mod => Changes(n)
<1> DEFINE o == m_hash[n]
<1>1. r \in 0..(Mod - 1)
  BY CounterAssumption
<1>2. CASE Exists(n)
  <2>1. o \in Object
    BY <1>2, ObjectFacts, Zenon
  <2>2. m_hash' = [m_hash EXCEPT ![n] = acquire(o, r)]
    BY <1>2, Zenon
  <2>3. /\ acquire(o, r) \in Object
        /\ acquire(o, r).consumption = (o.consumption + r) % Mod
    BY <1>1, <2>1, AcquireFacts, Zenon
  <2>4. /\ m_hash' \in [Names -> Object \cup {NoObject}] /\ m_hash'[n] = acquire(o, r)
        /\ \A m \in Names : m # n => m_hash'[m] = m_hash[m]
    BY <2>2, <2>3, HashTypes, Zenon
  <2> QED
    BY <1>2, <2>3, <2>4, Zenon DEF Changes
<1>3. CASE ~Exists(n)
  <2>1. m_hash' = [m_hash EXCEPT ![n] = NewObject(r)]
    BY <1>3, Zenon
  <2>2. NewObject(r) \in Object /\ NewObject(r).consumption = r
    BY <1>1, NewObjectFacts, Zenon
  <2>3. /\ m_hash' \in [Names -> Object \cup {NoObject}] /\ m_hash'[n] = NewObject(r)
        /\ \A m \in Names : m # n => m_hash'[m] = m_hash[m]
    BY <2>1, <2>2, HashTypes, Zenon
  <2>4. (o.consumption + r) % Mod = r
    <3>1. o.consumption = 0
      BY <1>3, ObjectFacts, Zenon
    <3>2. 0 + r = r
      BY <1>1
    <3>3. r % Mod = r
      BY <1>1, ModSmall, Zenon
    <3> QED
      BY <3>1, <3>2, <3>3, Zenon
  <2> QED
    BY <1>3, <2>2, <2>3, <2>4, Zenon DEF Changes
<1> QED
  BY <1>2, <1>3

\* Acquire.
LEMMA AcquirePreserves ==
    ASSUME IInv, Observe, NEW c \in Conns, NEW n \in Names, NEW q \in Requests[n],
           cmd_acquire(c, n, q[1], q[2])
    PROVE  IInv'
<1> DEFINE r == q[1]
           a == m_acquired[c]
           b == on_acquire(c, n, r)
           k == m_hash[n].consumption
           h == HeldByAll(n)
           g == HeldByAll(n)'
           x == Held(c, n)
           y == Held(c, n)'
<1>1. /\ ~draining[c] /\ ~thrown
      /\ m_acquired' = [m_acquired EXCEPT ![c] = b]
      /\ m_hash' = [m_hash EXCEPT ![n] = IF Exists(n) THEN acquire(m_hash[n], r)
                                         ELSE NewObject(r)]
      /\ UNCHANGED <<phase, todo, draining, now, gc, gcpos, m_last_gc, thrown>>
  BY Zenon DEF cmd_acquire, Serving, connVars, gcVars
<1>2. r \in 1..(Mod - 1) /\ r \in 0..(Mod - 1)
  <2>1. q[2] \in 1..(Mod - 1) /\ r \in 1..q[2]
    BY CounterAssumption, Zenon
  <2> HIDE DEF r
  <2> QED
    BY <2>1, CounterAssumption
<1>3. ~wrapped' => ~wrapped /\ k + r < Mod
  <2>1. wrapped' = (wrapped \/ Wraps)
    BY Zenon DEF Observe
  <2>2. k + r >= Mod => Wraps
    BY Zenon DEF Wraps, Acquires
  <2>3. k \in Nat /\ Mod \in Nat /\ r \in Nat
    BY <1>2, ObjectFacts, CounterAssumption
  <2>4. k + r >= Mod \/ k + r < Mod
    <3> HIDE DEF k, r
    <3> QED
      BY <2>3
  <2> QED
    BY <2>1, <2>2, <2>4, Zenon
<1>4. Raised(a, b, n, r)
  BY <1>2, OnAcquireFacts, Zenon
<1>5. /\ m_hash' \in [Names -> Object \cup {NoObject}]
      /\ m_hash'[n].consumption = (k + r) % Mod
      /\ \A m \in Names : m # n => m_hash'[m] = m_hash[m]
      /\ k + r < Mod => Changes(n)
  BY <1>1, <1>2, HashAfterAcquire, Zenon
<1> HIDE DEF r
<1>6. /\ m_acquired' \in [Conns -> Table] /\ m_acquired'[c] = b
      /\ \A d \in Conns : d # c => m_acquired'[d] = m_acquired[d]
  BY <1>1, <1>4, TypeFacts, Zenon DEF Raised
<1>7. TypesOK' /\ (wrapped => wrapped')
  <2>1. TypeOK'
    BY <1>1, <1>5, <1>6, Zenon DEF IInv, TypesOK, TypeOK, Object, NoObject, Table, Mod
  <2> QED
    BY <2>1, ObserveTypes, Zenon
<1>8. DrainOK'
  BY <1>1, <1>6, Zenon DEF IInv, DrainOK
<1> HIDE DEF b
<1>9. ASSUME NEW m \in Names, NEW d \in Conns, m # n \/ d # c
      PROVE  Held(d, m)' = Held(d, m)
  <2>1. CASE d # c
    BY <1>1, <1>6, <2>1, HeldSame, Zenon
  <2>2. CASE d = c
    <3>1. m # n
      BY <1>9, <2>2, Zenon
    <3>2. Held(c, m)' = IF m \in DOMAIN b THEN b[m] ELSE 0
      BY <1>1, <1>6, Zenon DEF Held
    <3>3. Held(c, m) = IF m \in DOMAIN a THEN a[m] ELSE 0
      BY <1>1, Zenon DEF Held
    <3>4. (m \in DOMAIN b <=> m \in DOMAIN a) /\ (m \in DOMAIN a => b[m] = a[m])
      BY <1>4, <3>1, Zenon DEF Raised
    <3> QED
      BY <2>2, <3>2, <3>3, <3>4, Zenon
  <2> QED
    BY <2>1, <2>2
<1>10. y = (x + r) % Mod /\ y = b[n]
  <2>1. x = IF n \in DOMAIN a THEN a[n] ELSE 0
    BY <1>1, Zenon DEF Held
  <2>2. y = b[n]
    <3>1. n \in DOMAIN b
      BY <1>4, Zenon DEF Raised
    <3> QED
      BY <1>1, <1>6, <3>1, Zenon DEF Held
  <2>3. b[n] = ((IF n \in DOMAIN a THEN a[n] ELSE 0) + r) % Mod
    BY <1>4, Zenon DEF Raised
  <2> QED
    BY <2>1, <2>2, <2>3, Zenon
<1>11. \A m \in Names : m # n => HeldByAll(m)' = HeldByAll(m)
  BY <1>9, HeldStays, Zenon
<1>12. /\ h \in Nat /\ g \in Nat /\ x \in 0..(Mod - 1) /\ x <= h
       /\ g = (h - x) + y
  BY <1>6, <1>9, HeldMoves, Zenon
<1>13. k = h % Mod /\ (~wrapped => NoZeros /\ h < Mod /\ k = h)
  BY <1>1, ExactFacts, Zenon
<1>14. y = IF x + r < Mod THEN x + r ELSE (x + r) - Mod
  <2> HIDE DEF x, y
  <2> QED
    BY <1>2, <1>10, <1>12, ModSum, Zenon
<1>15. Mod \in Nat \ {0}
  BY CounterAssumption
<1>16. g % Mod = (k + r) % Mod
  <2> HIDE DEF x, y, g, h, k
  <2>1. ((h % Mod) + r) % Mod = (h + r) % Mod
    <3>1. h \in Int /\ r \in Int
      BY <1>2, <1>12
    <3> QED
      BY <3>1, ModSteps, Zenon
  <2> DEFINE s == h + r
  <2>2. s \in Int /\ (g = s \/ g = s - Mod)
    BY <1>2, <1>12, <1>14, <1>15
  <2>3. (k + r) % Mod = s % Mod
    BY <1>13, <2>1, Zenon
  <2> HIDE DEF s
  <2>4. (s - Mod) % Mod = s % Mod
    BY <2>2, ModMinus, Zenon
  <2> QED
    BY <2>2, <2>3, <2>4, Zenon
<1>17. SumsOK'
  <2> SUFFICES ASSUME NEW m \in Names PROVE (m_hash[m].consumption = HeldByAll(m) % Mod)'
    BY Zenon DEF SumsOK
  <2>1. m_hash[m].consumption = HeldByAll(m) % Mod
    BY <1>1, ExactFacts, Zenon
  <2>2. m_hash'[m].consumption = HeldByAll(m)' % Mod
    BY <1>5, <1>11, <1>16, <2>1, Zenon
  <2> QED
    BY <2>2, Zenon DEF Mod
<1>18. ASSUME ~wrapped'
       PROVE  NoZeros' /\ \A m \in Names : HeldByAll(m)' < Mod
  <2>1. ~wrapped /\ k + r < Mod /\ NoZeros /\ k = h
    BY <1>3, <1>13, <1>18, Zenon
  <2>2. g < Mod /\ y > 0
    <3> HIDE DEF x, y, g, h, k
    <3> QED
      BY <1>2, <1>12, <1>14, <1>15, <2>1
  <2>3. NoZeros'
    <3> SUFFICES ASSUME NEW d \in Conns, NEW m \in DOMAIN m_acquired'[d]
                 PROVE  m_acquired'[d][m] > 0
      BY Zenon DEF NoZeros
    <3>1. CASE d # c
      BY <1>6, <2>1, <3>1, Zenon DEF NoZeros
    <3>2. CASE d = c
      <4>1. m = n \/ (m \in DOMAIN a /\ b[m] = a[m])
        BY <1>4, <1>6, <3>2, Zenon DEF Raised
      <4> QED
        BY <1>6, <1>10, <2>1, <2>2, <3>2, <4>1, Zenon DEF NoZeros
    <3> QED
      BY <3>1, <3>2
  <2>4. ASSUME NEW m \in Names PROVE HeldByAll(m)' < Mod
    <3>1. HeldByAll(m) < Mod
      BY <2>1, ExactFacts, Zenon
    <3> QED
      BY <1>11, <2>2, <3>1, Zenon
  <2> QED
    BY <2>3, <2>4
<1>19. ExactOK'
  BY <1>1, <1>18, Zenon DEF ExactOK, NoZeros, Mod
<1>20. PeaksOK'
  <2>1. CASE ~wrapped'
    <3>1. \A m \in Names : Changes(m)
      BY <1>3, <1>5, <2>1, Zenon DEF Changes
    <3> QED
      BY <1>1, <2>1, <3>1, PeakKept, Zenon
  <2>2. CASE wrapped'
    BY <2>2, Zenon DEF PeaksOK
  <2> QED
    BY <2>1, <2>2
<1> QED
  BY <1>7, <1>8, <1>17, <1>19, <1>20, Zenon DEF IInv

-----------------------------------------------------------------------------
(* The invariant and the theorems *)

\* Initially no object exists and no table has an entry.
LEMMA InitIInv == InitPeak => IInv
<1> SUFFICES ASSUME InitPeak PROVE IInv
  OBVIOUS
<1>1. /\ m_hash = [n \in Names |-> NoObject] /\ m_acquired = [c \in Conns |-> EmptyMap]
      /\ phase = [c \in Conns |-> "free"] /\ todo = [c \in Conns |-> {}]
      /\ draining = [c \in Conns |-> FALSE] /\ now = StartTime
      /\ gc = "none" /\ gcpos = 1 /\ m_last_gc = 0 /\ thrown = FALSE
      /\ peak = [n \in Names |-> 0] /\ wrapped = FALSE
  BY Zenon DEF InitPeak, Init
<1>2. EmptyMap \in Table /\ DOMAIN EmptyMap = {}
  <2>1. DOMAIN EmptyMap = {} /\ EmptyMap = [n \in {} |-> 0]
    BY Zenon DEF EmptyMap
  <2>2. EmptyMap \in [DOMAIN EmptyMap -> 0..(Mod - 1)]
    BY <2>1, Zenon
  <2> QED
    BY <2>1, <2>2, TableFacts, Zenon
<1>3. TypesOK
  <2>1. /\ now \in 0..MaxTime /\ gcpos \in 1..(Buckets + 1) /\ m_last_gc \in 0..MaxTime
        /\ gc \in {"none", "running", "done"} /\ thrown \in BOOLEAN /\ wrapped \in BOOLEAN
        /\ 0 \in 0..(Mod - 1) /\ "free" \in Phases
    <3>1. 0 \in 0..MaxTime /\ 1 \in 1..(Buckets + 1) /\ 0 \in 0..(Mod - 1)
      BY CounterAssumption
    <3>2. now \in 0..MaxTime
      BY <1>1, CounterAssumption, Zenon
    <3> QED
      BY <1>1, <3>1, <3>2, Zenon DEF Phases
  <2>2. /\ m_hash \in [Names -> Object \cup {NoObject}]
        /\ m_acquired \in [Conns -> Table] /\ phase \in [Conns -> Phases]
        /\ todo \in [Conns -> SUBSET Names] /\ draining \in [Conns -> BOOLEAN]
        /\ peak \in [Names -> 0..(Mod - 1)]
    BY <1>1, <1>2, <2>1, Zenon
  <2> QED
    BY <2>1, <2>2, Zenon DEF TypesOK, TypeOK
<1>4. DrainOK
  BY <1>1, Zenon DEF DrainOK
<1>5. ASSUME NEW n \in Names PROVE HeldByAll(n) = 0
  <2>1. Units(n) = {}
    <3>1. \A c \in Conns : Held(c, n) = 0
      BY <1>1, <1>2, Zenon DEF Held
    <3>2. \A u \in Conns \X (1..Mod) : u[1] \in Conns /\ u[2] \in Nat /\ u[2] >= 1
      BY CounterAssumption
    <3>3. \A u \in Conns \X (1..Mod) : ~(u[2] <= 0)
      BY <3>2
    <3> QED
      BY <3>1, <3>2, <3>3, Zenon DEF Units
  <2> QED
    BY <2>1, FS_EmptySet, Zenon DEF HeldByAll
<1>6. 0 % Mod = 0 /\ 0 < Mod
  <2>1. 0 \in 0..(Mod - 1) /\ 0 < Mod
    BY CounterAssumption
  <2> QED
    BY <2>1, ModSmall, Zenon
<1>7. \A n \in Names : /\ m_hash[n].consumption = 0 /\ m_hash[n].max_consumption = 0
                       /\ m_hash[n].last_updated = -1
  BY <1>1 DEF NoObject
<1>8. SumsOK
  BY <1>5, <1>6, <1>7, Zenon DEF SumsOK
<1>9. ExactOK
  BY <1>1, <1>2, <1>5, <1>6, Zenon DEF ExactOK
<1>10. PeaksOK
  <2>1. -1 <= now /\ 0 <= 0
    BY <1>1, CounterAssumption
  <2>2. \A n \in Names : max_consumption(m_hash[n]) = 0 /\ peak[n] = 0
    BY <1>1, <1>7, Zenon DEF max_consumption
  <2> QED
    BY <1>7, <2>1, <2>2, Zenon DEF PeaksOK
<1> QED
  BY <1>3, <1>4, <1>8, <1>9, <1>10, Zenon DEF IInv

\* Every step preserves the invariant.
LEMMA IInvIsInductive == IInv /\ [NextHistory]_peakVars => IInv'
<1> SUFFICES ASSUME IInv, [NextHistory]_peakVars PROVE IInv'
  OBVIOUS
<1>1. CASE NextHistory
  <2>1. Next /\ Observe
    BY <1>1, Zenon DEF NextHistory
  <2>2. ASSUME NEW c \in Conns, Connection(c) PROVE IInv'
    <3>1. CASE make_counter_socket(c) \/ on_readable(c) \/ RecvAgain(c) \/ Hangup(c)
      BY <2>1, <3>1, PhasePreserves, Zenon
    <3>2. CASE RecvNone(c) \/ TooLarge(c) \/ RecvReset(c) \/ Destroy(c)
      BY <2>1, <3>2, StartPreserves, Zenon
    <3>3. CASE FinishReleaseAll(c)
      BY <2>1, <3>3, FinishPreserves, Zenon
    <3>4. ASSUME NEW n \in Names, NEW q \in Requests[n], cmd_acquire(c, n, q[1], q[2])
          PROVE  IInv'
      BY <2>1, <3>4, AcquirePreserves, Zenon
    <3>5. ASSUME NEW n \in Names, NEW r \in Releases[n], cmd_release(c, n, r) PROVE IInv'
      BY <2>1, <3>5, ReleasePreserves, Zenon
    <3>6. ASSUME NEW n \in Names, ReleaseOne(c, n) PROVE IInv'
      BY <2>1, <3>6, ReleaseOnePreserves, Zenon
    <3> QED
      BY <2>2, <3>1, <3>2, <3>3, <3>4, <3>5, <3>6, Zenon DEF Connection
  <2>3. ASSUME NEW t \in now..MaxTime, on_master_interval(t) PROVE IInv'
    BY <2>1, <2>3, IntervalPreserves, Zenon
  <2>4. CASE gc_bucket
    BY <2>1, <2>4, BucketPreserves, Zenon
  <2>5. CASE gc_end
    BY <2>1, <2>5, PhasePreserves, Zenon
  <2> QED
    BY <2>1, <2>2, <2>3, <2>4, <2>5, Zenon DEF Next
<1>2. CASE UNCHANGED peakVars
  <2>1. UNCHANGED <<m_hash, m_acquired, phase, todo, draining, now, gc, gcpos, m_last_gc,
                    thrown, peak, wrapped>>
    BY <1>2, Zenon DEF peakVars, vars
  <2>2. TypesOK'
    BY <2>1, Zenon DEF IInv, TypesOK, TypeOK, Object, NoObject, Table, Mod
  <2>3. DrainOK'
    BY <2>1, Zenon DEF IInv, DrainOK
  <2>4. \A n \in Names : HeldByAll(n)' = HeldByAll(n)
    BY <2>1, HeldSame, HeldStays, Zenon
  <2>5. SumsOK'
    BY <2>1, <2>4, Zenon DEF IInv, SumsOK, Mod
  <2>6. ExactOK'
    BY <2>1, <2>4, Zenon DEF IInv, ExactOK, Mod
  <2>7. PeaksOK'
    <3>1. \A n \in Names : max_consumption(m_hash[n])' = max_consumption(m_hash[n])
      BY <2>1, Zenon DEF max_consumption, Stale, nearest_boundary
    <3> QED
      BY <2>1, <3>1, Zenon DEF IInv, PeaksOK
  <2> QED
    BY <2>2, <2>3, <2>5, <2>6, <2>7, Zenon DEF IInv
<1> QED
  BY <1>1, <1>2

\* In all behaviours of the counter server, whatever the clients acquire and
\* release and whenever their connections end.
THEOREM Invariance == SpecHistory => []IInv
<1>1. InitPeak => IInv
  BY InitIInv
<1>2. IInv /\ [NextHistory]_peakVars => IInv'
  BY IInvIsInductive
<1> QED
  BY <1>1, <1>2, PTL DEF SpecHistory

\* What object::acquire and object::release count is what the connections hold,
\* modulo 2^Width; exactly so while no sum has wrapped, and then the GC thread
\* removes no object that a connection holds.
THEOREM ConservationHolds == SpecHistory => []Conservation
<1>1. IInv => Conservation
  <2> SUFFICES ASSUME IInv PROVE Conservation
    OBVIOUS
  <2>1. TypeOK
    BY Zenon DEF IInv, TypesOK
  <2>2. ASSUME ~thrown, NEW n \in Names
        PROVE  m_hash[n].consumption = HeldByAll(n) % Mod
    BY <2>2, ExactFacts, Zenon
  <2>3. ASSUME ~wrapped, NEW n \in Names PROVE HeldByAll(n) < Mod
    BY <2>3, ExactFacts, Zenon
  <2>4. ASSUME ~wrapped, NEW n \in Names, ~Exists(n), NEW c \in Conns,
               n \in DOMAIN m_acquired[c], ~draining[c]
        PROVE  FALSE
    <3> DEFINE h == HeldByAll(n)
               x == m_acquired[c][n]
    <3>1. h = 0
      <4>1. m_hash[n].consumption = 0
        BY <2>4, ObjectFacts, Zenon
      <4> QED
        BY <2>4, <4>1, ExactFacts, Zenon
    <3>2. x > 0
      BY <2>4, Zenon DEF IInv, ExactOK
    <3>3. x <= h /\ x \in 0..(Mod - 1)
      <4>1. Held(c, n) = x
        BY <2>4, Zenon DEF Held
      <4>2. Held(c, n) \in 0..(Mod - 1) /\ Held(c, n) <= HeldByAll(n)
        BY TypeFacts, HeldFacts, TotalFacts, Zenon
      <4> QED
        BY <4>1, <4>2, Zenon
    <3> HIDE DEF h, x
    <3> QED
      BY <3>1, <3>2, <3>3
  <2> QED
    BY <2>1, <2>2, <2>3, <2>4, Zenon DEF Conservation
<1> QED
  BY <1>1, Invariance, PTL

\* The logic_errors of counter_socket are reached only after the sum in
\* object::acquire has wrapped.
THEOREM ThrowNeedsOverflowHolds == SpecHistory => []ThrowNeedsOverflow
<1>1. IInv => ThrowNeedsOverflow
  BY Zenon DEF IInv, ExactOK, ThrowNeedsOverflow
<1> QED
  BY <1>1, Invariance, PTL

\* object::max_consumption, with its lazy resets, is the highest consumption of the
\* current interval.
THEOREM PeakIsExactHolds == SpecHistory => []PeakIsExact
<1>1. IInv => PeakIsExact
  BY Zenon DEF IInv, PeaksOK, PeakIsExact
<1> QED
  BY <1>1, Invariance, PTL

\* The bounded behaviours are among those the theorems are about.
THEOREM BoundIsARestriction == SpecPeak => SpecHistory
<1>1. [NextPeak]_peakVars => [NextHistory]_peakVars
  BY Zenon DEF NextPeak
<1> QED
  BY <1>1, PTL DEF SpecPeak, SpecHistory
=============================================================================
