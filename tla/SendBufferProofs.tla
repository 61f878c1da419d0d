-------------------------- MODULE SendBufferProofs --------------------------
(***************************************************************************)
(* Proofs, for any number of workers, sizes and number of buffers, lengths *)
(* of messages and room in the kernel: buffers are conserved, no sender    *)
(* misses its wakeup, queued data are watched, and the peer gets whole     *)
(* messages.                                                               *)
(***************************************************************************)
EXTENDS SendBuffer, WellFoundedInduction, TLAPS

Buffers == [data : Seq(Bytes), sent : Nat]

(***************************************************************************)
(* Numbers and sequences.                                                  *)
(***************************************************************************)

\* Induction over the set of the numbers for which a fact holds.
LEMMA NatSetInduction ==
    ASSUME NEW S, 0 \in S, \A n \in Nat : n \in S => n + 1 \in S
    PROVE  Nat \subseteq S
<1> DEFINE T == Nat \ S
           R == OpToRel(<, Nat)
<1>1. SUFFICES ASSUME T # {} PROVE FALSE  OBVIOUS
<1>2. IsWellFoundedOn(R, Nat)  BY NatLessThanWellFounded
<1>3. PICK x \in T : \A y \in T : ~ (<<y, x>> \in R)
  <2> HIDE DEF R
  <2> QED  BY <1>1, <1>2, WFMin, Zenon
<1>4. x - 1 \in Nat /\ x - 1 \notin T
  <2>1. x - 1 \in Nat /\ x - 1 < x  OBVIOUS
  <2>2. <<x - 1, x>> \in R  BY DEF OpToRel
  <2> QED  BY <1>3, <2>1, <2>2
<1>5. x \in S  BY <1>4
<1> QED  BY <1>5

\* The elements that follow.
LEMMA DropFacts ==
    ASSUME NEW S, NEW s \in Seq(S), NEW n \in 0..Len(s)
    PROVE  /\ Drop(s, n) \in Seq(S) /\ Len(Drop(s, n)) = Len(s) - n
           /\ \A i \in 1..(Len(s) - n) : Drop(s, n)[i] = s[n + i]
BY DEF Drop

\* Both together.
LEMMA CutFacts ==
    ASSUME NEW S, NEW s \in Seq(S), NEW n \in 0..Len(s)
    PROVE  SubSeq(s, 1, n) \o Drop(s, n) = s
<1>1. ASSUME NEW k \in 0..Len(s), NEW m \in k..Len(s)
      PROVE  SubSeq(s, 1, k) \o SubSeq(s, k + 1, m) = SubSeq(s, 1, m)
  OBVIOUS
<1>2. SubSeq(s, 1, Len(s)) = s /\ Len(s) \in n..Len(s)  OBVIOUS
<1>3. SubSeq(s, 1, n) \o SubSeq(s, n + 1, Len(s)) = SubSeq(s, 1, Len(s))
  BY <1>1, <1>2, Zenon
<1> QED  BY <1>2, <1>3, Zenon DEF Drop

\* Nothing or all is cut off.
LEMMA CutAtEnds ==
    ASSUME NEW S, NEW s \in Seq(S)
    PROVE  /\ SubSeq(s, 1, 0) = <<>> /\ Drop(s, 0) = s
           /\ SubSeq(s, 1, Len(s)) = s /\ Drop(s, Len(s)) = <<>>
           /\ \A n \in 0..Len(s) : Drop(s, n) = <<>> => n = Len(s)
<1>1. SubSeq(s, 1, 0) = <<>> /\ SubSeq(s, 1, Len(s)) = s  OBVIOUS
<1>2. Drop(s, 0) = s /\ Drop(s, Len(s)) = <<>>  BY DEF Drop
<1>3. \A n \in 0..Len(s) : Drop(s, n) = <<>> => n = Len(s)  BY DEF Drop
<1> QED  BY <1>1, <1>2, <1>3, Zenon

-----------------------------------------------------------------------------
(* What is unsent in the buffers *)

\* g lists what is unsent in the first buffers of p.
IsUpto(g, p, n) == g = [i \in 0..n |-> IF i = 0 THEN <<>> ELSE g[i - 1] \o Rest(p[i])]

\* The same, without the domain of g.
Follows(g, p, n) == g[0] = <<>> /\ \A i \in 1..n : g[i] = g[i - 1] \o Rest(p[i])

\* Nothing is unsent in no buffers, and one more buffer adds what is unsent in it.
LEMMA UnsentUnfolds ==
    /\ Unsent(<<>>) = <<>>
    /\ \A p \in Seq(Buffers), b \in Buffers :
           Unsent(Append(p, b)) = Unsent(p) \o Rest(b)
\* The list can be made, one buffer after the other.
<1>UptoExists. ASSUME NEW p, NEW k \in Nat
               PROVE  \E g : IsUpto(g, p, k)
  <2> DEFINE S == {n \in Nat : \E g : IsUpto(g, p, n)}
  <2>1. 0 \in S
    <3>1. [i \in 0..0 |-> <<>>] = [i \in 0..0 |-> IF i = 0 THEN <<>> ELSE
                                     [j \in 0..0 |-> <<>>][i - 1] \o Rest(p[i])]
      OBVIOUS
    <3>2. \E g : IsUpto(g, p, 0)  BY <3>1, Zenon DEF IsUpto
    <3> QED  BY <3>2
  <2>2. ASSUME NEW n \in Nat, n \in S PROVE n + 1 \in S
    <3> SUFFICES \E g : IsUpto(g, p, n + 1)  OBVIOUS
    <3>1. PICK g : g = [i \in 0..n |-> IF i = 0 THEN <<>> ELSE g[i - 1] \o Rest(p[i])]
      BY <2>2, Zenon DEF IsUpto
    <3> DEFINE f == [i \in 0..(n + 1) |-> IF i = n + 1 THEN g[n] \o Rest(p[n + 1]) ELSE g[i]]
    <3>2. \A i \in 0..n : g[i] = IF i = 0 THEN <<>> ELSE g[i - 1] \o Rest(p[i])
      BY <3>1, Zenon
    <3>3. \A i \in 0..(n + 1) : f[i] = IF i = 0 THEN <<>> ELSE f[i - 1] \o Rest(p[i])
      <4> SUFFICES ASSUME NEW i \in 0..(n + 1)
                   PROVE  f[i] = IF i = 0 THEN <<>> ELSE f[i - 1] \o Rest(p[i])
        BY Zenon
      <4>1. CASE i = n + 1
        <5>1. i # 0 /\ i - 1 = n /\ n \in 0..(n + 1) /\ n # n + 1  BY <4>1
        <5>2. f[i] = g[n] \o Rest(p[n + 1]) /\ f[n] = g[n]  BY <4>1, <5>1, Zenon
        <5> HIDE DEF f
        <5> QED  BY <4>1, <5>1, <5>2, Zenon
      <4>2. CASE i # n + 1
        <5>1. i \in 0..n /\ f[i] = g[i]  BY <4>2
        <5>2. i # 0 => f[i - 1] = g[i - 1]  OBVIOUS
        <5> HIDE DEF f
        <5> QED  BY <3>2, <5>1, <5>2
      <4> QED  BY <4>1, <4>2
    <3>4. f = [i \in 0..(n + 1) |-> f[i]]  OBVIOUS
    <3>5. IsUpto(f, p, n + 1)
      <4> HIDE DEF f
      <4> QED  BY <3>3, <3>4, Zenon DEF IsUpto
    <3> HIDE DEF f
    <3> QED  BY <3>5
  <2>3. Nat \subseteq S
    <3> HIDE DEF S
    <3> QED  BY <2>1, <2>2, NatSetInduction
  <2> QED  BY <2>3
\* Two lists agree.
<1>UptoIsUnique. ASSUME NEW f, NEW g, NEW p, NEW n \in Nat, Follows(f, p, n),
                        Follows(g, p, n)
                 PROVE  f[n] = g[n]
  <2> USE <1>UptoIsUnique
  <2> DEFINE S == {m \in Nat : m <= n => f[m] = g[m]}
  <2>1. 0 \in S  BY DEF Follows
  <2>2. ASSUME NEW m \in Nat, m \in S PROVE m + 1 \in S
    <3> SUFFICES ASSUME m + 1 <= n PROVE f[m + 1] = g[m + 1]  OBVIOUS
    <3>1. m + 1 \in 1..n /\ (m + 1) - 1 = m /\ m <= n  OBVIOUS
    <3>2. f[m] = g[m]  BY <2>2
    <3>3. f[m + 1] = f[m] \o Rest(p[m + 1]) /\ g[m + 1] = g[m] \o Rest(p[m + 1])
      BY <3>1, Zenon DEF Follows
    <3> QED  BY <3>2, <3>3
  <2>3. Nat \subseteq S
    <3> HIDE DEF S
    <3> QED  BY <2>1, <2>2, NatSetInduction
  <2> QED  BY <2>3
\* Unsent(p) ends such a list.
<1>UnsentFollows. ASSUME NEW p, Len(p) \in Nat
                  PROVE  \E g : Follows(g, p, Len(p)) /\ Unsent(p) = g[Len(p)]
  <2> USE <1>UnsentFollows
  <2> DEFINE F == CHOOSE g : IsUpto(g, p, Len(p))
  <2>1. IsUpto(F, p, Len(p))  BY <1>UptoExists, Zenon
  <2>2. Unsent(p) = F[Len(p)]  BY DEF Unsent, IsUpto
  <2> HIDE DEF F
  <2>3. \A i \in 0..Len(p) : F[i] = IF i = 0 THEN <<>> ELSE F[i - 1] \o Rest(p[i])
    BY <2>1, Zenon DEF IsUpto
  <2>4. 0 \in 0..Len(p) /\ \A i \in 1..Len(p) : i \in 0..Len(p) /\ i # 0  OBVIOUS
  <2>5. Follows(F, p, Len(p))  BY <2>3, <2>4, Zenon DEF Follows
  <2> QED  BY <2>2, <2>5
\* Nothing is unsent in no buffers.
<1>UnsentEmpty. Unsent(<<>>) = <<>>
  <2>1. PICK g : Follows(g, <<>>, 0) /\ Unsent(<<>>) = g[0]  BY <1>UnsentFollows
  <2> QED  BY <2>1 DEF Follows
\* One more buffer.
<1>UnsentAppend. ASSUME NEW p \in Seq(Buffers), NEW b \in Buffers
                 PROVE  Unsent(Append(p, b)) = Unsent(p) \o Rest(b)
  <2> DEFINE q == Append(p, b)
  <2>1. /\ Len(p) \in Nat /\ Len(q) = Len(p) + 1 /\ Len(q) \in Nat /\ Len(q) \in 1..Len(q)
        /\ Len(q) - 1 = Len(p) /\ q[Len(q)] = b
        /\ \A i \in 1..Len(p) : q[i] = p[i] /\ i \in 1..Len(q)
    OBVIOUS
  <2> HIDE DEF q
  <2>2. PICK g : Follows(g, q, Len(q)) /\ Unsent(q) = g[Len(q)]  BY <2>1, <1>UnsentFollows, Zenon
  <2>3. PICK f : Follows(f, p, Len(p)) /\ Unsent(p) = f[Len(p)]  BY <1>UnsentFollows
  <2>4. Follows(g, p, Len(p))  BY <2>1, <2>2, Zenon DEF Follows
  <2>5. g[Len(p)] = Unsent(p)  BY <2>1, <2>3, <2>4, <1>UptoIsUnique
  <2>6. g[Len(q)] = g[Len(p)] \o Rest(b)  BY <2>1, <2>2, Zenon DEF Follows
  <2> QED  BY <2>2, <2>5, <2>6 DEF q
<1> QED  BY <1>UnsentEmpty, <1>UnsentAppend, Zenon

\* What is unsent in a buffer.
LEMMA RestFacts ==
    ASSUME NEW b \in Buffers
    PROVE  /\ Rest(b) \in Seq(Bytes)
           /\ b.sent <= Len(b.data) => Len(Rest(b)) = Len(b.data) - b.sent
<1>1. b.data \in Seq(Bytes) /\ b.sent \in Nat /\ Len(b.data) \in Nat  BY DEF Buffers
<1>2. CASE b.sent <= Len(b.data)
  <2>1. b.sent \in 0..Len(b.data)  BY <1>1, <1>2
  <2>2. /\ Drop(b.data, b.sent) \in Seq(Bytes)
        /\ Len(Drop(b.data, b.sent)) = Len(b.data) - b.sent
    BY <1>1, <2>1, DropFacts, Zenon
  <2> QED  BY <2>2 DEF Rest
<1>3. CASE ~(b.sent <= Len(b.data))
  <2>1. SubSeq(b.data, b.sent + 1, Len(b.data)) = <<>>
    <3>1. Len(b.data) < b.sent + 1 /\ b.sent + 1 \in Int /\ Len(b.data) \in Int  BY <1>1, <1>3
    <3> QED  BY <3>1
  <2>2. Rest(b) = <<>> /\ <<>> \in Seq(Bytes)  BY <2>1 DEF Rest, Drop
  <2> QED  BY <1>3, <2>2
<1> QED  BY <1>2, <1>3

\* What is unsent is bytes.
LEMMA UnsentType ==
    ASSUME NEW p \in Seq(Buffers)
    PROVE  Unsent(p) \in Seq(Bytes) /\ Len(Unsent(p)) \in Nat
<1> DEFINE S == {n \in Nat : \A r \in Seq(Buffers) : Len(r) = n => Unsent(r) \in Seq(Bytes)}
<1>1. 0 \in S
  <2> SUFFICES ASSUME NEW r \in Seq(Buffers), Len(r) = 0 PROVE Unsent(r) \in Seq(Bytes)
    OBVIOUS
  <2>1. r = <<>> /\ <<>> \in Seq(Bytes)  OBVIOUS
  <2> QED  BY <2>1, UnsentUnfolds, Zenon
<1>2. ASSUME NEW n \in Nat, n \in S PROVE n + 1 \in S
  <2> SUFFICES ASSUME NEW r \in Seq(Buffers), Len(r) = n + 1 PROVE Unsent(r) \in Seq(Bytes)
    OBVIOUS
  <2> DEFINE f == SubSeq(r, 1, Len(r) - 1)
             b == r[Len(r)]
  <2>1. f \in Seq(Buffers) /\ b \in Buffers /\ r = Append(f, b)  OBVIOUS
  <2> HIDE DEF f, b
  <2>2. Unsent(f) \in Seq(Bytes)
    <3>1. \A x \in Seq(Buffers) : Len(x) = n => Unsent(x) \in Seq(Bytes)  BY <1>2
    <3> QED  BY <2>1, <3>1
  <2>3. Unsent(r) = Unsent(f) \o Rest(b)  BY <2>1, UnsentUnfolds, Zenon
  <2>4. Rest(b) \in Seq(Bytes)  BY <2>1, RestFacts
  <2> QED  BY <2>2, <2>3, <2>4
<1>3. Nat \subseteq S
  <2> HIDE DEF S
  <2> QED  BY <1>1, <1>2, NatSetInduction, Zenon
<1>4. Unsent(p) \in Seq(Bytes)  BY <1>3
<1> QED  BY <1>4

\* What the list of buffers is like: no buffer has been sent completely, none
\* is larger than a buffer, and all but the last are full.
Sound(p) ==
    \A i \in 1..Len(p) : /\ p[i].sent < Len(p[i].data) /\ Len(p[i].data) <= SendBufSize
                         /\ i < Len(p) => Len(p[i].data) = SendBufSize

-----------------------------------------------------------------------------
(* Filling the buffers *)

\* How many buffers hold the bytes s.
Needed(s) == (Len(s) + SendBufSize - 1) \div SendBufSize

\* What becomes of the buffers when bytes are sent and when data is queued.
LEMMA ListFacts ==
    /\ \A p \in Seq(Buffers) :
           \A n \in 0..Len(Unsent(p)) :
               LET k == Completed(p, n)
               IN  /\ k \in 0..Len(p)
                   /\ Len(Unsent(SubSeq(p, 1, k))) <= n
                   /\ k < Len(p) => n < Len(Unsent(SubSeq(p, 1, k + 1)))
    /\ \A p \in Seq(Buffers) :
           Sound(p) =>
               \A n \in 0..Len(Unsent(p)) :
                   /\ Advance(p, n) \in Seq(Buffers) /\ Sound(Advance(p, n))
                   /\ Len(Advance(p, n)) \in 0..Len(p)
                   /\ Unsent(Advance(p, n)) = Drop(Unsent(p), n)
    /\ \A p \in Seq(Buffers) :
           Sound(p) =>
               \A s \in Seq(Bytes) :
                   LET f == Fill(p, s)
                       new == Len(f) - Len(p)
                   IN  /\ f \in Seq(Buffers) /\ Sound(f) /\ new \in Nat
                       /\ Unsent(f) = Unsent(p) \o s
                       /\ p # <<>> => /\ f # <<>>
                                      /\ RoomInLast(f) = RoomInLast(p) + new * SendBufSize - Len(s)
                       /\ \A F \in Nat : Len(s) <= F * SendBufSize + RoomInLast(p) => new <= F
\* Sequences with the same elements.
<1>SeqEqual. ASSUME NEW S, NEW s \in Seq(S), NEW t \in Seq(S), Len(s) = Len(t),
                    \A i \in 1..Len(s) : s[i] = t[i]
             PROVE  s = t
  BY <1>SeqEqual
\* Two sequences in a row.
<1>ConcatProperties. ASSUME NEW S, NEW s \in Seq(S), NEW t \in Seq(S)
                     PROVE  s \o t \in Seq(S) /\ Len(s \o t) = Len(s) + Len(t)
  OBVIOUS
\* Parts of a sequence that follow each other.
<1>AdjacentParts. ASSUME NEW S, NEW s \in Seq(S), NEW k \in 0..Len(s),
                         NEW n \in k..Len(s)
                  PROVE  SubSeq(s, 1, k) \o SubSeq(s, k + 1, n) = SubSeq(s, 1, n)
  OBVIOUS
\* The first n elements of a sequence.
<1>PrefixFacts. ASSUME NEW S, NEW s \in Seq(S), NEW n \in 0..Len(s)
                PROVE  /\ SubSeq(s, 1, n) \in Seq(S) /\ Len(SubSeq(s, 1, n)) = n
                       /\ \A i \in 1..n : SubSeq(s, 1, n)[i] = s[i]
  OBVIOUS
\* A sequence made of two can be cut where the first ends.
<1>CutBetween. ASSUME NEW S, NEW s \in Seq(S), NEW t \in Seq(S)
               PROVE  SubSeq(s \o t, 1, Len(s)) = s /\ Drop(s \o t, Len(s)) = t
  BY DEF Drop
\* A cut in the first of two sequences.
<1>CutInFirst. ASSUME NEW S, NEW s \in Seq(S), NEW t \in Seq(S), NEW n \in 0..Len(s)
               PROVE  /\ SubSeq(s \o t, 1, n) = SubSeq(s, 1, n)
                      /\ Drop(s \o t, n) = Drop(s, n) \o t
  <2> DEFINE a == SubSeq(s, 1, n)
             b == Drop(s, n)
  <2>1. a \in Seq(S) /\ Len(a) = n  OBVIOUS
  <2>2. b \in Seq(S)  BY DropFacts
  <2>3. s = a \o b  BY CutFacts
  <2> HIDE DEF a, b
  <2>4. (a \o b) \o t = a \o (b \o t)
    BY <2>1, SMT
  <2>5. b \o t \in Seq(S)  BY <2>2
  <2>6. SubSeq(a \o (b \o t), 1, n) = a /\ Drop(a \o (b \o t), n) = b \o t
    BY <2>1, <2>5, <1>CutBetween, Zenon
  <2> QED  BY <2>3, <2>4, <2>6, Zenon DEF a, b
\* The prefix that is longer by one.
<1>PrefixAppend. ASSUME NEW S, NEW s \in Seq(S), NEW k \in Nat, k + 1 <= Len(s)
                 PROVE  SubSeq(s, 1, k + 1) = Append(SubSeq(s, 1, k), s[k + 1])
  BY <1>PrefixAppend
\* Buffers one behind the other.
<1>UnsentConcat. ASSUME NEW p \in Seq(Buffers), NEW q \in Seq(Buffers)
                 PROVE  Unsent(p \o q) = Unsent(p) \o Unsent(q)
  <2> DEFINE S == {n \in Nat : \A r \in Seq(Buffers) :
                      Len(r) = n => Unsent(p \o r) = Unsent(p) \o Unsent(r)}
  <2>1. 0 \in S
    <3> SUFFICES ASSUME NEW r \in Seq(Buffers), Len(r) = 0
                 PROVE  Unsent(p \o r) = Unsent(p) \o Unsent(r)
      OBVIOUS
    <3>1. r = <<>>  OBVIOUS
    <3>2. Unsent(p) \in Seq(Bytes) /\ p \o <<>> = p  BY UnsentType
    <3> QED  BY <3>1, <3>2, UnsentUnfolds
  <2>2. ASSUME NEW n \in Nat, n \in S PROVE n + 1 \in S
    <3> SUFFICES ASSUME NEW r \in Seq(Buffers), Len(r) = n + 1
                 PROVE  Unsent(p \o r) = Unsent(p) \o Unsent(r)
      OBVIOUS
    <3> DEFINE f == SubSeq(r, 1, Len(r) - 1)
               b == r[Len(r)]
    <3>1. f \in Seq(Buffers) /\ b \in Buffers /\ r = Append(f, b)  OBVIOUS
    <3> HIDE DEF f, b
    <3>2. Len(f) = n  BY <3>1
    <3>3. p \o r = Append(p \o f, b) /\ p \o f \in Seq(Buffers)
      <4>1. Append(f, b) = f \o <<b>> /\ <<b>> \in Seq(Buffers)  BY <3>1
      <4>2. p \o f \in Seq(Buffers)  BY <3>1
      <4>3. Append(p \o f, b) = (p \o f) \o <<b>>  OBVIOUS
      <4>4. p \o (f \o <<b>>) = (p \o f) \o <<b>>
        BY SMT
      <4> QED  BY <3>1, <4>1, <4>2, <4>3, <4>4
    <3>4. Unsent(p \o r) = Unsent(p \o f) \o Rest(b)  BY <3>1, <3>3, UnsentUnfolds, Zenon
    <3>5. Unsent(p \o f) = Unsent(p) \o Unsent(f)  BY <2>2, <3>1, <3>2
    <3>6. Unsent(r) = Unsent(f) \o Rest(b)  BY <3>1, UnsentUnfolds, Zenon
    <3>7. (Unsent(p) \o Unsent(f)) \o Rest(b) = Unsent(p) \o (Unsent(f) \o Rest(b))
      BY ONLY SMTT(60)
    <3> QED  BY <3>4, <3>5, <3>6, <3>7
  <2>3. Nat \subseteq S
    <3> HIDE DEF S
    <3> QED  BY <2>1, <2>2, NatSetInduction, Zenon
  <2> QED  BY <2>3
\* Completed exists.
<1>CompletedFacts. ASSUME NEW p \in Seq(Buffers), NEW n \in 0..Len(Unsent(p))
                   PROVE  LET k == Completed(p, n)
                          IN  /\ k \in 0..Len(p)
                              /\ Len(Unsent(SubSeq(p, 1, k))) <= n
                              /\ k < Len(p) => n < Len(Unsent(SubSeq(p, 1, k + 1)))
  <2> DEFINE size(k) == Len(Unsent(SubSeq(p, 1, k)))
             ok(k) == size(k) <= n /\ (k < Len(p) => n < size(k + 1))
  <2>1. Len(p) \in Nat /\ Len(Unsent(p)) \in Nat /\ n \in Nat  OBVIOUS
  <2>2. \A k \in 0..Len(p) : size(k) \in Nat  OBVIOUS
  <2>3. size(0) = 0
    <3>1. SubSeq(p, 1, 0) = <<>> /\ Len(<<>>) = 0  OBVIOUS
    <3> QED  BY <3>1, UnsentUnfolds, Zenon
  <2> HIDE DEF size
  <2>4. \E k \in 0..Len(p) : ok(k)
    <3> SUFFICES ASSUME \A k \in 0..Len(p) : ~ok(k) PROVE FALSE  OBVIOUS
    <3> DEFINE S == {k \in Nat : k <= Len(p) => size(k) <= n}
    <3>1. 0 \in S  BY <2>3
    <3>2. ASSUME NEW k \in Nat, k \in S PROVE k + 1 \in S
      <4> SUFFICES ASSUME k + 1 <= Len(p) PROVE size(k + 1) <= n  OBVIOUS
      <4>1. k \in 0..Len(p) /\ k + 1 \in 0..Len(p) /\ k < Len(p) /\ size(k) <= n  BY <3>2
      <4> QED  BY <2>1, <2>2, <4>1
    <3>3. Nat \subseteq S
      <4> HIDE DEF S
      <4> QED  BY <3>1, <3>2, NatSetInduction, Zenon
    <3>4. size(Len(p)) <= n /\ Len(p) \in 0..Len(p) /\ ~(Len(p) < Len(p))  BY <3>3
    <3> QED  BY <3>4
  <2>5. Completed(p, n) = CHOOSE k \in 0..Len(p) : ok(k)  BY DEF Completed, size
  <2> HIDE DEF ok
  <2>6. Completed(p, n) \in 0..Len(p) /\ ok(Completed(p, n))  BY <2>4, <2>5
  <2> QED  BY <2>6 DEF ok, size
\* Advance takes n bytes from the front of what is unsent.
<1>AdvanceFacts. \A p \in Seq(Buffers) :
          Sound(p) =>
              \A n \in 0..Len(Unsent(p)) :
                  /\ Advance(p, n) \in Seq(Buffers) /\ Sound(Advance(p, n))
                  /\ Len(Advance(p, n)) \in 0..Len(p)
                  /\ Unsent(Advance(p, n)) = Drop(Unsent(p), n)
  \* A cut in the second of two sequences.
  <2>CutInSecond. ASSUME NEW S, NEW s \in Seq(S), NEW t \in Seq(S), NEW n \in 0..Len(t)
                  PROVE  /\ SubSeq(s \o t, 1, Len(s) + n) = s \o SubSeq(t, 1, n)
                         /\ Drop(s \o t, Len(s) + n) = Drop(t, n)
    BY DEF Drop
  \* One buffer.
  <2>UnsentOne. ASSUME NEW b \in Buffers
                PROVE  <<b>> \in Seq(Buffers) /\ Unsent(<<b>>) = Rest(b)
    <3>1. <<>> \in Seq(Buffers) /\ Append(<<>>, b) = <<b>> /\ <<b>> \in Seq(Buffers)  OBVIOUS
    <3>2. Unsent(<<b>>) = <<>> \o Rest(b)  BY <3>1, UnsentUnfolds, Zenon
    <3> QED  BY <3>1, <3>2
  \* The buffers before and after the k-th.
  <2>UnsentCut. ASSUME NEW p \in Seq(Buffers), NEW k \in 0..Len(p)
                PROVE  /\ SubSeq(p, 1, k) \in Seq(Buffers) /\ Drop(p, k) \in Seq(Buffers)
                       /\ Unsent(p) = Unsent(SubSeq(p, 1, k)) \o Unsent(Drop(p, k))
                       /\ Unsent(SubSeq(p, 1, k)) \in Seq(Bytes) /\ Unsent(Drop(p, k)) \in Seq(Bytes)
                       /\ Len(Unsent(SubSeq(p, 1, k))) \in Nat
    <3> DEFINE a == SubSeq(p, 1, k)
               b == Drop(p, k)
    <3>1. a \in Seq(Buffers)  OBVIOUS
    <3>2. b \in Seq(Buffers)  BY DropFacts
    <3>3. p = a \o b  BY CutFacts
    <3> HIDE DEF a, b
    <3>4. Unsent(a \o b) = Unsent(a) \o Unsent(b)  BY <3>1, <3>2, <1>UnsentConcat, Zenon
    <3>5. Unsent(a) \in Seq(Bytes) /\ Unsent(b) \in Seq(Bytes) /\ Len(Unsent(a)) \in Nat
      BY <3>1, <3>2, UnsentType
    <3> QED  BY <3>1, <3>2, <3>3, <3>4, <3>5, Zenon DEF a, b
  \* Sending part of a buffer.
  <2>RestOfPart. ASSUME NEW b \in Buffers, NEW m \in Nat, b.sent + m < Len(b.data)
                 PROVE  LET c == [b EXCEPT !.sent = @ + m]
                        IN  /\ c \in Buffers /\ c.data = b.data /\ c.sent = b.sent + m
                            /\ m \in 0..Len(Rest(b)) /\ Rest(c) = Drop(Rest(b), m)
    <3> USE <2>RestOfPart
    <3> DEFINE c == [b EXCEPT !.sent = @ + m]
               d == b.data
               x == SubSeq(d, 1, b.sent)
               y == Drop(d, b.sent)
    <3>1. d \in Seq(Bytes) /\ b.sent \in Nat /\ Len(d) \in Nat  BY DEF Buffers
    <3>2. b.sent \in 0..Len(d) /\ m \in 0..(Len(d) - b.sent)  BY <3>1
    <3>3. c \in Buffers /\ c.data = d /\ c.sent = b.sent + m  BY DEF Buffers
    <3> HIDE DEF c, d
    <3>4. x \in Seq(Bytes) /\ Len(x) = b.sent  BY <3>1, <3>2, <1>PrefixFacts
    <3>5. y \in Seq(Bytes) /\ Len(y) = Len(d) - b.sent  BY <3>1, <3>2, DropFacts, Zenon
    <3>6. x \o y = d  BY <3>1, <3>2, CutFacts, Zenon
    <3>7. Rest(b) = y /\ Rest(c) = Drop(d, b.sent + m)  BY <3>3 DEF Rest, d
    <3> HIDE DEF x, y
    <3>8. m \in 0..Len(y)  BY <3>2, <3>5
    <3>9. Drop(x \o y, Len(x) + m) = Drop(y, m)  BY <3>4, <3>5, <3>8, <2>CutInSecond, Zenon
    <3> QED  BY <3>3, <3>4, <3>6, <3>7, <3>8, <3>9 DEF c, d
  <2> SUFFICES ASSUME NEW p \in Seq(Buffers), Sound(p), NEW n \in 0..Len(Unsent(p))
               PROVE  /\ Advance(p, n) \in Seq(Buffers) /\ Sound(Advance(p, n))
                      /\ Len(Advance(p, n)) \in 0..Len(p)
                      /\ Unsent(Advance(p, n)) = Drop(Unsent(p), n)
    OBVIOUS
  <2> DEFINE k == Completed(p, n)
             a == SubSeq(p, 1, k)
             m == n - Len(Unsent(a))
             A == [i \in 1..(Len(p) - k) |->
                      IF i = 1 THEN [p[k + 1] EXCEPT !.sent = @ + m] ELSE p[k + i]]
  <2>1. Advance(p, n) = A  BY DEF Advance
  <2>2. /\ k \in 0..Len(p) /\ Len(Unsent(a)) <= n
        /\ k < Len(p) => n < Len(Unsent(SubSeq(p, 1, k + 1)))
    BY <1>CompletedFacts
  <2> HIDE DEF k
  <2>3. Len(p) \in Nat /\ k \in Nat /\ Unsent(p) \in Seq(Bytes) /\ Len(Unsent(p)) \in Nat /\ n \in Nat
    BY <2>2, UnsentType
  <2>4. CASE k = Len(p)
    <3>1. a = p  BY <2>4
    <3>2. n = Len(Unsent(p))
      <4>1. Len(Unsent(p)) <= n  BY <2>2, <3>1, Zenon
      <4> QED  BY <4>1
    <3>3. Drop(Unsent(p), n) = <<>>  BY <2>3, <3>2, CutAtEnds
    <3>4. 1..(Len(p) - k) = {}  BY <2>4
    <3>5. A = <<>>
      <4>1. A \in [1..0 -> {}]  BY <3>4
      <4> HIDE DEF A
      <4>2. A \in Seq({}) /\ Len(A) = 0  BY <4>1
      <4> QED  BY <4>2
    <3>6. <<>> \in Seq(Buffers) /\ Len(<<>>) \in 0..Len(p) /\ Sound(<<>>)  BY DEF Sound
    <3> HIDE DEF A
    <3> QED  BY <2>1, <3>3, <3>5, <3>6, UnsentUnfolds
  <2>5. CASE k # Len(p)
    <3> DEFINE b == p[k + 1]
               c == [b EXCEPT !.sent = @ + m]
               r == Drop(p, k + 1)
               u == Unsent(a)
               v == Rest(b)
               w == Unsent(r)
    <3>1. k < Len(p) /\ k + 1 \in 1..Len(p) /\ k + 1 \in 0..Len(p)  BY <2>2, <2>5
    <3>2. b \in Buffers /\ b.sent < Len(b.data) /\ Len(b.data) <= SendBufSize  BY <3>1 DEF Sound
    <3>3. b.sent \in Nat /\ Len(b.data) \in Nat  BY <3>2 DEF Buffers
    <3>4. a \in Seq(Buffers) /\ u \in Seq(Bytes) /\ Len(u) \in Nat  BY <2>2, <2>UnsentCut
    <3>5. v \in Seq(Bytes) /\ Len(v) = Len(b.data) - b.sent
      <4>1. b.sent <= Len(b.data)  BY <3>2, <3>3
      <4> QED  BY <3>2, <4>1, RestFacts, Zenon
    <3>6. r \in Seq(Buffers) /\ w \in Seq(Bytes)  BY <3>1, <2>UnsentCut
    <3>7. SubSeq(p, 1, k + 1) = Append(a, b)
      <4>1. k + 1 <= Len(p)  BY <3>1
      <4> QED  BY <2>3, <4>1, <1>PrefixAppend, Zenon
    <3>8. Unsent(SubSeq(p, 1, k + 1)) = u \o v  BY <3>2, <3>4, <3>7, UnsentUnfolds, Zenon
    <3>9. m \in Nat /\ b.sent + m < Len(b.data) /\ Len(u) + m = n
      <4>1. n < Len(u \o v)  BY <2>2, <3>1, <3>8, Zenon
      <4>2. n < Len(u) + Len(v) /\ Len(u) <= n  BY <2>2, <4>1
      <4>3. m = n - Len(u)  OBVIOUS
      <4> HIDE DEF u, v, m, b
      <4> QED  BY <2>3, <3>3, <3>4, <3>5, <4>2, <4>3
    <3>10. /\ c \in Buffers /\ c.data = b.data /\ c.sent = b.sent + m
           /\ m \in 0..Len(v) /\ Rest(c) = Drop(v, m)
      <4> HIDE DEF m, b
      <4> QED  BY <3>2, <3>9, <2>RestOfPart, Zenon
    <3>11. Drop(Unsent(p), n) = Rest(c) \o w
      <4>1. Unsent(p) = (u \o v) \o w  BY <3>1, <3>8, <2>UnsentCut, Zenon
      <4> HIDE DEF u, v, w, m, b, c
      <4>2. u \o v \in Seq(Bytes) /\ Len(u \o v) = Len(u) + Len(v)
        BY <3>4, <3>5, <1>ConcatProperties, Zenon
      <4>3. n \in 0..(Len(u) + Len(v)) /\ n = Len(u) + m  BY <3>4, <3>5, <3>9, <3>10
      <4> DEFINE x == u \o v
      <4> HIDE DEF x
      <4>4. x \in Seq(Bytes) /\ n \in 0..Len(x)  BY <4>2, <4>3 DEF x
      <4>5. Drop(x \o w, n) = Drop(x, n) \o w  BY <3>6, <4>4, <1>CutInFirst, Zenon
      <4>6. Drop(u \o v, Len(u) + m) = Drop(v, m)  BY <3>4, <3>5, <3>10, <2>CutInSecond
      <4> QED  BY <3>10, <4>1, <4>3, <4>5, <4>6, Zenon DEF x
    <3>12. A \in Seq(Buffers) /\ Len(A) = Len(p) - k /\ Len(p) - k \in Nat \ {0}
           /\ A[1] = c /\ \A i \in 2..Len(A) : A[i] = p[k + i] /\ k + i \in 1..Len(p)
      <4>1. Len(p) - k \in Nat \ {0} /\ \A i \in 1..(Len(p) - k) : k + i \in 1..Len(p)
        BY <2>3, <3>1
      <4> HIDE DEF c, m
      <4>2. A = [i \in 1..(Len(p) - k) |-> IF i = 1 THEN c ELSE p[k + i]]  BY DEF c
      <4> HIDE DEF A
      <4>3. A \in [1..(Len(p) - k) -> Buffers]  BY <3>10, <4>1, <4>2
      <4>4. A \in Seq(Buffers) /\ Len(A) = Len(p) - k  BY <4>1, <4>3
      <4> QED  BY <4>1, <4>2, <4>4
    <3>13. A = <<c>> \o r
      <4>1. /\ r \in Seq(Buffers) /\ Len(r) = Len(p) - (k + 1)
            /\ \A i \in 1..(Len(p) - (k + 1)) : r[i] = p[(k + 1) + i]
        BY <3>1, DropFacts, Zenon
      <4> DEFINE x == <<c>> \o r
      <4> HIDE DEF c, r, A
      <4>2. /\ x \in Seq(Buffers) /\ Len(x) = 1 + Len(r) /\ x[1] = c
            /\ \A i \in 2..(1 + Len(r)) : x[i] = r[i - 1]
        BY <3>10, <4>1
      <4> HIDE DEF x
      <4>3. Len(x) = Len(A) /\ \A i \in 2..Len(A) : i - 1 \in 1..(Len(p) - (k + 1))
                                                    /\ (k + 1) + (i - 1) = k + i
        BY <2>3, <3>12, <4>1, <4>2
      <4>4. \A i \in 2..Len(A) : x[i] = A[i]
        <5> SUFFICES ASSUME NEW i \in 2..Len(A) PROVE x[i] = A[i]  OBVIOUS
        <5>1. x[i] = r[i - 1]  BY <4>2, <4>3
        <5>2. r[i - 1] = p[(k + 1) + (i - 1)]  BY <4>1, <4>3, Zenon
        <5> QED  BY <3>12, <4>3, <5>1, <5>2, Zenon
      <4>5. \A i \in 1..Len(A) : i = 1 \/ i \in 2..Len(A)  OBVIOUS
      <4>6. \A i \in 1..Len(A) : x[i] = A[i]  BY <3>12, <4>2, <4>4, <4>5
      <4> QED  BY <3>12, <4>2, <4>3, <4>6, <1>SeqEqual, Zenon DEF x
    <3>14. Unsent(A) = Rest(c) \o w
      <4> HIDE DEF A, c, r
      <4>1. <<c>> \in Seq(Buffers) /\ Unsent(<<c>>) = Rest(c)  BY <3>10, <2>UnsentOne
      <4>2. Unsent(<<c>> \o r) = Unsent(<<c>>) \o Unsent(r)  BY <3>6, <4>1, <1>UnsentConcat, Zenon
      <4> QED  BY <3>13, <4>1, <4>2, Zenon
    <3>15. Sound(A)
      <4> SUFFICES ASSUME NEW i \in 1..Len(A)
                   PROVE  /\ A[i].sent < Len(A[i].data) /\ Len(A[i].data) <= SendBufSize
                          /\ i < Len(A) => Len(A[i].data) = SendBufSize
        BY Zenon DEF Sound
      <4>1. k + i \in 1..Len(p) /\ (i < Len(A) => k + i < Len(p))
        <5> HIDE DEF A
        <5> QED  BY <2>3, <3>12
      <4> DEFINE d == p[k + i]
      <4>2. /\ d.sent < Len(d.data) /\ Len(d.data) <= SendBufSize
            /\ k + i < Len(p) => Len(d.data) = SendBufSize
        BY <4>1, Zenon DEF Sound
      <4>3. CASE i = 1
        <5>1. d = b /\ A[i] = c  BY <3>12, <4>3
        <5> HIDE DEF A, c, b, m, d
        <5> QED  BY <3>9, <3>10, <4>1, <4>2, <5>1
      <4>4. CASE i # 1
        <5> HIDE DEF A, c, b, m
        <5>1. i \in 2..Len(A)  BY <4>4
        <5>2. A[i] = d  BY <3>12, <5>1
        <5> HIDE DEF d
        <5> QED  BY <4>1, <4>2, <5>2
      <4> QED  BY <4>3, <4>4, Zenon
    <3>16. Len(A) \in 0..Len(p)
      <4> HIDE DEF A
      <4> QED  BY <2>3, <3>12
    <3> HIDE DEF A
    <3> QED  BY <2>1, <3>11, <3>12, <3>14, <3>15, <3>16
  <2> QED  BY <2>4, <2>5
\* Fill puts s behind what is unsent.  The new buffers are not more than the
\* free ones if s is not longer than the capacity, and the capacity shrinks
\* by the length of s.
<1>FillFacts. \A p \in Seq(Buffers) :
          Sound(p) =>
              \A s \in Seq(Bytes) :
                  LET f == Fill(p, s)
                      new == Len(f) - Len(p)
                  IN  /\ f \in Seq(Buffers) /\ Sound(f) /\ new \in Nat
                      /\ Unsent(f) = Unsent(p) \o s
                      /\ p # <<>> => /\ f # <<>>
                                     /\ RoomInLast(f) = RoomInLast(p) + new * SendBufSize - Len(s)
                      /\ \A F \in Nat : Len(s) <= F * SendBufSize + RoomInLast(p) => new <= F
  \* How many buffers of SendBufSize bytes a bytes need.
  <2>DivisionFacts. ASSUME NEW a \in Nat
                    PROVE  LET q == (a + SendBufSize - 1) \div SendBufSize
                           IN  /\ q \in Nat /\ a <= q * SendBufSize
                               /\ a > 0 => (q - 1) * SendBufSize < a
                               /\ a = 0 => q = 0
    BY SendBufferAssumption
  \* Multiples of SendBufSize.
  <2>MultipleFacts. ASSUME NEW i \in Int
                    PROVE  /\ i * SendBufSize \in Int
                           /\ (i + 1) * SendBufSize = i * SendBufSize + SendBufSize
                           /\ (i - 1) * SendBufSize = i * SendBufSize - SendBufSize
                           /\ \A j \in Int : i < j => i * SendBufSize + SendBufSize <= j * SendBufSize
                           /\ i >= 0 => i * SendBufSize >= 0
    BY SendBufferAssumption
  \* The last buffer and the others.
  <2>LastFacts. ASSUME NEW p \in Seq(Buffers), p # <<>>
                PROVE  /\ Len(p) \in Nat \ {0} /\ Len(p) - 1 \in 0..Len(p)
                       /\ SubSeq(p, 1, Len(p) - 1) \in Seq(Buffers) /\ p[Len(p)] \in Buffers
                       /\ p = Append(SubSeq(p, 1, Len(p) - 1), p[Len(p)])
    <3> USE <2>LastFacts
    <3> DEFINE front == SubSeq(p, 1, Len(p) - 1)
    <3>1. Len(p) \in Nat \ {0} /\ Len(p) - 1 \in 0..Len(p) /\ p[Len(p)] \in Buffers  OBVIOUS
    <3>2. /\ front \in Seq(Buffers) /\ Len(front) = Len(p) - 1
          /\ \A i \in 1..(Len(p) - 1) : front[i] = p[i]
      BY <3>1, <1>PrefixFacts, Zenon
    <3> HIDE DEF front
    <3>3. p = Append(front, p[Len(p)])  BY <3>1, <3>2
    <3> QED  BY <3>1, <3>2, <3>3, Zenon DEF front
  \* The i-th of the new buffers.
  <2>ChunkFacts. ASSUME NEW s \in Seq(Bytes), NEW i \in 1..Needed(s)
                 PROVE  LET lo == (i - 1) * SendBufSize
                            hi == MinOf(i * SendBufSize, Len(s))
                        IN  /\ lo \in Nat /\ hi \in Nat /\ lo < hi /\ hi <= Len(s)
                            /\ hi - lo <= SendBufSize
                            /\ i < Needed(s) => hi = i * SendBufSize /\ hi - lo = SendBufSize
                            /\ i = Needed(s) => hi = Len(s)
                            /\ SubSeq(s, lo + 1, hi) \in Seq(Bytes)
                            /\ Len(SubSeq(s, lo + 1, hi)) = hi - lo
    <3> DEFINE B == SendBufSize
               L == Len(s)
               q == Needed(s)
               lo == (i - 1) * B
               ib == i * B
               hi == MinOf(ib, L)
               qb == (q - 1) * B
    <3>1. L \in Nat /\ B \in Nat \ {0}  BY SendBufferAssumption
    <3>2. q \in Nat /\ L <= q * B /\ (L > 0 => qb < L) /\ (L = 0 => q = 0)
      BY <3>1 DEF Needed
    <3> HIDE DEF q
    <3>3. i \in Nat \ {0} /\ i <= q  BY DEF q
    <3>4. i \in Int /\ q \in Int /\ q - 1 \in Int /\ i - 1 \in Int /\ i - 1 >= 0  BY <3>2
    <3>5. /\ ib \in Int /\ (i - 1) * B = ib - B
          /\ \A j \in Int : i < j => ib + B <= j * B
      BY <2>MultipleFacts
    <3>6. lo >= 0  BY <2>MultipleFacts
    <3>7. q * B \in Int /\ qb = q * B - B  BY <3>4, <2>MultipleFacts, Zenon
    <3>8. L > 0 /\ qb < L  BY <3>1, <3>2, <3>3
    <3>9. lo = ib - B /\ (i < q => ib + B <= q * B) /\ (i = q => ib = q * B)  BY <3>4, <3>5
    <3> HIDE DEF L, B, lo, ib, qb
    <3>10. /\ lo \in Nat /\ hi \in Nat /\ lo < hi /\ hi <= L /\ hi - lo <= B
           /\ i < q => hi = ib /\ hi - lo = B
           /\ i = q => hi = L
      <4> DEFINE qB == q * B
      <4>1. qB \in Int /\ qb = qB - B /\ (i < q => ib + B <= qB) /\ (i = q => ib = qB) /\ L <= qB
        BY <3>2, <3>7, <3>9
      <4> HIDE DEF qB
      <4>2. ib \in Int /\ lo = ib - B  BY <3>5, <3>9
      <4>3. hi = IF ib < L THEN ib ELSE L  BY DEF MinOf
      <4> HIDE DEF hi
      <4>4. i < q \/ i = q  BY <3>2, <3>3
      <4> QED  BY ONLY <3>1, <3>6, <3>8, <4>1, <4>2, <4>3, <4>4
    <3> HIDE DEF hi
    <3>11. SubSeq(s, lo + 1, hi) \in Seq(Bytes) /\ Len(SubSeq(s, lo + 1, hi)) = hi - lo
      <4>1. lo + 1 \in Int /\ hi \in Int /\ lo + 1 <= hi /\ \A j \in (lo + 1)..hi : j \in 1..L
        BY <3>1, <3>10
      <4>2. \A j \in (lo + 1)..hi : s[j] \in Bytes  BY <4>1 DEF L
      <4>3. /\ SubSeq(s, lo + 1, hi) \in Seq(Bytes)
            /\ Len(SubSeq(s, lo + 1, hi)) = IF lo + 1 <= hi THEN hi - (lo + 1) + 1 ELSE 0
        BY <3>1, <4>1, <4>2
      <4>4. Len(SubSeq(s, lo + 1, hi)) = hi - (lo + 1) + 1  BY <4>1
      <4>5. hi - (lo + 1) + 1 = hi - lo  BY <3>10
      <4> QED  BY <4>3, <4>4, <4>5
    <3> QED  BY <3>10, <3>11 DEF q, hi, lo, ib, B, L
  \* New buffers hold s, all full but the last.
  <2>FreshFacts. ASSUME NEW s \in Seq(Bytes)
                 PROVE  /\ Fresh(s) \in Seq(Buffers) /\ Len(Fresh(s)) = Needed(s) /\ Needed(s) \in Nat
                        /\ Sound(Fresh(s)) /\ Unsent(Fresh(s)) = s
                        /\ Needed(s) > 0 => Len(Fresh(s)[Needed(s)].data)
                                              = Len(s) - (Needed(s) - 1) * SendBufSize
    <3> DEFINE q == Needed(s)
               F == Fresh(s)
               lo(i) == (i - 1) * SendBufSize
               hi(i) == MinOf(i * SendBufSize, Len(s))
               part(i) == SubSeq(s, lo(i) + 1, hi(i))
    <3>1. F = [i \in 1..q |-> [data |-> part(i), sent |-> 0]]  BY DEF Fresh, Needed
    <3>2. Len(s) \in Nat /\ SendBufSize \in Nat \ {0}  BY SendBufferAssumption
    <3>3. q \in Nat /\ (Len(s) > 0 => (q - 1) * SendBufSize < Len(s)) /\ (Len(s) = 0 => q = 0)
      BY <3>2 DEF Needed
    <3> HIDE DEF q, F
    <3>4. \A i \in 1..q :
             /\ lo(i) \in Nat /\ hi(i) \in Nat /\ lo(i) < hi(i) /\ hi(i) <= Len(s)
             /\ hi(i) - lo(i) <= SendBufSize
             /\ i < q => hi(i) = i * SendBufSize /\ hi(i) - lo(i) = SendBufSize
             /\ i = q => hi(i) = Len(s)
             /\ part(i) \in Seq(Bytes) /\ Len(part(i)) = hi(i) - lo(i)
      BY <2>ChunkFacts, Zenon DEF q
    <3>5. \A i \in 1..q : F[i] = [data |-> part(i), sent |-> 0]  BY <3>1
    <3> HIDE DEF lo, hi, part
    <3>6. \A i \in 1..q : F[i] \in Buffers /\ F[i].data = part(i) /\ F[i].sent = 0
      <4> SUFFICES ASSUME NEW i \in 1..q
                   PROVE  F[i] \in Buffers /\ F[i].data = part(i) /\ F[i].sent = 0
        OBVIOUS
      <4>1. F[i] = [data |-> part(i), sent |-> 0] /\ part(i) \in Seq(Bytes)  BY <3>4, <3>5
      <4> QED  BY <4>1 DEF Buffers
    <3>7. F \in Seq(Buffers) /\ Len(F) = q
      <4>1. F \in [1..q -> Buffers]
        <5>1. F = [i \in 1..q |-> F[i]]  BY <3>1
        <5> QED  BY <3>6, <5>1
      <4> QED  BY <3>3, <4>1
    <3>8. Sound(F)
      <4> SUFFICES ASSUME NEW i \in 1..q
                   PROVE  /\ F[i].sent < Len(F[i].data) /\ Len(F[i].data) <= SendBufSize
                          /\ i < q => Len(F[i].data) = SendBufSize
        BY <3>7 DEF Sound
      <4>1. F[i].data = part(i) /\ F[i].sent = 0  BY <3>6
      <4>2. /\ lo(i) \in Nat /\ hi(i) \in Nat /\ lo(i) < hi(i)
            /\ hi(i) - lo(i) <= SendBufSize /\ (i < q => hi(i) - lo(i) = SendBufSize)
            /\ Len(part(i)) = hi(i) - lo(i)
        BY <3>4
      <4> QED  BY <4>1, <4>2
    <3>9. q > 0 => Len(F[q].data) = Len(s) - (q - 1) * SendBufSize
      <4> SUFFICES ASSUME q > 0 PROVE Len(F[q].data) = Len(s) - (q - 1) * SendBufSize  OBVIOUS
      <4>1. q \in 1..q  BY <3>3
      <4>2. F[q].data = part(q) /\ Len(part(q)) = hi(q) - lo(q) /\ hi(q) = Len(s)
        BY <3>4, <3>6, <4>1, Zenon
      <4> QED  BY <4>2 DEF lo
    <3>10. Unsent(F) = s
      <4> DEFINE S == {i \in Nat : i <= q => Unsent(SubSeq(F, 1, i)) = SubSeq(s, 1, hi(i))}
      <4>1. 0 \in S
        <5>1. hi(0) = 0  BY <3>2 DEF hi, MinOf
        <5>2. SubSeq(F, 1, 0) = <<>>  OBVIOUS
        <5>3. SubSeq(s, 1, 0) = <<>>  OBVIOUS
        <5>4. Unsent(SubSeq(F, 1, 0)) = SubSeq(s, 1, hi(0))  BY <5>1, <5>2, <5>3, UnsentUnfolds, Zenon
        <5> QED  BY <5>4
      <4>2. ASSUME NEW i \in Nat, i \in S PROVE i + 1 \in S
        <5> SUFFICES ASSUME i + 1 <= q PROVE Unsent(SubSeq(F, 1, i + 1)) = SubSeq(s, 1, hi(i + 1))
          OBVIOUS
        <5> DEFINE a == SubSeq(F, 1, i)
        <5>1. i + 1 \in 1..q /\ i \in 0..Len(F) /\ i + 1 <= Len(F) /\ i <= q  BY <3>7
        <5>2. Unsent(a) = SubSeq(s, 1, hi(i))  BY <4>2, <5>1
        <5>3. a \in Seq(Buffers)  BY <3>7, <5>1, <1>PrefixFacts, Zenon
        <5>4. SubSeq(F, 1, i + 1) = Append(a, F[i + 1])  BY <3>7, <1>PrefixAppend, Zenon
        <5> HIDE DEF a
        <5>5. Unsent(SubSeq(F, 1, i + 1)) = Unsent(a) \o Rest(F[i + 1])
          BY <3>6, <5>1, <5>3, <5>4, UnsentUnfolds, Zenon
        <5>6. Rest(F[i + 1]) = part(i + 1)
          <6>1. F[i + 1].data = part(i + 1) /\ F[i + 1].sent = 0 /\ part(i + 1) \in Seq(Bytes)
            BY <3>4, <3>6, <5>1, Zenon
          <6> QED  BY <6>1, CutAtEnds DEF Rest
        <5>7. hi(i) = lo(i + 1)
          <6>1. lo(i + 1) = i * SendBufSize  BY DEF lo
          <6>2. CASE i = 0
            <7>1. i * SendBufSize = 0  BY <3>2, <6>2
            <7> QED  BY <3>2, <6>1, <7>1 DEF hi, MinOf
          <6>3. CASE i # 0
            <7>1. i \in 1..q /\ i < q  BY <3>3, <6>3
            <7> QED  BY <3>4, <6>1, <7>1
          <6> QED  BY <6>2, <6>3
        <5>8. SubSeq(s, 1, hi(i)) \o SubSeq(s, hi(i) + 1, hi(i + 1)) = SubSeq(s, 1, hi(i + 1))
          <6>1. lo(i + 1) \in Nat /\ hi(i + 1) \in Nat /\ lo(i + 1) < hi(i + 1) /\ hi(i + 1) <= Len(s)
            BY <3>4
          <6>2. hi(i) \in 0..Len(s) /\ hi(i + 1) \in hi(i)..Len(s)  BY <3>2, <5>7, <6>1
          <6> QED  BY <6>2, <1>AdjacentParts, Zenon
        <5>9. part(i + 1) = SubSeq(s, hi(i) + 1, hi(i + 1))  BY <5>7 DEF part
        <5> QED  BY <5>2, <5>5, <5>6, <5>8, <5>9, Zenon
      <4>3. Nat \subseteq S
        <5> HIDE DEF S
        <5> QED  BY <4>1, <4>2, NatSetInduction, Zenon
      <4>4. Unsent(SubSeq(F, 1, q)) = SubSeq(s, 1, hi(q))  BY <3>3, <4>3
      <4>5. SubSeq(F, 1, q) = F  BY <3>7
      <4>6. hi(q) = Len(s)
        <5>1. CASE q = 0
          <6>1. Len(s) = 0
            <7>1. Len(s) <= q * SendBufSize  BY <3>2 DEF q, Needed
            <7> QED  BY <3>2, <5>1, <7>1
          <6> QED  BY <3>2, <5>1, <6>1 DEF hi, MinOf
        <5>2. CASE q # 0
          <6>1. q \in 1..q  BY <3>3, <5>2
          <6> QED  BY <3>4, <6>1, Zenon
        <5> QED  BY <5>1, <5>2
      <4> QED  BY <4>4, <4>5, <4>6, CutAtEnds, Zenon
    <3> QED  BY <3>3, <3>7, <3>8, <3>9, <3>10 DEF q, F
  \* The last buffer is filled up with x.
  <2>TopUpFacts. ASSUME NEW p \in Seq(Buffers), Sound(p), p # <<>>, NEW x \in Seq(Bytes),
                        Len(x) <= RoomInLast(p)
                 PROVE  LET t == [p EXCEPT ![Len(p)].data = @ \o x]
                        IN  /\ t \in Seq(Buffers) /\ Len(t) = Len(p) /\ Sound(t)
                            /\ Unsent(t) = Unsent(p) \o x /\ RoomInLast(t) = RoomInLast(p) - Len(x)
    <3> USE <2>TopUpFacts
    <3> DEFINE k == Len(p)
               f == SubSeq(p, 1, k - 1)
               b == p[k]
               d == b.data \o x
               c == [b EXCEPT !.data = d]
               t == [p EXCEPT ![k].data = @ \o x]
    <3>1. /\ k \in Nat \ {0} /\ k - 1 \in 0..k /\ f \in Seq(Buffers) /\ b \in Buffers
          /\ p = Append(f, b) /\ k \in 1..k
      BY <2>LastFacts
    <3>2. /\ b.data \in Seq(Bytes) /\ b.sent \in Nat /\ Len(b.data) \in Nat
          /\ Len(x) \in Nat /\ SendBufSize \in Nat
      BY <3>1, SendBufferAssumption DEF Buffers
    <3>3. b.sent < Len(b.data) /\ Len(b.data) <= SendBufSize  BY <3>1, Zenon DEF Sound
    <3>4. RoomInLast(p) = SendBufSize - Len(b.data)  BY DEF RoomInLast
    <3>5. d \in Seq(Bytes) /\ Len(d) = Len(b.data) + Len(x)  BY <3>2
    <3>6. t = [p EXCEPT ![k] = c] /\ DOMAIN p = 1..k /\ \A i \in 1..k : p[i] \in Buffers  OBVIOUS
    <3> HIDE DEF d, k
    <3>7. c \in Buffers /\ c.data = d /\ c.sent = b.sent  BY <3>1, <3>5 DEF Buffers
    <3> HIDE DEF c, t
    <3>8. t \in Seq(Buffers) /\ Len(t) = k /\ t[k] = c /\ \A i \in 1..(k - 1) : t[i] = p[i]
      <4>1. t \in [1..k -> Buffers] /\ t[k] = c /\ \A i \in 1..k : i # k => t[i] = p[i]
        BY <3>1, <3>6, <3>7
      <4>2. t \in Seq(Buffers) /\ Len(t) = k  BY <3>1, <4>1
      <4> QED  BY <4>1, <4>2
    <3>9. Sound(t)
      <4> SUFFICES ASSUME NEW i \in 1..k
                   PROVE  /\ t[i].sent < Len(t[i].data) /\ Len(t[i].data) <= SendBufSize
                          /\ i < k => Len(t[i].data) = SendBufSize
        BY <3>8 DEF Sound
      <4>1. CASE i = k
        <5>1. t[i] = c /\ ~(i < k)  BY <3>1, <3>8, <4>1
        <5>2. c.sent < Len(c.data) /\ Len(c.data) <= SendBufSize
          <6>1. Len(x) <= SendBufSize - Len(b.data)  BY <3>4
          <6> HIDE DEF b
          <6> QED  BY ONLY <3>2, <3>3, <3>5, <3>7, <6>1, SMTT(60)
        <5> QED  BY <5>1, <5>2
      <4>2. CASE i # k
        <5> DEFINE e == p[i]
        <5>1. t[i] = e  BY <3>1, <3>8, <4>2
        <5>2. /\ e.sent < Len(e.data) /\ Len(e.data) <= SendBufSize
              /\ i < k => Len(e.data) = SendBufSize
          BY DEF Sound, k
        <5> HIDE DEF e
        <5> QED  BY <5>1, <5>2
      <4> QED  BY <4>1, <4>2
    <3>10. Unsent(t) = Unsent(p) \o x
      <4>1. t = Append(f, c)
        <5>1. Len(f) = k - 1 /\ \A i \in 1..(k - 1) : f[i] = p[i]
          BY <3>1 DEF k
        <5> DEFINE y == Append(f, c)
        <5> HIDE DEF f
        <5>2. y \in Seq(Buffers) /\ Len(y) = k /\ y[k] = c /\ \A i \in 1..(k - 1) : y[i] = f[i]
          BY <3>1, <3>7, <5>1
        <5> HIDE DEF y
        <5>3. \A i \in 1..k : i = k \/ i \in 1..(k - 1)  BY <3>1
        <5>4. \A i \in 1..k : t[i] = y[i]  BY <3>8, <5>1, <5>2, <5>3, Zenon
        <5> QED  BY <3>8, <5>2, <5>4, <1>SeqEqual, Zenon DEF y
      <4> HIDE DEF f, b
      <4>2. Unsent(t) = Unsent(f) \o Rest(c)  BY <3>1, <3>7, <4>1, UnsentUnfolds, Zenon
      <4>3. Unsent(p) = Unsent(f) \o Rest(b)  BY <3>1, UnsentUnfolds, Zenon
      <4>4. Rest(c) = Rest(b) \o x
        <5>1. b.sent \in 0..Len(b.data)  BY <3>2, <3>3
        <5>2. Drop(b.data \o x, b.sent) = Drop(b.data, b.sent) \o x
          BY <3>2, <5>1, <1>CutInFirst, Zenon
        <5> QED  BY <3>7, <5>2 DEF Rest, d
      <4>5. (Unsent(f) \o Rest(b)) \o x = Unsent(f) \o (Rest(b) \o x)
        <5>1. x \in Seq(Bytes)  OBVIOUS
        <5> QED  BY ONLY <5>1, SMTT(60)
      <4> QED  BY <4>2, <4>3, <4>4, <4>5
    <3>11. RoomInLast(t) = RoomInLast(p) - Len(x)
      <4>1. t # <<>>  BY <3>1, <3>8
      <4>2. RoomInLast(t) = SendBufSize - Len(d)  BY <3>7, <3>8, <4>1, Zenon DEF RoomInLast
      <4> HIDE DEF b
      <4> QED  BY <3>2, <3>4, <3>5, <4>2
    <3> QED  BY <3>8, <3>9, <3>10, <3>11, Zenon DEF t, k
  \* Two lists of buffers in a row, the first with a full last buffer.
  <2>SoundConcat. ASSUME NEW p \in Seq(Buffers), NEW q \in Seq(Buffers), Sound(p),
                         Sound(q), p = <<>> \/ q = <<>> \/ RoomInLast(p) = 0
                  PROVE  Sound(p \o q)
    <3> USE <2>SoundConcat
    <3> DEFINE x == p \o q
    <3>1. /\ Len(p) \in Nat /\ Len(q) \in Nat /\ Len(x) = Len(p) + Len(q)
          /\ \A i \in 1..Len(x) : IF i <= Len(p) THEN i \in 1..Len(p) /\ x[i] = p[i]
                                  ELSE i - Len(p) \in 1..Len(q) /\ x[i] = q[i - Len(p)]
      OBVIOUS
    <3> HIDE DEF x
    <3>2. ASSUME NEW i \in 1..Len(x)
          PROVE  /\ x[i].sent < Len(x[i].data) /\ Len(x[i].data) <= SendBufSize
                 /\ i < Len(x) => Len(x[i].data) = SendBufSize
      <4>1. CASE i <= Len(p)
        <5> DEFINE b == p[i]
        <5>1. i \in 1..Len(p) /\ x[i] = b  BY <3>1, <4>1
        <5>2. /\ b.sent < Len(b.data) /\ Len(b.data) <= SendBufSize
              /\ i < Len(p) => Len(b.data) = SendBufSize
          BY <5>1, Zenon DEF Sound
        <5>3. b \in Buffers  BY <5>1
        <5>4. Len(b.data) \in Nat /\ SendBufSize \in Nat  BY <5>3, SendBufferAssumption DEF Buffers
        <5>5. ASSUME i < Len(x), ~(i < Len(p)) PROVE Len(b.data) = SendBufSize
          <6>1. i = Len(p) /\ Len(q) # 0 /\ Len(p) # 0  BY <3>1, <4>1, <5>5
          <6>2. RoomInLast(p) = 0 /\ p # <<>>  BY <6>1
          <6>3. RoomInLast(p) = SendBufSize - Len(b.data)  BY <6>1 DEF RoomInLast
          <6> HIDE DEF b
          <6> QED  BY <5>4, <6>2, <6>3
        <5> QED  BY <5>1, <5>2, <5>5
      <4>2. CASE ~(i <= Len(p))
        <5> DEFINE j == i - Len(p)
        <5>1. j \in 1..Len(q) /\ x[i] = q[j] /\ (i < Len(x) => j < Len(q))  BY <3>1, <4>2
        <5> HIDE DEF j
        <5> QED  BY <5>1 DEF Sound
      <4> QED  BY <4>1, <4>2
    <3> QED  BY <3>2 DEF Sound, x
  <2> SUFFICES ASSUME NEW p \in Seq(Buffers), Sound(p), NEW s \in Seq(Bytes)
               PROVE  LET f == Fill(p, s)
                          new == Len(f) - Len(p)
                      IN  /\ f \in Seq(Buffers) /\ Sound(f) /\ new \in Nat
                          /\ Unsent(f) = Unsent(p) \o s
                          /\ p # <<>> => /\ f # <<>>
                                         /\ RoomInLast(f) = RoomInLast(p) + new * SendBufSize - Len(s)
                          /\ \A F \in Nat : Len(s) <= F * SendBufSize + RoomInLast(p) => new <= F
    OBVIOUS
  <2> DEFINE B == SendBufSize
             L == Len(s)
             R == RoomInLast(p)
             n == MinOf(R, L)
             x == SubSeq(s, 1, n)
             y == Drop(s, n)
             t == IF n = 0 THEN p ELSE [p EXCEPT ![Len(p)].data = @ \o x]
             q == Fresh(y)
             N == Needed(y)
             f == t \o q
  <2>1. Fill(p, s) = f  BY DEF Fill
  <2>2. B \in Nat \ {0} /\ L \in Nat  BY SendBufferAssumption
  <2>3. R \in Nat /\ (p = <<>> => R = 0)
    <3>1. CASE p = <<>>
      <4>1. R = 0  BY <3>1 DEF RoomInLast
      <4> QED  BY <4>1
    <3>2. CASE p # <<>>
      <4> DEFINE b == p[Len(p)]
      <4>1. Len(p) \in 1..Len(p) /\ b \in Buffers  BY <3>2
      <4>2. Len(b.data) <= B  BY <4>1 DEF Sound
      <4>3. R = B - Len(b.data)  BY <3>2 DEF RoomInLast
      <4> HIDE DEF b, R, B
      <4> QED  BY <2>2, <3>2, <4>2, <4>3
    <3> QED  BY <3>1, <3>2
  <2> HIDE DEF R, L, B
  <2>4. n \in 0..L /\ n <= R /\ (n < L => n = R) /\ n \in Nat  BY <2>2, <2>3 DEF MinOf
  <2> HIDE DEF n
  <2>5. x \in Seq(Bytes) /\ Len(x) = n  BY <2>4 DEF L
  <2>6. y \in Seq(Bytes) /\ Len(y) = L - n  BY <2>4, DropFacts DEF L
  <2>7. x \o y = s  BY <2>4, CutFacts, Zenon DEF L
  <2>8. /\ t \in Seq(Buffers) /\ Len(t) = Len(p) /\ Sound(t) /\ Unsent(t) = Unsent(p) \o x
        /\ RoomInLast(t) = R - n
    <3>1. CASE n = 0
      <4>1. t = p /\ x = <<>>  BY <3>1
      <4>2. Unsent(p) \o <<>> = Unsent(p)  OBVIOUS
      <4>3. R - n = R  BY <2>3, <3>1
      <4> HIDE DEF t
      <4> QED  BY <4>1, <4>2, <4>3, Zenon DEF R
    <3>2. CASE n # 0
      <4>1. p # <<>>  BY <2>3, <2>4, <3>2
      <4>2. Len(x) <= RoomInLast(p)  BY <2>4 DEF R
      <4>3. t = [p EXCEPT ![Len(p)].data = @ \o x]  BY <3>2
      <4> HIDE DEF t, x
      <4> QED  BY <2>5, <4>1, <4>2, <4>3, <2>TopUpFacts, Zenon DEF R
    <3> QED  BY <3>1, <3>2, Zenon
  <2> HIDE DEF t, x, y
  <2>9. /\ q \in Seq(Buffers) /\ Len(q) = N /\ N \in Nat /\ Sound(q) /\ Unsent(q) = y
        /\ N > 0 => Len(q[N].data) = Len(y) - (N - 1) * B
    BY <2>6, <2>FreshFacts DEF B
  <2>10. /\ Len(y) <= N * B /\ (Len(y) > 0 => (N - 1) * B < Len(y)) /\ (Len(y) = 0 => N = 0)
         /\ Len(y) \in Nat
    <3>1. Len(y) \in Nat  OBVIOUS
    <3> QED  BY <3>1, <2>DivisionFacts, Zenon DEF Needed, B
  <2> HIDE DEF q, N
  <2>11. f \in Seq(Buffers) /\ Len(f) = Len(p) + N
    <3>1. t \in Seq(Buffers) /\ q \in Seq(Buffers)  BY <2>8, <2>9
    <3>2. t \o q \in Seq(Buffers) /\ Len(t \o q) = Len(t) + Len(q)  BY ONLY <3>1
    <3> QED  BY <2>8, <2>9, <3>2
  <2>12. N # 0 => n = R /\ n < L  BY <2>2, <2>4, <2>6, <2>10
  <2>13. Sound(f)
    <3>1. t = <<>> \/ q = <<>> \/ RoomInLast(t) = 0
      <4>1. CASE N = 0
        <5>1. q = <<>>  BY <2>9, <4>1
        <5> QED  BY <5>1
      <4>2. CASE N # 0
        <5>1. R - n = 0  BY <2>3, <2>12, <4>2
        <5> QED  BY <2>8, <5>1
      <4> QED  BY <4>1, <4>2
    <3> QED  BY <2>8, <2>9, <3>1, <2>SoundConcat
  <2>14. Unsent(f) = Unsent(p) \o s
    <3>1. Unsent(f) = (Unsent(p) \o x) \o y  BY <2>8, <2>9, <1>UnsentConcat, Zenon
    <3>2. (Unsent(p) \o x) \o y = Unsent(p) \o (x \o y)  BY ONLY SMTT(60)
    <3> QED  BY <2>7, <3>1, <3>2
  <2>15. p # <<>> => f # <<>> /\ RoomInLast(f) = R + N * B - L
    <3> SUFFICES ASSUME p # <<>> PROVE f # <<>> /\ RoomInLast(f) = R + N * B - L  OBVIOUS
    <3> HIDE DEF f
    <3>1. f # <<>> /\ Len(p) \in Nat \ {0}  BY <2>9, <2>11
    <3>2. CASE N = 0
      <4>1. q = <<>>  BY <2>9, <3>2
      <4>2. f = t  BY <2>8, <4>1 DEF f
      <4>3. n = L /\ N * B = 0
        <5>1. N * B = 0  BY <2>2, <3>2
        <5> QED  BY <2>2, <2>4, <2>6, <2>10, <5>1
      <4>4. R - n = R + N * B - L  BY <2>2, <2>3, <4>3
      <4> QED  BY <2>8, <3>1, <4>2, <4>4
    <3>3. CASE N # 0
      <4>1. f[Len(f)] = q[N]
        <5>1. Len(t) \in Nat /\ Len(t) + N = Len(f) /\ N \in 1..Len(q)  BY <2>8, <2>9, <2>11, <3>3
        <5>2. (t \o q)[Len(t) + N] = q[N]  BY <2>8, <5>1
        <5> QED  BY <5>1, <5>2, Zenon DEF f
      <4>2. RoomInLast(f) = B - Len(q[N].data)  BY <3>1, <4>1 DEF RoomInLast, B
      <4>3. Len(q[N].data) = Len(y) - (N - 1) * B
        <5>1. N > 0  BY <2>9, <3>3
        <5> QED  BY <2>9, <5>1
      <4>4. (N - 1) * B = N * B - B /\ N * B \in Int
        <5>1. N \in Int  BY <2>9
        <5> QED  BY <5>1, <2>MultipleFacts, Zenon DEF B
      <4> DEFINE m == N * B
      <4>5. m \in Int /\ RoomInLast(f) = B - (Len(y) - (m - B))  BY <4>2, <4>3, <4>4
      <4> HIDE DEF m
      <4>6. B - (Len(y) - (m - B)) = R + m - L  BY <2>2, <2>3, <2>6, <2>12, <3>3, <4>5
      <4> QED  BY <3>1, <4>5, <4>6 DEF m
    <3> QED  BY <3>2, <3>3
  <2>16. \A F \in Nat : L <= F * B + R => N <= F
    <3> SUFFICES ASSUME NEW F \in Nat, L <= F * B + R PROVE N <= F  OBVIOUS
    <3>1. CASE N = 0  BY <3>1
    <3>2. CASE N # 0
      <4>1. n = R /\ Len(y) = L - R /\ Len(y) > 0  BY <2>2, <2>3, <2>6, <2>12, <3>2
      <4>2. (N - 1) * B < Len(y)  BY <2>10, <4>1
      <4>3. N - 1 \in Int /\ F \in Int  BY <2>9
      <4>4. (N - 1) * B \in Int /\ F * B \in Int /\ (F < N - 1 => F * B + B <= (N - 1) * B)
        BY <4>3, <2>MultipleFacts, Zenon DEF B
      <4> DEFINE g == (N - 1) * B
                 h == F * B
      <4>5. g < Len(y) /\ g \in Int /\ h \in Int /\ (F < N - 1 => h + B <= g) /\ (F = N - 1 => g = h)
            /\ L <= h + R
        BY <4>2, <4>4
      <4> HIDE DEF g, h
      <4> QED  BY <2>2, <2>3, <2>9, <4>1, <4>5
    <3> QED  BY <3>1, <3>2
  <2>17. Len(f) - Len(p) = N /\ N \in Nat
    <3> HIDE DEF f
    <3> QED  BY <2>9, <2>11
  <2> HIDE DEF f
  <2> QED  BY <2>1, <2>11, <2>13, <2>14, <2>15, <2>16, <2>17 DEF L, B, R
<1> QED  BY <1>CompletedFacts, <1>AdvanceFacts, <1>FillFacts, Zenon

-----------------------------------------------------------------------------
(* The inductive invariant *)

\* The names of the messages of which x has bytes.
Ids(x) == {x[i][1] : i \in 1..Len(x)}

Sending(w) == th[w].pc \in {"wait", "woken"}

ListOK == Sound(m_pending) /\ (m_tmpbuf # <<>> => m_pending = <<>>)

CountOK ==
    /\ m_free + Len(m_pending) <= BufCnt
    /\ m_valid => m_free + Len(m_pending) = BufCnt

\* A connection is shut down before its buffers are freed.
FailureOK ==
    /\ m_valid \/ broken
    /\ \A t \in Threads : th[t].pc = "free" => broken /\ ~m_valid

\* The senders that wait have messages of their own.
MessagesOK ==
    /\ \A w \in Workers : Sending(w) =>
          \E id \in 1..count, len \in Lengths : th[w].msg = Message(id, len)
    /\ \A v, w \in Workers : v # w /\ Sending(v) /\ Sending(w) =>
          Ids(th[v].msg) \cap Ids(th[w].msg) = {}

\* Nothing has gone out of those messages yet.
BytesOK ==
    ~broken =>
        /\ Ids(wire \o Queue) \subseteq 1..count
        /\ \A w \in Workers : Sending(w) => Ids(th[w].msg) \cap Ids(wire \o Queue) = {}

IInv ==
    /\ TypeOK /\ ListOK /\ CountOK /\ FailureOK
    /\ WaitersCannotSend /\ QueueIsWatched /\ MessagesOK /\ BytesOK

-----------------------------------------------------------------------------
(* What the parts of a call do to the data *)

\* The types of the variables, and the two cases of the queue.
LEMMA TypeFacts ==
    ASSUME TypeOK
    PROVE  /\ m_free \in 0..BufCnt /\ m_free \in Nat /\ BufCnt \in Nat
           /\ m_pending \in Seq(Buffers) /\ Len(m_pending) \in Nat
           /\ m_tmpbuf \in Seq(Bytes) /\ wire \in Seq(Bytes)
           /\ Unsent(m_pending) \in Seq(Bytes) /\ Queue \in Seq(Bytes)
           /\ m_tmpbuf = <<>> => Queue = Unsent(m_pending)
           /\ m_pending = <<>> => Queue = m_tmpbuf
           /\ room \in 0..KernelRoom /\ room \in Nat /\ KernelRoom \in Nat
<1>1. /\ m_free \in 0..BufCnt /\ m_pending \in Seq(Buffers)
      /\ m_tmpbuf \in Seq(Bytes) /\ wire \in Seq(Bytes) /\ room \in 0..KernelRoom
  BY DEF TypeOK, Buffers
<1>2. m_free \in Nat /\ BufCnt \in Nat /\ Len(m_pending) \in Nat /\ room \in Nat /\ KernelRoom \in Nat
  BY <1>1, SendBufferAssumption
<1>3. Unsent(m_pending) \in Seq(Bytes)  BY <1>1, UnsentType
<1>4. Queue \in Seq(Bytes)  BY <1>1, <1>3 DEF Queue
<1>5. m_tmpbuf = <<>> => Queue = Unsent(m_pending)  BY DEF Queue
<1>6. m_pending = <<>> => Queue = m_tmpbuf
  <2>1. m_tmpbuf \o <<>> = m_tmpbuf  BY <1>1
  <2> QED  BY <2>1, UnsentUnfolds, Zenon DEF Queue
<1> QED  BY <1>1, <1>2, <1>3, <1>4, <1>5, <1>6

\* The capacity is a number.
LEMMA RoomType ==
    TypeOK =>
        RoomInLast(m_pending) \in Int /\ m_free * SendBufSize \in Int /\ capacity \in Int
\* A difference of integers.
<1>Differences. ASSUME NEW a \in Int, NEW b \in Int
                PROVE  /\ (a - b) * SendBufSize = a * SendBufSize - b * SendBufSize
                       /\ a * SendBufSize \in Int /\ b * SendBufSize \in Int
  BY SendBufferAssumption
<1> SUFFICES ASSUME TypeOK
             PROVE  RoomInLast(m_pending) \in Int /\ m_free * SendBufSize \in Int /\ capacity \in Int
  OBVIOUS
<1> DEFINE R == RoomInLast(m_pending)
           b == m_pending[Len(m_pending)]
<1>1. m_pending \in Seq(Buffers) /\ m_free \in Nat  BY TypeFacts
<1>2. R \in Int
  <2>1. CASE m_pending = <<>>  BY <2>1 DEF RoomInLast
  <2>2. CASE m_pending # <<>>
    <3>1. R = SendBufSize - Len(b.data)  BY <2>2 DEF RoomInLast
    <3> HIDE DEF R, b
    <3> QED  BY <3>1
  <2> QED  BY <2>1, <2>2
<1>3. m_free * SendBufSize \in Int
  <2>1. m_free \in Int /\ 0 \in Int  BY <1>1
  <2> QED  BY <2>1, <1>Differences
<1> HIDE DEF R
<1>4. capacity = m_free * SendBufSize + R  BY DEF capacity, R
<1>5. capacity \in Int  BY <1>2, <1>4
<1> QED  BY <1>2, <1>3, <1>5 DEF R

\* The buffers and m_tmpbuf after a step: in order, and as many as before.
BuffersOK ==
    /\ m_free' \in 0..BufCnt /\ m_pending' \in Seq(Buffers) /\ m_tmpbuf' \in Seq(Bytes)
    /\ ListOK'
    /\ m_free' + Len(m_pending') = m_free + Len(m_pending)

\* The kernel after a step.
KernelOK == wire' \in Seq(Bytes) /\ room' \in 0..KernelRoom /\ nospace' \in BOOLEAN

\* There is no more room than before the step.
NoRoomGained == m_pending' # <<>> /\ m_tmpbuf' = <<>> /\ capacity' <= capacity /\ capacity' \in Int

\* The bytes s join the queue, and the first bytes of the queue go out.
Carried(s) ==
    \E n \in 0..Len(Queue \o s) : /\ wire' = wire \o SubSeq(Queue \o s, 1, n)
                                  /\ Queue' = Drop(Queue \o s, n)

\* The connection fails while they go out.
CutOff(s) == \E n \in 0..Len(Queue \o s) : wire' = wire \o SubSeq(Queue \o s, 1, n)

\* Offering s to the kernel.
LEMMA OfferFacts ==
    ASSUME TypeOK, NEW s \in Seq(Bytes), Offer(s)
    PROVE  LET n == MinOf(room, Len(s))
           IN  /\ n \in 0..Len(s) /\ KernelOK /\ wire' = wire \o SubSeq(s, 1, n)
               /\ nospace => nospace'
               /\ n < Len(s) => nospace'
<1> DEFINE n == MinOf(room, Len(s))
<1>1. /\ room \in 0..KernelRoom /\ room \in Nat /\ KernelRoom \in Nat /\ wire \in Seq(Bytes)
      /\ Len(s) \in Nat /\ nospace \in BOOLEAN
  <2>1. nospace \in BOOLEAN  BY DEF TypeOK
  <2> QED  BY <2>1, TypeFacts
<1>2. n \in 0..Len(s) /\ n <= room  BY <1>1 DEF MinOf
<1>3. /\ wire' = wire \o SubSeq(s, 1, n) /\ room' = room - n
      /\ nospace' = (nospace \/ n < Len(s))
  BY DEF Offer
<1> HIDE DEF n
<1>4. SubSeq(s, 1, n) \in Seq(Bytes)  BY <1>2
<1>5. wire' \in Seq(Bytes)  BY <1>1, <1>3, <1>4
<1>6. room' \in 0..KernelRoom  BY <1>1, <1>2, <1>3
<1> QED  BY <1>2, <1>3, <1>5, <1>6, Zenon DEF KernelOK, n

\* Some bytes of s have gone out before an error.
LEMMA PartlyOffered ==
    ASSUME TypeOK, NEW s \in Seq(Bytes), s # <<>>, NEW n \in 0..MinOf(room, Len(s) - 1),
           broken => n = 0, wire' = wire \o SubSeq(s, 1, n), room' = room - n, nospace' = nospace
    PROVE  n \in 0..Len(s) /\ KernelOK /\ (broken => wire' = wire)
<1>1. /\ room \in 0..KernelRoom /\ room \in Nat /\ KernelRoom \in Nat /\ wire \in Seq(Bytes)
      /\ Len(s) \in Nat \ {0} /\ nospace \in BOOLEAN
  <2>1. nospace \in BOOLEAN  BY DEF TypeOK
  <2> QED  BY <2>1, TypeFacts
<1>2. n \in 0..Len(s) /\ n <= room  BY <1>1 DEF MinOf
<1>3. SubSeq(s, 1, n) \in Seq(Bytes)  BY <1>2
<1>4. wire' \in Seq(Bytes)  BY <1>1, <1>3
<1>5. room' \in 0..KernelRoom  BY <1>1, <1>2
<1>6. broken => wire' = wire
  <2>1. SubSeq(s, 1, 0) = <<>> /\ wire \o <<>> = wire  BY <1>1
  <2> QED  BY <2>1, Zenon
<1> QED  BY <1>1, <1>2, <1>4, <1>5, <1>6, Zenon DEF KernelOK

\* A message is accepted.
LEMMA AcceptFacts ==
    TypeOK /\ ListOK /\ CountOK /\ m_tmpbuf = <<>> =>
        \A t :
            \A s \in Seq(Bytes) :
                \A close :
                    (m_pending = <<>> \/ capacity >= Len(s)) /\ Accept(t, s, close) =>
                        /\ BuffersOK /\ KernelOK /\ Carried(s) /\ (nospace => nospace')
                        /\ m_pending # <<>> => NoRoomGained /\ wire' = wire
                        /\ m_pending = <<>> => (m_tmpbuf' # <<>> \/ m_pending' # <<>> => nospace')
                        /\ m_shutdown' = close
                        /\ \/ th' = notify_all(Return(th, t, TRUE))
                           \/ th' = Return(th, t, ~close) /\ (close => m_pending = <<>>)
\* Data that could not be sent are queued in the buffers or in m_tmpbuf.
<1>KeepFacts. TypeOK /\ ListOK /\ CountOK /\ m_tmpbuf = <<>> =>
          \A left \in Seq(Bytes) :
              Keep(left) /\ (m_pending = <<>> \/ capacity >= Len(left)) =>
                  /\ BuffersOK /\ Queue' = Queue \o left
                  /\ m_pending # <<>> => NoRoomGained
  <2>Differences. ASSUME NEW a \in Int, NEW b \in Int
                  PROVE  /\ (a - b) * SendBufSize = a * SendBufSize - b * SendBufSize
                         /\ a * SendBufSize \in Int /\ b * SendBufSize \in Int
    BY SendBufferAssumption
  <2> SUFFICES ASSUME TypeOK, ListOK, CountOK, m_tmpbuf = <<>>, NEW left \in Seq(Bytes),
                      Keep(left), m_pending = <<>> \/ capacity >= Len(left)
               PROVE  /\ BuffersOK /\ Queue' = Queue \o left
                      /\ m_pending # <<>> => NoRoomGained
    OBVIOUS
  <2> DEFINE B == SendBufSize
             R == RoomInLast(m_pending)
             L == Len(left)
             f == Fill(m_pending, left)
             new == Len(f) - Len(m_pending)
  <2>1. /\ m_free \in 0..BufCnt /\ m_free \in Nat /\ BufCnt \in Nat /\ Len(m_pending) \in Nat
        /\ m_pending \in Seq(Buffers) /\ Unsent(m_pending) \in Seq(Bytes)
        /\ Queue = Unsent(m_pending) /\ Sound(m_pending) /\ L \in Nat
    BY TypeFacts DEF ListOK
  <2>2. /\ f \in Seq(Buffers) /\ Sound(f) /\ new \in Nat /\ Unsent(f) = Unsent(m_pending) \o left
        /\ m_pending # <<>> => f # <<>> /\ RoomInLast(f) = R + new * B - L
        /\ \A F \in Nat : L <= F * B + R => new <= F
    BY <2>1, ListFacts, Zenon
  <2>3. capacity = m_free * B + R  BY DEF capacity
  <2>4. capacity \in Int /\ m_free * B \in Int /\ R \in Int  BY RoomType
  <2> HIDE DEF f, R, new, L, B
  <2>5. CASE capacity < L
    <3>1. m_tmpbuf' = left /\ m_free' = m_free /\ m_pending' = m_pending
      BY <2>5 DEF Keep, L
    <3>2. m_pending = <<>>  BY <2>1, <2>4, <2>5 DEF L
    <3>3. Queue = <<>> /\ Queue' = left
      <4>1. left \o <<>> = left  OBVIOUS
      <4> QED  BY <2>1, <3>1, <3>2, <4>1, UnsentUnfolds, Zenon DEF Queue
    <3>4. Queue' = Queue \o left  BY <3>3
    <3>5. BuffersOK  BY <2>1, <3>1, <3>2 DEF BuffersOK, ListOK
    <3> QED  BY <3>2, <3>4, <3>5
  <2>6. CASE ~(capacity < L)
    <3>1. m_pending' = f /\ m_free' = m_free - (Len(m_pending') - Len(m_pending)) /\ m_tmpbuf' = <<>>
      BY <2>6 DEF Keep, L, f
    <3>2. m_free' = m_free - new  BY <3>1 DEF new
    <3>3. L <= m_free * B + R  BY <2>1, <2>3, <2>6
    <3>4. new <= m_free  BY <2>1, <2>2, <3>3
    <3>5. m_free' \in 0..BufCnt  BY <2>1, <2>2, <3>2, <3>4
    <3>6. m_free' + Len(m_pending') = m_free + Len(m_pending)  BY <2>1, <3>1 DEF new
    <3>7. BuffersOK  BY <2>2, <3>1, <3>5, <3>6 DEF BuffersOK, ListOK
    <3>8. Queue' = Queue \o left
      <4>1. <<>> \o Unsent(f) = Unsent(f)  OBVIOUS
      <4> QED  BY <2>1, <2>2, <3>1, <4>1, Zenon DEF Queue
    <3>9. ASSUME m_pending # <<>> PROVE NoRoomGained
      <4> DEFINE C == m_free * B
                 N == new * B
      <4>1. capacity' = m_free' * B + RoomInLast(f)  BY <3>1 DEF capacity, B
      <4>2. RoomInLast(f) = R + N - L  BY <2>2, <3>9
      <4>3. m_free' * B = C - N /\ C \in Int /\ N \in Int
        <5>1. m_free \in Int /\ new \in Int  BY <2>1, <2>2
        <5> QED  BY <3>2, <5>1, <2>Differences, Zenon DEF B
      <4>4. capacity = C + R /\ capacity' = (C - N) + (R + N - L)  BY <2>3, <4>1, <4>2, <4>3
      <4> HIDE DEF C, N
      <4>5. capacity' <= capacity /\ capacity' \in Int  BY <2>1, <2>4, <4>3, <4>4
      <4> QED  BY <2>2, <3>1, <3>9, <4>5 DEF NoRoomGained
    <3> QED  BY <3>7, <3>8, <3>9
  <2> QED  BY <2>5, <2>6
<1> SUFFICES ASSUME TypeOK, ListOK, CountOK, m_tmpbuf = <<>>, NEW t,
                    NEW s \in Seq(Bytes), NEW close,
                    m_pending = <<>> \/ capacity >= Len(s), Accept(t, s, close)
             PROVE  /\ BuffersOK /\ KernelOK /\ Carried(s) /\ (nospace => nospace')
                    /\ m_pending # <<>> => NoRoomGained /\ wire' = wire
                    /\ m_pending = <<>> => (m_tmpbuf' # <<>> \/ m_pending' # <<>> => nospace')
                    /\ m_shutdown' = close
                    /\ \/ th' = notify_all(Return(th, t, TRUE))
                       \/ th' = Return(th, t, ~close) /\ (close => m_pending = <<>>)
  OBVIOUS
<1> DEFINE n == MinOf(room, Len(s))
           left == Drop(s, n)
<1>1. /\ Queue \in Seq(Bytes) /\ Queue = Unsent(m_pending) /\ wire \in Seq(Bytes)
      /\ m_free \in 0..BufCnt /\ m_pending \in Seq(Buffers) /\ <<>> \in Seq(Bytes)
      /\ Len(s) \in Nat /\ room \in 0..KernelRoom /\ nospace \in BOOLEAN
  <2>1. nospace \in BOOLEAN  BY DEF TypeOK
  <2> QED  BY <2>1, TypeFacts
<1>2. /\ m_shutdown' = close
      /\ \/ th' = notify_all(Return(th, t, TRUE))
         \/ th' = Return(th, t, ~close) /\ (close => m_pending = <<>>)
  BY Zenon DEF Accept
<1>3. CASE m_pending = <<>>
  <2>1. Offer(s) /\ (IF left = <<>> THEN UNCHANGED bufVars ELSE Keep(left))
    BY <1>3 DEF Accept
  <2>2. /\ n \in 0..Len(s) /\ KernelOK /\ wire' = wire \o SubSeq(s, 1, n)
        /\ (nospace => nospace') /\ (n < Len(s) => nospace')
    BY <2>1, OfferFacts, Zenon
  <2>3. Queue = <<>> /\ Queue \o s = s
    <3>1. Queue = <<>>  BY <1>1, <1>3, UnsentUnfolds
    <3> QED  BY <3>1
  <2> HIDE DEF n
  <2>4. left \in Seq(Bytes) /\ Len(left) = Len(s) - n  BY <2>2, DropFacts
  <2>5. BuffersOK /\ Queue' = left
        /\ (m_tmpbuf' # <<>> \/ m_pending' # <<>> => left # <<>>)
    <3>1. CASE left = <<>>
      <4>1. m_free' = m_free /\ m_pending' = m_pending /\ m_tmpbuf' = m_tmpbuf
        BY <2>1, <3>1 DEF bufVars
      <4>2. Queue' = Queue  BY <4>1 DEF Queue
      <4>3. BuffersOK  BY <1>1, <4>1 DEF BuffersOK, ListOK
      <4> QED  BY <1>3, <2>3, <3>1, <4>1, <4>2, <4>3
    <3>2. CASE left # <<>>
      <4>1. Keep(left)  BY <2>1, <3>2
      <4> HIDE DEF left
      <4>2. BuffersOK /\ Queue' = Queue \o left  BY <1>3, <2>4, <4>1, <1>KeepFacts, Zenon
      <4> QED  BY <2>3, <3>2, <4>2
    <3> QED  BY <3>1, <3>2
  <2>6. left # <<>> => n < Len(s)
    <3> HIDE DEF left
    <3> QED  BY <1>1, <2>2, <2>4
  <2>7. Carried(s)  BY <2>2, <2>3, <2>5, Zenon DEF Carried
  <2> QED  BY <1>2, <1>3, <2>2, <2>5, <2>6, <2>7, Zenon
<1>4. CASE m_pending # <<>>
  <2>1. wire' = wire /\ room' = room /\ nospace' = nospace /\ Keep(s)
    BY <1>4 DEF Accept
  <2>2. BuffersOK /\ Queue' = Queue \o s /\ NoRoomGained  BY <1>4, <2>1, <1>KeepFacts
  <2>3. KernelOK  BY <1>1, <2>1 DEF KernelOK
  <2>4. Carried(s)
    <3> DEFINE z == Queue \o s
    <3>1. z \in Seq(Bytes)  BY <1>1
    <3>2. Queue' = z  BY <2>2
    <3> HIDE DEF z
    <3>3. 0 \in 0..Len(z)  OBVIOUS
    <3>4. SubSeq(z, 1, 0) = <<>> /\ Drop(z, 0) = z  BY <3>1, CutAtEnds
    <3>5. wire \o <<>> = wire  OBVIOUS
    <3>6. \E n_1 \in 0..Len(z) : wire' = wire \o SubSeq(z, 1, n_1) /\ Queue' = Drop(z, n_1)
      BY <2>1, <3>2, <3>3, <3>4, <3>5, Zenon
    <3> QED  BY <3>6, Zenon DEF Carried, z
  <2> QED  BY <1>2, <1>4, <2>1, <2>2, <2>3, <2>4, Zenon
<1> QED  BY <1>3, <1>4, Zenon

\* ::send fails.
LEMMA SendErrorFacts ==
    ASSUME TypeOK, ListOK, m_tmpbuf = <<>>, NEW t, NEW s \in Seq(Bytes), SendError(t, s)
    PROVE  /\ BuffersOK /\ KernelOK /\ CutOff(s) /\ (broken => wire' = wire)
           /\ broken' = TRUE /\ m_shutdown' = m_shutdown /\ th' = Return(th, t, FALSE)
<1>1. /\ m_pending = <<>> /\ s # <<>> /\ broken' = TRUE /\ th' = Return(th, t, FALSE)
      /\ m_free' = m_free /\ m_pending' = m_pending /\ m_tmpbuf' = m_tmpbuf
      /\ m_shutdown' = m_shutdown /\ nospace' = nospace
  BY DEF SendError, bufVars
<1>2. PICK n \in 0..MinOf(room, Len(s) - 1) :
         (broken => n = 0) /\ wire' = wire \o SubSeq(s, 1, n) /\ room' = room - n
  BY Zenon DEF SendError
<1>3. n \in 0..Len(s) /\ KernelOK /\ (broken => wire' = wire)
  BY <1>1, <1>2, PartlyOffered, Zenon
<1>4. BuffersOK  BY <1>1, TypeFacts DEF BuffersOK, ListOK
<1>5. Queue \o s = s
  <2>1. Queue = <<>>  BY <1>1, TypeFacts
  <2> QED  BY <2>1
<1>6. CutOff(s)  BY <1>2, <1>3, <1>5, Zenon DEF CutOff
<1> QED  BY <1>1, <1>3, <1>4, <1>6

\* write_pending_data sends what the kernel has room for.
Delivers ==
    /\ Offer(Queue)
    /\ LET n == MinOf(room, Len(Queue))
           first == MinOf(n, Len(m_tmpbuf))
       IN  /\ m_tmpbuf' = Drop(m_tmpbuf, first)
           /\ m_pending' = Advance(m_pending, n - first)
           /\ m_free' = m_free + Len(m_pending) - Len(m_pending')

\* write_pending_data meets an error after it sent a part.
Breaks ==
    /\ Queue # <<>> /\ nospace' = nospace
    /\ \E k \in 0..MinOf(room, Len(Queue) - 1) :
         LET first == MinOf(k, Len(m_tmpbuf))
         IN  /\ broken => k = 0
             /\ wire' = wire \o SubSeq(Queue, 1, k) /\ room' = room - k
             /\ m_tmpbuf' = Drop(m_tmpbuf, first)
             /\ m_pending' = Drop(m_pending, Completed(m_pending, k - first))
             /\ m_free' = m_free + Len(m_pending) - Len(m_pending')

\* What write_pending_data does to the data, with and without an error.
LEMMA WritingFacts ==
    /\ TypeOK /\ ListOK /\ CountOK /\ Delivers =>
           /\ BuffersOK /\ KernelOK /\ Carried(<<>>) /\ (nospace => nospace')
           /\ m_tmpbuf' # <<>> \/ m_pending' # <<>> => nospace'
           /\ Queue = <<>> => wire' = wire
    /\ TypeOK /\ ListOK /\ CountOK /\ Breaks =>
           BuffersOK /\ KernelOK /\ CutOff(<<>>) /\ (broken => wire' = wire)
\* Without its first buffers the list is like that too.
<1>SoundDrop. ASSUME NEW p \in Seq(Buffers), Sound(p), NEW k \in 0..Len(p)
              PROVE  Drop(p, k) \in Seq(Buffers) /\ Len(Drop(p, k)) = Len(p) - k /\ Sound(Drop(p, k))
  <2> USE <1>SoundDrop
  <2> DEFINE q == Drop(p, k)
  <2>1. /\ q \in Seq(Buffers) /\ Len(q) = Len(p) - k
        /\ \A i \in 1..(Len(p) - k) : q[i] = p[k + i]
    BY DropFacts
  <2> HIDE DEF q
  <2>2. Sound(q)
    <3> SUFFICES ASSUME NEW i \in 1..Len(q)
                 PROVE  /\ q[i].sent < Len(q[i].data) /\ Len(q[i].data) <= SendBufSize
                        /\ i < Len(q) => Len(q[i].data) = SendBufSize
      BY DEF Sound
    <3>1. q[i] = p[k + i] /\ k + i \in 1..Len(p) /\ (i < Len(q) => k + i < Len(p))
      BY <2>1
    <3> DEFINE c == p[k + i]
    <3>2. /\ c.sent < Len(c.data) /\ Len(c.data) <= SendBufSize
          /\ k + i < Len(p) => Len(c.data) = SendBufSize
      BY <3>1 DEF Sound
    <3> HIDE DEF c
    <3>3. q[i] = c  BY <3>1 DEF c
    <3> QED  BY <3>1, <3>2, <3>3
  <2> QED  BY <2>1, <2>2 DEF q
\* There is something unsent in buffers that are not sent completely.
<1>UnsentSomething. ASSUME NEW p \in Seq(Buffers), Sound(p), p # <<>>
                    PROVE  Unsent(p) # <<>>
  <2> USE <1>UnsentSomething
  <2> DEFINE f == SubSeq(p, 1, Len(p) - 1)
             b == p[Len(p)]
  <2>1. f \in Seq(Buffers) /\ b \in Buffers /\ p = Append(f, b) /\ Len(p) \in Nat \ {0}
    OBVIOUS
  <2>2. b.sent < Len(b.data) /\ b.sent \in Nat /\ Len(b.data) \in Nat
    BY <2>1 DEF Sound, Buffers
  <2> HIDE DEF f, b
  <2>3. Unsent(p) = Unsent(f) \o Rest(b)  BY <2>1, UnsentUnfolds
  <2>4. Rest(b) \in Seq(Bytes) /\ Len(Rest(b)) # 0
    <3>1. b.sent <= Len(b.data)  BY <2>2
    <3>2. Rest(b) \in Seq(Bytes) /\ Len(Rest(b)) = Len(b.data) - b.sent
      BY <2>1, <3>1, RestFacts
    <3> QED  BY <2>2, <3>2
  <2> QED  BY <2>3, <2>4
\* k bytes of the queue are so many of m_tmpbuf and the others of the buffers.
<1>QueueParts. ASSUME TypeOK, ListOK, NEW k \in 0..Len(Queue)
               PROVE  LET first == MinOf(k, Len(m_tmpbuf))
                      IN  /\ first \in 0..Len(m_tmpbuf) /\ k - first \in 0..Len(Unsent(m_pending))
                          /\ m_tmpbuf = <<>> => first = 0 /\ k - first = k
                          /\ m_tmpbuf # <<>> => first = k /\ k - first = 0
                          /\ Queue \in Seq(Bytes) /\ Len(Queue) \in Nat
                          /\ m_tmpbuf = <<>> => Queue = Unsent(m_pending)
                          /\ m_tmpbuf # <<>> => m_pending = <<>> /\ Queue = m_tmpbuf
  <2> USE <1>QueueParts
  <2>1. /\ m_tmpbuf \in Seq(Bytes) /\ Unsent(m_pending) \in Seq(Bytes) /\ Queue \in Seq(Bytes)
        /\ m_tmpbuf = <<>> => Queue = Unsent(m_pending)
        /\ m_tmpbuf # <<>> => m_pending = <<>> /\ Queue = m_tmpbuf
    BY TypeFacts DEF ListOK
  <2>2. /\ Len(m_tmpbuf) \in Nat /\ Len(Unsent(m_pending)) \in Nat /\ Len(Queue) \in Nat
        /\ m_tmpbuf = <<>> <=> Len(m_tmpbuf) = 0
    OBVIOUS
  <2>3. Len(Queue) = Len(m_tmpbuf) + Len(Unsent(m_pending))
    BY DEF Queue
  <2>4. m_tmpbuf # <<>> => Len(Queue) = Len(m_tmpbuf)  BY <2>1
  <2> DEFINE a == Len(m_tmpbuf)
             b == Len(Unsent(m_pending))
             c == Len(Queue)
             first == MinOf(k, a)
  <2> HIDE DEF a, b, c
  <2>5. /\ first \in 0..a /\ k - first \in 0..b
        /\ m_tmpbuf = <<>> => first = 0 /\ k - first = k
        /\ m_tmpbuf # <<>> => first = k /\ k - first = 0
    <3>1. /\ a \in Nat /\ b \in Nat /\ c = a + b /\ k \in 0..c /\ (m_tmpbuf = <<>> <=> a = 0)
          /\ m_tmpbuf # <<>> => c = a
      BY <2>2, <2>3, <2>4 DEF a, b, c
    <3>2. first = IF k < a THEN k ELSE a  BY DEF MinOf
    <3> HIDE DEF first
    <3> QED  BY <3>1, <3>2
  <2> QED  BY <2>1, <2>5 DEF a, b
\* The buffers that are sent completely go back to m_free_buffers.
<1>GiveBack. ASSUME TypeOK, ListOK, CountOK, m_pending' \in Seq(Buffers),
                    Sound(m_pending'), Len(m_pending') \in 0..Len(m_pending),
                    m_free' = m_free + Len(m_pending) - Len(m_pending'),
                    m_tmpbuf' \in Seq(Bytes), m_tmpbuf # <<>> \/ m_tmpbuf' = <<>>
             PROVE  BuffersOK
  <2> USE <1>GiveBack
  <2>1. m_free \in Nat /\ BufCnt \in Nat /\ Len(m_pending) \in Nat  BY TypeFacts
  <2>2. m_free' \in 0..BufCnt /\ m_free' + Len(m_pending') = m_free + Len(m_pending)
    BY <2>1 DEF CountOK
  <2> QED  BY <2>2 DEF BuffersOK, ListOK
\* write_pending_data without an error.
<1>WriteFacts. ASSUME TypeOK, ListOK, CountOK, Delivers
               PROVE  /\ BuffersOK /\ KernelOK /\ Carried(<<>>) /\ (nospace => nospace')
                      /\ m_tmpbuf' # <<>> \/ m_pending' # <<>> => nospace'
                      /\ Queue = <<>> => wire' = wire
  <2> USE <1>WriteFacts
  <2> DEFINE n == MinOf(room, Len(Queue))
             first == MinOf(n, Len(m_tmpbuf))
  <2>1. Queue \in Seq(Bytes) /\ m_tmpbuf \in Seq(Bytes) /\ m_pending \in Seq(Buffers)
        /\ wire \in Seq(Bytes) /\ Unsent(m_pending) \in Seq(Bytes) /\ Sound(m_pending)
    BY TypeFacts DEF ListOK
  <2>2. /\ n \in 0..Len(Queue) /\ KernelOK /\ wire' = wire \o SubSeq(Queue, 1, n)
        /\ (nospace => nospace') /\ (n < Len(Queue) => nospace')
    <3>1. Offer(Queue)  BY DEF Delivers
    <3> QED  BY <2>1, <3>1, OfferFacts, Zenon
  <2> HIDE DEF n
  <2>3. /\ first \in 0..Len(m_tmpbuf) /\ n - first \in 0..Len(Unsent(m_pending))
        /\ m_tmpbuf = <<>> => first = 0 /\ n - first = n
        /\ m_tmpbuf # <<>> => first = n /\ n - first = 0
        /\ Len(Queue) \in Nat
        /\ m_tmpbuf = <<>> => Queue = Unsent(m_pending)
        /\ m_tmpbuf # <<>> => m_pending = <<>> /\ Queue = m_tmpbuf
    BY <2>2, <1>QueueParts
  <2>4. /\ m_tmpbuf' = Drop(m_tmpbuf, first) /\ m_pending' = Advance(m_pending, n - first)
        /\ m_free' = m_free + Len(m_pending) - Len(m_pending')
    BY Zenon DEF Delivers, n, first
  <2> HIDE DEF first
  <2>5. /\ m_pending' \in Seq(Buffers) /\ Sound(m_pending') /\ Len(m_pending') \in 0..Len(m_pending)
        /\ Unsent(m_pending') = Drop(Unsent(m_pending), n - first)
    BY <2>1, <2>3, <2>4, ListFacts, Zenon
  <2>6. m_tmpbuf' \in Seq(Bytes)  BY <2>1, <2>3, <2>4, DropFacts
  <2>7. /\ BuffersOK /\ Queue' = Drop(Queue, n)
    <3>1. CASE m_tmpbuf = <<>>
      <4>1. m_tmpbuf' = <<>>  BY <2>1, <2>3, <2>4, <3>1, CutAtEnds, Zenon
      <4>2. BuffersOK  BY <2>4, <2>5, <2>6, <4>1, <1>GiveBack
      <4>3. Unsent(m_pending') = Drop(Queue, n)  BY <2>3, <2>5, <3>1
      <4> QED  BY <4>1, <4>2, <4>3 DEF Queue
    <3>2. CASE m_tmpbuf # <<>>
      <4>1. m_tmpbuf' = Drop(Queue, n)  BY <2>3, <2>4, <3>2
      <4>2. BuffersOK  BY <2>4, <2>5, <2>6, <3>2, <1>GiveBack
      <4>3. Unsent(m_pending') = <<>>
        <5>1. Unsent(m_pending) = <<>>  BY <2>3, <3>2, UnsentUnfolds
        <5> QED  BY <2>3, <2>5, <3>2, <5>1
      <4>4. m_tmpbuf' \o <<>> = m_tmpbuf'  OBVIOUS
      <4> QED  BY <4>1, <4>2, <4>3, <4>4, Zenon DEF Queue
    <3> QED  BY <3>1, <3>2
  <2>8. m_tmpbuf' # <<>> \/ m_pending' # <<>> => nospace'
    <3> SUFFICES ASSUME n = Len(Queue) PROVE m_tmpbuf' = <<>> /\ m_pending' = <<>>
      BY <2>2
    <3>1. Queue' = <<>>  BY <2>1, <2>7, CutAtEnds
    <3>2. m_tmpbuf' = <<>> /\ Unsent(m_pending') = <<>>
      <4>1. m_tmpbuf' \o Unsent(m_pending') = <<>>  BY <3>1 DEF Queue
      <4> QED  BY ONLY <2>6, <4>1
    <3> QED  BY <2>5, <3>2, <1>UnsentSomething, Zenon
  <2>9. Carried(<<>>)
    <3>1. Queue \o <<>> = Queue  OBVIOUS
    <3> QED  BY <2>2, <2>7, <3>1, Zenon DEF Carried
  <2>10. Queue = <<>> => wire' = wire
    <3> SUFFICES ASSUME Queue = <<>> PROVE wire' = wire  OBVIOUS
    <3>1. n = 0  BY <2>2
    <3>2. SubSeq(Queue, 1, 0) = <<>> /\ wire \o <<>> = wire
      BY <2>1
    <3> QED  BY <2>2, <3>1, <3>2, Zenon
  <2> QED  BY <2>2, <2>7, <2>8, <2>9, <2>10, Zenon
\* write_pending_data with an error.
<1>WriteErrorFacts. ASSUME TypeOK, ListOK, CountOK, Breaks
                    PROVE  BuffersOK /\ KernelOK /\ CutOff(<<>>) /\ (broken => wire' = wire)
  <2> USE <1>WriteErrorFacts
  <2>1. PICK k \in 0..MinOf(room, Len(Queue) - 1) :
           /\ broken => k = 0
           /\ wire' = wire \o SubSeq(Queue, 1, k) /\ room' = room - k
           /\ m_tmpbuf' = Drop(m_tmpbuf, MinOf(k, Len(m_tmpbuf)))
           /\ m_pending' = Drop(m_pending, Completed(m_pending, k - MinOf(k, Len(m_tmpbuf))))
           /\ m_free' = m_free + Len(m_pending) - Len(m_pending')
    BY Zenon DEF Breaks
  <2> DEFINE first == MinOf(k, Len(m_tmpbuf))
             c == Completed(m_pending, k - first)
  <2>2. Queue \in Seq(Bytes) /\ m_tmpbuf \in Seq(Bytes) /\ m_pending \in Seq(Buffers)
        /\ Sound(m_pending) /\ Len(m_pending) \in Nat
    BY TypeFacts DEF ListOK
  <2>3. k \in 0..Len(Queue) /\ KernelOK /\ (broken => wire' = wire)
    <3>1. nospace' = nospace /\ Queue # <<>>  BY DEF Breaks
    <3> QED  BY <2>1, <2>2, <3>1, PartlyOffered, Zenon
  <2>4. /\ first \in 0..Len(m_tmpbuf) /\ k - first \in 0..Len(Unsent(m_pending))
        /\ m_tmpbuf = <<>> => first = 0
    BY <2>3, <1>QueueParts
  <2>5. m_tmpbuf' = Drop(m_tmpbuf, first) /\ m_pending' = Drop(m_pending, c)  BY <2>1
  <2> HIDE DEF first
  <2>6. c \in 0..Len(m_pending)  BY <2>2, <2>4, ListFacts, Zenon
  <2> HIDE DEF c
  <2>7. /\ m_pending' \in Seq(Buffers) /\ Len(m_pending') = Len(m_pending) - c /\ Sound(m_pending')
    BY <2>2, <2>5, <2>6, <1>SoundDrop, Zenon
  <2>8. Len(m_pending') \in 0..Len(m_pending)  BY <2>2, <2>6, <2>7
  <2>9. m_tmpbuf' \in Seq(Bytes) /\ (m_tmpbuf = <<>> => m_tmpbuf' = <<>>)
    <3>1. m_tmpbuf' \in Seq(Bytes)  BY <2>2, <2>4, <2>5, DropFacts, Zenon
    <3>2. Drop(m_tmpbuf, 0) = m_tmpbuf  BY <2>2, CutAtEnds
    <3> QED  BY <2>4, <2>5, <3>1, <3>2
  <2>10. BuffersOK  BY <2>1, <2>7, <2>8, <2>9, <1>GiveBack
  <2>11. CutOff(<<>>)
    <3>1. Queue \o <<>> = Queue  OBVIOUS
    <3> QED  BY <2>1, <2>3, <3>1, Zenon DEF CutOff
  <2> QED  BY <2>3, <2>10, <2>11, Zenon
<1> QED  BY <1>WriteFacts, <1>WriteErrorFacts, Zenon

-----------------------------------------------------------------------------
(* What a step does to the threads *)

Calls == [pc : PCs, msg : Seq(Bytes), close : BOOLEAN]

\* A thread that does not run is the same, or is notified.
Same(v) ==
    /\ th'[v].msg = th[v].msg
    /\ \/ th'[v].pc = th[v].pc
       \/ th[v].pc = "wait" /\ th'[v].pc = "woken"

\* Only t runs.
Moves(t) == th' \in [Threads -> Calls] /\ \A v \in Threads : v # t => Same(v)

\* A thread at a place of its code.
LEMMA AtFacts ==
    ASSUME NEW l \in PCs
    PROVE  At(l) \in Calls /\ At(l).pc = l /\ At(l).msg = <<>>
BY DEF At, Calls

\* What is known of a thread.
LEMMA ThreadFacts ==
    ASSUME TypeOK
    PROVE  /\ th \in [Threads -> Calls]
           /\ \A t \in Threads : /\ th[t] \in Calls /\ th[t].pc \in PCs
                                 /\ th[t].msg \in Seq(Bytes) /\ th[t].close \in BOOLEAN
<1>1. th \in [Threads -> Calls]  BY DEF TypeOK, Calls
<1>2. ASSUME NEW t \in Threads PROVE th[t] \in Calls  BY <1>1
<1>3. ASSUME NEW t \in Threads
      PROVE  th[t].pc \in PCs /\ th[t].msg \in Seq(Bytes) /\ th[t].close \in BOOLEAN
  BY <1>2 DEF Calls
<1> QED  BY <1>1, <1>3

\* A thread that is left alone is the same.
LEMMA SameThread ==
    ASSUME NEW v, th'[v] = th[v]
    PROVE  Same(v)
BY DEF Same

\* A thread goes on, the others stay where they are.
LEMMA StepFacts ==
    ASSUME TypeOK, NEW t \in Threads, NEW c \in Calls, th' = [th EXCEPT ![t] = c]
    PROVE  Moves(t) /\ th'[t] = c /\ \A v \in Threads : v # t => th'[v] = th[v]
<1>1. th \in [Threads -> Calls]  BY ThreadFacts
<1>2. th' \in [Threads -> Calls] /\ th'[t] = c /\ \A v \in Threads : v # t => th'[v] = th[v]
  BY <1>1
<1>3. ASSUME NEW v \in Threads, v # t PROVE Same(v)
  <2>1. th'[v] = th[v]  BY <1>3
  <2> QED  BY <2>1, SameThread
<1> QED  BY <1>2, <1>3 DEF Moves

\* The same with notify_all.
LEMMA NotifyFacts ==
    ASSUME TypeOK, NEW t \in Threads, NEW c \in Calls, th' = notify_all([th EXCEPT ![t] = c]),
           c.pc # "wait"
    PROVE  Moves(t) /\ th'[t] = c /\ \A v \in Threads : th'[v].pc # "wait"
<1> DEFINE g == [th EXCEPT ![t] = c]
<1>1. th \in [Threads -> Calls]  BY ThreadFacts
<1>2. g \in [Threads -> Calls] /\ g[t] = c /\ \A v \in Threads : v # t => g[v] = th[v]
  BY <1>1
<1> HIDE DEF g
<1>3. \A v \in Threads : g[v] \in Calls  BY <1>2
<1>4. ASSUME NEW v \in Threads, g[v].pc = "wait"
      PROVE  /\ [g[v] EXCEPT !.pc = "woken"] \in Calls
             /\ [g[v] EXCEPT !.pc = "woken"].pc = "woken"
             /\ [g[v] EXCEPT !.pc = "woken"].msg = g[v].msg
  <2>1. g[v] \in Calls /\ "woken" \in PCs  BY <1>3 DEF PCs
  <2> DEFINE e == g[v]
  <2> HIDE DEF e
  <2>2. e \in Calls  BY <2>1 DEF e
  <2>3. /\ [e EXCEPT !.pc = "woken"] \in Calls /\ [e EXCEPT !.pc = "woken"].pc = "woken"
        /\ [e EXCEPT !.pc = "woken"].msg = e.msg
    BY <2>1, <2>2 DEF Calls
  <2> QED  BY <2>3 DEF e
<1>5. th' = [v \in Threads |-> IF g[v].pc = "wait" THEN [g[v] EXCEPT !.pc = "woken"] ELSE g[v]]
  BY DEF notify_all, g
<1>6. \A v \in Threads :
         th'[v] = IF g[v].pc = "wait" THEN [g[v] EXCEPT !.pc = "woken"] ELSE g[v]
  BY <1>5, Zenon
<1>7. \A v \in Threads : th'[v] \in Calls  BY <1>3, <1>4, <1>6, Zenon
<1>8. th' \in [Threads -> Calls]
  <2>1. th' = [v \in Threads |-> th'[v]]  BY <1>5, Zenon
  <2> QED  BY <1>7, <2>1, Zenon
<1>9. \A v \in Threads : th'[v].pc # "wait"
  <2> SUFFICES ASSUME NEW v \in Threads PROVE th'[v].pc # "wait"  BY Zenon
  <2>1. CASE g[v].pc = "wait"
    <3>1. th'[v].pc = "woken"  BY <1>4, <1>6, <2>1, Zenon
    <3> QED  BY <3>1
  <2>2. CASE g[v].pc # "wait"
    <3>1. th'[v] = g[v]  BY <1>6, <2>2, Zenon
    <3> QED  BY <2>2, <3>1
  <2> QED  BY <2>1, <2>2
<1>10. th'[t] = c  BY <1>2, <1>6, Zenon
<1>11. ASSUME NEW v \in Threads, v # t PROVE Same(v)
  <2>1. g[v] = th[v]  BY <1>2, <1>11
  <2>2. CASE g[v].pc = "wait"
    <3>1. th'[v].pc = "woken" /\ th'[v].msg = g[v].msg  BY <1>4, <1>6, <2>2, Zenon
    <3> QED  BY <2>1, <2>2, <3>1 DEF Same
  <2>3. CASE g[v].pc # "wait"
    <3>1. th'[v] = th[v]  BY <1>6, <2>1, <2>3, Zenon
    <3> QED  BY <3>1, SameThread, Zenon
  <2> QED  BY <2>2, <2>3
<1> QED  BY <1>8, <1>9, <1>10, <1>11, Zenon DEF Moves

\* A call returns.
LEMMA ReturnFacts ==
    ASSUME NEW t, NEW ok
    PROVE  \E l \in {"idle", "fail"} : /\ Return(th, t, ok) = [th EXCEPT ![t] = At(l)]
                                       /\ At(l) \in Calls /\ At(l).pc = l /\ l \in PCs
<1>1. "idle" \in PCs /\ "fail" \in PCs  BY DEF PCs
<1>2. At("idle") \in Calls /\ At("idle").pc = "idle" /\ At("fail") \in Calls /\ At("fail").pc = "fail"
  BY <1>1, AtFacts
<1>3. CASE ok
  <2>1. Return(th, t, ok) = [th EXCEPT ![t] = At("idle")]  BY <1>3 DEF Return
  <2> QED  BY <1>1, <1>2, <2>1
<1>4. CASE ~ok
  <2>1. Return(th, t, ok) = [th EXCEPT ![t] = At("fail")]  BY <1>4 DEF Return
  <2> QED  BY <1>1, <1>2, <2>1
<1> QED  BY <1>3, <1>4

\* t has left with_fd, or is about to invalidate the socket.
Leaves(t) == Moves(t) /\ th'[t].pc \notin {"wait", "woken", "write", "free"}

\* A thread whose call returns leaves.
LEMMA ReturnLeaves ==
    ASSUME TypeOK, NEW t \in Threads, NEW ok, th' = Return(th, t, ok)
    PROVE  Leaves(t)
<1>1. PICK l \in {"idle", "fail"} : /\ Return(th, t, ok) = [th EXCEPT ![t] = At(l)]
                                    /\ At(l) \in Calls /\ At(l).pc = l
  BY ReturnFacts
<1>2. Moves(t) /\ th'[t] = At(l)  BY <1>1, StepFacts, Zenon
<1> QED  BY <1>1, <1>2 DEF Leaves

\* The same after notify_all: nobody waits any more.
LEMMA NotifyLeaves ==
    ASSUME TypeOK, NEW t \in Threads, NEW ok, th' = notify_all(Return(th, t, ok))
    PROVE  Leaves(t) /\ \A v \in Threads : th'[v].pc # "wait"
<1>1. PICK l \in {"idle", "fail"} : /\ Return(th, t, ok) = [th EXCEPT ![t] = At(l)]
                                    /\ At(l) \in Calls /\ At(l).pc = l
  BY ReturnFacts
<1>2. Moves(t) /\ th'[t] = At(l) /\ \A v \in Threads : th'[v].pc # "wait"
  BY <1>1, NotifyFacts, Zenon
<1> QED  BY <1>1, <1>2, Zenon DEF Leaves

-----------------------------------------------------------------------------
(* The names of messages *)

\* All bytes of a message have its name.
LEMMA MessageFacts ==
    ASSUME NEW id \in Nat, NEW len \in Nat
    PROVE  /\ Message(id, len) \in Seq(Bytes) /\ Len(Message(id, len)) = len
           /\ Ids(Message(id, len)) \subseteq {id}
           /\ Message(id, len) # <<>> => Message(id, len)[1][1] \in Ids(Message(id, len))
<1> DEFINE m == Message(id, len)
<1>1. m = [i \in 1..len |-> <<id, i>>]  BY DEF Message
<1>2. \A i \in 1..len : <<id, i>> \in Bytes /\ <<id, i>>[1] = id  BY DEF Bytes
<1> HIDE DEF m
<1>3. m \in [1..len -> Bytes] /\ \A i \in 1..len : m[i] = <<id, i>>  BY <1>1, <1>2
<1>4. m \in Seq(Bytes) /\ Len(m) = len  BY <1>3
<1>5. Ids(m) \subseteq {id}
  <2> SUFFICES ASSUME NEW e \in Ids(m) PROVE e = id  OBVIOUS
  <2>1. PICK i \in 1..len : e = m[i][1]  BY <1>4 DEF Ids
  <2>2. m[i] = <<id, i>> /\ <<id, i>>[1] = id  BY <1>3
  <2> QED  BY <2>1, <2>2
<1>6. ASSUME m # <<>> PROVE m[1][1] \in Ids(m)
  <2>1. 1 \in 1..Len(m)  BY <1>6
  <2> QED  BY <2>1 DEF Ids
<1> QED  BY <1>4, <1>5, <1>6 DEF m

\* The bytes that join the queue are the new ones on the wire and in the queue.
LEMMA CarriedIds ==
    TypeOK =>
        \A s \in Seq(Bytes) :
            Carried(s) =>
                Ids(wire' \o Queue') = Ids(wire \o Queue) \cup Ids(s)
\* The names in two sequences in a row.
<1>IdsConcat. ASSUME NEW a \in Seq(Bytes), NEW b \in Seq(Bytes)
              PROVE  Ids(a \o b) = Ids(a) \cup Ids(b)
  <2> DEFINE c == a \o b
  <2>1. /\ Len(a) \in Nat /\ Len(b) \in Nat /\ Len(c) = Len(a) + Len(b)
        /\ \A i \in 1..Len(a) : c[i] = a[i]
        /\ \A i \in 1..Len(b) : c[Len(a) + i] = b[i]
    OBVIOUS
  <2> HIDE DEF c
  <2>2. \A i \in 1..Len(b) : Len(a) + i \in 1..Len(c)  BY <2>1
  <2>3. ASSUME NEW i \in 1..Len(c)
        PROVE  i \in 1..Len(a) \/ \E j \in 1..Len(b) : i = Len(a) + j
    <3>1. CASE i <= Len(a)  BY <3>1
    <3>2. CASE ~(i <= Len(a))
      <4>1. i - Len(a) \in 1..Len(b) /\ i = Len(a) + (i - Len(a))  BY <2>1, <3>2
      <4> QED  BY <4>1, Zenon
    <3> QED  BY <3>1, <3>2
  <2>4. ASSUME NEW e \in Ids(c) PROVE e \in Ids(a) \cup Ids(b)
    <3>1. PICK i \in 1..Len(c) : e = c[i][1]  BY DEF Ids
    <3>2. CASE i \in 1..Len(a)
      <4>1. e = a[i][1]  BY <2>1, <3>1, <3>2
      <4> QED  BY <3>2, <4>1 DEF Ids
    <3>3. CASE \E j \in 1..Len(b) : i = Len(a) + j
      <4>1. PICK j \in 1..Len(b) : i = Len(a) + j  BY <3>3
      <4>2. e = b[j][1]  BY <2>1, <3>1, <4>1
      <4> QED  BY <4>2, Zenon DEF Ids
    <3> QED  BY <2>3, <3>2, <3>3
  <2>5. ASSUME NEW e \in Ids(a) PROVE e \in Ids(c)
    <3>1. PICK i \in 1..Len(a) : e = a[i][1]  BY DEF Ids
    <3>2. e = c[i][1] /\ i \in 1..Len(c)  BY <2>1, <3>1
    <3> QED  BY <3>2, Zenon DEF Ids
  <2>6. ASSUME NEW e \in Ids(b) PROVE e \in Ids(c)
    <3>1. PICK i \in 1..Len(b) : e = b[i][1]  BY DEF Ids
    <3>2. e = c[Len(a) + i][1] /\ Len(a) + i \in 1..Len(c)  BY <2>1, <2>2, <3>1, Zenon
    <3> QED  BY <3>2 DEF Ids
  <2> QED  BY <2>4, <2>5, <2>6 DEF c
<1> SUFFICES ASSUME TypeOK, NEW s \in Seq(Bytes), Carried(s)
             PROVE  Ids(wire' \o Queue') = Ids(wire \o Queue) \cup Ids(s)
  OBVIOUS
<1> DEFINE z == Queue \o s
<1>1. wire \in Seq(Bytes) /\ Queue \in Seq(Bytes)  BY TypeFacts
<1>2. z \in Seq(Bytes)  BY <1>1
<1>3. PICK n \in 0..Len(z) : wire' = wire \o SubSeq(z, 1, n) /\ Queue' = Drop(z, n)
  BY Zenon DEF Carried
<1>4. (wire \o Queue) \o s = wire \o z  BY ONLY <1>1, SMTT(60) DEF z
<1> HIDE DEF z
<1> DEFINE x == SubSeq(z, 1, n)
           y == Drop(z, n)
<1>5. x \in Seq(Bytes)  BY <1>2
<1>6. x \o y = z  BY <1>2, CutFacts
<1> HIDE DEF x, y
<1>7. (wire \o x) \o y = wire \o (x \o y)  BY ONLY <1>1, <1>5, SMTT(60)
<1>8. wire' \o Queue' = (wire \o Queue) \o s  BY <1>3, <1>4, <1>6, <1>7, Zenon DEF x, y
<1>9. wire \o Queue \in Seq(Bytes)  BY <1>1
<1> QED  BY <1>8, <1>9, <1>IdsConcat, Zenon

\* s is a message that only t has, and that has not gone out.
Own(t, s) ==
    /\ \E id \in 1..count', len \in Lengths : s = Message(id, len)
    /\ ~broken => Ids(s) \cap Ids(wire \o Queue) = {}
    /\ \A v \in Workers : v # t /\ Sending(v) => Ids(th[v].msg) \cap Ids(s) = {}

\* The message of a call consists of bytes with its name.
LEMMA OwnFacts ==
    ASSUME NEW t, NEW s, Own(t, s), count' \in 0..MaxMessages
    PROVE  s \in Seq(Bytes) /\ Ids(s) \subseteq 1..count' /\ Len(s) \in Nat
           /\ (s # <<>> => s[1][1] \in Ids(s))
<1>1. PICK id \in 1..count', len \in Lengths : s = Message(id, len)  BY DEF Own
<1>2. id \in Nat /\ len \in Nat /\ count' \in Nat  BY SendBufferAssumption
<1>3. /\ s \in Seq(Bytes) /\ Ids(s) \subseteq {id} /\ Len(s) = len
      /\ s # <<>> => s[1][1] \in Ids(s)
  BY <1>1, <1>2, MessageFacts
<1> QED  BY <1>3

-----------------------------------------------------------------------------
(* The conjuncts of the invariant after a step of thread t *)

\* What most steps have in common: the buffers are in order, t runs, and the
\* connection is not repaired.
Common(t) ==
    /\ BuffersOK /\ KernelOK /\ Moves(t)
    /\ {m_shutdown', broken', edge'} \subseteq BOOLEAN
    /\ count' \in count..MaxMessages /\ m_valid' = m_valid /\ (broken => broken')

\* The types are kept, and names that were given stay given.
LEMMA TypeKept ==
    ASSUME TypeOK, NEW t, Common(t)
    PROVE  TypeOK' /\ ListOK' /\ count \in Nat /\ count' \in Nat
           /\ \A i \in 1..count : i \in 1..count'
<1>1. /\ m_free' \in 0..BufCnt /\ m_pending' \in Seq(Buffers) /\ m_tmpbuf' \in Seq(Bytes)
      /\ wire' \in Seq(Bytes) /\ room' \in 0..KernelRoom /\ th' \in [Threads -> Calls]
      /\ {m_shutdown', m_valid', nospace', edge', broken'} \subseteq BOOLEAN
  <2>1. m_valid' \in BOOLEAN  BY DEF TypeOK, Common
  <2> QED  BY <2>1 DEF Common, BuffersOK, KernelOK, Moves
<1>2. count \in 0..MaxMessages /\ count' \in count..MaxMessages  BY DEF TypeOK, Common
<1>3. /\ count' \in 0..MaxMessages /\ count \in Nat /\ count' \in Nat
      /\ \A i \in 1..count : i \in 1..count'
  BY <1>2
<1>4. TypeOK'  BY <1>1, <1>3 DEF TypeOK, Buffers, Calls
<1>5. ListOK'  BY DEF Common, BuffersOK
<1> QED  BY <1>3, <1>4, <1>5

\* No buffer is lost or used twice.
LEMMA CountKept ==
    ASSUME TypeOK, CountOK, NEW t, Common(t)
    PROVE  CountOK'
<1>1. m_free' + Len(m_pending') = m_free + Len(m_pending) /\ m_valid' = m_valid
  BY DEF Common, BuffersOK
<1> QED  BY <1>1 DEF CountOK

\* Only a thread of an invalid socket, whose connection has failed, frees its buffers.
LEMMA FailureKept ==
    ASSUME FailureOK, NEW t, Common(t), th'[t].pc # "free"
    PROVE  FailureOK'
<1>1. "wait" # "free" /\ "woken" # "free"  OBVIOUS
<1>2. ASSUME NEW v \in Threads, th'[v].pc = "free" PROVE broken' /\ ~m_valid'
  <2>1. th[v].pc = "free"  BY <1>1, <1>2 DEF Common, Moves, Same
  <2> QED  BY <2>1 DEF FailureOK, Common
<1> QED  BY <1>2 DEF FailureOK, Common

WillSend(v) == th'[v].pc \in {"wait", "woken"}

\* Which threads are senders: t only if it is one afterwards.
LEMMA SendersKept ==
    ASSUME NEW t, Moves(t), NEW v \in Workers, v # t, WillSend(v)
    PROVE  Sending(v) /\ th'[v].msg = th[v].msg
<1>1. v \in Threads  BY DEF Threads
<1>2. Same(v)  BY <1>1 DEF Moves
<1>3. th'[v].pc \in {"wait", "woken"}  BY DEF WillSend
<1>4. th[v].pc \in {"wait", "woken"} /\ th'[v].msg = th[v].msg  BY <1>2, <1>3 DEF Same
<1> QED  BY <1>4 DEF Sending

\* If t is a sender afterwards, its message is s, and nothing has happened.
Waits(t, s) ==
    WillSend(t) => /\ th'[t].msg = s /\ Own(t, s)
                   /\ wire' = wire /\ Queue' = Queue /\ broken' = broken

\* Those who wait still have messages of their own.
LEMMA MessagesKept ==
    ASSUME MessagesOK, NEW t, NEW s, Moves(t), Waits(t, s), \A i \in 1..count : i \in 1..count'
    PROVE  MessagesOK'
<1>1. ASSUME NEW w \in Workers, WillSend(w)
      PROVE  \E id \in 1..count', len \in Lengths : th'[w].msg = Message(id, len)
  <2>1. CASE w = t
    <3>1. th'[w].msg = s /\ Own(t, s)  BY <1>1, <2>1 DEF Waits
    <3> QED  BY <3>1 DEF Own
  <2>2. CASE w # t
    <3>1. Sending(w) /\ th'[w].msg = th[w].msg  BY <1>1, <2>2, SendersKept
    <3>2. PICK id \in 1..count, len \in Lengths : th[w].msg = Message(id, len)
      BY <3>1 DEF MessagesOK
    <3> QED  BY <3>1, <3>2
  <2> QED  BY <2>1, <2>2
<1>2. ASSUME NEW v \in Workers, NEW w \in Workers, v # w, WillSend(v), WillSend(w)
      PROVE  Ids(th'[v].msg) \cap Ids(th'[w].msg) = {}
  <2>1. v # t => Sending(v) /\ th'[v].msg = th[v].msg  BY <1>2, SendersKept
  <2>2. w # t => Sending(w) /\ th'[w].msg = th[w].msg  BY <1>2, SendersKept
  <2>3. CASE v # t /\ w # t
    <3>1. Ids(th[v].msg) \cap Ids(th[w].msg) = {}  BY <1>2, <2>1, <2>2, <2>3, Zenon DEF MessagesOK
    <3> QED  BY <2>1, <2>2, <2>3, <3>1
  <2>4. CASE v = t
    <3>1. th'[v].msg = s /\ Own(t, s) /\ w # t  BY <1>2, <2>4 DEF Waits
    <3>2. Ids(th[w].msg) \cap Ids(s) = {}  BY <2>2, <3>1 DEF Own
    <3> QED  BY <2>2, <3>1, <3>2
  <2>5. CASE w = t
    <3>1. th'[w].msg = s /\ Own(t, s) /\ v # t  BY <1>2, <2>5 DEF Waits
    <3>2. Ids(th[v].msg) \cap Ids(s) = {}  BY <2>1, <3>1 DEF Own
    <3> QED  BY <2>1, <3>1, <3>2
  <2> QED  BY <2>3, <2>4, <2>5
<1> QED  BY <1>1, <1>2, Zenon DEF MessagesOK, Sending, WillSend

\* While the connection works, t has sent nothing, or its own message s.
SendsOwn(t, s) ==
    ~broken' => \/ Ids(wire' \o Queue') = Ids(wire \o Queue)
                \/ /\ Own(t, s) /\ ~WillSend(t)
                   /\ Ids(wire' \o Queue') = Ids(wire \o Queue) \cup Ids(s)

\* What went out and is queued has names of messages that nobody waits to send.
LEMMA BytesKept ==
    ASSUME TypeOK, BytesOK, NEW t, NEW s, Common(t), Waits(t, s), SendsOwn(t, s)
    PROVE  BytesOK'
<1> SUFFICES ASSUME ~broken'
             PROVE  /\ Ids(wire' \o Queue') \subseteq 1..count'
                    /\ \A w \in Workers : WillSend(w) => Ids(th'[w].msg) \cap Ids(wire' \o Queue') = {}
  BY DEF BytesOK, Sending, WillSend
<1> DEFINE old == Ids(wire \o Queue)
           new == Ids(wire' \o Queue')
<1>1. ~broken /\ Moves(t)  BY DEF Common
<1>2. /\ old \subseteq 1..count
      /\ \A w \in Workers : Sending(w) => Ids(th[w].msg) \cap old = {}
  BY <1>1 DEF BytesOK
<1>3. TypeOK' /\ \A i \in 1..count : i \in 1..count'  BY TypeKept
<1>4. count' \in 0..MaxMessages  BY <1>3 DEF TypeOK
<1> HIDE DEF old, new
<1>5. CASE new = old
  <2>1. new \subseteq 1..count'  BY <1>2, <1>3, <1>5
  <2>2. ASSUME NEW w \in Workers, WillSend(w) PROVE Ids(th'[w].msg) \cap new = {}
    <3>1. CASE w = t
      <4>1. th'[w].msg = s /\ Own(t, s)  BY <2>2, <3>1 DEF Waits
      <4>2. Ids(s) \cap old = {}  BY <1>1, <4>1 DEF Own, old
      <4> QED  BY <1>5, <4>1, <4>2
    <3>2. CASE w # t
      <4>1. Sending(w) /\ th'[w].msg = th[w].msg  BY <1>1, <2>2, <3>2, SendersKept
      <4> QED  BY <1>2, <1>5, <4>1
    <3> QED  BY <3>1, <3>2
  <2> QED  BY <2>1, <2>2 DEF new
<1>6. CASE Own(t, s) /\ ~WillSend(t) /\ new = old \cup Ids(s)
  <2>1. Ids(s) \subseteq 1..count'  BY <1>4, <1>6, OwnFacts
  <2>2. new \subseteq 1..count'  BY <1>2, <1>3, <1>6, <2>1, Zenon
  <2>3. ASSUME NEW w \in Workers, WillSend(w) PROVE Ids(th'[w].msg) \cap new = {}
    <3>1. w # t  BY <1>6, <2>3
    <3>2. Sending(w) /\ th'[w].msg = th[w].msg  BY <1>1, <2>3, <3>1, SendersKept
    <3>3. Ids(th[w].msg) \cap old = {}  BY <1>2, <3>2
    <3>4. Ids(th[w].msg) \cap Ids(s) = {}  BY <1>6, <3>1, <3>2 DEF Own
    <3> QED  BY <1>6, <3>2, <3>3, <3>4
  <2> QED  BY <2>2, <2>3 DEF new
<1> QED  BY <1>5, <1>6 DEF SendsOwn, old, new

\* Nothing is forgotten: a report that was to come is still to come, and new data in
\* the queue have met EAGAIN.
Watches(t) ==
    /\ nospace => nospace' \/ broken'
    /\ edge' = edge
    /\ th[t].pc # "write" \/ nospace' \/ broken' \/ (m_tmpbuf' = <<>> /\ m_pending' = <<>>)
    /\ m_tmpbuf' # <<>> \/ m_pending' # <<>> =>
          m_tmpbuf # <<>> \/ m_pending # <<>> \/ nospace' \/ broken'

-----------------------------------------------------------------------------
(* The steps of ByteStream *)

StreamStep == [Stream!Next]_<<wire, Queue, ~broken>>

\* A message joins the stream and a part of the queue goes out.
LEMMA StreamCarries ==
    ASSUME NEW m \in Stream!Messages, Stream!Fresh(m), Carried(m), ~broken, broken' = broken
    PROVE  StreamStep
<1>1. PICK n \in 0..Len(Queue \o m) : /\ wire' = wire \o SubSeq(Queue \o m, 1, n)
                                      /\ Queue' = Drop(Queue \o m, n)
  BY Zenon DEF Carried
<1>2. Stream!Carry(m, n)  BY <1>1 DEF Stream!Carry, Drop
<1>3. Stream!Next  BY <1>2 DEF Stream!Next
<1> QED  BY <1>3 DEF StreamStep

\* The connection fails after a part of the queue went out.
LEMMA StreamGoesDown ==
    ASSUME NEW m \in Stream!Messages, Stream!Fresh(m), CutOff(m), ~broken, broken' = TRUE
    PROVE  StreamStep
<1>1. PICK n \in 0..Len(Queue \o m) : wire' = wire \o SubSeq(Queue \o m, 1, n)
  BY Zenon DEF CutOff
<1>2. Stream!GoDown(m, n)  BY <1>1 DEF Stream!GoDown
<1>3. Stream!Next  BY <1>2 DEF Stream!Next
<1> QED  BY <1>3 DEF StreamStep

\* Nothing more goes out once the connection has failed.
LEMMA StreamIsDown ==
    ASSUME broken, broken', wire' = wire
    PROVE  StreamStep
<1>1. Stream!Down  BY DEF Stream!Down
<1>2. Stream!Next  BY <1>1 DEF Stream!Next
<1> QED  BY <1>2 DEF StreamStep

\* No bytes are a message that ByteStream may append any time.
LEMMA NothingIsFresh == <<>> \in Stream!Messages /\ Stream!Fresh(<<>>)
BY DEF Stream!Messages, Stream!Fresh

-----------------------------------------------------------------------------
(* Calls *)

\* The data do not change.
LEMMA UnchangedFacts ==
    ASSUME TypeOK, ListOK, UNCHANGED <<bufVars, room, nospace, wire>>
    PROVE  BuffersOK /\ KernelOK /\ Queue' = Queue /\ capacity' = capacity
           /\ m_tmpbuf' = m_tmpbuf /\ m_pending' = m_pending /\ wire' = wire /\ nospace' = nospace
<1>1. /\ m_free' = m_free /\ m_pending' = m_pending /\ m_tmpbuf' = m_tmpbuf /\ room' = room
      /\ nospace' = nospace /\ wire' = wire
  BY DEF bufVars
<1>2. nospace \in BOOLEAN  BY DEF TypeOK
<1>3. BuffersOK  BY <1>1, TypeFacts DEF BuffersOK, ListOK
<1>4. KernelOK  BY <1>1, <1>2, TypeFacts DEF KernelOK
<1> QED  BY <1>1, <1>3, <1>4 DEF Queue, capacity

\* A thread calls with a message of its own.
Calling(t, s, close) ==
    /\ IInv /\ t \in Workers /\ th[t].pc \in {"idle", "woken"} /\ close \in BOOLEAN
    /\ Own(t, s) /\ count' \in count..MaxMessages /\ m_valid' = m_valid /\ edge' = edge

\* The invariant is kept when its parts are.
LEMMA InvariantKept ==
    IInv =>
        \A t, s :
            Common(t) /\ th'[t].pc # "free" /\ Waits(t, s) /\ SendsOwn(t, s) /\ Watches(t)
            /\ WaitersCannotSend' =>
                IInv'
\* While data is queued, a report is still to come.
<1>WatchedKept. ASSUME QueueIsWatched, NEW t, Common(t), Watches(t)
                PROVE  QueueIsWatched'
  <2> USE <1>WatchedKept
  <2> SUFFICES ASSUME m_tmpbuf' # <<>> \/ m_pending' # <<>>, ~nospace', ~edge', ~broken'
               PROVE  \E w \in Workers : th'[w].pc = "write"
    BY DEF QueueIsWatched
  <2>1. m_tmpbuf # <<>> \/ m_pending # <<>>  BY DEF Watches
  <2>2. ~nospace /\ ~edge /\ ~broken /\ th[t].pc # "write"  BY DEF Watches, Common
  <2>3. PICK w \in Workers : th[w].pc = "write"  BY <2>1, <2>2 DEF QueueIsWatched
  <2>4. w # t /\ w \in Threads /\ "write" # "wait"  BY <2>2, <2>3 DEF Threads
  <2>5. th'[w].pc = "write"  BY <2>3, <2>4 DEF Common, Moves, Same
  <2> QED  BY <2>5
<1> SUFFICES ASSUME IInv, NEW t, NEW s, Common(t), th'[t].pc # "free", Waits(t, s),
                    SendsOwn(t, s), Watches(t), WaitersCannotSend'
             PROVE  IInv'
  OBVIOUS
<1>1. TypeOK /\ ListOK /\ CountOK /\ FailureOK /\ QueueIsWatched /\ MessagesOK /\ BytesOK
  BY DEF IInv
<1>2. TypeOK' /\ ListOK' /\ \A i \in 1..count : i \in 1..count'  BY <1>1, TypeKept
<1>3. CountOK'  BY <1>1, CountKept
<1>4. FailureOK'  BY <1>1, FailureKept
<1>5. QueueIsWatched'  BY <1>1, <1>WatchedKept
<1>6. MessagesOK'
  <2>1. Moves(t)  BY DEF Common
  <2> QED  BY <1>1, <1>2, <2>1, MessagesKept
<1>7. BytesOK'  BY <1>1, BytesKept
<1> QED  BY <1>2, <1>3, <1>4, <1>5, <1>6, <1>7 DEF IInv

\* The state of the socket does not change: who waits must still wait.
LEMMA WaitersStay ==
    ASSUME WaitersCannotSend, NEW t, Moves(t), UNCHANGED <<bufVars, m_shutdown>>,
           capacity' = capacity, broken => broken',
           th'[t].pc = "wait" => ~can_send(Len(th'[t].msg))
    PROVE  WaitersCannotSend'
<1>1. m_tmpbuf' = m_tmpbuf /\ m_pending' = m_pending /\ m_shutdown' = m_shutdown
  BY DEF bufVars
<1> SUFFICES ASSUME NEW w \in Workers, th'[w].pc = "wait", ~broken'
             PROVE  ~can_send(Len(th[w].msg))'
  BY DEF WaitersCannotSend
<1>2. ~can_send(Len(th'[w].msg))
  <2>1. CASE w = t  BY <2>1
  <2>2. CASE w # t
    <3>1. w \in Threads  BY DEF Threads
    <3>2. th[w].pc = "wait" /\ th'[w].msg = th[w].msg
      BY <2>2, <3>1 DEF Moves, Same
    <3>3. ~can_send(Len(th[w].msg))  BY <3>2 DEF WaitersCannotSend
    <3> QED  BY <3>2, <3>3
  <2> QED  BY <2>1, <2>2
<1> QED  BY <1>1, <1>2 DEF can_send

\* A thread that leaves waits for nothing and frees nothing.
LEMMA LeavesFacts ==
    ASSUME NEW t, Leaves(t)
    PROVE  Moves(t) /\ th'[t].pc # "wait" /\ th'[t].pc # "free" /\ ~WillSend(t)
           /\ \A s : Waits(t, s)
<1>1. Moves(t) /\ th'[t].pc # "wait" /\ th'[t].pc # "free" /\ ~WillSend(t)
  BY DEF Leaves, WillSend
<1>2. \A s : Waits(t, s)  BY <1>1 DEF Waits
<1> QED  BY <1>1, <1>2

\* A step that changes no data: the thread leaves.
LEMMA LeavesOnly ==
    ASSUME IInv, NEW t \in Threads, Leaves(t), th[t].pc # "write" \/ broken',
           UNCHANGED <<bufVars, m_shutdown, room, nospace, wire>>,
           broken' = broken, m_valid' = m_valid, edge' = edge, count' \in count..MaxMessages
    PROVE  IInv' /\ StreamStep
<1>1. /\ TypeOK /\ ListOK /\ WaitersCannotSend
      /\ {m_shutdown, m_valid, nospace, edge, broken} \subseteq BOOLEAN
  BY DEF IInv, TypeOK
<1>2. UNCHANGED <<bufVars, room, nospace, wire>> /\ UNCHANGED <<bufVars, m_shutdown>>
      /\ m_shutdown' = m_shutdown
  OBVIOUS
<1>3. /\ BuffersOK /\ KernelOK /\ Queue' = Queue /\ capacity' = capacity /\ wire' = wire
      /\ m_tmpbuf' = m_tmpbuf /\ m_pending' = m_pending /\ nospace' = nospace
  BY <1>1, UnchangedFacts
<1>4. Moves(t) /\ th'[t].pc # "wait" /\ th'[t].pc # "free" /\ Waits(t, <<>>)
  BY LeavesFacts
<1>5. Common(t)  BY <1>1, <1>2, <1>3, <1>4 DEF Common
<1>6. SendsOwn(t, <<>>)  BY <1>3 DEF SendsOwn
<1>7. Watches(t)  BY <1>3 DEF Watches
<1>8. WaitersCannotSend'  BY <1>1, <1>2, <1>3, <1>4, WaitersStay
<1>9. IInv'  BY <1>4, <1>5, <1>6, <1>7, <1>8, InvariantKept
<1>10. StreamStep  BY <1>3 DEF StreamStep
<1> QED  BY <1>9, <1>10

\* No sender misses a wakeup when none waits.
LEMMA NobodyWaits ==
    ASSUME \A v \in Threads : th'[v].pc # "wait"
    PROVE  WaitersCannotSend'
<1>1. \A w \in Workers : w \in Threads  BY DEF Threads
<1> QED  BY <1>1 DEF WaitersCannotSend

\* Nor when the connection has failed.
LEMMA BrokenWaits ==
    ASSUME broken'
    PROVE  WaitersCannotSend'
BY DEF WaitersCannotSend

\* The connection has failed.
LEMMA BrokenKept ==
    ASSUME IInv, NEW t, BuffersOK, KernelOK, Leaves(t), broken' = TRUE, m_shutdown' = m_shutdown,
           m_valid' = m_valid, edge' \in BOOLEAN, count' \in count..MaxMessages
    PROVE  IInv'
<1>1. TypeOK /\ ListOK /\ CountOK /\ FailureOK /\ MessagesOK /\ BytesOK
      /\ {m_shutdown, broken} \subseteq BOOLEAN
  BY DEF IInv, TypeOK
<1>2. Moves(t) /\ th'[t].pc # "free" /\ Waits(t, <<>>)  BY LeavesFacts
<1>3. Common(t)  BY <1>1, <1>2 DEF Common
<1>4. WaitersCannotSend'  BY BrokenWaits
<1>5. TypeOK' /\ ListOK' /\ \A i \in 1..count : i \in 1..count'  BY <1>1, <1>3, TypeKept
<1>6. CountOK'  BY <1>1, <1>3, CountKept
<1>7. FailureOK'  BY <1>1, <1>2, <1>3, FailureKept
<1>8. QueueIsWatched'  BY DEF QueueIsWatched
<1>9. MessagesOK'  BY <1>1, <1>2, <1>5, MessagesKept
<1>10. BytesOK'  BY DEF BytesOK
<1> QED  BY <1>4, <1>5, <1>6, <1>7, <1>8, <1>9, <1>10 DEF IInv

\* send, sendv, send_close and sendv_close, up to wait() or to the end.
LEMMA CallKeeps ==
    \A t, s, close :
        Calling(t, s, close) /\ Call(t, s, close) =>
            IInv' /\ StreamStep
\* The message of a call is one that ByteStream may append.
<1>OwnIsFresh. ASSUME TypeOK, NEW t, NEW s, Own(t, s), count' \in 0..MaxMessages,
                      ~broken
               PROVE  s \in Stream!Messages /\ Stream!Fresh(s)
  <2> USE <1>OwnIsFresh
  <2>1. s \in Seq(Bytes) /\ (s # <<>> => s[1][1] \in Ids(s))  BY OwnFacts
  <2>2. PICK id \in 1..count', len \in Lengths : s = Message(id, len)  BY DEF Own
  <2>3. id \in 1..MaxMessages  BY SendBufferAssumption
  <2>4. s = Stream!Message(id, len)  BY <2>2 DEF Message, Stream!Message
  <2>5. s \in Stream!Messages  BY <2>3, <2>4 DEF Stream!Messages
  <2>6. Stream!Fresh(s)
    <3> SUFFICES ASSUME s # <<>>, NEW i \in DOMAIN (wire \o Queue)
                 PROVE  (wire \o Queue)[i][1] # s[1][1]
      BY DEF Stream!Fresh
    <3> DEFINE b == wire \o Queue
    <3> HIDE DEF b
    <3>1. DOMAIN b = 1..Len(b)  OBVIOUS
    <3>2. b[i][1] \in Ids(b)  BY <3>1, Zenon DEF Ids, b
    <3>3. Ids(s) \cap Ids(b) = {}  BY DEF Own, b
    <3> QED  BY <2>1, <3>2, <3>3, Zenon DEF b
  <2> QED  BY <2>5, <2>6
\* A sender that goes on waiting: there is no more room than before.
<1>WaitersKept. ASSUME TypeOK, WaitersCannotSend, NEW t, Common(t),
                       m_shutdown' = FALSE, m_tmpbuf = <<>>,
                       m_pending # <<>> => NoRoomGained, th'[t].pc # "wait"
                PROVE  WaitersCannotSend'
  <2> USE <1>WaitersKept
  <2> SUFFICES ASSUME NEW w \in Workers, th'[w].pc = "wait", ~broken'
               PROVE  ~can_send(Len(th[w].msg))'
    BY DEF WaitersCannotSend
  <2>1. w # t /\ w \in Threads /\ ~broken  BY DEF Common, Threads
  <2>2. Same(w)  BY <2>1 DEF Common, Moves
  <2>3. th[w].pc = "wait" /\ th'[w].msg = th[w].msg  BY <2>2 DEF Same
  <2> DEFINE L == Len(th[w].msg)
  <2>4. ~can_send(L)  BY <2>1, <2>3 DEF WaitersCannotSend
  <2>5. m_pending # <<>> /\ ~(capacity >= L)  BY <2>4 DEF can_send
  <2>6. m_pending' # <<>> /\ m_tmpbuf' = <<>> /\ capacity' <= capacity /\ capacity' \in Int
    BY <2>5 DEF NoRoomGained
  <2>7. L \in Nat /\ capacity \in Int
    <3>1. capacity \in Int  BY RoomType
    <3> QED  BY <3>1
  <2>8. ~(capacity' >= L)
    <3> HIDE DEF L
    <3> QED  BY <2>5, <2>6, <2>7
  <2>9. Len(th'[w].msg) = L  BY <2>3
  <2> QED  BY <2>6, <2>8, <2>9 DEF can_send
\* What is known when a thread calls.
<1>CallingFacts. ASSUME NEW t, NEW s, NEW close, Calling(t, s, close)
                 PROVE  /\ TypeOK /\ ListOK /\ CountOK /\ t \in Threads /\ s \in Seq(Bytes)
                        /\ th[t].pc # "write" /\ count' \in 0..MaxMessages
                        /\ {m_shutdown, m_valid, nospace, edge, broken} \subseteq BOOLEAN
  <2> USE <1>CallingFacts
  <2>1. TypeOK /\ ListOK /\ CountOK /\ t \in Threads  BY DEF Calling, IInv, Threads
  <2>2. th[t].pc # "write"
    <3>1. th[t].pc \in {"idle", "woken"}  BY DEF Calling
    <3> QED  BY <3>1
  <2>3. count \in 0..MaxMessages /\ count' \in count..MaxMessages  BY <2>1 DEF TypeOK, Calling
  <2>4. count' \in 0..MaxMessages  BY <2>3
  <2>5. s \in Seq(Bytes)  BY <2>4, OwnFacts DEF Calling
  <2>6. {m_shutdown, m_valid, nospace, edge, broken} \subseteq BOOLEAN  BY <2>1 DEF TypeOK
  <2> QED  BY <2>1, <2>2, <2>4, <2>5, <2>6
\* The call has to wait.
<1>CallWaits. ASSUME NEW t, NEW s, NEW close, Calling(t, s, close), ~can_send(Len(s)),
                     th' = [th EXCEPT ![t] = [pc |-> "wait", msg |-> s, close |-> close]],
                     UNCHANGED <<bufVars, m_shutdown, room, nospace, broken, wire>>
              PROVE  IInv' /\ StreamStep
  <2> USE <1>CallWaits
  <2> DEFINE c == [pc |-> "wait", msg |-> s, close |-> close]
  <2>1. /\ TypeOK /\ ListOK /\ t \in Threads /\ s \in Seq(Bytes) /\ th[t].pc # "write"
        /\ {m_shutdown, m_valid, nospace, edge, broken} \subseteq BOOLEAN
    BY <1>CallingFacts
  <2>2. IInv /\ WaitersCannotSend /\ close \in BOOLEAN /\ Own(t, s) /\ count' \in count..MaxMessages
        /\ m_valid' = m_valid /\ edge' = edge
    BY DEF Calling, IInv
  <2>3. c \in Calls /\ c.pc = "wait" /\ c.msg = s  BY <2>1, <2>2 DEF Calls, PCs
  <2>4. UNCHANGED <<bufVars, room, nospace, wire>> /\ UNCHANGED <<bufVars, m_shutdown>>
        /\ m_shutdown' = m_shutdown /\ broken' = broken
    OBVIOUS
  <2>5. /\ BuffersOK /\ KernelOK /\ Queue' = Queue /\ capacity' = capacity /\ wire' = wire
        /\ m_tmpbuf' = m_tmpbuf /\ m_pending' = m_pending /\ nospace' = nospace
    BY <2>1, UnchangedFacts
  <2> HIDE DEF c
  <2>6. Moves(t) /\ th'[t] = c  BY <2>1, <2>3, StepFacts, Zenon DEF c
  <2>7. th'[t].pc = "wait" /\ th'[t].msg = s  BY <2>3, <2>6
  <2>8. Common(t)  BY <2>1, <2>2, <2>4, <2>5, <2>6 DEF Common
  <2>9. Waits(t, s)  BY <2>2, <2>4, <2>5, <2>7 DEF Waits
  <2>10. SendsOwn(t, s)  BY <2>5 DEF SendsOwn
  <2>11. Watches(t)  BY <2>1, <2>2, <2>5 DEF Watches
  <2>12. WaitersCannotSend'  BY <2>2, <2>4, <2>5, <2>6, <2>7, WaitersStay
  <2>13. IInv'  BY <2>2, <2>7, <2>8, <2>9, <2>10, <2>11, <2>12, InvariantKept
  <2>14. StreamStep  BY <2>5 DEF StreamStep
  <2> QED  BY <2>13, <2>14
\* Nobody waits on a connection that works when nothing is queued.
<1>NobodyToWait. ASSUME WaitersCannotSend, NEW t, Common(t), m_tmpbuf = <<>>,
                        m_pending = <<>>, th'[t].pc # "wait"
                 PROVE  WaitersCannotSend'
  <2> USE <1>NobodyToWait
  <2> SUFFICES ASSUME NEW w \in Workers, th'[w].pc = "wait", ~broken'
               PROVE  FALSE
    BY DEF WaitersCannotSend
  <2>1. w # t /\ w \in Threads /\ ~broken  BY DEF Common, Threads
  <2>2. th[w].pc = "wait"  BY <2>1 DEF Common, Moves, Same
  <2> QED  BY <2>1, <2>2 DEF WaitersCannotSend, can_send
\* The message is sent or queued.
<1>CallAccepts. ASSUME NEW t, NEW s, NEW close, Calling(t, s, close), can_send(Len(s)),
                       ~m_shutdown, ~(broken /\ m_pending = <<>>), Accept(t, s, close),
                       broken' = broken
                PROVE  IInv' /\ StreamStep
  <2> USE <1>CallAccepts
  <2>1. /\ TypeOK /\ ListOK /\ CountOK /\ t \in Threads /\ s \in Seq(Bytes) /\ th[t].pc # "write"
        /\ count' \in 0..MaxMessages
        /\ {m_shutdown, m_valid, nospace, edge, broken} \subseteq BOOLEAN
    BY <1>CallingFacts
  <2>2. IInv /\ WaitersCannotSend /\ close \in BOOLEAN /\ Own(t, s) /\ count' \in count..MaxMessages
        /\ m_valid' = m_valid /\ edge' = edge
    BY DEF Calling, IInv
  <2>3. m_tmpbuf = <<>> /\ (m_pending = <<>> \/ capacity >= Len(s))  BY DEF can_send
  <2>4. /\ BuffersOK /\ KernelOK /\ Carried(s) /\ (nospace => nospace')
        /\ m_pending # <<>> => NoRoomGained /\ wire' = wire
        /\ m_pending = <<>> => (m_tmpbuf' # <<>> \/ m_pending' # <<>> => nospace')
        /\ m_shutdown' = close
        /\ \/ th' = notify_all(Return(th, t, TRUE))
           \/ th' = Return(th, t, ~close) /\ (close => m_pending = <<>>)
    BY <2>1, <2>3, AcceptFacts, Zenon
  <2>5. /\ Leaves(t)
        /\ \/ \A v \in Threads : th'[v].pc # "wait"
           \/ close => m_pending = <<>>
    BY <2>1, <2>4, NotifyLeaves, ReturnLeaves, Zenon
  <2>6. Moves(t) /\ th'[t].pc # "wait" /\ th'[t].pc # "free" /\ ~WillSend(t) /\ Waits(t, s)
    BY <2>5, LeavesFacts
  <2>7. Common(t)  BY <2>1, <2>2, <2>4, <2>6 DEF Common
  <2>8. Ids(wire' \o Queue') = Ids(wire \o Queue) \cup Ids(s)  BY <2>1, <2>4, CarriedIds
  <2>9. SendsOwn(t, s)  BY <2>2, <2>6, <2>8 DEF SendsOwn
  <2>10. Watches(t)  BY <2>1, <2>2, <2>4 DEF Watches
  <2>11. WaitersCannotSend'
    <3>1. CASE \A v \in Threads : th'[v].pc # "wait"  BY <3>1, NobodyWaits
    <3>2. CASE close /\ m_pending = <<>>
      BY <2>2, <2>3, <2>6, <2>7, <3>2, <1>NobodyToWait
    <3>3. CASE ~close
      <4>1. m_shutdown' = FALSE  BY <2>2, <2>4, <3>3
      <4> QED  BY <2>1, <2>2, <2>3, <2>4, <2>6, <2>7, <4>1, <1>WaitersKept, Zenon
    <3> QED  BY <2>5, <3>1, <3>2, <3>3
  <2>12. IInv'  BY <2>2, <2>6, <2>7, <2>9, <2>10, <2>11, InvariantKept
  <2>13. StreamStep
    <3>1. CASE broken  BY <2>4, <3>1, StreamIsDown
    <3>2. CASE ~broken
      <4>1. s \in Stream!Messages /\ Stream!Fresh(s)  BY <2>1, <2>2, <3>2, <1>OwnIsFresh
      <4> QED  BY <2>4, <3>2, <4>1, StreamCarries
    <3> QED  BY <3>1, <3>2
  <2> QED  BY <2>12, <2>13
\* The call meets an error.
<1>CallFails. ASSUME NEW t, NEW s, NEW close, Calling(t, s, close), can_send(Len(s)),
                     ~m_shutdown, SendError(t, s)
              PROVE  IInv' /\ StreamStep
  <2> USE <1>CallFails
  <2>1. /\ TypeOK /\ ListOK /\ t \in Threads /\ s \in Seq(Bytes) /\ count' \in 0..MaxMessages
        /\ {m_shutdown, m_valid, nospace, edge, broken} \subseteq BOOLEAN
    BY <1>CallingFacts
  <2>2. IInv /\ Own(t, s) /\ count' \in count..MaxMessages /\ m_valid' = m_valid /\ edge' = edge
    BY DEF Calling
  <2>3. m_tmpbuf = <<>>  BY DEF can_send
  <2>4. /\ BuffersOK /\ KernelOK /\ CutOff(s) /\ (broken => wire' = wire)
        /\ broken' = TRUE /\ m_shutdown' = m_shutdown /\ th' = Return(th, t, FALSE)
    BY <2>1, <2>3, SendErrorFacts, Zenon
  <2>5. Leaves(t) /\ edge' \in BOOLEAN  BY <2>1, <2>2, <2>4, ReturnLeaves, Zenon
  <2>6. IInv'  BY <2>2, <2>4, <2>5, BrokenKept
  <2>7. StreamStep
    <3>1. CASE broken  BY <2>4, <3>1, StreamIsDown
    <3>2. CASE ~broken
      <4>1. s \in Stream!Messages /\ Stream!Fresh(s)  BY <2>1, <2>2, <3>2, <1>OwnIsFresh
      <4> QED  BY <2>4, <3>2, <4>1, StreamGoesDown
    <3> QED  BY <3>1, <3>2
  <2> QED  BY <2>6, <2>7
<1> SUFFICES ASSUME NEW t, NEW s, NEW close, Calling(t, s, close), Call(t, s, close)
             PROVE  IInv' /\ StreamStep
  OBVIOUS
<1>1. CASE /\ ~can_send(Len(s))
           /\ th' = [th EXCEPT ![t] = [pc |-> "wait", msg |-> s, close |-> close]]
           /\ UNCHANGED <<bufVars, m_shutdown, room, nospace, broken, wire>>
  BY <1>1, <1>CallWaits, Zenon
<1>2. CASE /\ m_shutdown /\ th' = Return(th, t, FALSE)
           /\ UNCHANGED <<bufVars, m_shutdown, room, nospace, broken, wire>>
  <2>1. TypeOK /\ t \in Threads /\ th[t].pc # "write"  BY <1>CallingFacts
  <2>2. Leaves(t)  BY <1>2, <2>1, ReturnLeaves, Zenon
  <2>3. IInv /\ count' \in count..MaxMessages /\ m_valid' = m_valid /\ edge' = edge
    BY DEF Calling
  <2>4. UNCHANGED <<bufVars, m_shutdown, room, nospace, wire>> /\ broken' = broken
    BY <1>2
  <2> QED  BY <2>1, <2>2, <2>3, <2>4, LeavesOnly
<1>3. CASE can_send(Len(s)) /\ ~m_shutdown /\ ~(broken /\ m_pending = <<>>)
           /\ Accept(t, s, close) /\ UNCHANGED broken
  BY <1>3, <1>CallAccepts
<1>4. CASE can_send(Len(s)) /\ ~m_shutdown /\ SendError(t, s)
  BY <1>4, <1>CallFails
<1> QED  BY <1>1, <1>2, <1>3, <1>4, Zenon DEF Call

\* A worker calls send or sendv, or one of their _close forms.
LEMMA SendKeeps ==
    ASSUME IInv, NEW w \in Workers, NEW len \in Lengths, NEW close \in BOOLEAN, Send(w, len, close)
    PROVE  IInv' /\ StreamStep
<1> DEFINE s == Message(count + 1, len)
<1>1. /\ th[w].pc = "idle" /\ count < MaxMessages /\ count' = count + 1 /\ Call(w, s, close)
      /\ m_valid' = m_valid /\ edge' = edge
  BY DEF Send
<1>2. TypeOK /\ MessagesOK /\ BytesOK  BY DEF IInv
<1>3. count \in 0..MaxMessages /\ len \in Nat
  <2>1. count \in 0..MaxMessages  BY <1>2 DEF TypeOK
  <2> QED  BY <2>1, SendBufferAssumption
<1>4. /\ count' \in count..MaxMessages /\ count' \in 1..count' /\ count' \in Nat
      /\ count' \notin 1..count
  BY <1>1, <1>3, SendBufferAssumption
<1>5. s = Message(count', len)  BY <1>1
<1> HIDE DEF s
<1>6. Ids(s) \subseteq {count'}  BY <1>3, <1>4, <1>5, MessageFacts
<1>7. ~broken => Ids(s) \cap Ids(wire \o Queue) = {}
  <2> SUFFICES ASSUME ~broken PROVE Ids(s) \cap Ids(wire \o Queue) = {}  OBVIOUS
  <2>1. Ids(wire \o Queue) \subseteq 1..count  BY <1>2 DEF BytesOK
  <2> QED  BY <1>4, <1>6, <2>1
<1>8. ASSUME NEW v \in Workers, v # w, Sending(v) PROVE Ids(th[v].msg) \cap Ids(s) = {}
  <2>1. PICK id \in 1..count, l \in Lengths : th[v].msg = Message(id, l)
    BY <1>2, <1>8 DEF MessagesOK
  <2>2. id \in Nat /\ l \in Nat  BY SendBufferAssumption
  <2>3. Ids(th[v].msg) \subseteq {id}  BY <2>1, <2>2, MessageFacts
  <2> QED  BY <1>4, <1>6, <2>3
<1>9. Own(w, s)  BY <1>4, <1>5, <1>7, <1>8 DEF Own
<1>10. Calling(w, s, close)  BY <1>1, <1>4, <1>9 DEF Calling
<1> QED  BY <1>1, <1>10, CallKeeps

\* A worker that was notified tries again.
LEMMA ResumeKeeps ==
    ASSUME IInv, NEW w \in Workers, Resume(w)
    PROVE  IInv' /\ StreamStep
<1> DEFINE s == th[w].msg
<1>1. /\ th[w].pc = "woken" /\ Call(w, s, th[w].close) /\ count' = count
      /\ m_valid' = m_valid /\ edge' = edge
  BY DEF Resume
<1>2. TypeOK /\ MessagesOK /\ BytesOK /\ w \in Threads  BY DEF IInv, Threads
<1>3. Sending(w)  BY <1>1 DEF Sending
<1>4. \E id \in 1..count', len \in Lengths : s = Message(id, len)
  BY <1>1, <1>2, <1>3 DEF MessagesOK
<1>5. ~broken => Ids(s) \cap Ids(wire \o Queue) = {}  BY <1>2, <1>3 DEF BytesOK
<1>6. \A v \in Workers : v # w /\ Sending(v) => Ids(th[v].msg) \cap Ids(s) = {}
  BY <1>2, <1>3 DEF MessagesOK
<1>7. Own(w, s)  BY <1>4, <1>5, <1>6 DEF Own
<1>8. count' \in count..MaxMessages
  <2>1. count \in 0..MaxMessages  BY <1>2 DEF TypeOK
  <2> QED  BY <1>1, <2>1
<1>9. th[w].close \in BOOLEAN  BY <1>2, ThreadFacts
<1>10. Calling(w, s, th[w].close)  BY <1>1, <1>7, <1>8, <1>9 DEF Calling
<1> QED  BY <1>1, <1>10, CallKeeps

\* write_pending_data notifies the waiting threads once the buffers can take their data.
Wakes(t) ==
    \/ m_tmpbuf' # <<>> /\ th' = Return(th, t, TRUE)
    \/ m_shutdown /\ th' = Return(th, t, FALSE)
    \/ th' = notify_all(Return(th, t, TRUE))

\* write_pending_data by a worker with m_sendjob, or by the reactor.
LEMMA WriteKeeps ==
    IInv =>
        \A t \in Threads :
            th[t].pc \in {"write", "idle"} /\ write_pending_data(t) /\ m_shutdown' = m_shutdown
            /\ m_valid' = m_valid /\ count' = count /\ edge' \in BOOLEAN =>
                IInv' /\ StreamStep
\* write_pending_data meets no error.
<1>WriteSucceeds. ASSUME IInv, NEW t \in Threads, th[t].pc \in {"write", "idle"},
                         Delivers, ~broken \/ Queue = <<>>, Wakes(t), broken' = broken,
                         m_shutdown' = m_shutdown, m_valid' = m_valid, count' = count,
                         edge' \in BOOLEAN
                  PROVE  /\ IInv' /\ StreamStep
  <2> USE <1>WriteSucceeds
  <2>1. TypeOK /\ ListOK /\ CountOK /\ FailureOK /\ WaitersCannotSend /\ QueueIsWatched
        /\ MessagesOK /\ BytesOK
    BY DEF IInv
  <2>2. {m_shutdown, broken} \subseteq BOOLEAN /\ count \in 0..MaxMessages  BY <2>1 DEF TypeOK
  <2>3. count' \in count..MaxMessages  BY <2>2
  <2>4. /\ BuffersOK /\ KernelOK /\ Carried(<<>>)
        /\ m_tmpbuf' # <<>> \/ m_pending' # <<>> => nospace'
        /\ Queue = <<>> => wire' = wire
    BY <2>1, WritingFacts
  <2>5. /\ Leaves(t)
        /\ \/ \A v \in Threads : th'[v].pc # "wait"
           \/ m_tmpbuf' # <<>>
           \/ m_shutdown
    BY <2>1, NotifyLeaves, ReturnLeaves, Zenon DEF Wakes
  <2>6. Moves(t) /\ th'[t].pc # "wait" /\ th'[t].pc # "free" /\ ~WillSend(t) /\ Waits(t, <<>>)
    BY <2>5, LeavesFacts
  <2>7. Common(t)  BY <2>2, <2>3, <2>4, <2>6 DEF Common
  <2>8. Ids(wire' \o Queue') = Ids(wire \o Queue)
    <3>1. <<>> \in Seq(Bytes) /\ Ids(<<>>) = {}  BY DEF Ids
    <3>2. Ids(wire' \o Queue') = Ids(wire \o Queue) \cup Ids(<<>>)
      BY <2>1, <2>4, <3>1, CarriedIds, Zenon
    <3> QED  BY <3>1, <3>2
  <2>9. SendsOwn(t, <<>>)  BY <2>8 DEF SendsOwn
  <2>10. QueueIsWatched'  BY <2>4 DEF QueueIsWatched
  <2>11. WaitersCannotSend'
    <3>1. CASE \A v \in Threads : th'[v].pc # "wait"  BY <3>1, NobodyWaits
    <3>2. CASE m_shutdown
      <4> SUFFICES ASSUME NEW w \in Workers, th'[w].pc = "wait", ~broken'
                   PROVE  FALSE
        BY DEF WaitersCannotSend
      <4>1. w # t /\ w \in Threads /\ ~broken  BY <2>6 DEF Threads
      <4>2. th[w].pc = "wait"  BY <2>6, <4>1 DEF Moves, Same
      <4> QED  BY <2>1, <3>2, <4>2 DEF WaitersCannotSend, can_send
    <3>3. CASE m_tmpbuf' # <<>> /\ ~m_shutdown
      <4>1. ASSUME NEW w \in Workers PROVE ~can_send(Len(th[w].msg))'
        BY <3>3 DEF can_send
      <4> QED  BY <4>1 DEF WaitersCannotSend
    <3> QED  BY <2>5, <3>1, <3>2, <3>3
  <2>12. TypeOK' /\ ListOK' /\ \A i \in 1..count : i \in 1..count'  BY <2>1, <2>7, TypeKept
  <2>13. CountOK' /\ FailureOK' /\ MessagesOK' /\ BytesOK'
    BY <2>1, <2>6, <2>7, <2>9, <2>12, CountKept, FailureKept, MessagesKept, BytesKept
  <2>14. StreamStep
    <3>1. CASE broken  BY <2>4, <3>1, StreamIsDown
    <3>2. CASE ~broken  BY <2>4, <3>2, NothingIsFresh, StreamCarries
    <3> QED  BY <3>1, <3>2
  <2> QED  BY <2>10, <2>11, <2>12, <2>13, <2>14 DEF IInv
\* write_pending_data meets an error.
<1>WriteFails. ASSUME IInv, NEW t \in Threads, Breaks, broken' = TRUE,
                      th' = Return(th, t, FALSE), m_shutdown' = m_shutdown,
                      m_valid' = m_valid, count' = count, edge' \in BOOLEAN
               PROVE  IInv' /\ StreamStep
  <2> USE <1>WriteFails
  <2>1. TypeOK /\ ListOK /\ CountOK  BY DEF IInv
  <2>2. count' \in count..MaxMessages
    <3>1. count \in 0..MaxMessages  BY <2>1 DEF TypeOK
    <3> QED  BY <3>1
  <2>3. BuffersOK /\ KernelOK /\ CutOff(<<>>) /\ (broken => wire' = wire)
    BY <2>1, WritingFacts, Zenon
  <2>4. Leaves(t)  BY <2>1, ReturnLeaves, Zenon
  <2>5. IInv'  BY <2>2, <2>3, <2>4, BrokenKept
  <2>6. StreamStep
    <3>1. CASE broken  BY <2>3, <3>1, StreamIsDown
    <3>2. CASE ~broken  BY <2>3, <3>2, NothingIsFresh, StreamGoesDown
    <3> QED  BY <3>1, <3>2
  <2> QED  BY <2>5, <2>6
<1> SUFFICES ASSUME IInv, NEW t \in Threads, th[t].pc \in {"write", "idle"},
                    write_pending_data(t), m_shutdown' = m_shutdown,
                    m_valid' = m_valid, count' = count, edge' \in BOOLEAN
             PROVE  IInv' /\ StreamStep
  OBVIOUS
<1>1. CASE (~broken \/ Queue = <<>>) /\ Delivers /\ Wakes(t) /\ broken' = broken
  BY <1>1, <1>WriteSucceeds, Zenon
<1>2. CASE Breaks /\ broken' = TRUE /\ th' = Return(th, t, FALSE)
  BY <1>2, <1>WriteFails, Zenon
<1> QED  BY <1>1, <1>2, Zenon DEF write_pending_data, Delivers, Breaks, Wakes, Queue

\* A thread moves; the data stay as they are.
LEMMA DataStays ==
    ASSUME IInv, NEW t \in Threads, Moves(t), ~WillSend(t), th'[t].pc # "free",
           UNCHANGED <<bufVars, m_shutdown, room, nospace, wire>>,
           broken' = broken, m_valid' = m_valid, count' = count, edge' \in BOOLEAN, QueueIsWatched'
    PROVE  IInv' /\ StreamStep
<1>1. /\ TypeOK /\ ListOK /\ CountOK /\ FailureOK /\ WaitersCannotSend /\ MessagesOK /\ BytesOK
      /\ {m_shutdown, broken} \subseteq BOOLEAN /\ count \in 0..MaxMessages
  BY DEF IInv, TypeOK
<1>2. UNCHANGED <<bufVars, room, nospace, wire>> /\ UNCHANGED <<bufVars, m_shutdown>>
      /\ m_shutdown' = m_shutdown
  OBVIOUS
<1>3. BuffersOK /\ KernelOK /\ Queue' = Queue /\ capacity' = capacity /\ wire' = wire
  BY <1>1, UnchangedFacts
<1>4. Common(t)  BY <1>1, <1>2, <1>3 DEF Common
<1>5. Waits(t, <<>>) /\ SendsOwn(t, <<>>)  BY <1>3 DEF Waits, SendsOwn
<1>6. th'[t].pc # "wait"  BY DEF WillSend
<1>7. WaitersCannotSend'  BY <1>1, <1>2, <1>3, <1>6, WaitersStay
<1>8. TypeOK' /\ ListOK' /\ \A i \in 1..count : i \in 1..count'  BY <1>1, <1>4, TypeKept
<1>9. CountOK' /\ FailureOK' /\ MessagesOK' /\ BytesOK'
  BY <1>1, <1>4, <1>5, <1>8, CountKept, FailureKept, MessagesKept, BytesKept
<1>10. IInv'  BY <1>7, <1>8, <1>9 DEF IInv
<1>11. StreamStep  BY <1>3 DEF StreamStep
<1> QED  BY <1>10, <1>11

\* A thread goes to a place where it sends nothing.
LEMMA GoesTo ==
    ASSUME TypeOK, NEW t \in Threads, NEW l \in PCs, l \notin {"wait", "woken"},
           th' = [th EXCEPT ![t] = At(l)]
    PROVE  /\ Moves(t) /\ th'[t].pc = l /\ ~WillSend(t)
           /\ \A v \in Threads : v # t => th'[v] = th[v]
<1>1. At(l) \in Calls /\ At(l).pc = l  BY AtFacts
<1>2. /\ Moves(t) /\ th'[t] = At(l)
      /\ \A v \in Threads : v # t => th'[v] = th[v]
  BY <1>1, StepFacts, Zenon
<1> QED  BY <1>1, <1>2 DEF WillSend

\* The reactor learns that the kernel has room.
LEMMA OnWritableKeeps ==
    ASSUME IInv, on_writable
    PROVE  IInv' /\ StreamStep
<1>1. th[Reactor].pc = "idle" /\ edge' \in BOOLEAN /\ m_shutdown' = m_shutdown
      /\ m_valid' = m_valid /\ count' = count
  BY Zenon DEF on_writable
<1>2. TypeOK /\ Reactor \in Threads  BY DEF IInv, Threads
<1>3. CASE write_pending_data(Reactor)  BY <1>1, <1>2, <1>3, WriteKeeps
<1>4. ASSUME NEW w \in Workers, th' = [th EXCEPT ![w] = At("write")],
             UNCHANGED <<bufVars, room, nospace, broken, wire>>
      PROVE  IInv' /\ StreamStep
  <2>1. "write" \in PCs /\ "write" \notin {"wait", "woken"} /\ "write" # "free"  BY DEF PCs
  <2>2. w \in Threads  BY DEF Threads
  <2>3. Moves(w) /\ th'[w].pc = "write" /\ ~WillSend(w)  BY <1>2, <1>4, <2>1, <2>2, GoesTo, Zenon
  <2>4. QueueIsWatched'  BY <2>3 DEF QueueIsWatched
  <2>5. UNCHANGED <<bufVars, m_shutdown, room, nospace, wire>> /\ broken' = broken
    BY <1>1, <1>4
  <2> QED  BY <1>1, <2>1, <2>2, <2>3, <2>4, <2>5, DataStays
<1> QED  BY <1>3, <1>4 DEF on_writable

\* A worker runs m_sendjob.
LEMMA SendjobKeeps ==
    ASSUME IInv, NEW w \in Workers, m_sendjob(w)
    PROVE  IInv' /\ StreamStep
<1>1. /\ th[w].pc = "write" /\ m_shutdown' = m_shutdown /\ m_valid' = m_valid /\ edge' = edge
      /\ count' = count
  BY DEF m_sendjob
<1>2. TypeOK /\ FailureOK /\ w \in Threads  BY DEF IInv, Threads
<1>3. edge \in BOOLEAN /\ count \in 0..MaxMessages  BY <1>2 DEF TypeOK
<1>4. CASE m_valid
  <2>1. write_pending_data(w)  BY <1>4 DEF m_sendjob
  <2>2. th[w].pc \in {"write", "idle"} /\ edge' \in BOOLEAN  BY <1>1, <1>3
  <2> QED  BY <1>1, <1>2, <2>1, <2>2, WriteKeeps
<1>5. CASE ~m_valid
  <2>1. th' = Return(th, w, TRUE) /\ UNCHANGED <<bufVars, room, nospace, broken, wire>>
    BY <1>5 DEF m_sendjob
  <2>2. broken /\ broken' = broken /\ UNCHANGED <<bufVars, m_shutdown, room, nospace, wire>>
    BY <1>1, <1>2, <1>5, <2>1 DEF FailureOK
  <2>3. broken'  BY <2>2
  <2>4. Leaves(w)  BY <1>2, <2>1, ReturnLeaves, Zenon
  <2>5. count' \in count..MaxMessages  BY <1>1, <1>3
  <2> QED  BY <1>1, <1>2, <2>2, <2>3, <2>4, <2>5, LeavesOnly
<1> QED  BY <1>4, <1>5

\* EPOLLHUP or EPOLLERR.
LEMMA OnHangupKeeps ==
    ASSUME IInv, on_hangup
    PROVE  IInv' /\ StreamStep
<1>1. /\ broken /\ broken' = broken /\ m_valid' = m_valid /\ count' = count /\ edge' = edge
      /\ th' = [th EXCEPT ![Reactor] = At("fail")]
      /\ UNCHANGED <<bufVars, m_shutdown, room, nospace, wire>>
  BY DEF on_hangup
<1>2. TypeOK /\ Reactor \in Threads  BY DEF IInv, Threads
<1>3. "fail" \in PCs /\ "fail" \notin {"wait", "woken"} /\ "fail" # "free"  BY DEF PCs
<1>4. Moves(Reactor) /\ th'[Reactor].pc = "fail" /\ ~WillSend(Reactor)
  BY <1>1, <1>2, <1>3, GoesTo, Zenon
<1>5. edge' \in BOOLEAN  BY <1>1, <1>2 DEF TypeOK
<1>6. broken'  BY <1>1
<1>7. QueueIsWatched'  BY <1>6 DEF QueueIsWatched
<1> QED  BY <1>1, <1>2, <1>3, <1>4, <1>5, <1>7, DataStays

\* The socket is invalid.
LEMMA InvalidKept ==
    ASSUME IInv, NEW t, Moves(t), ~WillSend(t), broken', ~m_valid', TypeOK', ListOK', CountOK',
           count' = count
    PROVE  IInv'
<1>1. MessagesOK  BY DEF IInv
<1>2. Waits(t, <<>>)  BY DEF Waits
<1>3. MessagesOK'  BY <1>1, <1>2, MessagesKept
<1>4. FailureOK'  BY DEF FailureOK
<1>5. WaitersCannotSend' /\ QueueIsWatched' /\ BytesOK'
  BY DEF WaitersCannotSend, QueueIsWatched, BytesOK
<1> QED  BY <1>3, <1>4, <1>5 DEF IInv

\* A thread whose call failed invalidates the socket.
LEMMA InvalidateKeeps ==
    ASSUME IInv, NEW t \in Threads, invalidate(t)
    PROVE  IInv' /\ StreamStep
<1>1. /\ m_valid' = FALSE /\ broken' = (broken \/ m_valid)
      /\ th' = [th EXCEPT ![t] = At(IF m_valid THEN "free" ELSE "idle")]
      /\ UNCHANGED <<bufVars, m_shutdown, room, nospace, edge, wire, count>>
  BY DEF invalidate
<1>2. TypeOK /\ ListOK /\ CountOK /\ FailureOK  BY DEF IInv
<1>3. {m_shutdown, m_valid, nospace, edge, broken} \subseteq BOOLEAN  BY <1>2 DEF TypeOK
<1>4. UNCHANGED <<bufVars, room, nospace, wire>> /\ m_shutdown' = m_shutdown /\ edge' = edge
      /\ count' = count /\ UNCHANGED <<bufVars, m_shutdown, room, nospace, wire>>
  BY <1>1
<1>5. CASE m_valid
  <2>1. th' = [th EXCEPT ![t] = At("free")]  BY <1>1, <1>5
  <2>2. "free" \in PCs /\ "free" \notin {"wait", "woken"}  BY DEF PCs
  <2>3. Moves(t) /\ ~WillSend(t)  BY <1>2, <2>1, <2>2, GoesTo, Zenon
  <2>4. broken' = TRUE /\ ~m_valid'  BY <1>1, <1>5, Zenon
  <2>5. BuffersOK /\ KernelOK /\ wire' = wire  BY <1>2, <1>4, UnchangedFacts
  <2>6. TypeOK'
    <3>1. {m_shutdown', m_valid', nospace', edge', broken'} \subseteq BOOLEAN
      BY <1>1, <1>3, <1>4, Zenon DEF KernelOK
    <3>2. count' \in 0..MaxMessages  BY <1>2, <1>4 DEF TypeOK
    <3> QED  BY <2>3, <2>5, <3>1, <3>2 DEF TypeOK, BuffersOK, KernelOK, Moves, Calls, Buffers
  <2>7. ListOK'  BY <2>5 DEF BuffersOK
  <2>8. CountOK'
    <3>1. m_free' = m_free /\ m_pending' = m_pending  BY <1>4 DEF bufVars
    <3> QED  BY <1>2, <2>4, <3>1 DEF CountOK
  <2>9. IInv'  BY <1>4, <2>3, <2>4, <2>6, <2>7, <2>8, InvalidKept
  <2>10. StreamStep
    <3>1. CASE broken  BY <2>4, <2>5, <3>1, StreamIsDown
    <3>2. CASE ~broken
      <4>1. CutOff(<<>>)
        <5>1. wire \in Seq(Bytes) /\ Queue \in Seq(Bytes)  BY <1>2, TypeFacts
        <5>2. wire = wire \o SubSeq(Queue \o <<>>, 1, 0) /\ 0 \in 0..Len(Queue \o <<>>)
          BY ONLY <5>1
        <5> QED  BY <2>5, <5>2, Zenon DEF CutOff
      <4> QED  BY <2>4, <3>2, <4>1, NothingIsFresh, StreamGoesDown
    <3> QED  BY <3>1, <3>2
  <2> QED  BY <2>9, <2>10
<1>6. CASE ~m_valid
  <2>1. th' = [th EXCEPT ![t] = At("idle")]  BY <1>1, <1>6
  <2>2. "idle" \in PCs /\ "idle" \notin {"wait", "woken"} /\ "idle" # "free"  BY DEF PCs
  <2>3. Moves(t) /\ ~WillSend(t) /\ th'[t].pc = "idle"  BY <1>2, <2>1, <2>2, GoesTo, Zenon
  <2>4. broken /\ m_valid' = m_valid /\ edge' \in BOOLEAN
    BY <1>1, <1>2, <1>3, <1>6, Zenon DEF FailureOK
  <2>5. broken' = broken /\ broken'  BY <1>1, <2>4, Zenon
  <2>6. QueueIsWatched'  BY <2>5 DEF QueueIsWatched
  <2> QED  BY <1>4, <2>2, <2>3, <2>4, <2>5, <2>6, DataStays
<1> QED  BY <1>5, <1>6

\* The thread that invalidated the socket frees the buffers and notifies those who wait.
LEMMA OnInvalidateKeeps ==
    ASSUME IInv, NEW t \in Threads, on_invalidate(t)
    PROVE  IInv' /\ StreamStep
<1>1. /\ th[t].pc = "free" /\ m_free' = 0 /\ m_pending' = <<>> /\ m_tmpbuf' = <<>>
      /\ m_shutdown' = TRUE /\ th' = notify_all([th EXCEPT ![t] = At("idle")])
      /\ m_valid' = m_valid /\ room' = room /\ nospace' = nospace /\ edge' = edge
      /\ broken' = broken /\ wire' = wire /\ count' = count
  BY DEF on_invalidate
<1>2. TypeOK /\ FailureOK  BY DEF IInv
<1>3. broken /\ ~m_valid  BY <1>1, <1>2 DEF FailureOK
<1>4. broken' /\ ~m_valid'  BY <1>1, <1>3
<1>5. "idle" \in PCs /\ "idle" \notin {"wait", "woken"}  BY DEF PCs
<1>6. At("idle") \in Calls /\ At("idle").pc = "idle"  BY <1>5, AtFacts
<1>7. Moves(t) /\ th'[t] = At("idle")  BY <1>1, <1>2, <1>5, <1>6, NotifyFacts, Zenon
<1>8. ~WillSend(t)  BY <1>5, <1>6, <1>7 DEF WillSend
<1>9. TypeOK'
  <2>1. {m_shutdown', m_valid', nospace', edge', broken'} \subseteq BOOLEAN
    BY <1>1, <1>2 DEF TypeOK
  <2>2. m_free' \in 0..BufCnt /\ m_tmpbuf' \in Seq(Bytes) /\ m_pending' \in Seq(Buffers)
    BY <1>1, SendBufferAssumption
  <2>3. count' \in 0..MaxMessages /\ room' \in 0..KernelRoom /\ wire' \in Seq(Bytes)
    BY <1>1, <1>2 DEF TypeOK
  <2> QED  BY <1>7, <2>1, <2>2, <2>3 DEF TypeOK, Moves, Calls, Buffers
<1>10. ListOK'
  <2>1. Sound(<<>>)  BY DEF Sound
  <2> QED  BY <1>1, <2>1 DEF ListOK
<1>11. CountOK'
  <2>1. m_free' + Len(m_pending') <= BufCnt  BY <1>1, SendBufferAssumption
  <2> QED  BY <1>4, <2>1 DEF CountOK
<1>12. IInv'  BY <1>1, <1>4, <1>7, <1>8, <1>9, <1>10, <1>11, InvalidKept
<1>13. StreamStep  BY <1>1, <1>3, StreamIsDown
<1> QED  BY <1>12, <1>13

\* The peer takes bytes, and the kernel has room again.
LEMMA AcknowledgeKeeps ==
    ASSUME IInv, NEW n \in 1..KernelRoom, Acknowledge(n)
    PROVE  IInv' /\ StreamStep
<1>1. /\ ~broken /\ n \in 1..(KernelRoom - room) /\ room' = room + n
      /\ \/ nospace /\ nospace' = FALSE /\ edge' = TRUE
         \/ nospace' = nospace /\ edge' = edge
      /\ UNCHANGED <<m_free, m_pending, m_tmpbuf, m_shutdown, m_valid, broken, wire, count, th>>
  BY DEF Acknowledge, bufVars
<1>2. /\ TypeOK /\ ListOK /\ CountOK /\ FailureOK /\ WaitersCannotSend /\ QueueIsWatched
      /\ MessagesOK /\ BytesOK
  BY DEF IInv
<1>3. /\ m_free' = m_free /\ m_pending' = m_pending /\ m_tmpbuf' = m_tmpbuf /\ th' = th
      /\ m_shutdown' = m_shutdown /\ m_valid' = m_valid /\ broken' = broken /\ wire' = wire
      /\ count' = count
  BY <1>1
<1>4. Queue' = Queue /\ capacity' = capacity  BY <1>3 DEF Queue, capacity
<1>5. TypeOK'
  <2>1. room \in 0..KernelRoom /\ {nospace, edge} \subseteq BOOLEAN  BY <1>2 DEF TypeOK
  <2>2. room' \in 0..KernelRoom  BY <1>1, <2>1, SendBufferAssumption
  <2>3. {nospace', edge'} \subseteq BOOLEAN  BY <1>1, <2>1, Zenon
  <2> QED  BY <1>2, <1>3, <2>2, <2>3 DEF TypeOK
<1>6. ListOK' /\ CountOK' /\ FailureOK' /\ MessagesOK'
  BY <1>2, <1>3, Zenon DEF ListOK, CountOK, FailureOK, MessagesOK, Sending
<1>7. BytesOK'  BY <1>2, <1>3, <1>4 DEF BytesOK, Sending
<1>8. WaitersCannotSend'  BY <1>2, <1>3, <1>4 DEF WaitersCannotSend, can_send
<1>9. QueueIsWatched'
  <2>1. CASE edge' = TRUE  BY <2>1 DEF QueueIsWatched
  <2>2. CASE nospace' = nospace /\ edge' = edge  BY <1>2, <1>3, <2>2 DEF QueueIsWatched
  <2> QED  BY <1>1, <2>1, <2>2, Zenon
<1>10. IInv'  BY <1>5, <1>6, <1>7, <1>8, <1>9 DEF IInv
<1>11. StreamStep  BY <1>3, <1>4 DEF StreamStep
<1> QED  BY <1>10, <1>11

\* The connection fails.
LEMMA ResetKeeps ==
    ASSUME IInv, Reset
    PROVE  IInv' /\ StreamStep
<1>1. /\ ~broken /\ broken' = TRUE
      /\ UNCHANGED <<m_free, m_pending, m_tmpbuf, m_shutdown, m_valid, room, nospace, edge,
                     wire, count, th>>
  BY DEF Reset, bufVars
<1>2. TypeOK /\ ListOK /\ CountOK /\ FailureOK /\ MessagesOK  BY DEF IInv
<1>3. /\ m_free' = m_free /\ m_pending' = m_pending /\ m_tmpbuf' = m_tmpbuf /\ th' = th
      /\ m_shutdown' = m_shutdown /\ m_valid' = m_valid /\ room' = room /\ nospace' = nospace
      /\ edge' = edge /\ wire' = wire /\ count' = count /\ broken' /\ broken' \in BOOLEAN
  BY <1>1
<1>4. TypeOK'  BY <1>2, <1>3 DEF TypeOK
<1>5. ListOK' /\ CountOK' /\ FailureOK' /\ MessagesOK'
  BY <1>2, <1>3, Zenon DEF ListOK, CountOK, FailureOK, MessagesOK, Sending
<1>6. WaitersCannotSend' /\ QueueIsWatched' /\ BytesOK'
  BY <1>3 DEF WaitersCannotSend, QueueIsWatched, BytesOK
<1>7. IInv'  BY <1>4, <1>5, <1>6 DEF IInv
<1>8. CutOff(<<>>)
  <2>1. wire \in Seq(Bytes) /\ Queue \in Seq(Bytes)  BY <1>2, TypeFacts
  <2>2. wire = wire \o SubSeq(Queue \o <<>>, 1, 0) /\ 0 \in 0..Len(Queue \o <<>>)
    BY ONLY <2>1
  <2> QED  BY <1>3, <2>2, Zenon DEF CutOff
<1>9. StreamStep  BY <1>1, <1>8, NothingIsFresh, StreamGoesDown
<1> QED  BY <1>7, <1>9

\* Every step keeps the invariant and is a step of ByteStream.
LEMMA NextKeeps ==
    ASSUME IInv, [Next]_vars
    PROVE  IInv' /\ StreamStep
<1>1. CASE \E w \in Workers, len \in Lengths, close \in BOOLEAN : Send(w, len, close)
  BY <1>1, SendKeeps
<1>2. CASE \E w \in Workers : Resume(w)  BY <1>2, ResumeKeeps
<1>3. CASE \E w \in Workers : m_sendjob(w)  BY <1>3, SendjobKeeps
<1>4. CASE \E t \in Threads : invalidate(t)  BY <1>4, InvalidateKeeps
<1>5. CASE \E t \in Threads : on_invalidate(t)  BY <1>5, OnInvalidateKeeps
<1>6. CASE on_writable  BY <1>6, OnWritableKeeps
<1>7. CASE on_hangup  BY <1>7, OnHangupKeeps
<1>8. CASE \E n \in 1..KernelRoom : Acknowledge(n)  BY <1>8, AcknowledgeKeeps
<1>9. CASE Reset  BY <1>9, ResetKeeps
<1>10. CASE UNCHANGED vars
  <2>1. /\ m_free' = m_free /\ m_pending' = m_pending /\ m_tmpbuf' = m_tmpbuf /\ th' = th
        /\ m_shutdown' = m_shutdown /\ m_valid' = m_valid /\ room' = room /\ nospace' = nospace
        /\ edge' = edge /\ wire' = wire /\ count' = count /\ broken' = broken
    BY <1>10 DEF vars
  <2>2. Queue' = Queue /\ capacity' = capacity  BY <2>1 DEF Queue, capacity
  <2>3. TypeOK' /\ ListOK' /\ CountOK' /\ FailureOK' /\ QueueIsWatched' /\ MessagesOK'
    BY <2>1, Zenon DEF IInv, TypeOK, ListOK, CountOK, FailureOK, QueueIsWatched, MessagesOK, Sending
  <2>4. WaitersCannotSend'  BY <2>1, <2>2 DEF IInv, WaitersCannotSend, can_send
  <2>5. BytesOK'  BY <2>1, <2>2 DEF IInv, BytesOK, Sending
  <2>6. IInv'  BY <2>3, <2>4, <2>5 DEF IInv
  <2>7. StreamStep  BY <2>1, <2>2 DEF StreamStep
  <2> QED  BY <2>6, <2>7
<1>11. \/ \E w \in Workers, len \in Lengths, close \in BOOLEAN : Send(w, len, close)
       \/ \E w \in Workers : Worker(w)
       \/ on_writable \/ on_hangup \/ Thread(Reactor)
       \/ \E n \in 1..KernelRoom : Acknowledge(n)
       \/ Reset
       \/ UNCHANGED vars
  BY DEF Next, Running
<1>12. Reactor \in Threads /\ \A w \in Workers : w \in Threads  BY DEF Threads
<1>13. CASE \E w \in Workers : Worker(w)
  BY <1>2, <1>3, <1>4, <1>5, <1>12, <1>13 DEF Worker, Thread
<1>14. CASE Thread(Reactor)  BY <1>4, <1>5, <1>12, <1>14 DEF Thread
<1> QED  BY <1>1, <1>6, <1>7, <1>8, <1>9, <1>10, <1>11, <1>13, <1>14

\* The invariant and ByteStream's initial condition hold when the socket is made.
LEMMA InitHolds ==
    ASSUME Init
    PROVE  IInv /\ Stream!Init
<1>1. /\ m_free = BufCnt /\ m_pending = <<>> /\ m_tmpbuf = <<>>
      /\ m_shutdown = FALSE /\ m_valid = TRUE
      /\ room = KernelRoom /\ nospace = FALSE /\ edge = FALSE /\ broken = FALSE
      /\ wire = <<>> /\ count = 0
      /\ th = [t \in Threads |-> At("idle")]
  BY DEF Init
<1>2. "idle" \in PCs /\ "idle" \notin {"wait", "woken", "free"} /\ "idle" # "wait" /\ "idle" # "free"
  BY DEF PCs
<1>3. At("idle") \in Calls /\ At("idle").pc = "idle"  BY <1>2, AtFacts
<1>4. \A t \in Threads : th[t].pc = "idle"  BY <1>1, <1>3
<1>5. \A w \in Workers : th[w].pc = "idle"  BY <1>4 DEF Threads
<1>6. TypeOK
  <2>1. /\ m_free \in 0..BufCnt /\ m_pending \in Seq([data : Seq(Bytes), sent : Nat])
        /\ m_tmpbuf \in Seq(Bytes) /\ wire \in Seq(Bytes) /\ room \in 0..KernelRoom
        /\ count \in 0..MaxMessages
    BY <1>1, SendBufferAssumption
  <2>2. {m_shutdown, m_valid, nospace, edge, broken} \subseteq BOOLEAN  BY <1>1, Zenon
  <2>3. th \in [Threads -> [pc : PCs, msg : Seq(Bytes), close : BOOLEAN]]
    BY <1>1, <1>3 DEF Calls
  <2> QED  BY <2>1, <2>2, <2>3 DEF TypeOK
<1>7. ListOK
  <2>1. Sound(<<>>)  BY DEF Sound
  <2> QED  BY <1>1, <2>1 DEF ListOK
<1>8. CountOK
  <2>1. m_free + Len(m_pending) = BufCnt /\ BufCnt <= BufCnt  BY <1>1, SendBufferAssumption
  <2> QED  BY <2>1 DEF CountOK
<1>9. FailureOK  BY <1>1, <1>4 DEF FailureOK
<1>10. WaitersCannotSend /\ QueueIsWatched
  BY <1>1, <1>5 DEF WaitersCannotSend, QueueIsWatched
<1>11. \A w \in Workers : ~Sending(w)  BY <1>5 DEF Sending
<1>12. MessagesOK  BY <1>11 DEF MessagesOK
<1>13. Queue = <<>>  BY <1>1, <1>6, TypeFacts
<1>14. BytesOK
  <2>1. Ids(<<>> \o <<>>) = {}  BY DEF Ids
  <2> QED  BY <1>1, <1>11, <1>13, <2>1 DEF BytesOK
<1>15. Stream!Init  BY <1>1, <1>13 DEF Stream!Init
<1> QED  BY <1>6, <1>7, <1>8, <1>9, <1>10, <1>12, <1>14, <1>15 DEF IInv

-----------------------------------------------------------------------------
(* The theorems *)

\* The conjunction is an invariant of the code's steps: the calls of send,
\* sendv and their _close forms, write_pending_data, the reactor's events and
\* the invalidation of the socket.
THEOREM Invariance == Spec => []IInv
<1>1. Init => IInv  BY InitHolds
<1>2. IInv /\ [Next]_vars => IInv'  BY NextKeeps
<1> QED  BY <1>1, <1>2, PTL DEF Spec

\* No buffer of the socket is lost or used twice, every buffer in use but the
\* last is full, and m_tmpbuf is used only when no buffer is: for every size
\* and number of buffers, every room in the kernel and all lengths of messages.
THEOREM BuffersAreConservedHolds == Spec => []BuffersAreConserved
<1>1. IInv => BuffersAreConserved
  <2> SUFFICES ASSUME IInv PROVE BuffersAreConserved  OBVIOUS
  <2>1. TypeOK /\ ListOK /\ CountOK  BY DEF IInv
  <2> QED  BY <2>1 DEF BuffersAreConserved, ListOK, CountOK, Sound
<1> QED  BY <1>1, Invariance, PTL

\* No wakeup is missed: while the connection works, a sender that waits on
\* m_cond_write cannot send.
THEOREM WaitersCannotSendHolds == Spec => []WaitersCannotSend
<1>1. IInv => WaitersCannotSend  BY DEF IInv
<1> QED  BY <1>1, Invariance, PTL

\* While data is queued, somebody is or will be told to write it.
THEOREM QueueIsWatchedHolds == Spec => []QueueIsWatched
<1>1. IInv => QueueIsWatched  BY DEF IInv
<1> QED  BY <1>1, Invariance, PTL

\* The socket is a stream to which each message is appended whole and once,
\* whichever way its bytes take, and from which nothing more goes out once the
\* connection has failed.
THEOREM SendsAtomicallyHolds == Spec => SendsAtomically
<1>1. Init => Stream!Init  BY InitHolds
<1>2. IInv /\ [Next]_vars => [Stream!Next]_<<wire, Queue, ~broken>>
  BY NextKeeps DEF StreamStep
<1> QED  BY <1>1, <1>2, Invariance, PTL DEF Spec, SendsAtomically, Stream!Spec, Stream!vars
====
