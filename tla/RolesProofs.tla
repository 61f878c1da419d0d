---------------------------- MODULE RolesProofs ----------------------------
(***************************************************************************)
(* Proofs, for every finite set of servers and every set of objects: a     *)
(* server keeps nothing of a master that it has left, and no master has    *)
(* more than MAX_SLAVES slaves, through moves of the address, crashes,     *)
(* restarts and broken connections.                                        *)
(***************************************************************************)
EXTENDS Roles, FiniteSetTheorems, TLAPS

\* A connection that is up leads to a master, and all that this master stores
\* has been offered to the slave.
LinkOK ==
    \A s \in Servers : link[s].st = "up" =>
        /\ link[s].peer \in Servers /\ pc[link[s].peer] = "master"
        /\ hash[link[s].peer] \subseteq offered[s]

IInv == ForgetsOldMaster /\ LinkOK

\* The slaves of master p that are connected.
SlavesOf(p) == {s \in Servers : Linked(s, p)}

-----------------------------------------------------------------------------
(* The number of slaves *)

\* The number of connected slaves.
LEMMA SlavesOfFacts ==
    ASSUME NEW p \in Servers
    PROVE  /\ IsFiniteSet(SlavesOf(p)) /\ Cardinality(SlavesOf(p)) \in Nat
           /\ n_slaves(p) = dead[p] + Cardinality(SlavesOf(p))
<1>1. SlavesOf(p) \subseteq Servers /\ IsFiniteSet(Servers)
  BY RolesAssumption, Zenon DEF SlavesOf
<1>2. IsFiniteSet(SlavesOf(p))
  BY <1>1, FS_Subset, Zenon
<1>3. Cardinality(SlavesOf(p)) \in Nat
  BY <1>2, FS_CardinalityType, Zenon
<1> QED
  BY <1>2, <1>3 DEF n_slaves, SlavesOf

\* The same after a step.
LEMMA SlavesOfFactsAfter ==
    ASSUME NEW p \in Servers
    PROVE  /\ IsFiniteSet(SlavesOf(p)') /\ Cardinality(SlavesOf(p)') \in Nat
           /\ n_slaves(p)' = dead'[p] + Cardinality(SlavesOf(p)')
<1>1. SlavesOf(p)' \subseteq Servers /\ IsFiniteSet(Servers)
  BY RolesAssumption, Zenon DEF SlavesOf
<1>2. IsFiniteSet(SlavesOf(p)')
  BY <1>1, FS_Subset, Zenon
<1>3. Cardinality(SlavesOf(p)') \in Nat
  BY <1>2, FS_CardinalityType, Zenon
<1> QED
  BY <1>2, <1>3 DEF n_slaves, SlavesOf

\* What the invariant says of the number.
LEMMA NumberFacts ==
    ASSUME IInv, NEW p \in Servers
    PROVE  /\ dead[p] \in Nat /\ n_slaves(p) <= MAX_SLAVES /\ MAX_SLAVES \in Nat
           /\ dead \in [Servers -> 0..MAX_SLAVES]
<1>1. dead \in [Servers -> 0..MAX_SLAVES] /\ n_slaves(p) <= MAX_SLAVES
  BY Zenon DEF IInv, ForgetsOldMaster, TypeOK
<1> QED
  BY <1>1, RolesAssumption

\* A step that takes slaves or dead members off the list.
LEMMA FewerSlaves ==
    ASSUME IInv, NEW p \in Servers, SlavesOf(p)' \subseteq SlavesOf(p),
           dead'[p] \in Nat, dead'[p] <= dead[p]
    PROVE  dead'[p] \in 0..MAX_SLAVES /\ n_slaves(p)' <= MAX_SLAVES
<1>1. Cardinality(SlavesOf(p)') <= Cardinality(SlavesOf(p))
  BY SlavesOfFacts, FS_Subset, Zenon
<1> QED
  BY <1>1, SlavesOfFacts, SlavesOfFactsAfter, NumberFacts

\* A slave that has gone becomes a dead member.
LEMMA SlaveGone ==
    ASSUME IInv, NEW p \in Servers, NEW s \in SlavesOf(p),
           SlavesOf(p)' \subseteq SlavesOf(p) \ {s}, dead'[p] = dead[p] + 1
    PROVE  dead'[p] \in 0..MAX_SLAVES /\ n_slaves(p)' <= MAX_SLAVES
<1>1. /\ IsFiniteSet(SlavesOf(p) \ {s})
      /\ Cardinality(SlavesOf(p) \ {s}) = Cardinality(SlavesOf(p)) - 1
  BY SlavesOfFacts, FS_RemoveElement, Zenon
<1>2. Cardinality(SlavesOf(p)') <= Cardinality(SlavesOf(p) \ {s})
  BY <1>1, FS_Subset, Zenon
<1> QED
  BY <1>1, <1>2, SlavesOfFacts, SlavesOfFactsAfter, NumberFacts

\* A slave is accepted while there is room.
LEMMA SlaveJoins ==
    ASSUME IInv, NEW p \in Servers, NEW s, n_slaves(p) < MAX_SLAVES,
           SlavesOf(p)' \subseteq SlavesOf(p) \cup {s}, dead'[p] = dead[p]
    PROVE  dead'[p] \in 0..MAX_SLAVES /\ n_slaves(p)' <= MAX_SLAVES
<1>1. /\ IsFiniteSet(SlavesOf(p) \cup {s})
      /\ \/ Cardinality(SlavesOf(p) \cup {s}) = Cardinality(SlavesOf(p))
         \/ Cardinality(SlavesOf(p) \cup {s}) = Cardinality(SlavesOf(p)) + 1
  BY SlavesOfFacts, FS_AddElement, Zenon
<1>2. Cardinality(SlavesOf(p)') <= Cardinality(SlavesOf(p) \cup {s})
  BY <1>1, FS_Subset, Zenon
<1> QED
  BY <1>1, <1>2, SlavesOfFacts, SlavesOfFactsAfter, NumberFacts

-----------------------------------------------------------------------------
(* A server on its own *)

\* What the type invariant says, conjunct by conjunct.
LEMMA TypeFacts ==
    ASSUME IInv
    PROVE  /\ vip \in Servers \cup {None} /\ pc \in [Servers -> PCs]
           /\ checks \in [Servers -> 0..MASTER_CHECKS]
           /\ m_running \in [Servers -> BOOLEAN] /\ sock \in [Servers -> Socks]
           /\ link \in [Servers -> Links] /\ dead \in [Servers -> 0..MAX_SLAVES]
           /\ \A s \in Servers : n_slaves(s) <= MAX_SLAVES
           /\ hash \in [Servers -> SUBSET Objects]
           /\ offered \in [Servers -> SUBSET Objects] /\ faults \in 0..MaxFaults
BY Zenon DEF IInv, ForgetsOldMaster, TypeOK

\* A connection that is up has a peer that counts its end as a slave.
LEMMA UpFacts ==
    ASSUME IInv, NEW s \in Servers, link[s].st = "up"
    PROVE  /\ link[s].peer \in Servers /\ s \in SlavesOf(link[s].peer)
           /\ \A p \in Servers : s \in SlavesOf(p) => p = link[s].peer
<1>1. link[s] \in Links /\ link[s].peer \in Servers
  BY TypeFacts, Zenon DEF IInv, LinkOK
<1>2. link[s] = [peer |-> link[s].peer, st |-> "up"]
  BY <1>1 DEF Links
<1>3. \A p : link[s] = [peer |-> p, st |-> "up"] => p = link[s].peer
  BY <1>2
<1> QED
  BY <1>1, <1>2, <1>3, Zenon DEF SlavesOf, Linked

\* The connection of s ends, or it goes into a state other than "up": its master
\* counts a dead member instead of a slave.
LEMMA CutFacts ==
    ASSUME IInv, NEW s \in Servers, NEW l \in Links, l.st # "up",
           link' = [link EXCEPT ![s] = l],
           dead' = IF link[s].st = "up" THEN [dead EXCEPT ![link[s].peer] = @ + 1] ELSE dead
    PROVE  /\ link' \in [Servers -> Links] /\ dead' \in [Servers -> 0..MAX_SLAVES]
           /\ \A p \in Servers : n_slaves(p)' <= MAX_SLAVES
           /\ \A t \in Servers : link'[t].st = "up" => link'[t] = link[t]
<1>1. link \in [Servers -> Links] /\ dead \in [Servers -> 0..MAX_SLAVES]
  BY TypeFacts
<1>2. /\ link' \in [Servers -> Links] /\ link'[s].st # "up"
      /\ \A t \in Servers : t # s => link'[t] = link[t]
  BY <1>1, Zenon
<1>3. \A p \in Servers : SlavesOf(p)' \subseteq SlavesOf(p) \ {s}
  <2>1. \A p : link'[s] # [peer |-> p, st |-> "up"]
    BY <1>2
  <2> QED
    BY <1>2, <2>1, Zenon DEF SlavesOf, Linked
<1>4. ASSUME NEW p \in Servers
      PROVE  dead'[p] \in 0..MAX_SLAVES /\ n_slaves(p)' <= MAX_SLAVES
  <2>1. CASE link[s].st = "up" /\ p = link[s].peer
    <3>1. s \in SlavesOf(p)
      BY <2>1, UpFacts, Zenon
    <3>2. dead'[p] = dead[p] + 1
      BY <1>1, <2>1
    <3> QED
      BY <1>3, <3>1, <3>2, SlaveGone, Zenon
  <2>2. CASE ~(link[s].st = "up" /\ p = link[s].peer)
    <3>1. dead'[p] = dead[p]
      BY <1>1, <2>2
    <3>2. dead'[p] \in Nat /\ dead'[p] <= dead[p]
      BY <1>1, <3>1
    <3>3. SlavesOf(p)' \subseteq SlavesOf(p)
      BY <1>3, Zenon
    <3> QED
      BY <3>2, <3>3, FewerSlaves, Zenon
  <2> QED
    BY <2>1, <2>2
<1>5. dead' \in [Servers -> 0..MAX_SLAVES]
  <2>1. DOMAIN dead' = Servers /\ dead' = [p \in Servers |-> dead'[p]]
    BY <1>1, Zenon
  <2> QED
    BY <1>4, <2>1, Zenon
<1> QED
  BY <1>2, <1>4, <1>5, Zenon

\* The connection of s ends on the side of s.
LEMMA HangUpFacts ==
    ASSUME IInv, NEW s \in Servers, Hang_up(s)
    PROVE  /\ link' \in [Servers -> Links] /\ dead' \in [Servers -> 0..MAX_SLAVES]
           /\ \A p \in Servers : n_slaves(p)' <= MAX_SLAVES
           /\ \A t \in Servers : link'[t].st = "up" => link'[t] = link[t]
<1>1. NoLink \in Links /\ NoLink.st # "up"
  BY DEF NoLink, Links
<1>2. /\ link' = [link EXCEPT ![s] = NoLink]
      /\ dead' = IF link[s].st = "up" THEN [dead EXCEPT ![link[s].peer] = @ + 1] ELSE dead
  BY Zenon DEF Hang_up
<1> HIDE DEF NoLink
<1> QED
  BY <1>1, <1>2, CutFacts, Zenon

\* A connection that is up stays good while its peer stays a master and neither
\* stores more nor takes back what it has offered.
LEMMA LinkKept ==
    ASSUME IInv, \A t \in Servers : link'[t].st = "up" => link'[t] = link[t],
           \A p \in Servers : pc[p] = "master" =>
               pc'[p] = "master" /\ hash'[p] \subseteq hash[p],
           \A t \in Servers : link'[t].st = "up" => offered[t] \subseteq offered'[t]
    PROVE  LinkOK'
BY Zenon DEF IInv, LinkOK

\* A step of a server that is no master, which may end its connection.
LEMMA ServerPreserves ==
    ASSUME IInv, NEW s \in Servers, pc[s] # "master", NEW l \in PCs, Goto(s, l),
           checks' \in [Servers -> 0..MASTER_CHECKS],
           m_running' \in [Servers -> BOOLEAN], sock' \in [Servers -> Socks],
           UNCHANGED <<link, dead>> \/ Hang_up(s),
           UNCHANGED <<vip, hash, offered, faults>>
    PROVE  IInv'
<1>1. /\ pc' \in [Servers -> PCs]
      /\ \A t \in Servers : t # s => pc'[t] = pc[t]
  BY TypeFacts, Zenon DEF Goto
<1>2. /\ link' \in [Servers -> Links] /\ dead' \in [Servers -> 0..MAX_SLAVES]
      /\ \A p \in Servers : n_slaves(p)' <= MAX_SLAVES
      /\ \A t \in Servers : link'[t].st = "up" => link'[t] = link[t]
  <2>1. CASE UNCHANGED <<link, dead>>
    <3>1. \A p \in Servers : n_slaves(p)' = n_slaves(p)
      BY <2>1, Zenon DEF n_slaves, Linked
    <3> QED
      BY <2>1, <3>1, TypeFacts, Zenon
  <2>2. CASE Hang_up(s)
    BY <2>2, HangUpFacts, Zenon
  <2> QED
    BY <2>1, <2>2, Zenon
<1>3. TypeOK'
  BY <1>1, <1>2, TypeFacts, Zenon DEF TypeOK
<1>4. \A t \in Servers : pc'[t] # "master" => hash'[t] \subseteq offered'[t]
  BY <1>1, Zenon DEF IInv, ForgetsOldMaster
<1>5. LinkOK'
  BY <1>1, <1>2, LinkKept, Zenon
<1> QED
  BY <1>3, <1>4, <1>5, Zenon DEF IInv, ForgetsOldMaster

\* The steps of serve and of the reactor loop other than a successful join.
LEMMA LoopPreserves ==
    ASSUME IInv, NEW s \in Servers,
           \/ Start(s) \/ Check(s) \/ JoinFails(s) \/ Poll(s) \/ NoCallback(s)
           \/ Callback(s) \/ Loop(s) \/ End(s) \/ Restart(s)
    PROVE  IInv'
<1>1. /\ pc[s] # "master" /\ \E l \in PCs : Goto(s, l)
      /\ UNCHANGED <<vip, hash, offered, faults>>
      /\ UNCHANGED <<link, dead>> \/ Hang_up(s)
  <2>1. CASE Start(s)
    BY <2>1, Zenon DEF Start, PCs, data_vars
  <2>2. CASE Check(s)
    BY <2>2, Zenon DEF Check, PCs, data_vars
  <2>3. CASE JoinFails(s)
    BY <2>3, Zenon DEF JoinFails, PCs, data_vars
  <2>4. CASE Poll(s)
    BY <2>4, Zenon DEF Poll, PCs, data_vars
  <2>5. CASE NoCallback(s)
    BY <2>5, Zenon DEF NoCallback, PCs, data_vars
  <2>6. CASE Callback(s)
    BY <2>6, Zenon DEF Callback, PCs, data_vars
  <2>7. CASE Loop(s)
    BY <2>7, Zenon DEF Loop, PCs, data_vars
  <2>8. CASE End(s)
    BY <2>8, Zenon DEF End, PCs, data_vars
  <2>9. CASE Restart(s)
    BY <2>9, Zenon DEF Restart, PCs, data_vars
  <2> QED
    BY <2>1, <2>2, <2>3, <2>4, <2>5, <2>6, <2>7, <2>8, <2>9, Zenon
<1>2. checks' \in [Servers -> 0..MASTER_CHECKS]
  <2>1. checks \in [Servers -> 0..MASTER_CHECKS]
    BY TypeFacts
  <2>2. CASE UNCHANGED checks
    BY <2>1, <2>2
  <2>3. CASE Check(s)
    <3>1. checks' = [checks EXCEPT ![s] = IF @ < MASTER_CHECKS /\ ~ is_master(s)
                                          THEN @ + 1 ELSE 0]
      BY <2>3, Zenon DEF Check
    <3>2. checks[s] \in 0..MASTER_CHECKS
      BY <2>1
    <3>3. (IF checks[s] < MASTER_CHECKS /\ ~ is_master(s) THEN checks[s] + 1 ELSE 0)
             \in 0..MASTER_CHECKS
      BY <3>2, RolesAssumption
    <3> QED
      BY <2>1, <3>1, <3>3, Zenon
  <2>4. CASE End(s)
    <3>1. checks' = [checks EXCEPT ![s] = 0]
      BY <2>4, Zenon DEF End
    <3>2. 0 \in 0..MASTER_CHECKS
      BY RolesAssumption
    <3> QED
      BY <2>1, <3>1, <3>2, Zenon
  <2> QED
    BY <2>2, <2>3, <2>4, Zenon
       DEF Start, JoinFails, Poll, NoCallback, Callback, Loop, Restart
<1>3. m_running' \in [Servers -> BOOLEAN]
  <2>1. m_running \in [Servers -> BOOLEAN]
    BY TypeFacts
  <2>2. UNCHANGED m_running \/ \E b \in {m_running[s], FALSE} : m_running' = [m_running EXCEPT ![s] = b]
    BY Zenon DEF Start, Check, JoinFails, Poll, NoCallback, Callback, Loop, End, Restart
  <2> QED
    BY <2>1, <2>2, Zenon
<1>4. sock' \in [Servers -> Socks]
  <2>1. sock \in [Servers -> Socks]
    BY TypeFacts
  <2>2. UNCHANGED sock \/ \E x \in Socks : sock' = [sock EXCEPT ![s] = x]
    <3>1. CASE Callback(s)
      <4>1. "dropping" \in Socks /\ "freed" \in Socks /\ sock[s] \in Socks
        BY <2>1, Zenon DEF Socks
      <4>2. \/ UNCHANGED sock
            \/ sock' = [sock EXCEPT ![s] = "dropping"]
            \/ sock' = [sock EXCEPT ![s] = IF @ = "garbage" THEN "freed" ELSE @]
        BY <3>1, Zenon DEF Callback
      <4> QED
        BY <4>1, <4>2, Zenon
    <3>2. CASE UNCHANGED sock \/ sock' = [sock EXCEPT ![s] = "garbage"]
      BY <3>2, Zenon DEF Socks
    <3> QED
      BY <3>1, <3>2, Zenon
         DEF Start, Check, JoinFails, Poll, NoCallback, Loop, End, Restart
  <2> QED
    BY <2>1, <2>2, Zenon
<1> QED
  BY <1>1, <1>2, <1>3, <1>4, ServerPreserves, Zenon

\* A server joins a master: it has forgotten all, and is offered what the
\* master stores.
LEMMA JoinPreserves ==
    ASSUME IInv, NEW s \in Servers, Join(s)
    PROVE  IInv'
<1> DEFINE l == [peer |-> vip, st |-> IF n_slaves(vip) < MAX_SLAVES THEN "up" ELSE "fin"]
<1>1. /\ pc[s] = "join" /\ Listening
      /\ hash' = [hash EXCEPT ![s] = {}]
      /\ offered' = [offered EXCEPT ![s] = hash[vip]]
      /\ sock' = [sock EXCEPT ![s] = "open"]
      /\ link' = [link EXCEPT ![s] = l]
      /\ m_running' = [m_running EXCEPT ![s] = TRUE]
      /\ pc' = [pc EXCEPT ![s] = "poll"]
      /\ UNCHANGED <<vip, checks, dead, faults>>
  BY Zenon DEF Join, Goto
<1>2. vip \in Servers /\ pc[vip] = "master" /\ vip # s
  <2>1. vip \in Servers \cup {None}
    BY TypeFacts
  <2>2. vip # None /\ pc[vip] = "master"
    BY <1>1 DEF Listening
  <2>3. vip # s
    BY <1>1, <2>2
  <2> QED
    BY <2>1, <2>2, <2>3
<1>3. /\ l \in Links /\ l.peer = vip /\ l.st \in {"up", "fin"}
      /\ n_slaves(vip) < MAX_SLAVES <=> l.st = "up"
  BY <1>2 DEF Links
<1> HIDE DEF l
<1>4. /\ link' \in [Servers -> Links] /\ pc' \in [Servers -> PCs]
      /\ sock' \in [Servers -> Socks] /\ m_running' \in [Servers -> BOOLEAN]
      /\ hash' \in [Servers -> SUBSET Objects] /\ offered' \in [Servers -> SUBSET Objects]
  <2>1. "poll" \in PCs /\ "open" \in Socks
    BY Zenon DEF PCs, Socks
  <2>2. hash[vip] \in SUBSET Objects /\ {} \in SUBSET Objects
    BY <1>2, TypeFacts, Zenon
  <2>3. pc' \in [Servers -> PCs] /\ sock' \in [Servers -> Socks]
    BY <1>1, <2>1, TypeFacts, Zenon
  <2>4. link' \in [Servers -> Links] /\ m_running' \in [Servers -> BOOLEAN]
    BY <1>1, <1>3, TypeFacts, Zenon
  <2>5. hash' \in [Servers -> SUBSET Objects] /\ offered' \in [Servers -> SUBSET Objects]
    BY <1>1, <2>2, TypeFacts, Zenon
  <2> QED
    BY <2>3, <2>4, <2>5
<1>5. /\ link'[s] = l /\ hash'[s] = {} /\ offered'[s] = hash[vip]
      /\ \A t \in Servers : t # s =>
            /\ link'[t] = link[t] /\ hash'[t] = hash[t]
            /\ offered'[t] = offered[t] /\ pc'[t] = pc[t]
  BY <1>1, TypeFacts, Zenon
<1>6. ASSUME NEW p \in Servers PROVE n_slaves(p)' <= MAX_SLAVES
  <2>1. dead'[p] = dead[p] /\ dead'[p] \in Nat /\ dead'[p] <= dead[p]
    BY <1>1, NumberFacts
  <2>2. CASE p = vip /\ l.st = "up"
    <3>1. SlavesOf(p)' \subseteq SlavesOf(p) \cup {s}
      BY <1>5, Zenon DEF SlavesOf, Linked
    <3> QED
      BY <1>3, <2>1, <2>2, <3>1, SlaveJoins, Zenon
  <2>3. CASE ~(p = vip /\ l.st = "up")
    <3>1. l # [peer |-> p, st |-> "up"]
      BY <1>3, <2>3
    <3>2. SlavesOf(p)' \subseteq SlavesOf(p)
      BY <1>5, <3>1, Zenon DEF SlavesOf, Linked
    <3> QED
      BY <2>1, <3>2, FewerSlaves, Zenon
  <2> QED
    BY <2>2, <2>3
<1>7. TypeOK'
  BY <1>1, <1>4, <1>6, TypeFacts, Zenon DEF TypeOK
<1>8. \A t \in Servers : pc'[t] # "master" => hash'[t] \subseteq offered'[t]
  BY <1>5, Zenon DEF IInv, ForgetsOldMaster
<1>9. LinkOK'
  <2> SUFFICES ASSUME NEW t \in Servers, link'[t].st = "up"
               PROVE  /\ link'[t].peer \in Servers /\ pc'[link'[t].peer] = "master"
                      /\ hash'[link'[t].peer] \subseteq offered'[t]
    BY Zenon DEF LinkOK
  <2>1. CASE t = s
    BY <1>2, <1>3, <1>5, <2>1, Zenon
  <2>2. CASE t # s
    <3>1. /\ link[t].peer \in Servers /\ pc[link[t].peer] = "master"
          /\ hash[link[t].peer] \subseteq offered[t] /\ link'[t] = link[t]
      BY <1>5, <2>2, Zenon DEF IInv, LinkOK
    <3>2. link[t].peer # s
      BY <1>1, <3>1
    <3>3. /\ pc'[link[t].peer] = pc[link[t].peer] /\ hash'[link[t].peer] = hash[link[t].peer]
          /\ offered'[t] = offered[t]
      BY <1>5, <2>2, <3>1, <3>2, Zenon
    <3> QED
      BY <3>1, <3>3, Zenon
  <2> QED
    BY <2>1, <2>2
<1> QED
  BY <1>7, <1>8, <1>9, Zenon DEF IInv, ForgetsOldMaster

-----------------------------------------------------------------------------
(* A master *)

\* A step that changes only what servers store and have been offered.
LEMMA DataTypes ==
    ASSUME IInv, UNCHANGED <<vip, role_vars, link, dead, faults>>,
           hash' \in [Servers -> SUBSET Objects], offered' \in [Servers -> SUBSET Objects]
    PROVE  TypeOK'
<1>1. UNCHANGED <<vip, pc, checks, m_running, sock, link, dead, faults>>
  BY Zenon DEF role_vars
<1>2. \A p \in Servers : n_slaves(p)' = n_slaves(p)
  BY <1>1, Zenon DEF n_slaves, Linked
<1> QED
  BY <1>1, <1>2, TypeFacts, Zenon DEF TypeOK

\* An object is stored: all who are connected are offered it.
LEMMA StorePreserves ==
    ASSUME IInv, NEW s \in Servers, NEW o \in Objects, Store(s, o)
    PROVE  IInv'
<1>1. /\ pc[s] = "master"
      /\ hash' = [hash EXCEPT ![s] = @ \cup {o}]
      /\ offered' = [t \in Servers |-> IF Linked(t, s) THEN offered[t] \cup {o}
                                       ELSE offered[t]]
      /\ UNCHANGED <<vip, role_vars, link, dead, faults>>
  BY Zenon DEF Store
<1>2. pc' = pc /\ link' = link
  BY <1>1, Zenon DEF role_vars
<1>3. /\ hash' \in [Servers -> SUBSET Objects] /\ offered' \in [Servers -> SUBSET Objects]
      /\ hash'[s] = hash[s] \cup {o}
      /\ \A t \in Servers : /\ t # s => hash'[t] = hash[t]
                            /\ offered[t] \subseteq offered'[t]
                            /\ Linked(t, s) => o \in offered'[t]
  <2>1. hash \in [Servers -> SUBSET Objects] /\ offered \in [Servers -> SUBSET Objects]
    BY TypeFacts
  <2>2. hash' \in [Servers -> SUBSET Objects]
    BY <1>1, <2>1
  <2>3. offered' \in [Servers -> SUBSET Objects]
    BY <1>1, <2>1
  <2> QED
    BY <1>1, <2>1, <2>2, <2>3
<1>4. TypeOK'
  BY <1>1, <1>3, DataTypes, Zenon
<1>5. \A t \in Servers : pc'[t] # "master" => hash'[t] \subseteq offered'[t]
  BY <1>1, <1>2, <1>3, Zenon DEF IInv, ForgetsOldMaster
<1>6. LinkOK'
  <2> SUFFICES ASSUME NEW t \in Servers, link[t].st = "up"
               PROVE  /\ link[t].peer \in Servers /\ pc[link[t].peer] = "master"
                      /\ hash'[link[t].peer] \subseteq offered'[t]
    BY <1>2, Zenon DEF LinkOK
  <2>1. /\ link[t].peer \in Servers /\ pc[link[t].peer] = "master"
        /\ hash[link[t].peer] \subseteq offered[t]
    BY Zenon DEF IInv, LinkOK
  <2>2. link[t].peer = s => Linked(t, s)
    BY UpFacts, Zenon DEF SlavesOf
  <2>3. CASE link[t].peer = s
    <3>1. hash[s] \subseteq offered'[t] /\ o \in offered'[t]
      BY <1>3, <2>1, <2>2, <2>3, Zenon
    <3>2. hash'[s] \subseteq offered'[t]
      BY <1>3, <3>1
    <3> QED
      BY <2>1, <2>3, <3>2, Zenon
  <2>4. CASE link[t].peer # s
    BY <1>3, <2>1, <2>4, Zenon
  <2> QED
    BY <2>3, <2>4
<1> QED
  BY <1>4, <1>5, <1>6, Zenon DEF IInv, ForgetsOldMaster

\* An object is removed from a master, or a slave follows its master.
LEMMA RemovePreserves ==
    ASSUME IInv, NEW s \in Servers, NEW o \in Objects, Remove(s, o)
    PROVE  IInv'
<1>1. /\ pc[s] = "master"
      /\ hash' = [hash EXCEPT ![s] = @ \ {o}]
      /\ UNCHANGED <<vip, role_vars, link, dead, offered, faults>>
  BY Zenon DEF Remove
<1>2. pc' = pc /\ link' = link /\ offered' = offered
  BY <1>1, Zenon DEF role_vars
<1>3. /\ hash' \in [Servers -> SUBSET Objects]
      /\ \A t \in Servers : hash'[t] \subseteq hash[t]
  <2>1. hash \in [Servers -> SUBSET Objects]
    BY TypeFacts
  <2> QED
    BY <1>1, <2>1
<1>4. TypeOK'
  BY <1>1, <1>2, <1>3, DataTypes, TypeFacts, Zenon
<1>5. \A t \in Servers : pc'[t] # "master" => hash'[t] \subseteq offered'[t]
  BY <1>2, <1>3, Zenon DEF IInv, ForgetsOldMaster
<1>6. LinkOK'
  BY <1>2, <1>3, LinkKept, Zenon
<1> QED
  BY <1>4, <1>5, <1>6, Zenon DEF IInv, ForgetsOldMaster

\* A slave follows its master: it stores what its master has offered.
LEMMA CopyPreserves ==
    ASSUME IInv, NEW s \in Servers, NEW o \in Objects, Copy(s, o)
    PROVE  IInv'
<1> DEFINE h == IF o \in hash[link[s].peer] THEN hash[s] \cup {o} ELSE hash[s] \ {o}
<1>1. /\ pc[s] # "master" /\ link[s].st = "up"
      /\ hash' = [hash EXCEPT ![s] = h]
      /\ UNCHANGED <<vip, role_vars, link, dead, offered, faults>>
  BY Zenon DEF Copy, InLoop
<1>2. pc' = pc /\ link' = link /\ offered' = offered
  BY <1>1, Zenon DEF role_vars
<1>3. hash[link[s].peer] \subseteq offered[s] /\ hash[s] \subseteq offered[s]
  BY <1>1, Zenon DEF IInv, LinkOK, ForgetsOldMaster
<1>4. h \subseteq offered[s] /\ h \in SUBSET Objects
  <2>1. offered[s] \in SUBSET Objects
    BY TypeFacts, Zenon
  <2> QED
    BY <1>3, <2>1
<1> HIDE DEF h
<1>5. /\ hash' \in [Servers -> SUBSET Objects] /\ hash'[s] = h
      /\ \A t \in Servers : t # s => hash'[t] = hash[t]
  BY <1>1, <1>4, TypeFacts, Zenon
<1>6. TypeOK'
  BY <1>1, <1>2, <1>5, DataTypes, TypeFacts, Zenon
<1>7. \A t \in Servers : pc'[t] # "master" => hash'[t] \subseteq offered'[t]
  BY <1>2, <1>4, <1>5, Zenon DEF IInv, ForgetsOldMaster
<1>8. LinkOK'
  <2>1. \A p \in Servers : pc[p] = "master" => pc'[p] = "master" /\ hash'[p] \subseteq hash[p]
    BY <1>1, <1>2, <1>5, Zenon
  <2> QED
    BY <1>2, <2>1, LinkKept, Zenon
<1> QED
  BY <1>6, <1>7, <1>8, Zenon DEF IInv, ForgetsOldMaster

\* A step that changes neither what servers store nor which connections are up.
LEMMA DataKept ==
    ASSUME IInv, UNCHANGED <<pc, hash, offered>>,
           \A t \in Servers : link'[t].st = "up" => link'[t] = link[t],
           TypeOK'
    PROVE  IInv'
<1>1. \A t \in Servers : pc'[t] # "master" => hash'[t] \subseteq offered'[t]
  BY Zenon DEF IInv, ForgetsOldMaster
<1>2. LinkOK'
  BY LinkKept, Zenon
<1> QED
  BY <1>1, <1>2, Zenon DEF IInv, ForgetsOldMaster

\* A master drops a dead member of its list.
LEMMA ReapPreserves ==
    ASSUME IInv, NEW s \in Servers, Reap(s)
    PROVE  IInv'
<1>1. /\ dead[s] > 0
      /\ dead' = [dead EXCEPT ![s] = @ - 1]
      /\ UNCHANGED <<vip, pc, checks, m_running, sock, link, hash, offered, faults>>
  BY Zenon DEF Reap, role_vars, data_vars
<1>2. dead \in [Servers -> 0..MAX_SLAVES]
  BY TypeFacts
<1>3. \A p \in Servers : dead'[p] \in Nat /\ dead'[p] <= dead[p]
  BY <1>1, <1>2
<1>4. \A p \in Servers : SlavesOf(p)' \subseteq SlavesOf(p)
  BY <1>1, Zenon DEF SlavesOf, Linked
<1>5. \A p \in Servers : dead'[p] \in 0..MAX_SLAVES /\ n_slaves(p)' <= MAX_SLAVES
  BY <1>3, <1>4, FewerSlaves, Zenon
<1>6. dead' \in [Servers -> 0..MAX_SLAVES]
  <2>1. dead' = [p \in Servers |-> dead'[p]]
    BY <1>1, <1>2, Zenon
  <2> QED
    BY <1>5, <2>1, Zenon
<1>7. TypeOK'
  BY <1>1, <1>5, <1>6, TypeFacts, Zenon DEF TypeOK
<1> QED
  BY <1>1, <1>7, DataKept, Zenon

-----------------------------------------------------------------------------
(* Processes that end, and the surroundings *)

\* The connections after the process of s has ended: none of them leads to s.
LEMMA ExitLinks ==
    ASSUME IInv, NEW s \in Servers, Exit(s)
    PROVE  /\ link' \in [Servers -> Links]
           /\ \A t \in Servers : link'[t].st = "up" =>
                 t # s /\ link'[t] = link[t] /\ link[t].peer # s
<1>1. link' = [t \in Servers |->
           IF t = s THEN NoLink
           ELSE IF Linked(t, s) THEN [link[t] EXCEPT !.st = "lost"] ELSE link[t]]
  BY Zenon DEF Exit
<1>2. NoLink \in Links /\ NoLink.st # "up"
  BY DEF NoLink, Links
<1>3. \A t \in Servers : link[t] \in Links
  BY TypeFacts, Zenon
<1>4. \A t \in Servers : /\ [link[t] EXCEPT !.st = "lost"] \in Links
                         /\ [link[t] EXCEPT !.st = "lost"].st # "up"
  BY <1>3 DEF Links
<1> HIDE DEF NoLink
<1>5. ASSUME NEW t \in Servers
      PROVE  /\ link'[t] \in Links
             /\ link'[t].st = "up" => t # s /\ link'[t] = link[t] /\ ~Linked(t, s)
  <2>1. CASE t = s
    BY <1>1, <1>2, <2>1, Zenon
  <2>2. CASE t # s /\ Linked(t, s)
    BY <1>1, <1>4, <2>2, Zenon
  <2>3. CASE t # s /\ ~Linked(t, s)
    BY <1>1, <1>3, <2>3, Zenon
  <2> QED
    BY <2>1, <2>2, <2>3, Zenon
<1>6. \A t \in Servers : link[t].st = "up" /\ ~Linked(t, s) => link[t].peer # s
  BY UpFacts, Zenon DEF SlavesOf
<1>7. link' \in [Servers -> Links]
  <2>1. link' = [t \in Servers |-> link'[t]]
    BY <1>1, Zenon
  <2> QED
    BY <1>5, <2>1, Zenon
<1> QED
  BY <1>5, <1>6, <1>7, Zenon

\* The numbers of slaves after the process of s has ended.
LEMMA ExitNumbers ==
    ASSUME IInv, NEW s \in Servers, Exit(s)
    PROVE  /\ dead' \in [Servers -> 0..MAX_SLAVES]
           /\ \A p \in Servers : n_slaves(p)' <= MAX_SLAVES
<1>1. dead' = [t \in Servers |-> IF t = s THEN 0
                                 ELSE IF Linked(s, t) THEN dead[t] + 1 ELSE dead[t]]
  BY Zenon DEF Exit
<1>2. \A p \in Servers : SlavesOf(p)' \subseteq SlavesOf(p) \ {s}
  <2> SUFFICES ASSUME NEW p \in Servers, NEW t \in Servers, Linked(t, p)'
               PROVE  t # s /\ Linked(t, p)
    BY Zenon DEF SlavesOf
  <2>1. link'[t] = [peer |-> p, st |-> "up"]
    BY Zenon DEF Linked
  <2>2. link'[t].st = "up"
    BY <2>1
  <2>3. t # s /\ link'[t] = link[t]
    BY <2>2, ExitLinks, Zenon
  <2> QED
    BY <2>1, <2>3, Zenon DEF Linked
<1>3. ASSUME NEW p \in Servers
      PROVE  dead'[p] \in 0..MAX_SLAVES /\ n_slaves(p)' <= MAX_SLAVES
  <2>1. SlavesOf(p)' \subseteq SlavesOf(p) \ {s} /\ SlavesOf(p)' \subseteq SlavesOf(p)
    BY <1>2, Zenon
  <2>2. dead[p] \in Nat
    BY NumberFacts
  <2>3. CASE p # s /\ Linked(s, p)
    <3>1. dead'[p] = dead[p] + 1
      BY <1>1, <2>3
    <3>2. s \in SlavesOf(p)
      BY <2>3, Zenon DEF SlavesOf
    <3> QED
      BY <2>1, <3>1, <3>2, SlaveGone, Zenon
  <2>4. CASE ~(p # s /\ Linked(s, p))
    <3>1. dead'[p] \in Nat /\ dead'[p] <= dead[p]
      BY <1>1, <2>2, <2>4
    <3> QED
      BY <2>1, <3>1, FewerSlaves, Zenon
  <2> QED
    BY <2>3, <2>4
<1>4. dead' = [p \in Servers |-> dead'[p]]
  BY <1>1, Zenon
<1> QED
  BY <1>3, <1>4, Zenon

\* The process of a server ends: it has no objects and no slaves.
LEMMA ExitPreserves ==
    ASSUME IInv, NEW s \in Servers, Exit(s), UNCHANGED vip, faults' \in 0..MaxFaults
    PROVE  IInv'
<1>1. /\ pc' = [pc EXCEPT ![s] = "down"]
      /\ checks' = [checks EXCEPT ![s] = 0]
      /\ m_running' = [m_running EXCEPT ![s] = FALSE]
      /\ sock' = [sock EXCEPT ![s] = "none"]
      /\ hash' = [hash EXCEPT ![s] = {}]
      /\ offered' = [offered EXCEPT ![s] = {}]
  BY Zenon DEF Exit
<1>2. pc' \in [Servers -> PCs] /\ sock' \in [Servers -> Socks]
  <2>1. "down" \in PCs /\ "none" \in Socks
    BY Zenon DEF PCs, Socks
  <2> QED
    BY <1>1, <2>1, TypeFacts, Zenon
<1>3. checks' \in [Servers -> 0..MASTER_CHECKS] /\ m_running' \in [Servers -> BOOLEAN]
  <2>1. 0 \in 0..MASTER_CHECKS
    BY RolesAssumption
  <2> QED
    BY <1>1, <2>1, TypeFacts, Zenon
<1>4. hash' \in [Servers -> SUBSET Objects] /\ offered' \in [Servers -> SUBSET Objects]
  BY <1>1, TypeFacts, Zenon
<1>5. /\ hash'[s] = {}
      /\ \A t \in Servers : t # s =>
            hash'[t] = hash[t] /\ offered'[t] = offered[t] /\ pc'[t] = pc[t]
  BY <1>1, TypeFacts, Zenon
<1>6. TypeOK'
  BY <1>2, <1>3, <1>4, ExitLinks, ExitNumbers, TypeFacts, Zenon DEF TypeOK
<1>7. \A t \in Servers : pc'[t] # "master" => hash'[t] \subseteq offered'[t]
  BY <1>5, Zenon DEF IInv, ForgetsOldMaster
<1>8. LinkOK'
  <2> SUFFICES ASSUME NEW t \in Servers, link'[t].st = "up"
               PROVE  /\ link'[t].peer \in Servers /\ pc'[link'[t].peer] = "master"
                      /\ hash'[link'[t].peer] \subseteq offered'[t]
    BY Zenon DEF LinkOK
  <2>1. t # s /\ link'[t] = link[t] /\ link[t].peer # s
    BY ExitLinks, Zenon
  <2>2. /\ link[t].peer \in Servers /\ pc[link[t].peer] = "master"
        /\ hash[link[t].peer] \subseteq offered[t]
    BY <2>1, Zenon DEF IInv, LinkOK
  <2>3. /\ hash'[link[t].peer] = hash[link[t].peer] /\ pc'[link[t].peer] = pc[link[t].peer]
        /\ offered'[t] = offered[t]
    BY <1>5, <2>1, <2>2, Zenon
  <2> QED
    BY <2>1, <2>2, <2>3, Zenon
<1> QED
  BY <1>6, <1>7, <1>8, Zenon DEF IInv, ForgetsOldMaster

\* A connection turns out to be broken, or is reset.
LEMMA BrokenPreserves ==
    ASSUME IInv, NEW s \in Servers, Broken(s) \/ Reset(s)
    PROVE  IInv'
<1>1. /\ UNCHANGED <<vip, pc, checks, m_running, sock, hash, offered>>
      /\ faults' \in 0..MaxFaults
  <2>1. UNCHANGED <<vip, pc, checks, m_running, sock, hash, offered>>
    BY Zenon DEF Broken, Reset, role_vars, data_vars
  <2>2. UNCHANGED faults \/ (faults < MaxFaults /\ faults' = faults + 1)
    BY Zenon DEF Broken, Reset
  <2>3. faults \in 0..MaxFaults
    BY TypeFacts
  <2> QED
    BY <2>1, <2>2, <2>3, RolesAssumption
<1>2. PICK st \in {"fin", "rst"} : link' = [link EXCEPT ![s].st = st]
  BY Zenon DEF Broken, Reset
<1>3. dead' = IF link[s].st = "up" THEN [dead EXCEPT ![link[s].peer] = @ + 1] ELSE dead
  BY DEF Broken, Reset
<1> DEFINE l == [link[s] EXCEPT !.st = st]
<1>4. link' = [link EXCEPT ![s] = l]
  BY <1>2, Zenon
<1>5. l \in Links /\ l.st # "up"
  <2>1. link[s] \in Links
    BY TypeFacts, Zenon
  <2> QED
    BY <1>2, <2>1 DEF Links
<1> HIDE DEF l
<1>6. /\ link' \in [Servers -> Links] /\ dead' \in [Servers -> 0..MAX_SLAVES]
      /\ \A p \in Servers : n_slaves(p)' <= MAX_SLAVES
      /\ \A t \in Servers : link'[t].st = "up" => link'[t] = link[t]
  BY <1>3, <1>4, <1>5, CutFacts, Zenon
<1>7. TypeOK'
  BY <1>1, <1>6, TypeFacts, Zenon DEF TypeOK
<1> QED
  BY <1>1, <1>6, <1>7, DataKept, Zenon

\* The virtual address moves, or nothing happens.
LEMMA MovePreserves ==
    ASSUME IInv, vip' \in Servers \cup {None}, faults' \in 0..MaxFaults,
           UNCHANGED <<role_vars, link, dead, data_vars>>
    PROVE  IInv'
<1>1. UNCHANGED <<pc, checks, m_running, sock, link, dead, hash, offered>>
  BY Zenon DEF role_vars, data_vars
<1>2. \A p \in Servers : n_slaves(p)' = n_slaves(p)
  BY <1>1, Zenon DEF n_slaves, Linked
<1>3. TypeOK'
  BY <1>1, <1>2, TypeFacts, Zenon DEF TypeOK
<1> QED
  BY <1>1, <1>3, DataKept, Zenon

-----------------------------------------------------------------------------
(* The theorems *)

\* At first no server stores anything or is connected.
LEMMA InitIInv == Init => IInv
<1> SUFFICES ASSUME Init PROVE IInv
  OBVIOUS
<1>1. /\ link = [s \in Servers |-> NoLink] /\ dead = [s \in Servers |-> 0]
      /\ hash = [s \in Servers |-> {}] /\ offered = [s \in Servers |-> {}]
  BY Zenon DEF Init
<1>2. /\ NoLink \in Links /\ NoLink.st # "up"
      /\ \A p : NoLink # [peer |-> p, st |-> "up"]
  BY DEF NoLink, Links
<1> HIDE DEF NoLink
<1>3. link \in [Servers -> Links] /\ \A s \in Servers : link[s] = NoLink
  BY <1>1, <1>2, Zenon
<1>4. dead \in [Servers -> 0..MAX_SLAVES] /\ \A s \in Servers : n_slaves(s) <= MAX_SLAVES
  <2>1. dead \in [Servers -> 0..MAX_SLAVES] /\ \A s \in Servers : dead[s] = 0
    BY <1>1, RolesAssumption
  <2>2. \A s \in Servers : SlavesOf(s) = {}
    BY <1>2, <1>3, Zenon DEF SlavesOf, Linked
  <2>3. Cardinality({}) = 0
    BY FS_EmptySet, Zenon
  <2>4. \A s \in Servers : n_slaves(s) = 0
    BY <2>1, <2>2, <2>3, SlavesOfFacts
  <2> QED
    BY <2>1, <2>4, RolesAssumption
<1>5. TypeOK
  <2>1. /\ vip \in Servers \cup {None} /\ m_running \in [Servers -> BOOLEAN]
        /\ pc \in [Servers -> PCs] /\ sock \in [Servers -> Socks]
    BY DEF Init, PCs, Socks
  <2>2. checks \in [Servers -> 0..MASTER_CHECKS] /\ faults \in 0..MaxFaults
    BY RolesAssumption DEF Init
  <2>3. hash \in [Servers -> SUBSET Objects] /\ offered \in [Servers -> SUBSET Objects]
    BY <1>1
  <2> QED
    BY <1>3, <1>4, <2>1, <2>2, <2>3, Zenon DEF TypeOK
<1>6. \A s \in Servers : hash[s] \subseteq offered[s]
  BY <1>1, Zenon
<1>7. LinkOK
  BY <1>2, <1>3, Zenon DEF LinkOK
<1> QED
  BY <1>5, <1>6, <1>7, Zenon DEF IInv, ForgetsOldMaster

\* Every step keeps the invariant.
LEMMA IInvIsInductive ==
    ASSUME IInv, [Next]_vars
    PROVE  IInv'
<1>1. CASE UNCHANGED vars
  BY <1>1, MovePreserves, TypeFacts, Zenon DEF vars
<1>2. ASSUME NEW s \in Servers, Server(s) \/ Restart(s) PROVE IInv'
  BY <1>2, LoopPreserves, JoinPreserves, Zenon DEF Server
<1>3. ASSUME NEW s \in Servers, NEW o \in Objects, Store(s, o) \/ Remove(s, o) \/ Copy(s, o)
      PROVE  IInv'
  BY <1>3, StorePreserves, RemovePreserves, CopyPreserves, Zenon
<1>4. ASSUME NEW s \in Servers, ExitStaleMaster(s) \/ UseOfFreed(s) PROVE IInv'
  BY <1>4, ExitPreserves, TypeFacts, Zenon DEF ExitStaleMaster, UseOfFreed
<1>5. faults < MaxFaults /\ faults' = faults + 1 => faults' \in 0..MaxFaults
  <2>1. faults \in 0..MaxFaults
    BY TypeFacts
  <2> QED
    BY <2>1, RolesAssumption
<1>6. ASSUME NEW s \in Servers, Crash(s) PROVE IInv'
  BY <1>5, <1>6, ExitPreserves, Zenon DEF Crash
<1>7. ASSUME NEW s \in Servers, Reap(s) \/ Broken(s) \/ Reset(s) PROVE IInv'
  BY <1>7, ReapPreserves, BrokenPreserves, Zenon
<1>8. ASSUME NEW s \in Servers \cup {None}, MoveAddress(s) PROVE IInv'
  BY <1>5, <1>8, MovePreserves, Zenon DEF MoveAddress
<1> QED
  BY <1>1, <1>2, <1>3, <1>4, <1>6, <1>7, <1>8, Zenon DEF Next

\* The invariant holds throughout.
THEOREM Invariance == Spec => []IInv
<1>1. Init => IInv
  BY InitIInv
<1>2. IInv /\ [Next]_vars => IInv'
  BY IInvIsInductive
<1> QED
  BY <1>1, <1>2, PTL DEF Spec

\* Whatever a slave stores has been on the master it is or was last connected to
\* since the time it connected, and no master has more than MAX_SLAVES slaves
\* (handler::on_slave_start, and the test of MAX_SLAVES for a connection that the master accepts).
THEOREM ForgetsOldMasterHolds == Spec => []ForgetsOldMaster
<1>1. IInv => ForgetsOldMaster
  BY DEF IInv
<1> QED
  BY <1>1, Invariance, PTL
=============================================================================
