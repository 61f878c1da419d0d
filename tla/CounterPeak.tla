---------------------------- MODULE CounterPeak ----------------------------
(***************************************************************************)
(* Counter with history variables: the highest consumption each semaphore  *)
(* really had since the current statistics interval began, and whether a   *)
(* sum has exceeded 32 bits.  The code keeps no such history; it must      *)
(* report the peak from the three fields of an object.                     *)
(***************************************************************************)
EXTENDS Counter

VARIABLES
    peak,    \* name -> highest consumption in the current interval
    wrapped  \* a sum in object::acquire has wrapped

peakVars == <<vars, peak, wrapped>>

InitPeak == Init /\ peak = [n \in Names |-> 0] /\ wrapped = FALSE

Acquires(n, q) == \E c \in Conns : cmd_acquire(c, n, q[1], q[2])

Wraps ==
    \E n \in Names : \E q \in Requests[n] :
        m_hash[n].consumption + q[1] >= Mod /\ Acquires(n, q)

\* Bound: after a sum has wrapped, what is held is given back, and nobody acquires
\* anything more.
OnlyReleases == \A n \in Names : \A q \in Requests[n] : ~ Acquires(n, q)

\* After a sum has wrapped no peak is recorded any more.
Observe ==
    /\ wrapped' = (wrapped \/ Wraps)
    /\ peak' = [n \in Names |->
                  IF wrapped' THEN 0
                  ELSE IF nearest_boundary(now) < nearest_boundary(now')
                  THEN m_hash'[n].consumption
                  ELSE MaxOf(peak[n], m_hash'[n].consumption)]

NextHistory == Next /\ Observe

NextPeak == NextHistory /\ (wrapped => OnlyReleases)

\* All behaviours of Counter, and those within the bound.
SpecHistory == InitPeak /\ [][NextHistory]_peakVars
SpecPeak == InitPeak /\ [][NextPeak]_peakVars

FairSpecPeak == SpecPeak /\ Fairness

\* An object's consumption is the sum of what the connections hold of it, modulo
\* 2^32, whatever order acquire, release, release_all and the GC thread run in; and
\* while no sum has wrapped it is the sum itself, and an object that the GC thread
\* has removed is held by nobody.  (The variables have their types.)
Conservation ==
    /\ TypeOK
    /\ ~thrown => \A n \in Names :
         /\ m_hash[n].consumption = HeldByAll(n) % Mod
         /\ ~wrapped =>
               /\ HeldByAll(n) < Mod
               /\ ~Exists(n) => \A c \in Conns : n \in DOMAIN m_acquired[c] => draining[c]

\* The logic_errors "cmd_release bug", "release failed" and "not found" of
\* counter_socket are reached only after the sum in object::acquire has wrapped, which
\* is tested for its maximum when it has already lost a bit.
ThrowNeedsOverflow == thrown => wrapped

\* What Dump reports as the maximum consumption of a semaphore is the highest
\* consumption it has had in the current interval: the lazy reset of
\* m_max_consumption by object::acquire and object::release, the test in
\* object::max_consumption and the removal by the GC thread lose no peak and
\* carry none over from an earlier interval (while no sum has wrapped).
PeakIsExact ==
    ~thrown /\ ~wrapped =>
        \A n \in Names : Exists(n) => max_consumption(m_hash[n]) = peak[n]
=============================================================================
