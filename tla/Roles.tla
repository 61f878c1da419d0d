------------------------------- MODULE Roles -------------------------------
(***************************************************************************)
(* A cluster: which server is the master, and how slaves join it, lose it  *)
(* and take its place.  The server that owns the virtual address, which a  *)
(* tool outside of yrmcds assigns, is to be the master; a server watches   *)
(* its own addresses.  serve, serve_slave and the reactor loop of a slave  *)
(* are modelled step by step, with the life of the socket that the handler *)
(* refers to by a plain pointer.  A master is one state: what it does with *)
(* its hash and with slaves in order is in Replication.                    *)
(***************************************************************************)
EXTENDS Integers, FiniteSets

CONSTANTS
    Servers,
    Objects,
    MASTER_CHECKS,
    MAX_SLAVES,
    MaxFaults,      \* bound: moves of the address, crashes and resets
    None            \* not a server

ASSUME RolesAssumption ==
    /\ None \notin Servers /\ IsFiniteSet(Servers)
    /\ MASTER_CHECKS \in Nat \ {0} /\ MAX_SLAVES \in Nat \ {0} /\ MaxFaults \in Nat

VARIABLES
    vip,         \* the server that owns the virtual address, or None
    pc,          \* pc[s]: where server s is, see PCs
    checks,      \* checks[s]: rounds of the promotion loop
    m_running,   \* m_running[s]: of the reactor
    sock,        \* sock[s]: what m_repl_client_socket points to, see Socks
    link,        \* link[s]: that connection: its peer and what has come of it
    dead,        \* dead[s]: members of m_slaves whose connection is gone
    hash,        \* hash[s]: the objects that s stores
    offered,     \* history: what the peer of s has had since s connected
    faults       \* faults so far

role_vars == <<pc, checks, m_running, sock>>
data_vars == <<hash, offered>>
vars == <<vip, role_vars, link, dead, data_vars, faults>>

\* "down": not running; "start": the first is_master in serve; "join":
\* on_slave_start; "poll", "interval", "loop": the three parts of reactor::run;
\* "end": on_slave_end; "check": the promotion loop; "master": serve_master.
PCs == {"down", "start", "join", "poll", "interval", "loop", "end", "check", "master"}

\* "open"; "dropping": invalid, in m_drop_req; "garbage": removed; "freed".
Socks == {"none", "open", "dropping", "garbage", "freed"}

\* "up"; "lost": the peer is gone and this server cannot know; "fin": recv returns
\* 0 and send succeeds; "rst": recv, send and epoll report an error.
Links == [peer : Servers \cup {None}, st : {"none", "up", "lost", "fin", "rst"}]
NoLink == [peer |-> None, st |-> "none"]

InLoop(s) == pc[s] \in {"poll", "interval", "loop"}
Linked(s, p) == link[s] = [peer |-> p, st |-> "up"]

\* m_slaves.size() of master p.
n_slaves(p) == dead[p] + Cardinality({s \in Servers : Linked(s, p)})

Init ==
    /\ vip \in Servers \cup {None}
    /\ pc = [s \in Servers |-> "start"]
    /\ checks = [s \in Servers |-> 0]
    /\ m_running = [s \in Servers |-> FALSE]
    /\ sock = [s \in Servers |-> "none"]
    /\ link = [s \in Servers |-> NoLink]
    /\ dead = [s \in Servers |-> 0]
    /\ hash = [s \in Servers |-> {}]
    /\ offered = [s \in Servers |-> {}]
    /\ faults = 0

is_master(s) == vip = s

Goto(s, l) == pc' = [pc EXCEPT ![s] = l]

\* The connection of s ends on the side of s; its master keeps a dead member of
\* m_slaves until it notices.
Hang_up(s) ==
    /\ link' = [link EXCEPT ![s] = NoLink]
    /\ dead' = IF link[s].st = "up" THEN [dead EXCEPT ![link[s].peer] = @ + 1] ELSE dead

-----------------------------------------------------------------------------
(* serve *)

Start(s) ==
    /\ pc[s] = "start"
    /\ Goto(s, IF is_master(s) THEN "master" ELSE "join")
    /\ UNCHANGED <<vip, checks, m_running, sock, link, dead, data_vars, faults>>

\* A round of the promotion loop, or its end.
Check(s) ==
    /\ pc[s] = "check"
    /\ Goto(s, IF checks[s] = MASTER_CHECKS THEN "join"
               ELSE IF is_master(s) THEN "master" ELSE "check")
    /\ checks' = [checks EXCEPT ![s] = IF @ < MASTER_CHECKS /\ ~ is_master(s)
                                       THEN @ + 1 ELSE 0]
    /\ UNCHANGED <<vip, m_running, sock, link, dead, data_vars, faults>>

\* Somebody accepts slaves at the virtual address.
Listening == IF vip = None THEN FALSE ELSE pc[vip] = "master"

\* on_slave_start cannot connect: the address is nobody's, or its owner does not
\* listen for slaves yet.
JoinFails(s) ==
    /\ pc[s] = "join"
    /\ ~ Listening
    /\ Goto(s, "check")
    /\ UNCHANGED <<vip, checks, m_running, sock, link, dead, data_vars, faults>>

\* Mutation: the hash is not cleared.
JoinWithObjects(s) ==
    /\ pc[s] = "join"
    /\ Listening
    /\ offered' = [offered EXCEPT ![s] = hash[vip]]
    /\ sock' = [sock EXCEPT ![s] = "open"]
    /\ link' = [link EXCEPT ![s] =
           [peer |-> vip, st |-> IF n_slaves(vip) < MAX_SLAVES THEN "up" ELSE "fin"]]
    /\ m_running' = [m_running EXCEPT ![s] = TRUE]
    /\ Goto(s, "poll")
    /\ UNCHANGED <<vip, checks, dead, hash, faults>>

\* It connects to the owner of the address and forgets its objects.  The master
\* closes the connection at once when it has MAX_SLAVES already.
Join(s) ==
    /\ pc[s] = "join"
    /\ Listening
    /\ hash' = [hash EXCEPT ![s] = {}]
    /\ offered' = [offered EXCEPT ![s] = hash[vip]]
    /\ sock' = [sock EXCEPT ![s] = "open"]
    /\ link' = [link EXCEPT ![s] =
           [peer |-> vip, st |-> IF n_slaves(vip) < MAX_SLAVES THEN "up" ELSE "fin"]]
    /\ m_running' = [m_running EXCEPT ![s] = TRUE]
    /\ Goto(s, "poll")
    /\ UNCHANGED <<vip, checks, dead, faults>>

-----------------------------------------------------------------------------
(* The loop of reactor::run on a slave *)

\* on_readable, on_hangup and on_error of the socket quit the loop and invalidate
\* it.  poll serves removal requests before it looks for events, so none of them
\* is called for a socket that send has invalidated, unless it is in m_readables,
\* which poll goes through first.
Poll(s) ==
    /\ pc[s] = "poll"
    /\ Goto(s, "interval")
    /\ \/ /\ sock[s] = "dropping"
          /\ sock' = [sock EXCEPT ![s] = "garbage"]
          /\ \E b \in {m_running[s], FALSE} : m_running' = [m_running EXCEPT ![s] = b]
          /\ UNCHANGED <<link, dead>>
       \/ /\ sock[s] = "open" /\ link[s].st \in {"fin", "rst"}
          /\ sock' = [sock EXCEPT ![s] = "garbage"]
          /\ m_running' = [m_running EXCEPT ![s] = FALSE]
          /\ Hang_up(s)
       \/ /\ sock[s] # "dropping"
          /\ sock[s] = "open" => link[s].st \notin {"fin", "rst"}
          /\ UNCHANGED <<sock, m_running, link, dead>>
    /\ UNCHANGED <<vip, checks, data_vars, faults>>

\* The interval has not passed.
NoCallback(s) ==
    /\ pc[s] = "interval"
    /\ Goto(s, "loop")
    /\ UNCHANGED <<vip, checks, m_running, sock, link, dead, data_vars, faults>>

\* The callback of serve_slave: is_master; on_slave_interval, whose send
\* invalidates the socket when it meets an error and does nothing for an invalid
\* one; fix_garbage and gc.  Using a socket that is destroyed may go unnoticed or
\* end the process (UseOfFreed).
Callback(s) ==
    /\ pc[s] = "interval"
    /\ Goto(s, "loop")
    /\ IF is_master(s)
       THEN /\ m_running' = [m_running EXCEPT ![s] = FALSE]
            /\ UNCHANGED <<sock, link, dead>>
       ELSE /\ IF sock[s] = "open" /\ link[s].st = "rst"
               THEN /\ sock' = [sock EXCEPT ![s] = "dropping"]
                    /\ Hang_up(s)
               ELSE /\ sock' = [sock EXCEPT ![s] = IF @ = "garbage" THEN "freed" ELSE @]
                    /\ UNCHANGED <<link, dead>>
            /\ UNCHANGED m_running
    /\ UNCHANGED <<vip, checks, data_vars, faults>>

Loop(s) ==
    /\ pc[s] = "loop"
    /\ Goto(s, IF m_running[s] THEN "poll" ELSE "end")
    /\ UNCHANGED <<vip, checks, m_running, sock, link, dead, data_vars, faults>>

\* on_slave_end; then the promotion loop begins.
End(s) ==
    /\ pc[s] = "end"
    /\ IF sock[s] = "open"
       THEN sock' = [sock EXCEPT ![s] = "garbage"] /\ Hang_up(s)
       ELSE UNCHANGED <<sock, link, dead>>
    /\ Goto(s, "check")
    /\ checks' = [checks EXCEPT ![s] = 0]
    /\ UNCHANGED <<vip, m_running, data_vars, faults>>

-----------------------------------------------------------------------------
(* A master *)

\* Clients store or remove an object; slaves that are connected follow at some
\* time (Copy).
Store(s, o) ==
    /\ pc[s] = "master"
    /\ o \notin hash[s]
    /\ hash' = [hash EXCEPT ![s] = @ \cup {o}]
    /\ offered' = [t \in Servers |-> IF Linked(t, s) THEN offered[t] \cup {o}
                                     ELSE offered[t]]
    /\ UNCHANGED <<vip, role_vars, link, dead, faults>>

Remove(s, o) ==
    /\ pc[s] = "master"
    /\ o \in hash[s]
    /\ hash' = [hash EXCEPT ![s] = @ \ {o}]
    /\ UNCHANGED <<vip, role_vars, link, dead, offered, faults>>

\* The initial copy or an update reaches slave s.
Copy(s, o) ==
    /\ InLoop(s) /\ sock[s] = "open"
    /\ link[s].st = "up"
    /\ hash' = [hash EXCEPT ![s] = IF o \in hash[link[s].peer] THEN @ \cup {o} ELSE @ \ {o}]
    /\ hash' # hash
    /\ UNCHANGED <<vip, role_vars, link, dead, offered, faults>>

\* Mutation: members that are gone stay in m_slaves.
ReapNobody(s) ==
    /\ pc[s] = "master"
    /\ dead[s] > 0
    /\ UNCHANGED vars

\* on_master_interval drops a member of m_slaves that is invalid or timed out.
Reap(s) ==
    /\ pc[s] = "master"
    /\ dead[s] > 0
    /\ dead' = [dead EXCEPT ![s] = @ - 1]
    /\ UNCHANGED <<vip, role_vars, link, data_vars, faults>>

\* The process of s ends: its memory is gone, peers of its connections do not know.
Exit(s) ==
    /\ pc' = [pc EXCEPT ![s] = "down"]
    /\ checks' = [checks EXCEPT ![s] = 0]
    /\ m_running' = [m_running EXCEPT ![s] = FALSE]
    /\ sock' = [sock EXCEPT ![s] = "none"]
    /\ link' = [t \in Servers |->
           IF t = s THEN NoLink
           ELSE IF Linked(t, s) THEN [link[t] EXCEPT !.st = "lost"] ELSE link[t]]
    /\ dead' = [t \in Servers |-> IF t = s THEN 0
                                  ELSE IF Linked(s, t) THEN dead[t] + 1 ELSE dead[t]]
    /\ hash' = [hash EXCEPT ![s] = {}]
    /\ offered' = [offered EXCEPT ![s] = {}]

\* gc_thread::run begins: VIP has been lost.
ExitStaleMaster(s) ==
    /\ pc[s] = "master"
    /\ ~ is_master(s)
    /\ Exit(s)
    /\ UNCHANGED <<vip, faults>>

-----------------------------------------------------------------------------
(* The surroundings *)

\* The service manager starts the process again.
Restart(s) ==
    /\ pc[s] = "down"
    /\ Goto(s, "start")
    /\ UNCHANGED <<vip, checks, m_running, sock, link, dead, data_vars, faults>>

MoveAddress(s) ==
    /\ faults < MaxFaults
    /\ vip' = s /\ vip # s
    /\ faults' = faults + 1
    /\ UNCHANGED <<role_vars, link, dead, data_vars>>

Crash(s) ==
    /\ faults < MaxFaults
    /\ pc[s] # "down"
    /\ Exit(s)
    /\ faults' = faults + 1
    /\ UNCHANGED vip

\* The use of a destroyed socket ends the process.
UseOfFreed(s) ==
    /\ sock[s] = "freed"
    /\ \/ pc[s] = "interval" /\ ~ is_master(s)
       \/ pc[s] = "end"
    /\ Exit(s)
    /\ UNCHANGED <<vip, faults>>

\* The connection of slave s turns out to be broken: its peer is gone, or the
\* address has moved and the new owner answers a heartbeat with a reset.
Broken(s) ==
    /\ \/ link[s].st = "lost"
       \/ link[s].st = "up" /\ link[s].peer # vip
    /\ \E st \in {"fin", "rst"} : link' = [link EXCEPT ![s].st = st]
    /\ dead' = IF link[s].st = "up" THEN [dead EXCEPT ![link[s].peer] = @ + 1] ELSE dead
    /\ UNCHANGED <<vip, role_vars, data_vars, faults>>

\* A connection fails, or the master closes it for want of heartbeats.
Reset(s) ==
    /\ faults < MaxFaults
    /\ link[s].st = "up"
    /\ \E st \in {"fin", "rst"} : link' = [link EXCEPT ![s].st = st]
    /\ dead' = [dead EXCEPT ![link[s].peer] = @ + 1]
    /\ faults' = faults + 1
    /\ UNCHANGED <<vip, role_vars, data_vars>>

Server(s) ==
    \/ Start(s) \/ Check(s) \/ JoinFails(s) \/ Join(s) \/ Poll(s)
    \/ NoCallback(s) \/ Callback(s) \/ Loop(s) \/ End(s)

Next ==
    \/ \E s \in Servers :
          \/ Server(s)
          \/ \E o \in Objects : Store(s, o) \/ Remove(s, o) \/ Copy(s, o)
          \/ Reap(s) \/ ExitStaleMaster(s) \/ Restart(s) \/ Crash(s)
          \/ UseOfFreed(s) \/ Broken(s) \/ Reset(s)
    \/ \E s \in Servers \cup {None} : MoveAddress(s)

Spec == Init /\ [][Next]_vars

\* The threads of a server run; the interval passes again and again; the GC thread
\* is started every gc_interval; the service manager restarts; TCP reports a
\* broken connection since heartbeats are sent.
Fairness ==
    \A s \in Servers :
        /\ WF_vars(Server(s)) /\ SF_vars(Callback(s))
        /\ WF_vars(ExitStaleMaster(s)) /\ WF_vars(Restart(s))
        /\ WF_vars(Broken(s)) /\ WF_vars(Reap(s))

FairSpec == Spec /\ Fairness
-----------------------------------------------------------------------------
TypeOK ==
    /\ vip \in Servers \cup {None}
    /\ pc \in [Servers -> PCs]
    /\ checks \in [Servers -> 0..MASTER_CHECKS]
    /\ m_running \in [Servers -> BOOLEAN]
    /\ sock \in [Servers -> Socks]
    /\ link \in [Servers -> Links]
    /\ dead \in [Servers -> 0..MAX_SLAVES] /\ \A s \in Servers : n_slaves(s) <= MAX_SLAVES
    /\ hash \in [Servers -> SUBSET Objects] /\ offered \in [Servers -> SUBSET Objects]
    /\ faults \in 0..MaxFaults

\* on_slave_start clears the hash: whatever a slave stores, and would serve after
\* its promotion, has been on the master that it is or was last connected to, since
\* the time it connected.  Nothing is left from masters before.  (The variables have
\* their types, and a master never has more than MAX_SLAVES.)
ForgetsOldMaster ==
    /\ TypeOK
    /\ \A s \in Servers : pc[s] # "master" => hash[s] \subseteq offered[s]

\* A slave that has lost its socket in the callback: nothing will quit the loop.
Deserted(s) == InLoop(s) /\ m_running[s] /\ sock[s] \in {"garbage", "freed"}

\* Once the address stays with one server, that server becomes the master, every
\* other master gives up, and all others become slaves connected to it, except
\* those that on_slave_interval has deserted.
ClusterConverges ==
    \A p \in Servers :
        <>[](vip = p) =>
            <>[](/\ pc[p] = "master"
                 /\ \A s \in Servers \ {p} : InLoop(s) /\ (Linked(s, p) \/ Deserted(s)))

\* A slave that is disconnected from the master leaves the reactor loop, looks
\* whether the address is assigned to it, and joins again or becomes the master.
SlaveRejoins ==
    \A s \in Servers : (InLoop(s) /\ sock[s] # "open") ~> ~ InLoop(s)
=============================================================================
