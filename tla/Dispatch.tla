------------------------------ MODULE Dispatch ------------------------------
(***************************************************************************)
(* How the reactor thread hands the sockets that have input to the worker  *)
(* threads, and how it stops the workers.                                  *)
(*                                                                         *)
(* epoll is edge triggered: it reports an arrival once.  The reactor       *)
(* therefore remembers in m_readables the sockets it could not dispatch.   *)
(* A worker's m_running is set by the reactor and cleared by the worker;   *)
(* so is a socket's m_busy.  An eventfd wakes the worker.  post_job and    *)
(* stop are several steps of the reactor, interleaved with the workers'.   *)
(***************************************************************************)
EXTENDS Integers, FiniteSets

CONSTANTS
    Socks,       \* connected memcache sockets
    NWorkers,    \* g_config.workers()
    MaxInput,    \* bound: arrivals per socket
    NoSock       \* not a socket

ASSUME DispatchAssumption ==
    NWorkers \in Nat \ {0} /\ MaxInput \in Nat /\ NoSock \notin Socks

Workers == 0..(NWorkers - 1)

VARIABLES
    m_running, m_exit, m_event, m_job,  \* per worker, as in class worker
    wpc,             \* worker -> where it is in run()
    m_busy,          \* socket -> in use by a worker
    input,           \* socket -> requests in the kernel's receive buffer
    arrived,         \* socket -> requests that have arrived so far
    edge,            \* sockets epoll has an event for
    m_readables,     \* reactor::m_readables
    m_worker_index,  \* server::m_worker_index
    phase,           \* the loop the reactor thread is in
    turn,            \* sockets that loop has yet to call on_readable for
    call,            \* the post_job or stop in progress
    early            \* history: sockets whose job was posted before run() had begun

vars == <<m_running, m_exit, m_event, m_job, wpc, m_busy, input, arrived,
          edge, m_readables, m_worker_index, phase, turn, call, early>>

workerVars == <<m_running, m_exit, m_event, m_job, wpc>>
sockVars == <<m_busy, input, arrived, edge>>
reactorVars == <<m_readables, m_worker_index, phase, turn, early>>

\* start: not yet in run().  loop: about to store false.  check: about to test m_exit.  recv: in the job.
\* clear: the job is about to reset m_busy.
WPCs == {"start", "loop", "read", "spin", "check", "recv", "clear", "returned"}

\* list, epoll: the two loops of poll().  stop: the loop of serve_master over
\* the workers.
Phases == {"list", "epoll", "stop", "done"}

\* The statement to execute next: three of post_job, four of stop.
Steps == {"none", "job", "run", "notify", "exit", "exit_run", "exit_notify", "join"}

NoCall == [step |-> "none", sock |-> NoSock, worker |-> 0]

TypeOK ==
    /\ m_running \in [Workers -> BOOLEAN] /\ m_exit \in [Workers -> BOOLEAN]
    /\ m_event \in [Workers -> Nat] /\ m_job \in [Workers -> Socks \cup {NoSock}]
    /\ wpc \in [Workers -> WPCs]
    /\ m_busy \in [Socks -> BOOLEAN]
    /\ input \in [Socks -> Nat] /\ arrived \in [Socks -> 0..MaxInput]
    /\ edge \subseteq Socks /\ m_readables \subseteq Socks /\ turn \subseteq Socks
    /\ early \subseteq Socks
    /\ m_worker_index \in Workers
    /\ phase \in Phases
    /\ call \in [step : Steps, sock : Socks \cup {NoSock}, worker : Workers]

\* start() of the workers has returned; their threads need not have begun.
Init ==
    /\ m_running = [w \in Workers |-> FALSE]
    /\ m_exit = [w \in Workers |-> FALSE]
    /\ m_event = [w \in Workers |-> 0]
    /\ m_job = [w \in Workers |-> NoSock]
    /\ wpc = [w \in Workers |-> "start"]
    /\ m_busy = [s \in Socks |-> FALSE]
    /\ input = [s \in Socks |-> 0] /\ arrived = [s \in Socks |-> 0]
    /\ edge = {} /\ m_readables = {} /\ turn = {}
    /\ m_worker_index = 0
    /\ phase = "list"
    /\ call = NoCall /\ early = {}

-----------------------------------------------------------------------------
(* A client, through the kernel *)

Arrive(s) ==
    /\ arrived[s] < MaxInput /\ phase \in {"list", "epoll"}
    /\ arrived' = [arrived EXCEPT ![s] = @ + 1]
    /\ input' = [input EXCEPT ![s] = @ + 1]
    /\ edge' = edge \cup {s}
    /\ UNCHANGED <<workerVars, m_busy, reactorVars, call>>

-----------------------------------------------------------------------------
(* reactor::poll *)

is_running(w) == m_running[w]

\* The finder: the first idle worker from m_worker_index on.
Idle == {w \in Workers : ~is_running(w)}

Distance(w) == (w - m_worker_index) % NWorkers

finder(w) == w \in Idle /\ \A v \in Idle : Distance(w) <= Distance(v)

NextIndex(w) == (w + 1) % NWorkers

Between == call.step = "none" /\ turn = {}

\* After the drop requests epoll_wait reports the edges, and forgets them.
epoll_wait ==
    /\ phase = "list" /\ Between
    /\ phase' = "epoll" /\ turn' = edge /\ edge' = {}
    /\ UNCHANGED <<workerVars, m_busy, input, arrived, m_readables,
                   m_worker_index, call, early>>

\* The next turn of poll takes the readables.
take_readables ==
    /\ phase = "epoll" /\ Between
    /\ phase' = "list" /\ turn' = m_readables /\ m_readables' = {}
    /\ UNCHANGED <<workerVars, sockVars, m_worker_index, call, early>>

\* Mutation: the socket is not remembered.
ForgetReadable(s) == UNCHANGED m_readables

add_readable(s) == m_readables' = m_readables \cup {s}

\* Mutation: a socket that is busy is dispatched again.
WaitsForIdle(s) == Idle = {}

Waits(s) == m_busy[s] \/ Idle = {}

\* memcache_socket::on_readable up to post_job.  When the finder comes back
\* empty-handed m_worker_index has gone round once.
on_readable(s) ==
    /\ phase \in {"list", "epoll"} /\ call.step = "none" /\ s \in turn
    /\ turn' = turn \ {s}
    /\ \/ /\ Waits(s)
          /\ add_readable(s)
          /\ UNCHANGED <<m_busy, m_worker_index, call>>
       \/ \E w \in Workers :
             /\ ~Waits(s) /\ finder(w)
             /\ m_worker_index' = NextIndex(w)
             /\ m_busy' = [m_busy EXCEPT ![s] = TRUE]
             /\ call' = [step |-> "job", sock |-> s, worker |-> w]
             /\ UNCHANGED m_readables
    /\ UNCHANGED <<workerVars, input, arrived, edge, phase, early>>

\* Mutation: the eventfd is not written.
PostJobSilently ==
    LET w == call.worker
    IN  /\ call.step = "job" /\ call' = NoCall
        /\ m_job' = [m_job EXCEPT ![w] = call.sock]
        /\ m_running' = [m_running EXCEPT ![w] = TRUE]
        /\ UNCHANGED <<m_event, m_exit, wpc, sockVars, reactorVars>>

\* The three statements of post_job.
post_job ==
    LET w == call.worker
    IN  /\ \/ /\ call.step = "job"
              /\ m_job' = [m_job EXCEPT ![w] = call.sock]
              /\ call' = [call EXCEPT !.step = "run"]
              /\ UNCHANGED <<m_running, m_event, early>>
           \/ /\ call.step = "run"
              /\ m_running' = [m_running EXCEPT ![w] = TRUE]
              /\ call' = [call EXCEPT !.step = "notify"]
              /\ early' = IF wpc[w] = "start" THEN early \cup {call.sock} ELSE early
              /\ UNCHANGED <<m_job, m_event>>
           \/ /\ call.step = "notify"
              /\ m_event' = [m_event EXCEPT ![w] = @ + 1]
              /\ call' = NoCall
              /\ UNCHANGED <<m_job, m_running, early>>
        /\ UNCHANGED <<m_exit, wpc, sockVars, m_readables, m_worker_index, phase, turn>>

-----------------------------------------------------------------------------
(* server::serve_master leaves the loop, invalidates all sockets and stops
   the workers one after the other *)

\* Mutation: stop writes the eventfd without setting the flags.
StopSilently(w) == [step |-> "exit_notify", sock |-> NoSock, worker |-> w]

Stop(w) == [step |-> "exit", sock |-> NoSock, worker |-> w]

quit ==
    /\ phase = "epoll" /\ Between
    /\ phase' = "stop" /\ call' = Stop(0)
    /\ UNCHANGED <<workerVars, sockVars, m_readables, m_worker_index, turn, early>>

stop ==
    LET w == call.worker
    IN  /\ \/ /\ call.step = "exit"
              /\ m_exit' = [m_exit EXCEPT ![w] = TRUE]
              /\ call' = [call EXCEPT !.step = "exit_run"]
              /\ UNCHANGED <<m_running, m_event, phase>>
           \/ /\ call.step = "exit_run"
              /\ m_running' = [m_running EXCEPT ![w] = TRUE]
              /\ call' = [call EXCEPT !.step = "exit_notify"]
              /\ UNCHANGED <<m_exit, m_event, phase>>
           \/ /\ call.step = "exit_notify"
              /\ m_event' = [m_event EXCEPT ![w] = @ + 1]
              /\ call' = [call EXCEPT !.step = "join"]
              /\ UNCHANGED <<m_exit, m_running, phase>>
           \/ /\ call.step = "join" /\ wpc[w] = "returned"
              /\ IF w + 1 \in Workers
                 THEN call' = Stop(w + 1) /\ UNCHANGED phase
                 ELSE call' = NoCall /\ phase' = "done"
              /\ UNCHANGED <<m_exit, m_running, m_event>>
        /\ UNCHANGED <<m_job, wpc, sockVars, m_readables, m_worker_index, turn, early>>

-----------------------------------------------------------------------------
(* worker::run *)

Goto(w, l) == wpc' = [wpc EXCEPT ![w] = l]

clear_running(w) ==
    /\ wpc[w] \in {"start", "loop"} /\ Goto(w, "read")
    /\ m_running' = [m_running EXCEPT ![w] = FALSE]
    /\ UNCHANGED <<m_exit, m_event, m_job, sockVars, reactorVars, call>>

\* read() blocks while the eventfd is zero, and resets it.
read_event(w) ==
    /\ wpc[w] = "read" /\ m_event[w] > 0 /\ Goto(w, "spin")
    /\ m_event' = [m_event EXCEPT ![w] = 0]
    /\ UNCHANGED <<m_running, m_exit, m_job, sockVars, reactorVars, call>>

spin(w) ==
    /\ wpc[w] = "spin" /\ is_running(w) /\ Goto(w, "check")
    /\ UNCHANGED <<m_running, m_exit, m_event, m_job, sockVars, reactorVars, call>>

check_exit(w) ==
    /\ wpc[w] = "check" /\ Goto(w, IF m_exit[w] THEN "returned" ELSE "recv")
    /\ UNCHANGED <<m_running, m_exit, m_event, m_job, sockVars, reactorVars, call>>

\* The loop of m_recvjob reads all there is until recv says EAGAIN; sockets
\* are invalid once the reactor has left its loop.
recv(w) ==
    LET s == m_job[w]
    IN  /\ wpc[w] = "recv"
        /\ IF input[s] > 0 /\ phase \in {"list", "epoll"}
           THEN input' = [input EXCEPT ![s] = 0] /\ UNCHANGED wpc
           ELSE Goto(w, "clear") /\ UNCHANGED input
        /\ UNCHANGED <<m_running, m_exit, m_event, m_job, m_busy, arrived, edge,
                       reactorVars, call>>

clear_busy(w) ==
    /\ wpc[w] = "clear" /\ Goto(w, "loop")
    /\ m_busy' = [m_busy EXCEPT ![m_job[w]] = FALSE]
    /\ UNCHANGED <<m_running, m_exit, m_event, m_job, input, arrived, edge,
                   reactorVars, call>>

-----------------------------------------------------------------------------
run(w) ==
    \/ clear_running(w) \/ read_event(w) \/ spin(w) \/ check_exit(w)
    \/ recv(w) \/ clear_busy(w)

poll ==
    \/ epoll_wait \/ take_readables
    \/ \E s \in Socks : on_readable(s)
    \/ post_job

Next ==
    \/ \E s \in Socks : Arrive(s)
    \/ poll
    \/ quit
    \/ stop
    \/ \E w \in Workers : run(w)
    \/ phase = "done" /\ UNCHANGED vars

\* Threads that can run do run.  The server need not be told to stop.
Fairness ==
    /\ WF_vars(poll) /\ WF_vars(stop)
    /\ \A w \in Workers : WF_vars(run(w))

Spec == Init /\ [][Next]_vars /\ Fairness

-----------------------------------------------------------------------------
(* Properties *)

\* The worker has taken the job that m_job holds and has not finished it.
Working(w) == wpc[w] \in {"recv", "clear"}

\* While a worker handles a socket no other worker is given that socket, and
\* the socket's busy flag is up.  (The variables have their types.)
OneWorkerPerSocket ==
    /\ TypeOK
    /\ \A v, w \in Workers :
          Working(v) /\ Working(w) /\ m_job[v] = m_job[w] => v = w
    /\ \A w \in Workers : Working(w) => m_busy[m_job[w]]

\* No missed wakeup: a worker whose m_running is up and that has not yet
\* returned from read() finds an event, now or after the reactor's next step.
WakeupIsRemembered ==
    \A w \in Workers : wpc[w] = "read" /\ m_running[w] =>
        m_event[w] > 0 \/ (call.worker = w /\ call.step \in {"notify", "exit_notify"})

\* Input is never forgotten although epoll reports it only once: every request
\* that arrives is received, unless the server stops first.  The exception: the
\* first store of run() clears the m_running of a job posted before, the job is
\* forgotten, and its socket stays busy.
InputIsReceived ==
    \A s \in Socks :
        input[s] > 0 ~> input[s] = 0 \/ phase \in {"stop", "done"} \/ s \in early

\* The worker has cleared m_running after stop had set it and has taken its event;
\* the reactor waits in join, and nobody will set m_running again.
SpinsForEver(w) ==
    call.step = "join" /\ call.worker = w /\ wpc[w] = "spin" /\ ~m_running[w]

\* Stopping the server joins every worker, except that a worker which begins, or
\* ends a job, beside stop() may spin for ever.  If all workers are blocked in
\* read() when the reactor leaves its loop, all are joined.
StopTerminates ==
    /\ phase = "stop" ~> phase = "done" \/ \E w \in Workers : SpinsForEver(w)
    /\ (phase = "stop" /\ call = Stop(0) /\ \A w \in Workers : wpc[w] = "read" /\ ~m_running[w])
          ~> phase = "done"
=============================================================================
