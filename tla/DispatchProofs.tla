--------------------------- MODULE DispatchProofs ---------------------------
(***************************************************************************)
(* Proofs, for every number of workers and every set of sockets: two       *)
(* workers never handle the same socket, and a worker that is to run finds *)
(* its event.                                                              *)
(***************************************************************************)
EXTENDS Dispatch, TLAPS

\* A worker past read() and spin() has m_running up: only the store at the head
\* of its loop takes it down.
RunningOK ==
    \A w \in Workers : wpc[w] \in {"check", "recv", "clear", "loop"} => m_running[w]

\* The worker will handle, or handles, the socket of m_job.  A worker that is
\* told to exit does so when it tests m_exit.
Holds(w) ==
    \/ Working(w)
    \/ wpc[w] \in {"start", "read", "spin", "check"} /\ m_running[w] /\ ~m_exit[w]

\* The sockets that workers hold are busy and differ.
HoldersOK ==
    /\ \A w \in Workers : Holds(w) => m_job[w] \in Socks /\ m_busy[m_job[w]]
    /\ \A v, w \in Workers : Holds(v) /\ Holds(w) /\ m_job[v] = m_job[w] => v = w

\* The reactor posts a busy socket that no worker holds to an idle worker.
CallOK ==
    /\ call.step \in {"job", "run", "notify"} => call.sock \in Socks
    /\ call.step \in {"job", "run"} =>
          /\ m_busy[call.sock] /\ ~m_running[call.worker]
          /\ \A w \in Workers : Holds(w) => m_job[w] # call.sock
    /\ call.step = "run" => m_job[call.worker] = call.sock
    /\ call.step \in {"exit_run", "exit_notify", "join"} => m_exit[call.worker]

IInv == TypeOK /\ RunningOK /\ HoldersOK /\ CallOK /\ WakeupIsRemembered

-----------------------------------------------------------------------------
(* Facts about the steps *)

\* The workers are the numbers below NWorkers; the first is 0.
LEMMA WorkerNumbers ==
    /\ 0 \in Workers
    /\ \A w \in Workers : NextIndex(w) \in Workers
BY DispatchAssumption DEF Workers, NextIndex

\* A step that leaves the workers, the busy flags and the call alone.
LEMMA FrameFacts ==
    ASSUME IInv,
           UNCHANGED <<m_running, m_exit, m_event, m_job, wpc, m_busy, call>>
    PROVE  RunningOK' /\ HoldersOK' /\ CallOK' /\ WakeupIsRemembered'
<1>1. \A w \in Workers : Holds(w)' <=> Holds(w)
  BY Zenon DEF Holds, Working
<1>2. RunningOK' /\ WakeupIsRemembered'
  BY Zenon DEF IInv, RunningOK, WakeupIsRemembered
<1>3. HoldersOK'
  BY <1>1, Zenon DEF IInv, HoldersOK
<1>4. CallOK'
  BY <1>1, Zenon DEF IInv, CallOK
<1> QED
  BY <1>2, <1>3, <1>4

\* A step that gives no worker a socket.
LEMMA NoNewHolder ==
    ASSUME IInv,
           \A w \in Workers : Holds(w)' => /\ Holds(w) /\ m_job'[w] = m_job[w]
                                           /\ m_busy'[m_job[w]]
    PROVE  HoldersOK'
BY Zenon DEF IInv, HoldersOK

\* The same for the call in progress.
LEMMA CallKept ==
    ASSUME IInv,
           UNCHANGED call,
           \A w \in Workers : Holds(w)' => Holds(w) /\ m_job'[w] = m_job[w],
           call.step \in {"job", "run"} =>
              m_busy'[call.sock] /\ m_running'[call.worker] = m_running[call.worker],
           UNCHANGED <<m_exit, m_job>>
    PROVE  CallOK'
BY Zenon DEF IInv, CallOK

\* The call has a worker, and the socket of a job.
LEMMA CallFacts ==
    ASSUME IInv
    PROVE  /\ call.worker \in Workers /\ call.sock \in Socks \cup {NoSock}
           /\ call.step \in Steps
           /\ call.step \in {"job", "run", "notify"} => call.sock \in Socks
<1>1. call \in [step : Steps, sock : Socks \cup {NoSock}, worker : Workers]
  BY Zenon DEF IInv, TypeOK
<1>2. /\ call.worker \in Workers /\ call.sock \in Socks \cup {NoSock}
      /\ call.step \in Steps
  BY <1>1
<1> QED
  BY <1>2, Zenon DEF IInv, CallOK

-----------------------------------------------------------------------------
(* The client and the reactor *)

\* A request arrives at a socket.
LEMMA ArrivePreserves ==
    ASSUME IInv, NEW s \in Socks, Arrive(s)
    PROVE  IInv'
<1>1. /\ arrived[s] < MaxInput
      /\ arrived' = [arrived EXCEPT ![s] = @ + 1]
      /\ input' = [input EXCEPT ![s] = @ + 1]
      /\ edge' = edge \cup {s}
      /\ UNCHANGED <<m_running, m_exit, m_event, m_job, wpc, m_busy, m_readables,
                     m_worker_index, phase, turn, early, call>>
  BY Zenon DEF Arrive, workerVars, reactorVars
<1>2. arrived \in [Socks -> 0..MaxInput] /\ input \in [Socks -> Nat] /\ edge \subseteq Socks
  BY Zenon DEF IInv, TypeOK
<1>3. arrived' \in [Socks -> 0..MaxInput] /\ input' \in [Socks -> Nat] /\ edge' \subseteq Socks
  <2>1. arrived[s] + 1 \in 0..MaxInput /\ input[s] + 1 \in Nat
    BY <1>1, <1>2, DispatchAssumption
  <2> QED
    BY <1>1, <1>2, <2>1, Zenon
<1>4. TypeOK'
  BY <1>1, <1>3, Zenon DEF IInv, TypeOK
<1> QED
  BY <1>1, <1>4, FrameFacts, Zenon DEF IInv

\* One of the two loops of poll() begins.
LEMMA PollPreserves ==
    ASSUME IInv, epoll_wait \/ take_readables
    PROVE  IInv'
<1>1. /\ phase' \in {"list", "epoll"}
      /\ turn' \in {edge, m_readables} /\ edge' \in {edge, {}}
      /\ m_readables' \in {m_readables, {}}
      /\ UNCHANGED <<m_running, m_exit, m_event, m_job, wpc, m_busy, input, arrived,
                     m_worker_index, early, call>>
  BY Zenon DEF epoll_wait, take_readables, workerVars, sockVars
<1>2. TypeOK'
  <2>1. edge \subseteq Socks /\ m_readables \subseteq Socks
    BY Zenon DEF IInv, TypeOK
  <2>2. turn' \subseteq Socks /\ edge' \subseteq Socks /\ m_readables' \subseteq Socks
    BY <1>1, <2>1, Zenon
  <2>3. phase' \in Phases
    BY <1>1, Zenon DEF Phases
  <2> QED
    BY <1>1, <2>2, <2>3, Zenon DEF IInv, TypeOK
<1> QED
  BY <1>1, <1>2, FrameFacts, Zenon DEF IInv

\* A socket that waits is remembered; one that is dispatched was not busy, so
\* no worker holds it, and the finder has chosen an idle worker.
LEMMA OnReadablePreserves ==
    ASSUME IInv, NEW s \in Socks, on_readable(s)
    PROVE  IInv'
<1>1. turn' = turn \ {s}
      /\ UNCHANGED <<m_running, m_exit, m_event, m_job, wpc, input, arrived, edge,
                     phase, early>>
  BY Zenon DEF on_readable, workerVars
<1>2. turn' \subseteq Socks
  BY <1>1, Zenon DEF IInv, TypeOK
<1>3. CASE add_readable(s) /\ UNCHANGED <<m_busy, m_worker_index, call>>
  <2>1. m_readables' \subseteq Socks
    BY <1>3, Zenon DEF add_readable, IInv, TypeOK
  <2>2. TypeOK'
    BY <1>1, <1>2, <1>3, <2>1, Zenon DEF IInv, TypeOK
  <2> QED
    BY <1>1, <1>3, <2>2, FrameFacts, Zenon DEF IInv
<1>4. ASSUME NEW w \in Workers, ~Waits(s), finder(w),
             m_worker_index' = NextIndex(w),
             m_busy' = [m_busy EXCEPT ![s] = TRUE],
             call' = [step |-> "job", sock |-> s, worker |-> w],
             UNCHANGED m_readables
      PROVE  IInv'
  <2>1. ~m_busy[s] /\ ~m_running[w]
    BY <1>4, Zenon DEF Waits, finder, Idle, is_running
  <2>2. call'.step = "job" /\ call'.sock = s /\ call'.worker = w
    BY <1>4
  <2>3. TypeOK'
    <3>1. call' \in [step : Steps, sock : Socks \cup {NoSock}, worker : Workers]
      BY <1>4 DEF Steps
    <3>2. m_busy' \in [Socks -> BOOLEAN]
      BY <1>4, Zenon DEF IInv, TypeOK
    <3>3. m_worker_index' \in Workers
      BY <1>4, WorkerNumbers, Zenon
    <3> QED
      BY <1>1, <1>2, <1>4, <3>1, <3>2, <3>3, Zenon DEF IInv, TypeOK
  <2>4. m_busy'[s] /\ \A t \in Socks : m_busy[t] => m_busy'[t]
    <3>1. m_busy \in [Socks -> BOOLEAN]
      BY Zenon DEF IInv, TypeOK
    <3> QED
      BY <1>4, <3>1, Zenon
  <2>5. \A v \in Workers : Holds(v)' <=> Holds(v)
    BY <1>1, Zenon DEF Holds, Working
  <2>6. \A v \in Workers : Holds(v) => m_job[v] \in Socks /\ m_busy[m_job[v]]
    BY Zenon DEF IInv, HoldersOK
  <2>7. HoldersOK'
    BY <1>1, <2>4, <2>5, <2>6, NoNewHolder, Zenon
  <2>8. CallOK'
    <3>1. \A v \in Workers : Holds(v)' => m_job'[v] # s
      BY <1>1, <2>1, <2>5, <2>6, Zenon
    <3> QED
      BY <1>1, <2>1, <2>2, <2>4, <3>1, Zenon DEF CallOK
  <2>9. RunningOK' /\ WakeupIsRemembered'
    <3>1. RunningOK'
      BY <1>1, Zenon DEF IInv, RunningOK
    <3>2. ~(call.step \in {"notify", "exit_notify"})
      BY Zenon DEF on_readable
    <3> QED
      BY <1>1, <3>1, <3>2, Zenon DEF IInv, WakeupIsRemembered
  <2> QED
    BY <2>3, <2>7, <2>8, <2>9, Zenon DEF IInv
<1> QED
  BY <1>3, <1>4, Zenon DEF on_readable

\* The three statements of post_job.
LEMMA PostJobPreserves ==
    ASSUME IInv, post_job
    PROVE  IInv'
<1> DEFINE w == call.worker
<1>1. UNCHANGED <<m_exit, wpc, m_busy, input, arrived, edge, m_readables,
                  m_worker_index, phase, turn>>
  BY Zenon DEF post_job, sockVars
<1>2. /\ w \in Workers
      /\ call.step \in {"job", "run", "notify"} => call.sock \in Socks
      /\ call \in [step : Steps, sock : Socks \cup {NoSock}, worker : Workers]
  BY CallFacts, Zenon DEF IInv, TypeOK
<1>3. CASE /\ call.step = "job"
           /\ m_job' = [m_job EXCEPT ![w] = call.sock]
           /\ call' = [call EXCEPT !.step = "run"]
           /\ UNCHANGED <<m_running, m_event, early>>
  <2>1. /\ call'.step = "run" /\ call'.sock = call.sock /\ call'.worker = w
        /\ call' \in [step : Steps, sock : Socks \cup {NoSock}, worker : Workers]
    BY <1>2, <1>3 DEF Steps
  <2>2. /\ m_job' \in [Workers -> Socks \cup {NoSock}] /\ m_job'[w] = call.sock
        /\ \A v \in Workers : v # w => m_job'[v] = m_job[v]
    BY <1>2, <1>3, Zenon DEF IInv, TypeOK
  <2>3. TypeOK'
    BY <1>1, <1>3, <2>1, <2>2, Zenon DEF IInv, TypeOK
  <2>4. ~Holds(w) /\ ~m_running[w] /\ m_busy[call.sock] /\ call.sock \in Socks
        /\ \A v \in Workers : Holds(v) => m_job[v] # call.sock
    <3>1. ~m_running[w] /\ m_busy[call.sock] /\ call.sock \in Socks
          /\ \A v \in Workers : Holds(v) => m_job[v] # call.sock
      BY <1>3, Zenon DEF IInv, CallOK
    <3>2. ~Holds(w)
      BY <1>2, <3>1, Zenon DEF IInv, RunningOK, Holds, Working
    <3> QED
      BY <3>1, <3>2
  <2>5. \A v \in Workers : Holds(v)' <=> Holds(v)
    BY <1>1, <1>3, Zenon DEF Holds, Working
  <2>6. \A v \in Workers : Holds(v)' => v # w /\ m_job'[v] = m_job[v] /\ Holds(v)
    BY <2>2, <2>4, <2>5, Zenon
  <2>7. HoldersOK'
    <3>1. \A v \in Workers : Holds(v) => m_busy'[m_job[v]]
      BY <1>1, Zenon DEF IInv, HoldersOK
    <3> QED
      BY <2>6, <3>1, NoNewHolder, Zenon
  <2>8. CallOK'
    <3>1. \A v \in Workers : Holds(v)' => m_job'[v] # call.sock
      BY <2>4, <2>6, Zenon
    <3> QED
      BY <1>1, <1>3, <2>1, <2>2, <2>4, <3>1, Zenon DEF CallOK
  <2>9. RunningOK' /\ WakeupIsRemembered'
    BY <1>1, <1>3, Zenon DEF IInv, RunningOK, WakeupIsRemembered
  <2> QED
    BY <2>3, <2>7, <2>8, <2>9, Zenon DEF IInv

<1>4. CASE /\ call.step = "run"
           /\ m_running' = [m_running EXCEPT ![w] = TRUE]
           /\ call' = [call EXCEPT !.step = "notify"]
           /\ early' = IF wpc[w] = "start" THEN early \cup {call.sock} ELSE early
           /\ UNCHANGED <<m_job, m_event>>
  <2>1. /\ call'.step = "notify" /\ call'.sock = call.sock /\ call'.worker = w
        /\ call' \in [step : Steps, sock : Socks \cup {NoSock}, worker : Workers]
    BY <1>2, <1>4 DEF Steps
  <2>2. /\ m_running' \in [Workers -> BOOLEAN] /\ m_running'[w]
        /\ \A v \in Workers : v # w => m_running'[v] = m_running[v]
    BY <1>2, <1>4, Zenon DEF IInv, TypeOK
  <2>3. call.sock \in Socks
    BY <1>2, <1>4, Zenon
  <2>4. early' \subseteq Socks
    <3>1. early \subseteq Socks
      BY Zenon DEF IInv, TypeOK
    <3> QED
      BY <1>4, <2>3, <3>1
  <2>5. TypeOK'
    BY <1>1, <1>4, <2>1, <2>2, <2>4, Zenon DEF IInv, TypeOK
  <2>6. /\ m_job[w] = call.sock /\ m_busy[call.sock]
        /\ \A v \in Workers : Holds(v) => m_job[v] # call.sock
    BY <1>4, Zenon DEF IInv, CallOK
  <2>7. \A v \in Workers : v # w => (Holds(v)' <=> Holds(v))
    BY <1>1, <2>2, Zenon DEF Holds, Working
  <2>8. HoldersOK'
    <3>1. /\ \A v \in Workers : Holds(v) => m_job[v] \in Socks /\ m_busy[m_job[v]]
          /\ \A u, v \in Workers : Holds(u) /\ Holds(v) /\ m_job[u] = m_job[v] => u = v
      BY Zenon DEF IInv, HoldersOK
    <3>2. \A v \in Workers : Holds(v)' => m_job'[v] \in Socks /\ m_busy'[m_job'[v]]
      BY <1>1, <1>4, <2>3, <2>6, <2>7, <3>1, Zenon
    <3>3. \A u, v \in Workers :
             Holds(u)' /\ Holds(v)' /\ m_job'[u] = m_job'[v] => u = v
      BY <1>4, <2>6, <2>7, <3>1, Zenon
    <3> QED
      BY <3>2, <3>3, Zenon DEF HoldersOK
  <2>9. CallOK'
    BY <2>1, <2>3, Zenon DEF CallOK
  <2>10. RunningOK'
    BY <1>1, <2>2, Zenon DEF IInv, RunningOK
  <2>11. WakeupIsRemembered'
    <3>1. ~(call.step \in {"notify", "exit_notify"})
      BY <1>4, Zenon
    <3> QED
      BY <1>1, <1>4, <2>1, <2>2, <3>1, Zenon DEF IInv, WakeupIsRemembered
  <2> QED
    BY <2>5, <2>8, <2>9, <2>10, <2>11, Zenon DEF IInv
<1>5. CASE /\ call.step = "notify"
           /\ m_event' = [m_event EXCEPT ![w] = @ + 1]
           /\ call' = NoCall
           /\ UNCHANGED <<m_job, m_running, early>>
  <2>1. call'.step = "none" /\ call' \in [step : Steps, sock : Socks \cup {NoSock}, worker : Workers]
    BY <1>5, WorkerNumbers DEF NoCall, Steps
  <2>2. /\ m_event' \in [Workers -> Nat] /\ m_event'[w] > 0
        /\ \A v \in Workers : v # w => m_event'[v] = m_event[v]
    <3>1. m_event \in [Workers -> Nat]
      BY Zenon DEF IInv, TypeOK
    <3> QED
      BY <1>2, <1>5, <3>1
  <2>3. TypeOK'
    BY <1>1, <1>5, <2>1, <2>2, Zenon DEF IInv, TypeOK
  <2>4. \A v \in Workers : Holds(v)' <=> Holds(v)
    BY <1>1, <1>5, Zenon DEF Holds, Working
  <2>5. HoldersOK'
    BY <1>1, <1>5, <2>4, Zenon DEF IInv, HoldersOK
  <2>6. CallOK' /\ RunningOK'
    <3>1. CallOK'
      BY <2>1, Zenon DEF CallOK
    <3> QED
      BY <1>1, <1>5, <3>1, Zenon DEF IInv, RunningOK
  <2>7. WakeupIsRemembered'
    BY <1>1, <1>5, <2>2, Zenon DEF IInv, WakeupIsRemembered
  <2> QED
    BY <2>3, <2>5, <2>6, <2>7, Zenon DEF IInv
<1> QED
  BY <1>3, <1>4, <1>5, Zenon DEF post_job

-----------------------------------------------------------------------------
(* The end of the server *)

\* A call of stop for worker w, as the first statement of it.
LEMMA StopCall ==
    ASSUME NEW w \in Workers
    PROVE  /\ Stop(w) \in [step : Steps, sock : Socks \cup {NoSock}, worker : Workers]
           /\ Stop(w).step = "exit"
BY DEF Stop, Steps

\* A step that only begins another call, where none waits to notify.
LEMMA NewCall ==
    ASSUME IInv, call'.step \in {"exit", "none"},
           ~(call.step \in {"notify", "exit_notify"}),
           UNCHANGED <<m_running, m_exit, m_event, m_job, wpc, m_busy>>
    PROVE  RunningOK' /\ HoldersOK' /\ CallOK' /\ WakeupIsRemembered'
<1>1. \A w \in Workers : Holds(w)' <=> Holds(w)
  BY Zenon DEF Holds, Working
<1>2. RunningOK' /\ WakeupIsRemembered'
  BY Zenon DEF IInv, RunningOK, WakeupIsRemembered
<1>3. HoldersOK'
  BY <1>1, Zenon DEF IInv, HoldersOK
<1>4. CallOK'
  BY Zenon DEF CallOK
<1> QED
  BY <1>2, <1>3, <1>4

\* The reactor leaves its loop.
LEMMA QuitPreserves ==
    ASSUME IInv, quit
    PROVE  IInv'
<1>1. /\ phase' = "stop" /\ call' = Stop(0) /\ call.step = "none"
      /\ UNCHANGED <<m_running, m_exit, m_event, m_job, wpc, m_busy, input, arrived,
                     edge, m_readables, m_worker_index, turn, early>>
  BY Zenon DEF quit, Between, workerVars, sockVars
<1>2. /\ call' \in [step : Steps, sock : Socks \cup {NoSock}, worker : Workers]
      /\ call'.step = "exit" /\ phase' \in Phases
  BY <1>1, StopCall, WorkerNumbers, Zenon DEF Phases
<1>3. TypeOK'
  BY <1>1, <1>2, Zenon DEF IInv, TypeOK
<1>4. ~(call.step \in {"notify", "exit_notify"})
  BY <1>1, Zenon
<1> QED
  BY <1>1, <1>2, <1>3, <1>4, NewCall, Zenon DEF IInv

\* The four statements of stop.
LEMMA StopPreserves ==
    ASSUME IInv, stop
    PROVE  IInv'
<1> DEFINE w == call.worker
<1>1. UNCHANGED <<m_job, wpc, m_busy, input, arrived, edge, m_readables,
                  m_worker_index, turn, early>>
  BY Zenon DEF stop, sockVars
<1>2. /\ w \in Workers
      /\ call \in [step : Steps, sock : Socks \cup {NoSock}, worker : Workers]
  BY CallFacts, Zenon DEF IInv, TypeOK
<1>3. CASE /\ call.step = "exit"
           /\ m_exit' = [m_exit EXCEPT ![w] = TRUE]
           /\ call' = [call EXCEPT !.step = "exit_run"]
           /\ UNCHANGED <<m_running, m_event, phase>>
  <2>1. /\ call'.step = "exit_run" /\ call'.worker = w
        /\ call' \in [step : Steps, sock : Socks \cup {NoSock}, worker : Workers]
    BY <1>2, <1>3 DEF Steps
  <2>2. /\ m_exit' \in [Workers -> BOOLEAN] /\ m_exit'[w]
        /\ \A v \in Workers : m_exit[v] => m_exit'[v]
    <3>1. m_exit \in [Workers -> BOOLEAN]
      BY Zenon DEF IInv, TypeOK
    <3> QED
      BY <1>2, <1>3, <3>1, Zenon
  <2>3. TypeOK'
    BY <1>1, <1>3, <2>1, <2>2, Zenon DEF IInv, TypeOK
  <2>4. \A v \in Workers : Holds(v)' => Holds(v)
    BY <1>1, <1>3, <2>2, Zenon DEF Holds, Working
  <2>5. HoldersOK'
    BY <1>1, <2>4, Zenon DEF IInv, HoldersOK
  <2>6. CallOK'
    BY <2>1, <2>2, Zenon DEF CallOK
  <2>7. RunningOK' /\ WakeupIsRemembered'
    <3>1. ~(call.step \in {"notify", "exit_notify"})
      BY <1>3, Zenon
    <3> QED
      BY <1>1, <1>3, <3>1, Zenon DEF IInv, RunningOK, WakeupIsRemembered
  <2> QED
    BY <2>3, <2>5, <2>6, <2>7, Zenon DEF IInv
<1>4. CASE /\ call.step = "exit_run"
           /\ m_running' = [m_running EXCEPT ![w] = TRUE]
           /\ call' = [call EXCEPT !.step = "exit_notify"]
           /\ UNCHANGED <<m_exit, m_event, phase>>
  <2>1. /\ call'.step = "exit_notify" /\ call'.worker = w
        /\ call' \in [step : Steps, sock : Socks \cup {NoSock}, worker : Workers]
    BY <1>2, <1>4 DEF Steps
  <2>2. /\ m_running' \in [Workers -> BOOLEAN] /\ m_running'[w]
        /\ \A v \in Workers : v # w => m_running'[v] = m_running[v]
    BY <1>2, <1>4, Zenon DEF IInv, TypeOK
  <2>3. TypeOK'
    BY <1>1, <1>4, <2>1, <2>2, Zenon DEF IInv, TypeOK
  <2>4. m_exit[w]
    BY <1>4, Zenon DEF IInv, CallOK
  <2>5. \A v \in Workers : Holds(v)' => Holds(v)
    BY <1>1, <1>4, <2>2, <2>4, Zenon DEF Holds, Working
  <2>6. HoldersOK'
    BY <1>1, <2>5, Zenon DEF IInv, HoldersOK
  <2>7. CallOK'
    BY <1>4, <2>1, <2>4, Zenon DEF CallOK
  <2>8. RunningOK'
    BY <1>1, <2>2, Zenon DEF IInv, RunningOK
  <2>9. WakeupIsRemembered'
    <3>1. ~(call.step \in {"notify", "exit_notify"})
      BY <1>4, Zenon
    <3> QED
      BY <1>1, <1>4, <2>1, <2>2, <3>1, Zenon DEF IInv, WakeupIsRemembered
  <2> QED
    BY <2>3, <2>6, <2>7, <2>8, <2>9, Zenon DEF IInv
<1>5. CASE /\ call.step = "exit_notify"
           /\ m_event' = [m_event EXCEPT ![w] = @ + 1]
           /\ call' = [call EXCEPT !.step = "join"]
           /\ UNCHANGED <<m_exit, m_running, phase>>
  <2>1. /\ call'.step = "join" /\ call'.worker = w
        /\ call' \in [step : Steps, sock : Socks \cup {NoSock}, worker : Workers]
    BY <1>2, <1>5 DEF Steps
  <2>2. /\ m_event' \in [Workers -> Nat] /\ m_event'[w] > 0
        /\ \A v \in Workers : v # w => m_event'[v] = m_event[v]
    <3>1. m_event \in [Workers -> Nat]
      BY Zenon DEF IInv, TypeOK
    <3> QED
      BY <1>2, <1>5, <3>1
  <2>3. TypeOK'
    BY <1>1, <1>5, <2>1, <2>2, Zenon DEF IInv, TypeOK
  <2>4. \A v \in Workers : Holds(v)' <=> Holds(v)
    BY <1>1, <1>5, Zenon DEF Holds, Working
  <2>5. HoldersOK' /\ RunningOK'
    BY <1>1, <1>5, <2>4, Zenon DEF IInv, HoldersOK, RunningOK
  <2>6. CallOK'
    BY <1>5, <2>1, Zenon DEF IInv, CallOK
  <2>7. WakeupIsRemembered'
    BY <1>1, <1>5, <2>2, Zenon DEF IInv, WakeupIsRemembered
  <2> QED
    BY <2>3, <2>5, <2>6, <2>7, Zenon DEF IInv

<1>6. CASE /\ call.step = "join" /\ wpc[w] = "returned"
           /\ IF w + 1 \in Workers
              THEN call' = Stop(w + 1) /\ UNCHANGED phase
              ELSE call' = NoCall /\ phase' = "done"
           /\ UNCHANGED <<m_exit, m_running, m_event>>
  <2>1. /\ call'.step \in {"exit", "none"} /\ phase' \in Phases
        /\ call' \in [step : Steps, sock : Socks \cup {NoSock}, worker : Workers]
    <3>1. phase \in Phases
      BY Zenon DEF IInv, TypeOK
    <3>2. CASE w + 1 \in Workers
      BY <1>6, <3>1, <3>2, StopCall
    <3>3. CASE ~(w + 1 \in Workers)
      BY <1>6, <3>3, WorkerNumbers DEF NoCall, Steps, Phases
    <3> QED
      BY <3>2, <3>3
  <2>2. TypeOK'
    BY <1>1, <1>6, <2>1, Zenon DEF IInv, TypeOK
  <2>3. ~(call.step \in {"notify", "exit_notify"})
    BY <1>6, Zenon
  <2> QED
    BY <1>1, <1>6, <2>1, <2>2, <2>3, NewCall, Zenon DEF IInv
<1> QED
  BY <1>3, <1>4, <1>5, <1>6, Zenon DEF stop

-----------------------------------------------------------------------------
(* The workers *)

\* Worker w goes on to l; the others stay where they are.
LEMMA GotoFacts ==
    ASSUME IInv, NEW w \in Workers, NEW l \in WPCs, Goto(w, l)
    PROVE  /\ wpc' \in [Workers -> WPCs] /\ wpc'[w] = l
           /\ \A v \in Workers : v # w => wpc'[v] = wpc[v]
BY Zenon DEF IInv, TypeOK, Goto

\* A worker that takes down m_running gives up the job it may have been posted.
LEMMA ClearRunningPreserves ==
    ASSUME IInv, NEW w \in Workers, clear_running(w)
    PROVE  IInv'
<1>1. /\ wpc[w] \in {"start", "loop"} /\ Goto(w, "read")
      /\ m_running' = [m_running EXCEPT ![w] = FALSE]
      /\ UNCHANGED <<m_exit, m_event, m_job, m_busy, input, arrived, edge, m_readables,
                     m_worker_index, phase, turn, early, call>>
  BY Zenon DEF clear_running, sockVars, reactorVars
<1>2. /\ wpc' \in [Workers -> WPCs] /\ wpc'[w] = "read"
      /\ \A v \in Workers : v # w => wpc'[v] = wpc[v]
  <2>1. "read" \in WPCs
    BY Zenon DEF WPCs
  <2> QED
    BY <1>1, <2>1, GotoFacts, Zenon
<1>3. /\ m_running' \in [Workers -> BOOLEAN] /\ ~m_running'[w]
      /\ \A v \in Workers : v # w => m_running'[v] = m_running[v]
  BY <1>1, Zenon DEF IInv, TypeOK
<1>4. TypeOK'
  BY <1>1, <1>2, <1>3, Zenon DEF IInv, TypeOK
<1>5. \A v \in Workers : Holds(v)' => v # w /\ Holds(v)
  BY <1>1, <1>2, <1>3, Zenon DEF Holds, Working
<1>6. HoldersOK'
  BY <1>1, <1>5, Zenon DEF IInv, HoldersOK
<1>7. RunningOK'
  BY <1>2, <1>3, Zenon DEF IInv, RunningOK
<1>8. CallOK'
  <2>1. call.step \in {"job", "run"} => ~m_running'[call.worker]
    BY <1>3, CallFacts, Zenon DEF IInv, CallOK
  <2> QED
    BY <1>1, <1>5, <2>1, Zenon DEF IInv, CallOK
<1>9. WakeupIsRemembered'
  BY <1>1, <1>2, <1>3, Zenon DEF IInv, WakeupIsRemembered
<1> QED
  BY <1>4, <1>6, <1>7, <1>8, <1>9, Zenon DEF IInv

\* read() returns, or the worker sees m_running, or it tests m_exit: a worker
\* that had no socket to handle has none.
LEMMA AdvancePreserves ==
    ASSUME IInv, NEW w \in Workers, read_event(w) \/ spin(w) \/ check_exit(w)
    PROVE  IInv'
<1>1. /\ UNCHANGED <<m_running, m_exit, m_job, m_busy, input, arrived, edge, m_readables,
                     m_worker_index, phase, turn, early, call>>
      /\ m_event' = [m_event EXCEPT ![w] = 0] \/ UNCHANGED m_event
  BY Zenon DEF read_event, spin, check_exit, sockVars, reactorVars
<1>2. PICK l \in WPCs :
        /\ Goto(w, l)
        /\ \/ wpc[w] = "read" /\ l = "spin"
           \/ wpc[w] = "spin" /\ l = "check" /\ m_running[w]
           \/ wpc[w] = "check" /\ l = "returned"
           \/ wpc[w] = "check" /\ l = "recv" /\ ~m_exit[w]
  <2>1. CASE read_event(w)
    BY <2>1, Zenon DEF read_event, WPCs
  <2>2. CASE spin(w)
    BY <2>2, Zenon DEF spin, is_running, WPCs
  <2>3. CASE check_exit(w)
    BY <2>3, Zenon DEF check_exit, WPCs
  <2> QED
    BY <2>1, <2>2, <2>3
<1>3. /\ wpc' \in [Workers -> WPCs] /\ wpc'[w] = l
      /\ \A v \in Workers : v # w => wpc'[v] = wpc[v]
  BY <1>2, GotoFacts, Zenon
<1>4. /\ m_event' \in [Workers -> Nat]
      /\ \A v \in Workers : v # w => m_event'[v] = m_event[v]
  <2>1. m_event \in [Workers -> Nat]
    BY Zenon DEF IInv, TypeOK
  <2> QED
    BY <1>1, <2>1
<1>5. TypeOK'
  BY <1>1, <1>3, <1>4, Zenon DEF IInv, TypeOK
<1>6. wpc[w] = "check" => m_running[w]
  BY Zenon DEF IInv, RunningOK
<1>7. \A v \in Workers : Holds(v)' => Holds(v)
  BY <1>1, <1>2, <1>3, <1>6, Zenon DEF Holds, Working
<1>8. HoldersOK'
  BY <1>1, <1>7, Zenon DEF IInv, HoldersOK
<1>9. RunningOK'
  BY <1>1, <1>2, <1>3, <1>6, Zenon DEF IInv, RunningOK
<1>10. CallOK'
  BY <1>1, <1>7, Zenon DEF IInv, CallOK
<1>11. WakeupIsRemembered'
  <2>1. l # "read"
    BY <1>2, Zenon
  <2> QED
    BY <1>1, <1>3, <1>4, <2>1, Zenon DEF IInv, WakeupIsRemembered
<1> QED
  BY <1>5, <1>8, <1>9, <1>10, <1>11, Zenon DEF IInv

\* A worker reads its socket, or finds that there is no more.
LEMMA RecvPreserves ==
    ASSUME IInv, NEW w \in Workers, recv(w)
    PROVE  IInv'
<1> DEFINE s == m_job[w]
<1>1. /\ wpc[w] = "recv"
      /\ UNCHANGED <<m_running, m_exit, m_event, m_job, m_busy, arrived, edge, m_readables,
                     m_worker_index, phase, turn, early, call>>
  BY Zenon DEF recv, reactorVars
<1>2. CASE input' = [input EXCEPT ![s] = 0] /\ UNCHANGED wpc
  <2>1. input' \in [Socks -> Nat]
    <3>1. input \in [Socks -> Nat]
      BY Zenon DEF IInv, TypeOK
    <3> QED
      BY <1>2, <3>1, Zenon
  <2>2. TypeOK'
    BY <1>1, <1>2, <2>1, Zenon DEF IInv, TypeOK
  <2> QED
    BY <1>1, <1>2, <2>2, FrameFacts, Zenon DEF IInv
<1>3. CASE Goto(w, "clear") /\ UNCHANGED input
  <2>1. /\ wpc' \in [Workers -> WPCs] /\ wpc'[w] = "clear"
        /\ \A v \in Workers : v # w => wpc'[v] = wpc[v]
    <3>1. "clear" \in WPCs
      BY Zenon DEF WPCs
    <3> QED
      BY <1>3, <3>1, GotoFacts, Zenon
  <2>2. TypeOK'
    BY <1>1, <1>3, <2>1, Zenon DEF IInv, TypeOK
  <2>3. \A v \in Workers : Holds(v)' => Holds(v)
    BY <1>1, <2>1, Zenon DEF Holds, Working
  <2>4. HoldersOK'
    BY <1>1, <2>3, Zenon DEF IInv, HoldersOK
  <2>5. CallOK'
    BY <1>1, <2>3, Zenon DEF IInv, CallOK
  <2>6. RunningOK'
    BY <1>1, <2>1, Zenon DEF IInv, RunningOK
  <2>7. WakeupIsRemembered'
    BY <1>1, <2>1, Zenon DEF IInv, WakeupIsRemembered
  <2> QED
    BY <2>2, <2>4, <2>5, <2>6, <2>7, Zenon DEF IInv
<1> QED
  BY <1>2, <1>3, Zenon DEF recv

\* The worker is done with its socket, which no other worker holds and which
\* the reactor is not about to post.
LEMMA ClearBusyPreserves ==
    ASSUME IInv, NEW w \in Workers, clear_busy(w)
    PROVE  IInv'
<1> DEFINE s == m_job[w]
<1>1. /\ wpc[w] = "clear" /\ Goto(w, "loop")
      /\ m_busy' = [m_busy EXCEPT ![s] = FALSE]
      /\ UNCHANGED <<m_running, m_exit, m_event, m_job, input, arrived, edge, m_readables,
                     m_worker_index, phase, turn, early, call>>
  BY Zenon DEF clear_busy, reactorVars
<1>2. /\ wpc' \in [Workers -> WPCs] /\ wpc'[w] = "loop"
      /\ \A v \in Workers : v # w => wpc'[v] = wpc[v]
  <2>1. "loop" \in WPCs
    BY Zenon DEF WPCs
  <2> QED
    BY <1>1, <2>1, GotoFacts, Zenon
<1>3. /\ m_busy' \in [Socks -> BOOLEAN]
      /\ \A t \in Socks : t # s => m_busy'[t] = m_busy[t]
  BY <1>1, Zenon DEF IInv, TypeOK
<1>4. TypeOK'
  BY <1>1, <1>2, <1>3, Zenon DEF IInv, TypeOK
<1>5. Holds(w) /\ m_running[w]
  BY <1>1, Zenon DEF IInv, RunningOK, Holds, Working
<1>6. \A v \in Workers : Holds(v)' => v # w /\ Holds(v)
  BY <1>1, <1>2, Zenon DEF Holds, Working
<1>7. HoldersOK'
  <2>1. \A v \in Workers : Holds(v)' => m_busy'[m_job[v]]
    BY <1>3, <1>5, <1>6, Zenon DEF IInv, HoldersOK
  <2> QED
    BY <1>1, <1>6, <2>1, NoNewHolder, Zenon
<1>8. CallOK'
  <2>1. call.step \in {"job", "run"} => m_busy'[call.sock]
    BY <1>3, <1>5, Zenon DEF IInv, CallOK
  <2> QED
    BY <1>1, <1>6, <2>1, CallKept, Zenon
<1>9. RunningOK'
  BY <1>1, <1>2, <1>5, Zenon DEF IInv, RunningOK
<1>10. WakeupIsRemembered'
  BY <1>1, <1>2, Zenon DEF IInv, WakeupIsRemembered
<1> QED
  BY <1>4, <1>7, <1>8, <1>9, <1>10, Zenon DEF IInv

-----------------------------------------------------------------------------
(* The theorems *)

\* The workers have nothing to do when the server starts.
LEMMA InitIInv == Init => IInv
<1> SUFFICES ASSUME Init PROVE IInv
  OBVIOUS
<1>1. /\ \A w \in Workers : ~m_running[w] /\ wpc[w] = "start"
      /\ call.step = "none"
      /\ call \in [step : Steps, sock : Socks \cup {NoSock}, worker : Workers]
  BY WorkerNumbers DEF Init, NoCall, Steps
<1>2. TypeOK
  <2>1. /\ m_event \in [Workers -> Nat] /\ input \in [Socks -> Nat]
        /\ arrived \in [Socks -> 0..MaxInput]
    BY DispatchAssumption DEF Init
  <2>2. /\ m_running \in [Workers -> BOOLEAN] /\ m_exit \in [Workers -> BOOLEAN]
        /\ m_job \in [Workers -> Socks \cup {NoSock}] /\ wpc \in [Workers -> WPCs]
        /\ m_busy \in [Socks -> BOOLEAN]
    BY DEF Init, WPCs
  <2>3. /\ edge \subseteq Socks /\ m_readables \subseteq Socks /\ turn \subseteq Socks
        /\ early \subseteq Socks /\ m_worker_index \in Workers /\ phase \in Phases
    BY WorkerNumbers DEF Init, Phases
  <2> QED
    BY <1>1, <2>1, <2>2, <2>3, Zenon DEF TypeOK
<1>3. \A w \in Workers : ~Holds(w)
  BY <1>1, Zenon DEF Holds, Working
<1> QED
  BY <1>1, <1>2, <1>3, Zenon DEF IInv, RunningOK, HoldersOK, CallOK, WakeupIsRemembered

\* Every step keeps the invariant.
LEMMA IInvIsInductive ==
    ASSUME IInv, [Next]_vars
    PROVE  IInv'
<1>1. CASE UNCHANGED vars
  <2>1. TypeOK'
    BY <1>1, Zenon DEF IInv, TypeOK, vars
  <2> QED
    BY <1>1, <2>1, FrameFacts, Zenon DEF IInv, vars
<1>2. ASSUME NEW s \in Socks, Arrive(s) \/ on_readable(s) PROVE IInv'
  BY <1>2, ArrivePreserves, OnReadablePreserves, Zenon
<1>3. CASE epoll_wait \/ take_readables
  BY <1>3, PollPreserves
<1>4. CASE post_job
  BY <1>4, PostJobPreserves
<1>5. CASE quit
  BY <1>5, QuitPreserves
<1>6. CASE stop
  BY <1>6, StopPreserves
<1>7. ASSUME NEW w \in Workers, run(w) PROVE IInv'
  BY <1>7, ClearRunningPreserves, AdvancePreserves, RecvPreserves, ClearBusyPreserves,
     Zenon DEF run
<1> QED
  BY <1>1, <1>2, <1>3, <1>4, <1>5, <1>6, <1>7, Zenon DEF Next, poll

\* The invariant holds throughout.
THEOREM Invariance == Spec => []IInv
<1>1. Init => IInv
  BY InitIInv
<1>2. IInv /\ [Next]_vars => IInv'
  BY IInvIsInductive
<1> QED
  BY <1>1, <1>2, PTL DEF Spec

\* While a worker handles a socket no other worker is given that socket, and
\* the socket's busy flag is up (memcache_socket::on_readable, worker::run).
THEOREM OneWorkerPerSocketHolds == Spec => []OneWorkerPerSocket
<1>1. IInv => OneWorkerPerSocket
  <2>1. ASSUME IInv PROVE OneWorkerPerSocket
    BY <2>1, Zenon DEF IInv, HoldersOK, Holds, OneWorkerPerSocket
  <2> QED
    BY <2>1
<1> QED
  BY <1>1, Invariance, PTL

\* No missed wakeup: a worker whose m_running is up and that is about to read
\* its eventfd finds an event, now or after the reactor's next statement
\* (worker::post_job, worker::stop).
THEOREM WakeupIsRememberedHolds == Spec => []WakeupIsRemembered
<1>1. IInv => WakeupIsRemembered
  BY DEF IInv
<1> QED
  BY <1>1, Invariance, PTL
=============================================================================
