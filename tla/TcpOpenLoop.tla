---------------------------- MODULE TcpOpenLoop ----------------------------
(***************************************************************************)
(* TcpClient::run_open_loop (src/src/tcp_client.cpp): the dispatcher draws *)
(* the requests and pushes each on the queue of the connection the         *)
(* scheduler selects; one worker thread per pool connection pops its queue *)
(* and does one request at a time.  When every request is pushed, the      *)
(* dispatcher clears `running`, joins the workers, adds up their samples   *)
(* and closes the pool.                                                    *)
(*                                                                         *)
(* A request is its index, its size and its warm-up flag.  do_request() is *)
(* one step here, which succeeds exactly while the connection is up; the   *)
(* exchange behind it is module TcpSession.                                *)
(***************************************************************************)
EXTENDS PriorityScheduler, Sequences, FiniteSets, FiniteSetsExt, Functions

CONSTANTS
  NumRequests,   \* cfg.num_requests
  Warmup,        \* cfg.warmup_requests
  Sizes          \* the sizes WorkloadGenerator::next_size() may draw

ASSUME RequestsAssumption == NumRequests \in Nat /\ Warmup \in Nat
ASSUME SizesAssumption == Sizes \subseteq Nat

VARIABLES
  dpc,          \* where the thread of run_open_loop is
  k,            \* its loop index over the connections
  i,            \* its loop index over the requests
  policy,       \* scheduler_.policy_, set by the command line
  rr_counter,   \* scheduler_.rr_counter_
  running,      \* the flag the workers poll
  pool,         \* pool_.conns_[w].fd: "unset", "open" or "closed"
  link,         \* whether the peer still serves connection w
  queue,        \* queues[w]
  wpc,          \* where worker w is
  hand,         \* the request worker w has popped, as a sequence
  samples,      \* thread_samples[w], by request index
  total_bytes,  \* total_bytes_
  result,       \* <<the BenchmarkResult>>, NoResult until it is built
  pushed,       \* history: all that was pushed on queue w, in order
  served,       \* history: all that worker w is through with, in order
  answered,     \* history: the requests do_request() measured
  failed        \* history: the requests do_request() gave up

dispatchVars == <<dpc, k, i, rr_counter, running, result>>
workerVars == <<wpc, hand, samples, total_bytes, served, answered, failed>>
queueVars == <<queue, pushed>>
memberVars == <<policy, pool, link>>
vars == <<dispatchVars, workerVars, queueVars, memberVars>>

NoResult == <<>>
HeaderSize == 22

\* uint32_t total = cfg.warmup_requests + cfg.num_requests
total == (Warmup + NumRequests) % CounterMod

\* The PendingRequests that the dispatcher makes.
PendingRequest ==
  {req \in [id : 0 .. total - 1, size : Sizes, warmup : BOOLEAN] :
     req.warmup = (req.id < Warmup)}

Terminal == {"done", "trapped", "threw"}
Alive == dpc \notin {"trapped", "threw"}

Init ==
  /\ dpc = "connect" /\ k = 0 /\ i = 0
  /\ policy \in Policies /\ rr_counter = 0
  /\ running = TRUE
  /\ pool = [w \in Conns |-> "unset"]
  /\ link = [w \in Conns |-> "up"]
  /\ queue = [w \in Conns |-> <<>>]
  /\ wpc = [w \in Conns |-> "none"]
  /\ hand = [w \in Conns |-> <<>>]
  /\ samples = [w \in Conns |-> <<>>]
  /\ total_bytes = 0
  /\ result = NoResult
  /\ pushed = [w \in Conns |-> <<>>]
  /\ served = [w \in Conns |-> <<>>]
  /\ answered = {} /\ failed = {}

-----------------------------------------------------------------------------
\* The dispatcher.

\* pool_.connect_all(), one connection at a time.
connect_all ==
  /\ dpc = "connect" /\ k < PoolSize
  /\ pool' = [pool EXCEPT ![k] = "open"]
  /\ k' = k + 1
  /\ UNCHANGED <<dpc, i, rr_counter, running, result, policy, link>>
  /\ UNCHANGED <<workerVars, queueVars>>

\* create_and_connect() throws, and nothing between it and main() catches.
connect_throws ==
  /\ dpc = "connect" /\ k < PoolSize
  /\ dpc' = "threw"
  /\ UNCHANGED <<k, i, rr_counter, running, result>>
  /\ UNCHANGED <<workerVars, queueVars, memberVars>>

connected ==
  /\ dpc = "connect" /\ k = PoolSize
  /\ dpc' = "spawn" /\ k' = 0
  /\ UNCHANGED <<i, rr_counter, running, result>>
  /\ UNCHANGED <<workerVars, queueVars, memberVars>>

\* workers.emplace_back(&TcpClient::open_loop_worker, ...)
spawn ==
  /\ dpc = "spawn" /\ k < PoolSize
  /\ wpc' = [wpc EXCEPT ![k] = "loop"]
  /\ k' = k + 1
  /\ dpc' = IF k + 1 = PoolSize THEN "dispatch" ELSE "spawn"
  /\ UNCHANGED <<i, rr_counter, running, result, hand, samples, total_bytes>>
  /\ UNCHANGED <<served, answered, failed, queueVars, memberVars>>

NewRequest(size) == [id |-> i, size |-> size, warmup |-> i < Warmup]

\* Push on the connection selected.
push(size) ==
  /\ \E w \in select(policy, rr_counter, size) :
       /\ queue' = [queue EXCEPT ![w] = Append(@, NewRequest(size))]
       /\ pushed' = [pushed EXCEPT ![w] = Append(@, NewRequest(size))]
  /\ rr_counter' = fetch_add(policy, rr_counter)
  /\ i' = i + 1 /\ dpc' = dpc

\* The remainder by a small_pool of 0 kills the process.
trap == dpc' = "trapped" /\ UNCHANGED <<i, rr_counter, queueVars>>

\* One round of the request loop: draw a size, select a connection, push.
dispatch ==
  /\ dpc = "dispatch" /\ i < total
  /\ \E size \in Sizes : IF SelectTraps(policy, size) THEN trap ELSE push(size)
  /\ UNCHANGED <<k, running, result, workerVars, memberVars>>

\* running = false
clear_running ==
  /\ dpc = "dispatch" /\ i = total
  /\ running' = FALSE
  /\ dpc' = "join"
  /\ UNCHANGED <<k, i, rr_counter, result, workerVars, queueVars, memberVars>>

\* What run_open_loop reports: latency.count() samples, those of every
\* worker, and the byte counter.
BenchmarkResult ==
  [total_requests |-> MapThenSumSet(LAMBDA w : Len(samples[w]), Conns),
   latency |-> UNION {Range(samples[w]) : w \in Conns},
   total_bytes |-> total_bytes]

\* Mutant: the result is built without waiting for the workers.
join_early ==
  /\ dpc = "join"
  /\ result' = <<BenchmarkResult>>
  /\ dpc' = "close"
  /\ UNCHANGED <<k, i, rr_counter, running, workerVars, queueVars, memberVars>>

\* w.join() for every worker, then the result.
join ==
  /\ dpc = "join"
  /\ \A w \in Conns : wpc[w] = "exited"
  /\ result' = <<BenchmarkResult>>
  /\ dpc' = "close"
  /\ UNCHANGED <<k, i, rr_counter, running, workerVars, queueVars, memberVars>>

\* pool_.close_all()
close_all ==
  /\ dpc = "close"
  /\ pool' = [w \in Conns |-> IF pool[w] = "open" THEN "closed" ELSE pool[w]]
  /\ dpc' = "done"
  /\ UNCHANGED <<k, i, rr_counter, running, result, policy, link>>
  /\ UNCHANGED <<workerVars, queueVars>>

Dispatcher ==
  \/ connect_all \/ connect_throws \/ connected \/ spawn
  \/ dispatch \/ clear_running \/ join \/ close_all

-----------------------------------------------------------------------------
\* The worker of connection w.

\* `running ||`: the flag decides unless it is false.
load_running(w) ==
  /\ Alive /\ wpc[w] = "loop"
  /\ wpc' = [wpc EXCEPT ![w] = IF running THEN "pop" ELSE "size"]
  /\ UNCHANGED <<hand, samples, total_bytes, served, answered, failed>>
  /\ UNCHANGED <<dispatchVars, queueVars, memberVars>>

\* Mutant: a cleared flag ends the worker whatever its queue holds.
exit_when_cleared(w) ==
  /\ Alive /\ wpc[w] = "size"
  /\ wpc' = [wpc EXCEPT ![w] = "exited"]
  /\ UNCHANGED <<hand, samples, total_bytes, served, answered, failed>>
  /\ UNCHANGED <<dispatchVars, queueVars, memberVars>>

\* Mutant: the empty queue is what keeps a worker in its loop.
size_inverted(w) ==
  /\ Alive /\ wpc[w] = "size"
  /\ wpc' = [wpc EXCEPT ![w] = IF queue[w] # <<>> THEN "exited" ELSE "pop"]
  /\ UNCHANGED <<hand, samples, total_bytes, served, answered, failed>>
  /\ UNCHANGED <<dispatchVars, queueVars, memberVars>>

\* `queue.size() > 0`
check_size(w) ==
  /\ Alive /\ wpc[w] = "size"
  /\ wpc' = [wpc EXCEPT ![w] = IF queue[w] # <<>> THEN "pop" ELSE "exited"]
  /\ UNCHANGED <<hand, samples, total_bytes, served, answered, failed>>
  /\ UNCHANGED <<dispatchVars, queueVars, memberVars>>

\* Mutant: pop() takes the youngest request.
pop_back(w) ==
  /\ Alive /\ wpc[w] = "pop" /\ queue[w] # <<>>
  /\ hand' = [hand EXCEPT ![w] = <<queue[w][Len(queue[w])]>>]
  /\ queue' = [queue EXCEPT ![w] = SubSeq(@, 1, Len(@) - 1)]
  /\ wpc' = [wpc EXCEPT ![w] = "request"]
  /\ UNCHANGED <<samples, total_bytes, served, answered, failed, pushed>>
  /\ UNCHANGED <<dispatchVars, memberVars>>

\* queue.pop(req, 100) with a request there.
pop(w) ==
  /\ Alive /\ wpc[w] = "pop" /\ queue[w] # <<>>
  /\ hand' = [hand EXCEPT ![w] = <<Head(queue[w])>>]
  /\ queue' = [queue EXCEPT ![w] = Tail(@)]
  /\ wpc' = [wpc EXCEPT ![w] = "request"]
  /\ UNCHANGED <<samples, total_bytes, served, answered, failed, pushed>>
  /\ UNCHANGED <<dispatchVars, memberVars>>

\* wait_for tests the predicate once more at its timeout: pop() gives up only
\* on a queue that is empty then.
pop_timeout(w) ==
  /\ Alive /\ wpc[w] = "pop" /\ queue[w] = <<>>
  /\ wpc' = [wpc EXCEPT ![w] = "loop"]
  /\ UNCHANGED <<hand, samples, total_bytes, served, answered, failed>>
  /\ UNCHANGED <<dispatchVars, queueVars, memberVars>>

\* The rest of the loop body once do_request() is through: rtt > 0 when `ok`.
account(w, ok) ==
  LET req == hand[w][1] IN
  /\ samples' = IF ok /\ ~req.warmup
                THEN [samples EXCEPT ![w] = Append(@, req.id)] ELSE samples
  /\ total_bytes' = total_bytes + HeaderSize + req.size
  /\ served' = [served EXCEPT ![w] = Append(@, req)]
  /\ answered' = IF ok THEN answered \cup {req.id} ELSE answered
  /\ failed' = IF ok THEN failed ELSE failed \cup {req.id}
  /\ hand' = [hand EXCEPT ![w] = <<>>]
  /\ wpc' = [wpc EXCEPT ![w] = "loop"]
  /\ UNCHANGED <<dispatchVars, queueVars, memberVars>>

request_ok(w) ==
  /\ Alive /\ wpc[w] = "request" /\ link[w] = "up"
  /\ account(w, TRUE)

\* Mutant: a failed request is measured too.
request_fails_measured(w) ==
  /\ Alive /\ wpc[w] = "request" /\ link[w] = "down"
  /\ samples' = [samples EXCEPT ![w] = Append(@, hand[w][1].id)]
  /\ failed' = failed \cup {hand[w][1].id}
  /\ total_bytes' = total_bytes + HeaderSize + hand[w][1].size
  /\ served' = [served EXCEPT ![w] = Append(@, hand[w][1])]
  /\ hand' = [hand EXCEPT ![w] = <<>>]
  /\ wpc' = [wpc EXCEPT ![w] = "loop"]
  /\ UNCHANGED <<answered, dispatchVars, queueVars, memberVars>>

\* do_request() returns 0: send_exact or recv_exact failed.  The worker
\* neither reconnects nor stops.
request_fails(w) ==
  /\ Alive /\ wpc[w] = "request" /\ link[w] = "down"
  /\ account(w, FALSE)

Worker(w) ==
  \/ load_running(w) \/ check_size(w) \/ pop(w) \/ pop_timeout(w)
  \/ request_ok(w) \/ request_fails(w)

-----------------------------------------------------------------------------
\* The peer closes or resets connection w; nothing brings it back.
link_down(w) ==
  /\ pool[w] = "open" /\ link[w] = "up" /\ dpc \notin Terminal
  /\ link' = [link EXCEPT ![w] = "down"]
  /\ UNCHANGED <<policy, pool, dispatchVars, workerVars, queueVars>>

Terminated == dpc \in Terminal /\ UNCHANGED vars

Next ==
  \/ Dispatcher
  \/ \E w \in Conns : Worker(w)
  \/ \E w \in Conns : link_down(w)
  \/ Terminated

Spec == Init /\ [][Next]_vars

\* The steps of worker w that need no answer: everything but the return of
\* do_request() while the connection is up, for its receives have no timeout.
WorkerAlone(w) ==
  \/ load_running(w) \/ check_size(w) \/ pop(w) \/ pop_timeout(w)
  \/ request_fails(w)

\* The OS runs every thread, a wait_for of 100 ms ends, and a receive on a
\* connection that was closed returns.  Nothing is assumed of the peer: it need
\* not answer and need not close.
FairSpec ==
  /\ Spec
  /\ WF_vars(Dispatcher)
  /\ \A w \in Conns : WF_vars(WorkerAlone(w))

-----------------------------------------------------------------------------
\* Every variable has a value of its C++ type; a worker holds a request
\* exactly while it is in do_request().
TypeOK ==
  /\ dpc \in {"connect", "spawn", "dispatch", "join", "close"} \cup Terminal
  /\ k \in 0 .. PoolSize
  /\ i \in 0 .. total
  /\ policy \in Policies
  /\ rr_counter \in 0 .. CounterMod - 1
  /\ running \in BOOLEAN
  /\ pool \in [Conns -> {"unset", "open", "closed"}]
  /\ link \in [Conns -> {"up", "down"}]
  /\ queue \in [Conns -> Seq(PendingRequest)]
  /\ wpc \in [Conns -> {"none", "loop", "size", "pop", "request", "exited"}]
  /\ hand \in [Conns -> Seq(PendingRequest)]
  /\ \A w \in Conns : Len(hand[w]) = IF wpc[w] = "request" THEN 1 ELSE 0
  /\ samples \in [Conns -> Seq(Nat)]
  /\ total_bytes \in Nat
  /\ pushed \in [Conns -> Seq(PendingRequest)]
  /\ served \in [Conns -> Seq(PendingRequest)]
  /\ answered \subseteq 0 .. total - 1
  /\ failed \subseteq 0 .. total - 1

\* Exactly once and in order: what the dispatcher pushed on a queue is, at
\* every moment, what its worker is through with, then the one it is doing,
\* then what still waits.
FifoExactlyOnce ==
  \A w \in Conns : pushed[w] = served[w] \o hand[w] \o queue[w]

\* A worker leaves only when nothing is left for it: `running` was loaded as
\* false before the queue was seen empty, and nothing is pushed after that.
NoRequestLeftBehind ==
  \A w \in Conns : wpc[w] = "exited" => ~running /\ queue[w] = <<>>

\* The result is built only when every planned request is settled.
AllSettled == result # NoResult => answered \cup failed = 0 .. total - 1

\* The result holds every answered request that is not warm-up and no other.
ReportExact ==
  result # NoResult => result[1].latency = {r \in answered : r >= Warmup}

\* No worker uses a connection that is not open: the pool is connected before
\* the first worker starts and closed after the last has left.
RequestsOnOpenConnections ==
  \A w \in Conns : wpc[w] = "request" => pool[w] = "open"

\* size_aware keeps a large message from delaying a small one: no connection
\* ever carries both.
SizeIsolation ==
  policy = "size_aware" =>
    \A w \in Conns : \A a, b \in Range(pushed[w]) :
      IsLarge(a.size) = IsLarge(b.size)

\* round_robin: no connection is ever two requests ahead of another.
RoundRobinBalanced ==
  policy = "round_robin" =>
    \A v, w \in Conns : Len(pushed[v]) <= Len(pushed[w]) + 1

\* The usage text offers every policy with every pool size, 1 by default: no
\* choice of the two kills the client.
EveryPolicyRuns == dpc # "trapped"

\* The run ends, with a result unless the connect failed or select() trapped,
\* or some worker waits for ever in do_request() on a connection whose peer
\* neither answers nor closes (TcpSession has such an end, Hung).  Nothing else
\* keeps it: no worker waits for another, or for ever on its queue, and lost
\* connections delay nobody.
EndsUnlessUnanswered ==
  \/ <>(dpc \in Terminal)
  \/ \E w \in Conns : <>[](wpc[w] = "request" /\ link[w] = "up")

\* The abstract run of BenchmarkRun: a request is issued while a queue or a
\* worker holds it.
IdsOf(s) == {r.id : r \in Range(s)}

Run == INSTANCE BenchmarkRun WITH
  Requests <- 0 .. total - 1,
  Warm <- {r \in 0 .. total - 1 : r < Warmup},
  issued <- UNION {IdsOf(queue[w]) \cup IdsOf(hand[w]) : w \in Conns},
  answered <- answered,
  failed <- failed,
  report <- IF result = NoResult THEN <<>> ELSE <<result[1].latency>>

\* Whatever the threads do, the run is one the abstract specification allows.
ImplementsBenchmarkRun == Run!Spec
=============================================================================
