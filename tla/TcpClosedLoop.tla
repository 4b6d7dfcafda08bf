--------------------------- MODULE TcpClosedLoop ---------------------------
(***************************************************************************)
(* TcpClient::run_closed_loop and closed_loop_worker                       *)
(* (src/src/tcp_client.cpp).  The requests are split over the connections  *)
(* of the pool; the worker of a connection does its share one request      *)
(* after the other, the first `warmup` of them unmeasured, whatever        *)
(* becomes of the connection.  The main thread joins the workers, adds up  *)
(* their samples and closes the pool.                                      *)
(*                                                                         *)
(* A request is named by its connection and its loop index.  do_request()  *)
(* is one step, as in TcpOpenLoop.                                         *)
(***************************************************************************)
EXTENDS Naturals, Sequences, FiniteSets, Functions

CONSTANTS
  PoolSize,      \* cfg_.pool_size
  NumRequests,   \* cfg.num_requests
  Warmup,        \* cfg.warmup_requests
  Sizes,         \* the sizes WorkloadGenerator::next_size() may draw
  CounterMod     \* uint32_t counts modulo 2^32

ASSUME PoolAssumption == PoolSize \in Nat \ {0} /\ CounterMod \in Nat \ {0}
ASSUME LoadAssumption ==
  NumRequests \in Nat /\ Warmup \in Nat /\ Sizes \subseteq Nat

VARIABLES
  dpc,          \* where the thread of run_closed_loop is
  k,            \* its loop index over the connections
  pool,         \* pool_.conns_[w].fd: "unset", "open" or "closed"
  link,         \* whether the peer still serves connection w
  wpc,          \* where worker w is
  i,            \* its loop index
  size,         \* the size it has drawn
  samples,      \* thread_samples[w], by loop index
  total_bytes,  \* total_bytes_
  latency,      \* result.latency while it is put together
  result,       \* <<the BenchmarkResult>>, NoResult until it is built
  answered,     \* history: the requests do_request() measured
  failed        \* history: the requests do_request() gave up

mainVars == <<dpc, k, latency, result>>
workerVars == <<wpc, i, size, samples, total_bytes, answered, failed>>
poolVars == <<pool, link>>
vars == <<mainVars, workerVars, poolVars>>

NoResult == <<>>
HeaderSize == 22
Conns == 0 .. PoolSize - 1
Terminal == {"done", "threw"}
Alive == dpc # "threw"

\* Mutant: the remainder of the division is dropped.
count_rounded_down(w) == NumRequests \div PoolSize

\* per_thread + (i < remainder ? 1 : 0)
count(w) ==
  NumRequests \div PoolSize + (IF w < NumRequests % PoolSize THEN 1 ELSE 0)

\* The warm-up requests of one worker.
warmup == Warmup \div PoolSize

\* The bound of the worker's loop, warmup + num_requests.
rounds(w) == (warmup + count(w)) % CounterMod

Requests == UNION {{<<w, n>> : n \in 0 .. rounds(w) - 1} : w \in Conns}
Warm == {r \in Requests : r[2] < warmup}

Init ==
  /\ dpc = "connect" /\ k = 0 /\ latency = <<>> /\ result = NoResult
  /\ pool = [w \in Conns |-> "unset"]
  /\ link = [w \in Conns |-> "up"]
  /\ wpc = [w \in Conns |-> "none"]
  /\ i = [w \in Conns |-> 0]
  /\ size = [w \in Conns |-> 0]
  /\ samples = [w \in Conns |-> <<>>]
  /\ total_bytes = 0
  /\ answered = {} /\ failed = {}

-----------------------------------------------------------------------------
\* The main thread.

\* pool_.connect_all(), one connection at a time.
connect_all ==
  /\ dpc = "connect" /\ k < PoolSize
  /\ pool' = [pool EXCEPT ![k] = "open"]
  /\ k' = k + 1
  /\ UNCHANGED <<dpc, latency, result, link, workerVars>>

\* create_and_connect() throws, and nothing between it and main() catches.
connect_throws ==
  /\ dpc = "connect" /\ k < PoolSize
  /\ dpc' = "threw"
  /\ UNCHANGED <<k, latency, result, workerVars, poolVars>>

connected ==
  /\ dpc = "connect" /\ k = PoolSize
  /\ dpc' = "spawn" /\ k' = 0
  /\ UNCHANGED <<latency, result, workerVars, poolVars>>

\* workers.emplace_back(&TcpClient::closed_loop_worker, ...)
spawn ==
  /\ dpc = "spawn" /\ k < PoolSize
  /\ wpc' = [wpc EXCEPT ![k] = "loop"]
  /\ k' = k + 1
  /\ dpc' = IF k + 1 = PoolSize THEN "join" ELSE "spawn"
  /\ UNCHANGED <<latency, result, i, size, samples, total_bytes, answered, failed>>
  /\ UNCHANGED poolVars

\* Mutant: only the worker spawned last is joined.
join_last ==
  /\ dpc = "join"
  /\ wpc[PoolSize - 1] = "exited"
  /\ dpc' = "add" /\ k' = 0
  /\ UNCHANGED <<latency, result, workerVars, poolVars>>

\* w.join() for every worker.
join ==
  /\ dpc = "join"
  /\ \A w \in Conns : wpc[w] = "exited"
  /\ dpc' = "add" /\ k' = 0
  /\ UNCHANGED <<latency, result, workerVars, poolVars>>

\* result.latency.add_samples(samples), for one worker after the other.
add_samples ==
  /\ dpc = "add" /\ k < PoolSize
  /\ latency' = latency \o [n \in DOMAIN samples[k] |-> <<k, samples[k][n]>>]
  /\ k' = k + 1
  /\ UNCHANGED <<dpc, result, workerVars, poolVars>>

\* result.total_requests is latency.count().
build_result ==
  /\ dpc = "add" /\ k = PoolSize
  /\ result' = <<[total_requests |-> Len(latency), latency |-> Range(latency),
                  total_bytes |-> total_bytes]>>
  /\ dpc' = "close"
  /\ UNCHANGED <<k, latency, workerVars, poolVars>>

\* pool_.close_all()
close_all ==
  /\ dpc = "close"
  /\ pool' = [w \in Conns |-> IF pool[w] = "open" THEN "closed" ELSE pool[w]]
  /\ dpc' = "done"
  /\ UNCHANGED <<k, latency, result, link, workerVars>>

Main ==
  \/ connect_all \/ connect_throws \/ connected \/ spawn
  \/ join \/ add_samples \/ build_result \/ close_all

-----------------------------------------------------------------------------
\* The worker of connection w.

\* Another round: a size is drawn.
draw(w) ==
  /\ Alive /\ wpc[w] = "loop" /\ i[w] < rounds(w)
  /\ \E s \in Sizes : size' = [size EXCEPT ![w] = s]
  /\ wpc' = [wpc EXCEPT ![w] = "request"]
  /\ UNCHANGED <<i, samples, total_bytes, answered, failed, mainVars, poolVars>>

\* The rest of the loop body once do_request() is through: rtt > 0 when `ok`.
account(w, ok) ==
  /\ samples' = IF ok /\ i[w] >= warmup
                THEN [samples EXCEPT ![w] = Append(@, i[w])] ELSE samples
  /\ total_bytes' = total_bytes + HeaderSize + size[w]
  /\ answered' = IF ok THEN answered \cup {<<w, i[w]>>} ELSE answered
  /\ failed' = IF ok THEN failed ELSE failed \cup {<<w, i[w]>>}
  /\ i' = [i EXCEPT ![w] = @ + 1]
  /\ wpc' = [wpc EXCEPT ![w] = "loop"]
  /\ UNCHANGED <<size, mainVars, poolVars>>

request_ok(w) ==
  /\ Alive /\ wpc[w] = "request" /\ link[w] = "up"
  /\ account(w, TRUE)

\* Mutant: a failed request is tried again.
request_fails_retries(w) ==
  /\ Alive /\ wpc[w] = "request" /\ link[w] = "down"
  /\ wpc' = [wpc EXCEPT ![w] = "loop"]
  /\ UNCHANGED <<i, size, samples, total_bytes, answered, failed>>
  /\ UNCHANGED <<mainVars, poolVars>>

\* do_request() returns 0.  The worker goes on to its next request.
request_fails(w) ==
  /\ Alive /\ wpc[w] = "request" /\ link[w] = "down"
  /\ account(w, FALSE)

leave(w) ==
  /\ Alive /\ wpc[w] = "loop" /\ i[w] >= rounds(w)
  /\ wpc' = [wpc EXCEPT ![w] = "exited"]
  /\ UNCHANGED <<i, size, samples, total_bytes, answered, failed>>
  /\ UNCHANGED <<mainVars, poolVars>>

Worker(w) == draw(w) \/ request_ok(w) \/ request_fails(w) \/ leave(w)

-----------------------------------------------------------------------------
\* The peer closes or resets connection w; nothing brings it back.
link_down(w) ==
  /\ pool[w] = "open" /\ link[w] = "up" /\ dpc \notin Terminal
  /\ link' = [link EXCEPT ![w] = "down"]
  /\ UNCHANGED <<pool, mainVars, workerVars>>

Terminated == dpc \in Terminal /\ UNCHANGED vars

Next ==
  \/ Main
  \/ \E w \in Conns : Worker(w) \/ link_down(w)
  \/ Terminated

Spec == Init /\ [][Next]_vars

\* The steps of worker w that need no answer, as in TcpOpenLoop.
WorkerAlone(w) == draw(w) \/ request_fails(w) \/ leave(w)

\* The OS runs every thread, and a receive on a connection that was closed
\* returns; the peer need not answer and need not close.
FairSpec ==
  /\ Spec
  /\ WF_vars(Main)
  /\ \A w \in Conns : WF_vars(WorkerAlone(w))

-----------------------------------------------------------------------------
\* Every variable has a value of its C++ type, and no worker runs past its
\* share.
TypeOK ==
  /\ dpc \in {"connect", "spawn", "join", "add", "close"} \cup Terminal
  /\ k \in 0 .. PoolSize
  /\ pool \in [Conns -> {"unset", "open", "closed"}]
  /\ link \in [Conns -> {"up", "down"}]
  /\ wpc \in [Conns -> {"none", "loop", "request", "exited"}]
  /\ \A w \in Conns : i[w] \in 0 .. rounds(w)
  /\ size \in [Conns -> Sizes \cup {0}]
  /\ samples \in [Conns -> Seq(Nat)]
  /\ total_bytes \in Nat /\ latency \in Seq(Conns \X Nat)
  /\ answered \subseteq Requests /\ failed \subseteq Requests

\* The split adds up.  The report lacks of the requests that were asked for
\* exactly those that failed, also when a connection is lost with a share
\* that no other worker takes over; and the division of the warm-up leaves
\* out less than one request per worker and adds none.
SplitAddsUp ==
  result # NoResult =>
    LET warmed == Cardinality((answered \cup failed) \cap Warm) IN
    /\ result[1].total_requests + Cardinality(failed \ Warm) = NumRequests
    /\ warmed <= Warmup /\ Warmup < warmed + PoolSize

\* The run ends, with a result unless the connect failed, or some worker waits
\* for ever in do_request() on a connection whose peer neither answers nor
\* closes.  A lost connection does not keep it from ending.
EndsUnlessUnanswered ==
  \/ <>(dpc \in Terminal)
  \/ \E w \in Conns : <>[](wpc[w] = "request" /\ link[w] = "up")

\* The abstract run: a request is issued while a worker is at it.
Run == INSTANCE BenchmarkRun WITH
  issued <- {<<w, i[w]>> : w \in {v \in Conns : wpc[v] = "request"}},
  report <- IF result = NoResult THEN <<>> ELSE <<result[1].latency>>

\* Whatever the threads do, the run is one the abstract specification allows.
ImplementsBenchmarkRun == Run!Spec
=============================================================================
