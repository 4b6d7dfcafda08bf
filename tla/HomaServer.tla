----------------------------- MODULE HomaServer ----------------------------
(***************************************************************************)
(* HomaServer (src/src/homa_server.cpp): worker threads that poll one Homa *)
(* socket, turn each request round and send it back, until stop() clears   *)
(* running_ and joins them.                                                *)
(*                                                                         *)
(* The kernel's RPCs are the function rpc, shared with the client (module  *)
(* HomaClosedLoop): "sent" while the request waits at the server's socket, *)
(* "taken" once a worker has it, "answered" while the response waits at    *)
(* the client's, "given_up" when the kernel reports a failure, "gone" when *)
(* the client has had either.  A request of the client is never shorter    *)
(* than a header, so worker_loop()'s test for that is always passed.       *)
(***************************************************************************)
EXTENDS Naturals, FiniteSets

CONSTANTS
  Threads,   \* the worker threads, num_threads_ of them
  Rpcs       \* the RPCs of the clients

VARIABLES
  mpc,             \* run_server(): "start", "serve", "join", "stopped", "threw"
  running,         \* running_
  wpc,             \* where each worker is
  hand,            \* the RPC it works on, as a set
  request_count,   \* request_count_
  taken,           \* history: the RPCs workers have received
  rpc              \* the kernel's view of each RPC

mainVars == <<mpc, running>>
workerVars == <<wpc, hand, request_count, taken>>
vars == <<mainVars, workerVars, rpc>>

Init ==
  /\ mpc = "start" /\ running = FALSE
  /\ wpc = [t \in Threads |-> "none"]
  /\ hand = [t \in Threads |-> {}]
  /\ request_count = 0
  /\ taken = {}

-----------------------------------------------------------------------------
\* start(): the socket is there and bound; the workers are started.
start ==
  /\ mpc = "start"
  /\ mpc' = "serve" /\ running' = TRUE
  /\ wpc' = [t \in Threads |-> "loop"]
  /\ UNCHANGED <<hand, request_count, taken, rpc>>

\* No socket, or the port is taken.
start_throws ==
  /\ mpc = "start"
  /\ mpc' = "threw"
  /\ UNCHANGED <<running, workerVars, rpc>>

\* A signal has cleared g_running: stop() clears running_.
stop ==
  /\ mpc = "serve"
  /\ running' = FALSE
  /\ mpc' = "join"
  /\ UNCHANGED <<workerVars, rpc>>

\* Mutant: stop() does not wait for the workers.
no_join ==
  /\ mpc = "join"
  /\ mpc' = "stopped"
  /\ UNCHANGED <<running, workerVars, rpc>>

\* w.join() for every worker.
join ==
  /\ mpc = "join"
  /\ \A t \in Threads : wpc[t] = "exited"
  /\ mpc' = "stopped"
  /\ UNCHANGED <<running, workerVars, rpc>>

Main == start \/ start_throws \/ stop \/ join

-----------------------------------------------------------------------------
\* worker_loop(), in thread t.

\* while (running_)
check(t) ==
  /\ wpc[t] = "loop"
  /\ wpc' = [wpc EXCEPT ![t] = IF running THEN "recv" ELSE "exited"]
  /\ UNCHANGED <<hand, request_count, taken, mainVars, rpc>>

\* socket_.recv() has a request, any that waits.
recv_request(t) ==
  /\ wpc[t] = "recv"
  /\ \E r \in Rpcs :
       /\ rpc[r] = "sent"
       /\ rpc' = [rpc EXCEPT ![r] = "taken"]
       /\ hand' = [hand EXCEPT ![t] = {r}]
       /\ taken' = taken \cup {r}
  /\ wpc' = [wpc EXCEPT ![t] = "count"]
  /\ UNCHANGED <<request_count, mainVars>>

\* Mutant: a worker that finds nothing does not look at the flag again.
recv_waits(t) ==
  /\ wpc[t] = "recv"
  /\ \A r \in Rpcs : rpc[r] # "sent"
  /\ UNCHANGED <<wpc, hand, request_count, taken, mainVars, rpc>>

\* Nothing there: leave if stopped, else sleep and go round.
recv_nothing(t) ==
  /\ wpc[t] = "recv"
  /\ \A r \in Rpcs : rpc[r] # "sent"
  /\ wpc' = [wpc EXCEPT ![t] = IF running THEN "loop" ELSE "exited"]
  /\ UNCHANGED <<hand, request_count, taken, mainVars, rpc>>

\* Mutant: a stopped worker drops what it has received.
count_unless_stopped(t) ==
  /\ wpc[t] = "count"
  /\ request_count' = IF running THEN request_count + 1 ELSE request_count
  /\ wpc' = [wpc EXCEPT ![t] = "reply"]
  /\ UNCHANGED <<hand, taken, mainVars, rpc>>

\* The header becomes a response's, and the counters are increased.
count(t) ==
  /\ wpc[t] = "count"
  /\ request_count' = request_count + 1
  /\ wpc' = [wpc EXCEPT ![t] = "reply"]
  /\ UNCHANGED <<hand, taken, mainVars, rpc>>

\* socket_.send_response(): its result is ignored, so a response that cannot
\* be sent, or whose RPC the kernel has given up, is just not there.
send_response(t) ==
  /\ wpc[t] = "reply"
  /\ \/ \E r \in hand[t] :
          rpc[r] = "taken" /\ rpc' = [rpc EXCEPT ![r] = "answered"]
     \/ UNCHANGED rpc
  /\ hand' = [hand EXCEPT ![t] = {}]
  /\ wpc' = [wpc EXCEPT ![t] = "loop"]
  /\ UNCHANGED <<request_count, taken, mainVars>>

Worker(t) ==
  \/ check(t) \/ recv_request(t) \/ recv_nothing(t) \/ count(t)
  \/ send_response(t)
=============================================================================
