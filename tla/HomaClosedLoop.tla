--------------------------- MODULE HomaClosedLoop --------------------------
(***************************************************************************)
(* HomaClient::run_closed_loop and closed_loop_worker                      *)
(* (src/src/homa_client.cpp) against a HomaServer.  Each of `Concurrency`  *)
(* workers has a socket of its own and does its share of the requests, one *)
(* RPC at a time: send, then wait in a blocking receive for the response.  *)
(* A worker without a socket returns without a word, and one that cannot   *)
(* resolve the address throws, which ends the process.                     *)
(*                                                                         *)
(* An RPC is named by its worker and its loop index.                       *)
(***************************************************************************)
EXTENDS Naturals, Sequences, FiniteSets, Functions

CONSTANTS
  Concurrency,   \* cfg.closed_loop_concurrency
  NumRequests,   \* cfg.num_requests
  Warmup,        \* cfg.warmup_requests
  Threads        \* the server's worker threads

ASSUME ConcurrencyAssumption == Concurrency \in Nat \ {0}
ASSUME LoadAssumption == NumRequests \in Nat /\ Warmup \in Nat

VARIABLES
  cpc,          \* where the thread of run_closed_loop is
  k,            \* its loop index over the workers
  wpc,          \* where worker w is
  i,            \* its loop index
  samples,      \* thread_samples[w], by loop index
  total_bytes,  \* total_bytes_, in messages
  result,       \* <<the BenchmarkResult>>, NoResult until it is built
  answered,     \* history: the RPCs whose response was received
  failed,       \* history: the other settled requests
  rpc,          \* the kernel's view of each RPC
  smpc, srunning, swpc, shand, request_count, taken  \* the server

clientVars ==
  <<cpc, k, wpc, i, samples, total_bytes, result, answered, failed>>
serverVars == <<smpc, srunning, swpc, shand, request_count, taken>>
vars == <<clientVars, serverVars, rpc>>

NoResult == <<>>
Workers == 0 .. Concurrency - 1
Terminal == {"done", "threw"}
Alive == cpc # "threw"

\* per_thread + (i < remainder ? 1 : 0)
count(w) ==
  NumRequests \div Concurrency
    + (IF w < NumRequests % Concurrency THEN 1 ELSE 0)

warmup == Warmup \div Concurrency
rounds(w) == warmup + count(w)
Share(w) == {<<w, n>> : n \in 0 .. rounds(w) - 1}
Requests == UNION {Share(w) : w \in Workers}
Warm == {r \in Requests : r[2] < warmup}

Server == INSTANCE HomaServer WITH
  Rpcs <- Requests, mpc <- smpc, running <- srunning, wpc <- swpc,
  hand <- shand

Init ==
  /\ cpc = "spawn" /\ k = 0 /\ result = NoResult
  /\ wpc = [w \in Workers |-> "none"]
  /\ i = [w \in Workers |-> 0]
  /\ samples = [w \in Workers |-> <<>>]
  /\ total_bytes = 0
  /\ answered = {} /\ failed = {}
  /\ rpc = [r \in Requests |-> "none"]
  /\ Server!Init

-----------------------------------------------------------------------------
\* The main thread.

spawn ==
  /\ cpc = "spawn" /\ k < Concurrency
  /\ wpc' = [wpc EXCEPT ![k] = "socket"]
  /\ k' = k + 1
  /\ cpc' = IF k + 1 = Concurrency THEN "join" ELSE "spawn"
  /\ UNCHANGED <<i, samples, total_bytes, result, answered, failed>>
  /\ UNCHANGED <<rpc, serverVars>>

\* What run_closed_loop reports.
BenchmarkResult ==
  [total_requests |-> SumFunction([w \in Workers |-> Len(samples[w])]),
   latency |-> UNION {{<<w, n>> : n \in Range(samples[w])} : w \in Workers},
   total_bytes |-> total_bytes]

\* Mutant: only the worker spawned last is joined.
join_last ==
  /\ cpc = "join"
  /\ wpc[Concurrency - 1] = "exited"
  /\ result' = <<BenchmarkResult>>
  /\ cpc' = "done"
  /\ UNCHANGED <<k, wpc, i, samples, total_bytes, answered, failed>>
  /\ UNCHANGED <<rpc, serverVars>>

\* w.join() for every worker, then the result.
join ==
  /\ cpc = "join"
  /\ \A w \in Workers : wpc[w] = "exited"
  /\ result' = <<BenchmarkResult>>
  /\ cpc' = "done"
  /\ UNCHANGED <<k, wpc, i, samples, total_bytes, answered, failed>>
  /\ UNCHANGED <<rpc, serverVars>>

Main == spawn \/ join

-----------------------------------------------------------------------------
\* Worker w.

\* The socket is made, bound, and the address resolved.
open_socket(w) ==
  /\ Alive /\ wpc[w] = "socket"
  /\ wpc' = [wpc EXCEPT ![w] = "loop"]
  /\ UNCHANGED <<cpc, k, i, samples, total_bytes, result, answered, failed>>
  /\ UNCHANGED <<rpc, serverVars>>

\* if (!sock.valid()) return: the worker's whole share is not done.
no_socket(w) ==
  /\ Alive /\ wpc[w] = "socket"
  /\ wpc' = [wpc EXCEPT ![w] = "exited"]
  /\ failed' = failed \cup Share(w)
  /\ UNCHANGED <<cpc, k, i, samples, total_bytes, result, answered>>
  /\ UNCHANGED <<rpc, serverVars>>

\* getaddrinfo() fails: nothing catches the exception of a thread.
resolve_throws(w) ==
  /\ Alive /\ wpc[w] = "socket"
  /\ cpc' = "threw"
  /\ UNCHANGED <<k, wpc, i, samples, total_bytes, result, answered, failed>>
  /\ UNCHANGED <<rpc, serverVars>>

send_request(w) ==
  /\ Alive /\ wpc[w] = "loop" /\ i[w] < rounds(w)
  /\ rpc' = [rpc EXCEPT ![<<w, i[w]>>] = "sent"]
  /\ wpc' = [wpc EXCEPT ![w] = "recv"]
  /\ UNCHANGED <<cpc, k, i, samples, total_bytes, result, answered, failed>>
  /\ UNCHANGED serverVars

\* if (sent < 0) continue: no receive, no sample and no bytes.
send_fails(w) ==
  /\ Alive /\ wpc[w] = "loop" /\ i[w] < rounds(w)
  /\ failed' = failed \cup {<<w, i[w]>>}
  /\ i' = [i EXCEPT ![w] = @ + 1]
  /\ UNCHANGED <<cpc, k, wpc, samples, total_bytes, result, answered>>
  /\ UNCHANGED <<rpc, serverVars>>

\* The rest of the loop body once sock.recv() has returned.
settle(w, from) ==
  LET r == <<w, i[w]>>
      ok == from = "answered" IN
  /\ Alive /\ wpc[w] = "recv" /\ rpc[r] = from
  /\ rpc' = [rpc EXCEPT ![r] = "gone"]
  /\ samples' = IF ok /\ i[w] >= warmup
                THEN [samples EXCEPT ![w] = Append(@, i[w])] ELSE samples
  /\ answered' = IF ok THEN answered \cup {r} ELSE answered
  /\ failed' = IF ok THEN failed ELSE failed \cup {r}
  /\ total_bytes' = total_bytes + 1
  /\ i' = [i EXCEPT ![w] = @ + 1]
  /\ wpc' = [wpc EXCEPT ![w] = "loop"]
  /\ UNCHANGED <<cpc, k, result, serverVars>>

recv_response(w) == settle(w, "answered")

\* Mutant: the receive of an RPC that the kernel gave up never returns.
recv_blocks(w) == settle(w, "never")

\* recv() returns -1: the kernel reports that it gave the RPC up.
recv_fails(w) == settle(w, "given_up")

leave(w) ==
  /\ Alive /\ wpc[w] = "loop" /\ i[w] >= rounds(w)
  /\ wpc' = [wpc EXCEPT ![w] = "exited"]
  /\ UNCHANGED <<cpc, k, i, samples, total_bytes, result, answered, failed>>
  /\ UNCHANGED <<rpc, serverVars>>

Worker(w) ==
  \/ open_socket(w) \/ no_socket(w) \/ resolve_throws(w)
  \/ send_request(w) \/ send_fails(w)
  \/ recv_response(w) \/ recv_fails(w) \/ leave(w)

-----------------------------------------------------------------------------
\* Homa: an RPC may be given up at any time before its response is there.
give_up(r) ==
  /\ cpc \notin Terminal /\ rpc[r] \in {"sent", "taken"}
  /\ rpc' = [rpc EXCEPT ![r] = "given_up"]
  /\ UNCHANGED <<clientVars, serverVars>>

ServerMain == Server!Main /\ UNCHANGED clientVars
ServerWorker(t) == Server!Worker(t) /\ UNCHANGED clientVars

Terminated ==
  cpc \in Terminal /\ smpc \in {"stopped", "threw"} /\ UNCHANGED vars

\* Worker w is in recv() and the kernel has nothing for it.
Waiting(w) ==
  wpc[w] = "recv" /\ rpc[<<w, i[w]>>] \notin {"answered", "given_up"}

\* A worker waits for the answer of a server that is no more.
Hung ==
  /\ smpc \in {"stopped", "threw"}
  /\ \E w \in Workers : Waiting(w)
  /\ UNCHANGED vars

Next ==
  \/ Main
  \/ \E w \in Workers : Worker(w)
  \/ \E r \in Requests : give_up(r)
  \/ ServerMain
  \/ \E t \in Threads : ServerWorker(t)
  \/ Terminated \/ Hung

Spec == Init /\ [][Next]_vars

\* The OS runs every thread of both programs.  No signal need come, and Homa
\* need report no failure.
FairSpec ==
  /\ Spec
  /\ WF_vars(Main)
  /\ \A w \in Workers : WF_vars(Worker(w))
  /\ WF_vars((Server!start \/ Server!start_throws) /\ UNCHANGED clientVars)
  /\ WF_vars(Server!join /\ UNCHANGED clientVars)
  /\ \A t \in Threads : WF_vars(ServerWorker(t))

-----------------------------------------------------------------------------
\* The two programs agree: what the client has answers for the server has
\* counted, and it counts nothing that the client has not sent.
CountsAgree ==
  /\ Cardinality(answered) <= request_count
  /\ result # NoResult => request_count <= result[1].total_bytes

\* When stop() has returned, every request that a worker received is counted
\* and no worker holds one: none is dropped between receive and reply.
StopFinishesRequests ==
  smpc = "stopped" =>
    /\ request_count = Cardinality(taken)
    /\ \A t \in Threads : swpc[t] = "exited" /\ shand[t] = {}

\* stop() returns, whatever requests arrive: no receive blocks.
StopTerminates == (smpc = "join") ~> (smpc = "stopped")

\* The client's run ends unless an RPC is never settled, and that only
\* happens when no server takes it or its response could not be sent: never
\* because the workers of either side wait for each other.
EndsUnlessUnserved ==
  \/ <>(cpc \in Terminal)
  \/ <>[](\E w \in Workers :
            /\ Waiting(w)
            /\ \/ smpc \in {"stopped", "threw"}
               \/ /\ <<w, i[w]>> \in taken
                  /\ \A t \in Threads : <<w, i[w]>> \notin shand[t])

\* The abstract run: a request is issued while its worker waits for it.
Run == INSTANCE BenchmarkRun WITH
  issued <- {<<w, i[w]>> : w \in {v \in Workers : wpc[v] = "recv"}},
  report <- IF result = NoResult THEN <<>> ELSE <<result[1].latency>>

\* Whatever the two programs do, the run is one the abstract one allows.
ImplementsBenchmarkRun == Run!Spec
=============================================================================
