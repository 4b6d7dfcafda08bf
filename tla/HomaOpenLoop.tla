---------------------------- MODULE HomaOpenLoop ---------------------------
(***************************************************************************)
(* HomaClient::run_open_loop and open_loop_receiver                        *)
(* (src/src/homa_client.cpp).  The sender issues one RPC after another on  *)
(* one Homa socket and notes each send time in `pending`; the receiver     *)
(* polls the socket and matches every response with its entry.  Two        *)
(* seconds after the last send the sender clears `receiving` and joins the *)
(* receiver.                                                               *)
(*                                                                         *)
(* The Homa kernel module and the server are outside: an RPC is answered,  *)
(* in any order, or given up.  A request is its index, which also stands   *)
(* for the rpc_id the kernel assigns and for the send time.                *)
(***************************************************************************)
EXTENDS Naturals, Sequences, FiniteSets, Functions

CONSTANTS
  NumRequests,   \* cfg.num_requests
  Warmup,        \* cfg.warmup_requests
  Word           \* uint32_t counts modulo 2^32

ASSUME RequestsAssumption == NumRequests \in Nat /\ Warmup \in Nat
ASSUME WordAssumption == Word \in Nat \ {0}

VARIABLES
  spc,              \* the sender, run_open_loop
  i,                \* its loop index
  pending,          \* the requests with an entry in the map `pending`
  receiving,        \* the flag the receiver polls
  total_bytes,      \* total_bytes_, in messages
  result,           \* <<the BenchmarkResult>>, NoResult before
  rpc,              \* each RPC, in the kernel and at the server
  recvpc,           \* the receiver
  hand,             \* the RPC whose response it has received
  received_count,   \* its count of responses
  samples,          \* recv_samples, by request
  overtaken         \* history: responses that found no entry

senderVars == <<spc, i, receiving, total_bytes, result>>
receiverVars == <<recvpc, hand, received_count, samples, overtaken>>
vars == <<senderVars, pending, rpc, receiverVars>>

NoResult == <<>>
total == (Warmup + NumRequests) % Word
Ids == 0 .. total - 1
Terminal == {"done", "threw"}

Init ==
  /\ spc = "start" /\ i = 0 /\ receiving = TRUE
  /\ total_bytes = 0 /\ result = NoResult
  /\ pending = {}
  /\ rpc = [r \in Ids |-> "none"]
  /\ recvpc = "none" /\ hand = 0 /\ received_count = 0
  /\ samples = <<>> /\ overtaken = {}

-----------------------------------------------------------------------------
\* The sender.

\* The socket is made and the receiver started.
start_receiver ==
  /\ spc = "start"
  /\ recvpc' = "loop"
  /\ spc' = "resolve"
  /\ UNCHANGED <<i, receiving, total_bytes, result, pending, rpc>>
  /\ UNCHANGED <<hand, received_count, samples, overtaken>>

\* No socket: an exception.  No address: an exception past a joinable thread,
\* which terminates the process.
start_throws ==
  /\ spc \in {"start", "resolve"}
  /\ spc' = "threw"
  /\ UNCHANGED <<i, receiving, total_bytes, result, pending, rpc>>
  /\ UNCHANGED receiverVars

resolved ==
  /\ spc = "resolve"
  /\ spc' = "send"
  /\ UNCHANGED <<i, receiving, total_bytes, result, pending, rpc>>
  /\ UNCHANGED receiverVars

\* sock.send_request(): from here on the response may come.
send_request ==
  /\ spc = "send" /\ i < total
  /\ rpc' = [rpc EXCEPT ![i] = "sent"]
  /\ spc' = "insert"
  /\ UNCHANGED <<i, receiving, total_bytes, result, pending, receiverVars>>

\* sent < 0: no entry, but its bytes are counted; on to the next request.
send_fails ==
  /\ spc = "send" /\ i < total
  /\ i' = i + 1
  /\ total_bytes' = total_bytes + 1
  /\ UNCHANGED <<spc, receiving, result, pending, rpc, receiverVars>>

\* pending[rpc_id] = hdr.send_timestamp_ns, under pending_mu.
insert_pending ==
  /\ spc = "insert"
  /\ pending' = pending \cup {i}
  /\ i' = i + 1
  /\ total_bytes' = total_bytes + 1
  /\ spc' = "send"
  /\ UNCHANGED <<receiving, result, rpc, receiverVars>>

\* The two seconds' grace is over, whatever is still out: receiving = false.
clear_receiving ==
  /\ spc = "send" /\ i = total
  /\ receiving' = FALSE
  /\ spc' = "join"
  /\ UNCHANGED <<i, total_bytes, result, pending, rpc, receiverVars>>

\* receiver.join(), then the result.
join_receiver ==
  /\ spc = "join" /\ recvpc = "exited"
  /\ result' = <<[latency |-> samples, total_bytes |-> total_bytes]>>
  /\ spc' = "done"
  /\ UNCHANGED <<i, receiving, total_bytes, pending, rpc, receiverVars>>

Sender ==
  \/ start_receiver \/ start_throws \/ resolved \/ send_request \/ send_fails
  \/ insert_pending \/ clear_receiving \/ join_receiver

-----------------------------------------------------------------------------
\* The receiver, while the process lives.

Alive == spc # "threw"

\* Mutant: the flag is not polled.
receiver_never_checks ==
  /\ Alive /\ recvpc = "loop"
  /\ recvpc' = "recv"
  /\ UNCHANGED <<hand, received_count, samples, overtaken>>
  /\ UNCHANGED <<senderVars, pending, rpc>>

receiver_check ==
  /\ Alive /\ recvpc = "loop"
  /\ recvpc' = IF receiving THEN "recv" ELSE "exited"
  /\ UNCHANGED <<hand, received_count, samples, overtaken>>
  /\ UNCHANGED <<senderVars, pending, rpc>>

\* sock.recv() has a response, of any RPC that has one.
recv_response ==
  /\ Alive /\ recvpc = "recv"
  /\ \E r \in Ids :
       /\ rpc[r] = "answered"
       /\ rpc' = [rpc EXCEPT ![r] = "gone"]
       /\ hand' = r
  /\ recvpc' = "lookup"
  /\ UNCHANGED <<received_count, samples, overtaken, senderVars, pending>>

\* sock.recv() fails: nothing there, or the kernel reports an RPC it gave up.
recv_fails ==
  /\ Alive /\ recvpc = "recv"
  /\ \/ /\ \A r \in Ids : rpc[r] # "answered"
        /\ UNCHANGED rpc
     \/ \E r \in Ids :
          /\ rpc[r] = "given_up"
          /\ rpc' = [rpc EXCEPT ![r] = "gone"]
  /\ recvpc' = "loop"
  /\ UNCHANGED <<hand, received_count, samples, overtaken>>
  /\ UNCHANGED <<senderVars, pending>>

\* Mutant: the entry is found but not erased, and a sample taken even when
\* it is not found.
lookup_unmatched ==
  /\ Alive /\ recvpc = "lookup"
  /\ received_count' = (received_count + 1) % Word
  /\ overtaken' = IF hand \in pending THEN overtaken ELSE overtaken \cup {hand}
  /\ samples' = IF received_count' > Warmup THEN Append(samples, hand) ELSE samples
  /\ recvpc' = "loop"
  /\ UNCHANGED <<hand, pending, senderVars, rpc>>

\* Mutant: one warm-up response too few is left out.
lookup_at_least ==
  /\ Alive /\ recvpc = "lookup"
  /\ pending' = pending \ {hand}
  /\ overtaken' = IF hand \in pending THEN overtaken ELSE overtaken \cup {hand}
  /\ received_count' = (received_count + 1) % Word
  /\ samples' = IF hand \in pending /\ received_count' >= Warmup
                THEN Append(samples, hand) ELSE samples
  /\ recvpc' = "loop"
  /\ UNCHANGED <<hand, senderVars, rpc>>

\* The entry is looked up and erased under pending_mu; the first `Warmup`
\* responses to arrive, and those without an entry, give no sample.
lookup ==
  /\ Alive /\ recvpc = "lookup"
  /\ pending' = pending \ {hand}
  /\ overtaken' = IF hand \in pending THEN overtaken ELSE overtaken \cup {hand}
  /\ received_count' = (received_count + 1) % Word
  /\ samples' = IF hand \in pending /\ received_count' > Warmup
                THEN Append(samples, hand) ELSE samples
  /\ recvpc' = "loop"
  /\ UNCHANGED <<hand, senderVars, rpc>>

Receiver == receiver_check \/ recv_response \/ recv_fails \/ lookup

-----------------------------------------------------------------------------
\* Homa and the server: an RPC is answered once or given up, at any time.
transport(r) ==
  /\ spc \notin Terminal /\ rpc[r] = "sent"
  /\ \E fate \in {"answered", "given_up"} : rpc' = [rpc EXCEPT ![r] = fate]
  /\ UNCHANGED <<senderVars, pending, receiverVars>>

Terminated == spc \in Terminal /\ UNCHANGED vars

Next ==
  \/ Sender \/ Receiver
  \/ \E r \in Ids : transport(r)
  \/ Terminated

Spec == Init /\ [][Next]_vars

\* Both threads run; the transport owes nothing.
FairSpec == Spec /\ WF_vars(Sender) /\ WF_vars(Receiver)

-----------------------------------------------------------------------------
\* The counters keep their range: no RPC beyond the planned ones is sent,
\* entered, received or measured.
TypeOK ==
  /\ spc \in {"start", "resolve", "send", "insert", "join"} \cup Terminal
  /\ i \in 0 .. total
  /\ pending \subseteq Ids
  /\ receiving \in BOOLEAN
  /\ result \in Seq([latency : Seq(Ids), total_bytes : Nat]) /\ Len(result) <= 1
  /\ total_bytes \in 0 .. total
  /\ rpc \in [Ids -> {"none", "sent", "answered", "given_up", "gone"}]
  /\ recvpc \in {"none", "loop", "recv", "lookup", "exited"}
  /\ hand \in Nat
  /\ received_count \in 0 .. Word - 1
  /\ samples \in Seq(Ids)
  /\ overtaken \subseteq Ids

\* No response is measured twice, and only one that has been received is: a
\* sample's entry is gone from `pending`, whatever the order of arrival.
SampledOnce ==
  /\ IsInjective(samples)
  /\ \A r \in Range(samples) : rpc[r] = "gone" /\ r \notin pending \cup overtaken

\* What is left in `pending` once the run is over: requests whose response
\* was not received in time, and those it overtook, which stay for good.
LeftInPending ==
  result # NoResult =>
    /\ overtaken \subseteq pending
    /\ \A r \in pending \ overtaken : rpc[r] # "none"
    /\ Range(result[1].latency) = Range(samples)
    /\ Range(samples) \cap pending = {}

\* The only responses that go unmeasured are the first `Warmup` to arrive
\* and those that came before the sender had entered them; these stay in
\* `pending`, with the requests that were not answered in time.
NothingElseUnmeasured ==
  LET late == IF received_count > Warmup THEN received_count - Warmup ELSE 0 IN
  /\ Len(samples) <= late
  /\ late <= Len(samples) + Cardinality(overtaken)
  /\ LeftInPending

\* The run ends whatever Homa does with the RPCs.
Termination == <>(spc \in Terminal)
=============================================================================
