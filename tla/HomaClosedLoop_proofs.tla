----------------------- MODULE HomaClosedLoop_proofs -----------------------
(***************************************************************************)
(* The Homa closed-loop client and its server for any number of client     *)
(* workers, requests and server threads: what the two programs have        *)
(* counted, what stop() leaves behind, and that a run of the client is one *)
(* that BenchmarkRun allows.                                               *)
(***************************************************************************)
EXTENDS HomaClosedLoop, Integers, FiniteSetTheorems, TLAPS

\* The requests received by a server thread that has not counted them yet.
Uncounted == {r \in taken : \E t \in Threads : swpc[t] = "count" /\ r \in shand[t]}
Counted == taken \ Uncounted

\* The RPCs whose fate the client knows.
Gone == {r \in Requests : rpc[r] = "gone"}

TypeInv ==
  /\ cpc \in {"spawn", "join", "done", "threw"}
  /\ k \in 0 .. Concurrency /\ (cpc = "spawn" => k < Concurrency)
  /\ wpc \in [Workers -> {"none", "socket", "loop", "recv", "exited"}]
  /\ i \in [Workers -> Nat]
  /\ samples \in [Workers -> Seq(Nat)]
  /\ total_bytes \in Nat
  /\ answered \subseteq Requests /\ failed \subseteq Requests
  /\ rpc \in [Requests -> {"none", "sent", "taken", "answered", "given_up", "gone"}]
  /\ smpc \in {"start", "serve", "join", "stopped", "threw"}
  /\ swpc \in [Threads -> {"none", "loop", "recv", "count", "reply", "exited"}]
  /\ shand \in [Threads -> SUBSET Requests]
  /\ request_count \in Nat
  /\ taken \subseteq Requests

\* A client worker has at most one RPC under way, the one it waits for.
ClientInv ==
  /\ \A w \in Workers : i[w] <= rounds(w)
  /\ \A w \in Workers : wpc[w] = "recv" => i[w] < rounds(w)
  /\ \A w \in Workers : wpc[w] \in {"none", "socket"} => i[w] = 0
  /\ \A w \in Workers : w >= k => wpc[w] = "none"
  /\ \A r \in Requests :
       /\ rpc[r] # "none" =>
            r[2] < i[r[1]] \/ (r[2] = i[r[1]] /\ wpc[r[1]] = "recv")
       /\ rpc[r] \notin {"none", "gone"} => r[2] = i[r[1]] /\ wpc[r[1]] = "recv"
       /\ r[2] = i[r[1]] /\ wpc[r[1]] = "recv" => rpc[r] \notin {"none", "gone"}

\* It has settled what is behind it, and all its share when it has no socket.
SettledInv ==
  /\ answered \cap failed = {}
  /\ \A r \in answered : r[2] < i[r[1]] /\ rpc[r] = "gone"
  /\ \A r \in failed : r[2] < i[r[1]] \/ wpc[r[1]] = "exited"
  /\ \A r \in Requests :
       r[2] < i[r[1]] \/ wpc[r[1]] = "exited" => r \in answered \cup failed

\* It has measured the answered requests that are not warm-up.
SampledInv ==
  \A w \in Workers :
    Range(samples[w]) = {n \in Nat : <<w, n>> \in answered /\ warmup <= n}

\* A message is counted for each RPC whose fate is known.
BytesInv == total_bytes = Cardinality(Gone)

ResultInv ==
  IF cpc = "done"
  THEN /\ \A w \in Workers : wpc[w] = "exited"
       /\ result # NoResult
       /\ result[1].total_bytes = total_bytes
       /\ result[1].latency = answered \ Warm
  ELSE result = NoResult

\* A server thread holds the request it works on, which no other one holds.
ServerInv ==
  /\ \A t \in Threads : shand[t] # {} => swpc[t] \in {"count", "reply"}
  /\ \A t \in Threads : swpc[t] = "count" => shand[t] # {}
  /\ \A t \in Threads : \A r, q \in shand[t] : r = q
  /\ \A t, u \in Threads : t # u => shand[t] \cap shand[u] = {}
  /\ \A t \in Threads : shand[t] \subseteq taken
  /\ \A t \in Threads : smpc = "start" => swpc[t] = "none"
  /\ \A t \in Threads : smpc = "stopped" => swpc[t] = "exited"

\* A response is there only once the request has been counted.
TakenInv ==
  /\ \A r \in taken : rpc[r] \notin {"none", "sent"}
  /\ \A r \in Requests : rpc[r] = "answered" => r \in Counted
  /\ answered \subseteq Counted
  /\ request_count = Cardinality(Counted)

IInv ==
  /\ TypeInv /\ ClientInv /\ SettledInv /\ SampledInv /\ BytesInv /\ ResultInv
  /\ ServerInv /\ TakenInv

-----------------------------------------------------------------------------
\* The requests are the pairs of a worker and one of its rounds.
LEMMA RoundsType == \A w \in Workers : rounds(w) \in Nat /\ warmup \in Nat
BY ConcurrencyAssumption, LoadAssumption DEF rounds, warmup, count, Workers

\* A request is a worker and the number of one of its rounds.
LEMMA IsRequest ==
  /\ \A r \in Requests : /\ r[1] \in Workers /\ r[2] \in Nat /\ r[2] < rounds(r[1])
                         /\ r = <<r[1], r[2]>>
  /\ \A w \in Workers, n \in Nat : n < rounds(w) => <<w, n>> \in Requests
<1>1. ASSUME NEW r \in Requests
      PROVE  /\ r[1] \in Workers /\ r[2] \in Nat /\ r[2] < rounds(r[1])
             /\ r = <<r[1], r[2]>>
  <2>1. PICK w \in Workers : r \in Share(w)
    BY DEF Requests
  <2>2. PICK n \in 0 .. rounds(w) - 1 : r = <<w, n>>
    BY <2>1 DEF Share
  <2> QED
    BY <2>2, RoundsType
<1>2. ASSUME NEW w \in Workers, NEW n \in Nat, n < rounds(w) PROVE <<w, n>> \in Requests
  <2>1. n \in 0 .. rounds(w) - 1
    BY <1>2, RoundsType
  <2>2. <<w, n>> \in Share(w)
    BY <2>1 DEF Share
  <2> QED
    BY <2>2 DEF Requests
<1> QED
  BY <1>1, <1>2

\* A worker's share is the requests that carry its name.
LEMMA ShareOf == \A w \in Workers : Share(w) = {r \in Requests : r[1] = w}
<1> SUFFICES ASSUME NEW w \in Workers PROVE Share(w) = {r \in Requests : r[1] = w}
  OBVIOUS
<1>1. ASSUME NEW r \in Share(w) PROVE r \in Requests /\ r[1] = w
  BY DEF Share, Requests
<1>2. ASSUME NEW r \in Requests, r[1] = w PROVE r \in Share(w)
  <2>1. r = <<w, r[2]>> /\ r[2] \in 0 .. rounds(w) - 1
    BY <1>2, IsRequest, RoundsType
  <2> QED
    BY <2>1 DEF Share
<1> QED
  BY <1>1, <1>2

\* The planned requests are finitely many.
LEMMA RequestsFinite == IsFiniteSet(Requests)
<1> DEFINE last == warmup + NumRequests \div Concurrency + 1
<1>1. \A w \in Workers : rounds(w) <= last
  BY ConcurrencyAssumption, LoadAssumption DEF rounds, warmup, count, Workers
<1>2. last \in Nat
  BY ConcurrencyAssumption, LoadAssumption DEF warmup
<1> HIDE DEF last
<1>3. Requests \subseteq Workers \X (0 .. last)
  <2> SUFFICES ASSUME NEW r \in Requests PROVE r \in Workers \X (0 .. last)
    OBVIOUS
  <2>1. r[1] \in Workers /\ r[2] \in Nat /\ r[2] < rounds(r[1]) /\ r = <<r[1], r[2]>>
    BY IsRequest
  <2>2. r[2] \in 0 .. last
    BY <1>1, <1>2, <2>1, RoundsType
  <2> QED
    BY <2>1, <2>2
<1>4. IsFiniteSet(Workers) /\ IsFiniteSet(0 .. last)
  BY <1>2, ConcurrencyAssumption, FS_Interval DEF Workers
<1>5. IsFiniteSet(Workers \X (0 .. last))
  BY <1>4, FS_Product
<1> QED
  BY <1>3, <1>5, FS_Subset

\* So are the sets that the invariant counts.
LEMMA CountedFinite ==
  ASSUME TypeInv
  PROVE  /\ IsFiniteSet(Gone) /\ IsFiniteSet(taken) /\ IsFiniteSet(Counted)
         /\ Cardinality(Counted) <= Cardinality(taken)
<1>1. Gone \subseteq Requests /\ taken \subseteq Requests /\ Counted \subseteq taken
  BY DEF TypeInv, Gone, Counted
<1>2. IsFiniteSet(Gone) /\ IsFiniteSet(taken)
  BY <1>1, RequestsFinite, FS_Subset
<1> QED
  BY <1>1, <1>2, FS_Subset

-----------------------------------------------------------------------------
\* Before the first thread starts.
LEMMA InitIInv == Init => IInv
<1> SUFFICES ASSUME Init PROVE IInv
  OBVIOUS
<1> USE DEF Init, Server!Init
<1>1. \A S : <<>> \in Seq(S)
  OBVIOUS
<1>2. TypeInv
  BY <1>1, ConcurrencyAssumption DEF TypeInv
<1>3. ClientInv
  BY RoundsType, IsRequest DEF ClientInv
<1>4. SettledInv
  BY IsRequest DEF SettledInv
<1>5. SampledInv
  BY DEF SampledInv, Range
<1>6. Gone = {} /\ Counted = {}
  BY DEF Gone, Counted
<1>7. BytesInv /\ ResultInv
  BY <1>6, FS_EmptySet DEF BytesInv, ResultInv
<1>8. ServerInv
  BY DEF ServerInv
<1>9. TakenInv
  BY <1>6, FS_EmptySet DEF TakenInv
<1> QED
  BY <1>2, <1>3, <1>4, <1>5, <1>7, <1>8, <1>9 DEF IInv

\* What the client does without an RPC is of no concern to the server.
LEMMA ServerAsBefore ==
  ASSUME IInv, UNCHANGED <<rpc, answered, serverVars>>
  PROVE  ServerInv' /\ TakenInv' /\ Gone' = Gone
<1>1. UNCHANGED <<smpc, srunning, swpc, shand, request_count, taken>>
  BY DEF serverVars
<1>2. ServerInv'
  BY <1>1 DEF IInv, ServerInv
<1>3. Counted' = Counted /\ Gone' = Gone
  BY <1>1 DEF Counted, Uncounted, Gone
<1>4. TakenInv'
  BY <1>1, <1>3 DEF IInv, TakenInv
<1> QED
  BY <1>2, <1>3, <1>4

\* A worker thread starts with nothing done.
LEMMA SpawnStep == IInv /\ spawn => IInv'
<1> SUFFICES ASSUME IInv, spawn PROVE IInv'
  OBVIOUS
<1>1. /\ cpc = "spawn" /\ k < Concurrency /\ wpc' = [wpc EXCEPT ![k] = "socket"]
      /\ k' = k + 1 /\ cpc' = IF k + 1 = Concurrency THEN "join" ELSE "spawn"
      /\ UNCHANGED <<i, samples, total_bytes, result, answered, failed, rpc>>
      /\ UNCHANGED <<smpc, srunning, swpc, shand, request_count, taken>>
  BY DEF spawn, serverVars
<1>2. k \in Workers /\ wpc[k] = "none"
  BY <1>1, ConcurrencyAssumption DEF IInv, TypeInv, ClientInv, Workers
<1>3. TypeInv'
  BY <1>1, <1>2, ConcurrencyAssumption DEF IInv, TypeInv
<1>4. ClientInv'
  <2>1. \A w \in Workers : w \in Nat /\ (w >= k + 1 => w # k /\ w >= k)
    BY <1>2 DEF Workers
  <2> QED
    BY <1>1, <1>2, <2>1, IsRequest DEF IInv, TypeInv, ClientInv
<1>5. SettledInv' /\ SampledInv'
  BY <1>1, <1>2, IsRequest DEF IInv, TypeInv, SettledInv, SampledInv
<1>6. ServerInv' /\ TakenInv' /\ Gone' = Gone
  BY <1>1, ServerAsBefore DEF serverVars
<1>7. BytesInv' /\ ResultInv'
  BY <1>1, <1>6 DEF IInv, BytesInv, ResultInv
<1> QED
  BY <1>3, <1>4, <1>5, <1>6, <1>7 DEF IInv

\* w.join() for every worker: all the requests are settled, and the latencies
\* are of the answered ones.
LEMMA AllMeasured ==
  ASSUME IInv, \A w \in Workers : wpc[w] = "exited"
  PROVE  /\ answered \cup failed = Requests
         /\ BenchmarkResult.latency = answered \ Warm
         /\ BenchmarkResult.total_bytes = total_bytes
<1>1. answered \cup failed = Requests
  BY IsRequest DEF IInv, TypeInv, SettledInv
<1>2. answered \subseteq Requests
  BY DEF IInv, TypeInv
<1> DEFINE latency == UNION {{<<w, n>> : n \in Range(samples[w])} : w \in Workers}
<1>3. BenchmarkResult.latency = latency /\ BenchmarkResult.total_bytes = total_bytes
  BY DEF BenchmarkResult
<1>4. ASSUME NEW r \in latency PROVE r \in answered \ Warm
  <2>1. PICK w \in Workers : r \in {<<w, n>> : n \in Range(samples[w])}
    OBVIOUS
  <2>2. PICK n \in Range(samples[w]) : r = <<w, n>>
    BY <2>1
  <2>3. n \in Nat /\ <<w, n>> \in answered /\ warmup <= n
    BY DEF IInv, SampledInv
  <2> QED
    BY <2>2, <2>3, RoundsType DEF Warm
<1>5. ASSUME NEW r \in answered \ Warm PROVE r \in latency
  <2>1. r[1] \in Workers /\ r[2] \in Nat /\ r = <<r[1], r[2]>>
    BY <1>2, IsRequest
  <2>2. warmup <= r[2]
    BY <1>2, <2>1, RoundsType DEF Warm
  <2>3. r[2] \in Range(samples[r[1]])
    BY <2>1, <2>2 DEF IInv, SampledInv
  <2> QED
    BY <2>1, <2>3
<1> HIDE DEF latency
<1> QED
  BY <1>1, <1>3, <1>4, <1>5

\* All workers have left: the result is made of what they measured.
LEMMA JoinStep == IInv /\ join => IInv'
<1> SUFFICES ASSUME IInv, join PROVE IInv'
  OBVIOUS
<1>1. /\ cpc = "join" /\ cpc' = "done" /\ \A w \in Workers : wpc[w] = "exited"
      /\ result' = <<BenchmarkResult>>
      /\ UNCHANGED <<k, wpc, i, samples, total_bytes, answered, failed, rpc>>
      /\ UNCHANGED <<smpc, srunning, swpc, shand, request_count, taken>>
  BY DEF join, serverVars
<1>2. TypeInv'
  BY <1>1 DEF IInv, TypeInv
<1>3. ClientInv'
  BY <1>1 DEF IInv, ClientInv
<1>4. SettledInv' /\ SampledInv'
  BY <1>1 DEF IInv, SettledInv, SampledInv
<1>5. ServerInv' /\ TakenInv' /\ Gone' = Gone
  BY <1>1, ServerAsBefore DEF serverVars
<1>6. BytesInv'
  BY <1>1, <1>5 DEF IInv, BytesInv
<1>7. ResultInv'
  <2>1. result'[1] = BenchmarkResult /\ result' # NoResult
    BY <1>1 DEF NoResult
  <2> QED
    BY <1>1, <2>1, AllMeasured DEF ResultInv
<1> QED
  BY <1>2, <1>3, <1>4, <1>5, <1>6, <1>7 DEF IInv

\* A worker has its socket, returns without one, or throws.
LEMMA SocketStep ==
  ASSUME IInv, NEW w \in Workers, open_socket(w) \/ no_socket(w) \/ resolve_throws(w)
  PROVE  IInv'
<1>1. /\ cpc # "threw" /\ wpc[w] = "socket"
      /\ UNCHANGED <<k, i, samples, total_bytes, result, answered, rpc>>
      /\ UNCHANGED <<smpc, srunning, swpc, shand, request_count, taken>>
      /\ \/ /\ wpc' = [wpc EXCEPT ![w] = "loop"] /\ UNCHANGED <<cpc, failed>>
         \/ /\ wpc' = [wpc EXCEPT ![w] = "exited"] /\ cpc' = cpc
            /\ failed' = failed \cup Share(w)
         \/ cpc' = "threw" /\ UNCHANGED <<wpc, failed>>
  BY DEF open_socket, no_socket, resolve_throws, Alive, serverVars
<1>2. Share(w) = {r \in Requests : r[1] = w}
  BY ShareOf
<1>3. i[w] = 0 /\ cpc # "done"
  BY <1>1 DEF IInv, ClientInv, ResultInv
<1>4. TypeInv'
  BY <1>1, <1>2 DEF IInv, TypeInv
<1>5. ClientInv'
  BY <1>1, IsRequest DEF IInv, TypeInv, ClientInv
<1>6. SettledInv'
  <2>1. answered' \cap failed' = {}
    BY <1>1, <1>2, <1>3, IsRequest DEF IInv, TypeInv, SettledInv
  <2> QED
    BY <1>1, <1>2, <2>1, IsRequest DEF IInv, TypeInv, SettledInv
<1>7. SampledInv'
  BY <1>1 DEF IInv, SampledInv
<1>8. ServerInv' /\ TakenInv' /\ Gone' = Gone
  BY <1>1, ServerAsBefore DEF serverVars
<1>9. BytesInv' /\ ResultInv'
  BY <1>1, <1>3, <1>8 DEF IInv, BytesInv, ResultInv
<1> QED
  BY <1>4, <1>5, <1>6, <1>7, <1>8, <1>9 DEF IInv

\* A request cannot be sent, or there is none left.
LEMMA NoSendStep ==
  ASSUME IInv, NEW w \in Workers, send_fails(w) \/ leave(w)
  PROVE  IInv'
<1>1. /\ cpc # "threw" /\ wpc[w] = "loop"
      /\ UNCHANGED <<cpc, k, samples, total_bytes, result, answered, rpc>>
      /\ UNCHANGED <<smpc, srunning, swpc, shand, request_count, taken>>
      /\ \/ /\ i[w] < rounds(w) /\ failed' = failed \cup {<<w, i[w]>>}
            /\ i' = [i EXCEPT ![w] = @ + 1] /\ wpc' = wpc
         \/ /\ i[w] >= rounds(w) /\ wpc' = [wpc EXCEPT ![w] = "exited"]
            /\ UNCHANGED <<i, failed>>
  BY DEF send_fails, leave, Alive, serverVars
<1>2. i[w] \in Nat /\ rounds(w) \in Nat /\ cpc # "done" /\ i[w] <= rounds(w)
  BY <1>1, RoundsType DEF IInv, TypeInv, ClientInv, ResultInv
<1>3. i[w] < rounds(w) => <<w, i[w]>> \in Requests
  BY <1>2, IsRequest
<1>4. TypeInv'
  <2>1. wpc' \in [Workers -> {"none", "socket", "loop", "recv", "exited"}]
    BY <1>1 DEF IInv, TypeInv
  <2>2. i' \in [Workers -> Nat]
    <3>1. i \in [Workers -> Nat] /\ i[w] + 1 \in Nat
      BY <1>2 DEF IInv, TypeInv
    <3>2. i' = i \/ i' = [i EXCEPT ![w] = i[w] + 1]
      BY <1>1
    <3> QED
      BY <3>1, <3>2
  <2>3. failed' \subseteq Requests
    BY <1>1, <1>3 DEF IInv, TypeInv
  <2> QED
    BY <1>1, <2>1, <2>2, <2>3 DEF IInv, TypeInv
<1>5. ClientInv'
  <2>1. CASE i[w] < rounds(w)
    <3>1. \A v \in Workers : i'[v] = IF v = w THEN i[w] + 1 ELSE i[v]
      BY <1>1, <1>2, <2>1 DEF IInv, TypeInv
    <3>2. wpc' = wpc /\ rpc' = rpc /\ k' = k /\ wpc[w] = "loop"
      BY <1>1, <1>2, <2>1
    <3>3. \A r \in Requests : rpc[r] # "none" =>
            r[2] < i'[r[1]] \/ (r[2] = i'[r[1]] /\ wpc'[r[1]] = "recv")
      BY <1>2, <3>1, <3>2, IsRequest DEF IInv, ClientInv
    <3>4. \A r \in Requests : wpc[r[1]] = "recv" => i'[r[1]] = i[r[1]]
      BY <3>1, <3>2, IsRequest
    <3> QED
      BY <1>2, <2>1, <3>1, <3>2, <3>3, <3>4 DEF IInv, ClientInv
  <2>2. CASE i[w] >= rounds(w)
    <3>1. \A v \in Workers : wpc'[v] = IF v = w THEN "exited" ELSE wpc[v]
      BY <1>1, <1>2, <2>2 DEF IInv, TypeInv
    <3>2. i' = i /\ rpc' = rpc /\ k' = k /\ wpc[w] = "loop"
      BY <1>1, <1>2, <2>2
    <3> QED
      BY <3>1, <3>2, IsRequest DEF IInv, ClientInv
  <2> QED
    BY <1>2, <2>1, <2>2
<1>6. SettledInv'
  <2>1. CASE i[w] < rounds(w)
    <3>1. /\ failed' = failed \cup {<<w, i[w]>>} /\ i' = [i EXCEPT ![w] = i[w] + 1]
          /\ UNCHANGED <<wpc, answered, rpc>>
      BY <1>1, <1>2, <2>1
    <3>2. \A r \in Requests : r[2] < i'[r[1]] <=> r[2] < i[r[1]] \/ r = <<w, i[w]>>
      BY <1>2, <3>1, IsRequest DEF IInv, TypeInv
    <3>3. <<w, i[w]>> \notin answered
      BY <1>2 DEF IInv, SettledInv
    <3> QED
      BY <1>3, <2>1, <3>1, <3>2, <3>3 DEF IInv, TypeInv, SettledInv
  <2>2. CASE i[w] >= rounds(w)
    <3>1. /\ wpc' = [wpc EXCEPT ![w] = "exited"]
          /\ UNCHANGED <<i, failed, answered, rpc>>
      BY <1>1, <1>2, <2>2
    <3>2. \A r \in Requests : r[1] = w => r[2] < i[w]
      BY <1>2, <2>2, IsRequest
    <3> QED
      BY <3>1, <3>2, IsRequest DEF IInv, TypeInv, SettledInv
  <2> QED
    BY <1>2, <2>1, <2>2
<1>7. SampledInv'
  BY <1>1 DEF IInv, SampledInv
<1>8. ServerInv' /\ TakenInv' /\ Gone' = Gone
  BY <1>1, ServerAsBefore DEF serverVars
<1>9. BytesInv' /\ ResultInv'
  BY <1>1, <1>2, <1>8 DEF IInv, BytesInv, ResultInv
<1> QED
  BY <1>4, <1>5, <1>6, <1>7, <1>8, <1>9 DEF IInv

\* sock.send_request() of a worker.
LEMMA SendStep == ASSUME IInv, NEW w \in Workers, send_request(w) PROVE IInv'
<1> DEFINE q == <<w, i[w]>>
<1>1. /\ cpc # "threw" /\ wpc[w] = "loop" /\ i[w] < rounds(w)
      /\ wpc' = [wpc EXCEPT ![w] = "recv"] /\ rpc' = [rpc EXCEPT ![q] = "sent"]
      /\ UNCHANGED <<cpc, k, i, samples, total_bytes, result, answered, failed>>
      /\ UNCHANGED <<smpc, srunning, swpc, shand, request_count, taken>>
  BY DEF send_request, Alive, serverVars
<1>2. i[w] \in Nat /\ cpc # "done" /\ q \in Requests /\ q[1] = w /\ q[2] = i[w]
  BY <1>1, IsRequest DEF IInv, TypeInv, ResultInv
<1>3. rpc[q] = "none"
  BY <1>1, <1>2 DEF IInv, ClientInv
<1>4. \A r \in Requests : r # q => rpc'[r] = rpc[r] /\ ~(r[1] = w /\ r[2] = i[w])
  BY <1>1, <1>2, IsRequest DEF IInv, TypeInv
<1>5. rpc'[q] = "sent"
  BY <1>1, <1>2 DEF IInv, TypeInv
<1> HIDE DEF q
<1>6. TypeInv'
  BY <1>1, <1>2 DEF IInv, TypeInv
<1>7. ClientInv'
  <2>1. \A v \in Workers : wpc'[v] = IF v = w THEN "recv" ELSE wpc[v]
    BY <1>1 DEF IInv, TypeInv
  <2>2. \A v \in Workers : v >= k => v # w
    BY <1>1 DEF IInv, ClientInv
  <2> QED
    BY <1>1, <1>2, <1>4, <1>5, <2>1, <2>2, IsRequest DEF IInv, ClientInv
<1>8. SettledInv'
  <2>1. \A v \in Workers : wpc'[v] = "exited" <=> wpc[v] = "exited"
    BY <1>1 DEF IInv, TypeInv
  <2>2. q \notin answered
    BY <1>3 DEF IInv, SettledInv
  <2> QED
    BY <1>1, <1>4, <2>1, <2>2, IsRequest DEF IInv, TypeInv, SettledInv
<1>9. SampledInv'
  BY <1>1 DEF IInv, SampledInv
<1>10. Gone' = Gone
  BY <1>3, <1>4, <1>5 DEF Gone
<1>11. BytesInv' /\ ResultInv'
  BY <1>1, <1>2, <1>10 DEF IInv, BytesInv, ResultInv
<1>12. ServerInv'
  BY <1>1 DEF IInv, ServerInv
<1>13. TakenInv'
  <2>1. Counted' = Counted
    BY <1>1 DEF Counted, Uncounted
  <2>2. q \notin taken
    BY <1>3 DEF IInv, TakenInv
  <2> QED
    BY <1>1, <1>4, <1>5, <2>1, <2>2 DEF IInv, TypeInv, TakenInv
<1> QED
  BY <1>6, <1>7, <1>8, <1>9, <1>11, <1>12, <1>13 DEF IInv

\* sock.recv() returns with the response, or with the kernel's failure report.
LEMMA SettleStep ==
  ASSUME IInv, NEW w \in Workers, NEW from \in {"answered", "given_up"}, settle(w, from)
  PROVE  IInv'
<1> DEFINE q == <<w, i[w]>>
           ok == from = "answered"
<1>1. /\ cpc # "threw" /\ wpc[w] = "recv" /\ rpc[q] = from
      /\ rpc' = [rpc EXCEPT ![q] = "gone"]
      /\ samples' = IF ok /\ i[w] >= warmup
                    THEN [samples EXCEPT ![w] = Append(samples[w], i[w])] ELSE samples
      /\ answered' = IF ok THEN answered \cup {q} ELSE answered
      /\ failed' = IF ok THEN failed ELSE failed \cup {q}
      /\ total_bytes' = total_bytes + 1
      /\ i' = [i EXCEPT ![w] = i[w] + 1] /\ wpc' = [wpc EXCEPT ![w] = "loop"]
      /\ UNCHANGED <<cpc, k, result>>
      /\ UNCHANGED <<smpc, srunning, swpc, shand, request_count, taken>>
  BY DEF settle, Alive, serverVars
<1>2. i[w] \in Nat /\ i[w] < rounds(w) /\ cpc # "done"
  BY <1>1, IsRequest DEF IInv, TypeInv, ClientInv, ResultInv
<1>3. q \in Requests /\ q[1] = w /\ q[2] = i[w]
  BY <1>2, IsRequest
<1>4. \A r \in Requests : r # q => rpc'[r] = rpc[r] /\ ~(r[1] = w /\ r[2] = i[w])
  BY <1>1, <1>2, <1>3, IsRequest DEF IInv, TypeInv
<1>5. rpc'[q] = "gone" /\ rpc[q] \notin {"none", "sent", "gone"}
  BY <1>1, <1>3 DEF IInv, TypeInv
<1>6. \A v \in Workers : /\ wpc'[v] = IF v = w THEN "loop" ELSE wpc[v]
                         /\ i'[v] = IF v = w THEN i[w] + 1 ELSE i[v]
  BY <1>1 DEF IInv, TypeInv
<1>7. q \notin answered \cup failed
  BY <1>1, <1>2, <1>3, <1>5 DEF IInv, SettledInv
<1>8. TypeInv'
  <2>1. \A s \in Seq(Nat) : \A n \in Nat : Append(s, n) \in Seq(Nat)
    OBVIOUS
  <2>2. samples' \in [Workers -> Seq(Nat)]
    BY <1>1, <1>2, <2>1 DEF IInv, TypeInv
  <2> HIDE DEF q
  <2> QED
    BY <1>1, <1>2, <1>3, <2>2 DEF IInv, TypeInv
<1> HIDE DEF q
<1>9. ClientInv'
  <2>1. \A v \in Workers : v >= k => v # w
    BY <1>1 DEF IInv, ClientInv
  <2>2. /\ \A v \in Workers : i'[v] <= rounds(v)
        /\ \A v \in Workers : wpc'[v] = "recv" => i'[v] < rounds(v)
        /\ \A v \in Workers : wpc'[v] \in {"none", "socket"} => i'[v] = 0
        /\ \A v \in Workers : v >= k => wpc'[v] = "none"
    BY <1>2, <1>6, <2>1, RoundsType DEF IInv, ClientInv
  <2>3. ASSUME NEW r \in Requests
        PROVE  /\ rpc'[r] # "none" =>
                    r[2] < i'[r[1]] \/ (r[2] = i'[r[1]] /\ wpc'[r[1]] = "recv")
               /\ rpc'[r] \notin {"none", "gone"} => r[2] = i'[r[1]] /\ wpc'[r[1]] = "recv"
               /\ r[2] = i'[r[1]] /\ wpc'[r[1]] = "recv" => rpc'[r] \notin {"none", "gone"}
    <3>1. r[1] \in Workers /\ r[2] \in Nat
      BY IsRequest
    <3>2. CASE r = q
      BY <1>2, <1>3, <1>5, <1>6, <3>2
    <3>3. CASE r # q /\ r[1] # w
      BY <1>4, <1>6, <3>1, <3>3 DEF IInv, ClientInv
    <3>4. CASE r # q /\ r[1] = w
      <4>1. rpc'[r] = rpc[r] /\ r[2] # i[w] /\ i'[w] = i[w] + 1 /\ wpc'[w] = "loop"
        BY <1>4, <1>6, <3>4
      <4>2. rpc[r] # "none" => r[2] < i[w]
        BY <3>4, <4>1 DEF IInv, ClientInv
      <4>3. rpc[r] \in {"none", "gone"}
        BY <3>4, <4>1 DEF IInv, ClientInv
      <4> QED
        BY <1>2, <3>1, <3>4, <4>1, <4>2, <4>3
    <3> QED
      BY <3>2, <3>3, <3>4
  <2> QED
    BY <1>1, <2>2, <2>3 DEF ClientInv
<1>10. SettledInv'
  <2>1. \A r \in Requests : r[2] < i'[r[1]] <=> r[2] < i[r[1]] \/ r = q
    <3> SUFFICES ASSUME NEW r \in Requests
                 PROVE  r[2] < i'[r[1]] <=> r[2] < i[r[1]] \/ r = q
      OBVIOUS
    <3>1. r[1] \in Workers /\ r[2] \in Nat
      BY IsRequest
    <3>2. CASE r[1] = w
      BY <1>2, <1>3, <1>4, <1>6, <3>1, <3>2
    <3>3. CASE r[1] # w
      BY <1>3, <1>6, <3>1, <3>3
    <3> QED
      BY <3>2, <3>3
  <2>2. \A v \in Workers : wpc'[v] = "exited" <=> wpc[v] = "exited"
    BY <1>1, <1>6
  <2>3. answered' \cup failed' = answered \cup failed \cup {q} /\ answered' \cap failed' = {}
    BY <1>1, <1>7 DEF IInv, SettledInv
  <2>4. answered \subseteq Requests /\ failed \subseteq Requests
    BY DEF IInv, TypeInv
  <2>5. answered' \subseteq answered \cup {q} /\ failed' \subseteq failed \cup {q}
    BY <1>1
  <2>6. \A r \in answered' : r[2] < i'[r[1]] /\ rpc'[r] = "gone"
    BY <1>3, <1>4, <1>5, <2>1, <2>4, <2>5 DEF IInv, SettledInv
  <2>7. \A r \in failed' : r[2] < i'[r[1]] \/ wpc'[r[1]] = "exited"
    BY <1>3, <2>1, <2>2, <2>4, <2>5, IsRequest DEF IInv, SettledInv
  <2>8. \A r \in Requests :
          r[2] < i'[r[1]] \/ wpc'[r[1]] = "exited" => r \in answered' \cup failed'
    BY <2>1, <2>2, <2>3, IsRequest DEF IInv, SettledInv
  <2> QED
    BY <2>3, <2>6, <2>7, <2>8 DEF SettledInv
<1>11. SampledInv'
  <2> SUFFICES ASSUME NEW v \in Workers
               PROVE  Range(samples'[v]) = {n \in Nat : <<v, n>> \in answered' /\ warmup <= n}
    BY DEF SampledInv
  <2>1. Range(samples[v]) = {n \in Nat : <<v, n>> \in answered /\ warmup <= n}
    BY DEF IInv, SampledInv
  <2>2. \A n : <<v, n>> = q <=> v = w /\ n = i[w]
    BY DEF q
  <2>3. CASE ok /\ i[w] >= warmup /\ v = w
    <3>1. \A s \in Seq(Nat) : \A n \in Nat : Range(Append(s, n)) = Range(s) \cup {n}
      <4> SUFFICES ASSUME NEW s \in Seq(Nat), NEW n \in Nat
                   PROVE  Range(Append(s, n)) = Range(s) \cup {n}
        OBVIOUS
      <4> DEFINE t == Append(s, n)
      <4>1. /\ Len(s) \in Nat /\ DOMAIN s = 1 .. Len(s) /\ DOMAIN t = 1 .. Len(s) + 1
            /\ t[Len(s) + 1] = n /\ \A m \in 1 .. Len(s) : t[m] = s[m]
        OBVIOUS
      <4> HIDE DEF t
      <4>2. DOMAIN t = DOMAIN s \cup {Len(s) + 1}
        BY <4>1
      <4> QED
        BY <4>1, <4>2 DEF Range, t
    <3>2. samples[w] \in Seq(Nat) /\ samples'[w] = Append(samples[w], i[w])
      BY <1>1, <2>3 DEF IInv, TypeInv
    <3>3. Range(samples'[w]) = Range(samples[w]) \cup {i[w]}
      BY <1>2, <3>1, <3>2
    <3>4. answered' = answered \cup {q}
      BY <1>1, <2>3
    <3>5. \A n \in Nat : <<v, n>> \in answered' <=> <<v, n>> \in answered \/ n = i[w]
      BY <2>2, <2>3, <3>4
    <3>6. i[w] \in Nat /\ warmup <= i[w]
      BY <1>2, <2>3, RoundsType
    <3> HIDE DEF ok
    <3> QED
      BY <2>1, <2>3, <3>3, <3>5, <3>6
  <2>4. CASE ~(ok /\ i[w] >= warmup /\ v = w)
    <3>1. samples'[v] = samples[v]
      BY <1>1, <2>4 DEF IInv, TypeInv
    <3>2. \A n \in Nat : warmup <= n => (<<v, n>> \in answered' <=> <<v, n>> \in answered)
      BY <1>1, <1>2, <2>2, <2>4, RoundsType
    <3> QED
      BY <2>1, <3>1, <3>2
  <2> QED
    BY <2>3, <2>4
<1>12. BytesInv'
  <2>1. Gone' = Gone \cup {q} /\ q \notin Gone
    BY <1>3, <1>4, <1>5 DEF Gone
  <2>2. Cardinality(Gone') = Cardinality(Gone) + 1
    BY <2>1, CountedFinite, FS_AddElement DEF IInv
  <2> QED
    BY <1>1, <2>2 DEF IInv, BytesInv
<1>13. ResultInv'
  BY <1>1, <1>2 DEF IInv, ResultInv
<1>14. ServerInv'
  BY <1>1 DEF IInv, ServerInv
<1>15. TakenInv'
  <2>1. Counted' = Counted
    BY <1>1 DEF Counted, Uncounted
  <2>2. ok => q \in Counted
    BY <1>1, <1>3 DEF IInv, TakenInv
  <2>3. answered' \subseteq Counted
    BY <1>1, <2>2 DEF IInv, TakenInv
  <2> QED
    BY <1>1, <1>4, <1>5, <2>1, <2>3 DEF IInv, TypeInv, TakenInv
<1> QED
  BY <1>8, <1>9, <1>10, <1>11, <1>12, <1>13, <1>14, <1>15 DEF IInv

\* The kernel or the server moves an RPC that is under way: nothing changes
\* for the client until its worker looks.
LEMMA ClientAsBefore ==
  ASSUME IInv, UNCHANGED clientVars,
         \/ rpc' = rpc
         \/ \E r \in Requests, to \in {"taken", "answered", "given_up"} :
              rpc[r] \notin {"none", "gone"} /\ rpc' = [rpc EXCEPT ![r] = to]
  PROVE  /\ ClientInv' /\ SettledInv' /\ SampledInv' /\ BytesInv' /\ ResultInv'
         /\ rpc' \in [Requests -> {"none", "sent", "taken", "answered", "given_up", "gone"}]
<1>1. UNCHANGED <<cpc, k, wpc, i, samples, total_bytes, result, answered, failed>>
  BY DEF clientVars
<1>2. /\ \A r \in Requests : rpc'[r] = "none" <=> rpc[r] = "none"
      /\ \A r \in Requests : rpc'[r] = "gone" <=> rpc[r] = "gone"
      /\ rpc' \in [Requests -> {"none", "sent", "taken", "answered", "given_up", "gone"}]
  BY DEF IInv, TypeInv
<1>3. ClientInv'
  BY <1>1, <1>2 DEF IInv, ClientInv
<1>4. SettledInv' /\ SampledInv' /\ ResultInv'
  BY <1>1, <1>2 DEF IInv, TypeInv, SettledInv, SampledInv, ResultInv
<1>5. Gone' = Gone
  BY <1>2 DEF Gone
<1>6. BytesInv'
  BY <1>1, <1>5 DEF IInv, BytesInv
<1> QED
  BY <1>2, <1>3, <1>4, <1>6

\* Homa gives an RPC up.
LEMMA GiveUpStep == ASSUME IInv, NEW r \in Requests, give_up(r) PROVE IInv'
<1>1. /\ rpc[r] \in {"sent", "taken"} /\ rpc' = [rpc EXCEPT ![r] = "given_up"]
      /\ UNCHANGED clientVars
      /\ UNCHANGED <<smpc, srunning, swpc, shand, request_count, taken>>
  BY DEF give_up, serverVars
<1>2. /\ ClientInv' /\ SettledInv' /\ SampledInv' /\ BytesInv' /\ ResultInv'
      /\ rpc' \in [Requests -> {"none", "sent", "taken", "answered", "given_up", "gone"}]
  BY <1>1, ClientAsBefore
<1>3. TypeInv'
  BY <1>1, <1>2 DEF IInv, TypeInv, clientVars
<1>4. ServerInv'
  BY <1>1 DEF IInv, ServerInv
<1>5. Counted' = Counted
  BY <1>1 DEF Counted, Uncounted
<1>6. TakenInv'
  BY <1>1, <1>5 DEF IInv, TypeInv, TakenInv, clientVars
<1> QED
  BY <1>2, <1>3, <1>4, <1>6 DEF IInv

\* run_server(): start(), stop() and the joins.
LEMMA ServerMainStep == IInv /\ ServerMain => IInv'
<1> SUFFICES ASSUME IInv, ServerMain PROVE IInv'
  OBVIOUS
<1>1. UNCHANGED clientVars /\ UNCHANGED <<rpc, shand, request_count, taken>>
      /\ \/ /\ smpc = "start" /\ smpc' = "serve" /\ swpc' = [t \in Threads |-> "loop"]
         \/ /\ smpc = "start" /\ smpc' = "threw" /\ swpc' = swpc
         \/ /\ smpc = "serve" /\ smpc' = "join" /\ swpc' = swpc
         \/ /\ smpc = "join" /\ smpc' = "stopped" /\ swpc' = swpc
            /\ \A t \in Threads : swpc[t] = "exited"
  BY DEF ServerMain, Server!Main, Server!start, Server!start_throws, Server!stop,
     Server!join, Server!workerVars
<1>2. ClientInv' /\ SettledInv' /\ SampledInv' /\ BytesInv' /\ ResultInv'
  BY <1>1, ClientAsBefore
<1>3. TypeInv'
  BY <1>1 DEF IInv, TypeInv, clientVars
<1>4. ServerInv'
  BY <1>1 DEF IInv, ServerInv
<1>5. Counted' = Counted
  <2>1. \A t \in Threads : swpc'[t] = "count" <=> swpc[t] = "count"
    BY <1>1 DEF IInv, ServerInv
  <2> QED
    BY <1>1, <2>1 DEF Counted, Uncounted
<1>6. TakenInv'
  BY <1>1, <1>5 DEF IInv, TakenInv, clientVars
<1> QED
  BY <1>2, <1>3, <1>4, <1>6 DEF IInv

\* A thread of the server looks at running_, or finds nothing.
LEMMA ServerIdleStep ==
  ASSUME IInv, NEW t \in Threads, UNCHANGED clientVars,
         Server!check(t) \/ Server!recv_nothing(t)
  PROVE  IInv'
<1>1. /\ UNCHANGED <<rpc, shand, request_count, taken, smpc, srunning>>
      /\ swpc[t] \in {"loop", "recv"}
      /\ \E to \in {"loop", "recv", "exited"} : swpc' = [swpc EXCEPT ![t] = to]
  BY DEF Server!check, Server!recv_nothing, Server!mainVars
<1>2. ClientInv' /\ SettledInv' /\ SampledInv' /\ BytesInv' /\ ResultInv'
  BY <1>1, ClientAsBefore
<1>3. TypeInv'
  BY <1>1 DEF IInv, TypeInv, clientVars
<1>4. \A u \in Threads : u # t => swpc'[u] = swpc[u]
  BY <1>1 DEF IInv, TypeInv
<1>5. swpc'[t] \in {"loop", "recv", "exited"}
  BY <1>1 DEF IInv, TypeInv
<1>6. ServerInv'
  BY <1>1, <1>4, <1>5 DEF IInv, ServerInv
<1>7. Counted' = Counted
  <2>1. \A u \in Threads : swpc'[u] = "count" <=> swpc[u] = "count"
    BY <1>1, <1>4, <1>5
  <2> QED
    BY <1>1, <2>1 DEF Counted, Uncounted
<1>8. TakenInv'
  BY <1>1, <1>7 DEF IInv, TakenInv, clientVars
<1> QED
  BY <1>2, <1>3, <1>6, <1>8 DEF IInv

\* socket_.recv() of a thread: the request is nobody else's.
LEMMA RecvRequestStep ==
  ASSUME IInv, NEW t \in Threads, UNCHANGED clientVars, Server!recv_request(t)
  PROVE  IInv'
<1>1. PICK r \in Requests :
        /\ rpc[r] = "sent" /\ rpc' = [rpc EXCEPT ![r] = "taken"]
        /\ shand' = [shand EXCEPT ![t] = {r}] /\ taken' = taken \cup {r}
        /\ swpc[t] = "recv" /\ swpc' = [swpc EXCEPT ![t] = "count"]
        /\ UNCHANGED <<request_count, smpc, srunning>>
  BY DEF Server!recv_request, Server!mainVars
<1>2. r \notin taken /\ \A u \in Threads : r \notin shand[u]
  BY <1>1 DEF IInv, TakenInv, ServerInv
<1>3. /\ ClientInv' /\ SettledInv' /\ SampledInv' /\ BytesInv' /\ ResultInv'
      /\ rpc' \in [Requests -> {"none", "sent", "taken", "answered", "given_up", "gone"}]
  BY <1>1, ClientAsBefore
<1>4. TypeInv'
  BY <1>1, <1>3 DEF IInv, TypeInv, clientVars
<1>5. \A u \in Threads : /\ swpc'[u] = IF u = t THEN "count" ELSE swpc[u]
                         /\ shand'[u] = IF u = t THEN {r} ELSE shand[u]
  BY <1>1 DEF IInv, TypeInv
<1>6. ServerInv'
  <2>1. smpc # "start" /\ smpc # "stopped"
    BY <1>1 DEF IInv, ServerInv
  <2> QED
    BY <1>1, <1>2, <1>5, <2>1 DEF IInv, ServerInv
<1>7. Counted' = Counted
  <2>1. shand[t] = {}
    BY <1>1 DEF IInv, ServerInv
  <2> QED
    BY <1>1, <1>2, <1>5, <2>1 DEF Counted, Uncounted
<1>8. TakenInv'
  <2>1. \A q \in Requests : q # r => rpc'[q] = rpc[q]
    BY <1>1 DEF IInv, TypeInv
  <2>2. rpc'[r] = "taken"
    BY <1>1 DEF IInv, TypeInv
  <2> QED
    BY <1>1, <1>7, <2>1, <2>2 DEF IInv, TypeInv, TakenInv, clientVars
<1> QED
  BY <1>3, <1>4, <1>6, <1>8 DEF IInv

\* request_count_ is increased for the request at hand.
LEMMA CountStep ==
  ASSUME IInv, NEW t \in Threads, UNCHANGED clientVars, Server!count(t)
  PROVE  IInv'
<1>1. /\ swpc[t] = "count" /\ swpc' = [swpc EXCEPT ![t] = "reply"]
      /\ request_count' = request_count + 1
      /\ UNCHANGED <<rpc, shand, taken, smpc, srunning>>
  BY DEF Server!count, Server!mainVars
<1>2. PICK r \in shand[t] : shand[t] = {r}
  BY <1>1 DEF IInv, ServerInv
<1>3. r \in taken /\ \A u \in Threads : u # t => r \notin shand[u]
  BY <1>2 DEF IInv, ServerInv
<1>4. ClientInv' /\ SettledInv' /\ SampledInv' /\ BytesInv' /\ ResultInv'
  BY <1>1, ClientAsBefore
<1>5. TypeInv'
  BY <1>1 DEF IInv, TypeInv, clientVars
<1>6. \A u \in Threads : swpc'[u] = IF u = t THEN "reply" ELSE swpc[u]
  BY <1>1 DEF IInv, TypeInv
<1>7. ServerInv'
  BY <1>1, <1>6 DEF IInv, ServerInv
<1>8. Counted' = Counted \cup {r} /\ r \notin Counted
  BY <1>1, <1>2, <1>3, <1>6 DEF Counted, Uncounted
<1>9. Cardinality(Counted') = Cardinality(Counted) + 1
  BY <1>8, CountedFinite, FS_AddElement DEF IInv
<1>10. TakenInv'
  BY <1>1, <1>8, <1>9 DEF IInv, TakenInv, clientVars
<1> QED
  BY <1>4, <1>5, <1>7, <1>10 DEF IInv

\* socket_.send_response(), whether or not there is a response then.
LEMMA SendResponseStep ==
  ASSUME IInv, NEW t \in Threads, UNCHANGED clientVars, Server!send_response(t)
  PROVE  IInv'
<1>1. /\ swpc[t] = "reply" /\ swpc' = [swpc EXCEPT ![t] = "loop"]
      /\ shand' = [shand EXCEPT ![t] = {}]
      /\ \/ \E r \in shand[t] : rpc[r] = "taken" /\ rpc' = [rpc EXCEPT ![r] = "answered"]
         \/ rpc' = rpc
      /\ UNCHANGED <<request_count, taken, smpc, srunning>>
  BY DEF Server!send_response, Server!mainVars
<1>2. shand[t] \subseteq Requests /\ shand[t] \subseteq taken
  BY DEF IInv, TypeInv, ServerInv
<1>3. /\ ClientInv' /\ SettledInv' /\ SampledInv' /\ BytesInv' /\ ResultInv'
      /\ rpc' \in [Requests -> {"none", "sent", "taken", "answered", "given_up", "gone"}]
  BY <1>1, <1>2, ClientAsBefore DEF IInv, TypeInv
<1>4. TypeInv'
  BY <1>1, <1>3 DEF IInv, TypeInv, clientVars
<1>5. \A u \in Threads : /\ swpc'[u] = IF u = t THEN "loop" ELSE swpc[u]
                         /\ shand'[u] = IF u = t THEN {} ELSE shand[u]
  BY <1>1 DEF IInv, TypeInv
<1>6. ServerInv'
  BY <1>1, <1>5 DEF IInv, ServerInv
<1>7. Counted' = Counted
  BY <1>1, <1>5 DEF Counted, Uncounted
<1>8. \A r \in shand[t] : r \in Counted
  BY <1>1, <1>2 DEF IInv, ServerInv, Counted, Uncounted
<1>9. TakenInv'
  <2>1. \A r \in Requests : \/ rpc'[r] = rpc[r]
                            \/ r \in shand[t] /\ rpc'[r] = "answered"
    BY <1>1, <1>2 DEF IInv, TypeInv
  <2> QED
    BY <1>1, <1>7, <1>8, <2>1 DEF IInv, TypeInv, TakenInv, clientVars
<1> QED
  BY <1>3, <1>4, <1>6, <1>9 DEF IInv

\* Every step of client, server and transport keeps the invariant.
LEMMA StepIInv == IInv /\ [Next]_vars => IInv'
<1> SUFFICES ASSUME IInv, [Next]_vars PROVE IInv'
  OBVIOUS
<1>1. CASE Main
  BY <1>1, SpawnStep, JoinStep DEF Main
<1>2. CASE \E w \in Workers : Worker(w)
  <2>1. PICK w \in Workers : Worker(w)
    BY <1>2
  <2>2. CASE recv_response(w) \/ recv_fails(w)
    BY <2>2, SettleStep DEF recv_response, recv_fails
  <2> QED
    BY <2>1, <2>2, SocketStep, NoSendStep, SendStep DEF Worker
<1>3. CASE \E r \in Requests : give_up(r)
  BY <1>3, GiveUpStep
<1>4. CASE ServerMain
  BY <1>4, ServerMainStep
<1>5. CASE \E t \in Threads : ServerWorker(t)
  BY <1>5, ServerIdleStep, RecvRequestStep, CountStep, SendResponseStep
  DEF ServerWorker, Server!Worker
<1>6. CASE UNCHANGED vars
  <2>1. UNCHANGED clientVars /\ UNCHANGED <<rpc, answered, serverVars>>
    BY <1>6 DEF vars, clientVars
  <2>2. ClientInv' /\ SettledInv' /\ SampledInv' /\ BytesInv' /\ ResultInv'
    BY <2>1, ClientAsBefore
  <2>3. ServerInv' /\ TakenInv'
    BY <2>1, ServerAsBefore
  <2>4. TypeInv'
    BY <2>1 DEF IInv, TypeInv, clientVars, serverVars
  <2> QED
    BY <2>2, <2>3, <2>4 DEF IInv
<1> QED
  BY <1>1, <1>2, <1>3, <1>4, <1>5, <1>6 DEF Next, Terminated, Hung

\* The invariant holds in every behaviour of the client and its server.
THEOREM Invariance == Spec => []IInv
BY InitIInv, StepIInv, PTL DEF Spec

-----------------------------------------------------------------------------
\* What run_closed_loop has answers for its HomaServer has counted, and the
\* server has counted nothing that is not in the client's result.
LEMMA Counts == IInv => CountsAgree
<1> SUFFICES ASSUME IInv PROVE CountsAgree
  OBVIOUS
<1>1. IsFiniteSet(Counted) /\ IsFiniteSet(Gone) /\ request_count = Cardinality(Counted)
  BY CountedFinite DEF IInv, TakenInv
<1>2. Cardinality(answered) <= request_count
  <2>1. answered \subseteq Counted
    BY DEF IInv, TakenInv
  <2> QED
    BY <1>1, <2>1, FS_Subset
<1>3. ASSUME result # NoResult PROVE request_count <= result[1].total_bytes
  <2>1. cpc = "done" /\ \A w \in Workers : wpc[w] = "exited"
    BY <1>3 DEF IInv, ResultInv
  <2>2. \A r \in Requests : rpc[r] \in {"none", "gone"}
    BY <2>1, IsRequest DEF IInv, ClientInv
  <2>3. Counted \subseteq Gone
    BY <2>2 DEF IInv, TypeInv, TakenInv, Counted, Gone
  <2>4. Cardinality(Counted) <= Cardinality(Gone)
    BY <1>1, <2>3, FS_Subset
  <2> QED
    BY <1>1, <2>1, <2>4 DEF IInv, ResultInv, BytesInv
<1> QED
  BY <1>2, <1>3 DEF CountsAgree

\* The counters of HomaClient and HomaServer agree, on any number of threads.
THEOREM ProgramsAgree == Spec => []CountsAgree
BY Counts, Invariance, PTL

\* HomaServer::stop() drops nothing that a worker_loop() has received.
THEOREM StopIsClean == Spec => []StopFinishesRequests
<1>1. IInv => StopFinishesRequests
  <2> SUFFICES ASSUME IInv, smpc = "stopped" PROVE StopFinishesRequests
    BY DEF StopFinishesRequests
  <2>1. \A t \in Threads : swpc[t] = "exited" /\ shand[t] = {}
    BY DEF IInv, ServerInv
  <2>2. Counted = taken
    BY <2>1 DEF Counted, Uncounted
  <2> QED
    BY <2>1, <2>2 DEF IInv, TakenInv, StopFinishesRequests
<1> QED
  BY <1>1, Invariance, PTL

-----------------------------------------------------------------------------
\* The refinement of BenchmarkRun.

\* The requests that a worker waits for.
Issued == {<<w, i[w]>> : w \in {v \in Workers : wpc[v] = "recv"}}

\* What the abstract run has issued are the requests that workers wait for.
LEMMA IsIssued ==
  ASSUME IInv
  PROVE  /\ Issued \subseteq Requests
         /\ \A r \in Requests : r \in Issued <=> r[2] = i[r[1]] /\ wpc[r[1]] = "recv"
         /\ Issued \cap (answered \cup failed) = {}
<1>1. Issued \subseteq Requests
  BY IsRequest DEF Issued, IInv, TypeInv, ClientInv
<1>2. ASSUME NEW r \in Requests
      PROVE  r \in Issued <=> r[2] = i[r[1]] /\ wpc[r[1]] = "recv"
  <2>1. r[1] \in Workers /\ r = <<r[1], r[2]>>
    BY IsRequest
  <2> QED
    BY <2>1 DEF Issued
<1>3. Issued \cap (answered \cup failed) = {}
  <2> SUFFICES ASSUME NEW r \in Issued, r \in answered \cup failed PROVE FALSE
    OBVIOUS
  <2>1. r \in Requests /\ r[1] \in Workers /\ r[2] = i[r[1]] /\ wpc[r[1]] = "recv"
    BY <1>1, <1>2, IsRequest
  <2>2. i[r[1]] \in Nat
    BY <2>1 DEF IInv, TypeInv
  <2> QED
    BY <2>1, <2>2 DEF IInv, SettledInv
<1> QED
  BY <1>1, <1>2, <1>3

\* A step that changes neither a worker's wait nor what is settled.
LEMMA StutterStep ==
  ASSUME IInv, IInv', UNCHANGED <<answered, failed, result>>,
         \A w \in Workers : /\ wpc'[w] = "recv" <=> wpc[w] = "recv"
                            /\ wpc[w] = "recv" => i'[w] = i[w]
  PROVE  UNCHANGED Run!vars
<1>1. Issued' = Issued
  BY DEF Issued
<1> QED
  BY <1>1 DEF Run!vars, Issued

\* Every step of the two programs is one of the abstract run, or none.
LEMMA RefinementStep == IInv /\ IInv' /\ [Next]_vars => [Run!Next]_(Run!vars)
<1> SUFFICES ASSUME IInv, IInv', [Next]_vars PROVE [Run!Next]_(Run!vars)
  OBVIOUS
<1>1. UNCHANGED clientVars => UNCHANGED Run!vars
  BY DEF clientVars, Run!vars
<1>2. CASE spawn
  <2>1. k \in Workers /\ wpc[k] = "none" /\ wpc' = [wpc EXCEPT ![k] = "socket"]
        /\ UNCHANGED <<i, answered, failed, result>>
    BY <1>2, ConcurrencyAssumption DEF spawn, IInv, TypeInv, ClientInv, Workers
  <2>2. \A w \in Workers : wpc'[w] = "recv" <=> wpc[w] = "recv"
    BY <2>1 DEF IInv, TypeInv
  <2> QED
    BY <2>1, <2>2, StutterStep
<1>3. CASE join
  <2>1. /\ \A w \in Workers : wpc[w] = "exited"
        /\ result = NoResult /\ result' # NoResult /\ result'[1].latency = answered \ Warm
        /\ UNCHANGED <<wpc, i, answered, failed>>
    BY <1>3 DEF join, IInv, ResultInv
  <2>2. answered \cup failed = Requests
    BY <2>1, AllMeasured
  <2>3. Run!Report
    BY <2>1, <2>2 DEF Run!Report, Run!NoReport
  <2> QED
    BY <2>3 DEF Run!Next
<1>4. ASSUME NEW w \in Workers, Worker(w) PROVE [Run!Next]_(Run!vars)
  <2>1. CASE open_socket(w) \/ resolve_throws(w) \/ leave(w)
    <3>1. /\ wpc[w] \in {"socket", "loop"} /\ UNCHANGED <<i, answered, failed, result>>
          /\ \/ wpc' = wpc \/ wpc' = [wpc EXCEPT ![w] = "loop"]
             \/ wpc' = [wpc EXCEPT ![w] = "exited"]
      BY <2>1 DEF open_socket, resolve_throws, leave
    <3>2. \A v \in Workers : wpc'[v] = "recv" <=> wpc[v] = "recv"
      BY <3>1 DEF IInv, TypeInv
    <3> QED
      BY <3>1, <3>2, StutterStep
  <2>2. CASE no_socket(w)
    <3>1. /\ cpc # "threw" /\ wpc[w] = "socket" /\ wpc' = [wpc EXCEPT ![w] = "exited"]
          /\ failed' = failed \cup Share(w) /\ UNCHANGED <<i, answered, result>>
      BY <2>2 DEF no_socket, Alive
    <3>2. Issued' = Issued
      BY <3>1 DEF IInv, TypeInv, Issued
    <3>3. Share(w) = {r \in Requests : r[1] = w} /\ i[w] = 0
      BY <3>1, ShareOf DEF IInv, ClientInv
    <3>4. result = NoResult
      BY <3>1 DEF IInv, ResultInv
    <3>5. (failed' \ failed) \cap (Issued \cup answered) = {}
      <4>1. Issued \subseteq Requests /\ answered \subseteq Requests
        BY IsIssued DEF IInv, TypeInv
      <4>2. ASSUME NEW r \in Requests, r[1] = w PROVE r \notin Issued /\ r \notin answered
        BY <3>1, <3>3, <4>2, IsIssued, IsRequest DEF IInv, SettledInv
      <4> QED
        BY <3>1, <3>3, <4>1, <4>2
    <3>6. failed' \subseteq Requests
      BY DEF IInv, TypeInv
    <3>7. Run!Abandon
      BY <3>1, <3>2, <3>4, <3>5, <3>6 DEF Run!Abandon, Run!NoReport, Issued
    <3> QED
      BY <3>7 DEF Run!Next
  <2>3. CASE send_fails(w)
    <3> DEFINE q == <<w, i[w]>>
    <3>1. /\ cpc # "threw" /\ wpc[w] = "loop" /\ failed' = failed \cup {q}
          /\ i[w] < rounds(w) /\ i' = [i EXCEPT ![w] = @ + 1]
          /\ UNCHANGED <<wpc, answered, result>>
      BY <2>3 DEF send_fails, Alive
    <3>2. Issued' = Issued
      BY <3>1 DEF IInv, TypeInv, Issued
    <3>3. q \in Requests /\ q[1] = w /\ q[2] = i[w] /\ i[w] \in Nat
      BY <3>1, IsRequest DEF IInv, TypeInv
    <3>4. result = NoResult
      BY <3>1 DEF IInv, ResultInv
    <3>5. q \notin Issued \cup answered
      BY <3>1, <3>3, IsIssued DEF IInv, SettledInv
    <3>6. failed' \subseteq Requests
      BY DEF IInv, TypeInv
    <3>7. Run!Abandon
      BY <3>1, <3>2, <3>4, <3>5, <3>6 DEF Run!Abandon, Run!NoReport, Issued
    <3> QED
      BY <3>7 DEF Run!Next
  <2>4. CASE send_request(w)
    <3> DEFINE q == <<w, i[w]>>
    <3>1. /\ cpc # "threw" /\ wpc[w] = "loop" /\ i[w] < rounds(w)
          /\ wpc' = [wpc EXCEPT ![w] = "recv"]
          /\ UNCHANGED <<i, answered, failed, result>>
      BY <2>4 DEF send_request, Alive
    <3>2. Issued' = Issued \cup {q}
      BY <3>1 DEF IInv, TypeInv, Issued
    <3>3. q \in Requests /\ q[1] = w /\ q[2] = i[w] /\ i[w] \in Nat
      BY <3>1, IsRequest DEF IInv, TypeInv
    <3>4. result = NoResult
      BY <3>1 DEF IInv, ResultInv
    <3>5. q \notin Issued \cup answered \cup failed
      BY <3>1, <3>3, IsIssued DEF IInv, SettledInv
    <3>6. PICK r \in Requests : r = q
      BY <3>3
    <3> HIDE DEF q
    <3>7. Run!Issue(r)
      BY <3>1, <3>2, <3>4, <3>5, <3>6 DEF Run!Issue, Run!NoReport, Issued
    <3> QED
      BY <3>7 DEF Run!Next
  <2>5. CASE recv_response(w) \/ recv_fails(w)
    <3> DEFINE q == <<w, i[w]>>
    <3>1. PICK from \in {"answered", "given_up"} : settle(w, from)
      BY <2>5 DEF recv_response, recv_fails
    <3>2. /\ wpc[w] = "recv" /\ wpc' = [wpc EXCEPT ![w] = "loop"]
          /\ i' = [i EXCEPT ![w] = i[w] + 1] /\ result' = result
          /\ answered' = IF from = "answered" THEN answered \cup {q} ELSE answered
          /\ failed' = IF from = "answered" THEN failed ELSE failed \cup {q}
      BY <3>1 DEF settle
    <3>3. \A v \in Workers : /\ wpc'[v] = IF v = w THEN "loop" ELSE wpc[v]
                             /\ v # w => i'[v] = i[v]
      BY <3>2 DEF IInv, TypeInv
    <3>4. Issued' = Issued \ {q} /\ q \in Issued
      <4>1. Issued' = {<<v, i'[v]>> : v \in {u \in Workers : wpc'[u] = "recv"}}
        BY DEF Issued
      <4>2. \A v \in Workers : <<v, i[v]>> = q <=> v = w
        OBVIOUS
      <4>3. {u \in Workers : wpc'[u] = "recv"} = {u \in Workers : wpc[u] = "recv"} \ {w}
        BY <3>3
      <4> QED
        BY <3>2, <3>3, <4>1, <4>2, <4>3 DEF Issued
    <3>5. PICK r \in Requests : r = q
      BY <3>4, IsIssued
    <3> HIDE DEF q
    <3>6. Run!Answer(r) \/ Run!Fail(r)
      BY <3>2, <3>4, <3>5 DEF Run!Answer, Run!Fail, Issued
    <3> QED
      BY <3>6 DEF Run!Next
  <2> QED
    BY <1>4, <2>1, <2>2, <2>3, <2>4, <2>5 DEF Worker
<1>5. CASE UNCHANGED clientVars
  BY <1>1, <1>5
<1> QED
  BY <1>2, <1>3, <1>4, <1>5 DEF Next, Main, give_up, ServerMain, ServerWorker, Terminated,
     Hung, vars

\* Whatever HomaClient and HomaServer do, the run is one that BenchmarkRun
\* allows: every request is settled once, and the result has just the answered
\* ones that are not warm-up.
THEOREM ClosedLoopRefines == Spec => ImplementsBenchmarkRun
<1>1. Init => Run!Init
  BY DEF Init, Run!Init, Run!NoReport
<1>2. IInv /\ IInv' /\ [Next]_vars => [Run!Next]_(Run!vars)
  BY RefinementStep
<1> QED
  BY <1>1, <1>2, Invariance, PTL DEF Spec, ImplementsBenchmarkRun, Run!Spec
=============================================================================
