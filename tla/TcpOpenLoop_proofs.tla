------------------------- MODULE TcpOpenLoop_proofs ------------------------
(***************************************************************************)
(* TcpOpenLoop for any pool, any policy and any number of requests.        *)
(***************************************************************************)
EXTENDS TcpOpenLoop, SequenceTheorems, TLAPS

-----------------------------------------------------------------------------
\* The steps of the queue and of its worker, on plain sequences.

\* A push at the end of the queue is a push at the end of the whole.
LEMMA PushLast ==
  ASSUME NEW S, NEW s \in Seq(S), NEW h \in Seq(S), NEW q \in Seq(S), NEW e \in S
  PROVE  s \o h \o Append(q, e) = Append(s \o h \o q, e)
  OBVIOUS

\* A pop moves the queue's first request into the empty hand.
LEMMA PopFirst ==
  ASSUME NEW S, NEW s \in Seq(S), NEW q \in Seq(S), q # <<>>
  PROVE  s \o <<>> \o q = s \o <<Head(q)>> \o Tail(q)
  OBVIOUS

\* A hand with one request.
LEMMA OneInHand ==
  ASSUME NEW S, NEW h \in Seq(S), Len(h) = 1
  PROVE  h[1] \in S /\ h = <<h[1]>>
<1>1. h[1] \in S
  OBVIOUS
<1> QED
  BY <1>1

\* A settled request goes from the hand to the end of what is served.
LEMMA ServeHand ==
  ASSUME NEW S, NEW s \in Seq(S), NEW h \in Seq(S), NEW q \in Seq(S), Len(h) = 1
  PROVE  s \o h \o q = Append(s, h[1]) \o <<>> \o q
<1>1. h[1] \in S
  BY OneInHand
<1>2. h = <<h[1]>>
  BY OneInHand
<1>3. ASSUME NEW e \in S
      PROVE  s \o <<e>> \o q = Append(s, e) \o <<>> \o q
  OBVIOUS
<1> QED
  BY <1>1, <1>2, <1>3

\* total is a uint32_t.
LEMMA TotalIsNat == total \in Nat
BY RequestsAssumption, CounterAssumption DEF total

\* rr_counter_ wraps as a uint32_t does.
LEMMA CounterInRange ==
  ASSUME NEW c \in 0 .. CounterMod - 1, NEW p
  PROVE  fetch_add(p, c) \in 0 .. CounterMod - 1
BY CounterAssumption DEF fetch_add

\* select() returns an index of the pool, unless it traps.
LEMMA SelectInPool ==
  ASSUME NEW p \in Policies, NEW c \in 0 .. CounterMod - 1, NEW size \in Nat,
         ~SelectTraps(p, size)
  PROVE  select(p, c, size) \subseteq Conns
BY PoolAssumption, CounterAssumption
DEF select, SelectTraps, Policies, round_robin, size_aware, random_select,
    SmallPool, LargePool, IsLarge, SizeThreshold, Conns

\* size_aware() sends the large messages, and only them, to the connections
\* from SmallPool on.
LEMMA SizeAwareSplits ==
  ASSUME NEW c \in 0 .. CounterMod - 1, NEW size \in Nat,
         ~SelectTraps("size_aware", size), NEW w \in select("size_aware", c, size)
  PROVE  IsLarge(size) <=> w >= SmallPool
BY PoolAssumption, CounterAssumption
DEF select, SelectTraps, size_aware, SmallPool, LargePool, IsLarge, SizeThreshold

\* The two outcomes of a dispatch.
pushes ==
  /\ dpc = "dispatch" /\ i < total
  /\ \E size \in Sizes :
       /\ ~SelectTraps(policy, size)
       /\ \E w \in select(policy, rr_counter, size) :
            /\ queue' = [queue EXCEPT ![w] = Append(@, NewRequest(size))]
            /\ pushed' = [pushed EXCEPT ![w] = Append(@, NewRequest(size))]
  /\ rr_counter' = fetch_add(policy, rr_counter)
  /\ i' = i + 1
  /\ UNCHANGED <<dpc, k, running, result, workerVars, memberVars>>

traps ==
  /\ dpc = "dispatch" /\ dpc' = "trapped"
  /\ UNCHANGED <<k, i, rr_counter, running, result>>
  /\ UNCHANGED <<workerVars, queueVars, memberVars>>

\* A dispatch does one or the other.
LEMMA DispatchCases == dispatch => pushes \/ traps
<1> SUFFICES ASSUME dispatch PROVE pushes \/ traps
  OBVIOUS
<1>1. PICK size \in Sizes : IF SelectTraps(policy, size) THEN trap ELSE push(size)
  BY DEF dispatch
<1>2. CASE SelectTraps(policy, size)
  BY <1>1, <1>2 DEF dispatch, trap, traps
<1>3. CASE ~SelectTraps(policy, size)
  BY <1>1, <1>3 DEF dispatch, push, pushes
<1> QED
  BY <1>2, <1>3

\* A dispatched request has its index below `total` and its warm-up flag.
LEMMA NewRequestType ==
  ASSUME TypeOK, pushes, NEW size \in Sizes
  PROVE  NewRequest(size) \in PendingRequest /\ NewRequest(size).id = i
BY TotalIsNat, RequestsAssumption DEF TypeOK, pushes, NewRequest, PendingRequest

\* A dispatch pushes one new request on one queue of the pool, the right one
\* for its size.
LEMMA DispatchPushes ==
  ASSUME TypeOK, pushes
  PROVE  \E size \in Sizes, w \in Conns :
           /\ queue' = [queue EXCEPT ![w] = Append(@, NewRequest(size))]
           /\ pushed' = [pushed EXCEPT ![w] = Append(@, NewRequest(size))]
           /\ policy = "size_aware" => (IsLarge(size) <=> w >= SmallPool)
<1>1. PICK size \in Sizes :
        /\ ~SelectTraps(policy, size)
        /\ \E w \in select(policy, rr_counter, size) :
             /\ queue' = [queue EXCEPT ![w] = Append(@, NewRequest(size))]
             /\ pushed' = [pushed EXCEPT ![w] = Append(@, NewRequest(size))]
  BY DEF pushes
<1>2. PICK w \in select(policy, rr_counter, size) :
        /\ queue' = [queue EXCEPT ![w] = Append(@, NewRequest(size))]
        /\ pushed' = [pushed EXCEPT ![w] = Append(@, NewRequest(size))]
  BY <1>1
<1>3. size \in Nat /\ policy \in Policies /\ rr_counter \in 0 .. CounterMod - 1
  BY SizesAssumption DEF TypeOK
<1>4. w \in Conns
  BY <1>1, <1>2, <1>3, SelectInPool
<1>5. policy = "size_aware" => (IsLarge(size) <=> w >= SmallPool)
  BY <1>1, <1>2, <1>3, SizeAwareSplits
<1> QED
  BY <1>2, <1>4, <1>5

-----------------------------------------------------------------------------
\* The inductive invariant.

\* A worker that was not spawned has not run.
StartInv ==
  /\ dpc \in {"connect", "threw"} => \A w \in Conns : wpc[w] = "none"
  /\ dpc = "spawn" => \A w \in Conns : w >= k => wpc[w] = "none"

\* How far the dispatcher is fits the flag, the pool and the workers.
PhaseInv ==
  /\ dpc \in {"join", "close", "done"} => ~running
  /\ ~running => dpc \in {"join", "close", "done"} /\ i = total
  /\ dpc = "connect" => \A w \in Conns : w < k => pool[w] = "open"
  /\ dpc \in {"spawn", "dispatch", "join", "close", "trapped"} =>
       \A w \in Conns : pool[w] = "open"
  /\ dpc \in {"close", "done"} => \A w \in Conns : wpc[w] = "exited"
  /\ result # NoResult => dpc \in {"close", "done"}

\* A worker looks at its queue's size, and leaves, only after `running` is
\* false.
ExitInv ==
  \A w \in Conns :
    /\ wpc[w] = "size" => ~running
    /\ wpc[w] = "exited" => ~running /\ queue[w] = <<>>

\* Every request drawn so far was pushed somewhere.
CoverInv ==
  \A r \in 0 .. i - 1 : \E w \in Conns :
    \E n \in 1 .. Len(pushed[w]) : pushed[w][n].id = r

\* What a worker is through with is settled.
ServedInv ==
  \A w \in Conns : \A n \in 1 .. Len(served[w]) :
    served[w][n].id \in answered \cup failed

\* The samples are the answered requests that are not warm-up.
SampleInv ==
  /\ \A r \in answered : r >= Warmup =>
       \E w \in Conns : \E n \in 1 .. Len(samples[w]) : samples[w][n] = r
  /\ \A w \in Conns : \A n \in 1 .. Len(samples[w]) :
       samples[w][n] \in answered /\ samples[w][n] >= Warmup

\* size_aware: the large messages are on the last LargePool connections.
LargeInv ==
  policy = "size_aware" =>
    \A w \in Conns : \A n \in 1 .. Len(pushed[w]) :
      IsLarge(pushed[w][n].size) <=> w >= SmallPool

-----------------------------------------------------------------------------
\* The types, which need that a worker starts with an empty hand.
LEMMA TypeInvariance == Spec => [](TypeOK /\ StartInv)
<1> USE TotalIsNat, PoolAssumption, CounterAssumption, SizesAssumption
<1>1. Init => TypeOK /\ StartInv
  BY DEF Init, TypeOK, StartInv, Terminal, Conns
<1>2. TypeOK /\ StartInv /\ [Next]_vars => TypeOK' /\ StartInv'
  <2> SUFFICES ASSUME TypeOK, StartInv, [Next]_vars PROVE TypeOK' /\ StartInv'
    OBVIOUS
  <2> USE DEF TypeOK, StartInv, Terminal, dispatchVars, workerVars, queueVars, memberVars
  <2>1. CASE connect_all
    BY <2>1, SMTT(30) DEF connect_all, Conns
  <2>2. CASE connect_throws
    BY <2>2 DEF connect_throws, Conns
  <2>3. CASE connected
    BY <2>3 DEF connected, Conns
  <2>4. CASE spawn
    <3>1. k \in Conns /\ k + 1 \in 0 .. PoolSize /\ wpc[k] = "none"
      BY <2>4 DEF spawn, Conns
    <3>2. k' = k + 1 /\ wpc' = [wpc EXCEPT ![k] = "loop"] /\ hand' = hand
      BY <2>4 DEF spawn
    <3>3. \A v \in Conns : Len(hand'[v]) = IF wpc'[v] = "request" THEN 1 ELSE 0
      BY <3>1, <3>2
    <3>4. TypeOK'
      BY <2>4, <3>1, <3>2, <3>3 DEF spawn
    <3>5. dpc' \in {"spawn", "dispatch"}
      BY <2>4 DEF spawn
    <3>6. ASSUME NEW w \in Conns, w >= k'
          PROVE  wpc'[w] = "none"
      <4>1. w # k /\ w >= k
        BY <3>1, <3>2, <3>6 DEF Conns
      <4>2. dpc = "spawn"
        BY <2>4 DEF spawn
      <4> QED
        BY <3>1, <3>2, <4>1, <4>2
    <3> QED
      BY <3>4, <3>5, <3>6
  <2>5. CASE pushes
    <3>1. PICK size \in Sizes, w \in Conns :
            /\ queue' = [queue EXCEPT ![w] = Append(@, NewRequest(size))]
            /\ pushed' = [pushed EXCEPT ![w] = Append(@, NewRequest(size))]
      BY <2>5, DispatchPushes
    <3>2. NewRequest(size) \in PendingRequest
      BY <2>5, NewRequestType
    <3>3. rr_counter' \in 0 .. CounterMod - 1
      BY <2>5, CounterInRange DEF pushes
    <3>4. /\ queue' \in [Conns -> Seq(PendingRequest)]
          /\ pushed' \in [Conns -> Seq(PendingRequest)]
      BY <3>1, <3>2
    <3>5. /\ i' \in 0 .. total
          /\ UNCHANGED <<dpc, k, running, result, workerVars, memberVars>>
      BY <2>5 DEF pushes
    <3> QED
      BY <3>3, <3>4, <3>5
  <2>6. CASE traps
    BY <2>6 DEF traps
  <2>7. CASE clear_running
    BY <2>7 DEF clear_running
  <2>8. CASE join
    BY <2>8 DEF join
  <2>9. CASE close_all
    BY <2>9 DEF close_all
  <2>10. ASSUME NEW w \in Conns, load_running(w) PROVE TypeOK' /\ StartInv'
    BY <2>10 DEF load_running
  <2>11. ASSUME NEW w \in Conns, check_size(w) PROVE TypeOK' /\ StartInv'
    BY <2>11 DEF check_size
  <2>12. ASSUME NEW w \in Conns, pop(w) PROVE TypeOK' /\ StartInv'
    <3>1. Head(queue[w]) \in PendingRequest /\ Tail(queue[w]) \in Seq(PendingRequest)
      BY <2>12, HeadTailProperties DEF pop
    <3>2. /\ hand' = [hand EXCEPT ![w] = <<Head(queue[w])>>]
          /\ queue' = [queue EXCEPT ![w] = Tail(@)]
          /\ wpc' = [wpc EXCEPT ![w] = "request"]
      BY <2>12 DEF pop
    <3>3. hand' \in [Conns -> Seq(PendingRequest)] /\ queue' \in [Conns -> Seq(PendingRequest)]
      BY <3>1, <3>2
    <3>4. \A v \in Conns : Len(hand'[v]) = IF wpc'[v] = "request" THEN 1 ELSE 0
      BY <3>1, <3>2
    <3> QED
      BY <2>12, <3>2, <3>3, <3>4 DEF pop
  <2>13. ASSUME NEW w \in Conns, pop_timeout(w) PROVE TypeOK' /\ StartInv'
    BY <2>13 DEF pop_timeout
  <2>14. ASSUME NEW w \in Conns, NEW ok \in BOOLEAN, wpc[w] = "request", account(w, ok)
        PROVE  TypeOK' /\ StartInv'
    <3> DEFINE req == hand[w][1]
    <3>1. req \in PendingRequest
      BY <2>14, OneInHand
    <3>2. req.id \in 0 .. total - 1 /\ req.size \in Nat
      BY <3>1 DEF PendingRequest
    <3> HIDE DEF req
    <3>3. samples' \in [Conns -> Seq(Nat)] /\ total_bytes' \in Nat
      BY <2>14, <3>2, SMTT(30) DEF account, HeaderSize, req
    <3>4. served' \in [Conns -> Seq(PendingRequest)] /\ hand' \in [Conns -> Seq(PendingRequest)]
      BY <2>14, <3>1 DEF account, req
    <3>5. answered' \subseteq 0 .. total - 1 /\ failed' \subseteq 0 .. total - 1
      BY <2>14, <3>2 DEF account, req
    <3>6. /\ wpc' \in [Conns -> {"none", "loop", "size", "pop", "request", "exited"}]
          /\ \A v \in Conns : Len(hand'[v]) = IF wpc'[v] = "request" THEN 1 ELSE 0
      BY <2>14 DEF account
    <3> QED
      BY <2>14, <3>3, <3>4, <3>5, <3>6, ZenonT(60) DEF account
  <2>15. ASSUME NEW w \in Conns, link_down(w) PROVE TypeOK' /\ StartInv'
    BY <2>15 DEF link_down
  <2>16. CASE UNCHANGED vars
    BY <2>16 DEF vars
  <2> QED
    BY DispatchCases, <2>1, <2>2, <2>3, <2>4, <2>5, <2>6, <2>7, <2>8, <2>9,
       <2>10, <2>11, <2>12, <2>13, <2>14, <2>15, <2>16
    DEF Next, Dispatcher, Worker, request_ok, request_fails, Terminated
<1> QED
  BY <1>1, <1>2, PTL DEF Spec

\* No thread stores what its C++ variable could not hold, and a worker holds
\* one request exactly while it is in do_request().
THEOREM TypeCorrect == Spec => []TypeOK
BY TypeInvariance, PTL

-----------------------------------------------------------------------------
\* Only a push, a pop and the end of a request touch the requests.
LEMMA RequestSteps ==
  ASSUME [Next]_vars
  PROVE  \/ pushes
         \/ \E w \in Conns : pop(w)
         \/ \E w \in Conns, ok \in BOOLEAN : wpc[w] = "request" /\ account(w, ok)
         \/ UNCHANGED <<i, policy, queue, pushed, hand, served, samples, answered, failed>>
BY DispatchCases
   DEF Next, Dispatcher, Worker, Terminated, vars,
       dispatchVars, workerVars, queueVars, memberVars,
       connect_all, connect_throws, connected, spawn, traps,
       clear_running, join, close_all, load_running, check_size, pop_timeout,
       request_ok, request_fails, link_down

\* The dispatcher moves on only when the pool, the flag and the workers are
\* as the next phase needs them, and a worker leaves only on a cleared flag.
LEMMA PhaseStep ==
  TypeOK /\ StartInv /\ PhaseInv /\ ExitInv /\ [Next]_vars => PhaseInv' /\ ExitInv'
<1> SUFFICES ASSUME TypeOK, StartInv, PhaseInv, ExitInv, [Next]_vars
             PROVE  PhaseInv' /\ ExitInv'
  OBVIOUS
<1> USE TotalIsNat, PoolAssumption
    DEF TypeOK, StartInv, PhaseInv, ExitInv, Terminal, NoResult,
        dispatchVars, workerVars, queueVars, memberVars
<1>1. CASE connect_all
  BY <1>1 DEF connect_all, Conns
<1>2. CASE connect_throws
  BY <1>2 DEF connect_throws, Conns
<1>3. CASE connected
  BY <1>3 DEF connected, Conns
<1>4. CASE spawn
  BY <1>4 DEF spawn, Conns
<1>5. CASE pushes
  BY <1>5 DEF pushes
<1>6. CASE traps
  BY <1>6 DEF traps
<1>7. CASE clear_running
  BY <1>7 DEF clear_running
<1>8. CASE join
  BY <1>8 DEF join
<1>9. CASE close_all
  BY <1>9 DEF close_all
<1>10. ASSUME NEW w \in Conns, load_running(w) PROVE PhaseInv' /\ ExitInv'
  BY <1>10 DEF load_running, Alive
<1>11. ASSUME NEW w \in Conns, check_size(w) PROVE PhaseInv' /\ ExitInv'
  BY <1>11 DEF check_size, Alive
<1>12. ASSUME NEW w \in Conns, pop(w) PROVE PhaseInv' /\ ExitInv'
  BY <1>12 DEF pop, Alive
<1>13. ASSUME NEW w \in Conns, pop_timeout(w) PROVE PhaseInv' /\ ExitInv'
  BY <1>13 DEF pop_timeout, Alive
<1>14. ASSUME NEW w \in Conns, NEW ok \in BOOLEAN, wpc[w] = "request", account(w, ok)
      PROVE  PhaseInv' /\ ExitInv'
  BY <1>14 DEF account
<1>15. ASSUME NEW w \in Conns, link_down(w) PROVE PhaseInv' /\ ExitInv'
  BY <1>15 DEF link_down
<1>16. CASE UNCHANGED vars
  BY <1>16 DEF vars
<1> QED
  BY DispatchCases, <1>1, <1>2, <1>3, <1>4, <1>5, <1>6, <1>7, <1>8, <1>9,
     <1>10, <1>11, <1>12, <1>13, <1>14, <1>15, <1>16
  DEF Next, Dispatcher, Worker, request_ok, request_fails, Terminated

\* The phases fit the workers, and an exited worker's queue is empty, always.
LEMMA PhaseInvariance == Spec => [](PhaseInv /\ ExitInv)
<1>1. Init => PhaseInv /\ ExitInv
  BY PoolAssumption DEF Init, PhaseInv, ExitInv, Conns
<1> QED
  BY <1>1, TypeInvariance, PhaseStep, PTL DEF Spec

\* A worker never leaves a request in its queue: it loads `running` as false
\* before it sees the queue empty, and nothing is pushed after that.
THEOREM NoRequestLeftBehindHolds == Spec => []NoRequestLeftBehind
<1>1. ExitInv => NoRequestLeftBehind
  BY DEF ExitInv, NoRequestLeftBehind
<1> QED
  BY <1>1, PhaseInvariance, PTL

\* do_request() is only ever called on an open connection of the pool.
THEOREM OpenConnections == Spec => []RequestsOnOpenConnections
<1>1. TypeOK /\ StartInv /\ PhaseInv => RequestsOnOpenConnections
  BY DEF TypeOK, StartInv, PhaseInv, RequestsOnOpenConnections, Terminal
<1> QED
  BY <1>1, TypeInvariance, PhaseInvariance, PTL

-----------------------------------------------------------------------------
\* Each push, pop and settled request moves along `served, hand, queue`.
LEMMA FifoStep == TypeOK /\ FifoExactlyOnce /\ [Next]_vars => FifoExactlyOnce'
<1> SUFFICES ASSUME TypeOK, FifoExactlyOnce, [Next]_vars, NEW v \in Conns
             PROVE  pushed'[v] = served'[v] \o hand'[v] \o queue'[v]
  BY DEF FifoExactlyOnce
<1>0. /\ pushed[v] = served[v] \o hand[v] \o queue[v]
      /\ served[v] \in Seq(PendingRequest)
      /\ hand[v] \in Seq(PendingRequest)
      /\ queue[v] \in Seq(PendingRequest)
  BY DEF TypeOK, FifoExactlyOnce
<1>1. CASE pushes
  <2>1. PICK size \in Sizes, w \in Conns :
          /\ queue' = [queue EXCEPT ![w] = Append(@, NewRequest(size))]
          /\ pushed' = [pushed EXCEPT ![w] = Append(@, NewRequest(size))]
    BY <1>1, DispatchPushes
  <2>2. NewRequest(size) \in PendingRequest
    BY <1>1, NewRequestType
  <2>3. served' = served /\ hand' = hand
    BY <1>1 DEF pushes, workerVars
  <2>4. CASE v = w
    <3>1. /\ queue'[v] = Append(queue[v], NewRequest(size))
          /\ pushed'[v] = Append(pushed[v], NewRequest(size))
      BY <2>1, <2>4 DEF TypeOK
    <3>2. served[v] \o hand[v] \o Append(queue[v], NewRequest(size))
            = Append(served[v] \o hand[v] \o queue[v], NewRequest(size))
      <4>1. \A s, h, q \in Seq(PendingRequest) : \A e \in PendingRequest :
              s \o h \o Append(q, e) = Append(s \o h \o q, e)
        BY PushLast
      <4> QED
        BY <1>0, <2>2, <4>1, ZenonT(60)
    <3> QED
      BY <1>0, <2>3, <3>1, <3>2, Zenon
  <2>5. CASE v # w
    BY <1>0, <2>1, <2>3, <2>5 DEF TypeOK
  <2> QED
    BY <2>4, <2>5
<1>2. ASSUME NEW w \in Conns, pop(w)
      PROVE  pushed'[v] = served'[v] \o hand'[v] \o queue'[v]
  <2>1. CASE v = w
    <3>1. hand[v] = <<>>
      BY <1>2, <2>1, <1>0, EmptySeq DEF TypeOK, pop
    <3>2. /\ hand'[v] = <<Head(queue[v])>> /\ queue'[v] = Tail(queue[v])
          /\ served'[v] = served[v] /\ pushed'[v] = pushed[v] /\ queue[v] # <<>>
      BY <1>2, <2>1 DEF TypeOK, pop
    <3> QED
      BY <1>0, <3>1, <3>2, PopFirst, ZenonT(60)
  <2>2. CASE v # w
    BY <1>0, <1>2, <2>2 DEF TypeOK, pop
  <2> QED
    BY <2>1, <2>2
<1>3. ASSUME NEW w \in Conns, NEW ok \in BOOLEAN, wpc[w] = "request", account(w, ok)
      PROVE  pushed'[v] = served'[v] \o hand'[v] \o queue'[v]
  <2>1. CASE v = w
    <3>1. Len(hand[v]) = 1
      BY <1>3, <2>1 DEF TypeOK
    <3>2. /\ served'[v] = Append(served[v], hand[v][1]) /\ hand'[v] = <<>>
          /\ queue'[v] = queue[v] /\ pushed'[v] = pushed[v]
      BY <1>3, <2>1 DEF TypeOK, account, queueVars
    <3>3. served[v] \o hand[v] \o queue[v]
            = Append(served[v], hand[v][1]) \o <<>> \o queue[v]
      <4>1. \A s, h, q \in Seq(PendingRequest) : Len(h) = 1 =>
              s \o h \o q = Append(s, h[1]) \o <<>> \o q
        BY ServeHand
      <4> QED
        BY <1>0, <3>1, <4>1
    <3> QED
      BY <1>0, <3>2, <3>3, Zenon
  <2>2. CASE v # w
    BY <1>0, <1>3, <2>2 DEF TypeOK, account, queueVars
  <2> QED
    BY <2>1, <2>2
<1> QED
  BY <1>0, <1>1, <1>2, <1>3, RequestSteps

\* Exactly once and in order: for every pool, policy and number of requests,
\* a queue and its worker neither lose, nor repeat, nor reorder a request.
THEOREM FifoExactlyOnceHolds == Spec => []FifoExactlyOnce
<1>1. Init => FifoExactlyOnce
  BY DEF Init, FifoExactlyOnce
<1> QED
  BY <1>1, TypeInvariance, FifoStep, PTL DEF Spec

-----------------------------------------------------------------------------
\* What an Append leaves alone and what it adds.
LEMMA AppendElements ==
  ASSUME NEW S, NEW s \in Seq(S), NEW e \in S
  PROVE  /\ Len(Append(s, e)) = Len(s) + 1
         /\ \A n \in 1 .. Len(s) : Append(s, e)[n] = s[n]
         /\ Append(s, e)[Len(s) + 1] = e
OBVIOUS

\* A push adds its request and keeps the others.
LEMMA PushElements ==
  ASSUME TypeOK, pushes
  PROVE  \E size \in Sizes, w \in Conns :
           /\ policy = "size_aware" => (IsLarge(size) <=> w >= SmallPool)
           /\ Len(pushed'[w]) = Len(pushed[w]) + 1
           /\ \A n \in 1 .. Len(pushed[w]) : pushed'[w][n] = pushed[w][n]
           /\ pushed'[w][Len(pushed[w]) + 1].id = i
           /\ pushed'[w][Len(pushed[w]) + 1].size = size
           /\ \A v \in Conns : v # w => pushed'[v] = pushed[v]
<1>1. PICK size \in Sizes, w \in Conns :
        /\ pushed' = [pushed EXCEPT ![w] = Append(@, NewRequest(size))]
        /\ policy = "size_aware" => (IsLarge(size) <=> w >= SmallPool)
  BY DispatchPushes
<1>2. NewRequest(size) \in PendingRequest /\ NewRequest(size).id = i
  BY NewRequestType
<1>3. NewRequest(size).size = size
  BY DEF NewRequest
<1>4. /\ pushed'[w] = Append(pushed[w], NewRequest(size))
      /\ pushed[w] \in Seq(PendingRequest)
      /\ \A v \in Conns : v # w => pushed'[v] = pushed[v]
  BY <1>1 DEF TypeOK
<1>5. /\ Len(pushed'[w]) = Len(pushed[w]) + 1
      /\ \A n \in 1 .. Len(pushed[w]) : pushed'[w][n] = pushed[w][n]
      /\ pushed'[w][Len(pushed[w]) + 1] = NewRequest(size)
  BY <1>2, <1>4, AppendElements
<1> QED
  BY <1>1, <1>2, <1>3, <1>4, <1>5

\* A dispatch adds the next request, on a connection that fits its size.
LEMMA CoverStep ==
  TypeOK /\ CoverInv /\ LargeInv /\ [Next]_vars => CoverInv' /\ LargeInv'
<1> SUFFICES ASSUME TypeOK, CoverInv, LargeInv, [Next]_vars
             PROVE  CoverInv' /\ LargeInv'
  OBVIOUS
<1>1. CASE pushes
  <2>1. PICK size \in Sizes, w \in Conns :
          /\ policy = "size_aware" => (IsLarge(size) <=> w >= SmallPool)
          /\ Len(pushed'[w]) = Len(pushed[w]) + 1
          /\ \A n \in 1 .. Len(pushed[w]) : pushed'[w][n] = pushed[w][n]
          /\ pushed'[w][Len(pushed[w]) + 1].id = i
          /\ pushed'[w][Len(pushed[w]) + 1].size = size
          /\ \A v \in Conns : v # w => pushed'[v] = pushed[v]
    BY <1>1, PushElements
  <2>2. Len(pushed[w]) \in Nat /\ i \in Nat /\ i' = i + 1 /\ policy' = policy
    BY <1>1, TotalIsNat DEF TypeOK, pushes, memberVars
  <2>3. CoverInv'
    <3> SUFFICES ASSUME NEW r \in 0 .. i
                 PROVE  \E v \in Conns :
                          \E n \in 1 .. Len(pushed'[v]) : pushed'[v][n].id = r
      BY <2>2 DEF CoverInv
    <3>1. CASE r = i
      BY <2>1, <2>2, <3>1
    <3>2. CASE r # i
      <4>1. PICK v \in Conns : \E n \in 1 .. Len(pushed[v]) : pushed[v][n].id = r
        BY <2>2, <3>2 DEF CoverInv
      <4>2. PICK n \in 1 .. Len(pushed[v]) : pushed[v][n].id = r
        BY <4>1
      <4>3. n \in 1 .. Len(pushed'[v]) /\ pushed'[v][n] = pushed[v][n]
        BY <2>1, <2>2, <4>2
      <4> QED
        BY <4>2, <4>3
    <3> QED
      BY <3>1, <3>2
  <2>4. LargeInv'
    <3> SUFFICES ASSUME policy = "size_aware",
                        NEW v \in Conns, NEW n \in 1 .. Len(pushed'[v])
                 PROVE  IsLarge(pushed'[v][n].size) <=> v >= SmallPool
      BY <2>2 DEF LargeInv
    <3>1. CASE v # w \/ n # Len(pushed[w]) + 1
      <4>1. n \in 1 .. Len(pushed[v]) /\ pushed'[v][n] = pushed[v][n]
        BY <2>1, <2>2, <3>1
      <4> QED
        BY <4>1 DEF LargeInv
    <3>2. CASE v = w /\ n = Len(pushed[w]) + 1
      BY <2>1, <3>2
    <3> QED
      BY <3>1, <3>2
  <2> QED
    BY <2>3, <2>4
<1>2. CASE UNCHANGED <<i, pushed, policy>>
  BY <1>2 DEF CoverInv, LargeInv
<1> QED
  BY <1>1, <1>2, RequestSteps
  DEF pop, account, dispatchVars, queueVars, memberVars

\* Every drawn request is on some connection, a large one on a large one.
LEMMA CoverInvariance == Spec => [](CoverInv /\ LargeInv)
<1>1. Init => CoverInv /\ LargeInv
  BY DEF Init, CoverInv, LargeInv
<1> QED
  BY <1>1, TypeInvariance, CoverStep, PTL DEF Spec

\* size_aware never puts a large and a small message on one connection,
\* whatever the size of the pool.
THEOREM SizeIsolationHolds == Spec => []SizeIsolation
<1>1. TypeOK /\ LargeInv => SizeIsolation
  <2> SUFFICES ASSUME TypeOK, LargeInv, policy = "size_aware", NEW w \in Conns,
                      NEW a \in Range(pushed[w]), NEW b \in Range(pushed[w])
               PROVE  IsLarge(a.size) = IsLarge(b.size)
    BY DEF SizeIsolation
  <2>1. DOMAIN pushed[w] = 1 .. Len(pushed[w])
    BY DEF TypeOK
  <2>2. PICK m \in 1 .. Len(pushed[w]) : a = pushed[w][m]
    BY <2>1 DEF Range
  <2>3. PICK n \in 1 .. Len(pushed[w]) : b = pushed[w][n]
    BY <2>1 DEF Range
  <2>4. IsLarge(a.size) <=> IsLarge(b.size)
    BY <2>2, <2>3 DEF LargeInv
  <2> QED
    BY <2>4 DEF IsLarge
<1> QED
  BY <1>1, TypeInvariance, CoverInvariance, PTL

-----------------------------------------------------------------------------
\* What the end of a request adds to the histories and to the samples.
LEMMA AccountElements ==
  ASSUME TypeOK, NEW w \in Conns, NEW ok \in BOOLEAN,
         wpc[w] = "request", account(w, ok)
  PROVE  \E r \in 0 .. total - 1 :
           /\ served'[w] = Append(served[w], hand[w][1])
           /\ hand[w][1] \in PendingRequest /\ hand[w][1].id = r
           /\ \A v \in Conns : v # w => served'[v] = served[v] /\ samples'[v] = samples[v]
           /\ answered' = IF ok THEN answered \cup {r} ELSE answered
           /\ failed' = IF ok THEN failed ELSE failed \cup {r}
           /\ samples'[w] = IF ok /\ r >= Warmup
                            THEN Append(samples[w], r) ELSE samples[w]
<1>1. hand[w][1] \in PendingRequest
  BY OneInHand DEF TypeOK
<1>2. /\ hand[w][1].id \in 0 .. total - 1
      /\ ~hand[w][1].warmup <=> hand[w][1].id >= Warmup
  BY <1>1, TotalIsNat, RequestsAssumption DEF PendingRequest
<1>3. samples'[w] = IF ok /\ ~hand[w][1].warmup
                    THEN Append(samples[w], hand[w][1].id) ELSE samples[w]
  BY DEF account, TypeOK
<1>4. \A v \in Conns : v # w => served'[v] = served[v] /\ samples'[v] = samples[v]
  BY DEF account, TypeOK
<1>5. served'[w] = Append(served[w], hand[w][1])
  BY DEF account, TypeOK
<1> QED
  BY <1>1, <1>2, <1>3, <1>4, <1>5 DEF account

\* A settled request enters `answered` or `failed`, and the samples if it was
\* answered and is not warm-up.
LEMMA ServedStep ==
  TypeOK /\ ServedInv /\ SampleInv /\ [Next]_vars => ServedInv' /\ SampleInv'
<1> SUFFICES ASSUME TypeOK, ServedInv, SampleInv, [Next]_vars
             PROVE  ServedInv' /\ SampleInv'
  OBVIOUS
<1>1. ASSUME NEW w \in Conns, NEW ok \in BOOLEAN, wpc[w] = "request", account(w, ok)
      PROVE  ServedInv' /\ SampleInv'
  <2>1. PICK r \in 0 .. total - 1 :
          /\ served'[w] = Append(served[w], hand[w][1])
          /\ hand[w][1] \in PendingRequest /\ hand[w][1].id = r
          /\ \A v \in Conns : v # w => served'[v] = served[v] /\ samples'[v] = samples[v]
          /\ answered' = IF ok THEN answered \cup {r} ELSE answered
          /\ failed' = IF ok THEN failed ELSE failed \cup {r}
          /\ samples'[w] = IF ok /\ r >= Warmup
                           THEN Append(samples[w], r) ELSE samples[w]
    BY <1>1, AccountElements
  <2>2. served[w] \in Seq(PendingRequest) /\ samples[w] \in Seq(Nat) /\ r \in Nat
    BY TotalIsNat DEF TypeOK
  <2>3. /\ Len(served'[w]) = Len(served[w]) + 1
        /\ \A n \in 1 .. Len(served[w]) : served'[w][n] = served[w][n]
        /\ served'[w][Len(served[w]) + 1] = hand[w][1]
    BY <2>1, <2>2, AppendElements
  <2>4. /\ r \in answered' \cup failed' /\ hand[w][1].id = r
        /\ answered \subseteq answered' /\ failed \subseteq failed'
    BY <2>1
  <2>a. \A v \in Conns : v # w => served'[v] = served[v] /\ samples'[v] = samples[v]
    BY <2>1
  <2>b. Len(served[w]) \in Nat /\ Len(samples[w]) \in Nat
    BY <2>2
  <2>5. ServedInv'
    <3> SUFFICES ASSUME NEW v \in Conns, NEW n \in 1 .. Len(served'[v])
                 PROVE  served'[v][n].id \in answered' \cup failed'
      BY DEF ServedInv
    <3>1. CASE v # w \/ n # Len(served[w]) + 1
      <4>1. n \in 1 .. Len(served[v]) /\ served'[v][n] = served[v][n]
        BY <2>a, <2>b, <2>3, <3>1
      <4> QED
        BY <2>4, <4>1 DEF ServedInv
    <3>2. CASE v = w /\ n = Len(served[w]) + 1
      BY <2>3, <2>4, <3>2
    <3> QED
      BY <3>1, <3>2
  <2>6. CASE ok /\ r >= Warmup
    <3>1. /\ Len(samples'[w]) = Len(samples[w]) + 1
          /\ \A n \in 1 .. Len(samples[w]) : samples'[w][n] = samples[w][n]
          /\ samples'[w][Len(samples[w]) + 1] = r
      BY <2>1, <2>2, <2>6, AppendElements
    <3>2. answered' = answered \cup {r}
      BY <2>1, <2>6
    <3>3. ASSUME NEW a \in answered', a >= Warmup
          PROVE  \E v \in Conns : \E n \in 1 .. Len(samples'[v]) : samples'[v][n] = a
      <4>1. CASE a = r
        BY <2>2, <3>1, <4>1
      <4>2. CASE a # r
        <5>1. PICK v \in Conns : \E n \in 1 .. Len(samples[v]) : samples[v][n] = a
          BY <3>2, <3>3, <4>2 DEF SampleInv
        <5>2. PICK n \in 1 .. Len(samples[v]) : samples[v][n] = a
          BY <5>1
        <5>3. n \in 1 .. Len(samples'[v]) /\ samples'[v][n] = a
          BY <2>a, <2>b, <3>1, <5>2, SMTT(30)
        <5> QED
          BY <5>3
      <4> QED
        BY <4>1, <4>2
    <3>4. ASSUME NEW v \in Conns, NEW n \in 1 .. Len(samples'[v])
          PROVE  samples'[v][n] \in answered' /\ samples'[v][n] >= Warmup
      <4>1. CASE v # w \/ n # Len(samples[w]) + 1
        <5>1. n \in 1 .. Len(samples[v]) /\ samples'[v][n] = samples[v][n]
          BY <2>a, <2>b, <3>1, <4>1
        <5> QED
          BY <3>2, <5>1 DEF SampleInv
      <4>2. CASE v = w /\ n = Len(samples[w]) + 1
        BY <2>6, <3>1, <3>2, <4>2
      <4> QED
        BY <4>1, <4>2
    <3> QED
      BY <2>5, <3>3, <3>4 DEF SampleInv
  <2>7. CASE ~(ok /\ r >= Warmup)
    <3>1. \A v \in Conns : samples'[v] = samples[v]
      BY <2>1, <2>7
    <3>2. \A a \in answered' : a >= Warmup => a \in answered
      BY <2>1, <2>7
    <3>3. ASSUME NEW a \in answered', a >= Warmup
          PROVE  \E v \in Conns : \E n \in 1 .. Len(samples'[v]) : samples'[v][n] = a
      BY <3>1, <3>2, <3>3 DEF SampleInv
    <3>4. ASSUME NEW v \in Conns, NEW n \in 1 .. Len(samples'[v])
          PROVE  samples'[v][n] \in answered' /\ samples'[v][n] >= Warmup
      BY <2>4, <3>1 DEF SampleInv
    <3> QED
      BY <2>5, <3>3, <3>4 DEF SampleInv
  <2> QED
    BY <2>6, <2>7
<1>2. CASE UNCHANGED <<served, samples, answered, failed>>
  BY <1>2 DEF ServedInv, SampleInv
<1> QED
  BY <1>1, <1>2, RequestSteps
  DEF pop, pushes, workerVars

\* Served requests are settled and the samples are the measured ones, always.
LEMMA ServedInvariance == Spec => [](ServedInv /\ SampleInv)
<1>1. Init => ServedInv /\ SampleInv
  BY DEF Init, ServedInv, SampleInv
<1> QED
  BY <1>1, TypeInvariance, ServedStep, PTL DEF Spec

-----------------------------------------------------------------------------
\* When all the workers have left, they are through with all that was pushed,
\* which is every planned request.
LEMMA JoinFindsAllSettled ==
  ASSUME TypeOK, PhaseInv, ExitInv, FifoExactlyOnce, CoverInv, ServedInv, join
  PROVE  answered \cup failed = 0 .. total - 1
<1>1. i = total
  BY DEF PhaseInv, join
<1>2. ASSUME NEW w \in Conns
      PROVE  pushed[w] = served[w]
  <2>1. queue[w] = <<>>
    BY DEF ExitInv, join
  <2>2. Len(hand[w]) = 0 /\ hand[w] \in Seq(PendingRequest)
    BY DEF TypeOK, join
  <2>3. hand[w] = <<>>
    BY <2>2
  <2>4. pushed[w] = served[w] \o <<>> \o <<>> /\ served[w] \in Seq(PendingRequest)
    BY <2>1, <2>3 DEF FifoExactlyOnce, TypeOK
  <2> QED
    BY <2>4
<1>3. ASSUME NEW r \in 0 .. total - 1
      PROVE  r \in answered \cup failed
  <2>1. PICK w \in Conns : \E n \in 1 .. Len(pushed[w]) : pushed[w][n].id = r
    BY <1>1 DEF CoverInv
  <2> QED
    BY <1>2, <2>1 DEF ServedInv
<1> QED
  BY <1>3 DEF TypeOK

\* The samples of all workers together, as the result collects them.
LEMMA JoinCollectsSamples ==
  ASSUME TypeOK, SampleInv, join
  PROVE  result'[1].latency = {r \in answered : r >= Warmup}
<1>1. result'[1].latency = UNION {Range(samples[w]) : w \in Conns}
  BY DEF join, BenchmarkResult
<1>2. \A w \in Conns : Range(samples[w]) = {samples[w][n] : n \in 1 .. Len(samples[w])}
  BY DEF TypeOK, Range
<1>3. ASSUME NEW w \in Conns, NEW r \in Range(samples[w])
      PROVE  r \in answered /\ r >= Warmup
  <2>1. PICK n \in 1 .. Len(samples[w]) : r = samples[w][n]
    BY <1>2
  <2> QED
    BY <2>1 DEF SampleInv
<1>4. ASSUME NEW r \in answered, r >= Warmup
      PROVE  \E w \in Conns : r \in Range(samples[w])
  <2>1. PICK w \in Conns : \E n \in 1 .. Len(samples[w]) : samples[w][n] = r
    BY <1>4 DEF SampleInv
  <2> QED
    BY <1>2, <2>1
<1> QED
  BY <1>1, <1>3, <1>4

\* The join is the only step that makes a result, and after it no worker is
\* left to change what the result was made from.
LEMMA ReportStep ==
  ASSUME TypeOK, PhaseInv, ExitInv, FifoExactlyOnce, CoverInv, ServedInv, SampleInv,
         AllSettled, ReportExact, [Next]_vars
  PROVE  AllSettled' /\ ReportExact'
<1>1. CASE join
  <2>1. answered' = answered /\ failed' = failed
    BY <1>1 DEF join, workerVars
  <2>2. answered \cup failed = 0 .. total - 1
    BY <1>1, JoinFindsAllSettled
  <2>3. result'[1].latency = {r \in answered : r >= Warmup}
    BY <1>1, JoinCollectsSamples
  <2> QED
    BY <2>1, <2>2, <2>3 DEF AllSettled, ReportExact
<1>2. CASE ~join
  <2>1. result' = result
    BY <1>2, DispatchCases
    DEF Next, Dispatcher, Worker, Terminated, vars,
       dispatchVars, workerVars, queueVars, memberVars,
       connect_all, connect_throws, connected, spawn, pushes, traps,
       clear_running, close_all, load_running, check_size, pop, pop_timeout,
       request_ok, request_fails, account, link_down
  <2>2. result # NoResult => answered' = answered /\ failed' = failed
    BY RequestSteps DEF PhaseInv, pushes, pop, workerVars
  <2> QED
    BY <2>1, <2>2 DEF AllSettled, ReportExact
<1> QED
  BY <1>1, <1>2

\* Whenever there is a result, it is complete and exact.
LEMMA ReportInvariance == Spec => [](AllSettled /\ ReportExact)
<1>1. Init => AllSettled /\ ReportExact
  BY DEF Init, AllSettled, ReportExact
<1>2. Spec => [](TypeOK /\ PhaseInv /\ ExitInv /\ FifoExactlyOnce /\ CoverInv
                   /\ ServedInv /\ SampleInv)
  BY TypeInvariance, PhaseInvariance, FifoExactlyOnceHolds, CoverInvariance,
     ServedInvariance, PTL
<1>3. TypeOK /\ PhaseInv /\ ExitInv /\ FifoExactlyOnce /\ CoverInv /\ ServedInv
        /\ SampleInv /\ AllSettled /\ ReportExact /\ [Next]_vars
      => AllSettled' /\ ReportExact'
  BY ReportStep
<1> QED
  BY <1>1, <1>2, <1>3, PTL DEF Spec

\* The result is never built before every planned request is settled: the
\* dispatcher's flag, the workers' exit test and the join lose none.
THEOREM AllSettledHolds == Spec => []AllSettled
BY ReportInvariance, PTL

\* The report holds the answered requests that are not warm-up, no others,
\* for every interleaving of dispatcher, workers and failing connections.
THEOREM ReportExactHolds == Spec => []ReportExact
BY ReportInvariance, PTL

-----------------------------------------------------------------------------
\* round_robin(): the connections get their requests in rounds.

\* Quotient and remainder.
LEMMA DivMod ==
  ASSUME NEW p \in Nat \ {0}, NEW c \in Nat
  PROVE  c = p * (c \div p) + (c % p) /\ c % p \in 0 .. p - 1 /\ c \div p \in Nat
OBVIOUS

\* They are the only ones.
LEMMA OneRemainder ==
  ASSUME NEW p \in Nat \ {0}, NEW a \in Int, NEW b \in Int,
         NEW r \in 0 .. p - 1, NEW s \in 0 .. p - 1, p * a + r = p * b + s
  PROVE  r = s
<1>1. p * a - p * b = p * (a - b) /\ p * (a - b) = s - r
  OBVIOUS
<1>2. ASSUME NEW d \in Int, d >= 1 PROVE p * d >= p
  BY <1>2
<1>3. p * (b - a) = r - s
  OBVIOUS
<1>4. CASE a - b >= 1
  BY <1>1, <1>2, <1>4
<1>5. CASE b - a >= 1
  BY <1>3, <1>2, <1>5
<1>6. CASE a = b
  BY <1>6
<1> QED
  BY <1>4, <1>5, <1>6

\* The next number has the next remainder.
LEMMA NextRemainder ==
  ASSUME NEW p \in Nat \ {0}, NEW c \in Nat
  PROVE  (c + 1) % p = IF c % p = p - 1 THEN 0 ELSE (c % p) + 1
<1> DEFINE q == c \div p
           r == c % p
<1>1. c = p * q + r /\ r \in 0 .. p - 1 /\ q \in Int
  BY DivMod
<1> DEFINE q1 == (c + 1) \div p
           r1 == (c + 1) % p
<1>2. c + 1 = p * q1 + r1 /\ r1 \in 0 .. p - 1 /\ q1 \in Int
  <2>1. c + 1 \in Nat
    OBVIOUS
  <2> QED
    BY <2>1, DivMod
<1> HIDE DEF q, r, q1, r1
<1>3. CASE r = p - 1
  <2>1. p * (q + 1) = p * q + p
    BY <1>1
  <2>2. p * (q + 1) + 0 = p * q1 + r1 /\ q + 1 \in Int /\ 0 \in 0 .. p - 1
    BY <1>1, <1>2, <1>3, <2>1
  <2>3. r1 = 0
    BY <1>2, <2>2, OneRemainder
  <2> QED
    BY <1>3, <2>3 DEF r, r1
<1>4. CASE r # p - 1
  <2>1. p * q + (r + 1) = p * q1 + r1 /\ r + 1 \in 0 .. p - 1
    BY <1>1, <1>2, <1>4
  <2>2. r1 = r + 1
    BY <1>1, <1>2, <2>1, OneRemainder
  <2> QED
    BY <1>4, <2>2 DEF r, r1
<1> QED
  BY <1>3, <1>4

\* A number below the modulus is its own remainder.
LEMMA SmallRemainder ==
  ASSUME NEW p \in Nat \ {0}, NEW c \in 0 .. p - 1
  PROVE  c % p = c
<1>1. c = p * (c \div p) + (c % p) /\ c % p \in 0 .. p - 1 /\ c \div p \in Int
  BY DivMod
<1>2. p * 0 + c = p * (c \div p) + (c % p)
  BY <1>1
<1> QED
  BY <1>1, <1>2, OneRemainder

\* Every connection has had q requests, and those that round q + 1 has come to
\* one more.  The counter has not wrapped: it is the number of requests drawn,
\* which is at most `total`, a number of the same width.
BalanceInv ==
  policy = "round_robin" =>
    /\ rr_counter = i
    /\ \E q \in Nat : \A w \in Conns :
         Len(pushed[w]) = IF w < i % PoolSize THEN q + 1 ELSE q

\* Only a push touches the counter and the histories of the queues.
LEMMA CounterSteps ==
  ASSUME [Next]_vars
  PROVE  pushes \/ UNCHANGED <<i, policy, rr_counter, pushed>>
BY DispatchCases
   DEF Next, Dispatcher, Worker, Terminated, vars,
       dispatchVars, workerVars, queueVars, memberVars,
       connect_all, connect_throws, connected, spawn, traps,
       clear_running, join, close_all, load_running, check_size, pop, pop_timeout,
       request_ok, request_fails, account, link_down

\* The next request goes to the connection whose turn it is in the round.
LEMMA BalanceStep == TypeOK /\ BalanceInv /\ [Next]_vars => BalanceInv'
<1> SUFFICES ASSUME TypeOK, BalanceInv, [Next]_vars, policy' = "round_robin"
             PROVE  BalanceInv'
  BY DEF BalanceInv
<1>1. CASE UNCHANGED <<i, policy, rr_counter, pushed>>
  BY <1>1 DEF BalanceInv
<1>2. CASE pushes
  <2>1. /\ policy = "round_robin" /\ i < total /\ i' = i + 1
        /\ rr_counter' = (rr_counter + 1) % CounterMod
    BY <1>2 DEF pushes, memberVars, fetch_add
  <2>2. /\ total \in 0 .. CounterMod - 1 /\ i \in Nat
        /\ CounterMod \in Nat \ {0} /\ PoolSize \in Nat \ {0}
    BY RequestsAssumption, CounterAssumption, PoolAssumption, TotalIsNat DEF TypeOK, total
  <2>3. rr_counter = i
    BY <2>1 DEF BalanceInv
  <2>4. rr_counter' = i'
    <3>1. i + 1 \in 0 .. CounterMod - 1
      BY <2>1, <2>2
    <3> QED
      BY <2>1, <2>2, <2>3, <3>1, SmallRemainder
  <2>5. PICK q \in Nat : \A w \in Conns :
               Len(pushed[w]) = IF w < i % PoolSize THEN q + 1 ELSE q
    BY <2>1 DEF BalanceInv
  <2> DEFINE u == i % PoolSize
  <2>6. u \in Conns
    BY <2>2, DivMod DEF Conns
  <2>7. /\ Len(pushed'[u]) = Len(pushed[u]) + 1
        /\ \A w \in Conns : w # u => pushed'[w] = pushed[w]
    <3>1. PICK size \in Sizes : \E w \in select(policy, rr_counter, size) :
                 pushed' = [pushed EXCEPT ![w] = Append(@, NewRequest(size))]
      BY <1>2 DEF pushes
    <3>2. select(policy, rr_counter, size) = {u}
      BY <2>1, <2>3 DEF select, round_robin
    <3>3. pushed' = [pushed EXCEPT ![u] = Append(@, NewRequest(size))]
      BY <3>1, <3>2
    <3>4. NewRequest(size) \in PendingRequest /\ pushed[u] \in Seq(PendingRequest)
      BY <1>2, <2>6, NewRequestType DEF TypeOK
    <3> HIDE DEF u
    <3>5. /\ pushed'[u] = Append(pushed[u], NewRequest(size))
          /\ \A w \in Conns : w # u => pushed'[w] = pushed[w]
      BY <2>6, <3>3 DEF TypeOK
    <3> QED
      BY <3>4, <3>5, AppendElements
  <2>8. i' % PoolSize = IF u = PoolSize - 1 THEN 0 ELSE u + 1
    BY <2>1, <2>2, NextRemainder
  <2> HIDE DEF u
  <2>9. /\ \A w \in Conns : w \in Nat /\ w <= PoolSize - 1
        /\ Len(pushed[u]) = q
        /\ \A w \in Conns : Len(pushed[w]) = IF w < u THEN q + 1 ELSE q
    <3>1. \A w \in Conns : Len(pushed[w]) = IF w < u THEN q + 1 ELSE q
      BY <2>5 DEF u
    <3>2. \A w \in Conns : w \in Nat /\ w <= PoolSize - 1
      BY <2>2 DEF Conns
    <3> QED
      BY <2>6, <3>1, <3>2
  <2>10. CASE u = PoolSize - 1
    <3>1. i' % PoolSize = 0
      BY <2>8, <2>10
    <3>2. \A w \in Conns : Len(pushed'[w]) = q + 1
      <4> SUFFICES ASSUME NEW w \in Conns PROVE Len(pushed'[w]) = q + 1
        OBVIOUS
      <4>1. CASE w = u
        BY <2>7, <2>9, <4>1
      <4>2. CASE w # u
        BY <2>2, <2>7, <2>9, <2>10, <4>2
      <4> QED
        BY <4>1, <4>2
    <3>3. \A w \in Conns : Len(pushed'[w]) =
                IF w < i' % PoolSize THEN (q + 1) + 1 ELSE q + 1
      BY <2>9, <3>1, <3>2
    <3>4. q + 1 \in Nat
      OBVIOUS
    <3> QED
      BY <2>4, <3>3, <3>4 DEF BalanceInv
  <2>11. CASE u # PoolSize - 1
    <3>1. i' % PoolSize = u + 1
      BY <2>8, <2>11
    <3>2. \A w \in Conns : Len(pushed'[w]) = IF w < u + 1 THEN q + 1 ELSE q
      <4> SUFFICES ASSUME NEW w \in Conns
                   PROVE  Len(pushed'[w]) = IF w < u + 1 THEN q + 1 ELSE q
        OBVIOUS
      <4>1. CASE w = u
        BY <2>6, <2>7, <2>9, <4>1
      <4>2. CASE w # u
        BY <2>6, <2>7, <2>9, <4>2
      <4> QED
        BY <4>1, <4>2
    <3> QED
      BY <2>4, <3>1, <3>2 DEF BalanceInv
  <2> QED
    BY <2>10, <2>11
<1> QED
  BY <1>1, <1>2, CounterSteps

\* round_robin: for every pool, no connection is ever two requests ahead of
\* another.
THEOREM RoundRobinBalancedHolds == Spec => []RoundRobinBalanced
<1>1. Init => BalanceInv
  <2> SUFFICES ASSUME Init PROVE BalanceInv
    OBVIOUS
  <2>1. PoolSize \in Nat \ {0} /\ 0 \in 0 .. PoolSize - 1
    BY PoolAssumption
  <2>2. 0 % PoolSize = 0
    BY <2>1, SmallRemainder
  <2>3. \A w \in Conns : pushed[w] = <<>> /\ w \in Nat
    BY <2>1 DEF Init, Conns
  <2>4. \A w \in Conns : Len(pushed[w]) = IF w < i % PoolSize THEN 0 + 1 ELSE 0
    BY <2>2, <2>3 DEF Init
  <2> QED
    BY <2>4 DEF BalanceInv, Init
<1>2. BalanceInv => RoundRobinBalanced
  <2> SUFFICES ASSUME BalanceInv, policy = "round_robin", NEW v \in Conns, NEW w \in Conns
               PROVE  Len(pushed[v]) <= Len(pushed[w]) + 1
    BY DEF RoundRobinBalanced
  <2>1. PICK q \in Nat : \A x \in Conns :
               Len(pushed[x]) = IF x < i % PoolSize THEN q + 1 ELSE q
    BY DEF BalanceInv
  <2>2. Len(pushed[v]) \in {q, q + 1} /\ Len(pushed[w]) \in {q, q + 1}
    BY <2>1
  <2> QED
    BY <2>2
<1> QED
  BY <1>1, <1>2, TypeInvariance, BalanceStep, PTL DEF Spec

-----------------------------------------------------------------------------
\* The open-loop client implements the abstract run.

\* No request is pushed twice, and a settled one is one that some worker is
\* through with.
OnceInv ==
  /\ \A w \in Conns : \A n \in 1 .. Len(pushed[w]) : pushed[w][n].id < i
  /\ \A v, w \in Conns : \A m \in 1 .. Len(pushed[v]), n \in 1 .. Len(pushed[w]) :
       pushed[v][m].id = pushed[w][n].id => v = w /\ m = n
  /\ \A r \in answered \cup failed : \E w \in Conns :
       \E n \in 1 .. Len(served[w]) : served[w][n].id = r

\* Three sequences in one.
LEMMA ThreeParts ==
  ASSUME NEW S, NEW s \in Seq(S), NEW h \in Seq(S), NEW q \in Seq(S)
  PROVE  /\ Len(s \o h \o q) = Len(s) + Len(h) + Len(q)
         /\ \A n \in 1 .. Len(s) : (s \o h \o q)[n] = s[n]
         /\ \A n \in 1 .. Len(h) : (s \o h \o q)[Len(s) + n] = h[n]
         /\ \A n \in 1 .. Len(q) : (s \o h \o q)[Len(s) + Len(h) + n] = q[n]
<1>1. /\ s \o h \in Seq(S) /\ Len(s \o h) = Len(s) + Len(h)
      /\ \A n \in 1 .. Len(s) : (s \o h)[n] = s[n]
      /\ \A n \in 1 .. Len(h) : (s \o h)[Len(s) + n] = h[n]
  OBVIOUS
<1> DEFINE t == s \o h
<1>2. t = s \o h
  OBVIOUS
<1> HIDE DEF t
<1>3. /\ Len(t \o q) = Len(t) + Len(q)
      /\ \A n \in 1 .. Len(t) : (t \o q)[n] = t[n]
      /\ \A n \in 1 .. Len(q) : (t \o q)[Len(t) + n] = q[n]
  BY <1>1, <1>2
<1>4. Len(s) \in Nat /\ Len(h) \in Nat
  OBVIOUS
<1>5. \A n \in 1 .. Len(s) : n \in 1 .. Len(t)
  BY <1>1, <1>2, <1>4
<1>6. \A n \in 1 .. Len(h) : Len(s) + n \in 1 .. Len(t)
  BY <1>1, <1>2, <1>4
<1> QED
  BY <1>1, <1>2, <1>3, <1>5, <1>6

\* What was pushed on a queue, position by position.
LEMMA PushedParts ==
  ASSUME TypeOK, FifoExactlyOnce, NEW w \in Conns
  PROVE  /\ Len(served[w]) \in Nat /\ Len(hand[w]) \in Nat /\ Len(pushed[w]) \in Nat
         /\ Len(served[w]) + Len(hand[w]) <= Len(pushed[w])
         /\ Len(served[w]) <= Len(pushed[w])
         /\ \A n \in 1 .. Len(served[w]) :
              n \in 1 .. Len(pushed[w]) /\ pushed[w][n] = served[w][n]
         /\ \A n \in 1 .. Len(hand[w]) : pushed[w][Len(served[w]) + n] = hand[w][n]
<1>1. PICK s \in Seq(PendingRequest) : s = served[w]
  BY DEF TypeOK
<1>2. PICK h \in Seq(PendingRequest) : h = hand[w]
  BY DEF TypeOK
<1>3. PICK q \in Seq(PendingRequest) : q = queue[w]
  BY DEF TypeOK
<1>4. pushed[w] = s \o h \o q
  BY <1>1, <1>2, <1>3 DEF FifoExactlyOnce
<1>5. /\ Len(s \o h \o q) = Len(s) + Len(h) + Len(q)
      /\ \A n \in 1 .. Len(s) : (s \o h \o q)[n] = s[n]
      /\ \A n \in 1 .. Len(h) : (s \o h \o q)[Len(s) + n] = h[n]
  BY ThreeParts, SMTT(30)
<1>6. Len(s) \in Nat /\ Len(h) \in Nat /\ Len(q) \in Nat
  OBVIOUS
<1>7. \A n \in 1 .. Len(s) : n \in 1 .. Len(s) + Len(h) + Len(q)
  BY <1>6
<1>8. /\ Len(s) + Len(h) <= Len(s) + Len(h) + Len(q) /\ Len(s) + Len(h) + Len(q) \in Nat
      /\ Len(s) <= Len(s) + Len(h) + Len(q)
  BY <1>6
<1> QED
  BY <1>1, <1>2, <1>4, <1>5, <1>6, <1>7, <1>8

\* The requests in queues q and hands h ...
IdsHeld(q, h) == UNION {IdsOf(q[w]) \cup IdsOf(h[w]) : w \in Conns}

\* ... are what was pushed and nobody is through with.
Unsettled(p, s) ==
  {r \in 0 .. total - 1 : \E w \in Conns :
     \E n \in 1 .. Len(p[w]) : n > Len(s[w]) /\ p[w][n].id = r}

\* The elements of a sequence.
LEMMA IdsOfSeq ==
  ASSUME NEW s \in Seq(PendingRequest)
  PROVE  IdsOf(s) = {s[n].id : n \in 1 .. Len(s)}
BY DEF IdsOf, Range

\* Exactly-once queues: p is s, then h, then q.
Splits(p, s, h, q) ==
  \A w \in Conns : p[w] = s[w] \o h[w] \o q[w]

\* With them the two are the same.
LEMMA HeldAreUnsettled ==
  ASSUME NEW P \in [Conns -> Seq(PendingRequest)], NEW S \in [Conns -> Seq(PendingRequest)],
         NEW H \in [Conns -> Seq(PendingRequest)], NEW Q \in [Conns -> Seq(PendingRequest)],
         Splits(P, S, H, Q)
  PROVE  IdsHeld(Q, H) = Unsettled(P, S)
<1>1. ASSUME NEW w \in Conns
      PROVE  /\ Len(S[w]) \in Nat /\ Len(H[w]) \in Nat /\ Len(Q[w]) \in Nat
             /\ Len(P[w]) = Len(S[w]) + Len(H[w]) + Len(Q[w])
             /\ \A n \in 1 .. Len(H[w]) : P[w][Len(S[w]) + n] = H[w][n]
             /\ \A n \in 1 .. Len(Q[w]) : P[w][Len(S[w]) + Len(H[w]) + n] = Q[w][n]
             /\ IdsOf(H[w]) = {H[w][n].id : n \in 1 .. Len(H[w])}
             /\ IdsOf(Q[w]) = {Q[w][n].id : n \in 1 .. Len(Q[w])}
  <2>1. S[w] \in Seq(PendingRequest) /\ H[w] \in Seq(PendingRequest)
        /\ Q[w] \in Seq(PendingRequest) /\ P[w] = S[w] \o H[w] \o Q[w]
    BY DEF Splits
  <2>2. /\ Len(P[w]) = Len(S[w]) + Len(H[w]) + Len(Q[w])
        /\ \A n \in 1 .. Len(H[w]) : P[w][Len(S[w]) + n] = H[w][n]
        /\ \A n \in 1 .. Len(Q[w]) : P[w][Len(S[w]) + Len(H[w]) + n] = Q[w][n]
    BY <2>1, ThreeParts
  <2> QED
    BY <2>1, <2>2, IdsOfSeq
<1>2. ASSUME NEW r \in IdsHeld(Q, H) PROVE r \in Unsettled(P, S)
  <2>1. PICK w \in Conns : r \in IdsOf(Q[w]) \cup IdsOf(H[w])
    BY DEF IdsHeld
  <2>2. \E n \in 1 .. Len(P[w]) : n > Len(S[w]) /\ P[w][n].id = r
    <3>1. CASE r \in IdsOf(H[w])
      <4>1. PICK n \in 1 .. Len(H[w]) : r = H[w][n].id
        BY <1>1, <3>1
      <4>2. /\ Len(S[w]) + n \in 1 .. Len(P[w]) /\ Len(S[w]) + n > Len(S[w])
            /\ P[w][Len(S[w]) + n].id = r
        BY <1>1, <4>1
      <4> QED
        BY <4>2
    <3>2. CASE r \in IdsOf(Q[w])
      <4>1. PICK n \in 1 .. Len(Q[w]) : r = Q[w][n].id
        BY <1>1, <3>2
      <4>2. /\ Len(S[w]) + Len(H[w]) + n \in 1 .. Len(P[w])
            /\ Len(S[w]) + Len(H[w]) + n > Len(S[w])
            /\ P[w][Len(S[w]) + Len(H[w]) + n].id = r
        BY <1>1, <4>1
      <4> QED
        BY <4>2
    <3> QED
      BY <2>1, <3>1, <3>2
  <2>3. PICK n \in 1 .. Len(P[w]) : n > Len(S[w]) /\ P[w][n].id = r
    BY <2>2
  <2>4. P[w][n] \in PendingRequest
    OBVIOUS
  <2>5. r \in 0 .. total - 1
    BY <2>3, <2>4 DEF PendingRequest
  <2> QED
    BY <2>3, <2>5 DEF Unsettled
<1>3. ASSUME NEW r \in Unsettled(P, S) PROVE r \in IdsHeld(Q, H)
  <2>1. PICK w \in Conns : \E n \in 1 .. Len(P[w]) : n > Len(S[w]) /\ P[w][n].id = r
    BY DEF Unsettled
  <2>2. PICK n \in 1 .. Len(P[w]) : n > Len(S[w]) /\ P[w][n].id = r
    BY <2>1
  <2>3. CASE n <= Len(S[w]) + Len(H[w])
    <3>1. n - Len(S[w]) \in 1 .. Len(H[w]) /\ Len(S[w]) + (n - Len(S[w])) = n
      BY <1>1, <2>2, <2>3
    <3>2. H[w][n - Len(S[w])].id = r
      BY <1>1, <2>2, <3>1, ZenonT(60)
    <3>3. r \in IdsOf(H[w])
      BY <1>1, <3>1, <3>2
    <3> QED
      BY <3>3 DEF IdsHeld
  <2>4. CASE n > Len(S[w]) + Len(H[w])
    <3> DEFINE m == n - (Len(S[w]) + Len(H[w]))
    <3>1. m \in 1 .. Len(Q[w]) /\ Len(S[w]) + Len(H[w]) + m = n
      BY <1>1, <2>2, <2>4
    <3> HIDE DEF m
    <3>2. Q[w][m].id = r
      BY <1>1, <2>2, <3>1
    <3>3. r \in IdsOf(Q[w])
      BY <1>1, <3>1, <3>2
    <3> QED
      BY <3>3 DEF IdsHeld
  <2> QED
    BY <1>1, <2>3, <2>4
<1> QED
  BY <1>2, <1>3

\* A push is of a new request, and only what a worker ends settles.
LEMMA OnceStep == TypeOK /\ OnceInv /\ [Next]_vars => OnceInv'
<1> SUFFICES ASSUME TypeOK, OnceInv, [Next]_vars PROVE OnceInv'
  OBVIOUS
<1>1. CASE pushes
  <2>1. PICK size \in Sizes, w \in Conns :
          /\ Len(pushed'[w]) = Len(pushed[w]) + 1
          /\ \A n \in 1 .. Len(pushed[w]) : pushed'[w][n] = pushed[w][n]
          /\ pushed'[w][Len(pushed[w]) + 1].id = i
          /\ \A v \in Conns : v # w => pushed'[v] = pushed[v]
    BY <1>1, PushElements
  <2>2. i' = i + 1 /\ UNCHANGED <<answered, failed, served>>
    BY <1>1 DEF pushes, workerVars
  <2>3. i \in Nat /\ \A v \in Conns : Len(pushed[v]) \in Nat
    BY TotalIsNat DEF TypeOK
  <2>4. \A v \in Conns : \A n \in 1 .. Len(pushed[v]) :
          pushed[v][n].id < i /\ pushed[v][n].id \in Nat
    <3>1. \A v \in Conns : \A n \in 1 .. Len(pushed[v]) : pushed[v][n] \in PendingRequest
      BY DEF TypeOK
    <3>2. \A e \in PendingRequest : e.id \in Nat
      BY TotalIsNat DEF PendingRequest
    <3> QED
      BY <3>1, <3>2 DEF OnceInv
  <2>5. ASSUME NEW v \in Conns, NEW n \in 1 .. Len(pushed'[v])
        PROVE  \/ v = w /\ n = Len(pushed[w]) + 1 /\ pushed'[v][n].id = i
               \/ n \in 1 .. Len(pushed[v]) /\ pushed'[v][n] = pushed[v][n]
    BY <2>1, <2>3
  <2>6. ASSUME NEW v \in Conns, NEW n \in 1 .. Len(pushed'[v])
        PROVE  pushed'[v][n].id < i + 1
    <3>1. CASE pushed'[v][n].id = i
      BY <2>3, <3>1
    <3>2. CASE n \in 1 .. Len(pushed[v]) /\ pushed'[v][n] = pushed[v][n]
      BY <2>3, <2>4, <3>2
    <3> QED
      BY <2>5, <3>1, <3>2
  <2>7. ASSUME NEW u \in Conns, NEW v \in Conns, NEW m \in 1 .. Len(pushed'[u]),
               NEW n \in 1 .. Len(pushed'[v]), pushed'[u][m].id = pushed'[v][n].id
        PROVE  u = v /\ m = n
    <3>1. CASE m \in 1 .. Len(pushed[u]) /\ pushed'[u][m] = pushed[u][m]
      <4>1. pushed[u][m].id < i /\ pushed[u][m].id \in Nat
        BY <2>4, <3>1
      <4>2. n \in 1 .. Len(pushed[v]) /\ pushed'[v][n] = pushed[v][n]
        BY <2>3, <2>5, <2>7, <3>1, <4>1, SMTT(30)
      <4> QED
        BY <2>7, <3>1, <4>2 DEF OnceInv
    <3>2. CASE u = w /\ m = Len(pushed[w]) + 1 /\ pushed'[u][m].id = i
      <4>1. ASSUME n \in 1 .. Len(pushed[v]), pushed'[v][n] = pushed[v][n] PROVE FALSE
        <5>1. pushed[v][n].id = i /\ pushed[v][n].id < i
          BY <2>4, <2>7, <3>2, <4>1
        <5> QED
          BY <2>3, <5>1
      <4> QED
        BY <2>5, <3>2, <4>1
    <3> QED
      BY <2>5, <3>1, <3>2
  <2> QED
    BY <2>2, <2>6, <2>7 DEF OnceInv
<1>2. ASSUME NEW w \in Conns, NEW ok \in BOOLEAN, wpc[w] = "request", account(w, ok)
      PROVE  OnceInv'
  <2>1. PICK r \in 0 .. total - 1 :
          /\ served'[w] = Append(served[w], hand[w][1])
          /\ hand[w][1] \in PendingRequest /\ hand[w][1].id = r
          /\ \A v \in Conns : v # w => served'[v] = served[v]
          /\ answered' = IF ok THEN answered \cup {r} ELSE answered
          /\ failed' = IF ok THEN failed ELSE failed \cup {r}
    BY <1>2, AccountElements
  <2>2. UNCHANGED <<i, pushed>>
    BY <1>2 DEF account, dispatchVars, queueVars
  <2>3. served[w] \in Seq(PendingRequest) /\ Len(served[w]) \in Nat
    BY DEF TypeOK
  <2>4. /\ Len(served'[w]) = Len(served[w]) + 1
        /\ \A n \in 1 .. Len(served[w]) : served'[w][n] = served[w][n]
        /\ served'[w][Len(served[w]) + 1] = hand[w][1]
    BY <2>1, <2>3, AppendElements
  <2>5. ASSUME NEW x \in answered' \cup failed'
        PROVE  \E v \in Conns : \E n \in 1 .. Len(served'[v]) : served'[v][n].id = x
    <3>1. CASE x = r
      <4>1. Len(served[w]) + 1 \in 1 .. Len(served'[w])
        BY <2>3, <2>4
      <4> QED
        BY <2>1, <2>4, <3>1, <4>1
    <3>2. CASE x \in answered \cup failed
      <4>1. PICK v \in Conns : \E n \in 1 .. Len(served[v]) : served[v][n].id = x
        BY <3>2 DEF OnceInv
      <4>2. PICK n \in 1 .. Len(served[v]) : served[v][n].id = x
        BY <4>1
      <4>3. n \in 1 .. Len(served'[v]) /\ served'[v][n] = served[v][n]
        <5>1. CASE v = w
          BY <2>3, <2>4, <4>2, <5>1
        <5>2. CASE v # w
          BY <2>1, <4>2, <5>2
        <5> QED
          BY <5>1, <5>2
      <4> QED
        BY <4>2, <4>3
    <3> QED
      BY <2>1, <3>1, <3>2
  <2> QED
    BY <2>2, <2>5 DEF OnceInv
<1>3. CASE UNCHANGED <<i, pushed, served, answered, failed>>
  BY <1>3 DEF OnceInv
<1> QED
  BY <1>1, <1>2, <1>3, RequestSteps DEF pop, dispatchVars

\* Every request is pushed once.
LEMMA OnceInvariance == Spec => []OnceInv
<1>1. Init => OnceInv
  BY DEF Init, OnceInv
<1> QED
  BY <1>1, TypeInvariance, OnceStep, PTL DEF Spec

\* What the steps of the refinement may use.
RefineInv ==
  /\ TypeOK /\ PhaseInv /\ ExitInv /\ FifoExactlyOnce /\ CoverInv
  /\ ServedInv /\ SampleInv /\ OnceInv

\* All of it holds.
LEMMA RefineInvariance == Spec => []RefineInv
<1>1. TypeOK /\ PhaseInv /\ ExitInv /\ FifoExactlyOnce /\ CoverInv /\ ServedInv /\ SampleInv
        /\ OnceInv => RefineInv
  BY DEF RefineInv
<1> QED
  BY <1>1, TypeInvariance, PhaseInvariance, FifoExactlyOnceHolds, CoverInvariance,
     ServedInvariance, OnceInvariance, PTL

\* In a reachable state, what is issued in the abstract run is what was pushed
\* and not settled.
LEMMA IssuedNow ==
  ASSUME TypeOK, FifoExactlyOnce
  PROVE  IdsHeld(queue, hand) = Unsettled(pushed, served)
<1>1. Splits(pushed, served, hand, queue)
  BY DEF FifoExactlyOnce, Splits
<1>2. /\ pushed \in [Conns -> Seq(PendingRequest)]
      /\ served \in [Conns -> Seq(PendingRequest)]
      /\ hand \in [Conns -> Seq(PendingRequest)]
      /\ queue \in [Conns -> Seq(PendingRequest)]
  BY DEF TypeOK
<1> QED
  BY <1>1, <1>2, HeldAreUnsettled

\* The same after a step.
LEMMA IssuedNext ==
  ASSUME TypeOK', FifoExactlyOnce'
  PROVE  IdsHeld(queue', hand') = Unsettled(pushed', served')
<1>1. Splits(pushed', served', hand', queue')
  BY DEF FifoExactlyOnce, Splits
<1>2. /\ pushed' \in [Conns -> Seq(PendingRequest)]
      /\ served' \in [Conns -> Seq(PendingRequest)]
      /\ hand' \in [Conns -> Seq(PendingRequest)]
      /\ queue' \in [Conns -> Seq(PendingRequest)]
  BY DEF TypeOK
<1> QED
  BY <1>1, <1>2, HeldAreUnsettled

\* A settled request is not issued.
LEMMA SettledNotUnsettled ==
  ASSUME RefineInv, NEW r \in answered \cup failed
  PROVE  r < i /\ r \notin Unsettled(pushed, served)
<1>1. PICK w \in Conns : \E n \in 1 .. Len(served[w]) : served[w][n].id = r
  BY DEF RefineInv, OnceInv
<1>2. PICK n \in 1 .. Len(served[w]) : served[w][n].id = r
  BY <1>1
<1>3. n \in 1 .. Len(pushed[w]) /\ pushed[w][n] = served[w][n] /\ Len(served[w]) \in Nat
  BY PushedParts DEF RefineInv
<1>4. r < i
  BY <1>2, <1>3 DEF RefineInv, OnceInv
<1>5. ASSUME NEW v \in Conns, NEW m \in 1 .. Len(pushed[v]), m > Len(served[v])
      PROVE  pushed[v][m].id # r
  <2> SUFFICES ASSUME pushed[v][m].id = r PROVE FALSE
    OBVIOUS
  <2>1. v = w /\ m = n
    BY <1>2, <1>3 DEF RefineInv, OnceInv
  <2> QED
    BY <1>2, <1>3, <1>5, <2>1
<1> QED
  BY <1>4, <1>5 DEF Unsettled

\* A push issues the next request.
LEMMA PushIssues ==
  ASSUME RefineInv, RefineInv', pushes
  PROVE  \E r \in 0 .. total - 1 : Run!Issue(r)
<1>1. PICK size \in Sizes, w \in Conns :
        /\ Len(pushed'[w]) = Len(pushed[w]) + 1
        /\ \A n \in 1 .. Len(pushed[w]) : pushed'[w][n] = pushed[w][n]
        /\ pushed'[w][Len(pushed[w]) + 1].id = i
        /\ \A v \in Conns : v # w => pushed'[v] = pushed[v]
  BY PushElements DEF RefineInv
<1>2. /\ i \in 0 .. total - 1 /\ UNCHANGED <<served, answered, failed, result>>
      /\ result = NoResult
  BY TotalIsNat DEF pushes, workerVars, RefineInv, TypeOK, PhaseInv
<1>3. \A v \in Conns : Len(pushed[v]) \in Nat /\ Len(served[v]) \in Nat
                       /\ Len(served[v]) <= Len(pushed[v])
  BY PushedParts DEF RefineInv
<1>4. Unsettled(pushed', served') = Unsettled(pushed, served) \cup {i}
  <2>1. ASSUME NEW r \in Unsettled(pushed', served')
        PROVE  r \in Unsettled(pushed, served) \cup {i}
    <3>1. PICK v \in Conns : \E n \in 1 .. Len(pushed'[v]) :
                 n > Len(served[v]) /\ pushed'[v][n].id = r
      BY <1>2 DEF Unsettled
    <3>2. PICK n \in 1 .. Len(pushed'[v]) : n > Len(served[v]) /\ pushed'[v][n].id = r
      BY <3>1
    <3>3. CASE n \in 1 .. Len(pushed[v])
      <4>1. pushed[v][n].id = r
        BY <1>1, <3>2, <3>3
      <4> QED
        BY <3>2, <3>3, <4>1 DEF Unsettled
    <3>4. CASE n \notin 1 .. Len(pushed[v])
      <4>1. v = w /\ n = Len(pushed[w]) + 1
        BY <1>1, <1>3, <3>4
      <4> QED
        BY <1>1, <3>2, <4>1
    <3> QED
      BY <3>3, <3>4
  <2>2. ASSUME NEW r \in Unsettled(pushed, served)
        PROVE  r \in Unsettled(pushed', served')
    <3>1. PICK v \in Conns : \E n \in 1 .. Len(pushed[v]) :
                 n > Len(served[v]) /\ pushed[v][n].id = r
      BY DEF Unsettled
    <3>2. PICK n \in 1 .. Len(pushed[v]) : n > Len(served[v]) /\ pushed[v][n].id = r
      BY <3>1
    <3>3. n \in 1 .. Len(pushed'[v]) /\ pushed'[v][n] = pushed[v][n]
      <4>1. CASE v = w
        BY <1>1, <1>3, <3>2, <4>1
      <4>2. CASE v # w
        BY <1>1, <3>2, <4>2
      <4> QED
        BY <4>1, <4>2
    <3>4. r \in 0 .. total - 1
      BY DEF Unsettled
    <3> QED
      BY <1>2, <3>2, <3>3, <3>4 DEF Unsettled
  <2>3. i \in Unsettled(pushed', served')
    <3>1. Len(pushed[w]) + 1 \in 1 .. Len(pushed'[w]) /\ Len(pushed[w]) + 1 > Len(served'[w])
      BY <1>1, <1>2, <1>3
    <3> QED
      BY <1>1, <1>2, <3>1 DEF Unsettled
  <2> QED
    BY <2>1, <2>2, <2>3
<1>5. i \notin Unsettled(pushed, served)
  <2>1. \A v \in Conns : \A n \in 1 .. Len(pushed[v]) : pushed[v][n].id < i
    BY DEF RefineInv, OnceInv
  <2>2. i \in Nat
    BY <1>2, TotalIsNat
  <2>3. ~(i < i)
    BY <2>2
  <2> QED
    BY <2>1, <2>3 DEF Unsettled
<1>6. i \notin answered \cup failed
  <2>1. \A r \in answered \cup failed : r < i
    BY SettledNotUnsettled
  <2>2. i \in Nat
    BY <1>2, TotalIsNat
  <2>3. ~(i < i)
    BY <2>2
  <2> QED
    BY <2>1, <2>3
<1>7. /\ IdsHeld(queue, hand) = Unsettled(pushed, served)
      /\ IdsHeld(queue', hand') = Unsettled(pushed', served')
  BY IssuedNow, IssuedNext DEF RefineInv
<1>8. i \notin IdsHeld(queue, hand) \cup answered \cup failed
      /\ IdsHeld(queue', hand') = IdsHeld(queue, hand) \cup {i}
  BY <1>4, <1>5, <1>6, <1>7
<1>9. Run!Issue(i)
  BY <1>2, <1>8 DEF Run!Issue, Run!NoReport, IdsHeld
<1> QED
  BY <1>2, <1>9

\* The end of do_request() answers or fails the request in the worker's hand.
LEMMA AccountSettles ==
  ASSUME RefineInv, RefineInv', NEW w \in Conns, NEW ok \in BOOLEAN,
         wpc[w] = "request", account(w, ok)
  PROVE  \E r \in 0 .. total - 1 : Run!Answer(r) \/ Run!Fail(r)
<1>1. PICK r \in 0 .. total - 1 :
        /\ served'[w] = Append(served[w], hand[w][1])
        /\ hand[w][1] \in PendingRequest /\ hand[w][1].id = r
        /\ \A v \in Conns : v # w => served'[v] = served[v]
        /\ answered' = IF ok THEN answered \cup {r} ELSE answered
        /\ failed' = IF ok THEN failed ELSE failed \cup {r}
  BY AccountElements DEF RefineInv
<1>2. UNCHANGED <<pushed, result>>
  BY DEF account, dispatchVars, queueVars
<1>3. Len(served'[w]) = Len(served[w]) + 1
  BY <1>1 DEF RefineInv, TypeOK
<1> DEFINE p == Len(served[w]) + 1
<1>4. p \in 1 .. Len(pushed[w]) /\ pushed[w][p].id = r /\ Len(served[w]) \in Nat
  <2>1. Len(hand[w]) = 1
    BY DEF RefineInv, TypeOK
  <2>2. /\ Len(served[w]) \in Nat /\ Len(pushed[w]) \in Nat
        /\ Len(served[w]) + Len(hand[w]) <= Len(pushed[w])
        /\ \A n \in 1 .. Len(hand[w]) : pushed[w][Len(served[w]) + n] = hand[w][n]
    BY PushedParts DEF RefineInv
  <2>3. 1 \in 1 .. Len(hand[w])
    BY <2>1
  <2> QED
    BY <1>1, <2>1, <2>2, <2>3
<1>5. \A v \in Conns : \A n \in 1 .. Len(pushed[v]) : pushed[v][n].id = r => v = w /\ n = p
  BY <1>4, SMTT(30) DEF RefineInv, OnceInv
<1>6. ASSUME NEW v \in Conns, NEW n \in 1 .. Len(pushed[v])
      PROVE  n > Len(served'[v]) <=> n > Len(served[v]) /\ ~(v = w /\ n = p)
  <2>1. CASE v = w
    BY <1>3, <1>4, <2>1
  <2>2. CASE v # w
    BY <1>1, <2>2
  <2> QED
    BY <2>1, <2>2
<1> HIDE DEF p
<1>7. Unsettled(pushed', served') = Unsettled(pushed, served) \ {r}
  <2>1. ASSUME NEW x \in Unsettled(pushed', served')
        PROVE  x \in Unsettled(pushed, served) /\ x # r
    <3>1. PICK v \in Conns : \E n \in 1 .. Len(pushed[v]) :
                 n > Len(served'[v]) /\ pushed[v][n].id = x
      BY <1>2 DEF Unsettled
    <3>2. PICK n \in 1 .. Len(pushed[v]) : n > Len(served'[v]) /\ pushed[v][n].id = x
      BY <3>1
    <3>3. n > Len(served[v]) /\ ~(v = w /\ n = p)
      BY <1>6, <3>2
    <3>4. x \in 0 .. total - 1
      BY DEF Unsettled
    <3> QED
      BY <1>5, <3>2, <3>3, <3>4 DEF Unsettled
  <2>2. ASSUME NEW x \in Unsettled(pushed, served), x # r
        PROVE  x \in Unsettled(pushed', served')
    <3>1. PICK v \in Conns : \E n \in 1 .. Len(pushed[v]) :
                 n > Len(served[v]) /\ pushed[v][n].id = x
      BY DEF Unsettled
    <3>2. PICK n \in 1 .. Len(pushed[v]) : n > Len(served[v]) /\ pushed[v][n].id = x
      BY <3>1
    <3>3. n > Len(served'[v])
      BY <1>4, <1>6, <2>2, <3>2
    <3>4. x \in 0 .. total - 1
      BY DEF Unsettled
    <3> QED
      BY <1>2, <3>2, <3>3, <3>4 DEF Unsettled
  <2> QED
    BY <2>1, <2>2
<1>8. r \in Unsettled(pushed, served)
  <2>1. p > Len(served[w])
    BY <1>4 DEF p
  <2> QED
    BY <1>4, <2>1 DEF Unsettled
<1>9. /\ IdsHeld(queue, hand) = Unsettled(pushed, served)
      /\ IdsHeld(queue', hand') = Unsettled(pushed', served')
  BY IssuedNow, IssuedNext DEF RefineInv
<1>10. r \in IdsHeld(queue, hand) /\ IdsHeld(queue', hand') = IdsHeld(queue, hand) \ {r}
  BY <1>7, <1>8, <1>9
<1>11. CASE ok = TRUE
  <2>1. Run!Answer(r)
    BY <1>1, <1>2, <1>10, <1>11 DEF Run!Answer, IdsHeld
  <2> QED
    BY <2>1
<1>12. CASE ok = FALSE
  <2>1. Run!Fail(r)
    BY <1>1, <1>2, <1>10, <1>12 DEF Run!Fail, IdsHeld
  <2> QED
    BY <2>1
<1> QED
  BY <1>11, <1>12

\* Every step of the client is one of the abstract run, or none.
LEMMA RefinementStep ==
  RefineInv /\ RefineInv' /\ [Next]_vars => [Run!Next]_(Run!vars)
<1> SUFFICES ASSUME RefineInv, RefineInv', [Next]_vars PROVE [Run!Next]_(Run!vars)
  OBVIOUS
<1>1. CASE pushes
  <2>1. \E r \in 0 .. total - 1 : Run!Issue(r)
    BY <1>1, PushIssues
  <2> QED
    BY <2>1 DEF Run!Next
<1>2. ASSUME NEW w \in Conns, NEW ok \in BOOLEAN, wpc[w] = "request", account(w, ok)
      PROVE  [Run!Next]_(Run!vars)
  <2>1. \E r \in 0 .. total - 1 : Run!Answer(r) \/ Run!Fail(r)
    BY <1>2, AccountSettles
  <2> QED
    BY <2>1 DEF Run!Next
<1>3. CASE join
  <2>1. /\ result = NoResult /\ result' # NoResult
        /\ UNCHANGED <<queue, hand, answered, failed>>
    BY <1>3 DEF join, RefineInv, PhaseInv, NoResult, workerVars, queueVars
  <2>2. answered \cup failed = 0 .. total - 1
    BY <1>3, JoinFindsAllSettled DEF RefineInv
  <2>3. result'[1].latency = {r \in answered : r >= Warmup}
    BY <1>3, JoinCollectsSamples DEF RefineInv
  <2>4. {r \in answered : r >= Warmup} = answered \ {r \in 0 .. total - 1 : r < Warmup}
    <3>1. \A r \in answered : r \in 0 .. total - 1 /\ (r >= Warmup <=> ~(r < Warmup))
      BY TotalIsNat, RequestsAssumption DEF RefineInv, TypeOK
    <3> QED
      BY <3>1
  <2>5. Run!Report
    BY <2>1, <2>2, <2>3, <2>4 DEF Run!Report, Run!NoReport
  <2> QED
    BY <2>5 DEF Run!Next
<1>4. ASSUME NEW w \in Conns, pop(w) PROVE [Run!Next]_(Run!vars)
  <2>1. UNCHANGED <<pushed, served, answered, failed, result>>
    BY <1>4 DEF pop, dispatchVars
  <2>2. /\ IdsHeld(queue, hand) = Unsettled(pushed, served)
        /\ IdsHeld(queue', hand') = Unsettled(pushed', served')
    BY IssuedNow, IssuedNext DEF RefineInv
  <2>3. IdsHeld(queue', hand') = IdsHeld(queue, hand)
    BY <2>1, <2>2
  <2> QED
    BY <2>1, <2>3 DEF Run!vars, IdsHeld
<1>5. CASE UNCHANGED <<queue, hand, answered, failed, result>>
  BY <1>5 DEF Run!vars
<1>6. join \/ UNCHANGED result
  BY DispatchCases
  DEF Next, Dispatcher, Worker, Terminated, vars,
     dispatchVars, workerVars, queueVars, memberVars,
     connect_all, connect_throws, connected, spawn, pushes, traps,
     clear_running, close_all, load_running, check_size, pop, pop_timeout,
     request_ok, request_fails, account, link_down
<1> QED
  BY <1>1, <1>2, <1>3, <1>4, <1>5, <1>6, RequestSteps

\* The open-loop client implements the abstract benchmark run: through queues,
\* worker threads and failing connections every request is issued once and
\* settled once, and the report comes after all of them.
THEOREM OpenLoopRefines == Spec => ImplementsBenchmarkRun
<1>1. Init => Run!Init
  <2> SUFFICES ASSUME Init PROVE Run!Init
    OBVIOUS
  <2>1. \A w \in Conns : IdsOf(queue[w]) = {} /\ IdsOf(hand[w]) = {}
    BY DEF Init, IdsOf, Range
  <2> QED
    BY <2>1 DEF Init, Run!Init, Run!NoReport, NoResult
<1>2. RefineInv /\ RefineInv' /\ [Next]_vars => [Run!Next]_(Run!vars)
  BY RefinementStep
<1> QED
  BY <1>1, <1>2, RefineInvariance, PTL DEF Spec, ImplementsBenchmarkRun, Run!Spec
=============================================================================
