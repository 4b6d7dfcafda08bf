------------------------ MODULE HomaOpenLoop_proofs ------------------------
(***************************************************************************)
(* The Homa open-loop client for any number of requests, any warm-up and   *)
(* any width of its counters: which responses it measures, however the     *)
(* sender, the receiver and the transport interleave.                      *)
(***************************************************************************)
EXTENDS HomaOpenLoop, Integers, FiniteSetTheorems, TLAPS

\* The requests the sender is done with, and those it has handed to Homa.
Entered == 0 .. i - 1
Issued == IF spc = "insert" THEN 0 .. i ELSE Entered

\* The responses the receiver has taken from the socket, or Homa has given up.
Gone == {r \in Ids : rpc[r] = "gone"}

\* Where the two threads are, and what the sender has counted.
ThreadInv ==
  /\ spc = "insert" => i < total
  /\ spc \in {"start", "resolve", "threw"} => i = 0
  /\ spc = "start" => recvpc = "none"
  /\ total_bytes = i
  /\ recvpc = "lookup" => hand \in Ids

\* An RPC is in the transport only after it was issued, and its entry is in
\* the map from insert_pending to the lookup of its response.
EntryInv ==
  /\ \A r \in Ids : rpc[r] # "none" => r \in Issued
  /\ spc = "insert" => rpc[i] # "none"
  /\ \A r \in pending : r \in Entered /\ rpc[r] # "none"
  /\ \A r \in Ids : r \in Entered /\ rpc[r] \notin {"none", "gone"} => r \in pending

\* The response at hand is counted in none of the sets yet; a response that
\* overtook its entry is measured by nobody and its entry stays.
HandInv ==
  recvpc = "lookup" =>
    /\ rpc[hand] = "gone"
    /\ hand \notin overtaken \cup Range(samples)
    /\ hand \in Entered => hand \in pending

OvertakenInv ==
  \A r \in overtaken : /\ rpc[r] = "gone"
                       /\ r \in pending \/ (spc = "insert" /\ r = i)

SampledInv == Range(samples) \subseteq Entered

\* The count of responses cannot wrap.
Handled == IF recvpc = "lookup" THEN received_count + 1 ELSE received_count
CountInv == Handled <= Cardinality(Gone)

Late == IF received_count > Warmup THEN received_count - Warmup ELSE 0
LateInv ==
  Len(samples) <= Late /\ Late <= Len(samples) + Cardinality(overtaken)

ResultInv ==
  result # NoResult => /\ spc = "done" /\ recvpc = "exited"
                       /\ result[1].latency = samples

IInv ==
  /\ TypeOK /\ ThreadInv /\ EntryInv /\ HandInv /\ OvertakenInv /\ SampledInv
  /\ SampledOnce /\ CountInv /\ LateInv /\ ResultInv

-----------------------------------------------------------------------------
\* The number of RPCs fits the counters.
LEMMA TotalType == total \in Nat /\ total < Word /\ Warmup \in Nat
BY RequestsAssumption, WordAssumption DEF total

\* No more RPCs can be gone than there are.
LEMMA GoneFinite == IsFiniteSet(Gone) /\ Cardinality(Gone) \in Nat /\ Cardinality(Gone) <= total
<1>1. IsFiniteSet(Ids) /\ Cardinality(Ids) = total
  <2>1. IsFiniteSet(0 .. total - 1)
        /\ Cardinality(0 .. total - 1) = IF 0 > total - 1 THEN 0 ELSE total - 1 - 0 + 1
    BY TotalType, FS_Interval
  <2> QED
    BY <2>1, TotalType DEF Ids
<1>2. Gone \subseteq Ids
  BY DEF Gone
<1>3. IsFiniteSet(Gone) /\ Cardinality(Gone) <= Cardinality(Ids)
  BY <1>1, <1>2, FS_Subset
<1>4. Cardinality(Gone) \in Nat
  BY <1>3, FS_CardinalityType
<1> QED
  BY <1>1, <1>3, <1>4

\* One more RPC that is gone.
LEMMA OneMoreGone ==
  ASSUME TypeOK, NEW r \in Ids, rpc[r] # "gone", rpc' = [rpc EXCEPT ![r] = "gone"]
  PROVE  Cardinality(Gone)' = Cardinality(Gone) + 1
<1>1. Gone' = Gone \cup {r} /\ r \notin Gone
  BY DEF Gone, TypeOK
<1>2. IsFiniteSet(Gone)
  BY GoneFinite
<1> QED
  BY <1>1, <1>2, FS_AddElement

\* What Append() does to the samples.
LEMMA OneMoreSample ==
  ASSUME NEW S, NEW s \in Seq(S), NEW x \in S
  PROVE  /\ Append(s, x) \in Seq(S) /\ Len(Append(s, x)) = Len(s) + 1
         /\ Range(Append(s, x)) = Range(s) \cup {x}
         /\ IsInjective(s) /\ x \notin Range(s) => IsInjective(Append(s, x))
<1> DEFINE t == Append(s, x)
<1>1. /\ t \in Seq(S) /\ Len(t) = Len(s) + 1 /\ Len(s) \in Nat
      /\ DOMAIN s = 1 .. Len(s) /\ DOMAIN t = 1 .. Len(s) + 1
      /\ t[Len(s) + 1] = x /\ \A m \in 1 .. Len(s) : t[m] = s[m]
  OBVIOUS
<1> HIDE DEF t
<1>2. DOMAIN t = DOMAIN s \cup {Len(s) + 1} /\ Len(s) + 1 \notin DOMAIN s
  BY <1>1
<1>3. Range(t) = Range(s) \cup {x}
  BY <1>1, <1>2 DEF Range
<1>4. ASSUME IsInjective(s), x \notin Range(s) PROVE IsInjective(t)
  BY <1>1, <1>2, <1>4 DEF IsInjective, Range
<1> QED
  BY <1>1, <1>3, <1>4 DEF t

-----------------------------------------------------------------------------
\* Before the threads start.
LEMMA InitIInv == Init => IInv
<1> SUFFICES ASSUME Init PROVE IInv
  OBVIOUS
<1> USE DEF Init
<1>1. \A S : <<>> \in Seq(S)
  OBVIOUS
<1>2. Len(samples) = 0 /\ Len(result) = 0 /\ Range(samples) = {} /\ IsInjective(samples)
  BY DEF Range, IsInjective, NoResult
<1>3. TypeOK
  BY <1>1, <1>2, TotalType, WordAssumption DEF TypeOK, NoResult, Terminal
<1>4. ThreadInv /\ EntryInv /\ HandInv /\ OvertakenInv
  BY DEF ThreadInv, EntryInv, HandInv, OvertakenInv
<1>5. SampledInv /\ SampledOnce
  BY <1>2 DEF SampledInv, SampledOnce
<1>6. CountInv
  BY GoneFinite DEF CountInv, Handled
<1>7. LateInv
  BY <1>2, TotalType, FS_EmptySet DEF LateInv, Late
<1>8. ResultInv
  BY DEF ResultInv
<1> QED
  BY <1>3, <1>4, <1>5, <1>6, <1>7, <1>8 DEF IInv

\* The steps of the sender that send nothing, and those of the receiver that
\* find nothing.
LEMMA QuietStep ==
  ASSUME IInv, UNCHANGED <<i, total_bytes, result, pending, rpc, hand, received_count,
                           samples, overtaken>>,
         \/ spc' = spc
         \/ spc' \in {"start", "resolve", "send", "join"} \cup Terminal /\ spc # "insert",
         \/ recvpc' = recvpc
         \/ recvpc' \in {"none", "loop", "recv", "exited"} /\ recvpc # "lookup",
         receiving' \in BOOLEAN,
         spc' \in {"start", "resolve", "threw"} => i = 0,
         spc' = "start" => recvpc' = "none", result = NoResult \/ UNCHANGED <<spc, recvpc>>
  PROVE  IInv'
<1>1. TypeOK'
  BY DEF IInv, TypeOK
<1>2. ThreadInv' /\ EntryInv' /\ HandInv' /\ OvertakenInv' /\ SampledInv'
  BY DEF IInv, ThreadInv, EntryInv, HandInv, OvertakenInv, SampledInv, Entered, Issued, Terminal
<1>3. SampledOnce' /\ LateInv' /\ ResultInv'
  BY DEF IInv, SampledOnce, LateInv, Late, ResultInv
<1>4. CountInv'
  BY DEF IInv, CountInv, Handled, Gone
<1> QED
  BY <1>1, <1>2, <1>3, <1>4 DEF IInv


\* sock.send_request(): the RPC is out before it has an entry.
LEMMA SendRequestStep == IInv /\ send_request => IInv'
<1> SUFFICES ASSUME IInv, send_request PROVE IInv'
  OBVIOUS
<1>1. /\ spc = "send" /\ i < total /\ spc' = "insert" /\ rpc' = [rpc EXCEPT ![i] = "sent"]
      /\ UNCHANGED <<i, receiving, total_bytes, result, pending, recvpc, hand>>
      /\ UNCHANGED <<received_count, samples, overtaken>>
  BY DEF send_request, receiverVars
<1>2. i \in Ids /\ rpc[i] = "none" /\ i \in Nat
  BY <1>1, TotalType DEF IInv, TypeOK, EntryInv, Issued, Entered, Ids
<1>3. TypeOK'
  BY <1>1, <1>2 DEF IInv, TypeOK
<1>4. ThreadInv' /\ EntryInv'
  BY <1>1, <1>2, TotalType DEF IInv, TypeOK, ThreadInv, EntryInv, Issued, Entered, Ids
<1>5. HandInv' /\ OvertakenInv' /\ SampledInv'
  BY <1>1, <1>2 DEF IInv, TypeOK, HandInv, OvertakenInv, SampledInv, Entered, ThreadInv
<1>6. SampledOnce'
  <2>1. \A r \in Range(samples) : r \in Ids /\ r # i
    BY <1>1, <1>2, TotalType DEF IInv, SampledInv, Entered, Ids
  <2> QED
    BY <1>1, <2>1 DEF IInv, TypeOK, SampledOnce
<1>7. Gone' = Gone
  BY <1>1, <1>2 DEF IInv, TypeOK, Gone
<1>8. CountInv' /\ LateInv' /\ ResultInv'
  BY <1>1, <1>7 DEF IInv, CountInv, Handled, LateInv, Late, ResultInv
<1> QED
  BY <1>3, <1>4, <1>5, <1>6, <1>8 DEF IInv

\* A request that could not be sent leaves no entry and no RPC.
LEMMA SendFailsStep == IInv /\ send_fails => IInv'
<1> SUFFICES ASSUME IInv, send_fails PROVE IInv'
  OBVIOUS
<1>1. /\ spc = "send" /\ i < total /\ i' = i + 1 /\ total_bytes' = total_bytes + 1
      /\ UNCHANGED <<spc, receiving, result, pending, rpc, recvpc, hand>>
      /\ UNCHANGED <<received_count, samples, overtaken>>
  BY DEF send_fails, receiverVars
<1>2. i \in Ids /\ rpc[i] = "none" /\ i \in Nat
  BY <1>1, TotalType DEF IInv, TypeOK, EntryInv, Issued, Entered, Ids
<1>3. TypeOK'
  BY <1>1, <1>2, TotalType DEF IInv, TypeOK, ThreadInv
<1>4. ThreadInv' /\ EntryInv'
  BY <1>1, <1>2, TotalType DEF IInv, TypeOK, ThreadInv, EntryInv, Issued, Entered, Ids
<1>5. HandInv' /\ OvertakenInv' /\ SampledInv'
  BY <1>1, <1>2 DEF IInv, TypeOK, HandInv, OvertakenInv, SampledInv, Entered, ThreadInv, Ids
<1>6. SampledOnce' /\ CountInv' /\ LateInv' /\ ResultInv'
  BY <1>1 DEF IInv, SampledOnce, CountInv, Handled, Gone, LateInv, Late, ResultInv
<1> QED
  BY <1>3, <1>4, <1>5, <1>6 DEF IInv

\* pending[rpc_id] = ..., when the response may have been received already.
LEMMA InsertPendingStep == IInv /\ insert_pending => IInv'
<1> SUFFICES ASSUME IInv, insert_pending PROVE IInv'
  OBVIOUS
<1>1. /\ spc = "insert" /\ spc' = "send" /\ i' = i + 1 /\ total_bytes' = total_bytes + 1
      /\ pending' = pending \cup {i}
      /\ UNCHANGED <<receiving, result, rpc, recvpc, hand>>
      /\ UNCHANGED <<received_count, samples, overtaken>>
  BY DEF insert_pending, receiverVars
<1>2. i \in Ids /\ rpc[i] # "none" /\ i \in Nat /\ i < total
  BY <1>1, TotalType DEF IInv, TypeOK, ThreadInv, EntryInv, Ids
<1>3. TypeOK'
  BY <1>1, <1>2, TotalType DEF IInv, TypeOK, ThreadInv
<1>4. ThreadInv' /\ EntryInv'
  BY <1>1, <1>2, TotalType DEF IInv, TypeOK, ThreadInv, EntryInv, Issued, Entered, Ids
<1>5. HandInv' /\ OvertakenInv' /\ SampledInv'
  BY <1>1, <1>2 DEF IInv, TypeOK, HandInv, OvertakenInv, SampledInv, Entered, ThreadInv, Ids
<1>6. SampledOnce'
  <2>1. i \notin Range(samples)
    BY <1>2 DEF IInv, SampledInv, Entered
  <2> QED
    BY <1>1, <2>1 DEF IInv, SampledOnce
<1>7. CountInv' /\ LateInv' /\ ResultInv'
  BY <1>1 DEF IInv, CountInv, Handled, Gone, LateInv, Late, ResultInv
<1> QED
  BY <1>3, <1>4, <1>5, <1>6, <1>7 DEF IInv

\* receiver.join(), and the result.
LEMMA JoinStep == IInv /\ join_receiver => IInv'
<1> SUFFICES ASSUME IInv, join_receiver PROVE IInv'
  OBVIOUS
<1>1. /\ spc = "join" /\ spc' = "done" /\ recvpc = "exited"
      /\ result' = <<[latency |-> samples, total_bytes |-> total_bytes]>>
      /\ UNCHANGED <<i, receiving, total_bytes, pending, rpc, recvpc, hand>>
      /\ UNCHANGED <<received_count, samples, overtaken>>
  BY DEF join_receiver, receiverVars
<1>2. result'[1].latency = samples /\ result'[1] \in [latency : Seq(Ids), total_bytes : Nat]
      /\ Len(result') = 1 /\ result' \in Seq([latency : Seq(Ids), total_bytes : Nat])
  <2> DEFINE x == [latency |-> samples, total_bytes |-> total_bytes]
  <2>1. x \in [latency : Seq(Ids), total_bytes : Nat] /\ x.latency = samples
    BY DEF IInv, TypeOK
  <2> HIDE DEF x
  <2>2. result' = <<x>>
    BY <1>1 DEF x
  <2> QED
    BY <2>1, <2>2
<1>3. TypeOK'
  BY <1>1, <1>2 DEF IInv, TypeOK, Terminal
<1>4. ThreadInv' /\ EntryInv' /\ HandInv' /\ OvertakenInv' /\ SampledInv'
  BY <1>1 DEF IInv, ThreadInv, EntryInv, HandInv, OvertakenInv, SampledInv, Entered, Issued
<1>5. SampledOnce' /\ CountInv' /\ LateInv'
  BY <1>1 DEF IInv, SampledOnce, CountInv, Handled, Gone, LateInv, Late
<1>6. ResultInv'
  BY <1>1, <1>2 DEF ResultInv
<1> QED
  BY <1>3, <1>4, <1>5, <1>6 DEF IInv

\* The transport answers an RPC or gives it up.
LEMMA TransportStep == ASSUME IInv, NEW r \in Ids, transport(r) PROVE IInv'
<1>1. /\ rpc[r] = "sent" /\ spc \notin Terminal
      /\ rpc' = [rpc EXCEPT ![r] = "answered"] \/ rpc' = [rpc EXCEPT ![r] = "given_up"]
      /\ UNCHANGED <<spc, i, receiving, total_bytes, result, pending, recvpc, hand>>
      /\ UNCHANGED <<received_count, samples, overtaken>>
  BY DEF transport, senderVars, receiverVars
<1>2. TypeOK'
  BY <1>1 DEF IInv, TypeOK
<1>3. ThreadInv' /\ EntryInv'
  BY <1>1, TotalType, SMTT(30) DEF IInv, TypeOK, ThreadInv, EntryInv, Issued, Entered, Ids
<1>4. HandInv' /\ OvertakenInv' /\ SampledInv'
  BY <1>1 DEF IInv, TypeOK, HandInv, OvertakenInv, SampledInv, Entered, ThreadInv
<1>5. SampledOnce'
  BY <1>1 DEF IInv, TypeOK, SampledOnce, Range
<1>6. Gone' = Gone
  BY <1>1 DEF IInv, TypeOK, Gone
<1>7. CountInv' /\ LateInv' /\ ResultInv'
  BY <1>1, <1>6 DEF IInv, CountInv, Handled, LateInv, Late, ResultInv
<1> QED
  BY <1>2, <1>3, <1>4, <1>5, <1>7 DEF IInv

\* sock.recv() has a response, or the report of an RPC that was given up.
LEMMA RecvStep ==
  ASSUME IInv, Alive, recvpc = "recv", NEW r \in Ids, rpc' = [rpc EXCEPT ![r] = "gone"],
         \/ rpc[r] = "answered" /\ recvpc' = "lookup" /\ hand' = r
         \/ rpc[r] = "given_up" /\ recvpc' = "loop" /\ hand' = hand,
         UNCHANGED <<received_count, samples, overtaken, senderVars, pending>>
  PROVE  IInv'
<1>1. /\ UNCHANGED <<spc, i, receiving, total_bytes, result, pending>>
      /\ UNCHANGED <<received_count, samples, overtaken>>
  BY DEF senderVars
<1>2. rpc[r] \notin {"none", "gone"} /\ r \in Nat
  BY DEF Ids
<1>3. TypeOK'
  BY <1>1, <1>2 DEF IInv, TypeOK
<1>4. ThreadInv'
  BY <1>1 DEF IInv, ThreadInv
<1>5. EntryInv' /\ SampledInv'
  BY <1>1, <1>2 DEF IInv, TypeOK, EntryInv, SampledInv, Issued, Entered, Ids
<1>6. r \notin overtaken \cup Range(samples)
  BY <1>2 DEF IInv, OvertakenInv, SampledOnce
<1>7. HandInv'
  BY <1>1, <1>2, <1>6 DEF IInv, TypeOK, HandInv, EntryInv, Entered
<1>8. OvertakenInv'
  BY <1>1 DEF IInv, TypeOK, OvertakenInv
<1>9. SampledOnce'
  BY <1>1 DEF IInv, TypeOK, SampledOnce
<1>10. CountInv'
  <2>1. Cardinality(Gone)' = Cardinality(Gone) + 1
    BY <1>2, OneMoreGone DEF IInv
  <2> QED
    BY <1>1, <2>1, GoneFinite DEF IInv, TypeOK, CountInv, Handled
<1>11. LateInv' /\ ResultInv'
  BY <1>1 DEF IInv, LateInv, Late, ResultInv
<1> QED
  BY <1>3, <1>4, <1>5, <1>7, <1>8, <1>9, <1>10, <1>11 DEF IInv

\* The lookup under pending_mu: a sample, a warm-up response, or one that the
\* sender has not entered yet.
LEMMA LookupStep == IInv /\ lookup => IInv'
<1> SUFFICES ASSUME IInv, lookup PROVE IInv'
  OBVIOUS
<1>1. /\ recvpc = "lookup" /\ recvpc' = "loop"
      /\ pending' = pending \ {hand}
      /\ overtaken' = IF hand \in pending THEN overtaken ELSE overtaken \cup {hand}
      /\ samples' = IF hand \in pending /\ received_count' > Warmup
                    THEN Append(samples, hand) ELSE samples
      /\ UNCHANGED <<spc, i, receiving, total_bytes, result, rpc, hand>>
  BY DEF lookup, senderVars
<1>2. /\ hand \in Ids /\ hand \in Nat /\ rpc[hand] = "gone"
      /\ hand \notin overtaken \cup Range(samples)
      /\ hand \in Entered => hand \in pending
      /\ samples \in Seq(Ids) /\ overtaken \subseteq Ids
  BY <1>1 DEF IInv, ThreadInv, HandInv, TypeOK, Ids
<1>3. received_count' = received_count + 1 /\ received_count \in Nat
      /\ received_count + 1 < Word
  <2>1. received_count + 1 <= Cardinality(Gone) /\ received_count \in Nat
    BY <1>1, WordAssumption DEF IInv, CountInv, Handled, TypeOK
  <2>2. received_count + 1 < Word
    BY <2>1, GoneFinite, TotalType, WordAssumption
  <2> QED
    BY <2>1, <2>2, WordAssumption DEF lookup
<1>4. /\ samples' \in Seq(Ids) /\ Len(samples) \in Nat
      /\ Len(samples') = IF hand \in pending /\ received_count' > Warmup
                         THEN Len(samples) + 1 ELSE Len(samples)
      /\ Range(samples') \subseteq Range(samples) \cup {x \in {hand} : hand \in pending}
      /\ IsInjective(samples')
  BY <1>1, <1>2, OneMoreSample DEF IInv, SampledOnce
<1>5. TypeOK'
  BY <1>1, <1>2, <1>3, <1>4, WordAssumption DEF IInv, TypeOK
<1>6. ThreadInv' /\ EntryInv'
  BY <1>1, <1>2 DEF IInv, TypeOK, ThreadInv, EntryInv, Issued, Entered
<1>7. HandInv' /\ ResultInv'
  BY <1>1 DEF IInv, HandInv, ResultInv
<1>8. OvertakenInv'
  <2>1. hand \notin pending => spc = "insert" /\ hand = i
    BY <1>2 DEF IInv, TypeOK, EntryInv, Issued, Entered
  <2> QED
    BY <1>1, <1>2, <2>1 DEF IInv, OvertakenInv
<1>9. SampledInv'
  BY <1>1, <1>4 DEF IInv, SampledInv, EntryInv, Entered
<1>10. SampledOnce'
  BY <1>1, <1>2, <1>4 DEF IInv, SampledOnce
<1>11. CountInv'
  BY <1>1, <1>3 DEF IInv, CountInv, Handled, Gone
<1>12. LateInv'
  <2>1. IsFiniteSet(overtaken) /\ Cardinality(overtaken) \in Nat
    <3>1. overtaken \subseteq Gone
      BY <1>2 DEF IInv, OvertakenInv, Gone
    <3>2. IsFiniteSet(overtaken)
      BY <3>1, GoneFinite, FS_Subset
    <3> QED
      BY <3>2, FS_CardinalityType
  <2>2. hand \notin pending => Cardinality(overtaken') = Cardinality(overtaken) + 1
    BY <1>1, <1>2, <2>1, FS_AddElement
  <2>3. hand \in pending => overtaken' = overtaken
    BY <1>1
  <2>4. Len(samples) <= Late /\ Late <= Len(samples) + Cardinality(overtaken)
    BY DEF IInv, LateInv
  <2>5. Late' = IF received_count' > Warmup THEN received_count' - Warmup ELSE 0
    BY DEF Late
  <2> QED
    BY <1>3, <1>4, <2>1, <2>2, <2>3, <2>4, <2>5, TotalType DEF LateInv, Late
<1> QED
  BY <1>5, <1>6, <1>7, <1>8, <1>9, <1>10, <1>11, <1>12 DEF IInv

\* Every step of sender, receiver and transport keeps the invariant.
LEMMA StepIInv == IInv /\ [Next]_vars => IInv'
<1> SUFFICES ASSUME IInv, [Next]_vars PROVE IInv'
  OBVIOUS
<1>1. CASE Sender
  <2>1. CASE start_receiver \/ start_throws \/ resolved \/ clear_receiving
    <3>1. /\ UNCHANGED <<i, total_bytes, result, pending, rpc, hand>>
          /\ UNCHANGED <<received_count, samples, overtaken>>
          /\ spc \in {"start", "resolve", "send"} /\ spc' \in {"resolve", "send", "threw", "join"}
          /\ spc' \in {"resolve", "threw"} => spc \in {"start", "resolve"}
      BY <2>1 DEF start_receiver, start_throws, resolved, clear_receiving, receiverVars
    <3>2. recvpc' = recvpc \/ (recvpc' = "loop" /\ spc = "start")
      BY <2>1 DEF start_receiver, start_throws, resolved, clear_receiving, receiverVars
    <3>3. receiving' \in BOOLEAN
      BY <2>1 DEF start_receiver, start_throws, resolved, clear_receiving, IInv, TypeOK
    <3>4. /\ spc \in {"start", "resolve"} => i = 0
          /\ spc = "start" => recvpc = "none"
          /\ result = NoResult
      BY <3>1 DEF IInv, ThreadInv, ResultInv
    <3> QED
      BY <3>1, <3>2, <3>3, <3>4, QuietStep DEF Terminal
  <2> QED
    BY <1>1, <2>1, SendRequestStep, SendFailsStep, InsertPendingStep, JoinStep DEF Sender
<1>2. CASE Receiver
  <2>1. ASSUME recvpc \in {"loop", "recv"}, recvpc' \in {"loop", "recv", "exited"},
               UNCHANGED <<hand, received_count, samples, overtaken, senderVars, pending, rpc>>
        PROVE  IInv'
    <3>1. /\ UNCHANGED <<spc, i, receiving, total_bytes, result, pending, rpc, hand>>
          /\ UNCHANGED <<received_count, samples, overtaken>>
      BY <2>1 DEF senderVars
    <3>2. spc # "start" /\ result = NoResult
          /\ (spc \in {"resolve", "threw"} => i = 0)
      BY <2>1 DEF IInv, ThreadInv, ResultInv
    <3>3. receiving' \in BOOLEAN
      BY <3>1 DEF IInv, TypeOK
    <3> QED
      BY <2>1, <3>1, <3>2, <3>3, QuietStep
  <2>2. CASE recv_response
    BY <2>2, RecvStep DEF recv_response
  <2>3. CASE recv_fails
    BY <2>1, <2>3, RecvStep DEF recv_fails
  <2>4. CASE receiver_check
    BY <2>1, <2>4 DEF receiver_check
  <2> QED
    BY <1>2, <2>2, <2>3, <2>4, LookupStep DEF Receiver
<1>3. CASE \E r \in Ids : transport(r)
  BY <1>3, TransportStep
<1>4. CASE UNCHANGED vars
  <2>1. UNCHANGED <<spc, i, receiving, total_bytes, result, pending, rpc, recvpc, hand>>
        /\ UNCHANGED <<received_count, samples, overtaken>>
    BY <1>4 DEF vars, senderVars, receiverVars
  <2>2. TypeOK' /\ ThreadInv' /\ EntryInv' /\ HandInv' /\ OvertakenInv' /\ SampledInv'
    BY <2>1 DEF IInv, TypeOK, ThreadInv, EntryInv, HandInv, OvertakenInv, SampledInv,
       Entered, Issued
  <2>3. SampledOnce' /\ CountInv' /\ LateInv' /\ ResultInv'
    BY <2>1 DEF IInv, SampledOnce, CountInv, Handled, Gone, LateInv, Late, ResultInv
  <2> QED
    BY <2>2, <2>3 DEF IInv
<1> QED
  BY <1>1, <1>2, <1>3, <1>4 DEF Next, Terminated

\* The invariant holds in every behaviour of sender, receiver and transport.
THEOREM Invariance == Spec => []IInv
BY InitIInv, StepIInv, PTL DEF Spec

-----------------------------------------------------------------------------
\* The counters of run_open_loop and open_loop_receiver keep their range.
THEOREM TypeCorrect == Spec => []TypeOK
<1>1. IInv => TypeOK
  BY DEF IInv
<1> QED
  BY <1>1, Invariance, PTL

\* open_loop_receiver measures no response twice, and none it has not received.
THEOREM MeasuredOnce == Spec => []SampledOnce
<1>1. IInv => SampledOnce
  BY DEF IInv
<1> QED
  BY <1>1, Invariance, PTL

\* The responses that open_loop_receiver leaves out, and the entries that stay
\* in `pending` when run_open_loop returns.
THEOREM UnmeasuredAreKnown == Spec => []NothingElseUnmeasured
<1>1. IInv => NothingElseUnmeasured
  <2> SUFFICES ASSUME IInv PROVE NothingElseUnmeasured
    OBVIOUS
  <2>1. LeftInPending
    <3> SUFFICES ASSUME result # NoResult PROVE LeftInPending
      BY DEF LeftInPending
    <3>1. spc = "done" /\ result[1].latency = samples
      BY DEF IInv, ResultInv
    <3>2. overtaken \subseteq pending /\ \A r \in pending : rpc[r] # "none"
      BY <3>1 DEF IInv, OvertakenInv, EntryInv
    <3> QED
      BY <3>1, <3>2 DEF IInv, SampledOnce, LeftInPending
  <2> QED
    BY <2>1 DEF IInv, LateInv, Late, NothingElseUnmeasured
<1> QED
  BY <1>1, Invariance, PTL

=============================================================================
