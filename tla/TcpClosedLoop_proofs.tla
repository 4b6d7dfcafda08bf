------------------------ MODULE TcpClosedLoop_proofs ------------------------
(***************************************************************************)
(* The TCP closed-loop client for any pool, any number of requests and any *)
(* width of its loop counters: the shares of the workers are the requests  *)
(* that were asked for, whatever becomes of the connections, and a run is  *)
(* one that BenchmarkRun allows.                                           *)
(***************************************************************************)
EXTENDS TcpClosedLoop, Integers, FiniteSetTheorems, TLAPS

\* The stages of the main thread at which workers run and have been joined.
Joined == {"add", "close", "done"}

\* Where the threads are, and how far a worker is with its share.
StageInv ==
  /\ i \in [Conns -> Nat]
  /\ dpc \in {"connect", "threw"} => \A w \in Conns : wpc[w] = "none"
  /\ dpc = "spawn" => k < PoolSize /\ \A w \in Conns : w >= k => wpc[w] = "none"
  /\ dpc \in Joined => \A w \in Conns : wpc[w] = "exited"
  /\ \A w \in Conns : /\ wpc[w] = "request" => i[w] < rounds(w)
                      /\ wpc[w] = "exited" => i[w] = rounds(w)

\* A worker has settled the requests that are behind it, each in one way.
SettledInv ==
  /\ answered \cap failed = {}
  /\ answered \cup failed = {r \in Requests : r[2] < i[r[1]]}

\* It has one sample of each answered request that is not warm-up.
SampledInv ==
  \A w \in Conns :
    /\ IsInjective(samples[w])
    /\ Range(samples[w]) = {n \in Nat : <<w, n>> \in answered /\ warmup <= n}

\* The latencies that have been put together are those of the first workers.
Added == {r \in answered \ Warm : r[1] < k}
AddedInv ==
  /\ dpc \notin Joined => latency = <<>>
  /\ dpc = "add" => IsInjective(latency) /\ Range(latency) = Added

\* The result has a sample of every answered request that is not warm-up.
ResultInv ==
  IF dpc \in {"close", "done"}
  THEN /\ result # NoResult
       /\ result[1].latency = answered \ Warm
       /\ result[1].total_requests = Cardinality(answered \ Warm)
  ELSE result = NoResult

IInv == TypeOK /\ StageInv /\ SettledInv /\ SampledInv /\ AddedInv /\ ResultInv

-----------------------------------------------------------------------------
\* The number of a worker's rounds is a number.
LEMMA RoundsType ==
  /\ warmup \in Nat
  /\ \A w \in Conns : w \in Nat /\ count(w) \in Nat /\ rounds(w) \in Nat
BY PoolAssumption, LoadAssumption DEF rounds, warmup, count, Conns

\* A request is a worker and the number of one of its rounds.
LEMMA IsRequest ==
  /\ \A r \in Requests : /\ r[1] \in Conns /\ r[2] \in Nat /\ r[2] < rounds(r[1])
                         /\ r = <<r[1], r[2]>>
  /\ \A w \in Conns, n \in Nat : n < rounds(w) => <<w, n>> \in Requests
<1>1. ASSUME NEW r \in Requests
      PROVE  /\ r[1] \in Conns /\ r[2] \in Nat /\ r[2] < rounds(r[1])
             /\ r = <<r[1], r[2]>>
  <2>1. PICK w \in Conns : r \in {<<w, n>> : n \in 0 .. rounds(w) - 1}
    BY DEF Requests
  <2>2. PICK n \in 0 .. rounds(w) - 1 : r = <<w, n>>
    BY <2>1
  <2> QED
    BY <2>2, RoundsType
<1>2. ASSUME NEW w \in Conns, NEW n \in Nat, n < rounds(w) PROVE <<w, n>> \in Requests
  <2>1. n \in 0 .. rounds(w) - 1
    BY <1>2, RoundsType
  <2> QED
    BY <2>1 DEF Requests
<1> QED
  BY <1>1, <1>2

\* The planned requests are finitely many.
LEMMA RequestsFinite == IsFiniteSet(Requests)
<1>1. CounterMod \in Nat \ {0} /\ PoolSize \in Nat
  BY PoolAssumption
<1>2. \A w \in Conns : rounds(w) < CounterMod
  BY <1>1, RoundsType DEF rounds
<1>3. Requests \subseteq Conns \X (0 .. CounterMod)
  <2> SUFFICES ASSUME NEW r \in Requests PROVE r \in Conns \X (0 .. CounterMod)
    OBVIOUS
  <2>1. r[1] \in Conns /\ r[2] \in Nat /\ r[2] < rounds(r[1]) /\ r = <<r[1], r[2]>>
    BY IsRequest
  <2>2. r[2] \in 0 .. CounterMod
    BY <1>1, <1>2, <2>1, RoundsType
  <2> QED
    BY <2>1, <2>2
<1>4. IsFiniteSet(Conns) /\ IsFiniteSet(0 .. CounterMod)
  BY <1>1, FS_Interval DEF Conns
<1>5. IsFiniteSet(Conns \X (0 .. CounterMod))
  BY <1>4, FS_Product
<1> QED
  BY <1>3, <1>5, FS_Subset

\* A sequence without repetitions has as many elements as it is long.
LEMMA DistinctLength ==
  ASSUME NEW S, NEW s \in Seq(S), IsInjective(s)
  PROVE  Len(s) = Cardinality(Range(s)) /\ IsFiniteSet(Range(s))
<1>1. DOMAIN s = 1 .. Len(s) /\ Len(s) \in Nat /\ s \in [1 .. Len(s) -> Range(s)]
  BY DEF Range
<1>2. s \in Bijection(1 .. Len(s), Range(s))
  BY <1>1 DEF Bijection, Injection, Surjection, Range
<1>3. IsFiniteSet(1 .. Len(s)) /\ Cardinality(1 .. Len(s)) = Len(s)
  BY <1>1, FS_Interval, SMTT(30)
<1>4. ExistsBijection(1 .. Len(s), Range(s))
  BY <1>2 DEF ExistsBijection
<1> QED
  BY <1>3, <1>4, FS_Bijection

\* What Append() does to the samples.
LEMMA OneMoreSample ==
  ASSUME NEW s \in Seq(Nat), NEW x \in Nat
  PROVE  /\ Append(s, x) \in Seq(Nat)
         /\ Range(Append(s, x)) = Range(s) \cup {x}
         /\ IsInjective(s) /\ x \notin Range(s) => IsInjective(Append(s, x))
<1> DEFINE t == Append(s, x)
<1>1. /\ t \in Seq(Nat) /\ Len(s) \in Nat
      /\ DOMAIN s = 1 .. Len(s) /\ DOMAIN t = 1 .. Len(s) + 1
      /\ t[Len(s) + 1] = x /\ \A m \in 1 .. Len(s) : t[m] = s[m]
  OBVIOUS
<1> HIDE DEF t
<1>2. DOMAIN t = DOMAIN s \cup {Len(s) + 1} /\ Len(s) + 1 \notin DOMAIN s
  BY <1>1
<1>3. Range(t) = Range(s) \cup {x}
  BY <1>1, <1>2, SMTT(30) DEF Range
<1>4. ASSUME IsInjective(s), x \notin Range(s) PROVE IsInjective(t)
  BY <1>1, <1>2, <1>4 DEF IsInjective, Range
<1> QED
  BY <1>1, <1>3, <1>4 DEF t

\* What add_samples() does to sequences without an element in common.
LEMMA Joining ==
  ASSUME NEW S, NEW s \in Seq(S), NEW t \in Seq(S), IsInjective(s), IsInjective(t),
         Range(s) \cap Range(t) = {}
  PROVE  s \o t \in Seq(S) /\ IsInjective(s \o t) /\ Range(s \o t) = Range(s) \cup Range(t)
<1> DEFINE u == s \o t
<1>1. /\ u \in Seq(S) /\ Len(s) \in Nat /\ Len(t) \in Nat
      /\ DOMAIN s = 1 .. Len(s) /\ DOMAIN t = 1 .. Len(t) /\ DOMAIN u = 1 .. Len(s) + Len(t)
      /\ \A m \in 1 .. Len(s) : u[m] = s[m]
      /\ \A m \in 1 .. Len(t) : u[Len(s) + m] = t[m]
  OBVIOUS
<1> HIDE DEF u
<1>2. \A m \in DOMAIN u : \/ m \in DOMAIN s /\ u[m] = s[m]
                          \/ m - Len(s) \in DOMAIN t /\ u[m] = t[m - Len(s)]
  <2> SUFFICES ASSUME NEW m \in 1 .. Len(s) + Len(t), m \notin 1 .. Len(s)
               PROVE  m - Len(s) \in 1 .. Len(t) /\ u[m] = t[m - Len(s)]
    BY <1>1
  <2>1. m - Len(s) \in 1 .. Len(t) /\ m = Len(s) + (m - Len(s))
    BY <1>1
  <2> QED
    BY <1>1, <2>1
<1>3. Range(u) = Range(s) \cup Range(t)
  <2>1. Range(u) \subseteq Range(s) \cup Range(t)
    BY <1>2 DEF Range
  <2>2. Range(s) \subseteq Range(u)
    BY <1>1 DEF Range
  <2>3. ASSUME NEW m \in 1 .. Len(t) PROVE t[m] \in Range(u)
    <3>1. Len(s) + m \in DOMAIN u /\ u[Len(s) + m] = t[m]
      BY <1>1
    <3>2. \E x \in DOMAIN u : t[m] = u[x]
      BY <3>1
    <3> QED
      BY <3>2 DEF Range
  <2>4. Range(t) \subseteq Range(u)
    <3> SUFFICES ASSUME NEW m \in DOMAIN t PROVE t[m] \in Range(u)
      BY Zenon DEF Range
    <3> QED
      BY <1>1, <2>3
  <2> QED
    BY <2>1, <2>2, <2>4
<1>4. IsInjective(u)
  <2> SUFFICES ASSUME NEW a \in DOMAIN u, NEW b \in DOMAIN u, u[a] = u[b] PROVE a = b
    BY DEF IsInjective
  <2>1. a \in Int /\ b \in Int
    BY <1>1
  <2>2. CASE a \in DOMAIN s /\ u[a] = s[a] /\ b \in DOMAIN s /\ u[b] = s[b]
    BY <2>2 DEF IsInjective
  <2>3. CASE /\ a - Len(s) \in DOMAIN t /\ u[a] = t[a - Len(s)]
             /\ b - Len(s) \in DOMAIN t /\ u[b] = t[b - Len(s)]
    <3>1. a - Len(s) = b - Len(s)
      BY <2>3 DEF IsInjective
    <3> QED
      BY <1>1, <2>1, <3>1
  <2>4. ~(a \in DOMAIN s /\ u[a] = s[a] /\ b - Len(s) \in DOMAIN t /\ u[b] = t[b - Len(s)])
    BY DEF Range
  <2>5. ~(b \in DOMAIN s /\ u[b] = s[b] /\ a - Len(s) \in DOMAIN t /\ u[a] = t[a - Len(s)])
    BY DEF Range
  <2> QED
    BY <1>2, <2>2, <2>3, <2>4, <2>5
<1> QED
  BY <1>1, <1>3, <1>4 DEF u

-----------------------------------------------------------------------------
\* The split.

\* Quotient and remainder.
LEMMA DivMod ==
  ASSUME NEW p \in Nat \ {0}, NEW c \in Nat
  PROVE  c = p * (c \div p) + (c % p) /\ c % p \in 0 .. p - 1 /\ c \div p \in Nat
OBVIOUS

\* A larger quotient makes up for any remainder.
LEMMA Quotients ==
  ASSUME NEW p \in Nat \ {0}, NEW a \in Int, NEW b \in Int, a < b,
         NEW r \in 0 .. p - 1, NEW s \in 0 .. p - 1
  PROVE  p * a + r < p * b + s
<1>1. ASSUME NEW d \in Int, d >= 1 PROVE p * d >= p
  BY <1>1
<1>2. p * (b - a) >= p /\ p * (b - a) = p * b - p * a
  BY <1>1
<1>3. p * a \in Int /\ p * b \in Int
  OBVIOUS
<1> QED
  BY <1>2, <1>3

\* Two numbers with the same quotient and remainder are one.
LEMMA OneQuotient ==
  ASSUME NEW p \in Nat \ {0}, NEW a \in Int, NEW b \in Int,
         NEW r \in 0 .. p - 1, NEW s \in 0 .. p - 1, p * a + r = p * b + s
  PROVE  a = b /\ r = s
<1>1. p * a + r \in Int /\ p * b + s \in Int
  OBVIOUS
<1>2. ~(a < b) /\ ~(b < a)
  BY <1>1, Quotients
<1>3. a = b
  BY <1>2
<1> QED
  BY <1>3

\* The number of rounds of no worker wraps: its warm-up and its share together
\* are a number of the width of the loop counter.
NoWrap == \A w \in Conns : warmup + count(w) < CounterMod

\* Then its loop ends after both.
LEMMA RoundsAreShare ==
  ASSUME NoWrap, NEW w \in Conns
  PROVE  rounds(w) = warmup + count(w)
<1> DEFINE c == warmup + count(w)
<1>1. c \in 0 .. CounterMod - 1 /\ CounterMod \in Nat \ {0}
  BY RoundsType, PoolAssumption DEF NoWrap
<1> HIDE DEF c
<1>2. c = CounterMod * (c \div CounterMod) + (c % CounterMod)
      /\ c % CounterMod \in 0 .. CounterMod - 1 /\ c \div CounterMod \in Int
  BY <1>1, DivMod
<1>3. CounterMod * 0 + c = CounterMod * (c \div CounterMod) + (c % CounterMod)
  BY <1>1, <1>2
<1>4. c = c % CounterMod
  BY <1>1, <1>2, <1>3, OneQuotient
<1> QED
  BY <1>4 DEF rounds, c

\* The warm-up requests are the same number for every worker.
LEMMA WarmCount ==
  ASSUME NoWrap
  PROVE  IsFiniteSet(Warm) /\ Cardinality(Warm) = PoolSize * (Warmup \div PoolSize)
<1>1. Warm = Conns \X (0 .. warmup - 1)
  <2>1. ASSUME NEW r \in Warm PROVE r \in Conns \X (0 .. warmup - 1)
    <3>1. r[1] \in Conns /\ r[2] \in Nat /\ r = <<r[1], r[2]>> /\ r[2] < warmup
      BY IsRequest DEF Warm
    <3> QED
      BY <3>1, RoundsType
  <2>2. ASSUME NEW w \in Conns, NEW n \in 0 .. warmup - 1 PROVE <<w, n>> \in Warm
    <3>1. n \in Nat /\ n < warmup
      BY RoundsType
    <3>2. n < rounds(w)
      BY <3>1, RoundsType, RoundsAreShare
    <3>3. <<w, n>> \in Requests
      BY <3>1, <3>2, IsRequest
    <3> QED
      BY <3>1, <3>3 DEF Warm
  <2> QED
    BY <2>1, <2>2
<1>2. IsFiniteSet(Conns) /\ Cardinality(Conns) = PoolSize
  <2>1. PoolSize \in Nat \ {0} /\ 0 \in Int /\ PoolSize - 1 \in Int
    BY PoolAssumption
  <2>2. IsFiniteSet(0 .. PoolSize - 1)
        /\ Cardinality(0 .. PoolSize - 1) = IF 0 > PoolSize - 1 THEN 0 ELSE PoolSize - 1 - 0 + 1
    BY <2>1, FS_Interval
  <2> QED
    BY <2>1, <2>2 DEF Conns
<1>3. IsFiniteSet(0 .. warmup - 1) /\ Cardinality(0 .. warmup - 1) = warmup
  <2>1. warmup \in Nat /\ 0 \in Int /\ warmup - 1 \in Int
    BY RoundsType
  <2>2. IsFiniteSet(0 .. warmup - 1)
        /\ Cardinality(0 .. warmup - 1) = IF 0 > warmup - 1 THEN 0 ELSE warmup - 1 - 0 + 1
    BY <2>1, FS_Interval
  <2> QED
    BY <2>1, <2>2
<1>4. IsFiniteSet(Warm) /\ Cardinality(Warm) = PoolSize * warmup
  BY <1>1, <1>2, <1>3, FS_Product
<1> QED
  BY <1>4 DEF warmup

\* The others are as many as were asked for: request n after the warm-up of
\* worker w is number PoolSize * n + w of them.
LEMMA MeasuredCount ==
  ASSUME NoWrap
  PROVE  IsFiniteSet(Requests \ Warm) /\ Cardinality(Requests \ Warm) = NumRequests
<1> DEFINE P == PoolSize
           base == NumRequests \div P
           rem == NumRequests % P
           M == Requests \ Warm
           number == [r \in M |-> P * (r[2] - warmup) + r[1]]
<1>1. /\ P \in Nat \ {0} /\ NumRequests \in Nat /\ base \in Nat /\ rem \in 0 .. P - 1
      /\ NumRequests = P * base + rem
  BY PoolAssumption, LoadAssumption, DivMod
<1>2. \A w \in Conns : /\ w \in 0 .. P - 1
                       /\ rounds(w) = warmup + base + (IF w < rem THEN 1 ELSE 0)
  BY RoundsAreShare, RoundsType, <1>1 DEF count, Conns
<1> HIDE DEF P, base, rem
<1>3. ASSUME NEW r \in M
      PROVE  /\ r[1] \in Conns /\ r[2] - warmup \in Nat /\ r = <<r[1], r[2]>>
             /\ r[2] - warmup < base \/ (r[2] - warmup = base /\ r[1] < rem)
             /\ r[2] \in Nat
  <2>1. r[1] \in Conns /\ r[2] \in Nat /\ r[2] < rounds(r[1]) /\ r = <<r[1], r[2]>>
    BY IsRequest
  <2>2. ~(r[2] < warmup)
    BY DEF Warm
  <2>3. rounds(r[1]) = warmup + base + (IF r[1] < rem THEN 1 ELSE 0) /\ r[1] \in 0 .. P - 1
    BY <1>2, <2>1
  <2>4. warmup \in Nat
    BY RoundsType
  <2> QED
    BY <1>1, <2>1, <2>2, <2>3, <2>4
<1>4. ASSUME NEW w \in Conns, NEW n \in Nat, n < base \/ (n = base /\ w < rem)
      PROVE  <<w, warmup + n>> \in M
  <2>1. warmup + n \in Nat /\ warmup + n < rounds(w) /\ ~(warmup + n < warmup)
    BY <1>1, <1>2, <1>4, RoundsType
  <2>2. <<w, warmup + n>> \in Requests
    BY <2>1, IsRequest
  <2> QED
    BY <2>1, <2>2 DEF Warm
<1>5. ASSUME NEW r \in M PROVE number[r] \in 0 .. NumRequests - 1
  <2> DEFINE n == r[2] - warmup
  <2>1. n \in Nat /\ r[1] \in 0 .. P - 1 /\ (n < base \/ (n = base /\ r[1] < rem))
    BY <1>2, <1>3
  <2>2. number[r] = P * n + r[1]
    OBVIOUS
  <2> HIDE DEF n, number
  <2>3. P * n \in Nat
    BY <1>1, <2>1
  <2>4. P * n + r[1] < P * base + rem
    <3>1. CASE n < base
      BY <1>1, <2>1, <3>1, Quotients
    <3>2. CASE n = base /\ r[1] < rem
      BY <1>1, <2>1, <2>3, <3>2
    <3> QED
      BY <2>1, <3>1, <3>2
  <2> QED
    BY <1>1, <2>1, <2>2, <2>3, <2>4
<1>6. ASSUME NEW r \in M, NEW s \in M, number[r] = number[s] PROVE r = s
  <2> DEFINE n == r[2] - warmup
             m == s[2] - warmup
  <2>1. n \in Int /\ m \in Int /\ r[1] \in 0 .. P - 1 /\ s[1] \in 0 .. P - 1
    BY <1>2, <1>3
  <2>2. P * n + r[1] = P * m + s[1]
    BY <1>6
  <2> HIDE DEF n, m
  <2>3. n = m /\ r[1] = s[1]
    BY <1>1, <2>1, <2>2, OneQuotient
  <2>4. r[2] = s[2]
    <3>1. r[2] \in Nat /\ s[2] \in Nat /\ warmup \in Nat /\ r[2] - warmup = s[2] - warmup
      BY <1>3, <2>3, RoundsType DEF n, m
    <3> QED
      BY <3>1
  <2> QED
    BY <1>3, <2>3, <2>4
<1>7. ASSUME NEW x \in 0 .. NumRequests - 1 PROVE \E r \in M : number[r] = x
  <2> DEFINE w == x % P
             n == x \div P
  <2>1. x \in Nat /\ x < NumRequests
    BY <1>1
  <2>2. x = P * n + w /\ w \in 0 .. P - 1 /\ n \in Nat
    BY <1>1, <2>1, DivMod
  <2> HIDE DEF w, n
  <2>3. n < base \/ (n = base /\ w < rem)
    <3>1. ~(base < n)
      <4>1. base < n => P * base + rem < P * n + w
        BY <1>1, <2>2, Quotients
      <4> QED
        BY <1>1, <2>1, <2>2, <4>1
    <3>2. n = base => w < rem
      <4>1. P * base \in Int
        BY <1>1
      <4> QED
        BY <1>1, <2>1, <2>2, <4>1
    <3> QED
      BY <1>1, <2>2, <3>1, <3>2
  <2>4. w \in Conns
    BY <2>2 DEF Conns, P
  <2>5. <<w, warmup + n>> \in M
    BY <1>4, <2>2, <2>3, <2>4
  <2>6. <<w, warmup + n>>[2] - warmup = n /\ <<w, warmup + n>>[1] = w
    BY <2>2, RoundsType
  <2>7. number[<<w, warmup + n>>] = P * n + w
    BY <2>5, <2>6
  <2> QED
    BY <2>2, <2>5, <2>7
<1>8. number \in Bijection(M, 0 .. NumRequests - 1)
  <2>1. number \in [M -> 0 .. NumRequests - 1] /\ DOMAIN number = M
    BY <1>5
  <2> HIDE DEF number, M
  <2> QED
    BY <1>6, <1>7, <2>1 DEF Bijection, Injection, Surjection, IsInjective
<1>9. IsFiniteSet(M)
  BY RequestsFinite, FS_Subset
<1>10. Cardinality(0 .. NumRequests - 1) = Cardinality(M)
  BY <1>8, <1>9, FS_Bijection DEF ExistsBijection
<1>11. Cardinality(0 .. NumRequests - 1) = NumRequests
  <2>1. 0 \in Int /\ NumRequests - 1 \in Int /\ NumRequests \in Nat
    BY <1>1
  <2>2. Cardinality(0 .. NumRequests - 1) =
          IF 0 > NumRequests - 1 THEN 0 ELSE NumRequests - 1 - 0 + 1
    BY <2>1, FS_Interval
  <2> QED
    BY <2>1, <2>2
<1> QED
  BY <1>9, <1>10, <1>11

-----------------------------------------------------------------------------
\* Before the connections are made.
LEMMA InitIInv == Init => IInv
<1> SUFFICES ASSUME Init PROVE IInv
  OBVIOUS
<1> USE DEF Init
<1>1. \A S : <<>> \in Seq(S)
  OBVIOUS
<1>2. TypeOK
  BY <1>1, RoundsType, PoolAssumption DEF TypeOK, Terminal
<1>3. StageInv
  BY DEF StageInv, Joined
<1>4. SettledInv
  BY IsRequest DEF SettledInv
<1>5. SampledInv
  BY DEF SampledInv, Range, IsInjective
<1>6. AddedInv /\ ResultInv
  BY DEF AddedInv, ResultInv, Joined, NoResult
<1> QED
  BY <1>2, <1>3, <1>4, <1>5, <1>6 DEF IInv

\* A step of the main thread that leaves the workers, or the pool alone.
LEMMA MainStep ==
  IInv /\ (connect_all \/ connect_throws \/ connected \/ spawn \/ join \/ close_all
            \/ UNCHANGED vars \/ \E w \in Conns : link_down(w))
       => IInv'
<1> SUFFICES ASSUME IInv,
                    \/ connect_all \/ connect_throws \/ connected \/ spawn \/ join
                    \/ close_all \/ UNCHANGED vars \/ \E w \in Conns : link_down(w)
             PROVE  IInv'
  OBVIOUS
<1> USE DEF mainVars, workerVars, poolVars, vars
<1>1. CASE \/ connect_all \/ connect_throws \/ connected \/ join \/ close_all
           \/ UNCHANGED vars \/ \E w \in Conns : link_down(w)
  <2>1. UNCHANGED <<wpc, i, size, samples, total_bytes, answered, failed, latency, result>>
    BY <1>1 DEF connect_all, connect_throws, connected, join, close_all, link_down
  <2> DEFINE Kept == /\ k' \in 0 .. PoolSize
                     /\ dpc' \in {"connect", "spawn", "join", "add", "close"} \cup Terminal
                     /\ pool' \in [Conns -> {"unset", "open", "closed"}]
                     /\ link' \in [Conns -> {"up", "down"}]
  <2>a. ASSUME connect_all PROVE Kept
    BY <2>a, PoolAssumption DEF IInv, TypeOK, connect_all, Conns
  <2>b. ASSUME connect_throws \/ connected \/ join \/ UNCHANGED vars PROVE Kept
    BY <2>b, PoolAssumption DEF IInv, TypeOK, Terminal, connect_throws, connected, join
  <2>c. ASSUME close_all PROVE Kept
    BY <2>c DEF IInv, TypeOK, Terminal, close_all
  <2>d. ASSUME \E w \in Conns : link_down(w) PROVE Kept
    BY <2>d DEF IInv, TypeOK, link_down
  <2>2. TypeOK'
    <3>1. Kept
      BY <1>1, <2>a, <2>b, <2>c, <2>d
    <3> QED
      BY <2>1, <3>1 DEF IInv, TypeOK
  <2>3. StageInv'
    <3>1. PoolSize \in Nat \ {0} /\ \A w \in Conns : w \in Nat
      BY PoolAssumption, RoundsType
    <3>2. CASE connected
      BY <2>1, <3>1, <3>2 DEF IInv, StageInv, Joined, connected
    <3>3. CASE ~connected
      BY <1>1, <2>1, <3>3 DEF IInv, StageInv, Joined, connect_all, connect_throws, join,
         close_all, link_down
    <3> QED
      BY <3>2, <3>3
  <2>4. SettledInv' /\ SampledInv'
    BY <2>1 DEF IInv, SettledInv, SampledInv
  <2>5. AddedInv'
    <3>1. CASE join
      <4>1. latency' = <<>> /\ k' = 0 /\ dpc' = "add" /\ answered' = answered
        BY <2>1, <3>1 DEF join, IInv, AddedInv, Joined
      <4>2. Added' = {}
        <5>1. \A r \in answered : r[1] \in Nat
          BY IsRequest, RoundsType DEF IInv, TypeOK
        <5> QED
          BY <4>1, <5>1 DEF Added
      <4> QED
        BY <4>1, <4>2 DEF AddedInv, Joined, IsInjective, Range
    <3>2. CASE ~join
      BY <1>1, <2>1, <3>2 DEF IInv, AddedInv, Added, Joined, connect_all, connect_throws,
         connected, close_all, link_down
    <3> QED
      BY <3>1, <3>2
  <2>6. ResultInv'
    BY <1>1, <2>1 DEF IInv, ResultInv, connect_all, connect_throws, connected, join,
       close_all, link_down
  <2> QED
    BY <2>2, <2>3, <2>4, <2>5, <2>6 DEF IInv
<1>2. CASE spawn
  <2>1. /\ dpc = "spawn" /\ k < PoolSize /\ wpc' = [wpc EXCEPT ![k] = "loop"]
        /\ k' = k + 1 /\ dpc' = IF k + 1 = PoolSize THEN "join" ELSE "spawn"
        /\ UNCHANGED <<i, size, samples, total_bytes, answered, failed, latency, result,
                      pool, link>>
    BY <1>2 DEF spawn
  <2>2. k \in Conns /\ k \in Nat /\ wpc[k] = "none" /\ PoolSize \in Nat
    BY <2>1, PoolAssumption DEF IInv, TypeOK, StageInv, Conns
  <2>3. TypeOK'
    BY <2>1, <2>2 DEF IInv, TypeOK
  <2>4. StageInv'
    <3>1. \A w \in Conns : w \in Nat /\ (w >= k + 1 => w # k /\ w >= k)
      BY <2>2 DEF Conns
    <3>2. \A w \in Conns : wpc'[w] = IF w = k THEN "loop" ELSE wpc[w]
      BY <2>1, <2>2 DEF IInv, TypeOK
    <3> QED
      BY <2>1, <2>2, <3>1, <3>2 DEF IInv, TypeOK, StageInv, Joined
  <2>5. SettledInv' /\ SampledInv' /\ AddedInv' /\ ResultInv'
    BY <2>1 DEF IInv, SettledInv, SampledInv, AddedInv, Joined, ResultInv
  <2> QED
    BY <2>3, <2>4, <2>5 DEF IInv
<1> QED
  BY <1>1, <1>2

\* After the join all the requests are settled.
LEMMA AllSettled ==
  ASSUME IInv, dpc \in Joined
  PROVE  answered \cup failed = Requests
<1>1. \A r \in Requests : r[2] < i[r[1]]
  BY IsRequest DEF IInv, StageInv
<1> QED
  BY <1>1 DEF IInv, SettledInv

\* add_samples() of the samples of worker k.
LEMMA AddStep == IInv /\ add_samples => IInv'
<1> SUFFICES ASSUME IInv, add_samples PROVE IInv'
  OBVIOUS
<1> DEFINE mine == [n \in DOMAIN samples[k] |-> <<k, samples[k][n]>>]
<1>1. /\ dpc = "add" /\ dpc' = "add" /\ k < PoolSize /\ k' = k + 1
      /\ latency' = latency \o mine
      /\ UNCHANGED <<wpc, i, size, samples, total_bytes, answered, failed, result, pool, link>>
  BY DEF add_samples, workerVars, poolVars
<1>2. k \in Conns /\ k \in Nat /\ PoolSize \in Nat
  BY <1>1, PoolAssumption DEF IInv, TypeOK, Conns
<1>3. samples[k] \in Seq(Nat) /\ IsInjective(samples[k])
      /\ Range(samples[k]) = {n \in Nat : <<k, n>> \in answered /\ warmup <= n}
  BY <1>2 DEF IInv, TypeOK, SampledInv
<1>4. mine \in Seq(Conns \X Nat) /\ DOMAIN mine = DOMAIN samples[k]
  <2>1. DOMAIN samples[k] = 1 .. Len(samples[k]) /\ Len(samples[k]) \in Nat
        /\ \A n \in 1 .. Len(samples[k]) : samples[k][n] \in Nat
    BY <1>3
  <2>2. mine \in [1 .. Len(samples[k]) -> Conns \X Nat]
    BY <1>2, <2>1
  <2> QED
    BY <2>1, <2>2
<1>5. IsInjective(mine)
  BY <1>3, <1>4 DEF IsInjective
<1>6. Range(mine) = {r \in answered \ Warm : r[1] = k}
  <2>1. ASSUME NEW n \in DOMAIN samples[k]
        PROVE  mine[n] \in answered \ Warm /\ mine[n][1] = k
    <3>1. samples[k][n] \in Nat /\ <<k, samples[k][n]>> \in answered
          /\ warmup <= samples[k][n]
      BY <1>3 DEF Range
    <3> QED
      BY <3>1, RoundsType DEF Warm
  <2>2. ASSUME NEW r \in answered \ Warm, r[1] = k PROVE r \in Range(mine)
    <3>1. r \in Requests
      BY DEF IInv, TypeOK
    <3>2. r = <<k, r[2]>> /\ r[2] \in Nat /\ ~(r[2] < warmup)
      BY <2>2, <3>1, IsRequest DEF Warm
    <3>3. r[2] \in Range(samples[k])
      BY <1>3, <3>2, RoundsType
    <3>4. PICK n \in DOMAIN samples[k] : samples[k][n] = r[2]
      BY <3>3 DEF Range
    <3>5. mine[n] = r
      BY <3>2, <3>4
    <3> QED
      BY <1>4, <3>5 DEF Range
  <2> HIDE DEF mine
  <2> QED
    BY <1>4, <2>1, <2>2 DEF Range
<1> HIDE DEF mine
<1>7. latency \in Seq(Conns \X Nat) /\ IsInjective(latency) /\ Range(latency) = Added
  BY <1>1 DEF IInv, TypeOK, AddedInv
<1>8. \A r \in answered : r[1] \in Nat
  BY IsRequest, RoundsType DEF IInv, TypeOK
<1>9. Range(latency) \cap Range(mine) = {}
  BY <1>2, <1>6, <1>7, <1>8 DEF Added
<1>10. /\ latency' \in Seq(Conns \X Nat) /\ IsInjective(latency')
       /\ Range(latency') = Range(latency) \cup Range(mine)
  BY <1>1, <1>4, <1>5, <1>7, <1>9, Joining
<1>11. Added' = Added \cup {r \in answered \ Warm : r[1] = k}
  BY <1>1, <1>2, <1>8 DEF Added
<1>12. AddedInv'
  BY <1>1, <1>6, <1>7, <1>10, <1>11 DEF AddedInv, Joined
<1>13. TypeOK' /\ StageInv'
  BY <1>1, <1>2, <1>10 DEF IInv, TypeOK, StageInv, Joined
<1>14. SettledInv' /\ SampledInv' /\ ResultInv'
  BY <1>1 DEF IInv, SettledInv, SampledInv, ResultInv
<1> QED
  BY <1>12, <1>13, <1>14 DEF IInv

\* The result has the samples of all the workers.
LEMMA ResultStep == IInv /\ build_result => IInv'
<1> SUFFICES ASSUME IInv, build_result PROVE IInv'
  OBVIOUS
<1>1. /\ dpc = "add" /\ dpc' = "close" /\ k = PoolSize
      /\ result' = <<[total_requests |-> Len(latency), latency |-> Range(latency),
                      total_bytes |-> total_bytes]>>
      /\ UNCHANGED <<k, latency, wpc, i, size, samples, total_bytes, answered, failed,
                    pool, link>>
  BY DEF build_result, workerVars, poolVars
<1>2. latency \in Seq(Conns \X Nat) /\ IsInjective(latency) /\ Range(latency) = Added
  BY <1>1 DEF IInv, TypeOK, AddedInv
<1>3. Added = answered \ Warm
  <2>1. \A r \in answered : r[1] < PoolSize
    BY IsRequest, PoolAssumption DEF IInv, TypeOK, Conns
  <2> QED
    BY <1>1, <2>1 DEF Added
<1>4. Len(latency) = Cardinality(answered \ Warm)
  BY <1>2, <1>3, DistinctLength
<1>5. ResultInv'
  BY <1>1, <1>2, <1>3, <1>4 DEF ResultInv, NoResult
<1>6. TypeOK' /\ StageInv' /\ AddedInv'
  BY <1>1 DEF IInv, TypeOK, StageInv, AddedInv, Joined
<1>7. SettledInv' /\ SampledInv'
  BY <1>1 DEF IInv, SettledInv, SampledInv
<1> QED
  BY <1>5, <1>6, <1>7 DEF IInv

\* A worker draws a size, or is through with its share.
LEMMA LoopStep == \A w \in Conns : IInv /\ (draw(w) \/ leave(w)) => IInv'
<1> SUFFICES ASSUME NEW w \in Conns, IInv, draw(w) \/ leave(w) PROVE IInv'
  OBVIOUS
<1>1. /\ Alive /\ wpc[w] = "loop"
      /\ UNCHANGED <<i, samples, total_bytes, answered, failed, dpc, k, latency, result,
                    pool, link>>
      /\ \/ i[w] < rounds(w) /\ wpc' = [wpc EXCEPT ![w] = "request"]
            /\ \E s \in Sizes : size' = [size EXCEPT ![w] = s]
         \/ i[w] >= rounds(w) /\ wpc' = [wpc EXCEPT ![w] = "exited"] /\ size' = size
  BY DEF draw, leave, mainVars, poolVars
<1>2. i[w] \in Nat /\ rounds(w) \in Nat /\ i[w] <= rounds(w)
  BY RoundsType DEF IInv, TypeOK
<1>3. \A v \in Conns : v # w => wpc'[v] = wpc[v]
  BY <1>1 DEF IInv, TypeOK
<1>4. wpc'[w] = IF i[w] < rounds(w) THEN "request" ELSE "exited"
  BY <1>1, <1>2 DEF IInv, TypeOK
<1>5. TypeOK'
  BY <1>1 DEF IInv, TypeOK
<1>6. StageInv'
  BY <1>1, <1>2, <1>3, <1>4 DEF IInv, StageInv, Joined, Alive
<1>7. SettledInv' /\ SampledInv' /\ AddedInv' /\ ResultInv'
  BY <1>1 DEF IInv, SettledInv, SampledInv, AddedInv, Added, ResultInv
<1> QED
  BY <1>5, <1>6, <1>7 DEF IInv

\* do_request() returns: the request is settled, whatever it returns.
LEMMA AccountStep ==
  \A w \in Conns, ok \in BOOLEAN :
    IInv /\ Alive /\ wpc[w] = "request" /\ account(w, ok) => IInv'
<1> SUFFICES ASSUME NEW w \in Conns, NEW ok \in BOOLEAN,
                    IInv, Alive, wpc[w] = "request", account(w, ok)
             PROVE  IInv'
  OBVIOUS
<1> DEFINE q == <<w, i[w]>>
<1>1. /\ samples' = IF ok /\ i[w] >= warmup
                    THEN [samples EXCEPT ![w] = Append(samples[w], i[w])] ELSE samples
      /\ total_bytes' = total_bytes + HeaderSize + size[w]
      /\ answered' = IF ok THEN answered \cup {q} ELSE answered
      /\ failed' = IF ok THEN failed ELSE failed \cup {q}
      /\ i' = [i EXCEPT ![w] = i[w] + 1]
      /\ wpc' = [wpc EXCEPT ![w] = "loop"]
      /\ UNCHANGED <<size, dpc, k, latency, result, pool, link>>
  BY DEF account, mainVars, poolVars
<1>2. i[w] \in Nat /\ rounds(w) \in Nat /\ i[w] < rounds(w) /\ warmup \in Nat
  BY RoundsType DEF IInv, TypeOK, StageInv
<1>3. q \in Requests /\ q[1] = w /\ q[2] = i[w]
  BY <1>2, IsRequest
<1>4. dpc \notin Joined \cup {"connect", "threw"}
  BY DEF IInv, StageInv
<1>5. q \notin answered \cup failed
  BY <1>2, <1>3 DEF IInv, SettledInv
<1>6. \A v \in Conns : i'[v] = IF v = w THEN i[w] + 1 ELSE i[v]
  BY <1>1 DEF IInv, StageInv
<1> HIDE DEF q
<1>7. TypeOK'
  <2>1. size[w] \in Nat
    <3>1. size \in [Conns -> Sizes \cup {0}]
      BY DEF IInv, TypeOK
    <3>2. size[w] \in Sizes \cup {0}
      BY <3>1
    <3>3. Sizes \subseteq Nat /\ 0 \in Nat
      BY LoadAssumption
    <3> QED
      BY <3>2, <3>3, Zenon
  <2>2. total_bytes' \in Nat
    BY <1>1, <2>1 DEF IInv, TypeOK, HeaderSize
  <2>3. samples' \in [Conns -> Seq(Nat)]
    <3>1. samples[w] \in Seq(Nat)
      BY DEF IInv, TypeOK
    <3>2. Append(samples[w], i[w]) \in Seq(Nat)
      BY <1>2, <3>1
    <3> QED
      BY <1>1, <3>2 DEF IInv, TypeOK
  <2>4. \A v \in Conns : i'[v] \in 0 .. rounds(v)
    <3>1. \A v \in Conns : i[v] \in 0 .. rounds(v)
      BY DEF IInv, TypeOK
    <3>2. i[w] + 1 \in 0 .. rounds(w)
      BY <1>2
    <3> QED
      BY <1>6, <3>1, <3>2
  <2>5. wpc' \in [Conns -> {"none", "loop", "request", "exited"}]
    BY <1>1 DEF IInv, TypeOK
  <2>6. answered' \subseteq Requests /\ failed' \subseteq Requests
    BY <1>1, <1>3 DEF IInv, TypeOK
  <2> QED
    BY <1>1, <2>2, <2>3, <2>4, <2>5, <2>6 DEF IInv, TypeOK
<1>8. StageInv'
  <2>1. \A v \in Conns : wpc'[v] = IF v = w THEN "loop" ELSE wpc[v]
    BY <1>1 DEF IInv, TypeOK
  <2>2. i' \in [Conns -> Nat]
    BY <1>1, <1>2 DEF IInv, StageInv
  <2> QED
    BY <1>1, <1>4, <1>6, <2>1, <2>2 DEF IInv, StageInv, Joined
<1>9. SettledInv'
  <2>1. answered' \cap failed' = {} /\ answered' \cup failed' = (answered \cup failed) \cup {q}
    BY <1>1, <1>5 DEF IInv, SettledInv
  <2>2. ASSUME NEW r \in Requests PROVE r[2] < i'[r[1]] <=> r[2] < i[r[1]] \/ r = q
    <3>1. r[1] \in Conns /\ r[2] \in Nat /\ r = <<r[1], r[2]>>
      BY IsRequest
    <3>2. i[r[1]] \in Nat
      BY <3>1 DEF IInv, StageInv
    <3>3. r = q <=> r[1] = w /\ r[2] = i[w]
      BY <3>1 DEF q
    <3> QED
      BY <1>2, <1>6, <3>1, <3>2, <3>3
  <2> QED
    BY <1>3, <2>1, <2>2 DEF IInv, SettledInv
<1>10. SampledInv'
  <2> SUFFICES ASSUME NEW v \in Conns
               PROVE  /\ IsInjective(samples'[v])
                      /\ Range(samples'[v]) =
                           {n \in Nat : <<v, n>> \in answered' /\ warmup <= n}
    BY DEF SampledInv
  <2>1. /\ samples[v] \in Seq(Nat) /\ IsInjective(samples[v])
        /\ Range(samples[v]) = {n \in Nat : <<v, n>> \in answered /\ warmup <= n}
    BY DEF IInv, TypeOK, SampledInv
  <2>2. \A n \in Nat : <<v, n>> = q <=> v = w /\ n = i[w]
    BY DEF q
  <2>3. CASE v = w /\ ok /\ i[w] >= warmup
    <3>1. samples'[v] = Append(samples[v], i[w]) /\ answered' = answered \cup {q}
      BY <1>1, <2>3 DEF IInv, TypeOK
    <3>2. i[w] \notin Range(samples[v])
      BY <1>2, <1>5, <2>1, <2>2, <2>3
    <3>3. IsInjective(samples'[v]) /\ Range(samples'[v]) = Range(samples[v]) \cup {i[w]}
      BY <1>2, <2>1, <3>1, <3>2, OneMoreSample
    <3> QED
      BY <1>2, <2>1, <2>2, <2>3, <3>1, <3>3
  <2>4. CASE ~(v = w /\ ok /\ i[w] >= warmup)
    <3>1. samples'[v] = samples[v]
      BY <1>1, <2>4 DEF IInv, TypeOK
    <3>2. \A n \in Nat : warmup <= n => (<<v, n>> \in answered' <=> <<v, n>> \in answered)
      BY <1>1, <1>2, <2>2, <2>4
    <3> QED
      BY <2>1, <3>1, <3>2
  <2> QED
    BY <2>3, <2>4
<1>11. AddedInv' /\ ResultInv'
  BY <1>1, <1>4 DEF IInv, AddedInv, ResultInv, Joined
<1> QED
  BY <1>7, <1>8, <1>9, <1>10, <1>11 DEF IInv

\* Every step keeps the invariant.
LEMMA StepIInv == IInv /\ [Next]_vars => IInv'
<1> SUFFICES ASSUME IInv, [Next]_vars PROVE IInv'
  OBVIOUS
<1>1. ASSUME NEW w \in Conns, Worker(w) PROVE IInv'
  <2>1. CASE draw(w) \/ leave(w)
    BY <2>1, LoopStep
  <2>2. CASE request_ok(w)
    BY <2>2, AccountStep DEF request_ok
  <2>3. CASE request_fails(w)
    BY <2>3, AccountStep DEF request_fails
  <2> QED
    BY <1>1, <2>1, <2>2, <2>3 DEF Worker
<1>2. CASE add_samples \/ build_result
  BY <1>2, AddStep, ResultStep
<1>3. CASE \/ connect_all \/ connect_throws \/ connected \/ spawn \/ join \/ close_all
           \/ UNCHANGED vars \/ \E w \in Conns : link_down(w)
  BY <1>3, MainStep
<1> QED
  BY <1>1, <1>2, <1>3 DEF Next, Main, Terminated

\* The inductive invariant holds in every reachable state.
THEOREM Invariance == Spec => []IInv
BY InitIInv, StepIInv, PTL DEF Spec

\* Every variable has a value of its C++ type, and no worker runs past its share.
THEOREM TypeCorrect == Spec => []TypeOK
<1>1. IInv => TypeOK
  BY DEF IInv
<1> QED
  BY <1>1, Invariance, PTL

\* Whatever connections are lost, the report lacks of the requests asked for
\* just those that failed, and less than one warm-up request per worker is left
\* out, unless the loop bound of a worker wraps.
THEOREM SplitHolds ==
  ASSUME NoWrap
  PROVE  Spec => []SplitAddsUp
<1>1. IInv => SplitAddsUp
  <2> SUFFICES ASSUME IInv, result # NoResult PROVE SplitAddsUp
    BY DEF SplitAddsUp
  <2>1. dpc \in {"close", "done"} /\ result[1].total_requests = Cardinality(answered \ Warm)
    BY DEF IInv, ResultInv
  <2>2. answered \cup failed = Requests
    BY <2>1, AllSettled DEF Joined
  <2>3. (answered \cup failed) \cap Warm = Warm
    BY <2>2 DEF Warm
  <2>4. Cardinality(Warm) = PoolSize * (Warmup \div PoolSize)
    BY WarmCount
  <2>5. /\ PoolSize \in Nat \ {0} /\ Warmup \in Nat
        /\ Warmup = PoolSize * (Warmup \div PoolSize) + (Warmup % PoolSize)
        /\ Warmup % PoolSize \in 0 .. PoolSize - 1 /\ Warmup \div PoolSize \in Nat
    BY PoolAssumption, LoadAssumption, DivMod
  <2>6. Cardinality(Warm) <= Warmup /\ Warmup < Cardinality(Warm) + PoolSize
    <3>1. PoolSize * (Warmup \div PoolSize) \in Nat
      BY <2>5
    <3> QED
      BY <2>4, <2>5, <3>1
  <2>7. Cardinality(answered \ Warm) + Cardinality(failed \ Warm) = NumRequests
    <3>1. (answered \ Warm) \cup (failed \ Warm) = Requests \ Warm
      BY <2>2
    <3>2. (answered \ Warm) \cap (failed \ Warm) = {}
      BY DEF IInv, SettledInv
    <3>3. IsFiniteSet(answered \ Warm) /\ IsFiniteSet(failed \ Warm)
      BY <3>1, MeasuredCount, FS_Subset
    <3>4. Cardinality((answered \ Warm) \cup (failed \ Warm)) =
            Cardinality(answered \ Warm) + Cardinality(failed \ Warm)
              - Cardinality((answered \ Warm) \cap (failed \ Warm))
      BY <3>3, FS_Union
    <3>5. Cardinality(answered \ Warm) \in Nat /\ Cardinality(failed \ Warm) \in Nat
      BY <3>3, FS_CardinalityType
    <3>6. Cardinality((answered \ Warm) \cap (failed \ Warm)) = 0
      BY <3>2, FS_EmptySet
    <3>7. Cardinality((answered \ Warm) \cup (failed \ Warm)) = NumRequests
      BY <3>1, MeasuredCount
    <3> QED
      BY <3>4, <3>5, <3>6, <3>7
  <2> QED
    BY <2>1, <2>3, <2>6, <2>7 DEF SplitAddsUp
<1> QED
  BY <1>1, Invariance, PTL

-----------------------------------------------------------------------------
\* The refinement of BenchmarkRun.

\* The requests that a worker is at.
Issued == {<<w, i[w]>> : w \in {v \in Conns : wpc[v] = "request"}}

\* They are requests that have not been settled.
LEMMA IsIssued ==
  ASSUME IInv
  PROVE  Issued \subseteq Requests /\ Issued \cap (answered \cup failed) = {}
<1> SUFFICES ASSUME NEW w \in Conns, wpc[w] = "request"
             PROVE  <<w, i[w]>> \in Requests /\ <<w, i[w]>> \notin answered \cup failed
  BY DEF Issued
<1>1. i[w] \in Nat /\ i[w] < rounds(w)
  BY DEF IInv, StageInv
<1>2. <<w, i[w]>> \in Requests
  BY <1>1, IsRequest
<1> QED
  BY <1>1, <1>2 DEF IInv, SettledInv

\* A step that changes neither a worker's request nor what is settled.
LEMMA StutterStep ==
  ASSUME UNCHANGED <<i, answered, failed, result>>,
         \A w \in Conns : wpc'[w] = "request" <=> wpc[w] = "request"
  PROVE  UNCHANGED Run!vars
<1>1. Issued' = Issued
  BY DEF Issued
<1> QED
  BY <1>1 DEF Run!vars, Issued

\* Every step of the client is one of the abstract run, or none.
LEMMA RefinementStep == IInv /\ IInv' /\ [Next]_vars => [Run!Next]_(Run!vars)
<1> SUFFICES ASSUME IInv, IInv', [Next]_vars PROVE [Run!Next]_(Run!vars)
  OBVIOUS
<1>1. CASE \/ connect_all \/ connect_throws \/ connected \/ join \/ add_samples \/ close_all
           \/ UNCHANGED vars \/ \E w \in Conns : link_down(w)
  <2>1. UNCHANGED <<wpc, i, answered, failed, result>>
    BY <1>1 DEF connect_all, connect_throws, connected, join, add_samples, close_all,
       link_down, mainVars, workerVars, poolVars, vars
  <2> QED
    BY <2>1, StutterStep
<1>2. CASE spawn
  <2>1. k \in Conns /\ wpc[k] = "none" /\ wpc' = [wpc EXCEPT ![k] = "loop"]
        /\ UNCHANGED <<i, answered, failed, result>>
    BY <1>2, PoolAssumption DEF spawn, IInv, TypeOK, StageInv, Conns
  <2>2. \A w \in Conns : wpc'[w] = "request" <=> wpc[w] = "request"
    BY <2>1 DEF IInv, TypeOK
  <2> QED
    BY <2>1, <2>2, StutterStep
<1>3. CASE build_result
  <2>1. /\ dpc = "add" /\ dpc' = "close" /\ UNCHANGED <<wpc, i, answered, failed>>
        /\ result = NoResult /\ result' # NoResult /\ result'[1].latency = answered \ Warm
    BY <1>3 DEF build_result, workerVars, IInv, ResultInv
  <2>2. answered \cup failed = Requests
    BY <2>1, AllSettled DEF Joined
  <2>3. Run!Report
    BY <2>1, <2>2 DEF Run!Report, Run!NoReport
  <2> QED
    BY <2>3 DEF Run!Next
<1>4. ASSUME NEW w \in Conns, leave(w) PROVE [Run!Next]_(Run!vars)
  <2>1. /\ wpc[w] = "loop" /\ wpc' = [wpc EXCEPT ![w] = "exited"]
        /\ UNCHANGED <<i, answered, failed, result>>
    BY <1>4 DEF leave, mainVars
  <2>2. \A v \in Conns : wpc'[v] = "request" <=> wpc[v] = "request"
    BY <2>1 DEF IInv, TypeOK
  <2> QED
    BY <2>1, <2>2, StutterStep
<1>5. ASSUME NEW w \in Conns, draw(w) PROVE [Run!Next]_(Run!vars)
  <2> DEFINE q == <<w, i[w]>>
  <2>1. /\ wpc[w] = "loop" /\ wpc' = [wpc EXCEPT ![w] = "request"] /\ i[w] < rounds(w)
        /\ UNCHANGED <<i, answered, failed, result>>
    BY <1>5 DEF draw, mainVars
  <2>2. Issued' = Issued \cup {q}
    BY <2>1 DEF IInv, TypeOK, Issued
  <2>3. i[w] \in Nat /\ q \in Requests
    BY <2>1, IsRequest DEF IInv, StageInv
  <2>4. q \notin Issued \cup answered \cup failed
    <3>1. q \notin answered \cup failed
      BY <2>3 DEF IInv, SettledInv
    <3>2. q \notin Issued
      BY <2>1 DEF Issued
    <3> QED
      BY <3>1, <3>2
  <2>5. result = NoResult
    <3>1. dpc \notin {"close", "done"}
      BY <2>1 DEF IInv, StageInv, Joined
    <3> QED
      BY <3>1 DEF IInv, ResultInv
  <2>6. PICK r \in Requests : r = q
    BY <2>3
  <2> HIDE DEF q
  <2>7. Run!Issue(r)
    BY <2>1, <2>2, <2>4, <2>5, <2>6 DEF Run!Issue, Run!NoReport, Issued
  <2> QED
    BY <2>7 DEF Run!Next
<1>6. ASSUME NEW w \in Conns, NEW ok \in BOOLEAN, wpc[w] = "request", account(w, ok)
      PROVE  [Run!Next]_(Run!vars)
  <2> DEFINE q == <<w, i[w]>>
  <2>1. /\ wpc' = [wpc EXCEPT ![w] = "loop"] /\ i' = [i EXCEPT ![w] = i[w] + 1]
        /\ answered' = IF ok THEN answered \cup {q} ELSE answered
        /\ failed' = IF ok THEN failed ELSE failed \cup {q}
        /\ result' = result
    BY <1>6 DEF account, mainVars
  <2>2. \A v \in Conns : /\ wpc'[v] = IF v = w THEN "loop" ELSE wpc[v]
                         /\ v # w => i'[v] = i[v]
    BY <2>1 DEF IInv, TypeOK, StageInv
  <2>3. Issued' = Issued \ {q} /\ q \in Issued
    <3>1. Issued' = {<<v, i'[v]>> : v \in {u \in Conns : wpc'[u] = "request"}}
      BY DEF Issued
    <3>2. \A v \in Conns : <<v, i[v]>> = q <=> v = w
      OBVIOUS
    <3>3. {u \in Conns : wpc'[u] = "request"} = {u \in Conns : wpc[u] = "request"} \ {w}
      BY <2>2
    <3> QED
      BY <1>6, <2>2, <3>1, <3>2, <3>3 DEF Issued
  <2>4. PICK r \in Requests : r = q
    BY <2>3, IsIssued
  <2> HIDE DEF q
  <2>5. Run!Answer(r) \/ Run!Fail(r)
    BY <2>1, <2>3, <2>4 DEF Run!Answer, Run!Fail, Issued
  <2> QED
    BY <2>5 DEF Run!Next
<1>7. ASSUME NEW w \in Conns, Worker(w) PROVE [Run!Next]_(Run!vars)
  BY <1>4, <1>5, <1>6, <1>7 DEF Worker, request_ok, request_fails
<1> QED
  BY <1>1, <1>2, <1>3, <1>7 DEF Next, Main, Terminated

\* Whatever the threads and connections do, the run is one that BenchmarkRun
\* allows: every request is settled once, and the result has just the answered
\* ones that are not warm-up.
THEOREM ClosedLoopRefines == Spec => ImplementsBenchmarkRun
<1>1. Init => Run!Init
  BY DEF Init, Run!Init, Run!NoReport
<1>2. IInv /\ IInv' /\ [Next]_vars => [Run!Next]_(Run!vars)
  BY RefinementStep
<1> QED
  BY <1>1, <1>2, Invariance, PTL DEF Spec, ImplementsBenchmarkRun, Run!Spec
=============================================================================
