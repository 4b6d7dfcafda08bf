------------------------- MODULE PriorityScheduler -------------------------
(***************************************************************************)
(* Which pool connection the open-loop client puts a request on            *)
(* (src/src/priority_scheduler.cpp).  The scheduler's only state is the    *)
(* atomic rr_counter_, kept by the module that uses it; here are the three *)
(* policies as operators on a counter value and a message size.  `policy`  *)
(* is policy_, the --scheduling option.                                    *)
(***************************************************************************)
EXTENDS Integers

CONSTANTS
  PoolSize,    \* pool_size_: connections in the pool, indexed from 0
  CounterMod   \* rr_counter_ is a uint32_t: it counts modulo 2^32

Policies == {"round_robin", "size_aware", "random"}

ASSUME PoolAssumption == PoolSize \in Nat \ {0}
ASSUME CounterAssumption == CounterMod \in Nat \ {0}

Conns == 0 .. PoolSize - 1

-----------------------------------------------------------------------------
\* size_aware(): messages above 4096 bytes are "large".
SizeThreshold == 4096

IsLarge(size) == size > SizeThreshold

\* large_pool = max(1, pool_size_ / 4), the last connections of the pool.
LargePool == IF PoolSize \div 4 > 1 THEN PoolSize \div 4 ELSE 1

SmallPool == PoolSize - LargePool

round_robin(counter) == counter % PoolSize

\* Mutant: the large messages index the pool from its start.
size_aware_no_offset(counter, size) ==
  IF IsLarge(size) THEN counter % LargePool ELSE counter % SmallPool

size_aware(counter, size) ==
  IF IsLarge(size) THEN SmallPool + (counter % LargePool)
                   ELSE counter % SmallPool

random_select == Conns

\* small_pool is 0 when the pool has one connection: the remainder by it is
\* undefined behaviour, which an x86-64 build turns into a SIGFPE.
SelectTraps(policy, size) ==
  policy = "size_aware" /\ ~IsLarge(size) /\ SmallPool = 0

\* The indices select() may return; a single one unless the policy is random.
select(policy, counter, size) ==
  IF policy = "round_robin" THEN {round_robin(counter)}
  ELSE IF policy = "size_aware" THEN {size_aware(counter, size)}
  ELSE random_select

\* Mutant: the counter is never advanced.
stuck_counter(policy, counter) == counter

\* rr_counter_.fetch_add(1); random_select() leaves the counter alone.
fetch_add(policy, counter) ==
  IF policy = "random" THEN counter ELSE (counter + 1) % CounterMod
=============================================================================
