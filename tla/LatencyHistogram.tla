-------------------------- MODULE LatencyHistogram --------------------------
(***************************************************************************)
(* LatencyHistogram (src/src/statistics.cpp) as a value, [samples, sorted], *)
(* and its operations.  The const operations may sort the samples in place *)
(* (both members are mutable): ensure_sorted is that effect, and the       *)
(* queries are stated on a histogram that has had it.  A percentage is in  *)
(* thousandths.                                                            *)
(***************************************************************************)
EXTENDS Naturals, Sequences, FiniteSets, FiniteSetsExt, Functions

LatencyHistogram == [samples |-> <<>>, sorted |-> FALSE]

add_samples(h, xs) == [samples |-> h.samples \o xs, sorted |-> FALSE]

\* How often f has the value v, and the values of f in ascending order: the
\* least, as often as f has it, before the others.
Multiplicity(f, v) == Cardinality({x \in DOMAIN f : f[x] = v})

Sorted(f) ==
  MapThenFoldSet(LAMBDA same, larger : same \o larger, <<>>,
                 LAMBDA v : [n \in 1 .. Multiplicity(f, v) |-> v],
                 LAMBDA vs : CHOOSE v \in vs : \A w \in vs : v <= w,
                 Range(f))

\* std::sort, unless the flag says that it has been done.
ensure_sorted(h) ==
  IF h.sorted THEN h
  ELSE [samples |-> Sorted(h.samples), sorted |-> TRUE]

count(h) == Len(h.samples)

\* mean_val() is Total over count().
Total(s) == MapThenSumSet(LAMBDA v : v * Multiplicity(s, v), Range(s))

\* 99.9 / 100.0 is the double 0.999 + 0.992 / 2^53.  At a multiple of a thousand
\* samples its product with their number should be a whole number, the rank,
\* and is off by 0.992 n / 2^53.  In [2^e, 2^(e+1)) the doubles are 2^(e-52)
\* apart: the product is rounded to the next one above the rank when it is off
\* by more than half of that, and to the rank (ties to even) when not.  Elsewhere
\* no rounding reaches a whole number, for fewer than 2^32 samples; 0.95 and 0.99
\* are below what they stand for, where it does not matter, and 0.5 is exact.
Binade(rank) == CHOOSE e \in 0 .. rank : 2^e <= rank /\ rank < 2^(e + 1)

RoundsUp(p, n) ==
  /\ p = 999 /\ n % 1000 = 0
  /\ 125 * 2^Binade(p * (n \div 1000)) < 124 * n

\* Mutant: the quotient is cut off where it should be rounded up.
ceil_cut_off(p, n) == (p * n) \div 1000 + 1

\* std::ceil(p / 100.0 * samples_.size()), for p above 0.
ceil(p, n) == (p * n + 999) \div 1000 + (IF RoundsUp(p, n) THEN 1 ELSE 0)

percentile(h, p) ==
  IF h.samples = <<>> THEN 0
  ELSE LET k == ceil(p, count(h)) IN
       h.samples[IF k < count(h) THEN k ELSE count(h)]

min_val(h) == IF h.samples = <<>> THEN 0 ELSE Head(h.samples)
max_val(h) == IF h.samples = <<>> THEN 0 ELSE h.samples[count(h)]
=============================================================================
