-------------------------- MODULE MCLatencyReport --------------------------
(* Two clients for TLC.  The workers of the first may measure nothing, a few  *)
(* samples or very many, together also exactly 20 and exactly 1000, where     *)
(* the ranks of p95 and p99.9 are whole numbers.                              *)
EXTENDS LatencyReport, TLC

CONSTANTS a, b

Two == <<27, 11>>
Twenty == [n \in 1 .. 18 |-> IF n < 4 THEN 30 - n ELSE 12]
Thousand == [n \in 1 .. 998 |-> IF n < 4 THEN 30 - n ELSE 1]

MCClients == {a, b}
MCVectors ==
  (a :> {<<<<>>, <<>>>>, <<<<12>>, <<>>>>, <<Two, <<12>>>>, <<Twenty, Two>>,
         <<Thousand, <<12>>>>, <<Two, Thousand>>})
  @@ (b :> {<<<<>>, <<>>>>, <<<<2>>, <<>>>>, <<<<>>, <<3, 1>>>>, <<<<3, 1>>, <<2>>>>})

\* The thousands of samples at which the product of two doubles is the whole
\* number: at all the others p99.9 is a rank high.
ASSUME RoundingAssumption ==
  {m \in 1 .. 300 : ~RoundsUp(999, 1000 * m)} = {33, 66, 132, 263, 264}
=============================================================================
