-------------------------- MODULE MCOrchestrator ---------------------------
(* Sweeps of two experiments for TLC: a lossy one, and after it one without  *)
(* loss.                                                                     *)
EXTENDS StressStudy

MCPlans == {<<1, 0>>}

\* An earlier sweep has left nothing; or both rates, and rate 0 as the default
\* rates name it; or all rates, the one of this sweep without samples.
MCLeftovers ==
  {<<>>,
   [t \in {<<0, FALSE>>, <<1, TRUE>>} |-> Earlier],
   [t \in Loss \X {TRUE} |-> IF t[1] = 1 THEN Hollow ELSE Earlier]}
=============================================================================
