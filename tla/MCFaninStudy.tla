---------------------------- MODULE MCFaninStudy ----------------------------
(***************************************************************************)
(* Two trials and two numbers of senders.  At first there are no samples   *)
(* at all, or TCP single has them all, the others in both trials or in     *)
(* none, and Homa with the fewest senders perhaps in the first only.  No   *)
(* two values are equal, so that a mean tells what it was made from.       *)
(***************************************************************************)
EXTENDS FaninStudy, TLC

MCFanIns == <<4, 16>>

Position == [Homa |-> 1] @@ ("TCP single" :> 2) @@ ("TCP DCTCP-32" :> 3)
P99(t, key) == 100 * t + 10 * key[2] + Position[key[1]]

\* The number of trials with samples of each experiment.
HadIn ==
  {[key \in Keys |-> 0]}
  \cup {h \in [Keys -> 0 .. 2] : /\ h[<<"TCP single", 4>>] = 2
                                 /\ h[<<"TCP single", 16>>] = 2
                                 /\ \A key \in Keys \ {<<"Homa", 4>>} : h[key] # 1}

MCTrees ==
  {[t \in 1 .. 2 |-> [key \in Keys |-> IF t <= had[key] THEN P99(t, key) ELSE 0]] :
     had \in HadIn}

=============================================================================
