---------------------------- MODULE BenchmarkRun ----------------------------
(***************************************************************************)
(* What a benchmark client promises of one run, whatever its threads,      *)
(* queues and sockets do: every planned request is settled once, as        *)
(* answered or failed, after it was issued once or, failed, without; the   *)
(* report is made after all of them have settled and holds exactly the     *)
(* answered requests that are not warm-up (BenchmarkResult of              *)
(* src/include/dcbench/tcp_client.h).                                      *)
(***************************************************************************)
CONSTANTS
  Requests,   \* the planned requests
  Warm        \* those of them that are warm-up

VARIABLES
  issued,     \* handed to a connection, not settled yet
  answered,
  failed,
  report      \* <<the requests in the report>>, or NoReport

vars == <<issued, answered, failed, report>>

NoReport == <<>>

Init ==
  /\ issued = {}
  /\ answered = {}
  /\ failed = {}
  /\ report = NoReport

Issue(r) ==
  /\ r \notin issued \cup answered \cup failed
  /\ report = NoReport
  /\ issued' = issued \cup {r}
  /\ UNCHANGED <<answered, failed, report>>

Answer(r) ==
  /\ r \in issued
  /\ issued' = issued \ {r}
  /\ answered' = answered \cup {r}
  /\ UNCHANGED <<failed, report>>

Fail(r) ==
  /\ r \in issued
  /\ issued' = issued \ {r}
  /\ failed' = failed \cup {r}
  /\ UNCHANGED <<answered, report>>

\* Requests that cannot be issued are given up, one or several at a time.
Abandon ==
  /\ report = NoReport
  /\ failed \subseteq failed' /\ failed' \subseteq Requests
  /\ (failed' \ failed) \cap (issued \cup answered) = {}
  /\ UNCHANGED <<issued, answered, report>>

Report ==
  /\ report = NoReport
  /\ answered \cup failed = Requests
  /\ report' = <<answered \ Warm>>
  /\ UNCHANGED <<issued, answered, failed>>

Next ==
  \/ \E r \in Requests : Issue(r) \/ Answer(r) \/ Fail(r)
  \/ Abandon \/ Report

Spec == Init /\ [][Next]_vars
=============================================================================
