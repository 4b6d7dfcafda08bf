------------------------ MODULE Orchestrator_proofs ------------------------
(***************************************************************************)
(* The experiments and their plots for any number of clients, any length   *)
(* of a sweep and any loss rates: what is saved under an experiment's name *)
(* and drawn under its rate is what its clients measured.  The invariants  *)
(* of the runs follow from one inductive invariant, which says of every    *)
(* stage of the scripts what may run on the nodes and lie in the files.    *)
(***************************************************************************)
EXTENDS StressStudy, WellFoundedInduction, TLAPS

\* From the choice of an experiment to the start of its server.
Preparing == {"apply", "deploy", "verify", "server"}

\* The stages in which the interface has the rate of the experiment.
Measuring == {"verify", "server", "clients", "wait", "kill", "collect", "log", "saved",
              "aborted"}

\* What the parameters are, and that an experiment is under way.
GivenInv ==
  /\ driver \in {"sweep", "stress"}
  /\ losses \in [Experiments -> Loss]
  /\ DOMAIN saved = Experiments
  /\ pc \notin {"iface", "next"} \cup Terminal => e \in Experiments
  /\ pc = "kill" => j = 1
  /\ pc = "deploy" => driver = "sweep"

\* Nothing on the nodes is of an experiment to come, the current one included
\* as long as none of its clients was started.
AgeInv ==
  \A c \in Nodes :
    /\ csv[c].exp <= e
    /\ pc \in Preparing => csv[c].exp < e /\ \A p \in procs[c] : p.exp < e

\* The clients that have been started, and those that are taken for finished.
Begun(c) == (pc = "clients" /\ c < j) \/ pc \in {"wait", "kill", "collect"}
Ended(c) == (pc = "wait" /\ c < j) \/ pc \in {"kill", "collect"}

\* A client of the experiment that had its node to itself runs still, or has
\* crashed, or has written the file that is there.
StartedInv ==
  \A c \in Nodes : Begun(c) =>
    \/ <<e, c>> \in overlap
    \/ /\ \A p \in procs[c] : p.exp = e
       /\ procs[c] # {} \/ csv[c].exp = e \/ <<e, c>> \in crashed

\* No client runs on a node that was found idle.
EndedInv ==
  \A c \in Nodes : Ended(c) => procs[c] = {} \/ <<e, c>> \in misjudged

\* Every client that has a server has the one that runs.
ServedInv ==
  misjudged = {} =>
    \A c \in Nodes : /\ \A p \in procs[c] : p.srv \in {0, server}
                     /\ csv[c].samples # "cut"

\* A lossy experiment runs at its rate, and so did what its clients wrote.
LossInv ==
  driver = "stress" /\ pc \in Measuring /\ losses[e] # 0 =>
    /\ netem = losses[e]
    /\ \A c \in Nodes : csv[c].exp = e => csv[c].loss = losses[e] \/ e \in bypassed

\* A file fit to be filed as that of client c of experiment n.
Fit(f, n, c) ==
  /\ f \in File
  /\ f.exp = n \/ <<n, c>> \in crashed \cup misjudged \cup overlap
  /\ misjudged = {} => f.samples # "cut"
  /\ driver = "stress" /\ losses[n] # 0 /\ n \notin bypassed /\ f.exp = n =>
       f.loss = losses[n]

\* What was copied for this experiment, and what was saved of any.
Copied(c) == (pc = "collect" /\ c < j) \/ pc \in {"log", "saved"}
CopiedInv == \A c \in Nodes : Copied(c) => Fit(local[c], e, c)
SavedInv == \A n \in Experiments, c \in Nodes : Saved(n) => Fit(saved[n][c], n, c)

IInv ==
  /\ TypeOK /\ GivenInv /\ AgeInv /\ StartedInv /\ EndedInv
  /\ ServedInv /\ LossInv /\ CopiedInv /\ SavedInv

-----------------------------------------------------------------------------
\* Nothing has been started and no file is there.
LEMMA InitIInv == Init => IInv
<1> SUFFICES ASSUME Init PROVE IInv
  OBVIOUS
<1> USE ClientsAssumption, LossAssumption, PlansAssumption DEF Init, NoFiles, NoFile, Nodes
<1>1. TypeOK /\ GivenInv
  BY DEF TypeOK, GivenInv, Experiments
<1>2. AgeInv /\ StartedInv /\ EndedInv
  BY DEF AgeInv, StartedInv, EndedInv, Preparing
<1>3. ServedInv /\ LossInv /\ CopiedInv /\ SavedInv
  BY DEF ServedInv, LossInv, CopiedInv, SavedInv, Measuring, Copied, Saved
<1> QED
  BY <1>1, <1>2, <1>3 DEF IInv

\* Each step of the scripts and each end of a client keeps the invariant.
LEMMA StepIInv == IInv /\ [Next]_vars => IInv'
<1> SUFFICES ASSUME IInv, [Next]_vars PROVE IInv'
  OBVIOUS
<1> USE ClientsAssumption, LossAssumption
    DEF IInv, Nodes, Terminal, givenVars, scriptVars, nodeVars, historyVars
<1>1. CASE \/ detect_bench_iface \/ all_done \/ experiment_failed \/ deploy_binaries
           \/ verify_remote_binary \/ collect_fails \/ collect_log \/ UNCHANGED vars
  <2> USE DEF detect_bench_iface, all_done, experiment_failed, deploy_binaries,
              verify_remote_binary, collect_fails, collect_log, vars
  <2>1. TypeOK' /\ GivenInv' /\ AgeInv'
    BY <1>1 DEF TypeOK, GivenInv, AgeInv, Preparing
  <2>2. StartedInv' /\ EndedInv' /\ ServedInv'
    BY <1>1 DEF StartedInv, Begun, EndedInv, Ended, ServedInv
  <2>3. LossInv'
    BY <1>1 DEF LossInv, Measuring, GivenInv
  <2>4. CopiedInv' /\ SavedInv'
    BY <1>1 DEF CopiedInv, Copied, Fit, SavedInv, Saved
  <2> QED
    BY <2>1, <2>2, <2>3, <2>4
<1>2. CASE next_config
  <2> USE DEF next_config
  <2>a. /\ e \in Nat /\ e' = e + 1 /\ e' \in Experiments
        /\ UNCHANGED <<procs, csv, saved, netem, server, j, losses, driver>>
    BY <1>2 DEF TypeOK, Experiments
  <2>b. \A c \in Nodes :
          /\ csv[c].exp <= e' /\ csv[c].exp < e'
          /\ \A p \in procs[c] : p.exp < e' /\ p \in [exp : 1 .. e', srv : 0 .. e']
    <3> SUFFICES ASSUME NEW c \in Nodes
                 PROVE  /\ csv[c].exp <= e' /\ csv[c].exp < e'
                        /\ \A p \in procs[c] :
                             p.exp < e' /\ p \in [exp : 1 .. e', srv : 0 .. e']
      OBVIOUS
    <3>1. csv[c].exp \in Nat /\ csv[c].exp <= e
      BY DEF TypeOK, AgeInv, File, NoFile, Experiments
    <3>2. \A p \in procs[c] : p \in [exp : 1 .. e, srv : 0 .. e]
      BY DEF TypeOK
    <3> QED
      BY <2>a, <3>1, <3>2
  <2>c. local' \in [Nodes -> File \cup {NoFile}]
    BY <1>2 DEF TypeOK, NoFiles
  <2>1. TypeOK' /\ GivenInv' /\ AgeInv'
    <3>1. procs' \in [Nodes -> SUBSET [exp : 1 .. e', srv : 0 .. e']]
      BY <2>a, <2>b DEF TypeOK
    <3>2. TypeOK'
      BY <1>2, <2>a, <2>c, <3>1 DEF TypeOK
    <3>3. GivenInv'
      BY <1>2, <2>a DEF GivenInv
    <3>4. AgeInv'
      BY <2>a, <2>b DEF AgeInv
    <3> QED
      BY <3>2, <3>3, <3>4
  <2>2. StartedInv' /\ EndedInv' /\ ServedInv'
    BY <1>2 DEF StartedInv, Begun, EndedInv, Ended, ServedInv
  <2>3. LossInv' /\ CopiedInv' /\ SavedInv'
    BY <1>2 DEF LossInv, Measuring, CopiedInv, Copied, Fit, SavedInv, Saved
  <2> QED
    BY <2>1, <2>2, <2>3
<1>3. CASE apply_netem
  <2>1. TypeOK' /\ GivenInv' /\ AgeInv'
    BY <1>3 DEF apply_netem, TypeOK, GivenInv, AgeInv, Preparing
  <2>2. StartedInv' /\ EndedInv' /\ ServedInv'
    BY <1>3 DEF apply_netem, StartedInv, Begun, EndedInv, Ended, ServedInv
  <2>3. LossInv' /\ CopiedInv' /\ SavedInv'
    BY <1>3 DEF apply_netem, GivenInv, LossInv, AgeInv, Preparing, Measuring,
       Experiments, CopiedInv, Copied, Fit, SavedInv, Saved
  <2> QED
    BY <2>1, <2>2, <2>3
<1>4. CASE clear_netem
  <2>1. TypeOK' /\ GivenInv' /\ AgeInv'
    BY <1>4 DEF clear_netem, TypeOK, GivenInv, AgeInv, Preparing
  <2>2. StartedInv' /\ EndedInv' /\ ServedInv'
    BY <1>4 DEF clear_netem, StartedInv, Begun, EndedInv, Ended, ServedInv
  <2>3. LossInv' /\ CopiedInv' /\ SavedInv'
    BY <1>4 DEF clear_netem, LossInv, Measuring, CopiedInv, Copied, Fit, SavedInv,
       Saved
  <2> QED
    BY <2>1, <2>2, <2>3
<1>5. CASE experiment_saved
  <2>1. TypeOK' /\ GivenInv' /\ AgeInv'
    BY <1>5 DEF experiment_saved, NoFiles, TypeOK, GivenInv, CopiedInv, Copied, Fit,
       AgeInv, Preparing
  <2>2. StartedInv' /\ EndedInv' /\ ServedInv'
    BY <1>5 DEF experiment_saved, StartedInv, Begun, EndedInv, Ended, ServedInv
  <2>3. LossInv' /\ CopiedInv' /\ SavedInv'
    BY <1>5 DEF experiment_saved, LossInv, Measuring, CopiedInv, Copied, Fit,
       SavedInv, Saved
  <2> QED
    BY <2>1, <2>2, <2>3
<1>6. CASE start_server
  <2>1. TypeOK' /\ GivenInv' /\ AgeInv'
    BY <1>6 DEF start_server, TypeOK, GivenInv, AgeInv, Preparing
  <2>2. StartedInv' /\ EndedInv' /\ ServedInv'
    BY <1>6 DEF start_server, StartedInv, Begun, EndedInv, Ended, ServedInv
  <2>3. LossInv' /\ CopiedInv' /\ SavedInv'
    BY <1>6 DEF start_server, detect_internal_ip, LossInv, Measuring, CopiedInv,
       Copied, Fit, SavedInv, Saved
  <2> QED
    BY <2>1, <2>2, <2>3
<1>7. CASE start_client
  <2>1. TypeOK' /\ GivenInv' /\ AgeInv'
    BY <1>7 DEF start_client, Process, TypeOK, GivenInv, Experiments, AgeInv,
       Preparing
  <2>2. StartedInv'
    <3> SUFFICES ASSUME NEW c \in Nodes, Begun(c)'
                 PROVE  \/ <<e, c>> \in overlap'
                        \/ /\ \A p \in procs'[c] : p.exp = e
                           /\ procs'[c] # {} \/ csv[c].exp = e \/ <<e, c>> \in crashed
      BY <1>7 DEF start_client, StartedInv
    <3>1. procs' = [procs EXCEPT ![j] = @ \cup {Process}]
      BY <1>7 DEF start_client, Begun
    <3>2. overlap' = IF procs[j] = {} THEN overlap ELSE overlap \cup {<<e, j>>}
      BY <1>7 DEF start_client, Begun
    <3>3. CASE c = j
      <4>1. procs'[c] = procs[c] \cup {Process} /\ Process.exp = e
        BY <3>1, <3>3 DEF Process, TypeOK
      <4> QED
        BY <3>2, <3>3, <4>1
    <3>4. CASE c # j
      <4>1. Begun(c)
        BY <1>7, <3>4 DEF start_client, Begun, TypeOK
      <4>2. procs'[c] = procs[c]
        BY <3>1, <3>4 DEF TypeOK
      <4> QED
        BY <3>2, <4>1, <4>2 DEF StartedInv
    <3> QED
      BY <3>3, <3>4
  <2>2a. EndedInv' /\ ServedInv'
    BY <1>7 DEF start_client, Process, TypeOK, EndedInv, Ended, ServedInv
  <2>3. LossInv' /\ CopiedInv' /\ SavedInv'
    BY <1>7 DEF start_client, LossInv, Measuring, CopiedInv, Copied, Fit, SavedInv,
       Saved
  <2> QED
    BY <2>1, <2>2, <2>2a, <2>3
<1>8. CASE poll_finished
  <2>1. TypeOK' /\ GivenInv' /\ AgeInv'
    BY <1>8 DEF poll_finished, finished, TypeOK, GivenInv, AgeInv, Preparing
  <2>2. StartedInv' /\ EndedInv' /\ ServedInv'
    BY <1>8 DEF poll_finished, finished, TypeOK, StartedInv, Begun, EndedInv, Ended,
       ServedInv
  <2>3. LossInv' /\ CopiedInv' /\ SavedInv'
    BY <1>8 DEF poll_finished, finished, LossInv, Measuring, CopiedInv, Copied, Fit,
       SavedInv, Saved
  <2> QED
    BY <2>1, <2>2, <2>3
<1>9. CASE kill_server
  <2>1. TypeOK' /\ GivenInv' /\ AgeInv'
    BY <1>9 DEF kill_server, TypeOK, GivenInv, AgeInv, Preparing
  <2>2. StartedInv' /\ EndedInv' /\ ServedInv'
    BY <1>9 DEF kill_server, StartedInv, Begun, EndedInv, Ended, ServedInv
  <2>3. LossInv' /\ CopiedInv' /\ SavedInv'
    BY <1>9 DEF kill_server, GivenInv, LossInv, Measuring, CopiedInv, Copied, Fit,
       SavedInv, Saved
  <2> QED
    BY <2>1, <2>2, <2>3
<1>10. CASE collect
  <2>1. TypeOK' /\ GivenInv' /\ AgeInv'
    BY <1>10, SMTT(30) DEF collect, TypeOK, GivenInv, AgeInv, Preparing
  <2>2. StartedInv' /\ EndedInv' /\ ServedInv'
    BY <1>10 DEF collect, StartedInv, Begun, EndedInv, Ended, ServedInv
  <2>3. LossInv' /\ CopiedInv' /\ SavedInv'
    BY <1>10 DEF collect, TypeOK, LossInv, Measuring, CopiedInv, Copied, Fit,
       StartedInv, Begun, EndedInv, Ended, ServedInv, SavedInv, Saved
  <2> QED
    BY <2>1, <2>2, <2>3
<1>11. CASE poll_fails
  <2>1. TypeOK' /\ GivenInv' /\ AgeInv'
    BY <1>11 DEF poll_fails, finished, TypeOK, GivenInv, AgeInv, Preparing
  <2>2. StartedInv' /\ EndedInv' /\ ServedInv'
    BY <1>11 DEF poll_fails, finished, TypeOK, StartedInv, Begun, EndedInv, Ended,
       ServedInv
  <2>3. LossInv' /\ CopiedInv' /\ SavedInv'
    BY <1>11 DEF poll_fails, finished, LossInv, Measuring, CopiedInv, Copied, Fit,
       SavedInv, Saved
  <2> QED
    BY <2>1, <2>2, <2>3
<1>12. ASSUME NEW node \in Nodes, client_ends(node) PROVE IInv'
  <2>1. TypeOK' /\ GivenInv' /\ AgeInv'
    BY <1>12, SMTT(30) DEF client_ends, NoFile, TypeOK, GivenInv, File, CopiedInv, Copied,
       Fit, Experiments, AgeInv
  <2>2. StartedInv' /\ EndedInv' /\ ServedInv'
    BY <1>12, SMTT(30) DEF client_ends, TypeOK, StartedInv, Begun, EndedInv, Ended, ServedInv
  <2>3. LossInv' /\ CopiedInv' /\ SavedInv'
    BY <1>12 DEF client_ends, NoFile, TypeOK, LossInv, CopiedInv, Copied, Fit,
       EndedInv, SavedInv, Saved
  <2> QED
    BY <2>1, <2>2, <2>3
<1> QED
  BY <1>1, <1>2, <1>3, <1>4, <1>5, <1>6, <1>7, <1>8, <1>9, <1>10, <1>11, <1>12 DEF
     Next, Driver, Experiment, Terminated

\* The inductive invariant holds throughout.
THEOREM Invariance == Spec => []IInv
BY InitIInv, StepIInv, PTL DEF Spec

\* The variables of the scripts and the nodes have their types: what is saved
\* has a file of every client.
THEOREM TypeCorrect == Spec => []TypeOK
BY Invariance, PTL DEF IInv

\* orchestrate.py saves the files of the experiment's own clients.
THEOREM ResultsAreOwn == Spec => []OwnResults
<1>1. IInv => OwnResults
  BY DEF IInv, SavedInv, Fit, OwnResults
<1> QED
  BY <1>1, Invariance, PTL

\* The server that orchestrate.py stops has no client any more.
THEOREM ResultsAreWhole == Spec => []WholeUnlessMisjudged
<1>1. IInv => WholeUnlessMisjudged
  BY DEF IInv, SavedInv, Fit, WholeUnlessMisjudged
<1> QED
  BY <1>1, Invariance, PTL

\* stress_sweep.py files under a loss rate what was measured at it.
THEOREM ResultsAreLabelled == Spec => []LossAsLabelled
<1>1. IInv => LossAsLabelled
  BY DEF IInv, SavedInv, Fit, LossAsLabelled
<1> QED
  BY <1>1, Invariance, PTL

-----------------------------------------------------------------------------
\* A set of naturals has a least element, and a bounded one a greatest.
LEMMA Least ==
  ASSUME NEW S \in SUBSET Nat, S # {}
  PROVE  \E m \in S : \A x \in S : m <= x
<1> DEFINE R == OpToRel(<, Nat)
<1>1. IsWellFoundedOn(R, Nat)
  BY NatLessThanWellFounded
<1>2. \A x, y \in Nat : y < x => <<y, x>> \in R
  BY DEF OpToRel
<1> HIDE DEF R
<1>3. PICK m \in S : \A y \in S : ~(<<y, m>> \in R)
  BY <1>1, WFMin
<1>4. ASSUME NEW x \in S PROVE m <= x
  <2>1. m \in Nat /\ x \in Nat /\ ~(x < m)
    BY <1>2, <1>3
  <2> QED
    BY <2>1
<1> QED
  BY <1>4

\* A nonempty set of numbers below a bound has a greatest one.
LEMMA Greatest ==
  ASSUME NEW N \in Nat, NEW S \in SUBSET (0 .. N), S # {}
  PROVE  \E m \in S : \A x \in S : x <= m
<1> DEFINE T == {N - x : x \in S}
<1>1. \A x \in S : x \in Nat /\ N - x \in Nat
  OBVIOUS
<1>2. T \subseteq Nat /\ T # {}
  BY <1>1
<1>3. PICK m \in T : \A x \in T : m <= x
  <2> HIDE DEF T
  <2> QED
    BY <1>2, Least
<1>4. PICK y \in S : m = N - y
  BY <1>3
<1>5. \A x \in S : N - y <= N - x
  BY <1>3, <1>4
<1> QED
  BY <1>1, <1>5

\* The directory of a rate holds the results of the last experiment of that
\* rate that was saved, if there is one.
LEMMA LatestIsSaved ==
  ASSUME NEW rate,
         LET filed == {n \in Experiments : losses[n] = rate /\ Saved(n)} IN
         Latest(rate) # Missing \/ filed # {}
  PROVE  /\ Latest(rate) \in Experiments
         /\ losses[Latest(rate)] = rate /\ Saved(Latest(rate))
         /\ \A n \in Experiments : losses[n] = rate /\ Saved(n) => n <= Latest(rate)
<1> DEFINE filed == {n \in Experiments : losses[n] = rate /\ Saved(n)}
<1>1. filed # {}
  BY DEF Latest
<1>2. filed \in SUBSET (0 .. Length) /\ Length \in Nat
  BY ClientsAssumption DEF Experiments
<1>3. \E n \in filed : \A x \in filed : x <= n
  <2> HIDE DEF filed
  <2> QED
    BY <1>1, <1>2, Greatest
<1>4. Latest(rate) = CHOOSE n \in filed : \A x \in filed : x <= n
  BY <1>1 DEF Latest
<1>5. Latest(rate) \in filed /\ \A x \in filed : x <= Latest(rate)
  <2> HIDE DEF filed
  <2> QED
    BY <1>3, <1>4
<1> QED
  BY <1>5

\* A directory holds what this sweep has filed under its name, and else what
\* an earlier one has left.
LEMMA HeldBy ==
  ASSUME NEW given \in BOOLEAN, NEW left \in Leftovers, NEW rate \in Loss,
         NEW float \in BOOLEAN
  PROVE  LET d == holds(given, left, <<rate, float>>) IN
         /\ float = (given \/ rate # 0) /\ Latest(rate) # Missing => d = Latest(rate)
         /\ <<rate, float>> \notin DOMAIN left /\ float # (given \/ rate # 0) => d = Missing
         /\ d \in {Missing, Earlier, Hollow} \/ d = Latest(rate)
<1> DEFINE t == <<rate, float>>
<1>1. t[1] = rate /\ (t = tag(given, t[1]) <=> float = (given \/ rate # 0))
  BY DEF tag
<1>2. t \in DOMAIN left => left[t] \in {Earlier, Hollow}
  <2>1. PICK names \in SUBSET Tags : left \in [names -> {Earlier, Hollow}]
    BY LeftoversAssumption
  <2> QED
    BY <2>1
<1> HIDE DEF t
<1>3. LET d == holds(given, left, t) IN
         /\ float = (given \/ rate # 0) /\ Latest(rate) # Missing => d = Latest(rate)
         /\ t \notin DOMAIN left /\ float # (given \/ rate # 0) => d = Missing
         /\ d \in {Missing, Earlier, Hollow} \/ d = Latest(rate)
  BY <1>1, <1>2 DEF holds
<1> QED
  BY <1>3 DEF t

\* plot_stress.py reads what an experiment has left: its figures are labelled
\* right when they are drawn.
LEMMA PlotAsLabelled == IInv /\ plot_stress => FiguresAsLabelled'
<1> SUFFICES ASSUME IInv, plot_stress PROVE FiguresAsLabelled'
  OBVIOUS
<1>1. PICK given \in BOOLEAN, left \in Leftovers, some \in {{"all"}, {"all", "cut"}} :
        LET dir == [rate \in Loss |-> candidates(given, left, rate)]
            there == {rate \in Loss : dir[rate] # Missing}
            shown == {rate \in there : HasSamples(dir[rate], some)}
            base == CHOOSE rate \in there : \A x \in there : rate <= x
        IN figures' =
             [hidden |-> given /\ <<0, FALSE>> \in DOMAIN left,
              cdf |-> [rate \in shown |-> dir[rate]],
              baseline |-> IF shown # there \/ there = {} THEN <<>> ELSE <<dir[base]>>]
  BY Zenon DEF plot_stress
<1> DEFINE dir == [rate \in Loss |-> candidates(given, left, rate)]
           there == {rate \in Loss : dir[rate] # Missing}
           shown == {rate \in there : HasSamples(dir[rate], some)}
           base == CHOOSE rate \in there : \A x \in there : rate <= x
<1>2. /\ figures'.hidden = (given /\ <<0, FALSE>> \in DOMAIN left)
      /\ figures'.cdf = [rate \in shown |-> dir[rate]]
      /\ figures'.baseline = IF shown # there \/ there = {} THEN <<>> ELSE <<dir[base]>>
  BY <1>1
<1>3. /\ UNCHANGED <<saved, losses, bypassed, crashed, misjudged, overlap>>
      /\ driver = "stress"
  BY DEF plot_stress, vars, scriptVars, givenVars, nodeVars, historyVars
<1>4. ASSUME NEW rate \in Loss
      PROVE  /\ rate # 0 /\ Latest(rate) # Missing => dir[rate] = Latest(rate)
             /\ ~(given /\ <<0, FALSE>> \in DOMAIN left) /\ Latest(rate) # Missing
                  => dir[rate] = Latest(rate)
             /\ dir[rate] \in {Missing, Earlier, Hollow} \/ dir[rate] = Latest(rate)
  <2> DEFINE first == holds(given, left, <<rate, rate # 0>>)
             second == holds(given, left, <<0, TRUE>>)
  <2>1. /\ (rate # 0) = (given \/ rate # 0) /\ Latest(rate) # Missing => first = Latest(rate)
        /\ <<rate, rate # 0>> \notin DOMAIN left /\ (rate # 0) # (given \/ rate # 0)
             => first = Missing
        /\ first \in {Missing, Earlier, Hollow} \/ first = Latest(rate)
    <3>1. (rate # 0) \in BOOLEAN
      OBVIOUS
    <3> QED
      BY <3>1, HeldBy
  <2>2. /\ given /\ Latest(0) # Missing => second = Latest(0)
        /\ second \in {Missing, Earlier, Hollow} \/ second = Latest(0)
    BY HeldBy, LossAssumption
  <2>3. dir[rate] = IF rate = 0 /\ first = Missing THEN second ELSE first
    BY DEF candidates
  <2> HIDE DEF first, second, dir
  <2>4. CASE rate # 0
    BY <2>1, <2>3, <2>4
  <2>5. CASE rate = 0
    <3>1. dir[rate] \in {Missing, Earlier, Hollow} \/ dir[rate] = Latest(rate)
      BY <2>1, <2>2, <2>3, <2>5
    <3>2. CASE ~given
      BY <2>1, <2>3, <2>5, <3>1, <3>2
    <3>3. CASE given
      <4>1. <<0, FALSE>> \notin DOMAIN left => first = Missing
        BY <2>1, <2>5, <3>3
      <4> QED
        BY <2>2, <2>3, <2>5, <3>1, <3>3, <4>1
    <3> QED
      BY <3>2, <3>3
  <2> QED
    BY <2>4, <2>5
<1>5. ASSUME NEW rate \in DOMAIN figures'.cdf \ {0}
      PROVE  LET n == figures'.cdf[rate] IN
             IF n = Earlier
             THEN \A x \in Experiments : losses[x] = rate => ~Saved(x)
             ELSE n \in bypassed \/ \A c \in Nodes :
                    \/ saved[n][c].exp = n /\ saved[n][c].loss = rate
                    \/ <<n, c>> \in crashed \cup misjudged \cup overlap
  <2> DEFINE n == figures'.cdf[rate]
  <2>1. rate \in Loss /\ rate # 0 /\ n = dir[rate] /\ HasSamples(n, some)
    BY <1>2
  <2>2. \A x \in Experiments : x \in Nat /\ x # Missing /\ x # Earlier /\ x # Hollow
    BY ClientsAssumption DEF Missing, Earlier, Hollow, Experiments
  <2>3. n = Earlier \/ n \in Experiments
    BY <2>1 DEF HasSamples
  <2>4. CASE n = Earlier
    <3>1. ASSUME NEW x \in Experiments, losses[x] = rate, Saved(x) PROVE FALSE
      <4>1. Latest(rate) \in Experiments
        BY <3>1, LatestIsSaved
      <4>2. n = Latest(rate)
        <5> HIDE DEF dir, n
        <5> QED
          BY <1>4, <2>1, <2>2, <4>1
      <4> QED
        BY <2>2, <2>4, <4>1, <4>2
    <3> QED
      BY <2>4, <3>1
  <2>5. CASE n \in Experiments
    <3>1. n = Latest(rate) /\ Latest(rate) # Missing /\ n # Earlier
      <4> HIDE DEF dir, n
      <4> QED
        BY <1>4, <2>1, <2>2, <2>5
    <3>2. losses[n] = rate /\ Saved(n)
      BY <3>1, LatestIsSaved
    <3>3. n \in bypassed \/ \A c \in Nodes :
            \/ saved[n][c].exp = n /\ saved[n][c].loss = rate
            \/ <<n, c>> \in crashed \cup misjudged \cup overlap
      BY <1>3, <2>5, <3>2 DEF IInv, SavedInv, Fit
    <3> HIDE DEF n
    <3> QED
      BY <3>1, <3>3 DEF n
  <2> QED
    BY <2>3, <2>4, <2>5
<1>6. ASSUME NEW n \in Experiments, Saved(n),
             \E c \in Nodes : saved[n][c].samples = "all"
      PROVE  \/ n \in Range(figures'.cdf)
             \/ losses[n] = 0 /\ figures'.hidden
             \/ \E x \in Experiments : n < x /\ losses[x] = losses[n] /\ Saved(x)
  <2> DEFINE last == Latest(losses[n])
  <2>1. losses[n] \in Loss
    BY DEF IInv, GivenInv
  <2>2. last \in Experiments /\ losses[last] = losses[n] /\ Saved(last) /\ n <= last
    BY <1>6, LatestIsSaved
  <2>3. last # Missing /\ n \in Int /\ last \in Int
    BY <2>2, ClientsAssumption DEF Missing, Experiments
  <2>4. CASE n = last
    <3>1. dir[losses[n]] = n \/ (losses[n] = 0 /\ given /\ <<0, FALSE>> \in DOMAIN left)
      <4> HIDE DEF dir
      <4> QED
        BY <1>4, <2>1, <2>3, <2>4
    <3>2. CASE dir[losses[n]] = n
      <4>1. HasSamples(n, some)
        BY <1>6 DEF HasSamples
      <4>2. losses[n] \in shown
        BY <2>1, <2>3, <2>4, <3>2, <4>1
      <4> QED
        BY <1>2, <3>2, <4>2 DEF Range
    <3> QED
      BY <1>2, <3>1, <3>2
  <2> QED
    BY <2>2, <2>3, <2>4
<1>7. ASSUME figures'.baseline # <<>>, ~figures'.hidden,
             NEW n \in Experiments, losses[n] = 0, Saved(n)
      PROVE  figures'.baseline[1] \in {x \in Experiments : losses[x] = 0 /\ Saved(x)}
  <2>1. /\ Latest(0) \in Experiments
        /\ losses[Latest(0)] = 0 /\ Saved(Latest(0))
    BY <1>7, LatestIsSaved
  <2>2. Latest(0) # Missing
    BY <2>1, ClientsAssumption DEF Missing, Experiments
  <2>3. 0 \in Loss /\ dir[0] = Latest(0)
    <3>1. 0 \in Loss
      BY LossAssumption
    <3> HIDE DEF dir
    <3> QED
      BY <1>2, <1>4, <1>7, <2>2, <3>1
  <2>4. 0 \in there /\ there \subseteq Nat
    BY <2>2, <2>3, LossAssumption
  <2>5. base = 0
    <3> HIDE DEF there
    <3>1. \A x \in there : 0 <= x
      BY <2>4
    <3>2. base \in there /\ base <= 0
      BY <2>4, <3>1
    <3>3. base \in Nat
      BY <2>4, <3>2
    <3> QED
      BY <3>2, <3>3
  <2>6. figures'.baseline[1] = dir[base]
    <3> HIDE DEF dir, there, base, shown
    <3> QED
      BY <1>2, <1>7
  <2> QED
    BY <2>1, <2>3, <2>5, <2>6
<1> HIDE DEF dir, there, shown, base
<1> QED
  BY <1>3, <1>5, <1>6, <1>7 DEF FiguresAsLabelled, Saved

\* The study takes the steps of the experiments, and no others but the plots,
\* after which nothing changes any more.
LEMMA StudyStep ==
  [NextStudy]_studyVars => [Next]_vars /\ (plot_stress \/ UNCHANGED figures)
BY DEF NextStudy, studyVars, plot_stress

StudyInv == /\ figures # <<>> => pc \in Terminal
            /\ FiguresAsLabelled

\* Every step of the study and of the experiments in it keeps its invariant.
LEMMA StudyInvStep == IInv /\ StudyInv /\ [NextStudy]_studyVars => StudyInv'
<1> SUFFICES ASSUME IInv, StudyInv, [NextStudy]_studyVars PROVE StudyInv'
  OBVIOUS
<1>1. CASE plot_stress
  <2>1. FiguresAsLabelled'
    BY <1>1, PlotAsLabelled
  <2>2. pc' \in Terminal
    BY <1>1 DEF plot_stress, vars, scriptVars
  <2> QED
    BY <2>1, <2>2 DEF StudyInv
<1>2. CASE UNCHANGED figures /\ figures = <<>>
  BY <1>2 DEF StudyInv, FiguresAsLabelled
<1>3. CASE UNCHANGED figures /\ figures # <<>>
  <2>1. [Next]_vars /\ pc \in Terminal
    BY <1>3, StudyStep DEF StudyInv
  <2>2. UNCHANGED vars
    BY <2>1 DEF Next, Driver, Experiment, Terminated, Terminal, detect_bench_iface,
       next_config, all_done, apply_netem, clear_netem, experiment_failed,
       experiment_saved, deploy_binaries, verify_remote_binary, start_server,
       start_client, poll_finished, poll_fails, kill_server, collect, collect_fails,
       collect_log, client_ends
  <2>3. UNCHANGED <<pc, saved, losses, bypassed, crashed, misjudged, overlap, figures>>
    BY <1>3, <2>2 DEF vars, scriptVars, givenVars, nodeVars, historyVars
  <2> QED
    BY <2>3 DEF StudyInv, FiguresAsLabelled, Saved
<1> QED
  BY <1>1, <1>2, <1>3, StudyStep

\* Whatever the sweep and earlier ones have left, what plot_stress.py draws under
\* a rate was measured at it by this sweep's experiment, or is an earlier
\* sweep's where this one has no result; nothing that was saved is lost but to
\* a later experiment or an older loss0; and the baseline is this sweep's at rate
\* 0 unless that is missing or hidden.
THEOREM FiguresAreLabelled == FairStudy => []FiguresAsLabelled
<1>1. InitStudy => IInv /\ StudyInv
  BY InitIInv DEF InitStudy, StudyInv, FiguresAsLabelled
<1>2. IInv /\ [NextStudy]_studyVars => IInv'
  BY StepIInv, StudyStep
<1>3. StudyInv => FiguresAsLabelled
  BY DEF StudyInv
<1> QED
  BY <1>1, <1>2, <1>3, StudyInvStep, PTL DEF FairStudy

=============================================================================
