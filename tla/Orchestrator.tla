---------------------------- MODULE Orchestrator ---------------------------
(***************************************************************************)
(* Experiments on many nodes: src/scripts/orchestrate.py runs one, and     *)
(* sweep.py or stress_sweep.py one after the other.  An experiment starts  *)
(* a server and the clients through ssh, polls until no client runs, stops *)
(* the server and copies each client's latency.csv.  stress_sweep.py sets  *)
(* a packet loss rate at the server before each and clears it after it.    *)
(*                                                                         *)
(* Any ssh or scp may fail, before or after the remote command has run;    *)
(* the programs on the nodes go on whatever becomes of the script.  A      *)
(* latency.csv is the experiment whose client wrote it, the loss rate its  *)
(* messages met, and its samples: all of them, none without a server, or   *)
(* cut when the server the client began with was gone at the end.          *)
(* Experiments are numbered from 1.                                        *)
(***************************************************************************)
EXTENDS Naturals, Sequences, FiniteSets

CONSTANTS
  Clients,   \* the number of config.clients, each on a node of its own
  Length,    \* the number of experiments of a sweep
  Loss,      \* the loss rates
  Plans      \* what stress_sweep's --loss may be, one rate per experiment

ASSUME ClientsAssumption == Clients \in Nat \ {0} /\ Length \in Nat
ASSUME LossAssumption == 0 \in Loss /\ Loss \subseteq Nat
ASSUME PlansAssumption == Plans \subseteq [1 .. Length -> Loss]

VARIABLES
  driver,      \* "sweep" (sweep.py) or "stress" (stress_sweep.py)
  protocol,    \* config.protocol of the experiments
  losses,      \* args.loss; sweep.py leaves the interface alone
  pc,          \* where the scripts are
  e,           \* the current experiment
  j,           \* loop index over the clients
  installed,   \* the binaries are on the nodes
  server,      \* the experiment that started the running server, 0 if none
  procs,       \* the client processes on each node
  csv,         \* results_<c>/latency.csv on node c
  local,       \* <output_dir>/client_<c>/latency.csv
  saved,       \* the results of each experiment that was reported saved
  netem,       \* the loss rate at the server's interface
  crashed,     \* history: <<n, c>>, client c of n ended without a file
  misjudged,   \* history: <<n, c>>, taken for finished while it ran
  overlap,     \* history: <<n, c>>, started beside a client of before
  bypassed     \* history: experiments whose server_addr is the host's name

givenVars == <<driver, protocol, losses>>
scriptVars == <<givenVars, pc, e, j, installed>>
nodeVars == <<server, procs, csv, netem, crashed>>
historyVars == <<misjudged, overlap, bypassed>>
vars == <<scriptVars, nodeVars, local, saved, historyVars>>

Nodes == 1 .. Clients
Experiments == 1 .. Length

NoFile == [exp |-> 0, loss |-> 0, samples |-> "none"]
File == [exp : Experiments, loss : Loss, samples : {"all", "cut", "none"}]
NoFiles == [c \in Nodes |-> NoFile]
Terminal == {"done", "failed"}

\* An earlier sweep may have left a loss rate at the interface.
Init ==
  /\ protocol \in {"tcp", "homa"}
  /\ \/ driver = "stress" /\ losses \in Plans
     \/ driver = "sweep" /\ losses = [n \in Experiments |-> 0]
  /\ netem \in IF driver = "stress" THEN Loss ELSE {0}
  /\ pc = IF driver = "stress" THEN "iface" ELSE "next"
  /\ e = 0 /\ j = 1 /\ installed \in BOOLEAN
  /\ server = 0
  /\ procs = [c \in Nodes |-> {}]
  /\ csv = NoFiles
  /\ local = NoFiles
  /\ saved = [n \in Experiments |-> <<>>]
  /\ crashed = {} /\ misjudged = {} /\ overlap = {} /\ bypassed = {}

-----------------------------------------------------------------------------
\* sweep.py and stress_sweep.py.

\* detect_bench_iface(): no answer and no such interface raise alike.
detect_bench_iface ==
  /\ pc = "iface"
  /\ pc' \in {"next", "failed"}
  /\ UNCHANGED <<givenVars, e, j, installed, nodeVars, local, saved, historyVars>>

\* sweep.py passes its --deploy, if given, on to the first experiment.
next_config ==
  /\ pc = "next" /\ e < Length
  /\ e' = e + 1
  /\ pc' \in IF driver = "stress" THEN {"apply"}
             ELSE {"verify"} \cup {x \in {"deploy"} : e = 0}
  /\ local' = IF driver = "sweep" THEN NoFiles ELSE local
  /\ UNCHANGED <<givenVars, j, installed, nodeVars, saved, historyVars>>

all_done ==
  /\ pc = "next" /\ e = Length
  /\ pc' = "done"
  /\ UNCHANGED <<givenVars, e, j, installed, nodeVars, local, saved, historyVars>>

\* Mutant: the failure of `tc qdisc add` goes unnoticed.
apply_unchecked ==
  /\ pc = "apply"
  /\ \E left \in {netem, 0} :
       netem' \in {left, IF left = 0 THEN losses[e] ELSE left}
  /\ pc' = "verify"
  /\ UNCHANGED <<givenVars, e, j, installed, server, procs, csv, crashed>>
  /\ UNCHANGED <<local, saved, historyVars>>

\* apply_netem(): `del` may get lost unnoticed; `add`, for a rate above zero,
\* fails when a qdisc is there still, and must succeed.
apply_netem ==
  /\ pc = "apply"
  /\ \E left \in {netem, 0} :
       IF losses[e] = 0
       THEN netem' = left /\ pc' = "verify"
       ELSE \/ left = 0 /\ netem' = losses[e] /\ pc' = "verify"
            \/ netem' \in {left, IF left = 0 THEN losses[e] ELSE left}
               /\ pc' = "clear_raise"
  /\ UNCHANGED <<givenVars, e, j, installed, server, procs, csv, crashed>>
  /\ UNCHANGED <<local, saved, historyVars>>

\* The `finally`, on every way out; it may get lost unnoticed.
clear_netem ==
  /\ pc \in {"clear", "clear_raise"}
  /\ netem' \in {0, netem}
  /\ pc' = IF pc = "clear" THEN "next" ELSE "failed"
  /\ UNCHANGED <<givenVars, e, j, installed, server, procs, csv, crashed>>
  /\ UNCHANGED <<local, saved, historyVars>>

\* orchestrate.py has exited with an error: sweep.py stops with it,
\* stress_sweep.py goes on to the next rate.
experiment_failed ==
  /\ pc = "aborted"
  /\ pc' = IF driver = "stress" THEN "clear" ELSE "failed"
  /\ UNCHANGED <<givenVars, e, j, installed, nodeVars, local, saved, historyVars>>

\* orchestrate.py has exited with 0; stress_sweep.py moves the results to the
\* directory named after the rate.
experiment_saved ==
  /\ pc = "saved"
  /\ saved' = [saved EXCEPT ![e] = local]
  /\ local' = NoFiles
  /\ pc' = IF driver = "stress" THEN "clear" ELSE "next"
  /\ UNCHANGED <<givenVars, e, j, installed, nodeVars, historyVars>>

Driver ==
  \/ detect_bench_iface \/ next_config \/ all_done \/ apply_netem \/ clear_netem
  \/ experiment_failed \/ experiment_saved

-----------------------------------------------------------------------------
\* orchestrate.py.

\* deploy_binaries(): node by node; the first step that fails ends the script.
deploy_binaries ==
  /\ pc = "deploy"
  /\ \/ pc' = "verify" /\ installed' = TRUE
     \/ pc' = "aborted" /\ UNCHANGED installed
  /\ UNCHANGED <<givenVars, e, j, nodeVars, local, saved, historyVars>>

\* verify_remote_binary(): an unreachable node counts as one without.
verify_remote_binary ==
  /\ pc = "verify"
  /\ pc' \in {"aborted"} \cup {x \in {"server"} : installed}
  /\ UNCHANGED <<givenVars, e, j, installed, nodeVars, local, saved, historyVars>>

\* detect_internal_ip(): when ssh fails, or finds no 10.* address, the clients
\* are told the host's name, and their messages pass by the interface that
\* stress_sweep.py sets netem at.  (Where it sets none, either will do.)
detect_internal_ip ==
  bypassed' \in {bypassed} \cup {bypassed \cup {n} : n \in {x \in {e} : losses[x] # 0}}

\* The server is started; it cannot bind while an earlier one runs, and may
\* fail for reasons of its own.  The shell's `&` hides either.
start_server ==
  /\ pc = "server"
  /\ server' \in {server, IF server = 0 THEN e ELSE server}
  /\ \/ pc' = "clients" /\ detect_internal_ip
     \/ pc' = "aborted" /\ UNCHANGED bypassed
  /\ j' = 1
  /\ UNCHANGED <<givenVars, e, installed, procs, csv, netem, crashed>>
  /\ UNCHANGED <<local, saved, misjudged, overlap>>

\* A process is told the address that was found for its experiment.
Process == [exp |-> e, srv |-> server]

\* Client j is started, and then the next, or the wait begins.  When ssh
\* fails, the experiment ends here, whether or not the client runs.
start_client ==
  /\ pc = "clients"
  /\ \/ /\ procs' = [procs EXCEPT ![j] = @ \cup {Process}]
        /\ overlap' = IF procs[j] = {} THEN overlap ELSE overlap \cup {<<e, j>>}
        /\ \/ /\ pc' = IF j = Clients THEN "wait" ELSE "clients"
              /\ j' = IF j = Clients THEN 1 ELSE j + 1
           \/ pc' = "aborted" /\ j' = j
     \/ pc' = "aborted" /\ UNCHANGED <<procs, overlap, j>>
  /\ UNCHANGED <<givenVars, e, installed, server, csv, netem, crashed>>
  /\ UNCHANGED <<local, saved, misjudged, bypassed>>

\* The loop over the clients goes on once client j is taken for finished.
finished ==
  /\ pc' = IF j = Clients THEN "kill" ELSE "wait"
  /\ j' = IF j = Clients THEN 1 ELSE j + 1
  /\ UNCHANGED <<givenVars, e, installed, nodeVars, local, saved>>
  /\ UNCHANGED <<overlap, bypassed>>

\* Mutant: pgrep is asked once.
poll_once ==
  /\ pc = "wait"
  /\ finished
  /\ UNCHANGED misjudged

\* Mutant: a client is waited for until it has written its file.
poll_until_file ==
  /\ pc = "wait" /\ procs[j] = {} /\ <<e, j>> \notin crashed
  /\ finished
  /\ UNCHANGED misjudged

\* pgrep finds no client of any experiment on the node.
poll_finished ==
  /\ pc = "wait" /\ procs[j] = {}
  /\ finished
  /\ UNCHANGED misjudged

\* ssh fails: r.returncode is not 0 either.
poll_fails ==
  /\ pc = "wait"
  /\ finished
  /\ misjudged' = IF procs[j] = {} THEN misjudged ELSE misjudged \cup {<<e, j>>}

\* pkill, which may get lost.
kill_server ==
  /\ pc = "kill"
  /\ server' \in {server, 0}
  /\ pc' = "collect"
  /\ UNCHANGED <<givenVars, e, j, installed, procs, csv, netem, crashed>>
  /\ UNCHANGED <<local, saved, historyVars>>

\* scp_from() of client j's latency.csv, whoever wrote it.  After the last, a
\* TCP experiment copies the server's log too and a Homa experiment does not.
collect ==
  /\ pc = "collect" /\ csv[j] # NoFile
  /\ local' = [local EXCEPT ![j] = csv[j]]
  /\ j' = IF j = Clients THEN 1 ELSE j + 1
  /\ pc' = IF j < Clients THEN "collect"
           ELSE IF protocol = "tcp" THEN "log" ELSE "saved"
  /\ UNCHANGED <<givenVars, e, installed, nodeVars, saved, historyVars>>

\* The file is not there or scp fails.
collect_fails ==
  /\ pc = "collect"
  /\ pc' = "aborted"
  /\ UNCHANGED <<givenVars, e, j, installed, nodeVars, local, saved, historyVars>>

collect_log ==
  /\ pc = "log"
  /\ pc' \in {"saved", "aborted"}
  /\ UNCHANGED <<givenVars, e, j, installed, nodeVars, local, saved, historyVars>>

Experiment ==
  \/ deploy_binaries \/ verify_remote_binary
  \/ start_server \/ start_client
  \/ poll_finished \/ kill_server
  \/ collect \/ collect_fails \/ collect_log

-----------------------------------------------------------------------------
\* A client ends: it writes its latency.csv (dump_csv, at the end of
\* run_client) or not.  Without a server the TCP client cannot connect, while
\* the Homa client writes what it has when its RPCs have been given up.
client_ends(c) ==
  /\ pc \notin Terminal
  /\ \E p \in procs[c] :
       /\ procs' = [procs EXCEPT ![c] = @ \ {p}]
       /\ \/ /\ p.srv # 0 \/ protocol = "homa"
             /\ csv' = [csv EXCEPT ![c] =
                  [exp |-> p.exp, loss |-> IF p.exp \in bypassed THEN 0 ELSE netem,
                   samples |-> IF p.srv = 0 THEN "none"
                               ELSE IF p.srv = server THEN "all" ELSE "cut"]]
             /\ UNCHANGED crashed
          \/ crashed' = crashed \cup {<<p.exp, c>>} /\ UNCHANGED csv
  /\ UNCHANGED <<scriptVars, server, netem, local, saved, historyVars>>

Terminated == pc \in Terminal /\ UNCHANGED vars

Next ==
  \/ Driver \/ Experiment \/ poll_fails
  \/ \E c \in Nodes : client_ends(c)
  \/ Terminated

Spec == Init /\ [][Next]_vars

\* The script runs on; a client need never end and no poll need fail.
FairSpec == Spec /\ WF_vars(Driver) /\ WF_vars(Experiment)

-----------------------------------------------------------------------------
\* The variables' values: no file of an experiment that was never run.
TypeOK ==
  /\ pc \in {"next", "apply", "clear", "clear_raise", "iface", "deploy", "verify",
             "server", "clients", "wait", "kill", "collect", "log", "saved", "aborted"}
            \cup Terminal
  /\ e \in 0 .. Length /\ j \in Nodes
  /\ server \in 0 .. e
  /\ procs \in [Nodes -> SUBSET [exp : 1 .. e, srv : 0 .. e]]
  /\ csv \in [Nodes -> File \cup {NoFile}]
  /\ local \in [Nodes -> File \cup {NoFile}]
  /\ \A n \in Experiments : saved[n] \in {<<>>} \cup [Nodes -> File]
  /\ netem \in Loss

Saved(n) == saved[n] # <<>>

\* What is saved as the results of an experiment was written by its own
\* clients, unless such a client crashed, was taken for finished too early,
\* or had a client of an aborted experiment beside it.
OwnResults ==
  \A n \in Experiments : Saved(n) =>
    \A c \in Nodes :
      saved[n][c].exp = n \/ <<n, c>> \in crashed \cup misjudged \cup overlap

\* The server outlives the clients: the server that a result was measured
\* against was there to the end, unless ssh failed in the poll of a client
\* that still ran.
WholeUnlessMisjudged ==
  misjudged = {} =>
    \A n \in Experiments : Saved(n) => \A c \in Nodes : saved[n][c].samples # "cut"

\* A result that is filed under a loss rate above zero was measured at that
\* rate, whichever del, add and clear before it were lost, unless the clients
\* were sent round the interface because its address could not be found out.
LossAsLabelled ==
  \A n \in Experiments :
    driver = "stress" /\ Saved(n) /\ losses[n] # 0 /\ n \notin bypassed =>
      \A c \in Nodes : saved[n][c].exp = n => saved[n][c].loss = losses[n]

\* The script ends, unless a client never does.
EndsUnlessClientHangs ==
  <>(pc \in Terminal) \/ <>[](\E c \in Nodes : procs[c] # {})
=============================================================================
