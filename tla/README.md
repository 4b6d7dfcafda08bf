# dc-bench in TLA+

dc-bench measures the latency of TCP (single connection, pooled, DCTCP) and of
Homa between the nodes of a cluster. A C++ program per protocol is started as a
server or as a client; the client sends requests, measures each round trip and
reports the distribution; Python and shell scripts run it on many nodes and
evaluate the results. A benchmark that loses a request, measures one twice,
mixes up answers or hangs at the end reports wrong numbers without any sign of
it. The modules here model those parts of the program where that could happen,
TLC checks them on small instances, and TLAPS proves the safety properties that
hold there for every size.

## 1. Inventory

| Component (source) | State it keeps | Operations | Interacts with | What makes it correct |
|---|---|---|---|---|
| Connection scheduler (`src/priority_scheduler.cpp`) | atomic `rr_counter_` | `select` under three policies | called by the open-loop dispatcher | an index of the pool; even spread; large and small messages apart |
| Connection pool (`src/connection_pool.cpp`) | one descriptor per connection | `connect_all`, `close_all`, `fd_at` | both TCP client loops | open before and until every worker is through |
| TCP open-loop client (`src/tcp_client.cpp`, `tcp_client.h`) | a queue per connection, `running`, samples, `total_bytes_` | `run_open_loop`, `open_loop_worker`, `BoundedQueue` | scheduler, pool, `do_request` | every request settled once, in order; exact report; it ends |
| TCP closed-loop client (`src/tcp_client.cpp`) | samples, `total_bytes_` | `run_closed_loop`, `closed_loop_worker` | pool, `do_request` | the workers' shares add up to the requests |
| Request exchange (`do_request`; `connection_handler`; `message.h`) | the byte stream, buffers, `request_count_` | send, receive, parse, answer | client and server over one connection | an answer is the request's own echo; the exchange ends |
| TCP server (`src/tcp_server.cpp`) | `running_`, listener, `client_fds_`, threads | `start`, `stop`, `accept_loop`, `connection_handler` | clients, the kernel's descriptor table, SIGINT | no handler on a foreign connection; `stop()` returns and leaves nothing |
| Homa open-loop client (`src/homa_client.cpp`, `homa_api.cpp`) | `pending`, `receiving`, samples | `run_open_loop`, `open_loop_receiver` | the Homa kernel module | no sample twice; what is not measured is accounted for; it ends |
| Homa closed-loop client (`src/homa_client.cpp`) | samples | `closed_loop_worker` | the Homa kernel module | as the TCP closed loop; an RPC that is given up does not hang it |
| Homa server (`src/homa_server.cpp`) | `running_`, workers, counters | `start`, `stop`, `worker_loop` | the Homa kernel module | every request that has a header is answered; `stop()` returns |
| Latency statistics (`src/statistics.cpp`) | `samples_`, `sorted_` | `add_samples`, `percentile`, ... | both clients | nearest-rank percentiles of all samples |
| Workload generator (`src/workload.cpp`) | random state | `next_size`, `priority_for_size` | all client loops | sizes in range, priority falls with size |
| CPU monitor (`src/cpu_monitor.cpp`) | two readings | `start`, `stop`, `average_usage` | the command lines | a value in 0..100 |
| Command lines (`src/tcp_bench.cpp`, `src/homa_bench.cpp`) | `g_running` | option parsing, `run_server`, `run_client` | all of the above | |
| Orchestration (`scripts/orchestrate.py`, `sweep.py`, `stress_sweep.py`) | processes and files on the nodes | start server, start clients, poll, stop, collect | ssh, the programs | results collected are those of this experiment; no server left behind |
| Analysis (`scripts/analyze.py`, `fairness.py`, `fanin_report.py`) | the reports they write | percentiles, Jain's index, comparisons, averages over trials | result files, `run_fanin.sh` | definitions of the statistics; an average is of the trials beside it |
| Plots (`scripts/plot.py`, `plot_stress.py`, `make_plots.py`) | the figures they write | CDFs, percentiles, ratios, error bars | result files, `stress_sweep.py`, `run_fanin.sh` | a figure shows what its label says and what the tables say; figures of one study are of one run |
| CloudLab drivers (`cloudlab/*.sh`) | result directories per trial | as orchestration; `run_fanin.sh` runs a trial | ssh, `orchestrate.py` | as orchestration |

Hard to test, and what the properties aim at (`PROJECT.json`, "hazards", has the
lines): the workers' exit test reads a flag and a queue in two steps; a pop may
time out while a push arrives; connections fail in mid-run and nothing
reconnects; descriptor numbers are closed by one thread, reused by the kernel
and still held by another; `stop()` races `accept()` and the handlers; a receive
timeout strikes in the middle of a message; a Homa response overtakes the
sender's own bookkeeping; any ssh of a sweep may fail, with or without its
effect; reports and figures are made from directories that are being refilled,
by programs that may end half way; and each of the runs has to end.

## 2. Modules

| Module | Models | Its state and actions |
|---|---|---|
| `PriorityScheduler` | `src/priority_scheduler.cpp` | operators only: `round_robin`, `size_aware`, `random_select`, `select`, `fetch_add`; `SelectTraps` is the remainder by zero |
| `BenchmarkRun` | abstract: what a client promises of a run | `issued`, `answered`, `failed`, `report`; `Issue`, `Answer`, `Fail`, `Report` |
| `TcpOpenLoop` | `run_open_loop`, `open_loop_worker`, `BoundedQueue`, the pool | dispatcher (`dpc`, `k`, `i`), one worker per connection (`wpc`, `hand`), `queue`, `running`, `samples`, `result` |
| `TcpOpenLoop_proofs` | theorems about `TcpOpenLoop` | |
| `TcpSession` | `do_request` against `connection_handler` | the two directions as FIFOs of units, both program counters, buffers |
| `TcpServer` | `start`, `stop`, `accept_loop`, `connection_handler` | main thread (`mpc`), accept thread (`apc`), handlers (`hpc`, `hfd`), `client_fds`, the kernel's table `owner`, clients (`peer`) |
| `TcpServer_proofs` | theorems about `TcpServer` | |
| `TcpSession_proofs` | theorems about `TcpSession` | |
| `TcpClosedLoop` | `run_closed_loop`, `closed_loop_worker` | main thread (`dpc`, `k`), one worker per connection (`wpc`, `i`, `size`), `samples`, `latency`, `result` |
| `TcpClosedLoop_proofs` | theorems about `TcpClosedLoop` | |
| `HomaOpenLoop` | the Homa client's `run_open_loop` and `open_loop_receiver` | sender (`spc`, `i`), receiver (`recvpc`, `hand`, `received_count`), `pending`, `rpc` |
| `HomaOpenLoop_proofs` | theorems about `HomaOpenLoop` | |
| `HomaServer` | `start`, `stop`, `worker_loop` | main thread (`mpc`), worker threads (`wpc`, `hand`), counters, the kernel's `rpc` |
| `HomaClosedLoop` | the Homa client's closed loop, composed with `HomaServer` | main thread (`cpc`, `k`), workers (`wpc`, `i`), `samples`, `result`, the server's variables |
| `HomaClosedLoop_proofs` | theorems about `HomaClosedLoop` with `HomaServer` | |
| `LatencyHistogram` | `src/statistics.cpp` | operators on a histogram value: `add_samples`, `ensure_sorted` (`Sorted`), `percentile`, ... |
| `LatencyReport`, `MCLatencyReport` | the end of `run_client`; what `analyze.py`, `fairness.py`, `fanin_report.py`, `plot.py` and `plot_stress.py` compute from an experiment's files; comparisons of two directories | clients (`cpc`, `hist`, `summary`), their files (`csv`), the scripts' results (`stats`, `fair`, `row`, `curves`, `loss`, `compared`) |
| `Orchestrator` | `orchestrate.py` under `sweep.py` or `stress_sweep.py` | the scripts (`pc`, `e`, `j`, `installed`), the nodes (`server`, `procs`, `csv`, `netem`), `local` and `saved` results |
| `StressStudy`, `MCOrchestrator` | `plot_stress.py` on what a sweep has left | `Orchestrator`'s and `figures`; `plot_stress` |
| `FaninStudy`, `MCFaninStudy` | `run_fanin.sh`, `fanin_report.py` and `make_plots.py` on one tree of results | results (`tree`, `cut`, `todo`), the running script (`pc`, `args`, `tables`), its outputs (`reports`, `averaged`, `figures`) |
| `Orchestrator_proofs` | theorems about `Orchestrator` and `StressStudy` | |
| `Reports_proofs` | theorems about `LatencyReport` and `FaninStudy`, and the lemmas about sorting, sums, least and greatest elements that both rest on | |

`TcpOpenLoop` extends `PriorityScheduler`; `TcpOpenLoop`, `TcpClosedLoop` and
`HomaClosedLoop` instantiate `BenchmarkRun` as `Run`; `HomaClosedLoop`
instantiates `HomaServer`, with which it shares the kernel's RPCs. `TcpSession`
is what one `request_ok` or `request_fails` of the TCP clients, and one round of
a handler of `TcpServer`, look like inside. The clients as a whole are what
`client_ends` of `Orchestrator` stands for; what becomes of their samples is in
`LatencyReport`, which extends `LatencyHistogram`. `StressStudy` composes
`Orchestrator` with the plots of its results. An experiment of `Orchestrator` is
one `experiment_stored` or `experiment_fails` of `FaninStudy`; an entry of the
table that `collect_entry` of `LatencyReport` makes is one number there.

What is kept and what is abstracted:

- **`TcpOpenLoop`.** A request is its index, size and warm-up flag; priorities,
  send times and durations are left out. One push, pop, flag load or size test
  is one step, as each is one atomic operation or one critical section of
  `mu_`; the exit test `running || queue.size() > 0` is two steps. The policy
  is chosen in the initial state, as the command line does. `do_request` is one
  step that succeeds while the connection's `link` is up, and need never come,
  since the client has no timeout; a link goes down at any time and stays down. `total`, like `rr_counter_`, counts modulo
  `CounterMod` (2^32 in the code). An uncaught exception and the SIGFPE end the
  process: no worker steps after `threw` or `trapped`.
- **`TcpServer`.** Bytes are left out: a receive or a send succeeds or fails.
  A descriptor is a number, and `owner` tells whose connection the kernel has
  open under it. `close` frees the number, `accept` takes the lowest free one.
  `stop()` holds `fds_mu_` while `mpc = "close_clients"`, and the two other
  users of that mutex wait. `threads_mu_` needs no variable: the accept thread,
  its only other user, has ended when `stop()` takes it. The listener's own
  number is not among `Fds`: nothing is accepted after it is closed, so it is
  never reused.
- **`TcpSession`.** A header is `HdrLen` units and a payload `size` units. A
  unit carries the header it belongs to and its place, so that reading from the
  middle of a stream is visible: `deserialize_header` of units that are not one
  whole header may yield any size. A timeout may strike whenever the server is
  in a receive. When the server closes with unread data, or data arrives after
  its close, the client gets a reset; otherwise an end of stream. The client
  closes only after its last request, so the end of a session is outside, and so
  is `stop()`: the handler's tests of `running_` and a send that fails because
  `stop()` shut the descriptor are in `TcpServer`.
- **`HomaOpenLoop`.** An RPC's index stands for its id and its send time. The
  kernel module and the server are external: an RPC is answered once, in any
  order, or given up. `send_request` and the insertion into `pending` are two
  steps, as in the code; the lookup with its erase is one, under `pending_mu`.
- **`TcpClosedLoop`.** A request is its connection and loop index. The loop test
  with the drawing of a size is one step and `do_request` with what follows it
  another; after the join, each worker's samples are added to `latency` in a step.
  The scheduling policy does not occur: `run_closed_loop` never calls
  `select`.
- **`HomaServer`, `HomaClosedLoop`.** A message's bytes are left out; bytes are
  counted in messages. The kernel delivers a request to one server thread and
  its response to its sender, or gives it up. Messages shorter than a header,
  which these clients never send, are left out.
- **`LatencyReport`.** Latencies are whole nanoseconds, as in the code;
  `latency_us` is rounded to hundredths, as it is written. Doubles are exact
  quotients, with one exception that the code is exposed to: 99.9 / 100.0 is a
  double a little above 0.999, and its product with a multiple of 1000 is rounded
  to the double above the whole number, or to the number itself where the doubles
  are too far apart (`RoundsUp`, exact for fewer than 2^32 samples). A failing write ends
  `latency.csv` before the header, between two rows, or within a row at each
  place that some script reads differently (a cut number is another number to
  `int()` and `float()`, a missing one raises or is passed over). `numpy` is
  external: its percentile interpolates linearly. The scripts only read, so they
  are run in one order; the fallback of `analyze.py` and `plot.py` for
  directories without `client_*` is left out. Of the layout of a figure nothing
  is kept but which samples and percentiles it shows.
- **`Orchestrator`.** A result file is who wrote it, at which loss rate, and
  whether it has samples: all, none (Homa without a server) or those until the
  server went. Every `ssh` and `scp` may fail, with or without its effect. The
  two protocols differ in that the TCP client needs a server to connect to and
  that only the TCP experiment copies the server's log. Deployment to the nodes
  is one step that succeeds or ends the script. The address falls back on the
  host's name when it cannot be found out, and the clients then reach the server
  past the interface that `stress_sweep.py` sets the loss at (`bypassed`).
- **`StressStudy`.** One protocol's directories; the loop over the two protocols
  is left out. The four functions look for the same directories, so that what
  they draw is one record. `Leftovers` are the sets of directories that earlier
  sweeps may have left, of any rate and under either name of rate 0 (`loss0` and
  `loss0p0`), with samples or without; which it is, and whether the rates were
  given or the default, is chosen when the plots are made.
- **`FaninStudy`.** Every statistic of an experiment is averaged alike: its p99
  stands for all. The samples of one trial are read in one step, as if no file
  of that trial changed meanwhile; between the trials, and between the reading
  and the writing, anything may be stored. One script runs at a time; `analyze`
  in `run_fanin.sh` only prints and cannot stop the trial. A script ends early
  where its code raises; that it is killed, or that its own writes fail, is not
  modelled. The figures 1 to 8 of
  `make_plots.py` are drawn from tables in the script: they are written and
  nothing more. `--fan-ins` of `fanin_report.py` is the default, the list that
  `make_plots.py` has fixed.

## 3. Runs

| Run | Instance | Checks |
|---|---|---|
| `open_loop` | 2 connections, 4 requests of which 1 is warm-up, sizes 4096 and 4097 (both sides of the threshold), all policies; 489,040 states | the invariants of `TcpOpenLoop` except `TypeOK` and `AllSettled`, `ImplementsBenchmarkRun`, `EndsUnlessUnanswered` |
| `open_loop_trap` | 1 connection, 1 request | `EveryPolicyRuns`, violated |
| `server` | 2 connections, 2 descriptor numbers; 30,903 states | the invariants of `TcpServer`, `StopUnlessBlocked` |
| `server_stall` | the same | `StopTerminates`, violated |
| `session` | headers of 2 units, payloads of 0, 1, 2 and (refused) 3 units, 3 requests, buffers of 2 units; 51,204 states | `EchoUnlessCut`, `CountsAgree`, `FailureIsForGood`, `RequestReturns` |
| `session_cut` | 2 requests of 1 unit | `EchoAlways`, violated |
| `homa_open_loop` | 4 requests of which 1 is warm-up; 28,986 states | `SampledOnce`, `NothingElseUnmeasured`, `Termination` |
| `closed_loop` | 2 connections, 5 requests and 3 of warm-up; 21,954 states | `SplitAddsUp`, `ImplementsBenchmarkRun`, `EndsUnlessUnanswered` |
| `homa_closed_loop` | 2 client workers with 2 requests each, one of them warm-up, 2 server threads; 179,748 states | all properties of `HomaClosedLoop` |
| `latency_report` | 2 clients with 2 workers each; one of them measures 0 to 3, exactly 20 or about 1000 samples; 42,433 states | all properties of `LatencyReport` |
| `orchestrator` | sweeps of 2 experiments with 2 clients, at loss rates 1 and then 0 of the rates 0, 1 and 2, and the plots of them and of what earlier sweeps left; 3,374,670 states | the properties of `Orchestrator` and `StressStudy` |
| `fanin` | 2 trials, 2 numbers of senders, 2 experiments stored or failing at any time, 2 runs of the scripts; 3,025,994 states | the properties of `FaninStudy` |

Why the bounds are enough. Two connections let a worker starve, fail or exit
while the other works; four requests let a queue hold two while a worker has a
third, after warm-up. Two server connections with lowest-first numbers make the
second reuse the first's number in every order of close, erase, accept and
`stop()`; the invariants are proved for any number of both. Buffers of two units
are smaller than any message with payload, so both ends block on full and on
empty buffers, and three requests let a failed one be followed by others. With
four RPCs a response can be overtaken, overtake its own entry, come within the
warm-up and be missing, all in one run. In the closed loop neither five requests
nor three of warm-up divide by two. Two Homa workers and two server threads let
a response of one RPC be sent while another is taken, given up or left over at
`stop()`. Two experiments are what it takes for the second to meet what the
first has left: files, clients, a server, a loss rate. The samples of a client
reach 20 and 1000 exactly, where the ranks of p95 and of p99.9 are whole numbers
and a ceiling can be wrong by one; `Cuts` keeps three of the places where a file
can end. Rates 1 and 0 let a rate of 0 meet what a lossy experiment has left;
rate 2 is one that the plots look for and no experiment has. `Leftovers` lets
an earlier sweep have left nothing, full directories of both rates, or one of
every rate, that of rate 1 without samples. In the fan-in
study, two experiments can fall between the reading of two trials, or empty one
entry in both; two runs of the scripts are what it takes for one to leave files
of the other beside its own, in either order. `CounterMod` and `Word` are 8, above the
totals: a run of `total` requests cannot wrap a counter that starts at 0, in the
code as in the model.

### Properties

`TcpOpenLoop`:
- `FifoExactlyOnce`: what was pushed on a queue is what its worker is through
  with, the one it is doing and what waits, in order.
- `NoRequestLeftBehind`, `AllSettled`: the exit test, the flag and the join
  lose no request, and no result is made before the last is settled
  (`AllSettled` is proved; the runs have it as part of `ImplementsBenchmarkRun`).
- `ReportExact`: the report is the answered requests that are not warm-up.
- `RequestsOnOpenConnections`: no worker uses a descriptor before it is
  connected or after it is closed.
- `SizeIsolation`, `RoundRobinBalanced`: what the policies are for.
- `ImplementsBenchmarkRun`: every behaviour is one of the abstract `BenchmarkRun`.
- `EndsUnlessUnanswered`: the run ends, unless a worker waits for ever in
  `do_request` on a connection whose peer neither answers nor closes. No worker
  waits for another, for a lost connection or on its queue.

`TcpServer`:
- `NoCrossTalk`: no handler uses or closes another client's connection.
- `OpenWhileServing`: while the server runs, nobody else closes a handler's
  connection.
- `StopLeavesNothing`: after `stop()` no thread, descriptor or entry is left,
  also of a connection accepted while it ran.
- `StopUnlessBlocked`: `stop()` returns, unless a handler is blocked in a send on
  a descriptor that `stop()` did not shut.

`TcpSession`:
- `EchoUnlessCut`: an answer that is measured is the request's own echo.
- `CountsAgree`: the server has counted the client's answered requests and at
  most one more.
- `FailureIsForGood`: after a failed request no later one succeeds.
- `RequestReturns`: `do_request` returns.

All four are about connections on which no timeout has struck inside a header;
`session_cut` shows what happens on the others.

`HomaOpenLoop`:
- `SampledOnce`, `NothingElseUnmeasured`: the samples are of
  distinct received responses; the unmeasured ones are the first `Warmup` to
  arrive and those that came before their entry was made; the latter's entries
  stay in `pending`. Which requests are left out as warm-up is thus a matter of
  arrival: a warm-up request whose response is overtaken by one that is not may
  be measured (`homa_client.cpp:220-221`).
- `Termination`.

`TcpClosedLoop`:
- `SplitAddsUp`: the report lacks exactly the requests that failed, so the
  workers' shares add up to what was asked for, and rounding makes the warm-up
  short by less than one request per worker.
- `ImplementsBenchmarkRun`, `EndsUnlessUnanswered`: as in the open loop.

`HomaClosedLoop` with `HomaServer`:
- `ImplementsBenchmarkRun`: also when a worker has no socket.
- `CountsAgree`: the server has counted at least the client's answers and at
  most what the client has sent.
- `StopFinishesRequests`, `StopTerminates`: the server's `stop()` drops no
  request that a worker has received, and returns.
- `EndsUnlessUnserved`: the client ends unless an RPC is never settled, which
  takes a server that is gone or a response that could not be sent.

`LatencyReport`:
- `SummaryExact`: the console's statistics are those of what the workers measured,
  by nearest rank, except that p99.9 is one rank high at those multiples of 1000
  samples where the product is rounded up. Nearly all are (the default of 100,000
  requests, when none fails, is one); 33,000, 66,000 and 132,000 are not.
- `FileAgainstConsole`: a whole file yields the console's numbers, percentiles up
  to a neighbouring sample; a cut one never more.
- `ScriptsAgree`: the three tables agree on the same files; `plot.py` shows their
  percentiles up to the rounding of `latency_us`; `plot_stress.py`, whose
  percentile is another, is off by whole ranks and never below the nearest one;
  and of two directories with samples each script shows both, except where a
  label, the last part of a path, is taken twice: `analyze.py` keeps a trailing
  slash, of which nothing is left as a label, and `fairness.py` strips it.
- `JainIndexInRange`: the range that `fairness.py` states, and 1 exactly for equal
  means; senders without samples are not in it.

`Orchestrator`:
- `OwnResults`: what is saved for an experiment is of that experiment, unless
  its client crashed, was taken for finished too early or had one of an aborted
  experiment beside it. Each of the three exceptions does occur: the scripts do
  not remove an earlier `latency.csv`, take a failed `ssh` for a finished client
  and leave clients running when they abort.
- `WholeUnlessMisjudged`: the server outlives the clients whose results are
  saved, unless a poll failed.
- `LossAsLabelled`: a result under a loss rate above zero was measured at it,
  unless the server's address could not be found out.
- `EndsUnlessClientHangs`: only a client that never ends keeps the scripts
  waiting.

`StressStudy`:
- `FiguresAsLabelled`: the same of what is drawn under a rate above zero, or it
  is an earlier sweep's and no experiment of this one succeeded at that rate (a
  failed experiment leaves the old directory, `stress_sweep.py:63-65`, and
  nothing in a figure tells it apart); no experiment with samples is left out but
  one whose rate was given twice, of which the later run replaced the results,
  and one that an older `loss0` hides; and the degradation is relative to this
  sweep's rate 0 unless there is none or it is hidden. In those two cases the
  axis still says "p99 at 0% loss" (`plot_stress.py:172`).

`FaninStudy`:
- `AveragedFromTrials`: whatever is stored meanwhile, the averaged report is the
  average of the trial reports written with it. The N of its "Averaged across N
  trials" is the number of trials asked for; an entry is averaged over those that
  have it.
- `AveragedUnlessBaseMissing`: exactly when a file is cut, or Homa and DCTCP have
  data with the most senders and not both with the fewest (`fanin_report.py:312`
  divides None), an old averaged report stays.
- `FiguresTogether`: the five fan-in figures are of one run and of one reading;
  a run that ends early leaves all five as they were, beside eight new ones.
- `ReportAndFiguresAgree`: where the report and the figures were made from the
  same samples, the two programs' means and ratios are the same.

Each property has a mutant of the code's model (in `PROJECT.json`) under which
TLC finds it violated; the operators marked "Mutant" in the modules are these. The
type invariants `TypeOK` (those of `TcpOpenLoop`, `TcpServer`, `TcpClosedLoop`,
`HomaOpenLoop` and `Orchestrator` are proved) are not among the properties of the runs.

### Fairness

Weak fairness of each thread: the OS schedules every runnable thread, `wait_for`
and `SO_RCVTIMEO` end, and Homa's receive does not block. Nothing is assumed of
the environment: links need not fail, clients need do nothing, no signal need
come, Homa need answer nothing, timeouts need not strike, clients on the nodes need
not end and no ssh need fail. In `TcpOpenLoop` and `TcpClosedLoop` the peer need
neither answer nor close: `WorkerAlone`, the fair part of a worker, is every step
but the return of `do_request` with an answer. `TcpSession` looks closer: under
fairness of both ends' threads `do_request` returns (`RequestReturns`) on a
connection where no header was cut, and may wait for ever on one where one was.

### What the violated properties show

- `open_loop_trap`: `--arrival open --scheduling size_aware` with the default
  `--pool-size 1` is a remainder by zero (`priority_scheduler.cpp:39`). The closed
  loop never calls `select`.
- `server_stall`: a handler closes its descriptor before it erases the number
  from `client_fds_` (`tcp_server.cpp:170-175`). If the number is reused in
  between, the erase removes the newer connection's entry, `stop()` does not
  shut that connection, and a client of it that does not read blocks the
  handler's send, and so `stop()`, for ever.
- `session_cut`: a receive timeout inside a header makes the server drop what it
  has of it and read on from the middle (`tcp_server.cpp:140-142`).

## 4. Proofs

All theorems hold for every value of the constants that satisfies the named
assumptions, which ask for no more than the program's options allow:

- at least one connection or client worker, counters modulo a positive number,
  natural numbers of requests, warm-up and sizes (`PriorityScheduler`,
  `TcpOpenLoop`, `TcpClosedLoop`, `HomaOpenLoop`, `HomaClosedLoop`);
- `NoConn` is no connection and descriptors are natural numbers (`TcpServer`);
- headers of at least one unit and room for at least one unit in a buffer
  (`TcpSession`);
- at least one client, a sweep of any length, natural loss rates, 0 among them
  (`Orchestrator`), and any directories of these rates left by earlier sweeps
  (`StressStudy`); finitely many clients, at least one, and round trips above 0,
  as the workers keep no others (`LatencyReport`); at least one trial and one
  number of senders, natural results (`FaninStudy`). The bounds of the runs (`MaxExperiments`, `MaxRuns`)
  may be any numbers.

**`TcpServer_proofs`**: `TypeCorrect`, `NoCrossTalkHolds`,
`OpenWhileServingHolds`, `StopLeavesNothingHolds`. None of the properties is
inductive: that a handler's number means its own connection depends on who else
may close or take the number. The inductive invariant `IInv` adds

- `StageInv`: the stages of `stop()` fit `running`, the listener and the threads;
- `AcceptInv`: a connection is accepted once, and has a number from then on;
- `HeldInv`: a number that a thread will still use is its own, or was closed by
  `stop()`, after which the listener is shut and nothing is accepted;
- `OwnedInv`: an open number is held by its connection's thread;
- `EntryInv`: an entry of `client_fds_` has a thread that will still erase it.

`HeldInv` is where the order of `stop()` matters: the listener is closed before
the clients' descriptors.

**`TcpOpenLoop_proofs`**: `TypeCorrect`, `FifoExactlyOnceHolds`,
`NoRequestLeftBehindHolds`, `OpenConnections`, `SizeIsolationHolds`,
`AllSettledHolds`, `ReportExactHolds`. The argument goes in layers, each an
invariant that uses the ones before:

- `StartInv`: workers that are not spawned have not begun (for the types);
- `PhaseInv`, `ExitInv`: the flag is cleared only after the last push, so a
  worker that then sees its queue empty can leave (`NoRequestLeftBehind`);
- `FifoExactlyOnce`, from lemmas about pushes and pops on sequences;
- `CoverInv`, `LargeInv`: every drawn request was pushed, on a connection that
  fits its size (`SizeIsolation`, from `SizeAwareSplits`, for every pool size);
- `ServedInv`, `SampleInv`: what is served is settled, and the samples are the
  answered requests that are not warm-up;
- at the join all of these meet: every queue and hand is empty, so what was
  pushed was served, hence settled (`AllSettled`, `ReportExact`).

`RoundRobinBalancedHolds` counts rounds (`BalanceInv`): after `i` requests
`rr_counter_` is `i`, each connection has had the same number of them and those
below the remainder of `i` one more. The counter cannot wrap, because `total` has its
width. `OpenLoopRefines` proves `Spec => ImplementsBenchmarkRun`: an abstract
request is issued while it is in a queue or a hand. What it adds to the layers is
`OnceInv`: no request is pushed twice, on the same or on two connections, and one
that is served is settled, so a worker's step is exactly one `Answer` or `Fail`.

**`TcpSession_proofs`**: `MeasuredAreEchoes` (`EchoUnlessCut`),
`ServerAndClientCount` (`CountsAgree`), `FailuresAreForGood`
(`FailureIsForGood`), for messages and buffers of any size. The inductive
invariant is an implication, `~cut => Good`: once a timeout has struck inside a
header nothing is claimed. `Good` says that everything between the two programs
(what the client has yet to send, both directions, the server's buffers and its
reply, what the client has got) is a `Piece` of the one message under way, and
that the pieces fit together without a gap (`ClientInv`, `ServerInv`); that
nothing is under way between requests (`IdleInv`); that a server that closes has
sent nothing of a response (`ClosedInv`), since it closes only when it has not
yet answered; and that requests counted by the server are the answered ones and
the one it is answering (`OutcomeInv`). That a header is parsed right follows:
the units that the server reads are the first of the message.

**`HomaOpenLoop_proofs`**: `TypeCorrect`, `MeasuredOnce` (`SampledOnce`),
`UnmeasuredAreKnown` (`NothingElseUnmeasured`). An RPC's entry is in `pending`
from its insertion to the lookup of its response (`EntryInv`, `HandInv`), except
that a response looked up before its insertion leaves the entry for good
(`OvertakenInv`). The count of responses is at most the number of RPCs that are
gone (`CountInv`), so that it cannot wrap, and what it exceeds the warm-up by is
at least the samples and at most the samples and the overtaken ones (`LateInv`).

**`HomaClosedLoop_proofs`**: `ProgramsAgree` (`CountsAgree`), `StopIsClean`
(`StopFinishesRequests`), `ClosedLoopRefines` (`ImplementsBenchmarkRun`), of the
client and the server together. A client worker has at most the RPC under way
that it waits for (`ClientInv`), and has settled all before it, or all its share
when it has no socket (`SettledInv`). On the server's side no two threads hold
one request (`ServerInv`), and a response exists only of a request that has been
counted (`TakenInv`), which is why the server has never counted fewer requests
than the client has answers.

**`TcpClosedLoop_proofs`**: `TypeCorrect`, `SplitHolds` (`SplitAddsUp`),
`ClosedLoopRefines` (`ImplementsBenchmarkRun`). A worker has settled exactly the
requests of its share that are behind it (`StageInv`, `SettledInv`) and has one
sample of each answered one that is not warm-up (`SampledInv`); after the join
the latencies are those of the workers added so far (`AddedInv`), and so the
result is of all (`ResultInv`). The refinement needs no more. `SplitHolds` also
adds up the shares: the first `NumRequests % PoolSize` workers have one request
more. It has the hypothesis `NoWrap`, that no worker's warm-up and share
together reach `CounterMod`: `warmup + num_requests` is computed in 32 bits
(`tcp_client.cpp:127`), so a longer run would wrap to a short loop. It holds for every run of fewer
than 2^32 requests, warm-up included.

**`Orchestrator_proofs`**: `ResultsAreOwn` (`OwnResults`), `ResultsAreWhole`
(`WholeUnlessMisjudged`), `ResultsAreLabelled` (`LossAsLabelled`), and
`FiguresAreLabelled` (`FiguresAsLabelled`) of `StressStudy`, for any number of
clients and experiments. The inductive invariant says of each stage of the
scripts what may run on the nodes and lie in the files: nothing of an experiment
to come (`AgeInv`); a client that has been started runs, has crashed or has
written its file, unless another ran beside it (`StartedInv`); one that is taken
for finished is, unless a poll failed (`EndedInv`); every client's server is the
one that runs (`ServedInv`); the interface has the experiment's rate (`LossInv`).
What was copied and saved then fits its name (`CopiedInv`, `SavedInv`).
The figures need that the directory of a rate holds the last experiment of that
rate, or else what an earlier sweep left there (`HeldBy`). A first statement of
`FiguresAsLabelled`, which had no experiment left out,
failed here: a rate that is given twice is a case no plan of the run has.

**`Reports_proofs`**, of `FaninStudy`: `AveragesAreOfTrials`
(`AveragedFromTrials`), `ReportIsAveraged` (`AveragedUnlessBaseMissing`),
`FiguresAreTogether` (`FiguresTogether`), `ReportAndFiguresShowTheSame`
(`ReportAndFiguresAgree`), for any number of trials and of senders. Half of it is
about the operators: `average_trials` of the report and `average_across_trials`
of the figures collect an entry's values in different ways and have the same sum
and count, and the average of a set lies between its least and its greatest.
The other half is the inductive invariant: how far a script has read
(`StageInv`), which reports it has written from what (`ReportInv`,
`AveragedInv`), and which figures (`DrawnInv`, `TogetherInv`: once the first
fan-in figure is drawn no entry is missing, so that the others follow).

Of `LatencyReport`: `SummaryHolds` (`SummaryExact`), `FileHolds`
(`FileAgainstConsole`), `JainHolds` (`JainIndexInRange`), `ScriptsHold`
(`ScriptsAgree`), for any number of clients and of samples. The state machine
is simple and the arithmetic is not:

- `Sorted` is characterised by `SortedRanks`: its k-th element is at most v
  exactly when at least k of the samples are. Percentiles, extremes and totals of
  a sorted file follow from that, without induction over sorting.
- `ClientsInv` says at each stage of a client what its histogram holds, what it
  has printed, and what its file may be: `FileOf`, no row above the sample of its
  rank and the two columns alike but for the last row. This gives `SummaryExact`
  and `FileAgainstConsole`, with the ranks of the two definitions of a
  percentile compared (`percentile` rounds up, the scripts interpolate or cut).
  `RoundsUpWhen` is all that is used of the doubles: only p99.9, and only at a
  multiple of 1000, is ever rounded above a whole rank.
- `ScriptInv`: the clients have ended before the first script reads, so each
  output is what its script makes of files that no longer change.
- `JainIndexInRange` is the inequality of Cauchy and Schwarz with its case of
  equality, by induction over the set of senders.
- For `ScriptsAgree` the samples of all files in one sequence are counted file by
  file (`PooledCounts`); files without samples change neither the pooled samples
  nor the sums. `TablesHold`, `PlotHolds`, `StressPlotHolds` and `ComparisonsHold`
  are its four parts.

Induction over finite sets, here and for the folds, is done with the set of the
values for which the claim holds in the place of the library's operator
parameter.

**Only model-checked**: liveness (`Termination`, `EndsUnlessUnanswered`, `RequestReturns`,
`StopUnlessBlocked`, `StopTerminates`, `EndsUnlessUnserved`,
`EndsUnlessClientHangs`), which is beyond the prover.

## 5. Not modelled, and the plan

The order was: the TCP open loop and its scheduler, the server, the exchange on
one connection, Homa's open loop, the closed loops, the orchestration, the
reports, the loss and fan-in studies with their plots; then the proofs. Left, in
this order:

1. `HomaServer` in place of the external transport of `HomaOpenLoop`.
2. `priority_for_size` and the CPU monitor's unsigned differences.

Not modelled: the random distributions and the interarrival times (only the set
of sizes matters); socket options, clocks, printing, option parsing, the layout
of reports and figures; `cloudlab/profile.py`, which describes hardware to
CloudLab and keeps no state; the other scripts of `cloudlab/` and the set-up and
build scripts, which call installers or list the same programs one after the
other without anything that depends on their results; and the Homa kernel module
itself.
