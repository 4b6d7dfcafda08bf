--------------------------- MODULE LatencyReport ---------------------------
(***************************************************************************)
(* The way of the measurements into the reports.  Each client adds its     *)
(* workers' samples to a LatencyHistogram, prints a summary and writes the *)
(* samples to latency.csv (run_client of src/src/tcp_bench.cpp and of      *)
(* homa_bench.cpp).  Then scripts of src/scripts read the files of an      *)
(* experiment: analyze.py, fairness.py, fanin_report.py, plot.py and       *)
(* plot_stress.py; the first two and plot.py also compare two experiments. *)
(*                                                                         *)
(* Latencies are in nanoseconds, those of the column latency_us in the     *)
(* hundredths of a microsecond it is rounded to.  Means and quotients are  *)
(* kept as <<numerator, denominator>>; numpy's percentile is in            *)
(* thousandths of the unit of the samples.                                 *)
(***************************************************************************)
EXTENDS LatencyHistogram

CONSTANTS
  Clients,    \* the clients of the experiment
  Vectors     \* what each client's two workers may have measured

ASSUME ClientsAssumption == IsFiniteSet(Clients) /\ Clients # {}
\* Only round trips above 0 are measured (rtt > 0).
ASSUME VectorsAssumption ==
  /\ DOMAIN Vectors = Clients
  /\ \A c \in Clients : Vectors[c] \subseteq Seq(Nat \ {0}) \X Seq(Nat \ {0})

VARIABLES
  cpc,       \* where client c is
  hist,      \* its result.latency
  summary,   \* what it has printed, or NoSummary
  csv,       \* its latency.csv
  stats,     \* analyze.py: <<>> before, then <<"none">>, <<"raised">> or stats
  fair,      \* fairness.py: likewise
  row,       \* fanin_report.py: likewise
  curves,    \* plot.py: likewise
  loss,      \* plot_stress.py: likewise
  compared,  \* analyze.py, fairness.py and plot.py on two directories
  measured   \* history: the samples of the client's workers

clientVars == <<cpc, hist, summary, csv, measured>>
tableVars == <<stats, fair, row, curves, loss, compared>>
reportVars == <<clientVars, tableVars>>

Percentiles == {500, 950, 990, 999}
NoSummary == <<>>
NoCsv == [exists |-> FALSE, header |-> FALSE, rows |-> <<>>, us |-> <<>>,
           ends |-> "row"]
Ended == {"done", "died"}

InitReport ==
  /\ cpc = [c \in Clients |-> "run"]
  /\ hist = [c \in Clients |-> LatencyHistogram]
  /\ summary = [c \in Clients |-> NoSummary]
  /\ csv = [c \in Clients |-> NoCsv]
  /\ measured = [c \in Clients |-> <<>>]
  /\ stats = <<>> /\ fair = <<>> /\ row = <<>>
  /\ curves = <<>> /\ loss = <<>> /\ compared = <<>>

-----------------------------------------------------------------------------
\* A client, with two workers.

\* The loop over thread_samples at the end of a run.
run_ends(c) ==
  /\ cpc[c] = "run"
  /\ \E v \in Vectors[c] :
       /\ hist' = [hist EXCEPT ![c] = add_samples(add_samples(@, v[1]), v[2])]
       /\ measured' = [measured EXCEPT ![c] = v[1] \o v[2]]
  /\ cpc' = [cpc EXCEPT ![c] = "print"]
  /\ UNCHANGED <<summary, csv, tableVars>>

\* The run throws, or the output directory cannot be made: no file.
client_dies(c) ==
  /\ cpc[c] \in {"run", "dump"}
  /\ cpc' = [cpc EXCEPT ![c] = "died"]
  /\ UNCHANGED <<hist, summary, csv, measured, tableVars>>

\* min_val() is printed before the percentiles and sorts for them.
print_summary(c) ==
  /\ cpc[c] = "print"
  /\ hist' = [hist EXCEPT ![c] =
                IF @.samples = <<>> THEN @ ELSE ensure_sorted(@)]
  /\ LET h == hist'[c] IN
     summary' = [summary EXCEPT ![c] =
       [count |-> count(h), min |-> min_val(h), max |-> max_val(h),
        mean |-> <<Total(h.samples), count(h)>>,
        p |-> [q \in Percentiles |-> percentile(h, q)]]]
  /\ cpc' = [cpc EXCEPT ![c] = "dump"]
  /\ UNCHANGED <<csv, measured, tableVars>>

\* Bound: the number of whole rows when a write fails.
Cuts(n) == {m \in 0 .. n - 1 : m \in {0, n \div 2, n - 1}}

\* What int() makes of a row that was cut within its latency.  Bound: one
\* digit is missing.
Cut(v) == IF v < 10 THEN {} ELSE {v \div 10}

\* setprecision(2) of v / 1000.0.  Bound: no v is half way.
Microseconds(v) == (v + 5) \div 10
ColumnUs(s) == [n \in DOMAIN s |-> Microseconds(s[n])]

File(rows, us, ends) ==
  [exists |-> TRUE, header |-> TRUE, rows |-> rows, us |-> us, ends |-> ends]

\* What becomes of the rows of s.  Nobody looks at the state of the stream:
\* the file ends where a write has failed.  That is before the header; between
\* two rows; in a row before its latency_ns, within that, before its
\* latency_us, or within that (bound: one digit is missing).
Written(s) ==
  {File(s, ColumnUs(s), "row"), [NoCsv EXCEPT !.exists = TRUE]} \cup
  UNION {LET whole == SubSeq(s, 1, n)
             us == ColumnUs(whole)
             v == s[n + 1]
         IN {File(whole, us, "row"), File(whole, us, "index")}
            \cup {File(Append(whole, x), us, "ns") : x \in Cut(v)}
            \cup {File(Append(whole, v), us, "ns"),
                  File(Append(whole, v),
                       Append(us, (Microseconds(v) \div 10) * 10), "us")}
         : n \in Cuts(Len(s))}

\* Mutant: the samples are written in the order in which they were added.
dump_unsorted(c) ==
  /\ cpc[c] = "dump"
  /\ \E file \in Written(measured[c]) : csv' = [csv EXCEPT ![c] = file]
  /\ cpc' = [cpc EXCEPT ![c] = "done"]
  /\ UNCHANGED <<hist, summary, measured, tableVars>>

\* The rows in ascending order.
dump_csv(c) ==
  /\ cpc[c] = "dump"
  /\ hist' = [hist EXCEPT ![c] = ensure_sorted(@)]
  /\ \E file \in Written(hist'[c].samples) : csv' = [csv EXCEPT ![c] = file]
  /\ cpc' = [cpc EXCEPT ![c] = "done"]
  /\ UNCHANGED <<summary, measured, tableVars>>

Client(c) == run_ends(c) \/ client_dies(c) \/ print_summary(c) \/ dump_csv(c)

-----------------------------------------------------------------------------
\* The scripts, on the files there are.  They only read, so that it does not
\* matter in which order they are run.

AllEnded == \A c \in Clients : cpc[c] \in Ended
Files == {c \in Clients : csv[c].exists}
Senders == {c \in Files : csv[c].rows # <<>>}

\* load_latency_csv() raises at a row without a number.
RowCut == \E c \in Files : csv[c].ends = "index"

\* np.concatenate of a column of the files; np.percentile puts it in order.
Pooled(files, column) ==
  FoldSet(LAMBDA c, others : csv[c][column] \o others, <<>>, files)

Merged(files) == Sorted(Pooled(files, "rows"))

\* np.percentile: linear between the two samples next to (n - 1) p.
np_percentile(s, p) ==
  LET at == (Len(s) - 1) * p
      part == at % 1000
      lo == at \div 1000 + 1
      hi == IF lo < Len(s) THEN lo + 1 ELSE lo
  IN s[lo] * (1000 - part) + s[hi] * part

compute_stats(s) ==
  [count |-> Len(s), min |-> s[1], max |-> s[Len(s)],
   mean |-> <<Total(s), Len(s)>>,
   p |-> [q \in Percentiles |-> np_percentile(s, q)]]

\* analyze.py on one directory.  Files without samples make compute_stats
\* return {}, and printing its `count` raises a KeyError.
analyze ==
  /\ AllEnded /\ stats = <<>>
  /\ stats' = IF Files = {} THEN <<"none">>
              ELSE IF RowCut \/ Senders = {} THEN <<"raised">>
              ELSE <<"stats", compute_stats(Merged(Files))>>
  /\ UNCHANGED <<clientVars, fair, row, curves, loss, compared>>

\* pool_size * 1e9 / mean of the samples of each sender, up to a factor that
\* is the same for all of them.
Throughputs(senders) ==
  LET others(c) == senders \ {c}
      total(c) == FoldFunctionOnSet(LAMBDA x, y : x * y, 1,
                    [d \in senders |-> Total(csv[d].rows)], others(c))
  IN [c \in senders |-> Len(csv[c].rows) * total(c)]

\* Mutant: the number of senders is left out.
jain_unscaled(x) ==
  LET sum == MapThenSumSet(LAMBDA c : x[c], DOMAIN x) IN
  <<sum * sum, MapThenSumSet(LAMBDA c : x[c] * x[c], DOMAIN x)>>

\* The square of the sum over n times the sum of the squares.
jain_index(x) ==
  LET sum == MapThenSumSet(LAMBDA c : x[c], DOMAIN x) IN
  <<sum * sum,
    Cardinality(DOMAIN x) * MapThenSumSet(LAMBDA c : x[c] * x[c], DOMAIN x)>>

\* fairness.py: clients without samples are passed over.
analyze_fairness ==
  /\ stats # <<>> /\ fair = <<>>
  /\ fair' = IF RowCut THEN <<"raised">>
             ELSE IF Senders = {} THEN <<"none">>
             ELSE <<"fair", [n_senders |-> Cardinality(Senders),
                             jain |-> jain_index(Throughputs(Senders))]>>
  /\ UNCHANGED <<clientVars, stats, row, curves, loss, compared>>

\* Mutant: clients without samples count as senders.
collect_counts_files ==
  /\ fair # <<>> /\ row = <<>>
  /\ row' = IF RowCut THEN <<"raised">>
            ELSE IF Senders = {} THEN <<"none">>
            ELSE <<"row", [latency |-> compute_stats(Merged(Senders)),
                           jain |-> jain_index(Throughputs(Senders)),
                           n_clients |-> Cardinality(Files)]>>
  /\ UNCHANGED <<clientVars, stats, fair, curves, loss, compared>>

\* fanin_report.py: the entry of one configuration in a trial's table, None
\* when no client has samples.
collect_entry ==
  /\ fair # <<>> /\ row = <<>>
  /\ row' = IF RowCut THEN <<"raised">>
            ELSE IF Senders = {} THEN <<"none">>
            ELSE <<"row", [latency |-> compute_stats(Merged(Senders)),
                           jain |-> jain_index(Throughputs(Senders)),
                           n_clients |-> Cardinality(Senders)]>>
  /\ UNCHANGED <<clientVars, stats, fair, curves, loss, compared>>

\* The samples of the column latency_us, of the rows that have one.
MergedUs == Sorted(Pooled(Files, "us"))

\* plot.py raises also where a row ends before its latency_us.  The CDFs are
\* through the samples in order.
plot ==
  /\ row # <<>> /\ curves = <<>>
  /\ LET s == MergedUs
     IN curves' =
          IF \E c \in Files : csv[c].ends \in {"index", "ns"} THEN <<"raised">>
          ELSE IF s = <<>> THEN <<"none">>
          ELSE <<"curves", [samples |-> s,
                            p |-> [q \in Percentiles |-> np_percentile(s, q)]]>>
  /\ UNCHANGED <<clientVars, stats, fair, row, loss, compared>>

\* arr[min(int(n p), n - 1)]
pct(s, p) ==
  LET k == (Len(s) * p) \div 1000 IN s[IF k < Len(s) THEN k + 1 ELSE Len(s)]

\* load_samples() of plot_stress.py passes over a row without a latency_us, and
\* raises at a file without a header; pct() raises when there is no sample.
load_samples ==
  /\ curves # <<>> /\ loss = <<>>
  /\ loss' = IF MergedUs = <<>> \/ \E c \in Files : ~csv[c].header
             THEN <<"raised">>
             ELSE <<"loss", [q \in Percentiles |-> pct(MergedUs, q)]>>
  /\ UNCHANGED <<clientVars, stats, fair, row, curves, compared>>

\* Two directories with paths that end differently, in the same name, or in a
\* slash, of which os.path.basename() leaves nothing.
Paths == {"distinct", "same", "slash"}

\* In a dict the later entry of a label takes the place of the earlier.
Kept(ds, unique) == IF unique THEN ds ELSE {d \in ds : \A x \in ds : x <= d}

\* analyze.py shows of a directory with files the statistics, or raises where
\* there are none; fairness.py, which strips the slash, and plot.py, whose
\* datasets are a list, show the directories with samples.  The second
\* directory has samples, files without any, or no files.
compare ==
  /\ loss # <<>> /\ compared = <<>>
  /\ \E paths \in Paths, second \in {"samples", "empty", "none"} :
       LET Those(first, but) ==
             {d \in {1} : first} \cup {d \in {2} : second \notin but}
           analyzed == Kept(Those(Files # {}, {"none"}), paths = "distinct")
           WithSamples(first) == Those(first, {"none", "empty"})
           bad == (1 \in analyzed /\ Senders = {}) \/ (2 \in analyzed /\ second = "empty")
       IN compared' =
            [paths |-> paths, samples |-> WithSamples(Senders # {}),
             analyze |-> IF RowCut \/ bad THEN {0} ELSE analyzed,
             fairness |-> IF RowCut THEN {0}
                          ELSE Kept(WithSamples(Senders # {}), paths # "same"),
             plot |-> IF curves[1] = "raised" THEN {0}
                      ELSE WithSamples(curves[1] = "curves")]
  /\ UNCHANGED <<clientVars, stats, fair, row, curves, loss>>

ReportFinished == compared # <<>> /\ UNCHANGED reportVars

NextReport ==
  \/ \E c \in Clients : Client(c)
  \/ analyze \/ analyze_fairness \/ collect_entry
  \/ plot \/ load_samples \/ compare
  \/ ReportFinished

SpecReport == InitReport /\ [][NextReport]_reportVars

-----------------------------------------------------------------------------
\* The k-th smallest element of s.
Smallest(s, k) ==
  CHOOSE v \in Range(s) :
    /\ Cardinality({n \in DOMAIN s : s[n] < v}) < k
    /\ Cardinality({n \in DOMAIN s : s[n] <= v}) >= k

\* The nearest-rank percentile of s: the smallest sample that p thousandths
\* of them do not exceed.
NearestRank(s, p) ==
  CHOOSE v \in Range(s) :
    /\ 1000 * Cardinality({n \in DOMAIN s : s[n] <= v}) >= p * Len(s)
    /\ 1000 * Cardinality({n \in DOMAIN s : s[n] < v}) < p * Len(s)

\* What a client prints are the count, the sum, the extremes and the
\* nearest-rank percentiles of exactly what its workers measured, whichever
\* worker measured what.  Only p99.9 is off, and by one rank: where the samples
\* are a multiple of a thousand and the product of 99.9 / 100.0 with their
\* number is rounded up, which it is at nearly all of them.
SummaryExact ==
  \A c \in Clients : cpc[c] = "dump" =>
    LET s == measured[c]
        n == Len(s)
    IN /\ summary[c].count = n /\ summary[c].mean = <<Total(s), n>>
       /\ n > 0 =>
            /\ summary[c].min = Smallest(s, 1)
            /\ summary[c].max = Smallest(s, n)
            /\ \A p \in Percentiles :
                 summary[c].p[p] =
                   IF RoundsUp(p, n)
                   THEN Smallest(s, p * (n \div 1000) + 1)
                   ELSE NearestRank(s, p)

\* The file against the console.  A file that is whole has the same count,
\* sum and extremes, and each percentile the scripts compute from it lies
\* between the neighbours of the sample the client printed.  A file that was
\* cut has lost the largest samples and may end in a number that was never
\* measured; but it never reports more than the client did, or than the
\* sample above the one it printed.
FileAgainstConsole ==
  \A c \in Senders :
    LET s == measured[c]
        n == Len(s)
        file == compute_stats(Merged({c}))
        rank(p) == (p * n + 999) \div 1000
    IN /\ file.min <= summary[c].min /\ file.max <= summary[c].max
       /\ \A p \in Percentiles :
            file.p[p] <= 1000 * Smallest(s, IF rank(p) < n THEN rank(p) + 1
                                                           ELSE n)
       /\ file.mean[1] = summary[c].mean[1] =>
            /\ file.count = n
            /\ file.min = summary[c].min /\ file.max = summary[c].max
            /\ \A p \in Percentiles :
                 file.p[p] >= 1000 * Smallest(s, IF rank(p) > 1 THEN rank(p) - 1
                                                                ELSE 1)

\* The three tables say the same of the same files.
TablesAgree ==
  row # <<>> =>
    /\ stats[1] = "stats" <=> row[1] = "row"
    /\ stats[1] = "stats" => stats[2] = row[2].latency
    /\ row[1] = "raised" => stats[1] = "raised"
    /\ fair[1] = "raised" <=> row[1] = "raised"
    /\ fair[1] = "fair" <=> row[1] = "row"
    /\ fair[1] = "fair" => /\ fair[2].jain = row[2].jain
                           /\ fair[2].n_senders = row[2].n_clients

\* plot.py, from rounded numbers, shows no percentile that is more than 5 ns
\* above the table's, nor below it unless a row was cut.
PlotAgrees ==
  curves # <<>> /\ curves[1] = "curves" =>
    /\ stats[1] = "stats" /\ Len(curves[2].samples) = stats[2].count
    /\ \A q \in Percentiles :
         /\ 10 * curves[2].p[q] <= stats[2].p[q] + 5000
         /\ (\A c \in Files : csv[c].ends = "row") =>
              stats[2].p[q] <= 10 * curves[2].p[q] + 5000

\* plot_stress.py's percentiles are of the nearest rank, but of the next when
\* the samples divide evenly; it differs by whole ranks from plot.py, which
\* lies between two samples.  It draws whatever plot.py draws.
StressPlotAgrees ==
  loss # <<>> =>
    /\ curves[1] = "curves" /\ (\A c \in Files : csv[c].header) => loss[1] = "loss"
    /\ loss[1] = "loss" /\ curves[1] = "curves" =>
         \A q \in Percentiles :
           LET s == curves[2].samples
               n == Len(s)
               rank == (q * n) \div 1000 + 1
           IN /\ loss[2][q] = Smallest(s, IF rank < n THEN rank ELSE n)
              /\ loss[2][q] >= NearestRank(s, q)

\* Of two directories with samples each script shows both, and never one
\* without; but analyze.py only the second when the paths end in the same name
\* or in slashes, and fairness.py when they end in the same name.
ComparisonsAgree ==
  compared # <<>> =>
    LET Shows(script, both) ==
          compared[script] # {0} =>
            IF both THEN compared[script] = compared.samples
            ELSE compared[script] = {d \in compared.samples :
                                       \A x \in compared.samples : x <= d}
    IN /\ Shows("analyze", compared.paths = "distinct")
       /\ Shows("fairness", compared.paths # "same")
       /\ Shows("plot", TRUE)

\* The scripts say the same of the same files, each in the precision of what it
\* reads, and compare the same experiments.  They differ at files without
\* samples and at rows that were cut, where analyze.py or a plot may raise.
ScriptsAgree == TablesAgree /\ PlotAgrees /\ StressPlotAgrees /\ ComparisonsAgree

\* Jain's index lies between 1/n and 1, and is 1 only when the senders' mean
\* latencies are all equal; n counts the senders that measured anything.
JainIndexInRange ==
  fair # <<>> /\ fair[1] = "fair" =>
    LET j == fair[2].jain
        equal == \A c, d \in Senders :
                   Total(csv[c].rows) * Len(csv[d].rows)
                     = Total(csv[d].rows) * Len(csv[c].rows)
    IN /\ j[2] \div fair[2].n_senders <= j[1]
       /\ j[1] <= j[2]
       /\ j[1] = j[2] <=> equal
=============================================================================
