----------------------------- MODULE FaninStudy -----------------------------
(***************************************************************************)
(* The fan-in study and its two evaluations, which share results/.         *)
(* src/cloudlab/run_fanin.sh runs a trial: one experiment per number of    *)
(* senders and configuration, each through orchestrate.py.                 *)
(* src/scripts/fanin_report.py writes the tables of each trial and of      *)
(* their average; src/scripts/make_plots.py draws the averages again, from *)
(* the same files, by code of its own.  The scripts may run at any time,   *)
(* also while a trial runs, and end early where their code raises; what    *)
(* they wrote before stays.  They are not killed, and their own writes do  *)
(* not fail.                                                               *)
(*                                                                         *)
(* Every statistic of an experiment is averaged in the same way: a single  *)
(* number, its p99, stands for all of them, and 0 for an experiment that   *)
(* has left no samples.  A mean is <<sum, number>> (<<0, 0>> is None), a   *)
(* quotient <<numerator, denominator>>.  An output file is a record: the   *)
(* run that wrote it, the tables it was made from, and what it shows.      *)
(***************************************************************************)
EXTENDS Naturals, Sequences, FiniteSets, FiniteSetsExt, Functions

CONSTANTS
  FanIns,          \* the numbers of senders, in ascending order
  Trials,          \* the number of trials
  Trees,           \* the results there may be at first
  Values,          \* the p99 that a new experiment may leave, 0 for no samples
  MaxExperiments,  \* bound: experiments of run_fanin.sh
  MaxRuns          \* bound: runs of the two scripts

Labels == {"Homa", "TCP single", "TCP DCTCP-32"}
FanIn == {FanIns[n] : n \in DOMAIN FanIns}
Keys == Labels \X FanIn
Trial == 1 .. Trials

ASSUME FanInsAssumption == FanIns \in Seq(Nat) /\ FanIns # <<>>
ASSUME TrialsAssumption == Trials \in Nat \ {0}
ASSUME ValuesAssumption ==
  Values \subseteq Nat /\ Trees \subseteq [Trial -> [Keys -> Nat]]
ASSUME BoundsAssumption == MaxExperiments \in Nat /\ MaxRuns \in Nat

VARIABLES
  tree,      \* results/fanin_test<t>/fanin_<fi>/<configuration>
  cut,       \* where a latency.csv ends in a row without a number
  todo,      \* the experiments left to run_fanin.sh
  made,      \* how many experiments it has run
  pc,        \* where the running script is
  script,    \* the script that runs or ran last, "" before the first
  run,       \* its number
  args,      \* the trials it reads, in order
  tables,    \* what it has read of them
  reports,   \* fanin_test<t>.md
  averaged,  \* fanin_averaged.md
  figures    \* plots/fig<nn>_*.png

resultVars == <<tree, cut, todo, made>>
scriptVars == <<pc, script, run, args, tables>>
outputVars == <<reports, averaged, figures>>
vars == <<resultVars, scriptVars, outputVars>>

\* The figures that are drawn from tables in the script and read nothing, and
\* those of the fan-in study.
Midterm == 1 .. 8
Fanin == 9 .. 13

\* A file that is not there is of run 0.
NoFile == [run |-> 0, from |-> <<>>, shows |-> <<>>]

Init ==
  /\ tree \in Trees
  /\ cut = {} /\ todo = <<>> /\ made = 0
  /\ pc = "idle" /\ script = "" /\ run = 0 /\ args = <<>> /\ tables = <<>>
  /\ reports = [t \in Trial |-> NoFile]
  /\ averaged = NoFile
  /\ figures = [f \in Midterm \cup Fanin |-> NoFile]

-----------------------------------------------------------------------------
\* run_fanin.sh

\* The experiments of a trial: per number of senders, in this order.
Variants == <<"TCP single", "TCP DCTCP-32", "Homa">>
Plan(t, fis) ==
  [m \in 1 .. 3 * Len(fis) |->
     <<t, <<Variants[1 + ((m - 1) % 3)], fis[1 + ((m - 1) \div 3)]>>>>]

\* --trial t --fan-ins "...": numbers of senders that follow each other; those
\* that there are not enough nodes for are skipped.
run_fanin ==
  /\ todo = <<>> /\ made < MaxExperiments
  /\ \E t \in Trial, lo, hi \in DOMAIN FanIns :
       lo <= hi /\ todo' = Plan(t, SubSeq(FanIns, lo, hi))
  /\ UNCHANGED <<tree, cut, made, scriptVars, outputVars>>

\* What the directory of an experiment holds when orchestrate.py has stored
\* value v there; a file may have been cut, on the node or on the way.
stores(v) ==
  LET t == Head(todo)[1]
      key == Head(todo)[2]
  IN /\ tree' = [tree EXCEPT ![t][key] = v]
     /\ cut' \in {cut \ {<<t, key>>}, cut \cup {<<t, key>>}}

experiment_stored ==
  /\ todo # <<>> /\ made < MaxExperiments
  /\ \E v \in Values : stores(v)
  /\ todo' = Tail(todo) /\ made' = made + 1
  /\ UNCHANGED <<scriptVars, outputVars>>

\* orchestrate.py fails, before or after it has stored the files of some
\* clients, and `set -e` ends the trial.
experiment_fails ==
  /\ todo # <<>> /\ made < MaxExperiments
  /\ \E v \in Values \cup {tree[Head(todo)[1]][Head(todo)[2]]} : stores(v)
  /\ todo' = <<>> /\ made' = made + 1
  /\ UNCHANGED <<scriptVars, outputVars>>

-----------------------------------------------------------------------------
\* What the two scripts have in common.

None == <<0, 0>>

\* The mean of the values of f.
Mean(f) == <<SumFunction(f), Cardinality(DOMAIN f)>>

\* int() raises at a row that was cut, and the script ends there.
Unreadable(t) == \E key \in Keys : <<t, key>> \in cut

Reading == args[Len(tables) + 1]
LastTrial == Len(tables) + 1 = Len(args)

start(s, ts) ==
  /\ pc = "idle" /\ run < MaxRuns
  /\ pc' = "collect"
  /\ script' = s /\ run' = run + 1 /\ args' = ts /\ tables' = <<>>

goto(step) ==
  /\ pc' = step
  /\ UNCHANGED <<script, run, args>>

ends == goto("idle") /\ UNCHANGED <<tables, outputVars>>

Made(what) == [run |-> run, from |-> tables, shows |-> what]

\* The quotient of two means.
Ratio(a, b) == <<a[1] * b[2], a[2] * b[1]>>

-----------------------------------------------------------------------------
\* fanin_report.py

\* average_trials(): the mean over the trials that have the entry.
average_trials(ts) ==
  [key \in Keys |-> Mean([m \in {x \in DOMAIN ts : ts[x][key] # 0} |-> ts[m][key]])]

Known(table, label, fi) == table[<<label, fi>>] # None

\* The gap table: two quotients, or n/a.
Gaps(table) ==
  [fi \in {x \in FanIn : \A label \in Labels : Known(table, label, x)} |->
     <<Ratio(table[<<"TCP single", fi>>], table[<<"Homa", fi>>]),
       Ratio(table[<<"TCP DCTCP-32", fi>>], table[<<"Homa", fi>>])>>]

\* A line per entry, those of None say n/a.
build_markdown(table) ==
  [rows |-> [key \in {x \in Keys : table[x] # None} |-> table[key]],
   gaps |-> Gaps(table)]

fi_min == FanIns[1]
fi_max == FanIns[Len(FanIns)]

\* Mutant: the conclusion also compares with TCP single.
ConclusionComparesAll(table) ==
  \A label \in Labels : Known(table, label, fi_max)

\* if h_p99_max and d_p99_max
Conclusion(table) ==
  Known(table, "Homa", fi_max) /\ Known(table, "TCP DCTCP-32", fi_max)

\* build_narrative() makes text of the table or raises.  Each paragraph looks at
\* the values it divides, but for the conclusion: it also divides those at the
\* lowest number of senders, and dividing None raises.
NarrativeRaises(table) ==
  /\ Conclusion(table)
  /\ ~(Known(table, "Homa", fi_min) /\ Known(table, "TCP DCTCP-32", fi_min))

\* main(): --trial, once for each trial wanted.
start_report ==
  /\ \E lo, hi \in Trial :
       lo <= hi /\ start("report", [m \in 1 .. hi - lo + 1 |-> lo + m - 1])
  /\ UNCHANGED <<resultVars, outputVars>>

\* A trial is read, and its report written.
collect_one_trial ==
  /\ pc = "collect" /\ script = "report"
  /\ IF Unreadable(Reading) THEN ends
     ELSE /\ tables' = Append(tables, tree[Reading])
          /\ reports' = [reports EXCEPT ![Reading] =
               [run |-> run, from |-> <<tree[Reading]>>,
                shows |-> build_markdown(average_trials(<<tree[Reading]>>))]]
          /\ goto(IF LastTrial THEN "average" ELSE "collect")
          /\ UNCHANGED <<averaged, figures>>
  /\ UNCHANGED resultVars

AveragedReport(table) ==
  IF NarrativeRaises(table) THEN ends
  ELSE /\ averaged' = Made(build_markdown(table))
       /\ goto("idle")
       /\ UNCHANGED <<tables, reports, figures>>

\* Mutant: the average is made of what the directories hold by now.
write_averaged_anew ==
  /\ pc = "average"
  /\ AveragedReport(average_trials([m \in DOMAIN args |-> tree[args[m]]]))
  /\ UNCHANGED resultVars

\* The averaged report: its text is put together before the file is written.
write_averaged ==
  /\ pc = "average"
  /\ AveragedReport(average_trials(tables))
  /\ UNCHANGED resultVars

-----------------------------------------------------------------------------
\* make_plots.py

draw(fs, what) ==
  figures' = [f \in DOMAIN figures |-> IF f \in fs THEN Made(what) ELSE figures[f]]

\* main(): the eight figures of tables in the script, then all the trials.
start_plots ==
  /\ start("plots", [t \in Trial |-> t])
  /\ figures' = [f \in DOMAIN figures |->
       IF f \in Midterm THEN [NoFile EXCEPT !.run = run + 1] ELSE figures[f]]
  /\ UNCHANGED <<resultVars, reports, averaged>>

\* collect_per_trial(), one trial: without an entry where there are no samples.
\* When no trial has one, the figures 9 to 13 are skipped.
collect_per_trial ==
  /\ pc = "collect" /\ script = "plots"
  /\ IF Unreadable(Reading) THEN ends
     ELSE LET per_trial == Append(tables, tree[Reading]) IN
          /\ tables' = per_trial
          /\ goto(IF ~LastTrial THEN "collect"
                  ELSE IF \E m \in DOMAIN per_trial, key \in Keys :
                            per_trial[m][key] # 0
                       THEN "fig09" ELSE "idle")
          /\ UNCHANGED outputVars
  /\ UNCHANGED resultVars

\* Mutant: a trial without the entry counts as one with 0.
average_over_all(per_trial) ==
  [key \in {x \in Keys : \E m \in DOMAIN per_trial : per_trial[m][x] # 0} |->
     LET vals == [m \in DOMAIN per_trial |-> per_trial[m][key]]
     IN [mean |-> Mean(vals), min |-> Min(Range(vals)), max |-> Max(Range(vals))]]

\* average_across_trials(): mean, least and greatest, of the entries there are.
average_across_trials(per_trial) ==
  [key \in {x \in Keys : \E m \in DOMAIN per_trial : per_trial[m][x] # 0} |->
     LET vals == [m \in {x \in DOMAIN per_trial : per_trial[x][key] # 0} |->
                    per_trial[m][key]]
     IN [mean |-> Mean(vals), min |-> Min(Range(vals)), max |-> Max(Range(vals))]]

\* The numbers of senders that some protocol has an entry for.
fan_ins(table) == {key[2] : key \in DOMAIN table}

\* avg[(proto, fi)] raises a KeyError where there is no entry.
HasAll(table) == Labels \X fan_ins(table) \subseteq DOMAIN table

Means(table) == [key \in DOMAIN table |-> table[key].mean]

GapRatios(table) ==
  [fi \in fan_ins(table) |->
     <<Ratio(table[<<"TCP single", fi>>].mean, table[<<"Homa", fi>>].mean),
       Ratio(table[<<"TCP DCTCP-32", fi>>].mean, table[<<"Homa", fi>>].mean)>>]

\* What main() passes to every function below.
avg == average_across_trials(tables)

figure(n, at, next, what) ==
  /\ pc = at
  /\ IF HasAll(avg) THEN draw({n}, what) /\ goto(next)
                    ELSE figures' = figures /\ goto("idle")
  /\ UNCHANGED <<tables, reports, averaged, resultVars>>

\* Mutant: the first figure leaves out the entries there are not.
p99_skips_missing ==
  /\ pc = "fig09"
  /\ draw({9}, Means(avg)) /\ goto("fig10")
  /\ UNCHANGED <<tables, reports, averaged, resultVars>>

plot_fanin_p99 == figure(9, "fig09", "fig10", Means(avg))

\* The four percentiles of each protocol.
plot_fanin_percentile_stack == figure(10, "fig10", "fig11", Means(avg))

plot_fanin_gap_ratio == figure(11, "fig11", "fig12", GapRatios(avg))

\* Jain's index and Min/Max.
plot_fanin_fairness == figure(12, "fig12", "fig13", Means(avg))

plot_fanin_errorbars == figure(13, "fig13", "idle", avg)

-----------------------------------------------------------------------------
Finished ==
  /\ pc = "idle" /\ run = MaxRuns
  /\ UNCHANGED vars

Driver == run_fanin \/ experiment_stored \/ experiment_fails
Report == start_report \/ collect_one_trial \/ write_averaged
Plots == \/ start_plots \/ collect_per_trial
         \/ plot_fanin_p99 \/ plot_fanin_percentile_stack
         \/ plot_fanin_gap_ratio \/ plot_fanin_fairness \/ plot_fanin_errorbars

Next == Driver \/ Report \/ Plots \/ Finished

Spec == Init /\ [][Next]_vars

-----------------------------------------------------------------------------
\* The reports of the trials that the last averaged report was made with, as
\* long as no later run has written one of them anew.
TrialsOf(r) == {t \in Trial : reports[t].run = r}
LastAveraged == averaged.run # 0 /\ \A t \in Trial : reports[t].run <= averaged.run

\* Whatever run_fanin.sh stores while fanin_report.py runs, the averaged report
\* is the average of the trial reports written with it: the mean of an entry is
\* over just the trials whose report shows the entry, and an entry is n/a only
\* if it is in all of them.
AveragedFromTrials ==
  LastAveraged =>
    LET With(key) == {t \in TrialsOf(averaged.run) :
                        key \in DOMAIN reports[t].shows.rows}
    IN averaged.shows.rows =
         [key \in {x \in Keys : With(x) # {}} |->
            Mean([t \in With(key) |-> reports[t].shows.rows[key][1]])]

\* fanin_report.py leaves an averaged report of its own unless a file of a
\* trial was cut, which the trial's own report then misses too, or the trials
\* show Homa and DCTCP with the most senders and do not show both with the
\* fewest: exactly then the old averaged report stays beside new trial reports.
AveragedUnlessBaseMissing ==
  pc = "idle" /\ script = "report" =>
    LET ts == TrialsOf(run)
        Shown(label, fi) == \E t \in ts : <<label, fi>> \in DOMAIN reports[t].shows.rows
        Compared(fi) == Shown("Homa", fi) /\ Shown("TCP DCTCP-32", fi)
    IN (averaged.run = run) <=> /\ \A m \in DOMAIN args : args[m] \in ts
                                /\ Compared(fi_max) => Compared(fi_min)

\* When make_plots.py is not at work, the five fan-in figures are of one run and
\* from the same samples: a run that ends early leaves all of them as they were.
\* They are of its last run unless that met a cut file, no samples at all, or
\* a number of senders that one of the protocols has no samples for.
FiguresTogether ==
  pc \in {"idle", "collect"} =>
    /\ \A f, g \in Fanin : /\ figures[f].run = figures[g].run
                           /\ figures[f].from = figures[g].from
    /\ pc = "idle" /\ script = "plots" /\ figures[9].run # run =>
         \/ Len(tables) < Len(args)
         \/ \E fi \in FanIn, label \in Labels :
              \A m \in DOMAIN tables : tables[m][<<label, fi>>] = 0

\* The report and the figures are averaged by two programs: made from the same
\* samples they show the same means and the same ratios, and the error bars
\* reach from the mean down to a least and up to a greatest value.
ReportAndFiguresAgree ==
  (averaged.run # 0 /\ figures[13].run # 0 /\ averaged.from = figures[13].from) =>
    /\ figures[9].from = averaged.from => figures[9].shows = averaged.shows.rows
    /\ figures[11].from = averaged.from => figures[11].shows = averaged.shows.gaps
    /\ DOMAIN figures[13].shows = DOMAIN averaged.shows.rows
    /\ \A key \in DOMAIN figures[13].shows :
         LET bar == figures[13].shows[key]
             mean == averaged.shows.rows[key]
         IN /\ bar.mean = mean
            /\ bar.min * mean[2] <= mean[1] /\ mean[1] <= bar.max * mean[2]

=============================================================================
