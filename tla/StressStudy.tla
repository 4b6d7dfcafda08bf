----------------------------- MODULE StressStudy ----------------------------
(***************************************************************************)
(* A sweep over loss rates and the plots of its results: plot_stress.py of *)
(* src/scripts, run by hand when stress_sweep.py has ended, whatever it    *)
(* has left.  The rates stand for those of LOSS_TAGS, in the same order.   *)
(*                                                                         *)
(* A directory is named after its rate.  That of rate 0 is loss0 when the  *)
(* rates are the default ones and loss0p0 when they are given (0 is an int *)
(* in the one case and a float in the other): a name is a rate and whether *)
(* it is a float.  What a directory holds is named by the experiment that  *)
(* filled it, Earlier or, when there are no samples in it, Hollow stands   *)
(* for an earlier sweep, and Missing for a directory that does not exist.  *)
(***************************************************************************)
EXTENDS Orchestrator, Functions

CONSTANT
  Leftovers  \* the directories that earlier sweeps may have left, and of what

VARIABLE
  figures    \* what plot_stress.py has drawn, <<>> before

studyVars == <<vars, figures>>

Missing == Length + 1
Earlier == Length + 2
Hollow == Length + 3

\* f"loss{str(loss)...}" in stress_sweep.py, where `given` says that --loss was
\* given, and all names there may be.
tag(given, rate) == <<rate, given \/ rate # 0>>
Tags == {<<0, FALSE>>} \cup (Loss \X {TRUE})

ASSUME LeftoversAssumption ==
  Leftovers \subseteq UNION {[names -> {Earlier, Hollow}] : names \in SUBSET Tags}

\* The experiment whose results were moved to the directory of a rate last.
Latest(rate) ==
  LET filed == {n \in Experiments : losses[n] = rate /\ Saved(n)} IN
  IF filed = {} THEN Missing ELSE CHOOSE n \in filed : \A x \in filed : x <= n

\* What a directory holds.  An earlier sweep's stays when no experiment of this
\* one has succeeded at its rate, and when this one names it differently.
holds(given, left, t) ==
  IF t = tag(given, t[1]) /\ Latest(t[1]) # Missing THEN Latest(t[1])
  ELSE IF t \in DOMAIN left THEN left[t] ELSE Missing

\* Mutant: only base_<tag> is looked for.
candidates_tag_only(given, left, rate) == holds(given, left, <<rate, rate # 0>>)

\* The first of the candidates that exists: base_<tag> of LOSS_TAGS and, for
\* loss0, then base_loss0p0.
candidates(given, left, rate) ==
  LET first == holds(given, left, <<rate, rate # 0>>) IN
  IF rate = 0 /\ first = Missing THEN holds(given, left, <<0, TRUE>>) ELSE first

\* load_samples() of a directory that exists; `some` are the files with samples.
HasSamples(d, some) ==
  d = Earlier \/ (d \in Experiments /\ \E c \in Nodes : saved[d][c].samples \in some)

\* cdf_plot() passes over directories that are missing or without samples;
\* percentile_bars(), p99_overlay() and relative_degradation() take a missing
\* one for 0 or None and raise an IndexError where there are no samples; the
\* last divides by the first p99 it has.  They look for the same directories,
\* so that the CDFs stand for what all of them show.  A cut file may have
\* samples or not.
\* Bound: no client is left running; a later end of one changes no file here.
plot_stress ==
  /\ pc \in Terminal /\ driver = "stress" /\ figures = <<>>
  /\ \A c \in Nodes : procs[c] = {}
  /\ \E given \in BOOLEAN, left \in Leftovers, some \in {{"all"}, {"all", "cut"}} :
       LET dir == [rate \in Loss |-> candidates(given, left, rate)]
           there == {rate \in Loss : dir[rate] # Missing}
           shown == {rate \in there : HasSamples(dir[rate], some)}
           base == CHOOSE rate \in there : \A x \in there : rate <= x
       IN figures' =
            [hidden |-> given /\ <<0, FALSE>> \in DOMAIN left,
             cdf |-> [rate \in shown |-> dir[rate]],
             baseline |-> IF shown # there \/ there = {} THEN <<>> ELSE <<dir[base]>>]
  /\ UNCHANGED vars

InitStudy == Init /\ figures = <<>>

NextStudy == (Next /\ UNCHANGED figures) \/ plot_stress

FairStudy ==
  InitStudy /\ [][NextStudy]_studyVars /\ WF_vars(Driver) /\ WF_vars(Experiment)

-----------------------------------------------------------------------------
\* What the figures show under a rate above zero was measured at that rate by
\* the clients of the experiment, but for those that crashed, were misjudged,
\* ran beside others or went round the interface; or it is an earlier sweep's,
\* which nothing tells apart, and then no experiment of this sweep has succeeded
\* at that rate.  No experiment that was saved with samples is left out, but for
\* one whose rate was given twice, which the later has replaced, and one at rate
\* 0 that an older loss0 hides.  The degradation, "p99 latency / p99 at 0% loss",
\* is relative to this sweep's rate 0 unless its results are missing (then it is
\* to whatever is there at the lowest rate) or hidden.
FiguresAsLabelled ==
  figures # <<>> =>
    /\ \A rate \in DOMAIN figures.cdf \ {0} :
         LET n == figures.cdf[rate] IN
         IF n = Earlier
         THEN \A x \in Experiments : losses[x] = rate => ~Saved(x)
         ELSE n \in bypassed \/ \A c \in Nodes :
                \/ saved[n][c].exp = n /\ saved[n][c].loss = rate
                \/ <<n, c>> \in crashed \cup misjudged \cup overlap
    /\ \A n \in Experiments :
         Saved(n) /\ (\E c \in Nodes : saved[n][c].samples = "all") =>
           \/ n \in Range(figures.cdf)
           \/ losses[n] = 0 /\ figures.hidden
           \/ \E x \in Experiments : n < x /\ losses[x] = losses[n] /\ Saved(x)
    /\ LET zero == {n \in Experiments : losses[n] = 0 /\ Saved(n)} IN
       figures.baseline # <<>> /\ zero # {} /\ ~figures.hidden =>
         figures.baseline[1] \in zero
=============================================================================
