------------------------------ MODULE CornerSTA ------------------------------
(***************************************************************************)
(* Timing analysis of many corners: MultiCornerSTA.run (steps/openroad.py),*)
(* which submits one analysis per distinct list of files to a thread pool  *)
(* of its own and merges their metrics in the order of STA_CORNERS, and    *)
(* aggregate_metrics (common/metrics/util.py), which adds the metrics over *)
(* all corners.                                                            *)
(*                                                                         *)
(* An analysis is what it answers: a worst slack, the number of violations *)
(* (1 if the slack is negative) and a power total whose metric names no    *)
(* corner.  Two corners with the same files have the same answer.          *)
(***************************************************************************)
EXTENDS Integers, FiniteSets, FiniteSetsExt, SequencesExt

CONSTANTS NumCorners,  \* the length of STA_CORNERS
          Files,       \* the lists of files a corner can have, numbers
          Slacks,      \* bound: the worst slacks an analysis can find
          Infinity,    \* float("inf"): above every slack
          Threads      \* STA_THREADS

ASSUME CornerAssumption ==
  /\ NumCorners \in Nat
  /\ Files \subseteq Nat \ {0}
  /\ Slacks \subseteq Int
  /\ Infinity \in Nat /\ \A s \in Slacks : -Infinity < s /\ s < Infinity
  /\ Threads \in Nat \ {0}

Corner == 1..NumCorners
NoFiles == 0         \* _get_corner_files raises

VARIABLES files,    \* corner -> its files (_get_corner_files)
          slack,    \* files -> what an analysis with them finds
          next,     \* the corner run() looks at
          futures,  \* corners in the order they were submitted in
          taken,    \* how many of them a worker has taken
          answer,   \* corner -> waiting, running, done, failed
          result    \* what run() returned

inputs == <<files, slack>>
staVars == <<inputs, next, futures, taken, answer, result>>

Undecided == [is |-> "undecided"]
Submitted == {futures[i] : i \in 1..Len(futures)}
-----------------------------------------------------------------------------
(* Metrics                                                                 *)

Violations(c) == IF slack[files[c]] < 0 THEN 1 ELSE 0

\* `aggregated.get(name) or start`: nothing yet, and also a zero, is start.
OrStart(current, start) == IF current = 0 THEN start ELSE current

\* Mutant of Worst: the best slack instead of the worst one.
Best(cs) ==
  LET best[n \in 0..Len(cs)] ==
        IF n = 0 THEN 0 ELSE Max({OrStart(best[n - 1], -Infinity), slack[files[cs[n]]]})
  IN  best[Len(cs)]

\* min_aggregator over the corners cs.
Worst(cs) ==
  LET worst[n \in 0..Len(cs)] ==
        IF n = 0 THEN 0 ELSE Min({OrStart(worst[n - 1], Infinity), slack[files[cs[n]]]})
  IN  worst[Len(cs)]

\* sum_aggregator.
Total(cs) ==
  LET total[n \in 0..Len(cs)] ==
        IF n = 0 THEN 0 ELSE OrStart(total[n - 1], 0) + Violations(cs[n])
  IN  total[Len(cs)]

\* The metrics of each corner, the aggregates, and the power of the last one.
Merged(cs) ==
  [is |-> "metrics",
   corner |-> [c \in Submitted |-> slack[files[c]]],
   worst |-> Worst(cs),
   violations |-> Total(cs),
   power |-> IF cs = <<>> THEN 0 ELSE files[Last(cs)]]
-----------------------------------------------------------------------------
(* The loop that submits                                                   *)

StaInit ==
  /\ files \in [Corner -> Files \cup {NoFiles}]
  /\ slack \in [Files -> Slacks]
  /\ next = 1
  /\ futures = <<>>
  /\ taken = 0
  /\ answer = [c \in Corner |-> "waiting"]
  /\ result = Undecided

Submitting == next <= NumCorners /\ result = Undecided

\* No SPEF file of the state fits the corner.
NoSpef == /\ Submitting
          /\ files[next] = NoFiles
          /\ result' = [is |-> "StepException", corner |-> next]
          /\ UNCHANGED <<inputs, next, futures, taken, answer>>

\* Mutant of Identical: only the corner just before is compared with.
SameAsPrevious(c) == c > 1 /\ files[c - 1] = files[c]

\* files_so_far holds the corner's files.
Identical(c) == \E d \in Submitted : files[d] = files[c]

Skip == /\ Submitting
        /\ files[next] # NoFiles
        /\ Identical(next)
        /\ next' = next + 1
        /\ UNCHANGED <<inputs, futures, taken, answer, result>>

Submit == /\ Submitting
          /\ files[next] # NoFiles
          /\ ~Identical(next)
          /\ futures' = Append(futures, next)
          /\ next' = next + 1
          /\ UNCHANGED <<inputs, taken, answer, result>>
-----------------------------------------------------------------------------
(* The workers, which go on after run() has raised: the pool is not shut   *)
(* down, and the interpreter joins its threads when it exits.              *)

Running == {c \in Corner : answer[c] = "running"}

Take == /\ taken < Len(futures)
        /\ Cardinality(Running) < Threads
        /\ taken' = taken + 1
        /\ answer' = [answer EXCEPT ![futures[taken + 1]] = "running"]
        /\ UNCHANGED <<inputs, next, futures, result>>

\* run_corner returns its metrics, or CalledProcessError is raised.
Finish(c, how) == /\ c \in Running
                  /\ answer' = [answer EXCEPT ![c] = how]
                  /\ UNCHANGED <<inputs, next, futures, taken, result>>
-----------------------------------------------------------------------------
(* The loop that collects, in the order of submission                      *)

Collecting == next > NumCorners /\ result = Undecided

\* Mutant of AllDone: corners that were skipped are waited for, too.
EveryCornerDone == \A c \in Corner : answer[c] = "done"

AllDone == \A c \in Submitted : answer[c] = "done"

Collect == /\ Collecting
           /\ AllDone
           /\ result' = Merged(futures)
           /\ UNCHANGED <<inputs, next, futures, taken, answer>>

\* The first future that holds an exception raises it, as soon as those
\* before it are done; Step.start makes a StepError of it (a StepSignalled
\* when a signal ended the analysis, which is not told apart).
Raise(i) == /\ Collecting
            /\ answer[futures[i]] = "failed"
            /\ \A j \in 1..i - 1 : answer[futures[j]] = "done"
            /\ result' = [is |-> "StepError", corner |-> futures[i]]
            /\ UNCHANGED <<inputs, next, futures, taken, answer>>

Run == Submit \/ Skip \/ NoSpef \/ Collect \/ \E i \in 1..Len(futures) : Raise(i)

Work == Take \/ \E c \in Corner, how \in {"done", "failed"} : Finish(c, how)

StaNext == Run \/ Work

\* run() and the pool's threads are scheduled, and every analysis ends.
StaFairness == WF_staVars(Run) /\ WF_staVars(Work)

StaSpec == StaInit /\ [][StaNext]_staVars

-----------------------------------------------------------------------------
(* Properties                                                              *)

\* The worst slack that is reported is the worst of all corners, the ones that
\* were skipped included: metric.py's "starting value for an accumulator" and
\* reduction over all sub-metrics.
WorstIsWorst ==
  result.is = "metrics" /\ NumCorners > 0 =>
    result.worst = Min({slack[files[c]] : c \in Corner})

\* What run() answers depends on the corners alone, never on which analysis ends
\* first.  Its metrics come out if all analyses are done: each corner that was
\* analysed has its own, violations are counted once per list of files, and the
\* metric that names no corner is that of the last corner with new files.  Its
\* error is that of the first corner, in the order of STA_CORNERS, that failed,
\* even when a later one failed long before.
SameWhateverTheOrder ==
  /\ result.is = "metrics" =>
       LET first == {c \in Corner : \A d \in 1..c - 1 : files[d] # files[c]}
       IN  /\ AllDone
           /\ result.corner = [c \in first |-> slack[files[c]]]
           /\ result.violations = Cardinality({c \in first : slack[files[c]] < 0})
           /\ first # {} => result.power = files[Max(first)]
  /\ result.is = "StepError" =>
       /\ answer[result.corner] = "failed"
       /\ \A c \in 1..result.corner - 1 : answer[c] # "failed"

\* run() returns or raises, and the pool comes to rest, so that the
\* interpreter can exit.
AnalysesEnd == <>[](result # Undecided /\ taken = Len(futures) /\ Running = {})

=============================================================================
