----------------------------- MODULE PostLayout -----------------------------
(* Gate-level simulation of routed designs with their parasitics             *)
(* (run_post_layout_digital.py): for each case of the manifest OpenSTA turns *)
(* the final netlist and SPEF into delays, the RTL and the annotated netlist *)
(* are simulated, and what came out is kept in the case's directory and in   *)
(* one summary. The runner is called again and again on one output           *)
(* directory, on designs routed anew in between, and may die at any point.   *)
EXTENDS Integers, FiniteSets, Sequences, SequencesExt

CONSTANTS
  Cases,      \* the manifest's cases, in order
  Classes,    \* the timing reports OpenSTA is asked for, in order
  Options,    \* command lines: [modes, rtl, strictCounts, cases]
  Faults,     \* what may be wrong with each case
  MaxRev,     \* how often each design is routed
  MaxRuns     \* how often the runner is called

\* What is refused when, and what is not foreseen.
EarlyFaults == {"key", "missing", "cells"}      \* before there is a directory
LateFaults == {"top", "sdf"}                    \* in the netlist, in what OpenSTA wrote
AllFaults == EarlyFaults \cup LateFaults
             \cup {"none", "spef", "dut", "clock", "rtl key", "rtl source", "loops"}
AllModes == {"slow", "strict"}

ASSUME PostLayoutAssumption ==
  /\ Cases \in Seq(ToSet(Cases)) \ {<<>>} /\ IsInjective(Cases)
  /\ Faults \in [ToSet(Cases) -> SUBSET AllFaults]
  /\ MaxRev \in [ToSet(Cases) -> Nat] /\ MaxRuns \in Nat
  /\ \A o \in Options : o.modes \in (SUBSET AllModes) \ {{}}

VARIABLES design, dir, summary, runs, run, phase, todo, timing, result, results, exit
vars == <<design, dir, summary, runs, run, phase, todo, timing, result, results, exit>>

Names == ToSet(Cases)
\* A case's result: prepared or not, and each simulation's verdict.
Blank == [status |-> "pass", rtl |-> "none", slow |-> "none", strict |-> "none"]
ErrorResult == [Blank EXCEPT !.status = "error"]
NoSummary == [run |-> 0, cases |-> <<>>]
\* A directory is made when the case gets that far; sdf and reports hold the
\* routing they were computed from, 0 if they were never written.
EmptyDir == [made |-> FALSE, sdf |-> 0, reports |-> [k \in ToSet(Classes) |-> 0],
             result |-> [run |-> 0, is |-> Blank]]

\* The cases are taken in the order of the manifest.
first == CHOOSE i \in DOMAIN Cases : Cases[i] \in todo /\ \A j \in 1..(i - 1) : Cases[j] \notin todo
c == Cases[first]
fault == design[c].fault

Init ==
  /\ \E f \in [Names -> AllFaults] :
       /\ \A n \in Names : f[n] \in Faults[n]
       /\ design = [n \in Names |-> [rev |-> 1, fault |-> f[n]]]
  /\ dir = [n \in Names |-> EmptyDir]
  /\ summary = NoSummary
  /\ runs = 0 /\ run \in Options
  /\ phase = "idle" /\ todo = {}
  /\ timing = [n \in Names |-> 0] /\ result = Blank /\ results = <<>>
  /\ exit = "none"

\* The design is routed again, or its manifest entry mended.
Revise ==
  /\ phase = "idle"
  /\ \E n \in Names : \E f \in Faults[n] :
       /\ design[n].rev < MaxRev[n]
       /\ design' = [design EXCEPT ![n] = [rev |-> design[n].rev + 1, fault |-> f]]
  /\ exit' = "none"
  /\ UNCHANGED <<dir, summary, runs, run, phase, todo, timing, result, results>>
-----------------------------------------------------------------------------
Chosen == IF run.cases = {} THEN Names ELSE run.cases

\* Tools missing, no manifest, an unknown case: nothing is touched.
Invoke ==
  /\ phase = "idle" /\ runs < MaxRuns
  /\ runs' = runs + 1
  /\ run' \in Options
  /\ \/ exit' = "2" /\ phase' = "idle" /\ todo' = {}
     \/ /\ run'.cases \subseteq Names
        /\ exit' = "none" /\ todo' = Chosen' /\ phase' = "case"
  /\ timing' = [n \in Names |-> 0] /\ result' = Blank /\ results' = <<>>
  /\ UNCHANGED <<design, dir, summary>>

Gone(code) == phase' = "idle" /\ exit' = code /\ todo' = {}
Errored == phase' = "write" /\ result' = ErrorResult

\* Keys, files and cell models are looked at before the directory is made, the
\* parasitics after.
BeginCase ==
  /\ phase = "case"
  /\ IF fault \in EarlyFaults THEN Errored /\ UNCHANGED dir
     ELSE /\ dir' = [dir EXCEPT ![c].made = TRUE]
          /\ IF fault = "spef" THEN Errored ELSE phase' = "sta" /\ result' = Blank
  /\ UNCHANGED <<design, summary, runs, run, todo, timing, results, exit>>

\* Each command has a time limit; one that is over it returns 124.
\* Mutant of Returns: it is waited for.
ReturnsIfItDoes(code) == code \in {0, 1} \/ (code = 124 /\ fault # "loops")
Returns(code) == code \in {0, 1, 124}

\* OpenSTA writes the SDF, then the reports; an error ends the script where it
\* is, and as the script is all it was given OpenSTA may then end well. Files
\* of an earlier run are not removed, and whether a file is there is all that
\* is asked.
RunSta ==
  /\ phase = "sta"
  /\ \E written \in 0..(Len(Classes) + 1), code \in {0, 1, 124} :
       LET rev == design[c].rev
           d == [dir[c] EXCEPT
                  !.sdf = IF written > 0 THEN rev ELSE @,
                  !.reports = [k \in ToSet(Classes) |->
                                 IF k \in ToSet(SubSeq(Classes, 1, written - 1)) THEN rev ELSE @[k]]]
           there == d.sdf # 0 /\ \A k \in ToSet(Classes) : d.reports[k] # 0
       IN  /\ dir' = [dir EXCEPT ![c] = d]
           /\ IF code # 0 \/ ~there THEN Errored /\ UNCHANGED timing
              ELSE timing' = [timing EXCEPT ![c] = d.sdf] /\ phase' = "views" /\ UNCHANGED result
  /\ UNCHANGED <<design, summary, runs, run, todo, results, exit>>

\* The reports are parsed; the SDF is turned into one Icarus reads and a model
\* of the cells with its arcs.
DeriveViews ==
  /\ phase = "views"
  /\ IF fault \in LateFaults THEN Errored
     ELSE phase' = (IF run.rtl THEN "rtl" ELSE "gate") /\ UNCHANGED result
  /\ UNCHANGED <<design, dir, summary, runs, run, todo, timing, results, exit>>

Verdict(code, marker) == IF code = 0 /\ marker THEN "pass" ELSE "fail"

RunRtl ==
  /\ phase = "rtl"
  /\ IF fault = "rtl source" THEN Errored /\ UNCHANGED <<todo, exit>>
     ELSE IF fault = "rtl key" THEN Gone("traceback") /\ UNCHANGED result
     ELSE /\ UNCHANGED <<todo, exit>>
          /\ \E code \in {0, 1, 124}, marker \in BOOLEAN :
               Returns(code) /\ result' = [result EXCEPT !.rtl = Verdict(code, marker)]
          /\ phase' = "gate"
  /\ UNCHANGED <<design, dir, summary, runs, run, timing, results>>

Pending == {m \in run.modes : result[m] = "none"}

\* The bench must instantiate the design once, with ports that are mapped, and have
\* a clock that can be slowed down.
BenchFails(m) == fault = "dut" \/ (fault = "clock" /\ m = "slow")

\* Compiling and running the bench with the netlist in it, slow mode first.
RunGate ==
  /\ phase = "gate"
  /\ LET m == IF "slow" \in Pending THEN "slow" ELSE "strict"
     IN  IF BenchFails(m) THEN Errored
         ELSE \E code \in IF fault = "loops" THEN {124} ELSE {0, 1}, marker \in BOOLEAN :
                /\ Returns(code)
                /\ result' = [result EXCEPT ![m] = Verdict(code, marker)]
                /\ phase' = IF Pending = {m} THEN "write" ELSE "gate"
  /\ UNCHANGED <<design, dir, summary, runs, run, todo, timing, results, exit>>
-----------------------------------------------------------------------------
\* Prepared is not passed: a simulation that failed is a result like any other.
Prepared(r) == \A m \in run.modes : r[m] \in {"pass", "fail"}
Told(r) == [r EXCEPT !.status = IF @ = "pass" /\ Prepared(r) THEN "pass" ELSE "error"]

\* Mutant of KeptResult: an error leaves the last result where it is.
KeptResultIfPrepared(r) ==
  IF r.status = "pass" THEN [run |-> runs, is |-> r] ELSE dir[c].result
KeptResult(r) == [run |-> runs, is |-> r]

\* The result goes into a directory that a refused case may not have.
WriteResult ==
  /\ phase = "write"
  /\ results' = Append(results, [name |-> c, is |-> Told(result)])
  /\ IF ~dir[c].made THEN Gone("traceback") /\ UNCHANGED dir
     ELSE /\ dir' = [dir EXCEPT ![c].result = KeptResult(Told(result))]
          /\ todo' = todo \ {c}
          /\ phase' = IF todo = {c} THEN "summary" ELSE "case"
          /\ UNCHANGED exit
  /\ UNCHANGED <<design, summary, runs, run, timing, result>>

Done(v) == v \in {"pass", "fail"}
\* Mutant of Functional: what was simulated at the source's clock will do.
FunctionalEither(r) == "pass" \in {r.slow, r.strict} /\ (run.rtl => r.rtl = "pass")
Functional(r) == /\ (IF "slow" \in run.modes THEN r.slow ELSE r.strict) = "pass"
                 /\ run.rtl => r.rtl = "pass"

Aggregate(rs) ==
  LET R == {rs[i].is : i \in 1..Len(rs)}
      execution == \A r \in R : Prepared(r) /\ (run.rtl => Done(r.rtl))
  IN  [execution |-> execution /\ rs # <<>>,
       functional |-> execution /\ rs # <<>> /\ \A r \in R : Functional(r),
       timing |-> "strict" \in run.modes => \A r \in R : r.strict = "pass"]

Summarise ==
  /\ phase = "summary"
  /\ LET a == Aggregate(results)
     IN  /\ summary' = [run |-> runs, cases |-> results]
         /\ Gone(IF a.execution /\ a.functional /\ (run.strictCounts => a.timing) THEN "0" ELSE "1")
  /\ UNCHANGED <<design, dir, runs, run, timing, result, results>>

\* What no handler catches, such as output of a tool that is not text; and the
\* process may be killed.
Crash ==
  /\ phase \in {"sta", "rtl", "gate"} /\ Gone("traceback")
  /\ UNCHANGED <<design, dir, summary, runs, run, timing, result, results>>
Die ==
  /\ phase # "idle" /\ Gone("killed")
  /\ UNCHANGED <<design, dir, summary, runs, run, timing, result, results>>

\* run_case, and what main does around it.
RunCase == BeginCase \/ RunSta \/ DeriveViews \/ RunRtl \/ RunGate
Record == WriteResult \/ Summarise
Main == Invoke \/ Record
Next == Revise \/ Main \/ RunCase \/ Crash \/ Die
Work == RunCase \/ Record

\* The runner is one process that goes on when it can; every command it waits
\* for has a time limit. Nobody has to call it.
Spec == Init /\ [][Next]_vars /\ WF_vars(Work)
-----------------------------------------------------------------------------
\* Exit code 0 is given for exactly this: every case that was asked for was
\* simulated in this run, passed at the slow clock (at its own clock, if that
\* is all that was asked for), against its RTL if that was asked for, and in
\* time if that counts (main, aggregate_status). A verdict of an earlier run, of
\* a case that was refused, or of the simulation not asked for is not enough.
ExitZeroIsEarned ==
  exit = "0" => \A n \in Chosen :
    LET r == dir[n].result
    IN  /\ r.run = runs
        /\ "slow" \in run.modes => r.is.slow = "pass"
        /\ run.modes = {"strict"} \/ ("strict" \in run.modes /\ run.strictCounts) => r.is.strict = "pass"
        /\ run.rtl => r.is.rtl = "pass"

\* The summary is never ahead of the cases' own results, and where both are of
\* one run they say the same, however many runs died in between.
SummaryAgrees ==
  \A i \in 1..Len(summary.cases) :
    LET s == summary.cases[i]
        r == dir[s.name].result
    IN  r.run >= summary.run /\ (r.run = summary.run => r.is = s.is)

\* A run that was started ends, whatever OpenSTA, make and the simulator do.
RunEnds == phase # "idle" ~> phase = "idle"
=============================================================================
