# Verification of the TR-1um flow

TLA+ models of the program in this repository: the LibreLane fork under
`flow/librelane_override/librelane` with its flows, steps, configuration and tool
runner, the digital core flow, and the signoff, simulation, characterisation and
extraction scripts under `flow`. TLC checks them on small instances, TLAPS proves the
central safety properties for every value of the constants. All paths below are
relative to `src/`.

1. [The system](#1-the-system)
2. [The modules and the code](#2-the-modules-and-the-code)
3. [What the runs check](#3-what-the-runs-check)
4. [What is proved](#4-what-is-proved)
5. [Disagreements between code and documents](#5-disagreements-between-code-and-documents)
6. [What is not modelled](#6-what-is-not-modelled)
7. [Plan](#7-plan)
8. [How to run it](#8-how-to-run-it)

## 1. The system

The repository is a process design kit: KLayout decks, cells and models (data),
a vendored and patched LibreLane that takes RTL to GDS, and scripts that sign a
layout off. Of its 1327 files most are data; the program is about 49 000 lines
of Python and shell.

### Components

| Part | State it keeps | Operations | Interacts with | Hard behaviour |
|---|---|---|---|---|
| **Sequential flows and the run directory** `flows/flow.py`, `flows/sequential.py`, `steps/step.py`, `state/state.py`, `common/misc.py` | the run directory: step directories with `state_in.json`, `config.json`, `state_out.json`, views; `final/`; in memory the loop flag, ordinal, current state, deferred errors | `Flow.start`, `SequentialFlow.run`, `Step.start`, `CompositeStep.run`, `save_snapshot`, `get_latest_file` | command line, every step, digital scripts that read the run directory | deaths at any point, resuming by modification time, `--overwrite` cut short, deferred errors, windows of steps |
| **Step thread pool** `common/tpe.py`, `flow.py` (`start_step_async`) | queue, workers, futures | submit, take, wait for the input state inside the worker, return or raise | the two exploring flows, multi-corner STA | everyone waiting on everyone, order of completion |
| **Optimizing flow** `flows/optimizing.py` | futures, log level, chosen strategy, utilization, state | submit, collect, choose, place, fall back | pool, run directory | a failing strategy while others run, ties, a fallback that must start over |
| **SynthesisExploration flow** `flows/synth_explore.py` | futures, results, table | submit, collect, tabulate | pool | failed strategies among good ones, none left |
| **Classic, VHDLClassic and Chip flows and their steps** `flows/classic.py`, `flows/chip.py`, `steps/*.py` | ten design views and some forty metrics handed from step to step | seventy-eight steps, substitutions, gates | sequential flow, external tools | which layout a view or verdict is about, after steps that are off, replaced or repeated |
| **Metric checkers** `steps/checker.py` | none | threshold, deferred or immediate error, wildcards over corners | sequential flow | stale and missing metrics |
| **Tool runner of a step** `steps/step.py` (`run_subprocess`), `steps/openroad_alerts.py`, `common/ring_buffer.py` | the pipe, the process, its sampling thread; reports, metrics, alerts, last lines | launch, read a line, join, wait, give a verdict | every step that runs a tool | three parties that wait for each other, a full pipe, signals, output that breaks the reader |
| **Multi-corner STA and metrics** `steps/openroad.py`, `common/metrics` | a pool of its own, merged and aggregated metrics | one task per list of files, collect, aggregate | tool runner, timing checkers | order of arrival, one corner failing, skipped corners, zero |
| **Configuration** `config/*.py` | a mapping | load files over each other, expand references, migrate, compile, override, increment, reload | every flow and step | many ways to say one thing |
| **Digital core scripts** `run_digital_core_flow.sh`, `run_tr1um_digital.sh`, `designs/run_digital_tests.sh`, `package_digital_macro.py` | an output directory, a LibreLane run directory, a bundle | run the flow, take a DEF from it, route, extract, check, package | run directory | a step directory addressed by a fixed ordinal, outputs that are not cleared |
| **Connected power check** `check_connected_power.py` | none | union-find over shapes | core flow | correctness against reachability |
| **Tapeout gate** `scripts/signoff/run_tr1um_signoff.sh` | the report directory | ten gates in a chain, each a tool and a look at what it left | KLayout, RCX recipe, digital run's DEF, manifest gate | a report directory that is never cleared, tools that fail, the layout edited meanwhile |
| **Analog manifest gate** `scripts/signoff/check_analog_signoff_manifest.py` | none | `validate` | tapeout gate | the corner cases of a release record |
| **Post-layout simulation** `run_post_layout_digital.py` | an output directory: per case SDF, reports, `result.json`; `summary.json` | OpenSTA, derived views, RTL and gate-level simulation, results, summary | packaged design, OpenSTA, make, Icarus | an output directory that is not cleared, time limits, deaths |
| **Evidence runners** `run_pvt_sta.py`, `run_analog_sim.py`, `audit_temperature_models.py`, `run_temperature_validation.py`, `run_variation_analysis.py` | results so far | refuse a contract, run a case, read its log, report | OpenSTA, ngspice | verdicts from logs that may be cut off, from lists that may be empty |
| **Cell characterisation** `char/char_liberty.py` | the Liberty file | capacitances, delays, bisection for constraints | ngspice | which edge is measured, the ends of a bisection |
| **Parasitic extraction** `scripts/analysis/extract_tr1um_parasitics.py` | a network under construction | cut wires, join vias and pins, couple, write | DEF, GDS, extracted netlist | geometry in any order and position |
| **Flow command line** `flow.py` (`cloup_flow_args`), `__main__.py` | none | options to arguments of `Flow.start` | flows | combinations of options |
| **Other checkers and builders** `scripts/signoff/*.py` | none | read files, write a report | gate | rules that are numeric or textual |
| **Layout post-processing** `assemble_*.py`, `add_channel_power.py`, ... | none | geometry | KLayout | none over time |
| **ALIGN macro flow** `scripts/align` | working directories | topology, primitives, place and route, signoff | ALIGN | linear |
| **Converters, decks, PCells, libraries, documents** `Tools`, `libs.tech`, `openIP62`, `STDLIB`, `Document` | none | layer and text conversion | KLayout | none over time |

`PROJECT.json` lists the same parts with their status, and every place that is
hard to test with the properties that guard it.

### How they interact

```
 files, PDK, --set --> Config.load ----+
 command line ------> Flow.start --> SequentialFlow.run --> Step.start --> tools
                     |  ^               |                     |
                     |  | newest        | save_snapshot       | state_out.json
                     v  | state_out     v                     v
                  +----------------- run directory -------------------+
                  |  1-step/  2-step/  2-step/1-part/  ...   final/   |
                  +---------------------------------------------------+
   step pool (Optimizing,           | 31-.../*.def, final/*.pnl.v
   SynthesisExploration)            v
                       run_digital_core_flow.sh --> connected_power/
                                    |                    |
                 package_digital_macro.py       run_tr1um_signoff.sh
                                    |             |  ^         |
                                    v             |  | RCX     v
             run_post_layout_digital.py           |  extract_tr1um_parasitics.py
                                                  v
 evidence runners --> reports --> check_analog_signoff_manifest.py
 char_liberty.py --> Liberty --> every STA above
```

### What makes each part correct

* **Run directory.** The state handed from step to step holds views of finished
  steps only; a run that resumes continues the *last* recorded result; records
  are never rewritten; `final/` never goes back by itself; "Flow complete." means that all
  that was asked for was done and nothing else.
* **Pool.** Whatever the number of workers, they never all wait for steps nobody
  runs; no step succeeds on an input that failed.
* **Classic flow and checkers.** A run that succeeds leaves views of one design in
  `final/`, judged by verdicts about that design; a run that fails blames it for
  what it has; no step waits for a view that comes later.
* **Tool runner.** What a step gets is what the tool printed, each line once and in
  its place; success is exit code zero; nothing is left running; nobody waits for
  good.
* **Multi-corner STA.** The metrics, or the error, depend on the corners and not on
  which thread was faster; the worst slack is the worst of all corners; a selected
  corner is judged.
* **Configuration.** The last thing said of a variable is what it is, however it
  was said; validating twice changes nothing; arithmetic is arithmetic.
* **Optimizing.** The choice depends on the areas and the order of the list, not
  on which thread was faster; no strategy's step runs beside floorplanning;
  placement is of the chosen strategy, of one utilization; the process ends.
* **SynthesisExploration.** The table shows each strategy's own figure, or that
  it failed.
* **Core flow and bundle.** PASS and the bundle stand for one layout that went
  through every check, made from the placement at hand.
* **Tapeout gate.** PASS is earned by the layout on disk, never by what an
  earlier run left in the report directory, and what is left behind after PASS
  belongs to that layout (parasitics also to the DEF they were asked for of); a failing gate blames this layout for its own fault.
* **Manifest gate.** A release is closed: every required stage passed with its
  evidence at hand, or is justified as not applicable.
* **Post-layout simulation.** Exit code 0 and the summary are of this run and of
  what was asked for; every run ends.
* **Evidence runners.** A pass means that everything declared was simulated, and
  is within its limits.
* **Characterisation.** What is measured is an arc the cell has, at the edge the
  constraint is about; a constraint is within a step of the true one.
* **Extraction.** What touches is joined; each capacitance is counted once.

## 2. The modules and the code

### The flow in its run directory

* `StepJournal` -- the abstract specification: a journal of step results that is
  only appended to, opened by each run blank or at its last entry, or, where the user
  names an initial state, at views of any entries or of elsewhere.
* `FlowRun` -- the code. `entries`, `records`, `final` and `clock` are the disk
  and survive; everything else is a process' memory and does not.

  | Action | Code |
  |---|---|
  | `Overwrite`, `OverwriteDies`, `Resume`, `ResumeFails` | `Flow.start` from the choice of the run directory to the initial state: `rmtree`, reading every step directory (`Step.load_finished`), the starting ordinal, `get_latest_file`, or the state files of `--with-initial-state` (`Merged`, `initial_state_cb`) |
  | `SkipStep`, `CreateReproducible` | `SequentialFlow.run`, `continue` and `break`, `Step.create_reproducible` (`WriteReproducible`) |
  | `StartStep` | `Flow.dir_for_step`, `Step.start` up to `self.run` |
  | `FinishPart` | one turn of the loop in `CompositeStep.run` |
  | `FinishStep` | `Step.start` behind `self.run`, and the end of the loop's body |
  | `DeferError`, `StepFails` | the `except` clauses of `SequentialFlow.run` |
  | `FinishRun`, `SnapshotFails` | `State.save_snapshot` (`Snapshot`), whole or broken off, then the deferred errors |
  | `Die`, `DieWriting` | the process is killed, in the second case inside the in-place write of a `state_out.json` |

  A design state maps each view to the ordinal of the step directory its file
  lies in; that is all a property has to tell apart, and all `State.loads` looks
  at (the path exists). The views of a step are one value, those of each part of
  a composite step another. Making a step directory, its `state_in.json` and its
  `config.json` are one action, because nothing reads a step directory without a
  `state_out.json`. Metrics are left out.

  `--with-initial-state` takes any state files, the last one that has a view giving it:
  a record of this directory, however old, or a file from elsewhere, whose views are
  `Elsewhere` (so is a path named by hand with `--initial-state-element-override`,
  wherever it lies). `Abroad` says which views a file from elsewhere may hold.

  Four variables serve properties only: `damaged`, `named` (the views an initial state
  was given for, until their step finishes again), and `req` and `base` after a run has
  ended.

* `FlowRunProofs` -- theorems.

### The pool and the exploring flows

* `StepPool` -- the thread pool: `Submit`, `Take`, `GotInput`, `InheritsError`,
  `Return`. As the queue is first-in first-out, two counters stand for it.
* `Exploration` -- what the two flows share: three steps a strategy, each taking
  the future of the one before.
* `Optimizing`, `SynthesisExploration` -- the flow's own thread on top of it.
  `Exploring` is a process that runs either of them on one pool.
* `StrategyChoice` -- the abstract specification of the first stage of
  `Optimizing`: strategies come to a verdict in any order, and the choice is a
  function of the verdicts.
* `ExploringProofs` -- theorems, about the pool, `Optimizing` and `Exploring`.

### Running a tool, and many of them

* `Subprocess` -- the tool (`Write`, `CloseOutput`, `Exit`), the step's thread
  (`Launch` to `Wait`, in `run_subprocess`' order) and `ProcessStatsThread`
  (`TrackerStops`, `TrackerFails`). A line is known by its number and its kind
  (text, alert, report and metric keywords, and two that break the reader), so
  that the properties can say which line should be where. `ReadLine` is a whole
  turn of the reading loop: log, ring buffer and every processor. The verdict is
  the one of `Step.start` where the exit code is checked, and of
  `OpenROADStep.run` where it is not. A report that is empty and one that is not
  there are the same.
* `CornerSTA` -- the loop of `MultiCornerSTA.run` that submits, its pool, and the
  loop that collects; `Worst` and `Total` are `aggregate_metrics` with the
  aggregators of `metric.py`, the test for zero included. Reading the step's
  output is `Subprocess`' matter: an analysis answers or fails.
  `Infinity` is the `float("inf")` a minimum starts from.
* `TimingCheck` -- the timing checkers on the metrics of the state, which are those
  `CornerSTA` reports for the corners it analysed and, for every other corner, those an
  earlier analysis has left there (`past`: of the steps before, of a run that is
  resumed; `Former` are corners that are analysed no longer). Which corners a list of
  wildcards selects, which of those have metrics, and what stops the flow.
* `ToolsProofs` -- theorems, about all three.

### The Classic flow and its steps

* `StepList` -- the list of a flow's steps, numbering of repetitions, and
  substitutions (replace, delete, put before or behind).
* `ClassicSteps` -- the library: for every step class of the three flows which views
  it cannot do without, which it writes, what it changes in the design (layout,
  nets, or both where there is something to repair), which metric it measures or
  judges, which options let it do nothing. `Classic`, `Gating`, `OffByDefault` and the
  substitutions of `VHDLClassic` and `Chip` are the lists of `classic.py` and
  `chip.py`. What retouches the stream in `KLayout.StreamOut`, a design's own
  `postprocess_gds.py` or the ground bridge of the mixed counter, is the option
  `GDS_POSTPROCESS`: with it the step changes the layout, and nothing but
  `KLAYOUT_GDS`, and `GDS` where that is made of it, shows the change.
* `ClassicFlow` -- runs of such a list in one directory. A view is known by the
  ordinals of the steps that last changed the layout and the nets it shows, a metric
  by its verdict, the layout it is about and the step that measured it. `Gated`,
  `MissingInput`, `DoNothing`, `Work`, `DiesUnnoticed`, `Clear`, `Defer`, `ErrAtOnce`
  and `ToolFails` are the ways a step can go, `Finish` the end of
  `SequentialFlow.run`. A Magic that dies unnoticed leaves the view of an earlier run,
  and of its DRC an empty report, which is read as no errors of no layout (`Unread`);
  `lost` remembers both. How the loop and the directory survive deaths is `FlowRun`'s
  matter; here a run resumes from the state the last one left.

  `Undisturbed(p, repairs)` is a run of the list of `p` in an empty directory in which
  no tool fails, as a function of the place in the list. Three assumptions say what
  kind of list it is: `StepsAssumption` (its types), `OrderAssumption` (what asks for
  a view, or judges a metric, that the list makes at all comes behind what makes it)
  and `EndAssumption` (the undisturbed run ends with one design in its views). TLC
  evaluates them for each of the thirteen configurations, over `classic.py` and
  `chip.py` as they are; the proofs take them for granted and show what follows for
  all runs that are *not* undisturbed.

### The digital core flow

* `ConnectedPower` -- the union-find of `check_connected_power.py` on the sets of
  polygons found at vias and labels, and what it should mean.
* `DigitalCore` -- the four commands (`flow`, `direct`, `tests`, `core`) on one design
  and tag, on top of `ClassicFlow`: the core flow's tools in their order, each with
  the `test -s` or marker the script looks for, an output directory that is not
  cleared, and the bundle. A file is known by the placement and the try it was made
  from. `hollow` says which tools of this try ended well and left nothing. The RTL
  simulation in front of the tests' flow writes nothing that is read later and is
  left out. `AccessAssumption` says of the one configuration the core flow is made for
  that the step of the fixed ordinal is the detailed placement.
* `DigitalCoreProofs` -- theorems, about the union-find, the scripts, and the runs of
  `ClassicFlow` under them.

### The tapeout gate

* `AnalogManifest` -- `validate(path, "signoff")` as operators on manifests, and
  the reference it is measured against (`Closed`, `Substantiated`).
* `SignoffGate` -- one action per gate of the script, in its order and with its
  exits, plus `ToolFails` (any tool, under `pipefail`), `Interrupt` (the script is
  killed) and `Edit` (the designer streams out another layout, also while the gate
  runs). A report, mask layout or netlist is known by the set of revisions it was made
  from, none if it is not there, and `Defects` says which gates a revision deserves to
  fail; so a gate that reads an old file judges an old revision, which is the hazard.
  The parasitics are made from three things (`RcxInputs`): the routes of the DEF, the
  layout, and the netlist that LVS extracted. The DEF is matched to the layout by its
  name alone, and may be of any revision (`RcxDef`): no gate judges it, and what the
  properties say of the ledger is that it is of this layout and of the DEF that this
  run was given.

  `Hollow` names the tools that may exit 0 without having written their file. The
  script tests `[ -s FILE ]` on a directory that is not cleared, so it relies on
  tools that do write when they exit 0. The runs have `Hollow = {"extracted"}`,
  because LVS alone is guarded by something else, its marker in a log that is
  written anew. With `"mdp"`, `"drc"`, `"ip62"` or `"ledger"` in `Hollow` a layout is
  judged by an earlier one's files and `VerdictIsDeserved` fails: the absence of such
  tools is an assumption of these results, and it is the reason the constant is there.

  The properties speak of runs during which the layout was not edited
  (`disturbed`): the script does not lock it, and a run over two layouts can pass
  neither of them.

* `SignoffProofs` -- theorems: of the gate under that assumption (`Candid`), and of
  `Evidence`.

### Post-layout simulation

* `PostLayout` -- `run_post_layout_digital.py`: `Invoke`, then for each case `BeginCase`,
  `RunSta`, `DeriveViews`, `RunRtl`, `RunGate` and `WriteResult`, then `Summarise`.
  `Crash` is an exception the program does not catch (a case refused before it has a
  directory is one: `result.json` cannot be written), `Die` a kill. A file in the
  output directory is known by the routing it was computed from, or the run that
  wrote it. What may be wrong with a case (`Faults`) decides where it is refused; a
  verdict that only the simulator knows is free. The cases left are a set, of which
  the first in the manifest's order is the next.
* `PostLayoutProofs` -- theorems.
* `TimingViews` -- what one case derives: the SPEF OpenSTA is given, the SDF Icarus is
  given, and the timing model of each cell.

### What is computed from a file

* `Configuration` -- `Config.load`: files over each other, sections of PDKs,
  references, deprecated names, migration of old configurations, PDK values below and
  overrides on top, typed or permissive; then loading the result again
  (`Step.load`) or adding to it (`with_increment`). `VarsAssumption` says that no name,
  of today or deprecated, stands for two variables: the code finds a variable by its
  name (`Config.__process_variable_list`) and takes it for granted.
* `LastWord` -- what a configuration should be, said of one variable at a time: it looks
  up what was said last, where the code folds one file over the other. It follows
  references back through the files (`RECURSIVE`), and so is for TLC alone.
* `ConfigurationProofs` -- theorems, about `Configuration`.
* `Expressions` -- `Expr.tokenize` and `Expr.evaluate`, over every text of two and
  three operands with and without blanks and one level of parentheses, against what
  arithmetic says.
* `Evidence` -- the four runners whose verdicts are quoted as evidence. `Check` is the
  validation of a contract, `RunCase` one run of a tool with any log it can leave,
  also one that breaks off, `Report` the verdict over all. The cases left are a set
  here, too; only variation's have an order that matters, since one may raise.

### What the analyses are given

* `PushOut` -- `find_pushout` on the grid that eight halvings of its interval reach.
  `Characterisation` -- `main()` of `char_liberty.py` around it: which pins are tied to
  which level, which waveforms make which edge of the output, which arcs the file is
  given (`Written`: one for each input, with what was timed on A), which cells are asked
  for, also such as do not exist, fail or end the script, and the one write of the
  Liberty file.
* `Parasitics` -- `extract_tr1um_parasitics.py` stage by stage: `CutWire`,
  `ChooseAnchors`, `PlaceVia`, `PlacePins`, `Capacitors`, `LayerOverlaps`, `Devices`,
  `WriteSpef`. Boxes and points are exact (on an even grid), capacitances are whole
  numbers that keep what they depend on: area, length, overlap, spacing.
* `ModelsProofs` -- theorems, about all three and about `TimingViews`.

Some actions appear in `PROJECT.json`'s map through the disjunction they belong to
(`CoreFlow`, `RunCase`, `Main`, `Attach`, ...), which stands for the whole function.

The `MC*` modules only give values to constants, or put modules side by side that
share nothing. Definitions named in a comment as a "Mutant of" another are plausible
bugs in that definition's code, kept to show that the properties can see them; no
specification uses them.

## 3. What the runs check

| Run | Instance | States | Shows |
|---|---|---|---|
| `flow_run` | 3 steps, the second composite with 2 parts; 4 command lines; up to 2 state files; 3 invocations | 1.04 M | the run directory |
| `exploring` | 3 strategies, 2 areas, 2 workers; both flows | 105 k | the pool and the flows on it |
| `tools` | 4 lines of 9 kinds, a pipe of 2, a ring buffer of 2, 2 reports; 4 corners with up to 3 lists of files, 3 slacks, 2 threads, lists of wildcards, metrics of earlier analyses | 0.82 M | a tool and its reader; many tools, their metrics and the checkers |
| `signoff_gate` | 3 revisions, 7 command lines, 66 manifests | 6.4 M | the gate on a reused report directory |
| `digital_flow` | 13 configurations, a design for each defect, 2 runs, 2 core flows, 34 cores | 196 k | the Classic flow and the macro behind it |
| `functions` | 8 variables, files of 2 statements; 2 and 3 operands; contracts of four runners | 394 k | what is computed from a file |
| `post_layout` | 2 cases, 3 routings, 7 faults, 4 command lines, 2 runs | 957 k | the simulation runner on a reused directory |
| `models` | 10 cells, 7 kinds of searches, 2 calls; layouts of up to 3 of 11 wires; packages | 177 k | what the analyses are given |

Runs `corner_zero_slack`, `digital_lost_lef`, `digital_stale_parasitics` and
`split_net` end in a counterexample, see section 5.

**`flow_run`**: `OnlyFinishedViews` (the current state never mentions a
step that failed, deferred its error or died, in this or an earlier run, or a
directory that is gone); `CarriesOwnResults` (no later step, deferral or resumed
record displaces what this run has done); `SuccessRunsSelection` (success means
exactly the steps the options ask for, in order); `FinalNeverGoesBack` (an action
property over all runs of a tag, about every view but those an initial state was given
for); `ImplementsJournal` (refinement of
`StepJournal`); `RunConcludes` (liveness).
Three steps are enough for a step before, inside and behind every window, and one
composite step in the middle for records nested in a directory that is not the
first. Three invocations are the least in which a run can resume from a run that
itself resumed from one that died, or from what an `--overwrite` that died has
left. The four command lines take every option and each case of the loop's flag
(no window, a start, an end, an end before the start, a step to reproduce). Two state
files are the least of which one can hide a view of the other.
`FinalNeverGoesBack` exempts the time from an `--overwrite` that was cut short to
the next that completes: there `final/` may outlive the directories its views came
from, and ordinals start again below them. It exempts a view the user gave an initial
state for until its step has finished again: `save_snapshot` compares nothing and copies
that view over a newer one.

**`exploring`**: `NeverStuck` (workers never all wait for what nobody runs),
`StageEndsQuiet` (nothing of the exploration is left when floorplanning starts),
`OutcomeIsFaithful` (the table shows each strategy as what it came to; the state
placement is given, and the one returned, was made by the chosen strategy at one
utilization), `ImplementsChoice` (refinement of `StrategyChoice`), `FlowExits`.
Three strategies on two workers make steps queue up behind waiting ones, and two
areas make them tie. The code has nine strategies and as many workers as CPUs; the
theorems cover the rest.

**`tools`**, a tool: `ResultReflectsOutput` (reports, metrics and alerts are at every
moment those of the lines read so far, by a definition that does not follow the
processors; nothing is unread behind a verdict), `TailIsLast`,
`NothingLeftRunning` (also: no process is waited for while it is sampled),
`VerdictTellsWhy` (in terms of the exit code and
the lines the tool printed), `Ends` (liveness). Four lines fill and wrap a pipe and a ring
buffer of two, and are enough to create a report, write to it, end it and create
it again. `Ends` exempts a reader broken by a line that is not UTF-8 or by a metric
that is none: the code then neither joins nor waits nor kills, so a tool that is
blocked in its pipe stays, and with it the sampling thread, which is no daemon.
This is a weakness of the code that no document of it speaks about.

**`tools`**, many: `WorstIsWorst`, `SameWhateverTheOrder` (metrics and the error that is
reported depend on the corners alone), `SelectionIsJudged` (a checker that is content
found metrics for each of its wildcards and no violation in the latest metrics of a
selected corner, though corners with files seen before are never analysed and metrics
of earlier analyses are still there; if no wildcard tells corners with the same files
apart, every selected corner of this analysis is clean), `AnalysesEnd`. Four corners with three lists of files are the least in
which one is skipped while another waits for one of two threads. No slack is zero
here: with zero `WorstIsWorst` fails (section 5). `Selections` bounds the lists of
wildcards: none, the blank, all, two corners, one with another that matches nothing, a
corner that is analysed no longer. `Pasts` bounds what earlier analyses have left:
nothing, metrics of the second corner, which may be skipped now, or of a corner that is
analysed no longer, clean or violating.

**`signoff_gate`**: `VerdictIsDeserved` (PASS means that the layout deserves it and
that what is left behind is of it, the ledger also of the DEF that was given; a failing
gate blames this layout's own fault), `ReleaseIsClosed`. The revisions are a clean one,
one whose faults show electrically and on the masks only, and one that fails at once
and does not match its netlist; the DEF may be of each of them. The number of runs needs no bound. Of blame LVS is left out:
an extraction-only run ends there without a fault (section 5).

**`digital_flow`**: `RunIsJudgedByItsDesign` (a success has no defect that one of its
steps looks for and one of its checkers would stop at; a failure blames nothing the
design does not have, whatever the run before left in the state),
`SuccessIsOneDesign` (the views a successful run wrote show one layout and one
netlist, only the GDS may have fill and seal ring on top, and a retouched stream what
its script adds; sign-off verdicts were
measured on that layout in this run, those of timing where this run extracted the
parasitics it was analysed with, see section 5), `InputsAreFound` (a run stops for want of input
only where its configuration switched off the producer; the 31st step is the detailed
placement in the configuration the core flow is made for), `SignedIsChecked` (PASS
and a bundle stand for one layout without any flaw that is looked for). The thirteen configurations
take every gate's default, each gate off whose absence could starve a later step,
VHDL, a chip with seal ring and fill, changes by hand, the signal-access library
that is routed again, and a stream that is retouched, with either. `Designs` has each single defect, and a design with something to
repair. Three bounds keep the product small: `Again` (what may follow a run in its
directory: the same configuration, one with DRC off or one without extraction, on a
design that gains or loses one defect), `Fallible` (the tools that fail otherwise than by a verdict: one
before, one inside, one behind routing), `Cores`/`Retried`/`MaxTries` (each flaw and each
of 25 power grids once; the cores that are tried again). Two runs suffice for a view
or metric of the first to reach the second.

**`functions`**: `LastWordWins`, `ReloadIsIdentity`, `NeverMiscalculated`,
`PassIsEvidence`, `PassIsWhole`, `EveryMobilityIsScaled`. Variables stand for one of
each kind: required and optional, of the PDK, with an old name, text and typed,
with a migration. Two statements in a file, over one of another file, are the
least in which a deprecated name, a section or a reference can contradict a value
below, above or beside it. Contracts are one good one a runner, and each with one
thing wrong; logs are all that a tool can leave.

**`post_layout`**: `ExitZeroIsEarned` (exit code 0 is given if and only as far as every
case asked for was simulated in this run and passed), `SummaryAgrees` (the summary is
never ahead of the cases' results, and of one run they say the same), `RunEnds`.
Two cases are needed for one to be refused behind one that passed, two runs and a
second routing of one case for anything to be stale. The faults are one for each place
a case can be refused at.

**`models`**: `LibraryIsMeasured` (the tied arc follows its input in the polarity that is
timed; a search waits for an edge that comes if and only if the constraint is met, the clock's
delay for one that comes; the arcs of the other inputs have the cell's sense; the file
lacks, of what was asked for and exists, only what could not be measured), `ConstraintIsTight`,
`WhatTouchesMeets` (wires that touch are both cut where they do, vias and pins are
joined there), `TotalsAreTheLayouts` (every capacitance is counted once, for wires of
one width per layer, because the search for neighbours stops early otherwise),
`ViewsAreTheDesign`. Three wires are the least with a neighbour behind a neighbour and
with a crossing on a crossing; the eleven include equal, overlapping, touching and
crossing ones of both directions on four layers. `MaxDistance` has wires on both sides.

Deadlock is not checked where the system stops: after the last invocation and after
the process' exit. `signoff_gate` checks it.

**Fairness.** `FlowRun!FairSpec` is weak fairness of the loop: the code never waits
for anything but the tool a step runs, and tools are taken to end. No fairness is
assumed of the user, and none against deaths, which only end a run sooner.
The exploring flows have weak fairness of the flow's thread and
of the pool as a whole: the operating system runs a thread that can run, and
`Future.result()` returns once it can. Nothing is assumed of the order of
threads. The same goes for `CornerSTA`. In `Subprocess` the step and the sampling
thread have weak fairness, and the tool exits some day *if the pipe has room*: one
that is blocked in a write need not, so `Ends` depends on the reader. `PostLayout`
has weak fairness of its one process; that a simulation that loops returns is not
assumed but follows from the time limit every command is given. The others claim no
liveness.

**Bounds.** `MaxRuns`, `MaxTries`, `MaxCalls` (invocations), `MaxRev` (revisions and
routings), and the sizes in the table. `OverwriteDies` is not the last invocation,
since nothing follows it then, and leaves at most one directory half removed, as
`rmtree` works on one at a time. `SnapshotFails` has copied nothing, or the views of the
first step. `MaxFiles` bounds the state files of one command line; one that comes with
`--overwrite` has no views of the directory that is removed. `MaxLines` bounds what a tool prints, `Slacks` what an analysis finds,
`Measurements` the outcomes of a search: in time from some offset on, up to one, or
not monotone.

## 4. What is proved

Every safety property of the runs is a theorem for all values of the constants, but
for three: `LastWordWins`, `NeverMiscalculated` and `TotalsAreTheLayouts` (see the end
of this section). The proofs assume what the modules' `ASSUME`s say: types of the
constants, at least one step, one worker, one strategy, that a task depends on an
earlier one, that a contract is typed, and what is said of the lists of steps below. Of
data that comes from elsewhere they assume the shape the code's readers give it, and
no more: a segment of a layout runs along an axis and has a length
(`LayoutsAssumption`), a netlist connects ports its models have and a SPEF names a net
once (`PackagesAssumption`), no name stands for two variables (`VarsAssumption`), what
is added to a configuration goes by names of today (`InputsAssumption`). TLC evaluates
each of them on the runs' instances.

The library's theorems on induction take an operator as a parameter, which none of the
provers can instantiate. Where a proof needs induction over a list (a minimum, a
total, the open report, unions, the lines of a model file, the steps of a flow), it says
with a *set* which numbers have the property and goes from each to the next: `UpTo`
(what holds of 0, and of each number if of the one before, holds of all) follows from
`LeastExists`, and that from the well-foundedness of the naturals. `Iterates` gives
in the same way that a function defined by recursion over an interval is there at all.

| Module | Theorems | Inductive invariant |
|---|---|---|
| `FlowRunProofs` | `TypeCorrect`, `FinishedViewsOnly`, `CarriesResults`, `RefinesJournal`, `FinalGoesForward`, `SuccessIsWhatWasAsked` | `IInv`, `FinalInv`, `LoopInv` |
| `ExploringProofs` | `PoolNeverStuck`, `OptimizingNeverStuck`, `OptimizingStageEndsQuiet`, `OptimizingImplementsChoice`, `ExploringNeverStuck`, `OutcomesAreFaithful` | `PoolInv`, `ChoiceInv`, `ExploringInv` |
| `ToolsProofs` | `TypeCorrect`, `LastLines`, `NoneLeft`, `VerdictsTellWhy`, `ResultsOfTheOutput` | `Inv` |
| | `StaTypeCorrect`, `AnyOrderAnswersTheSame`, `WildcardsAreJudged`, `WorstSlackIsWorst` | `TimingInv` |
| `DigitalCoreProofs` | `ConnectedIsSupplied`, `SignedAreChecked`, `RunsAreJudged`, `SuccessesAreOneDesign`, `InputsAreAlwaysFound` | `FlowInv`, `CoreInv`, `Judged` |
| `SignoffProofs` | `VerdictsAreDeserved`, `ReleasesAreClosed`, `PassesAreEvidence`, `PassesAreWhole`, `MobilitiesAreScaled` | `GateInv`, `EvidenceInv` |
| `PostLayoutProofs` | `TypeCorrect`, `ExitZero`, `SummaryAndResults` | `Inv` |
| `ModelsProofs` | `SearchIsBracketed`, `SearchIsWithinAStep`, `SearchIsTight`, `LibraryMeasured`, `ConstraintsAreTight` | `SearchInv`, `CharInv` |
| | `RouteIsKept`, `TouchingIsJoined` | `RouteInv` |
| | `ViewsOfTheDesign` | `ViewsInv` |
| `ConfigurationProofs` | `ReloadGivesItBack`, `AcceptedAreSettled`, `OverridesHaveTheLastWord` | `ConfigInv` |

### The run directory: `FlowRunProofs`

For every number of steps, any composite structure, any set of command lines and any
number of invocations. None of the properties is inductive. What the flow's state may
mention depends on what a record it was resumed from mentioned, that on which record
is the newest, and that on the order of ordinals and of modification times. The
inductive invariant `IInv` says so in parts:

| Part | Why it is needed |
|---|---|
| `ClockAhead`, `TimeFollowsPlace` | the record with the latest modification time is the one in the last place, so resuming by time resumes the journal's last entry |
| `OrdinalAhead` | a new step directory is above every other, also unfinished and half-removed ones, so nothing is written into a directory that is there |
| `InsideStep` | what the directory of a running composite step holds, so that its own record comes behind those of its parts |
| `StatesPointBack` | recorded states mention only directories up to their own: a new directory is unknown to all |
| `RecordsGrounded` | what `OnlyFinishedViews` says, for recorded states, as far as their directories are still there |
| `IdleIsBlank` | a process' death takes its state with it |
| `RunGoesForward` | a run starts a step once, so a later step does not displace an earlier one's views |

`TypeNext`, `OrderNext`, `OrdinalNext`, `InsideNext`, `PointBackNext`,
`GroundedNext`, `FinishedViewsNext`, `IdleNext`, `ForwardNext` and `CarriesNext`
preserve one part each, `NextInv` puts them together, and `JournalNext` maps steps
to steps. On top of it:

* `FinalGoesForward`: `Spec => FinalNeverGoesBack`. A snapshot copies the state of the
  running flow, so `FinalInv` compares three things view by view: `final/`, that state,
  and the latest record, which the next run resumes. Both are at least as new as
  `final/`, and the record is at least as new as the state, for every view but those
  `named` holds: an initial state puts an older one in all three, and a step that
  finishes puts a new one in again. A step's new views have the
  ordinal of its directory, which is above all that `final/` names (`FinalIsThere`).
  All but the last part is said only while no `--overwrite` was cut short, as the
  property is.
* `SuccessIsWhatWasAsked`: `Spec => []SuccessRunsSelection`. The loop keeps one flag
  (`executing`) and a place, the options say a set; `LoopFlag` and `BeforeRepro` tell
  the flag in terms of the options, and `RecordedSoFar` that the directories this run
  has made hold, in order, the selected steps behind its place that were not deferred.

### The pool and the flows on it: `ExploringProofs`

For every number of tasks, workers and strategies, and any dependency on earlier tasks.

* `PoolNeverStuck`: of the tasks that wait, the first one waits for a task with a
  smaller number; the queue is first-in first-out, so that task has been taken; it does
  not wait, so it runs or is over (`TasksInPlace`). Every step of either flow is a step
  of the pool, hence `OptimizingNeverStuck` and `ExploringNeverStuck`.
* `OptimizingStageEndsQuiet`: the collected STA steps succeeded, a step succeeds only if
  the one before did (`SuccessHasInput`), so with all strategies collected every step
  is over.
* `OptimizingImplementsChoice`, from these, `Measured` (a synthesis that succeeded left
  its area, and is the only one to write it) and `Chosen`. A pool step that ends an STA
  is `Succeed` or `Fail`, the last `Collect` is `Choose`, `CollectFails` is `GiveUp`,
  and all others stutter; that the comparison ends at a strategy (`BestIsBest`) takes
  two minima of sets of numbers.
* `OutcomesAreFaithful`: what was gathered is over and stays as it came out
  (`Gathering`, `OverHasInput`); the state placement is given was made by the chosen
  strategy's steps, whichever of the two utilizations it took.

### A tool, and many: `ToolsProofs`

For every pipe, ring buffer, set of reports and number of lines. `LastLines` rests on
the invariant `Holds`: after `n` lines the head is at `n - len` and the tail at `n`,
both modulo the size, and line `m` of the last ones is at `m - 1` modulo the size.
`PushHolds` preserves it because numbers less than the size apart have different
remainders (`ModDistinct`), and iterating gives the lines back in order because a
remainder may be taken before an addition (`ModAdd`); the arithmetic is proved here.
`InStep` says where the three parties are, seen from each other, and carries
`NoneLeft`; `VerdictsTellWhy` also needs that the alerts are the alert lines of what
was read (`AlertsRead`), and that everything was. `ResultsOfTheOutput` compares the
processors' registers, line by line, with a definition that looks back from each line
for the keyword that opened its report (`Filed`).

For every number of corners, lists of files, threads and lists of wildcards. `InOrder`
says that what was submitted are the first corners of each list of files, in the order
of the corners, and that workers take them in that order; `Concluded`, that what was
raised is the error of the first that failed. `AnyOrderAnswersTheSame` follows with the
total over the corners, and `WorstSlackIsWorst` with the minimum, both by induction over
the list of futures. `WorstSlackIsWorst` has the hypothesis that **no slack is zero**:
without it, it is false (section 5). `WildcardsAreJudged` is for any metrics that
earlier analyses may have left in the state.

### The Classic flow and the core behind it: `DigitalCoreProofs`

* `ConnectedIsSupplied`, for a power grid of any size: the parent links of
  `check_connected_power.py` form a forest, however vias are met (`Iterates` gives that
  following them ends), each union joins exactly two classes (`UnionJoins`, `ViaJoins`),
  so labels have one root exactly if a chain of vias connects them.
* `SignedAreChecked`, for any designs, grids and number of commands, whichever tools exit
  0 and leave nothing: `Checked` says, for each check the script is past, what
  is known of this try's core; `Files`, that a report that is still to be read is an
  earlier try's or none, which is why a stale one can only be mistaken where the
  property says so (`Clean`).
* `RunsAreJudged`, `SuccessesAreOneDesign`, `InputsAreAlwaysFound`, for **every list of
  steps** that satisfies `StepsAssumption`, `OrderAssumption`, `EndAssumption` and
  `AccessAssumption`, any designs, and any number of runs in one directory, under any
  of the configurations, that fail, die in a tool, defer errors, are repeated or
  resumed. The list of steps is data, and what one list does when nothing disturbs it
  can be computed (`Undisturbed`): this is what the assumptions speak of, and TLC
  evaluates it for each configuration. What the theorems add is that nothing which
  does disturb a run matters: the views, metrics, deferred errors and step directories
  that earlier runs left, the ordinal this run starts at, tools that fail unnoticed,
  checkers that defer. The invariant `Judged` puts the run beside the undisturbed one
  (`Underway`): each view the undisturbed run has written by now shows the same
  directory, counted from this run's first (`ShowsAsIdeal`), and so does each metric
  (`MeasuredAsIdeal`); what has been worked is done (`StepsDid`), each checker that had
  to object has deferred its objection (`CheckersSaid`), and what has been found bad is
  bad, unless it is an earlier run's (`Deserving`). `WorkKeeps`, `PassingKeeps` and
  `PassesBy` preserve it, one for each way the loop goes on, `FinishesJudged` and
  `EndsAtStepJudged` read the properties off at the end.

  What is exempted is named in the properties: a view, or a count of DRC errors, over
  which a Magic died that nobody missed (`lost`), the shapes that fill, seal ring and a
  retouched stream have beyond the DEF (`Beyond`: those views must then be younger than
  it, and of its nets), the netlists of a configuration without detailed routing and
  fill insertion behind antenna repair, timing without extraction.

### The gate and the evidence: `SignoffProofs`

For every number of revisions, any faults they have, any set of required stages and
manifests: `VerdictsAreDeserved` and `ReleasesAreClosed`, from the hypothesis
`Candid == Hollow \cap {"drc", "mdp", "ip62", "ledger"} = {}`. Neither property is
inductive: a verdict is given by a sequence of looks at files that earlier runs may have
left. `GateInv` adds `Established`: what a run over one layout knows when it stands at a
stage, which is that the layout deserves the gates behind it and that their files were
made from it, and from no other (the ledger also from the DEF of this run). `PassIsClosed` is about the manifest alone. Without `Candid` the theorems
are false, as said in section 2.

For every contract: `PassesAreEvidence`, `PassesAreWhole`, from `EvidenceInv` (the cases
of an accepted contract are those left and those with a result, and each result is what
a log of that case can lead to); `MobilitiesAreScaled` by induction over the lines of a
model file.

### Simulation, and what it is given: `PostLayoutProofs`, `ModelsProofs`

For every set of cases, routings and faults, and any number of calls that die anywhere:
`ExitZero`, `SummaryAndResults`. `Underway` says that the cases left and those run are
the ones asked for, each once, that the directory of each that was run holds this call's
result, and that the summary is still an earlier call's.

For every table of cells and every outcome of the simulations. `SearchInv` is the
types and `Narrowed`: while the search halves, its upper end passed, its lower end
failed, and they are `Width[turn]` apart. The width has to be said exactly and not as a
bound: the grid of `Span` steps is what lets every middle be a grid point
(`MiddleIsHalfway`). From it follow `SearchIsBracketed` (without any assumption on the
simulations), `SearchIsWithinAStep`, and `SearchIsTight`, which needs that a flop which
captures goes on capturing with more margin (`Monotone`): without it there is no one
threshold to be near to. `CharInv` adds that the cells asked for that exist are those done, given
up and left, so a file that is written is whole; that the arc of A, and the senses that
are written for the other inputs, are the cell's, is shown for each function of the
table and any levels: `LibraryMeasured`, `ConstraintsAreTight`.

For every layout: `TouchingIsJoined`, from `RouteInv` (which `RouteIsKept` states by
itself), wire by wire, via by via, pin by pin. `WiresAreCut`: each wire that was cut
has a piece that ends at each of its places; `ViasMeet`, `PinsMeet`: each via and pin
that was placed is joined to a node where it is. Two things make it work. What
`CutWire` collects lies on the wire (`CutPlacesOnWire`), sorting it loses nothing
(`AscendingIsAll`, `CutsAreAll`), and a piece is made for each two neighbours, so every
place ends one (`CutWireAdds`). And where a via or a pin
lies on a wire there is a node at distance nothing, so that the nearest one, which the
code takes, cannot be anywhere else (`NearestIsThere`). Nodes are only added, never
moved, so what was said of them before stays true. The property then needs that
wires that touch have a place in common which both were cut at (`SharedIsCrossed`).
It does not say that two wires share *one* node there: they do not (section 5).

For every package: `ViewsOfTheDesign`, from `ViewsInv` (each view that was made is made
of the package; a lumped SPEF is made only where each instance has a model). The
connections of a net are the pins of its netlist, with a direction that tells its
drivers (`DriversAreFound`); they are finitely many (`ConnectionsAreFinite`), so the
resistance is shared among as many branches as there are loads, and the parts add up to
the whole (`PartsAddUp`).

### Configuration: `ConfigurationProofs`

For any variables, PDKs, files, command lines and inputs, and files of any number and
length. `ConfigInv` says that while files are read the keys are names of today
(`Shaped`), and that what was accepted is `Settled`: it has every variable, nothing else,
and each value is one that is converted to itself, or a null that is allowed. The
argument has two halves.

* *Values.* A value that is converted once is converted to itself from then on, strictly
  or permissively (`ConvertTwice`), so a settled configuration is processed into itself
  however it is processed (`ProcessKeeps`).
* *Names.* A variable is looked for under its old names first. A configuration that was
  processed has names of today only, and no old name is one of those
  (`OldNamesAreOld`), so each variable is found under its own (`UsedNameIsOwn`); and what
  is laid on top is found first, under whatever name it goes (`FoundOnTop`).

`ReloadGivesItBack` follows from both, for what a step's `config.json` holds and for what
`with_increment` adds. `AcceptedAreSettled` is the invariant said of the result.
`OverridesHaveTheLastWord` is an action property about the last layer: the value of a
variable is what the command line says of it, under any name, or else what the files
led to, or else its default; `DIODE_INSERTION_STRATEGY`, which says something of other
variables, is excluded.

The type invariants that are proved for all constants are not repeated by the runs.

### Only model-checked

* **Liveness** (`RunConcludes`, `FlowExits`, `Ends`, `AnalysesEnd`, `RunEnds`): fairness
  and `ENABLED` are out of the prover's reach.
* `LastWordWins`: the definition it compares with follows references back through the
  items of all files (`RECURSIVE`, and filters and flattens lists with operators of the
  community modules that the provers cannot look into). The last of its layers is
  `OverridesHaveTheLastWord`.
* `NeverMiscalculated`: what a parser of expressions computes is an induction over the
  expressions, and `Expressions` recurs over them.
* `TotalsAreTheLayouts`: its totals are folds over sets of pieces and pairs of pieces,
  which the provers cannot look into.

## 5. Disagreements between code and documents

Four runs end in a counterexample, each against a sentence of the repository:

| Run | Sentence | What the code does |
|---|---|---|
| `corner_zero_slack` | an aggregator is a starting value for an accumulator and a reduction function (`common/metrics/metric.py:90`) | an aggregate that is 0 is taken for one that was never started: the worst of the slacks 0 and 1 is reported as 1 |
| `digital_lost_lef` | `MAGIC_CAPTURE_ERRORS`: capture errors printed by Magic and quit when a fatal error is encountered (`steps/magic.py:165`) | Magic's exit code is not looked at, and the line a Tcl error ends in matches none of the patterns: the step succeeds with the LEF of an earlier run, or none |
| `digital_stale_parasitics` | `STAPostPNR` performs multi-corner timing analysis on the post-PnR netlist, with extracted parasitics (`steps/openroad.py:941`) | extraction and analysis have gates of their own: with `RUN_SPEF_EXTRACTION` off and `RUN_MCSTA` on, a second run in a directory takes the SPEF of the layout before from the state, and succeeds |
| `split_net` | routed segments are split at endpoints, vias and terminals into a distributed RC network (`flow/README.md:528`) | the node made for a coordinate is never stored, so neighbouring pieces of a wire share none and no resistor joins them |

The exact lines are in `PROJECT.json`, `findings`. The models follow the code in
these and in the following places, which were met on the way and have no run of
their own; where a property has an exception for one, it names it.

* `--to` before `--from`: the flag is cleared only at the step of `--to` while
  executing, so the flow runs from `--from` to its end.
* Optimizing: the floorplan of the high utilization is outside of the `try`
  (`optimizing.py:123`), so its failure is not fallen back from.
* The gate in extraction-only mode demands the match marker LVS prints after comparing
  (`run_tr1um_signoff.sh:154`), and so never continues to mask DRC.
* The RCX DEF is compared by its name (`run_tr1um_signoff.sh:195-203`), though the
  script itself says that same-name routed runs can differ (line 184). PASS may
  therefore leave a network and a ledger of another routed run, and a release may quote
  them: the properties say of the ledger that it is of this layout *and of the DEF given*.
* `save_snapshot` (`state.py:201`) copies every view of the state over `final/`, so a
  run with `--with-initial-state` puts the views of that state over newer ones there.
* The report of Magic's DRC is opened before the check runs (`scripts/magic/drc.tcl:57`).
  A Magic that dies there leaves it empty, its exit code is not looked at, and the empty
  report is read as 0 errors (`magic.py:541-558`): such a run may succeed with a defect
  that only Magic's DRC looks for.
* `KLayout.StreamOut` runs a `postprocess_gds.py` it finds in the design's directory, and
  adds a bridge to the mixed counter's ground (`klayout.py:318-354`). What they draw is
  in `KLAYOUT_GDS`, and the `GDS` made of it, alone: DEF, LEF, SPEF, SPICE and Magic's
  stream know nothing of it, and a comparison of the two streams finds it.
* A timing checker reads every corner metric in the state (`checker.py:549-565`), also
  those of the mid-PnR analyses, of `STAPrePNR` and of an earlier run. A wildcard that
  selects a corner which was skipped now, as one with the same files came first, and not
  that other one, is satisfied by such a metric, of a design before it was routed.
* A temperature run decides by the *name* of a model whether a failure is one to warn of
  (`run_temperature_validation.py:348-354`), and nothing keeps names apart: an entry that
  is `warning_only` can vouch for a static model in use under another entry of its name.
* The Liberty file gives every input the times measured on A
  (`char_liberty.py:850-869`), and one sense, also the select of a multiplexer and the
  inputs of an exclusive or, which have none. A name in `--cells` without a netlist is
  passed over in silence (lines 609-616).
* Empty lists of evidence and of limits are accepted by the manifest gate
  (`check_analog_signoff_manifest.py:51`).
* The core flow takes the placement from the step directory with ordinal 31
  (`run_digital_core_flow.sh:28`): when one tag is run twice, that is the first run's.
* Post-layout simulation: a refused case whose directory was never made ends in an
  uncaught `FileNotFoundError`, and an SDF of an earlier run may lie beside the result.
* Parasitics: the search for neighbours ends at the first one too far away by its centre
  (`extract_tr1um_parasitics.py:1104`), so with wires of mixed widths on a layer a
  nearer one behind it is missed.

## 6. What is not modelled

* **Two entries of one name**, but for those of the temperature contract: cases of a
  post-layout manifest are taken to be named apart, which its reader does not check.
* **Two processes in one run directory.** Nothing in the code excludes it (tags are
  time stamps of one second), and no property of the directory would hold; the
  model has one process at a time.
* **Equal modification times.** The model's clock advances with every record. On a
  file system with a coarse clock two records may tie, and the first in glob order
  wins.
* **Torn files**: a snapshot that is broken off leaves whole files, of one step; what a
  half-copied file holds is left out.
* **A helper of a tool that keeps its output open** after the tool has exited, and
  the text of logs, reports and process statistics.
* **The comparison of metrics** (`MetricDiff`), logging, progress bars, warnings.
* **What tools compute.** A view is the revision it shows and the defects it has; a
  simulation's outcome is a constant or a choice. Steps outside of the three flows.
* **Types of configuration variables** other than text and typed, the search for PDKs
  and macros, and the Tcl interpreter.
* **Inventory mode** of the manifest gate, which drops the blockers.
* **The Liberty text** and the order of its groups. A cell whose simulations fail is
  dropped from the library while the exit code stays 0: the model keeps this, and
  `LibraryIsMeasured` says which cells may lack.
* **The RTL simulation in front of the tests' flow**, and helper scripts that only
  set the environment.
* The parts listed as `not_modelled`: single-shot checkers whose rules are numeric or
  textual, auxiliary characterisation, geometry, the ALIGN flow (linear, around an
  external placer), text and layer conversion, rule decks, data.

## 7. Plan

In order of importance; all modules planned are written.

1. [done] `StepJournal`, `FlowRun`: the run directory, its invariants, its
   refinement, and their proofs; proofs about its snapshots and its successes.
2. [done] `StepPool`, `Exploration`, `Optimizing`, `StrategyChoice`,
   `SynthesisExploration`, `Exploring`; proofs about the pool, the end of the
   exploration, its refinement and its outcome.
3. [done] `AnalogManifest`, `SignoffGate`, with proofs.
4. [done] `Subprocess`, `CornerSTA`, `TimingCheck`, with proofs.
5. [done] `StepList`, `ClassicSteps`, `ClassicFlow`, and `DigitalCore` with
   `ConnectedPower` on top, with proofs.
6. [done] `Configuration`, `Expressions`, `Evidence`, the first and the last with proofs.
7. [done] `PostLayout`, `Characterisation`, `PushOut`, `TimingViews`, `Parasitics`, with
   proofs.
8. [done] Proofs of every safety property of the runs but three, and of the last layer
   of `LastWordWins`.
9. The other layers of `LastWordWins`, with its recursion as recursive functions over
   files; `TotalsAreTheLayouts`, with its sums over lists.
10. The ALIGN flow, and metric comparison.

## 8. How to run it

With `tlc`, `tlasany` and `tlapm` (1.4.5) on the path and the TLA+ community modules
installed, in this directory:

```
for m in FlowRun Exploring Tools SignoffGate \
         DigitalFlow Functions PostLayout Models; do
  tlc -workers 2 -config MC$m.cfg MC$m
done
tlc -workers 2 -config MCCornerZeroSlack.cfg MCCornerSTA     # these four end in
tlc -workers 2 -config MCDigitalLostLef.cfg MCDigitalFlow    # the counterexamples
tlc -workers 2 -config MCDigitalStaleSpef.cfg MCDigitalFlow  # of section 5
tlc -workers 2 -config MCModelsSplit.cfg MCModels
for m in FlowRun Exploring Tools DigitalCore Signoff PostLayout Models \
         Configuration; do
  tlapm ${m}Proofs.tla
done
```

`PROJECT.json` maps the definitions to the lines they model, lists all runs, and for
every property a mutant of the code that breaks it.
