---------------------------- MODULE ClassicFlow ----------------------------
(***************************************************************************)
(* Runs of the Classic flow in one run directory, with what its steps hand *)
(* on: which revision of the design each view shows, and which layout each *)
(* metric was measured on.  (How the loop and the directory survive deaths *)
(* is FlowRun's; here a run resumes from the state the last one left.)     *)
(*                                                                         *)
(* An ordinal is never used twice in a directory, so a revision is named   *)
(* by the ordinal of the step that last changed it.                        *)
(***************************************************************************)
EXTENDS ClassicSteps

CONSTANTS
  Profiles,   \* names of configurations
  Subs,       \* profile -> its substitutions, in order
  Off,        \* profile -> the gating variables that are false
  Given,      \* profile -> the options that are given
  Tolerates,  \* profile -> the metrics whose ERROR_ON_ variable is false
  Primary,    \* profile -> PRIMARY_GDSII_STREAMOUT_TOOL
  Designs,    \* the defects designs may have, each a set of metrics
  Again(_, _, _, _),  \* bound: the profile and design that may follow a run's
  Fallible,   \* bound: the steps that may fail otherwise than by a verdict
  MaxRuns     \* bound: runs in the directory

View == {"JSON_HEADER", "NL", "PNL", "ODB", "DEF", "SPEF", "GDS", "MAG_GDS",
         "KLAYOUT_GDS", "LEF", "SPICE"}
Metric == UNION {s.measures : s \in Library}

\* The ordinals of the last change of the geometry and of the nets; 0: no view.
NoView == [layout |-> 0, nets |-> 0]
NoViews == [v \in View |-> NoView]
NoMetric == [bad |-> FALSE, of |-> 0, at |-> 0]
NoMetrics == [m \in Metric |-> NoMetric]
NoFiles == [o \in {} |-> NoView]

\* The steps of each profile's flow, and what its configuration makes of them.
Configured(p, step) ==
  LET s == Described(step.impl) IN
  [s EXCEPT !.out = IF s.streams = Primary[p] THEN @ \cup {"GDS"} ELSE @,
            !.main = IF s.gdsIf \in Given[p] THEN "GDS" ELSE @,
            !.edits = IF s.retouchedIf \in Given[p] THEN "layout" ELSE @]
    @@ [gated |-> step.n = 0 /\ Gates(step.impl) \cap Off[p] # {},
        idle |-> ~(s.needs \subseteq Given[p]) \/ s.yields \cap Given[p] # {}]

Program == [p \in Profiles |->
  LET list == SubstituteAll(Classic, Subs[p])
  IN  Built(Len(list), LAMBDA i : Configured(p, list[i]))]

\* A substitution that matches no step is an error before the flow starts.
ASSUME SubstitutionsApply == \A p \in Profiles : AllApply(Classic, Subs[p])

Works(step) == ~step.gated /\ ~step.idle /\ step.judges = None

\* What a step changes of the design.
Changes(step, repairs) == CASE step.edits = "layout" -> {"layout"}
                            [] step.edits = "nets" -> {"layout", "nets"}
                            [] step.edits = "repair" /\ repairs -> {"layout", "nets"}
                            [] OTHER -> {}

VARIABLES
  profile, design,  \* of the current, or else the last, run
  pc,               \* "idle" or "run"
  stage,            \* the step of the list the loop is at
  ordinal,          \* the next step directory's
  base,             \* the first one of this run
  views, metrics,   \* the current state, which is also the last one recorded
  lost,             \* the views and metrics of this run that a tool died over
  deferred,         \* the metrics whose checkers deferred an error in this run
  blame,            \* the metrics a failed run blames
  placed,           \* ordinal -> the DEF that lies in it, for detailed placements
  final,            \* the views in final/
  result,           \* how the last run ended
  runs

vars == <<profile, design, pc, stage, ordinal, base, views, metrics, lost, deferred, blame,
          placed, final, result, runs>>
kept == <<profile, design, base, runs>>
-----------------------------------------------------------------------------
Init ==
  /\ profile \in Profiles
  /\ design \in Designs
  /\ pc = "idle"
  /\ stage = 1
  /\ ordinal = 1
  /\ base = 1
  /\ views = NoViews
  /\ metrics = NoMetrics
  /\ lost = {}
  /\ deferred = {}
  /\ blame = {}
  /\ placed = NoFiles
  /\ final = NoViews
  /\ result = "none"
  /\ runs = 0

\* A run of a profile on a design, whose first step directory has this ordinal.
\* (The first one takes what Init chose.)
Enter(p, d, first) ==
  /\ pc = "idle"
  /\ runs < MaxRuns
  /\ IF runs = 0 THEN p = profile /\ d = design ELSE Again(profile, design, p, d)
  /\ profile' = p
  /\ design' = d
  /\ pc' = "run"
  /\ stage' = 1
  /\ base' = first
  /\ ordinal' = first
  /\ lost' = {}
  /\ deferred' = {}
  /\ blame' = {}
  /\ result' = "none"
  /\ runs' = runs + 1

\* In an empty directory, or from the state the last run recorded.
Begin(p, d) == /\ Enter(p, d, ordinal)
               /\ UNCHANGED <<views, metrics, placed, final>>

\* In a directory that was removed first.
BeginAfresh(p, d) == /\ Enter(p, d, 1)
                     /\ views' = NoViews
                     /\ metrics' = NoMetrics
                     /\ placed' = NoFiles
                     /\ final' = NoViews

AtStep == pc = "run" /\ stage <= Len(Program[profile])
Current == Program[profile][stage]

\* The loop goes on; a step that was skipped leaves the ordinal.
GoOn(increment) == /\ stage' = stage + 1
                   /\ ordinal' = IF increment THEN ordinal + 1 ELSE ordinal
                   /\ UNCHANGED <<kept, pc, final, result, blame>>

\* The run ends at a step, whose directory stays.
EndAtStep(how, whom) ==
  /\ pc' = "idle"
  /\ ordinal' = ordinal + 1
  /\ result' = how
  /\ blame' = whom
  /\ UNCHANGED <<kept, stage, views, metrics, lost, deferred, placed, final>>

\* Mutant of Gated: a step that is skipped takes a directory.
GatedCounted == /\ AtStep
                /\ Current.gated
                /\ GoOn(TRUE)
                /\ UNCHANGED <<views, metrics, lost, deferred, placed>>

Gated == /\ AtStep
         /\ Current.gated
         /\ GoOn(FALSE)
         /\ UNCHANGED <<views, metrics, lost, deferred, placed>>

Missing == \E v \in Current.in : views[v] = NoView

\* "missing required input": a StepException, raised as a FlowException.
MissingInput == /\ AtStep
                /\ ~Current.gated
                /\ Missing
                /\ EndAtStep("exception", {})

Started == AtStep /\ ~Current.gated /\ ~Missing

\* The step has nothing to do: an option is not set, or another rules it out.
DoNothing == /\ Started
             /\ Current.idle
             /\ GoOn(TRUE)
             /\ UNCHANGED <<views, metrics, lost, deferred, placed>>

Edited == Changes(Current, "repairs" \in design)

\* What the views it writes show.
Content ==
  LET read == IF Current.main = None THEN NoView ELSE views[Current.main]
  IN  [k \in {"layout", "nets"} |-> IF k \in Edited THEN ordinal ELSE read[k]]

\* What a tool finds: the design's own defects; netlists that differ because a
\* step changed one and not the other; two streams of different layouts.
Found(m) == \/ m \in design
            \/ m = "lvs" /\ views["SPICE"].nets # views["PNL"].nets
            \/ m = "xor" /\ views["MAG_GDS"].layout # views["KLAYOUT_GDS"].layout

\* Mutant of Measured: the metrics of the state win over the step's.
OldMetricsWin(reported) ==
  [m \in Metric |-> IF m \in reported /\ metrics[m] = NoMetric
                    THEN [bad |-> Found(m), of |-> Content.layout, at |-> ordinal]
                    ELSE metrics[m]]

Measured(reported) ==
  [m \in Metric |-> IF m \in reported
                    THEN [bad |-> Found(m), of |-> Content.layout, at |-> ordinal]
                    ELSE metrics[m]]

Judging == Current.judges # None

\* The step's views and metrics are laid over the state's.  The power grid is
\* only measured if there is a report of its errors, which a clean grid may lack.
Work ==
  /\ Started
  /\ ~Current.idle
  /\ ~Judging
  /\ views' = [v \in View |-> IF v \in Current.out
                              THEN [Content EXCEPT !.layout = IF @ = 0 THEN ordinal ELSE @]
                              ELSE views[v]]
  /\ \E silent \in SUBSET {m \in Current.measures : m = "power_grid" /\ ~Found(m)} :
       metrics' = Measured(Current.measures \ silent)
  /\ placed' = IF Current.id = "OpenROAD.DetailedPlacement"
               THEN [o \in DOMAIN placed \cup {ordinal} |-> IF o = ordinal THEN views'["DEF"] ELSE placed[o]]
               ELSE placed
  /\ GoOn(TRUE)
  /\ UNCHANGED <<lost, deferred>>

\* No errors, of no layout.
Unread == [bad |-> FALSE, of |-> 0, at |-> ordinal]

\* A tool that died is taken for one that ended well: its views stay those of an
\* earlier run, if there are any, and an empty report of its errors is read as none.
DiesUnnoticed ==
  /\ Started /\ ~Current.idle
  /\ Current.tacit /\ Current.id \in Fallible
  /\ metrics' = [m \in Metric |-> IF m \in Current.measures THEN Unread ELSE metrics[m]]
  /\ lost' = lost \cup Current.out \cup Current.measures
  /\ GoOn(TRUE)
  /\ UNCHANGED <<views, deferred, placed>>

\* A metric that was never measured is warned of only.
Exceeds == IF Current.measures = {} THEN metrics[Current.judges].bad
                                    ELSE Found(Current.judges)

Errs == Exceeds /\ (Current.heeds => Current.judges \notin Tolerates[profile])

Clear == /\ Started /\ ~Current.idle /\ Judging
         /\ ~Errs
         /\ GoOn(TRUE)
         /\ UNCHANGED <<views, metrics, lost, deferred, placed>>

Defer == /\ Started /\ ~Current.idle /\ Judging
         /\ Errs
         /\ ~Current.immediate
         /\ deferred' = deferred \cup {Current.judges}
         /\ GoOn(TRUE)
         /\ UNCHANGED <<views, metrics, lost, placed>>

ErrAtOnce == /\ Started /\ ~Current.idle /\ Judging
             /\ Errs
             /\ Current.immediate
             /\ EndAtStep("failed", deferred \cup {Current.judges})

\* A tool fails, or the process dies inside a step.
ToolFails == /\ Started /\ ~Current.idle
             /\ Current.id \in Fallible
             /\ EndAtStep("failed", {})

\* Mutant of Finish: what lies in final/ is not overwritten.
FinishKeeping ==
  /\ pc = "run"
  /\ stage = Len(Program[profile]) + 1
  /\ final' = [v \in View |-> IF final[v] = NoView THEN views[v] ELSE final[v]]
  /\ pc' = "idle"
  /\ result' = IF deferred = {} THEN "success" ELSE "failed"
  /\ blame' = deferred
  /\ UNCHANGED <<kept, stage, ordinal, views, metrics, lost, deferred, placed>>

\* The snapshot is saved over final/ before deferred errors are raised.
Finish ==
  /\ pc = "run"
  /\ stage = Len(Program[profile]) + 1
  /\ final' = [v \in View |-> IF views[v] = NoView THEN final[v] ELSE views[v]]
  /\ pc' = "idle"
  /\ result' = IF deferred = {} THEN "success" ELSE "failed"
  /\ blame' = deferred
  /\ UNCHANGED <<kept, stage, ordinal, views, metrics, lost, deferred, placed>>

StartAny == \E p \in Profiles, d \in Designs : Begin(p, d)

Loop == Gated \/ MissingInput \/ DoNothing \/ Work \/ DiesUnnoticed \/ Clear \/ Defer \/ ErrAtOnce
        \/ ToolFails \/ Finish

Next == StartAny \/ Loop

Spec == Init /\ [][Next]_vars
-----------------------------------------------------------------------------
(* Properties                                                              *)

Succeeded == pc = "idle" /\ result = "success"

\* The steps a profile runs, read off its list and not off a run.
Active == [p \in Profiles |-> {s \in Range(Program[p]) : ~s.gated /\ ~s.idle}]
Measures == [p \in Profiles |-> UNION {s.measures : s \in Active[p]}]
Judges == [p \in Profiles |-> {s.judges : s \in Active[p]} \ {None}]
Writes == [p \in Profiles |-> UNION {s.out : s \in Active[p]}]
Reads == [p \in Profiles |-> UNION {s.in : s \in Active[p]}]

\* A list whose steps have the shape of a step: a checker writes nothing, a tool
\* whose death goes unnoticed writes a LEF, which nobody reads on, or measures the
\* errors that Magic finds; what writes a netlist or a layout makes the nets anew or shows those of a view
\* that it cannot do without, and detailed placement writes a DEF.
Shaped(step) ==
  /\ step.out \subseteq View /\ step.main \in (View \ {"LEF"}) \cup {None}
  /\ step.measures \subseteq Metric /\ step.judges \in Metric \cup {None}
  /\ step.judges # None => step.out = {} /\ (step.measures # {} => step.judges \notin {"lvs", "xor"})
  /\ step.tacit => /\ step.out \subseteq {"LEF"} /\ step.measures \subseteq {"magic_drc"}
                   /\ step.judges = None
  /\ \/ step.out \subseteq {"JSON_HEADER"}
     \/ step.edits = "nets"
     \/ step.main \in (step.in \cap View) \ {"JSON_HEADER"}
  /\ step.id = "OpenROAD.DetailedPlacement" => "DEF" \in step.out
ASSUME StepsAssumption ==
  \A p \in Profiles : /\ Len(Program[p]) \in Nat
                      /\ DOMAIN Program[p] = 1..Len(Program[p])
                      /\ \A i \in 1..Len(Program[p]) : Shaped(Program[p][i])

\* The step writes a view, or measures a metric, before the i-th step of the list.
WrittenBefore(p, i, v) == \E j \in 1..i - 1 : Works(Program[p][j]) /\ v \in Program[p][j].out
MeasuredBefore(p, i, m) == \E j \in 1..i - 1 : Works(Program[p][j]) /\ m \in Program[p][j].measures

\* A view that some step writes is written before the first step that asks for it,
\* and a metric that is measured is measured before it is judged.
ASSUME OrderAssumption ==
  \A p \in Profiles : \A i \in 1..Len(Program[p]) : LET s == Program[p][i] IN
    ~s.gated =>
      /\ \A v \in s.in : v \in Reads[p] /\ (v \in Writes[p] => WrittenBefore(p, i, v))
      /\ ~s.idle /\ s.judges \in Measures[p] /\ s.measures = {} => MeasuredBefore(p, i, s.judges)

\* A run that succeeds has no defect that one of its steps looks for and one of
\* its checkers would stop at, whatever earlier runs left in the state; unless the
\* tool that looks for it died.
SuccessMeansClean ==
  Succeeded => design \cap Measures[profile] \cap (Judges[profile] \ Tolerates[profile]) \subseteq lost

\* Timing is measured on the routed design only by STAPostPNR, and with this
\* layout's parasitics only if they are extracted: a run that does not extract them
\* reads those that an earlier run has left, if there are any.
SignoffMetrics(p) ==
  {"klayout_drc", "magic_drc", "illegal_overlap", "lvs", "xor", "density"}
    \cup IF {"RUN_MCSTA", "RUN_SPEF_EXTRACTION"} \cap Off[p] = {} THEN Timing ELSE {}

\* The view a verdict is about: the GDS, or what it was made from.
Subject(p, m) ==
  IF \/ m \in {"klayout_drc", "density"}
     \/ m = "magic_drc" /\ "MAGIC_DRC_USE_GDS" \in Given[p]
     \/ m \in {"lvs", "illegal_overlap"} /\ "MAGIC_EXT_USE_GDS" \in Given[p]
  THEN "GDS" ELSE IF m = "xor" THEN "KLAYOUT_GDS" ELSE "DEF"

\* A checker's verdict at sign-off is about the layout in final/, measured in
\* this run: nothing moves behind the tool that measured, and the rules of a chip
\* are checked behind its seal ring and its fill.  (But for what no tool measured
\* that died.)
SignoffSeesFinalLayout ==
  Succeeded =>
    \A m \in (SignoffMetrics(profile) \cap Measures[profile] \cap Judges[profile]) \ lost :
      metrics[m].at >= base /\ metrics[m].of = final[Subject(profile, m)].layout

\* A seal ring and fill are in the GDS alone.
Finishes(p) == \E s \in Active[p] : s.main = "GDS" /\ "GDS" \in s.out

\* The streams that the design's own script retouches, and what is made from them.
Retouched(p) ==
  LET streamed == UNION {s.out : s \in {s \in Active[p] : s.retouchedIf \in Given[p]}}
  IN  streamed \cup UNION {s.out : s \in {s \in Active[p] : s.main \in streamed}}

\* The views with shapes that the DEF has not.
Beyond(p) == Retouched(p) \cup IF Finishes(p) THEN {"GDS"} ELSE {}

\* Behind antenna repair only detailed routing and fill insertion write the
\* netlists again.
NetlistsBehind(p) == {"RUN_DRT", "RUN_FILL_INSERTION"} \subseteq Off[p]

\* The run that nothing disturbs: of a design that may have something to repair, the
\* step directories before each step, what each view then shows and what each metric
\* was measured on, by the number of the step directory in this run; 0: of no step.
Shows(step, repairs, before) ==
  [k \in {"layout", "nets"} |->
     IF k \in Changes(step, repairs) THEN before.dirs + 1
     ELSE IF step.main = None THEN 0 ELSE before.views[step.main][k]]
Onward(step, repairs, before) ==
  [dirs |-> IF step.gated THEN before.dirs ELSE before.dirs + 1,
   of |-> [m \in Metric |-> IF Works(step) /\ m \in step.measures
                            THEN Shows(step, repairs, before)["layout"] ELSE before.of[m]],
   views |-> [v \in View |-> IF Works(step) /\ v \in step.out
                             THEN Shows(step, repairs, before) ELSE before.views[v]]]
Outset == [dirs |-> 0, of |-> [m \in Metric |-> 0],
           views |-> [v \in View |-> [k \in {"layout", "nets"} |-> 0]]]
Undisturbed(p, repairs) ==
  LET after[i \in 0..Len(Program[p])] ==
        IF i = 0 THEN Outset ELSE Onward(Program[p][i], repairs, after[i - 1])
  IN  after

\* The views that are of one layout and netlist with the DEF at the end, those aside
\* that go beyond it.
Alike == {"ODB", "SPEF", "GDS", "MAG_GDS", "KLAYOUT_GDS", "LEF", "SPICE"}
Said(k, x, y) == x[k] = y[k] /\ x[k] # 0

\* The list by itself, undisturbed, leads two layouts that are compared to be one, if
\* neither is retouched, and two netlists; and its end to views and measurements of
\* one design.
ASSUME EndAssumption ==
  \A p \in Profiles, repairs \in BOOLEAN :
    LET run == Undisturbed(p, repairs)
        end == run[Len(Program[p])]
    IN  /\ \A i \in 1..Len(Program[p]) : Works(Program[p][i]) =>
             /\ "xor" \in Program[p][i].measures /\ "KLAYOUT_GDS" \notin Retouched(p) =>
                  Said("layout", run[i - 1].views["MAG_GDS"], run[i - 1].views["KLAYOUT_GDS"])
             /\ "lvs" \in Program[p][i].measures /\ ~NetlistsBehind(p) =>
                  Said("nets", run[i - 1].views["SPICE"], run[i - 1].views["PNL"])
        /\ \A v \in Alike \cap Writes[p] :
             /\ end.views["DEF"].layout # 0
             /\ Said("nets", end.views[v], end.views["DEF"])
             /\ IF v \in Beyond(p) THEN end.views[v].layout > end.views["DEF"].layout
                                   ELSE end.views[v].layout = end.views["DEF"].layout
        /\ ~NetlistsBehind(p) =>
             \A v \in Netlists \cap Writes[p] : Said("nets", end.views[v], end.views["DEF"])
        /\ \A m \in SignoffMetrics(p) \cap Measures[p] \cap Judges[p] :
             end.of[m] = end.views[Subject(p, m)].layout /\ end.of[m] # 0

\* The views that a successful run wrote, but for those a tool died over, show one
\* netlist and one layout; only the GDS of a chip that is finished, and a stream that
\* the design's own script retouches, show more, and they are younger than the DEF.
ViewsAgree ==
  Succeeded =>
    /\ \A v \in Alike \cap (Writes[profile] \ lost) :
         /\ final[v].nets = final["DEF"].nets
         /\ IF v \in Beyond(profile) THEN final[v].layout > final["DEF"].layout
                                     ELSE final[v].layout = final["DEF"].layout
    /\ ~NetlistsBehind(profile) =>
         \A v \in Netlists \cap Writes[profile] : final[v].nets = final["DEF"].nets

\* No step asks for a view that a later step writes: a run stops at a missing
\* input only if its configuration turned off whatever writes it, or a tool died.
NeverStarved ==
  result = "exception" => ~(Reads[profile] \subseteq Writes[profile] \ lost)

\* A failed run blames nothing the design does not have; only what no step of
\* the run measured (or a clean power grid, which may leave no report) can be
\* an earlier run's.  A stream that is retouched does differ from the other.
BlameIsDeserved ==
  \A m \in blame :
    \/ m \in design
    \/ base > 1 /\ (m \notin Measures[profile] \/ m = "power_grid")
    \/ m = "lvs" /\ NetlistsBehind(profile)
    \/ m = "xor" /\ "KLAYOUT_GDS" \in Retouched(profile)

\* What a run says of the design is what the design deserves, whatever earlier
\* runs left in the state: a success is clean, and a failure blames what is there.
RunIsJudgedByItsDesign == SuccessMeansClean /\ BlameIsDeserved

\* A success leaves one design in final/, and its verdicts are about that design.
SuccessIsOneDesign == ViewsAgree /\ SignoffSeesFinalLayout

\* Magic.WriteLEF says that it writes a LEF view of the design, and every other
\* tool that dies ends the run: a run that succeeds has a LEF of its own layout.
LefShowsTheLayout ==
  Succeeded /\ "LEF" \in Writes[profile] => final["LEF"] = final["DEF"]

\* STAPostPNR analyses the routed netlist with extracted parasitics: the timing that
\* a successful run was judged by is that of its own layout.
TimingShowsTheLayout ==
  Succeeded /\ "RUN_MCSTA" \notin Off[profile] =>
    \A m \in Timing \cap Measures[profile] \cap Judges[profile] :
      metrics[m].of = final["DEF"].layout
=============================================================================
