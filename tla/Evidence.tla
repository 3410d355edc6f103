------------------------------ MODULE Evidence ------------------------------
(* The runners whose verdict is quoted as signoff evidence: run_pvt_sta.py,   *)
(* run_analog_sim.py, run_temperature_validation.py (with the static audit it *)
(* starts from) and run_variation_analysis.py. Each reads a contract, refuses *)
(* it or runs a tool once per case, reads verdicts out of whatever the tool   *)
(* printed, and exits with zero if it has found nothing wrong.                *)
(* A temperature is a set: of one number, or of none for the true and NaN     *)
(* that pass a contract's test for numbers.                                   *)
EXTENDS Integers, FiniteSets, Sequences, SequencesExt

CONSTANT Contracts   \* contracts of all four runners

\* What the arithmetic and the sections of a log need to know of a contract.
Sections == <<"setup", "hold", "unconstrained", "drc", "check_setup">>
WellTyped(c) ==
  CASE c.runner = "pvt" -> \A corner \in ToSet(c.cases) : corner.bad \subseteq ToSet(Sections)
    [] c.runner = "analog" -> \A deck \in ToSet(c.cases) :
         /\ \A m \in ToSet(deck.measures) : {m.value, m.min, m.max} \subseteq Int
         /\ \A a \in ToSet(deck.assertions) : {a.low, a.high, a.limit, a.margin, a.width, a.density} \subseteq Int
    [] c.runner = "temperature" -> \A m \in ToSet(c.models) : {m.used, m.sound} \subseteq BOOLEAN
    [] c.runner = "variation" ->
         c.model \in Seq([kind : {"head", "more", "note", "blank", "other"}, group : {"n", "p", ""}, u0 : BOOLEAN])
    [] OTHER -> FALSE

ASSUME ContractsAssumption == \A c \in Contracts : WellTyped(c)

VARIABLES
  contract,
  todo,      \* cases still to run
  results,   \* {[case, passed]} of the cases that have been run
  status     \* "checking", "running", the status of the report, or "raised"
evidenceVars == <<contract, todo, results, status>>

Runner == contract.runner
AllPassed(rs) == \A r \in rs : r.passed
Repeated(names) == \E i, j \in DOMAIN names : i # j /\ names[i] = names[j]
Within(t, range) == range[1] <= t /\ t <= range[2]
Covers(range, other) == range[1] <= other[1] /\ other[2] <= range[2]
-----------------------------------------------------------------------------
(* run_pvt_sta.py                                                            *)
\* The endpoints of the operating range, unless the manifest lists others; all
\* three roles, unless it lists others.
RequiredTemperatures(c) == IF c.temperatures = {} THEN {c.operating[1], c.operating[2]} ELSE c.temperatures
RequiredRoles(c) == IF c.roles = {} THEN {"slow", "typ", "fast"} ELSE c.roles

PvtRefused(c) ==
  \/ ~c.wellformed \/ ~c.tool
  \/ ~Covers(c.rs, c.operating) /\ c.extrapolation # "qualified"
  \/ c.extrapolation = "qualified" /\ ~c.evidence
  \/ c.cases = <<>>
  \/ Repeated([i \in DOMAIN c.cases |-> c.cases[i].name]) \/ Repeated([i \in DOMAIN c.cases |-> c.cases[i].role])
  \/ (\E corner \in ToSet(c.cases) : \E t \in corner.temperature : ~Within(t, c.operating))
  \/ \E t \in RequiredTemperatures(c) : \A corner \in ToSet(c.cases) : t \notin corner.temperature
  \/ \E role \in RequiredRoles(c) : \A corner \in ToSet(c.cases) : role # corner.role

\* The script of a corner prints these sections, each between marks of its own,
\* and one mark more at the end. A log may break off after any of them, and a
\* section without its end is taken for an empty one.
PvtLogs == [printed : 0..(Len(Sections) + 1), error : BOOLEAN, code : {0, 1}]
Told(corner, log) == \E i \in DOMAIN Sections : i <= log.printed /\ Sections[i] \in corner.bad
\* Mutant of PvtVerdict: the mark at the end is not asked for.
PvtVerdictUnmarked(corner, log) == ~log.error /\ ~Told(corner, log) /\ log.code = 0
PvtVerdict(corner, log) ==
  log.printed > Len(Sections) /\ ~log.error /\ ~Told(corner, log) /\ log.code = 0
-----------------------------------------------------------------------------
(* run_analog_sim.py. Values are whole numbers, margins hundredths.          *)
\* Allowed is the limit less its margin; both sides are multiplied by 100.
Reaches(value, a) == 100 * value >= a.limit * (100 - a.margin)
AnalogRefused(c) ==
  \/ ~c.wellformed \/ ~c.tool
  \/ c.cases = <<>>
  \/ Repeated([i \in DOMAIN c.cases |-> c.cases[i].name])
  \/ \E case \in ToSet(c.cases) :
       \/ ~(c.axes \subseteq case.sweeps)
       \/ case.measures = <<>> \/ case.assertions = <<>>
       \/ \E m \in ToSet(case.measures) : m.min > m.max
       \/ \E a \in ToSet(case.assertions) : a.margin \notin 1..99 \/ a.limit <= 0

Size(n) == IF n < 0 THEN -n ELSE n
Largest(a) == IF Size(a.low) > Size(a.high) THEN Size(a.low) ELSE Size(a.high)
\* What the deck measures of an assertion whose expression runs from low to high:
\* the largest value, or the largest size.
Observed(a) == IF a.mode = "absolute" THEN Largest(a) ELSE a.high
\* Which values were printed, whether there is a line of an error or of a failed
\* measurement, and the exit code.
AnalogLogs(case) == [measured : SUBSET DOMAIN case.measures, asserted : SUBSET DOMAIN case.assertions,
                     error : BOOLEAN, code : {0, 1}]
\* A deck with a control block of its own cannot be instrumented.
AnalogVerdict(case, log) ==
  /\ ~case.control /\ ~log.error /\ log.code = 0
  /\ \A i \in DOMAIN case.measures :
       i \in log.measured /\ Within(case.measures[i].value, <<case.measures[i].min, case.measures[i].max>>)
  /\ \A i \in DOMAIN case.assertions : LET a == case.assertions[i] IN
       /\ i \in log.asserted /\ ~Reaches(Observed(a), a)
       /\ a.width > 0 => Size(Observed(a)) <= a.width * a.density
-----------------------------------------------------------------------------
(* audit_temperature_models.py and run_temperature_validation.py             *)
Limited(c, m) == ~Covers(m.characterized, c.operating) \/ m.behavior \in {"nominal_only", "missing", "unsupported"}
ModelStatus(c, m) ==
  CASE ~m.sound -> "INCOMPLETE"
    [] m.sound /\ ~Limited(c, m) -> "PASS"
    [] m.sound /\ Limited(c, m) /\ m.policy = "warning_only" -> "PASS_WITH_WARNINGS"
    [] OTHER -> "ENGINEERING_ONLY"
ReferenceAgrees(c) == c.reconciled /\ c.reference[1] = c.reference[2]
AuditStatus(c) ==
  LET of(s) == (\E m \in ToSet(c.models) : ModelStatus(c, m) = s)
  IN  CASE ~c.wellformed \/ c.models = <<>> \/ ~ReferenceAgrees(c) \/ ~Covers(c.guaranteed, c.operating)
           \/ (\E t \in c.validation : ~Within(t, c.operating)) -> "INVALID"
        [] OTHER -> IF of("INCOMPLETE") THEN "INCOMPLETE"
                    ELSE IF of("ENGINEERING_ONLY") THEN "ENGINEERING_ONLY"
                    ELSE IF of("PASS_WITH_WARNINGS") THEN "PASS_WITH_WARNINGS" ELSE "PASS"

Probed(m) == m.used /\ m.kind # "static_only"
Probe(i, t, size) == [model |-> i, temperature |-> t, size |-> size]
ModelProbes(c, i) ==
  IF ~Probed(c.models[i]) THEN {}
  ELSE {Probe(i, t, size) : t \in c.temperatures, size \in c.models[i].sizes}
\* A model that is to be probed and names no file, or no widths and lengths.
Unprobed(m) == Probed(m) /\ m.sizes = {}
\* A kind of probe nobody knows has no deck.
ProbeLogs == [current : {"printed", "zero", "missing"}, temperature : BOOLEAN, error : BOOLEAN, code : {0, 1}]
ProbeVerdict(c, probe, log) ==
  LET kind == c.models[probe.model].kind
  IN  /\ kind \in {"mos", "rr", "rs", "diode"}
      /\ log.current \in {"printed"} \cup IF kind \in {"rr", "rs"} THEN {} ELSE {"zero"}
      /\ log.temperature /\ ~log.error /\ log.code = 0
\* The low temperatures of the resistor: a contract that needs none is taken at
\* its word.
LowTemperatures(c) ==
  LET named == {i \in DOMAIN c.models : c.models[i].name = "F_RS"}
      first == CHOOSE i \in named : \A j \in named : i <= j
      low == {r \in results : r.case.model = first /\ r.case.temperature \in c.low}
  IN  CASE named = {} -> "FAIL"
        [] named # {} /\ c.extrapolation = "not_needed" -> "NOT_NEEDED"
        [] OTHER -> IF low # {} /\ AllPassed(low) THEN "PASS" ELSE "FAIL"
TemperatureStatus(c) ==
  LET static == {m \in ToSet(c.models) : m.used /\ m.kind = "static_only"}
      warned == {m.name : m \in {n \in ToSet(c.models) : ModelStatus(c, n) = "PASS_WITH_WARNINGS"}}
      hard == {m.name : m \in static} \ warned
  IN  IF ~c.tool \/ c.models = <<>> \/ (\E m \in ToSet(c.models) : Unprobed(m)) \/ ~AllPassed(results)
         \/ LowTemperatures(c) = "FAIL" THEN "FAIL"
      ELSE IF AuditStatus(c) \in {"INVALID", "INCOMPLETE", "ENGINEERING_ONLY"} \/ hard # {}
              \/ c.extrapolation \notin {"qualified", "not_needed"} THEN "ENGINEERING_ONLY"
      ELSE IF AuditStatus(c) = "PASS_WITH_WARNINGS" \/ static # {} THEN "PASS_WITH_WARNINGS" ELSE "PASS"
-----------------------------------------------------------------------------
(* run_variation_analysis.py                                                 *)
VariationRefused(c) ==
  \/ ~c.wellformed \/ ~c.tool
  \/ c.corners = <<>> \/ Repeated(c.corners)
  \/ c.voltages = {} \/ c.temperatures = {} \/ c.samples < 1
  \/ c.factors = <<>> \/ (\E f \in ToSet(c.factors) : ~(f.points[1] < f.points[2] /\ f.points[2] < f.points[3]))

\* A factor of the return path is computed, from a report if that is known; one of
\* SPICE with a key that is not known is given up at its first point.
Points(f) == IF f.evaluation = "spice" /\ f.known THEN 3 ELSE 0
Case(part, of, at) == [part |-> part, of |-> of, at |-> at]
PvtCases(c) == {Case("pvt", i, x) : i \in DOMAIN c.corners, x \in c.voltages \X c.temperatures}
SampleCases(c) == {Case("sample", n, <<>>) : n \in 1..c.samples}
FactorCases(c) ==
  UNION {{Case("factor", i, <<n>>) : n \in 1..Points(c.factors[i])} : i \in DOMAIN c.factors}
\* The corners come first, then the samples.
Rank(x) == CASE x.part = "pvt" -> 1 [] x.part = "sample" -> 2 [] OTHER -> 3
\* The current of the resistor is held against a limit, where there is one.
SimLogs == [current : {"printed", "beyond", "missing"}, temperature : BOOLEAN, error : BOOLEAN, code : {0, 1}]
SimVerdict(log) == log.current = "printed" /\ log.temperature /\ ~log.error /\ log.code = 0

PartPasses(part) == LET own == {r \in results : r.case.part = part}
                    IN  own # {} /\ AllPassed(own)
OfFactor(i) == {r \in results : r.case.part = "factor" /\ r.case.of = i}
\* Mutant of FactorPasses: a factor fails only if one of its points did.
FactorPassesUncounted(c, i) ==
  IF c.factors[i].evaluation = "return_path" THEN c.factors[i].known ELSE AllPassed(OfFactor(i))
FactorPasses(c, i) ==
  IF c.factors[i].evaluation = "return_path" THEN c.factors[i].known
  ELSE Cardinality(OfFactor(i)) = 3 /\ AllPassed(OfFactor(i))
VariationStatus(c) ==
  IF /\ PartPasses("pvt") /\ PartPasses("sample") /\ \A i \in DOMAIN c.factors : FactorPasses(c, i)
     /\ c.timing \in {"NOT_DECLARED", "PASS"}
  THEN "PASS_WITH_WARNINGS" ELSE "FAIL"

(* The model file of a case: the mobility of four cards is scaled. A line is  *)
(* [kind, group, u0]: the head of a card of a group ("" for any other card),  *)
(* a line that goes on with it, a comment, an empty line, or something else.  *)
\* Mutant of Leaves: a comment ends the card.
LeavesAtNote(line) == line.kind \in {"other", "note"}
Leaves(line) == line.kind = "other"
ActiveModel(lines, n) ==
  LET active[i \in 0..Len(lines)] ==
        IF i = 0 THEN ""
        ELSE IF lines[i].kind = "head" THEN lines[i].group
        ELSE IF Leaves(lines[i]) THEN "" ELSE active[i - 1]
  IN  active[n]
Scaled(lines, group) ==
  {n \in DOMAIN lines : lines[n].kind = "more" /\ lines[n].u0 /\ ActiveModel(lines, n) = group}
-----------------------------------------------------------------------------
Rejected(c) ==
  CASE c.runner = "pvt" -> PvtRefused(c)
    [] c.runner = "analog" -> AnalogRefused(c)
    [] c.runner = "temperature" -> FALSE
    [] c.runner = "variation" -> VariationRefused(c)
Cases(c) ==
  CASE c.runner \in {"pvt", "analog"} -> ToSet(c.cases)
    [] c.runner = "temperature" -> IF c.tool THEN UNION {ModelProbes(c, i) : i \in DOMAIN c.models} ELSE {}
    [] c.runner = "variation" -> PvtCases(c) \cup SampleCases(c) \cup FactorCases(c)
Logs(case) ==
  CASE Runner = "pvt" -> PvtLogs
    [] Runner = "analog" -> AnalogLogs(case)
    [] Runner = "temperature" -> ProbeLogs
    [] Runner = "variation" -> SimLogs
Verdict(case, log) ==
  CASE Runner = "pvt" -> PvtVerdict(case, log)
    [] Runner = "analog" -> AnalogVerdict(case, log)
    [] Runner = "temperature" -> ProbeVerdict(contract, case, log)
    [] Runner = "variation" -> SimVerdict(log)
Overall(c) ==
  CASE c.runner \in {"pvt", "analog"} -> IF results # {} /\ AllPassed(results) THEN "PASS" ELSE "FAIL"
    [] c.runner = "temperature" -> TemperatureStatus(c)
    [] c.runner = "variation" -> VariationStatus(c)

EvidenceInit == contract \in Contracts /\ todo = {} /\ results = {} /\ status = "checking"

\* Cases of one kind come in some order, which no verdict tells apart.
NextCase == CHOOSE x \in todo : Runner = "variation" => \A y \in todo : Rank(x) <= Rank(y)

\* A contract with errors is reported as blocked and nothing is run.
Check ==
  /\ status = "checking"
  /\ IF Rejected(contract) THEN status' = "BLOCKED" /\ UNCHANGED todo
     ELSE status' = "running" /\ todo' = Cases(contract)
  /\ UNCHANGED <<contract, results>>

\* What nobody catches: a contract without runtime temperatures, or without low
\* ones where they are needed; bounds that ten thousand samples miss; a timing
\* report that is no JSON. No report is written, an earlier one stays.
Raises ==
  \/ Runner = "temperature" /\ status = "checking" /\ contract.temperatures = {}
  \/ Runner = "temperature" /\ status = "running" /\ todo = {} /\ contract.low = {}
     /\ contract.tool /\ contract.extrapolation # "not_needed" /\ (\E m \in ToSet(contract.models) : m.name = "F_RS")
  \/ Runner = "variation" /\ status = "running" /\ ~contract.samplable /\ todo # {}
     /\ NextCase.part = "sample"
  \/ Runner = "variation" /\ status = "running" /\ todo = {} /\ contract.timing = "unreadable"
Raise == Raises /\ status' = "raised" /\ UNCHANGED <<contract, todo, results>>

RunCase ==
  /\ status = "running" /\ todo # {} /\ ~Raises
  /\ \E log \in Logs(NextCase) :
       results' = results \cup {[case |-> NextCase, passed |-> Verdict(NextCase, log)]}
  /\ todo' = todo \ {NextCase}
  /\ UNCHANGED <<contract, status>>

Report ==
  /\ status = "running" /\ todo = {} /\ ~Raises
  /\ status' = Overall(contract)
  /\ UNCHANGED <<contract, todo, results>>

EvidenceNext == (Check /\ ~Raises) \/ Raise \/ RunCase \/ Report
EvidenceSpec == EvidenceInit /\ [][EvidenceNext]_evidenceVars
-----------------------------------------------------------------------------
Passing == status \in {"PASS", "PASS_WITH_WARNINGS"}

\* Timing that passed holds in a corner of every required role and at both ends of
\* the operating range, whatever became of the logs, and an analog result that
\* passed keeps every measure within its bounds and every assertion of size
\* below its limit less the margin and within what its width carries.
PassIsEvidence ==
  /\ Passing /\ Runner = "pvt" =>
       LET clean == {corner \in ToSet(contract.cases) : corner.bad = {}}
       IN  /\ \A role \in RequiredRoles(contract) : \E corner \in clean : corner.role = role
           /\ \A t \in RequiredTemperatures(contract) : \E corner \in clean : t \in corner.temperature
           /\ ToSet(contract.cases) \subseteq clean
           /\ contract.evidence \/ Covers(contract.rs, contract.operating)
  /\ Passing /\ Runner = "analog" =>
       \A case \in ToSet(contract.cases) :
         /\ \A m \in ToSet(case.measures) : m.min <= m.value /\ m.value <= m.max
         /\ \A a \in ToSet(case.assertions) : a.mode = "absolute" =>
              /\ \A value \in a.low..a.high : 100 * Size(value) < a.limit * (100 - a.margin)
              /\ a.width > 0 => Largest(a) <= a.width * a.density

\* What counts as simulated has been: every model in use at every temperature and
\* size, unless its contract says that it cannot be and warns of it, here or under
\* another entry of its name; every corner, sample and point of every factor of a
\* variation.
PassIsWhole ==
  LET passed(case) == \E r \in results : r.case = case /\ r.passed
  IN  /\ Passing /\ Runner = "temperature" =>
           \A i \in DOMAIN contract.models : LET m == contract.models[i] IN
             /\ m.sound /\ (Limited(contract, m) => m.policy = "warning_only")
             /\ m.used => \/ m.kind = "static_only" /\ \E n \in ToSet(contract.models) : n.name = m.name /\ Limited(contract, n)
                          \/ m.sizes # {} /\ \A t \in contract.temperatures, size \in m.sizes : passed(Probe(i, t, size))
      /\ Passing /\ Runner = "variation" =>
           /\ \A i \in DOMAIN contract.corners, x \in contract.voltages \X contract.temperatures :
                passed(Case("pvt", i, x))
           /\ \A n \in 1..contract.samples : passed(Case("sample", n, <<>>))
           /\ \A i \in DOMAIN contract.factors : contract.factors[i].evaluation = "spice" =>
                \A n \in 1..3 : passed(Case("factor", i, <<n>>))

\* The mobility of a card is scaled wherever its lines go on, comments and empty
\* lines between them or not, and that of no other card: otherwise a corner
\* is simulated that is not the one reported (transform_mos_model).
EveryMobilityIsScaled ==
  Runner = "variation" =>
    LET lines == contract.model
        own(h, n) == h < n /\ lines[h].kind = "head" /\ \A i \in (h + 1)..n : lines[i].kind \in {"more", "note", "blank"}
    IN  \A group \in {"n", "p"} :
          Scaled(lines, group) = {n \in DOMAIN lines : lines[n].kind = "more" /\ lines[n].u0
                                    /\ \E h \in DOMAIN lines : own(h, n) /\ lines[h].group = group}
=============================================================================
