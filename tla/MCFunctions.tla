---------------------------- MODULE MCFunctions ----------------------------
EXTENDS LastWord, Expressions, Evidence

Variable(name, old, pdk, optional, string, default) ==
  [name |-> name, old |-> old, pdk |-> pdk, optional |-> optional, string |-> string, default |-> default]
MCVars == <<Variable("PDK", <<>>, FALSE, FALSE, TRUE, Text("p")),
            Variable("CLOCK_PERIOD", <<>>, FALSE, FALSE, FALSE, Null),
            Variable("RCX_RULESETS", <<>>, TRUE, FALSE, FALSE, Null),
            Variable("OUTPUT_CAP_LOAD", <<"SYNTH_CAP_LOAD">>, TRUE, TRUE, FALSE, Null),
            Variable("RUN_ANTENNA_REPAIR", <<"GRT_REPAIR_ANTENNAS">>, FALSE, FALSE, FALSE, Bool(TRUE)),
            Variable("RUN_HEURISTIC_DIODE_INSERTION", <<>>, FALSE, FALSE, FALSE, Bool(FALSE)),
            Variable("DIODE_ON_PORTS", <<>>, FALSE, FALSE, TRUE, Text("none")),
            Variable("MAX_FANOUT", <<>>, FALSE, TRUE, FALSE, Typed("16"))>>
MCKnown == {"ELSEWHERE"}
MCPdkGives == "p" :> ("RCX_RULES" :> Text("one") @@ "OUTPUT_CAP_LOAD" :> Text("two"))
           @@ "q" :> ("RCX_RULESETS" :> Text("three") @@ "RCX_RULES" :> Text("four")
                      @@ "SYNTH_CAP_LOAD" :> Text("five"))
           @@ "unfit" :> ("OUTPUT_CAP_LOAD" :> Text("six"))
Some == {Value("DIODE_ON_PORTS", Text("both")), Value("GRT_REPAIR_ANTENNAS", Bool(FALSE)), Value("RUN_ANTENNA_REPAIR", Bool(TRUE)),
         Value("DIODE_INSERTION_STRATEGY", Typed("6")), Value("DIODE_INSERTION_STRATEGY", Typed("1")),
         Value("MAX_FANOUT", Null), Value("MAX_FANOUT", Text("5")), Value("MAX_FANOUT", Text("null")),
         Section({"p"}, <<Value("MAX_FANOUT", Typed("7"))>>),
         Section({"q"}, <<Value("OUTPUT_CAP_LOAD", Typed("8"))>>),
         Expr("OUTPUT_CAP_LOAD", "CLOCK_PERIOD"), Expr("MAX_FANOUT", "OUTPUT_CAP_LOAD"),
         Value("CLOCK_PERIOD", Null), Value("CLOCK_PERIOD", Typed("20")),
         Value("ELSEWHERE", Typed("1")), Value("NOWHERE", Typed("1"))}
Distinct(items) == Cardinality(Keys(items)) = Cardinality({i \in 1..Len(items) : items[i].kind # "section"})
Start == Value("CLOCK_PERIOD", Typed("10"))
Firsts == {items \in {<<Start>>, <<Value("PDK", Text("q")), Start>>}
                     \cup {<<Start, a>> : a \in Some} \cup {<<a, Start>> : a \in Some}
                     \cup {<<a, b>> : a \in Some, b \in Some} : Distinct(items)}
Seconds == {<<>>} \cup {<<a>> : a \in Some} \cup {<<Value("PDK", Text("q")), a>> : a \in Some}
File(version, items) == [version |-> version, items |-> items]
MCFileSets == {<<File(v, a)>> : v \in {1, 2}, a \in Firsts}
              \cup {<<File(2, a), File(v, b)>> : v \in {1, 2}, a \in Firsts, b \in Seconds}
MCArguments == {[pdk |-> Text(p), overrides |-> <<>>] : p \in {"", "p", "q", "unfit", "absent"}}
               \cup {[pdk |-> Text("p"), overrides |-> o] :
                       o \in {"MAX_FANOUT" :> Text("9"), "GRT_REPAIR_ANTENNAS" :> Text("false")}}
MCInputs == {<<>>, "MAX_FANOUT" :> Typed("11"), "CLOCK_PERIOD" :> Text("12")}
-----------------------------------------------------------------------------
(* Contracts of the four runners, one thing after the other wrong with them.  *)
\* The record r with each of some fields changed.
Changed(r, changes) == {[f \in DOMAIN r |-> IF f \in DOMAIN x THEN x[f] ELSE r[f]] : x \in changes}
Corner(name, role, t, bad) == [name |-> name, role |-> role, temperature |-> t, bad |-> bad]
Corners(bad) == <<Corner("a", "slow", {85}, {}), Corner("b", "typ", {}, bad), Corner("c", "fast", {27}, {})>>
Pvt == [runner |-> "pvt", wellformed |-> TRUE, tool |-> TRUE, operating |-> <<27, 85>>, rs |-> <<25, 150>>,
        extrapolation |-> "not_needed", evidence |-> FALSE, temperatures |-> {}, roles |-> {}, cases |-> Corners({})]
PvtContracts ==
  Changed(Pvt, {("cases" :> Corners(bad)) : bad \in {{}} \cup {{Sections[i]} : i \in 1..5}}
    \cup {("tool" :> FALSE), ("wellformed" :> FALSE), ("cases" :> <<>>), ("roles" :> {"slow", "hot"}), ("temperatures" :> {50}),
          ("rs" :> <<30, 150>>), ("rs" :> <<30, 150>> @@ "extrapolation" :> "qualified"),
          ("rs" :> <<30, 150>> @@ "extrapolation" :> "qualified" @@ "evidence" :> TRUE),
          ("cases" :> <<Corner("a", "slow", {85}, {}), Corner("a", "fast", {27}, {})>> @@ "roles" :> {"slow"}),
          ("cases" :> <<Corner("a", "slow", {85}, {"drc"}), Corner("b", "fast", {27}, {})>> @@ "roles" :> {"fast"}),
          ("cases" :> <<Corner("a", "slow", {90}, {}), Corner("b", "fast", {27}, {})>> @@ "roles" :> {"slow", "fast"})})
Assertion(mode, low, high, width) ==
  [mode |-> mode, low |-> low, high |-> high, limit |-> 10, margin |-> 20, width |-> width, density |-> 4]
Deck(name, control, found, assertions) ==
  [name |-> name, control |-> control, sweeps |-> {"process", "voltage"}, assertions |-> assertions,
   measures |-> <<[value |-> found, min |-> 1, max |-> 3], [value |-> 0, min |-> 0, max |-> 0]>>]
Analog == [runner |-> "analog", wellformed |-> TRUE, tool |-> TRUE, axes |-> {"process"}, cases |-> <<>>]
AnalogContracts ==
  Changed(Analog, {("axes" :> {"process"}), ("wellformed" :> FALSE)}
    \cup {("cases" :> <<Deck("one", control, found, <<Assertion(mode, low, high, width)>>)>>) :
            control \in BOOLEAN, found \in {0, 1, 3, 4}, mode \in {"absolute", "signed"}, low \in {-8, -7, 0},
            high \in {0, 7, 8}, width \in {0, 1, 2}}
    \cup {("cases" :> <<Deck("one", FALSE, 2, <<Assertion("absolute", 0, 4, 1)>>), Deck(name, FALSE, 2, more)>> @@ "axes" :> axes) :
            name \in {"one", "two"}, more \in {<<>>, <<Assertion("signed", -9, 1, 0)>>}, axes \in {{"process"}, {"load"}}})
Model(name, used, kind, sizes, policy, behavior, sound, range) ==
  [name |-> name, used |-> used, kind |-> kind, sizes |-> sizes, policy |-> policy, behavior |-> behavior,
   sound |-> sound, characterized |-> range]
Resistor == Model("F_RS", TRUE, "rs", {1, 2}, "blocker", "explicit", TRUE, <<-40, 150>>)
Temperature ==
  [runner |-> "temperature", wellformed |-> TRUE, tool |-> TRUE, reconciled |-> TRUE, reference |-> <<27, 27>>,
   operating |-> <<0, 85>>, guaranteed |-> <<0, 85>>, validation |-> {0, 85}, temperatures |-> {0, 25}, low |-> {0},
   extrapolation |-> "qualified", models |-> <<Resistor>>]
TemperatureContracts ==
  Changed(Temperature, {("models" :> <<Resistor, Model("M", used, kind, sizes, policy, behavior, sound, range)>>) :
            used \in BOOLEAN, kind \in {"mos", "static_only", "other"}, sizes \in {{}, {1}},
            policy \in {"blocker", "warning_only"}, behavior \in {"explicit", "missing"}, sound \in BOOLEAN,
            range \in {<<-40, 150>>, <<25, 150>>}}
    \cup {("tool" :> FALSE), ("wellformed" :> FALSE), ("reference" :> <<27, 25>>), ("guaranteed" :> <<10, 85>>),
          ("validation" :> {90}), ("temperatures" :> {}), ("low" :> {}), ("low" :> {} @@ "extrapolation" :> "not_needed"),
          ("low" :> {-40}), ("extrapolation" :> "blocked"), ("models" :> <<>>), ("reconciled" :> FALSE),
          ("models" :> <<Resistor, Model("M", TRUE, "static_only", {}, "blocker", "explicit", TRUE, <<-40, 150>>),
                         Model("M", FALSE, "static_only", {}, "warning_only", "missing", TRUE, <<-40, 150>>)>>),
          ("models" :> <<Model("D", TRUE, "diode", {1}, "blocker", "implicit", TRUE, <<-40, 150>>)>>)})
Factor(evaluation, known, points) == [evaluation |-> evaluation, known |-> known, points |-> points]
Line(kind, group, u0) == [kind |-> kind, group |-> group, u0 |-> u0]
Lines == {Line("head", g, FALSE) : g \in {"n", "p", ""}} \cup {Line("more", "", u) : u \in BOOLEAN}
         \cup {Line(k, "", FALSE) : k \in {"note", "blank", "other"}}
Variation ==
  [runner |-> "variation", wellformed |-> TRUE, tool |-> TRUE, corners |-> <<"tt", "ff">>, voltages |-> {5},
   temperatures |-> {0, 85}, samples |-> 1, samplable |-> TRUE, factors |-> <<Factor("spice", TRUE, <<1, 2, 3>>)>>,
   timing |-> "NOT_DECLARED", model |-> <<>>]
VariationContracts ==
  Changed(Variation, {("timing" :> x) : x \in {"NOT_DECLARED", "PASS", "FAIL", "unreadable"}}
    \cup {("tool" :> FALSE), ("samplable" :> FALSE), ("samples" :> 0), ("corners" :> <<"tt", "tt">>), ("factors" :> <<>>),
          ("factors" :> <<Factor("spice", TRUE, <<2, 2, 3>>)>>), ("factors" :> <<Factor("spice", FALSE, <<1, 2, 3>>)>>),
          ("factors" :> <<Factor("return_path", FALSE, <<1, 2, 3>>)>>),
          ("factors" :> <<Factor("return_path", TRUE, <<1, 2, 3>>), Factor("spice", TRUE, <<1, 2, 3>>)>>)}
    \cup {("model" :> lines @@ "wellformed" :> FALSE) : lines \in [1..3 -> Lines]})
MCContracts == PvtContracts \cup AnalogContracts \cup TemperatureContracts \cup VariationContracts

-----------------------------------------------------------------------------
(* One case at a time: a configuration is loaded, an expression evaluated or  *)
(* a contract run.                                                            *)
NoCase == [pdk |-> NoPdk, overrides |-> <<>>]
NothingLoaded == files = <<>> /\ argument = NoCase /\ loaded = 0 /\ config = <<>> /\ outcome = "idle" /\ again = {}
NothingEvaluated == expression = [src |-> <<>>, value |-> Refused] /\ value = Unread
NothingRun == contract = [runner |-> "none"] /\ todo = {} /\ results = {} /\ status = "idle"
MCInit == \/ Init /\ NothingEvaluated /\ NothingRun
          \/ NothingLoaded /\ ExprInit /\ NothingRun
          \/ NothingLoaded /\ NothingEvaluated /\ EvidenceInit
LoadingNext == ConfigNext /\ UNCHANGED <<exprVars, evidenceVars>>
EvaluatingNext == expression.src # <<>> /\ EvaluateIt /\ UNCHANGED <<vars, evidenceVars>>
RunningNext == EvidenceNext /\ UNCHANGED <<vars, exprVars>>
MCNext == LoadingNext \/ EvaluatingNext \/ RunningNext
MCSpec == MCInit /\ [][MCNext]_<<vars, exprVars, evidenceVars>>
=============================================================================
