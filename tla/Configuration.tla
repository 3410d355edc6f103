--------------------------- MODULE Configuration ---------------------------
(* Config.load of the LibreLane fork: configuration files one over the      *)
(* other, the PDK's values below, the command line's on top, deprecated      *)
(* names, references and "pdk::" sections in between; and what is done with  *)
(* the result, loading it again for a step and adding to it step by step.    *)
(*                                                                           *)
(* A value is what is meant and the form it is given in: text where the      *)
(* variable is not a string must be converted, which only permissive typing  *)
(* does.                                                                     *)
EXTENDS Integers, SequencesExt

CONSTANTS
  Vars,        \* the flow's variables: [name, old, pdk, optional, string, default]
  Known,       \* names of other flows' variables
  PdkGives,    \* for each PDK, what its configuration files set
  FileSets,    \* sequences of files: [version, items]
  Arguments,   \* [pdk, overrides]: the command line
  Inputs       \* what with_increment may be given

\* No name, of today or of yesterday, stands for two variables.
ASSUME VarsAssumption ==
  /\ \A v, w \in ToSet(Vars) : v # w => ({v.name} \cup ToSet(v.old)) \cap ({w.name} \cup ToSet(w.old)) = {}
  /\ \A v \in ToSet(Vars) : v.name \in STRING \ {""} /\ v.old \in Seq(STRING \ {"", v.name})
  /\ "PDK" \in {v.name : v \in ToSet(Vars)} /\ "DIODE_INSERTION_STRATEGY" \notin {v.name : v \in ToSet(Vars)}
\* What with_increment is given goes by the names of today.
ASSUME InputsAssumption == \A inputs \in Inputs : DOMAIN inputs \subseteq {v.name : v \in ToSet(Vars)}

VARIABLES files, argument, loaded, config, outcome, again
vars == <<files, argument, loaded, config, outcome, again>>

Typed(x) == [x |-> x, text |-> FALSE]
Text(x) == [x |-> x, text |-> TRUE]
Null == Typed("null")
NoPdk == Text("")
Value(key, value) == [kind |-> "value", key |-> key, value |-> value]
Expr(key, of) == [kind |-> "expr", key |-> key, of |-> of]
Section(pdks, items) == [kind |-> "section", pdks |-> pdks, items |-> items]

Names == {v.name : v \in ToSet(Vars)}
Without(m, keys) == [k \in DOMAIN m \ keys |-> m[k]]
Only(key, value) == [k \in {key} |-> value]
Laid(items, below) == [k \in DOMAIN items \cup DOMAIN below |-> IF k \in DOMAIN items THEN items[k] ELSE below[k]]
Bool(b) == Typed(IF b THEN "true" ELSE "false")
-----------------------------------------------------------------------------
(* References and sections, in the order of the file.                        *)
Put(s, item) ==
  IF item.kind = "value" THEN [s EXCEPT !.map = Laid(Only(item.key, item.value), s.map)]
  ELSE IF item.of \notin DOMAIN s.map \/ s.map[item.of].text \/ s.map[item.of] = Null THEN [s EXCEPT !.ok = FALSE]
  ELSE [s EXCEPT !.map = Laid(Only(item.key, s.map[item.of]), s.map)]

PutItem(s, item) ==
  IF item.kind # "section" THEN Put(s, item)
  ELSE LET after[n \in 0..Len(item.items)] == IF n = 0 THEN s ELSE Put(after[n - 1], item.items[n])
       IN  IF s.map["PDK"].x \in item.pdks THEN after[Len(item.items)] ELSE s

\* The keys an earlier file has set are kept, but those set again move to the end;
\* what is kept are plain values, put before the items are looked at.
Keys(items) == {item.key : item \in {i \in ToSet(items) : i.kind # "section"}}
UpdateReorder(m, items) == [kept |-> Without(m, Keys(items)), items |-> items]

Preprocess(raw, pdk) ==
  LET after[n \in 0..Len(raw.items)] == IF n = 0 THEN [map |-> Laid(raw.kept, Only("PDK", pdk)), ok |-> TRUE]
                                        ELSE PutItem(after[n - 1], raw.items[n])
  IN  after[Len(raw.items)]
-----------------------------------------------------------------------------
(* Variable.compile and __process_variable_list.                             *)
Given(names, m) ==
  LET given == {n \in DOMAIN names : names[n] \in DOMAIN m} IN IF given = {} THEN "" ELSE names[Min(given)]
\* Mutant of UsedName: the variable's own name goes first.
UsedOwnName(v, m) == Given(<<v.name>> \o v.old, m)
UsedName(v, m) == Given(v.old \o <<v.name>>, m)

\* The text "null" is a value of a string only.
Convert(v, value, permissive) ==
  IF value.x = "bad" \/ (~v.string /\ (value.x = "null" \/ (value.text /\ ~permissive))) THEN [is |-> "error"]
  ELSE [is |-> "value", value |-> [x |-> value.x, text |-> v.string]]

Compiled(v, given, there, permissive) ==
  IF there /\ given # Null THEN Convert(v, given, permissive)
  ELSE IF ~there /\ v.default # Null THEN Convert(v, v.default, permissive)
  ELSE IF v.optional THEN [is |-> "value", value |-> Null]
  ELSE [is |-> IF there THEN "error" ELSE "missing"]

Compile(v, m, permissive) ==
  LET used == UsedName(v, m)
  IN  Compiled(v, IF used = "" THEN Null ELSE m[used], used # "", permissive)

\* DIODE_INSERTION_STRATEGY stands for variables of today, one by its old name. (That a
\* negative number is taken for 0 is left out.)
Strategy(m) == "DIODE_INSERTION_STRATEGY" \in DOMAIN m /\ m["DIODE_INSERTION_STRATEGY"] # Null
StrategyFits(m) == Strategy(m) => m["DIODE_INSERTION_STRATEGY"].x \in {"0", "3", "4", "6"}
ByStrategy(dis) ==
  [k \in {"GRT_REPAIR_ANTENNAS", "RUN_HEURISTIC_DIODE_INSERTION", "DIODE_ON_PORTS"} |->
     CASE k = "GRT_REPAIR_ANTENNAS" -> Bool(dis \in {"3", "6"})
       [] k = "RUN_HEURISTIC_DIODE_INSERTION" -> Bool(dis \in {"4", "6"})
       [] OTHER -> Text(IF dis \in {"4", "6"} THEN "in" ELSE "none")]
Translated(m) ==
  IF ~Strategy(m) THEN m
  ELSE LET rest == Without(m, {"DIODE_INSERTION_STRATEGY"})
       IN  IF StrategyFits(m) THEN Laid(ByStrategy(m["DIODE_INSERTION_STRATEGY"].x), rest) ELSE rest

\* V is the set of variables that are processed.
Process(m, V, unknown, permissive, missingOk) ==
  LET n == Translated(m)
      Of(v) == Compile(v, n, permissive)
      by == [name \in {v.name : v \in {u \in V : Of(u).is = "value"}} |->
               Of(CHOOSE v \in V : v.name = name).value]
      taken == {UsedName(v, n) : v \in {u \in V : Of(u).is = "value"}} \cup {v.name : v \in V}
      left == DOMAIN n \ (taken \cup Known \cup {"PDK"} \cup UNION {ToSet(v.old) : v \in V})
  IN  [map |-> by,
       ok |-> /\ StrategyFits(m)
              /\ \A v \in V : Of(v).is = "value" \/ (Of(v).is = "missing" /\ missingOk)
              /\ unknown = "error" => left = {}]
-----------------------------------------------------------------------------
(* The PDK's configuration files, in today's names.                          *)
RulesRenamed(m) ==
  IF "RCX_RULES" \notin DOMAIN m THEN m
  ELSE LET rest == Without(m, {"RCX_RULES"})
       IN  IF "RCX_RULESETS" \in DOMAIN m THEN rest ELSE Laid(Only("RCX_RULESETS", m["RCX_RULES"]), rest)
LoadRenamed(m) ==
  IF "SYNTH_CAP_LOAD" \notin DOMAIN m THEN m
  ELSE Laid(Only("OUTPUT_CAP_LOAD", m["SYNTH_CAP_LOAD"]), Without(m, {"SYNTH_CAP_LOAD"}))
Implied(m, keys) == Laid(m, [k \in keys |-> Text("implied")])
MigrateOldConfig(m) ==
  Implied(LoadRenamed(RulesRenamed(m)), {"CELL_VERILOG_MODELS"})

AllVars == ToSet(Vars)
PdkVars == {v \in AllVars : v.pdk}
PdkConfig(pdk) ==
  LET r == Process(MigrateOldConfig(PdkGives[pdk]), PdkVars, "ignore", TRUE, FALSE)
  IN  [map |-> Laid(Only("PDK", Text(pdk)), r.map), ok |-> r.ok]
-----------------------------------------------------------------------------
(* __load_dict: the process is looked for in a first pass over the items,    *)
(* in which no PDK is known but by a key that has come by already.           *)
Failed == [ok |-> FALSE, map |-> Only("PDK", NoPdk)]
LoadDict(raw, pdk, first, permissive, missingOk) ==
  LET info == Preprocess(raw, NoPdk)
      named == info.map["PDK"]
      chosen == IF named # NoPdk THEN named ELSE pdk
      below == IF first THEN PdkConfig(chosen.x) ELSE [ok |-> TRUE, map |-> Only("PDK", chosen)]
      items == Preprocess(raw, chosen)
  IN  IF \/ ~info.ok \/ (first /\ (chosen = NoPdk \/ chosen.x \notin DOMAIN PdkGives))
         \/ ~below.ok \/ ~items.ok
      THEN Failed
      ELSE Process(Laid(items.map, below.map), AllVars,
                   IF permissive THEN "warn" ELSE "error", permissive, missingOk)

Items(m) == UpdateReorder(m, <<>>)
Overridden(m, overrides) == Laid(overrides, m)
Permissive(file) == file.version < 2

\* A file that holds the configuration itself: resolved.json, a step's config.json.
Reloaded(m) ==
  LET once == LoadDict(Items(m), NoPdk, FALSE, FALSE, TRUE)
      twice == LoadDict(Items(once.map), NoPdk, FALSE, TRUE, FALSE)
  IN  IF once.ok THEN twice ELSE once

\* with_increment takes everything as it is: no references, no conversion.
\* Mutant of Incremented: the PDK's values are fetched anew and laid on top.
IncrementedPdkOnTop(m, inputs) ==
  Process(Laid(inputs, Laid(PdkConfig(m["PDK"].x).map, m)), AllVars, "ignore", FALSE, FALSE)
Incremented(m, inputs) ==
  Process(Laid(inputs, Laid(m, PdkConfig(m["PDK"].x).map)), AllVars, "ignore", FALSE, FALSE)
-----------------------------------------------------------------------------
Init == /\ files \in FileSets
        /\ argument \in Arguments
        /\ loaded = 0
        /\ config = Only("PDK", NoPdk)
        /\ outcome = "loading"
        /\ again = {}

Take(r, n) == /\ loaded' = n
              /\ config' = IF r.ok THEN r.map ELSE config
              /\ UNCHANGED <<files, argument, again>>

\* One turn of the loop over the files; the PDK is read with the first only.
LoadFile ==
  /\ outcome = "loading"
  /\ loaded < Len(files)
  /\ LET file == files[loaded + 1]
         sofar == IF loaded = 0 THEN <<>> ELSE config
         r == LoadDict(UpdateReorder(sofar, file.items), argument.pdk, loaded = 0, Permissive(file), TRUE)
     IN  /\ Take(r, loaded + 1)
         /\ outcome' = IF r.ok THEN "loading" ELSE "refused"

Override ==
  /\ outcome = "loading"
  /\ loaded = Len(files)
  /\ LET r == LoadDict(Items(Overridden(config, argument.overrides)), argument.pdk, FALSE, TRUE, FALSE)
     IN  /\ Take(r, loaded)
         /\ outcome' = IF r.ok THEN "done" ELSE "refused"

Reload ==
  /\ outcome = "done"
  /\ again' = {Reloaded(config)}
  /\ outcome' = "reloaded"
  /\ UNCHANGED <<files, argument, loaded, config>>

Increment ==
  /\ outcome = "done"
  /\ \E inputs \in Inputs :
       LET r == Incremented(config, inputs)
       IN  /\ again' = {[map |-> Laid(inputs, r.map), ok |-> r.ok], r}
           /\ outcome' = IF r.ok THEN "incremented" ELSE "refused"
  /\ UNCHANGED <<files, argument, loaded, config>>

ConfigNext == LoadFile \/ Override \/ Reload \/ Increment
ConfigSpec == Init /\ [][ConfigNext]_vars
-----------------------------------------------------------------------------
\* Loading a configuration that was written out gives it back, and adding to it
\* changes what is added and nothing else (Step.load_config_from_file,
\* Config.with_increment): validating twice is validating once.
ReloadIsIdentity ==
  /\ outcome = "reloaded" => again = {[ok |-> TRUE, map |-> config]}
  /\ outcome = "incremented" =>
       \E inputs \in Inputs : \A r \in again :
         \A v \in ToSet(Vars) : r.map[v.name].x = Overridden(config, inputs)[v.name].x
=============================================================================
