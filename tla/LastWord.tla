------------------------------ MODULE LastWord ------------------------------
(* What a configuration should be, said of one variable at a time: the value *)
(* given last, under whatever name, in a file or on the command line; else   *)
(* the PDK's; else the default.                                              *)
EXTENDS Configuration

Layers == Len(files) + 1
LayerItems(k) ==
  IF k <= Len(files) THEN files[k].items
  ELSE LET keys == SetToSeq(DOMAIN argument.overrides)
       IN  [n \in DOMAIN keys |-> Value(keys[n], argument.overrides[keys[n]])]
NamesPdk(k) == {i \in 1..Len(LayerItems(k)) : /\ LayerItems(k)[i].kind = "value"
                                              /\ LayerItems(k)[i].key = "PDK"}
PdkAt(k) ==
  LET said == {j \in 1..k : NamesPdk(j) # {}}
  IN  IF said = {} THEN argument.pdk
      ELSE LET j == Max(said) IN LayerItems(j)[Max(NamesPdk(j))].value
Flat(k) ==
  LET Open(item) == CASE item.kind # "section" -> <<item>>
                      [] PdkAt(k).x \in item.pdks -> item.items
                      [] OTHER -> <<>>
  IN  FlattenSeq([i \in 1..Len(LayerItems(k)) |-> Open(LayerItems(k)[i])])

Below(v) ==
  LET given == MigrateOldConfig(PdkGives[PdkAt(1).x])
      used == UsedName(v, given)
  IN  CASE v.name = "PDK" -> argument.pdk
        [] v.pdk /\ used # "" -> given[used]
        [] OTHER -> v.default

\* The strategy speaks for three variables, and louder than they do: for one it is
\* of an old name, for the others of today's.
OfStrategy(v) ==
  ({v.name} \cup ToSet(v.old)) \cap {"GRT_REPAIR_ANTENNAS", "RUN_HEURISTIC_DIODE_INSERTION", "DIODE_ON_PORTS"} # {}
StrategySays(v, dis) ==
  CASE v.name = "DIODE_ON_PORTS" -> Text(IF dis \in {"4", "6"} THEN "in" ELSE "none")
    [] v.name = "RUN_HEURISTIC_DIODE_INSERTION" -> Bool(dis \in {"4", "6"})
    [] OTHER -> Bool(dis \in {"3", "6"})

\* items are the items of a layer, layers those of all of them.
Spoken(v, items) ==
  LET at(key) == {i \in DOMAIN items : items[i].key = key}
      byStrategy == IF OfStrategy(v) THEN at("DIODE_INSERTION_STRATEGY") ELSE {}
      names == SelectSeq(v.old \o <<v.name>>, LAMBDA n : at(n) # {})
  IN  IF byStrategy # {} THEN Max(byStrategy)
      ELSE IF names = <<>> THEN 0 ELSE Max(at(names[1]))

RECURSIVE Said(_, _, _, _), LastSaid(_, _, _)
Said(key, layers, k, i) ==
  LET before == {j \in 1..(i - 1) : layers[k][j].key = key}
  IN  IF before = {} THEN LastSaid(CHOOSE v \in ToSet(Vars) : v.name = key, layers, k - 1)
      ELSE LET item == layers[k][Max(before)]
           IN  IF item.kind = "value" THEN item.value ELSE Said(item.of, layers, k, Max(before))

LastSaid(v, layers, k) ==
  IF k = 0 THEN Below(v)
  ELSE LET i == Spoken(v, layers[k])
           item == layers[k][i]
       IN  CASE i = 0 -> LastSaid(v, layers, k - 1)
             [] i # 0 /\ item.key = "DIODE_INSERTION_STRATEGY" ->
                  StrategySays(v, item.value.x)
             [] i # 0 /\ item.kind = "value" -> item.value
             [] OTHER -> Said(item.of, layers, k, i)

\* A configuration that was accepted holds, for every variable of the flow,
\* the last thing that was said of it, however many files, sections, old names
\* and references it took to say it (Config.load, Variable.compile).
LastWordWins ==
  LET layers == [k \in 1..Layers |-> Flat(k)]
  IN  outcome = "done" => /\ DOMAIN config = Names
                          /\ \A v \in ToSet(Vars) : config[v.name].x = LastSaid(v, layers, Layers).x
=============================================================================
