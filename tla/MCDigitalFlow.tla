--------------------------- MODULE MCDigitalFlow ---------------------------
(* One design and run tag, under thirteen configurations of the flow; two  *)
(* are those of the designs made with the signal-access library, without   *)
(* and with a script that retouches the stream.                            *)
EXTENDS DigitalCore

MCProfiles == {"all", "default", "vhdl", "no_spef", "no_stream", "no_klayout_drc",
               "unchecked", "no_routing", "chip", "eco", "access", "retouched", "retouched_access"}
InAccess == {"access", "retouched_access"}
MCSubs == [p \in MCProfiles |-> CASE p = "vhdl" -> VHDLSubstitutions
                                  [] p = "chip" -> ChipSubstitutions
                                  [] p = "eco" -> EcoSubstitutions
                                  [] p \in InAccess -> AccessSubstitutions
                                  [] OTHER -> <<>>]
MCOff == [p \in MCProfiles |->
  CASE p = "all" -> {}
    [] p = "no_spef" -> OffByDefault \cup {"RUN_SPEF_EXTRACTION"}
    [] p = "no_stream" -> OffByDefault \cup {"RUN_KLAYOUT_STREAMOUT"}
    [] p = "no_klayout_drc" -> OffByDefault \cup {"RUN_KLAYOUT_DRC"}
    [] p = "unchecked" -> OffByDefault \cup {"RUN_MCSTA", "RUN_LVS"}
    [] p = "no_routing" -> OffByDefault \cup {"RUN_DRT", "RUN_FILL_INSERTION"}
    [] p = "eco" -> OffByDefault \cup {"RUN_POST_CTS_RESIZER_TIMING"}
    [] p \in InAccess -> OffByDefault \cup
         {"RUN_PDN", "RUN_CTS", "RUN_FILL_INSERTION", "RUN_POST_GPL_DESIGN_REPAIR",
          "RUN_ANTENNA_REPAIR", "RUN_MAGIC_STREAMOUT", "RUN_MAGIC_DRC", "RUN_LVS", "RUN_MCSTA"}
    [] OTHER -> OffByDefault]
MCGiven == [p \in MCProfiles |->
  {"CLOCK_PORT", "DIODE_CELL", "KLAYOUT_DRC_RUNSET", "MAGIC_DRC_USE_GDS"} \cup
  CASE p = "all" -> {"MACROS", "DIODE_ON_PORTS", "ROUTING_OBSTRUCTIONS", "PDN_OBSTRUCTIONS",
                     "FP_DEF_TEMPLATE", "IO_PIN_ORDER_CFG", "MANUAL_GLOBAL_PLACEMENT",
                     "WIRE_LENGTH_THRESHOLD"}
    [] p = "chip" -> {"KLAYOUT_SEALRING_SCRIPT", "KLAYOUT_FILLER_SCRIPT",
                      "KLAYOUT_DENSITY_RUNSET", "KLAYOUT_ANTENNA_RUNSET"}
    [] p = "eco" -> {"INSERT_ECO_BUFFERS"}
    [] p = "access" -> {"IO_PIN_ORDER_CFG"}
    [] p = "retouched" -> {"GDS_POSTPROCESS"}
    [] p = "retouched_access" -> {"IO_PIN_ORDER_CFG", "GDS_POSTPROCESS"}
    [] OTHER -> {}]
MCTolerates == [p \in MCProfiles |->
  IF p \in InAccess THEN {"klayout_drc", "route_drc", "power_grid", "lint_warning"} \cup Timing
                  ELSE {"lint_warning", "max_slew", "max_cap"}]
MCPrimary == [p \in MCProfiles |-> IF p = "no_stream" THEN "magic" ELSE "klayout"]
MCDesigns == {{}, {"repairs"}} \cup {{m} : m \in Metric}

\* Bounds: what follows a run, and which tools may fail in it.
Follows == {<<"access", "access">>, <<"default", "default">>, <<"default", "no_klayout_drc">>,
            <<"default", "no_spef">>}
MCAgain(p, d, q, e) == /\ <<p, q>> \in Follows
                       /\ IF p = "access" THEN d = {} /\ e \in {{}, {"repairs"}}
                                          ELSE e = IF d = {} THEN {"lvs"} ELSE {}
MCFallible == {"Yosys.Synthesis", "OpenROAD.DetailedRouting", "Magic.WriteLEF", "Magic.DRC"}

\* Power on one side, ground on the other, and the labels that go with each other.
Label(group, on) == [group |-> group, on |-> on]
Plain == [n |-> 2, vias |-> <<>>, labels |-> {Label("power", {1}), Label("ground", {2})}]
Vias == {<<>>, <<{2, 3}, {1, 3}>>, <<{1, 2}, {3, 4}>>, <<{3, 4}, {2, 3}>>, <<{1}, {1, 2, 4}>>}
Labels == {{Label("power", {1}), Label("power", {2}), Label("ground", {3})},
           {Label("power", {1}), Label("ground", {3}), Label("ground", {4})},
           {Label("power", {2}), Label("ground", {1})},
           {Label("power", {1}), Label("ground", {2}), Label("ground", {})},
           {Label("power", {1})}}
Grids == {[n |-> 4, vias |-> v, labels |-> l] : v \in Vias, l \in Labels}

MCCores(d) == {[flaws |-> {}, grid |-> Plain]} \cup
              IF d # {} THEN {}
              ELSE {[flaws |-> {f}, grid |-> Plain] : f \in Flaw}
                   \cup {[flaws |-> {}, grid |-> g] : g \in Grids}
MCRetried(made) == made.grid.n # 4 /\ made.flaws \subseteq {"drc", "interface"}
=============================================================================
