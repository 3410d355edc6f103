---------------------------- MODULE ClassicSteps ----------------------------
(***************************************************************************)
(* The steps of the Classic flow as its loop sees them: what a step needs, *)
(* what it writes, what it does to the design, and which metric it         *)
(* measures or judges.  What a tool does inside a step is left out, and so *)
(* are views that no step asks for (SDC, SDF, LIB, VH, MAG, images).       *)
(*                                                                         *)
(* A group below holds the classes of one stretch of one source file.      *)
(***************************************************************************)
EXTENDS StepList

None == "none"

Database == {"ODB", "DEF"}
Netlists == {"NL", "PNL"}

\* What every step starts from.  `in' are the inputs that are not optional;
\* `main' is the one whose content the views in `out' show, after `edits' has
\* changed its "layout", or its "nets" as well, or both if the design has something
\* to "repair"; a step with an option of `needs' missing, or one of `yields'
\* given, returns at once with nothing; `streams' names the tool whose layout
\* becomes the GDS if it is the primary; `gdsIf' the option that makes it read the
\* GDS and not `main', `retouchedIf' the one that makes it change the layout as well;
\* the exit status of a `tacit' step's tool is not looked at.
Base(id) == [id |-> id, in |-> {}, main |-> None, out |-> {}, edits |-> None,
             measures |-> {}, judges |-> None, immediate |-> FALSE, heeds |-> TRUE,
             needs |-> {}, yields |-> {}, streams |-> None, gdsIf |-> None,
             retouchedIf |-> None, tacit |-> FALSE]

\* OpenROADStep: a script that reads the database and writes all of it.
OpenROAD(id, edits) ==
  [Base(id) EXCEPT !.in = {"ODB"}, !.main = "ODB", !.out = Database \cup Netlists,
                   !.edits = edits]

\* OpenROAD steps that declare no outputs, or the layout's only.
Writing(out, step) == [step EXCEPT !.out = out]
Measuring(metrics, step) == [step EXCEPT !.measures = metrics]
Needing(options, step) == [step EXCEPT !.needs = options]
GDSIf(option, step) == [step EXCEPT !.gdsIf = option]

\* OdbpyStep: a Python script on the database, which writes no netlists.
Odb(id, edits) == Writing(Database, OpenROAD(id, edits))

\* Another tool, reading views and leaving others.
Tool(id, main, in, out) ==
  [Base(id) EXCEPT !.in = in \cup {main}, !.main = main, !.out = out]

\* MagicStep: a view that Magic did not write is not handed on, and nothing is
\* said.  (It goes unseen where no report is read, or one that was opened first.)
Magic(id, main, in, out) == [Tool(id, main, in, out) EXCEPT !.tacit = TRUE]

\* MetricChecker: a deferred error if the metric exceeds its threshold.
Check(id, metric) == [Base(id) EXCEPT !.judges = metric]
CheckAtOnce(id, metric) == [Check(id, metric) EXCEPT !.immediate = TRUE]

\* A tool that makes another layout of the GDS, and leaves the DEF behind.
Finishing(id, option) ==
  Needing({option}, [Tool(id, "GDS", {}, {"GDS"}) EXCEPT !.edits = "layout"])
-----------------------------------------------------------------------------
Linting == {Measuring({"lint_error", "lint_warning", "lint_timing_construct"},
                      Base("Verilator.Lint"))}

Headers == {[Base("Yosys.JsonHeader") EXCEPT !.out = {"JSON_HEADER"}]}

\* Synthesis makes a netlist from the sources, whatever the language.
Synthesize(id) == [Measuring({"unmapped", "check_error"}, Base(id))
                    EXCEPT !.out = {"NL"}, !.edits = "nets"]
Synthesis == {Synthesize(id) : id \in {"Yosys.Synthesis", "Yosys.VHDLSynthesis"}}

EquivalenceCheck == {Tool("Yosys.EQY", "NL", {}, {})}

\* Reads the netlist itself and not a metric.
AssignStatements ==
  {[CheckAtOnce("Checker.NetlistAssignStatements", "assign")
     EXCEPT !.in = {"NL"}, !.main = "NL", !.measures = {"assign"}]}

SynthesisChecks == {CheckAtOnce("Checker.YosysUnmappedCells", "unmapped"),
                    CheckAtOnce("Checker.YosysSynthChecks", "check_error"),
                    Check("Checker.TrDRC", "route_drc"),
                    Check("Checker.MagicDRC", "magic_drc"),
                    Check("Checker.IllegalOverlap", "illegal_overlap"),
                    CheckAtOnce("Checker.DisconnectedPins", "disconnected_pin")}

LayoutChecks == {Needing({"WIRE_LENGTH_THRESHOLD"}, Check("Checker.WireLength", "wirelength")),
                 Check("Checker.XOR", "xor"),
                 Check("Checker.LVS", "lvs"),
                 Check("Checker.PowerGridViolations", "power_grid")}

\* LintTimingConstructs declares ERROR_ON_LINTER_TIMING_CONSTRUCTS and does not
\* look at it.
LintChecks == {CheckAtOnce("Checker.LintErrors", "lint_error"),
               CheckAtOnce("Checker.LintWarnings", "lint_warning"),
               [CheckAtOnce("Checker.LintTimingConstructs", "lint_timing_construct")
                 EXCEPT !.heeds = FALSE],
               Check("Checker.KLayoutDRC", "klayout_drc"),
               Check("Checker.KLayoutDensity", "density"),
               Check("Checker.KLayoutAntenna", "antenna")}

\* Setup and hold; slew and capacitance match no corner unless a PDK says so.
TimingChecks == {Check("Checker.SetupViolations", "setup"),
                 Check("Checker.HoldViolations", "hold"),
                 Check("Checker.MaxSlewViolations", "max_slew"),
                 Check("Checker.MaxCapViolations", "max_cap")}

Timing == {"setup", "hold", "max_slew", "max_cap"}
-----------------------------------------------------------------------------
EarlyTiming ==
  {Base("OpenROAD.CheckSDCFiles"),
   Writing({}, OpenROAD("OpenROAD.STAMidPNR", None)),
   Needing({"MACROS"}, Tool("OpenROAD.CheckMacroInstances", "NL", {}, {}))}

PrePlacementTiming ==
  {Measuring(Timing, Tool("OpenROAD.STAPrePNR", "NL", {}, {}))}

SignoffTiming == {Measuring(Timing, Tool("OpenROAD.STAPostPNR", "SPEF", {"NL"}, {}))}

Floorplanning == {[OpenROAD("OpenROAD.Floorplan", "layout")
                    EXCEPT !.in = {"NL"}, !.main = "NL"]}

PadPlacement == {OpenROAD("OpenROAD.PadRing", "layout")}

PinPlacement ==
  {[OpenROAD("OpenROAD.IOPlacement", "layout")
     EXCEPT !.yields = {"IO_PIN_ORDER_CFG", "FP_DEF_TEMPLATE"}],
   OpenROAD("OpenROAD.TapEndcapInsertion", "nets")}

PowerGrid == {Measuring({"power_grid"}, OpenROAD("OpenROAD.GeneratePDN", "layout"))}

\* Both kinds of global placement are one step, under two names.
GlobalPlace(id) == OpenROAD(id, "layout")

Placement ==
  {GlobalPlace("OpenROAD.GlobalPlacement"),
   [GlobalPlace("OpenROAD.GlobalPlacementSkipIO")
     EXCEPT !.yields = {"IO_PIN_ORDER_CFG", "FP_DEF_TEMPLATE"}],
   OpenROAD("OpenROAD.DetailedPlacement", "layout")}

AntennaCheck == {Writing({}, OpenROAD("OpenROAD.CheckAntennas", None))}

\* RepairAntennas inserts diodes, and its parts write the layout only.
Routing ==
  {Writing(Database, OpenROAD("OpenROAD.GlobalRouting", "layout")),
   Needing({"DIODE_CELL"}, Writing(Database, OpenROAD("OpenROAD.RepairAntennas", "repair")))}

DetailedRouting == {Measuring({"route_drc"}, OpenROAD("OpenROAD.DetailedRouting", "layout"))}

FillAndParasitics == {OpenROAD("OpenROAD.FillInsertion", "nets"),
                      Tool("OpenROAD.RCX", "DEF", {}, {"SPEF"})}

VoltageAndRows == {Tool("OpenROAD.IRDropReport", "ODB", {"SPEF"}, {}),
                   Writing(Database, OpenROAD("OpenROAD.CutRows", "layout"))}

ClockTree == {Needing({"CLOCK_PORT"}, OpenROAD("OpenROAD.CTS", "nets"))}

DesignRepair == {OpenROAD("OpenROAD.RepairDesignPostGPL", "repair"),
                 OpenROAD("OpenROAD.RepairDesignPostGRT", "repair")}

ClockRepair == {OpenROAD("OpenROAD.ResizerTimingPostCTS", "repair")}

TimingRepair == {OpenROAD("OpenROAD.ResizerTimingPostGRT", "repair"),
                 Tool("OpenROAD.DumpRCValues", "DEF", {}, {})}
-----------------------------------------------------------------------------
AntennaProperties ==
  {Needing({"MACROS"}, Writing({}, Odb("Odb.CheckMacroAntennaProperties", None))),
   [Writing({}, Odb("Odb.CheckDesignAntennaProperties", None)) EXCEPT !.in = {"ODB", "LEF"}]}

TemplatesAndHeaders ==
  {Needing({"FP_DEF_TEMPLATE"}, Odb("Odb.ApplyDEFTemplate", "layout")),
   [Odb("Odb.SetPowerConnections", "nets") EXCEPT !.in = {"ODB", "JSON_HEADER"}],
   [Writing({}, Odb("Odb.WriteVerilogHeader", None)) EXCEPT !.in = {"ODB", "JSON_HEADER"}]}

MacrosAndPins ==
  {Needing({"MACROS"}, Odb("Odb.ManualMacroPlacement", "layout")),
   Measuring({"wirelength"}, Writing({}, Odb("Odb.ReportWireLength", None))),
   Measuring({"disconnected_pin"}, Odb("Odb.ReportDisconnectedPins", None))}

Obstructions ==
  {Needing({"ROUTING_OBSTRUCTIONS"}, Odb("Odb.AddRoutingObstructions", "layout")),
   Needing({"ROUTING_OBSTRUCTIONS"}, Odb("Odb.RemoveRoutingObstructions", "layout")),
   Needing({"PDN_OBSTRUCTIONS"}, Odb("Odb.AddPDNObstructions", "layout")),
   Needing({"PDN_OBSTRUCTIONS"}, Odb("Odb.RemovePDNObstructions", "layout"))}

OrderedPins == {Needing({"IO_PIN_ORDER_CFG"}, Odb("Odb.CustomIOPlacement", "layout"))}

\* They drop the routing of the nets they change, so that detailed routing has to
\* come again.
EngineeringChanges ==
  {Needing({"INSERT_ECO_BUFFERS"}, Odb("Odb.InsertECOBuffers", "nets")),
   Needing({"INSERT_ECO_DIODES", "DIODE_CELL"}, Odb("Odb.InsertECODiodes", "nets"))}

\* Two composites, whose second part (detailed placement) writes the netlists.
PortDiodes == {Needing({"DIODE_ON_PORTS", "DIODE_CELL"},
                       OpenROAD("Odb.DiodesOnPorts", "nets"))}

NetDiodes == {Needing({"DIODE_CELL"}, OpenROAD("Odb.HeuristicDiodeInsertion", "nets"))}

CellPlacement == {Odb("Odb.CellFrequencyTables", None),
                  Needing({"MANUAL_GLOBAL_PLACEMENT"}, Odb("Odb.ManualGlobalPlacement", "layout"))}
-----------------------------------------------------------------------------
\* A design with a postprocess_gds.py, or one that gets a bridge of its ground, has
\* shapes in this stream that no other view has.
KLayoutStreamOut == {[Tool("KLayout.StreamOut", "DEF", {}, {"KLAYOUT_GDS"})
                       EXCEPT !.streams = "klayout", !.retouchedIf = "GDS_POSTPROCESS"]}

Renderings == {Tool("KLayout.Render", "DEF", {}, {})}

StreamComparison == {Measuring({"xor"}, Tool("KLayout.XOR", "KLAYOUT_GDS", {"MAG_GDS"}, {}))}

\* A deck that measures one metric of the GDS, if there is one.
Deck(id, metric, option) == Needing({option}, Measuring({metric}, Tool(id, "GDS", {}, {})))

LayoutRules == {Deck("KLayout.DRC", "klayout_drc", "KLAYOUT_DRC_RUNSET")}

FillAndSeal == {Finishing("KLayout.SealRing", "KLAYOUT_SEALRING_SCRIPT"),
                Finishing("KLayout.Filler", "KLAYOUT_FILLER_SCRIPT")}

DensityRules == {Deck("KLayout.Density", "density", "KLAYOUT_DENSITY_RUNSET")}

AntennaRules == {Deck("KLayout.Antenna", "antenna", "KLAYOUT_ANTENNA_RUNSET")}

\* (A stream-out that wrote nothing is noticed at the latest when final/ is saved.)
MagicViews ==
  {[Tool("Magic.StreamOut", "DEF", {}, {"MAG_GDS"}) EXCEPT !.streams = "magic"],
   GDSIf("MAGIC_LEF_WRITE_USE_GDS", Magic("Magic.WriteLEF", "DEF", {"GDS"}, {"LEF"}))}

MagicFill == {Finishing("Magic.Filler", "MAGIC_FILLER_SCRIPT")}

\* The script opens its report before it checks anything: if it dies then, the step
\* reads no errors in an empty report.
MagicRules ==
  {GDSIf("MAGIC_DRC_USE_GDS",
         [Measuring({"magic_drc"}, Magic("Magic.DRC", "DEF", {}, {})) EXCEPT !.in = {"GDS"}])}

\* Extraction asks for the GDS and reads the DEF, unless it is told otherwise.  Its
\* feedback, which the step reads, is what its script writes last.
MagicExtraction ==
  {GDSIf("MAGIC_EXT_USE_GDS",
         Measuring({"illegal_overlap"}, Tool("Magic.SpiceExtraction", "DEF", {"GDS"}, {"SPICE"})))}

NetlistComparison == {Measuring({"lvs"}, Tool("Netgen.LVS", "SPICE", {"PNL"}, {}))}

Reports == {Base("Misc.ReportManufacturability")}
-----------------------------------------------------------------------------
Library == UNION {Linting, Headers, Synthesis, EquivalenceCheck, AssignStatements,
  SynthesisChecks, LayoutChecks, LintChecks, TimingChecks, EarlyTiming,
  PrePlacementTiming, SignoffTiming, Floorplanning, PadPlacement, PinPlacement,
  PowerGrid, Placement, AntennaCheck, Routing, DetailedRouting, FillAndParasitics,
  VoltageAndRows, ClockTree, DesignRepair, ClockRepair, TimingRepair,
  AntennaProperties, TemplatesAndHeaders, MacrosAndPins, Obstructions, OrderedPins,
  PortDiodes, NetDiodes, EngineeringChanges, CellPlacement, KLayoutStreamOut,
  Renderings, StreamComparison, LayoutRules, FillAndSeal, DensityRules, AntennaRules,
  MagicViews, MagicFill, MagicRules, MagicExtraction, NetlistComparison, Reports}

Described(id) == CHOOSE s \in Library : s.id = id
-----------------------------------------------------------------------------
\* Classic.Steps
Classic == <<
  "Verilator.Lint", "Checker.LintTimingConstructs", "Checker.LintErrors",
  "Checker.LintWarnings", "Yosys.JsonHeader", "Yosys.Synthesis",
  "Checker.YosysUnmappedCells", "Checker.YosysSynthChecks",
  "Checker.NetlistAssignStatements", "OpenROAD.CheckSDCFiles",
  "OpenROAD.CheckMacroInstances", "OpenROAD.STAPrePNR", "OpenROAD.Floorplan",
  "OpenROAD.DumpRCValues", "Odb.CheckMacroAntennaProperties",
  "Odb.SetPowerConnections", "Odb.ManualMacroPlacement", "OpenROAD.CutRows",
  "OpenROAD.TapEndcapInsertion", "Odb.AddPDNObstructions", "OpenROAD.GeneratePDN",
  "Odb.RemovePDNObstructions", "Odb.AddRoutingObstructions",
  "OpenROAD.GlobalPlacementSkipIO", "OpenROAD.IOPlacement", "Odb.CustomIOPlacement",
  "Odb.ApplyDEFTemplate", "OpenROAD.GlobalPlacement", "Odb.WriteVerilogHeader",
  "Checker.PowerGridViolations", "OpenROAD.STAMidPNR", "OpenROAD.RepairDesignPostGPL",
  "Odb.ManualGlobalPlacement", "OpenROAD.DetailedPlacement", "OpenROAD.CTS",
  "OpenROAD.STAMidPNR", "OpenROAD.ResizerTimingPostCTS", "OpenROAD.STAMidPNR",
  "OpenROAD.GlobalRouting", "OpenROAD.CheckAntennas", "OpenROAD.RepairDesignPostGRT",
  "Odb.DiodesOnPorts", "Odb.HeuristicDiodeInsertion", "OpenROAD.RepairAntennas",
  "OpenROAD.ResizerTimingPostGRT", "OpenROAD.STAMidPNR", "OpenROAD.DetailedRouting",
  "Odb.RemoveRoutingObstructions", "OpenROAD.CheckAntennas", "Checker.TrDRC",
  "Odb.ReportDisconnectedPins", "Checker.DisconnectedPins", "Odb.ReportWireLength",
  "Checker.WireLength", "OpenROAD.FillInsertion", "Odb.CellFrequencyTables",
  "OpenROAD.RCX", "OpenROAD.STAPostPNR", "OpenROAD.IRDropReport", "Magic.StreamOut",
  "KLayout.StreamOut", "KLayout.Render", "Magic.WriteLEF",
  "Odb.CheckDesignAntennaProperties", "KLayout.XOR", "Checker.XOR", "Magic.DRC",
  "KLayout.DRC", "Checker.MagicDRC", "Checker.KLayoutDRC", "Magic.SpiceExtraction",
  "Checker.IllegalOverlap", "Netgen.LVS", "Checker.LVS", "Yosys.EQY",
  "Checker.SetupViolations", "Checker.HoldViolations", "Checker.MaxSlewViolations",
  "Checker.MaxCapViolations", "Misc.ReportManufacturability">>

\* Classic.gating_config_vars: a step is skipped unless all of these are true.
\* (Each key there is an id and no pattern, so only the first step of its kind.)
StreamingBoth == {"RUN_KLAYOUT_XOR", "RUN_MAGIC_STREAMOUT", "RUN_KLAYOUT_STREAMOUT"}

Gating == {
  <<"OpenROAD.GeneratePDN", {"RUN_PDN"}>>,
  <<"OpenROAD.RepairDesignPostGPL", {"RUN_POST_GPL_DESIGN_REPAIR"}>>,
  <<"OpenROAD.RepairDesignPostGRT", {"RUN_POST_GRT_DESIGN_REPAIR"}>>,
  <<"OpenROAD.ResizerTimingPostCTS", {"RUN_POST_CTS_RESIZER_TIMING"}>>,
  <<"OpenROAD.ResizerTimingPostGRT", {"RUN_POST_GRT_RESIZER_TIMING"}>>,
  <<"OpenROAD.CTS", {"RUN_CTS"}>>,
  <<"OpenROAD.RCX", {"RUN_SPEF_EXTRACTION"}>>,
  <<"OpenROAD.TapEndcapInsertion", {"RUN_TAP_ENDCAP_INSERTION"}>>,
  <<"Odb.HeuristicDiodeInsertion", {"RUN_HEURISTIC_DIODE_INSERTION"}>>,
  <<"OpenROAD.RepairAntennas", {"RUN_ANTENNA_REPAIR"}>>,
  <<"OpenROAD.DetailedRouting", {"RUN_DRT"}>>, <<"Checker.TrDRC", {"RUN_DRT"}>>,
  <<"OpenROAD.FillInsertion", {"RUN_FILL_INSERTION"}>>,
  <<"OpenROAD.STAPostPNR", {"RUN_MCSTA"}>>,
  <<"OpenROAD.IRDropReport", {"RUN_IRDROP_REPORT"}>>,
  <<"Magic.StreamOut", {"RUN_MAGIC_STREAMOUT"}>>,
  <<"KLayout.StreamOut", {"RUN_KLAYOUT_STREAMOUT"}>>,
  <<"Magic.WriteLEF", {"RUN_MAGIC_WRITE_LEF"}>>,
  <<"Magic.DRC", {"RUN_MAGIC_DRC"}>>, <<"Checker.MagicDRC", {"RUN_MAGIC_DRC"}>>,
  <<"KLayout.DRC", {"RUN_KLAYOUT_DRC"}>>,
  <<"KLayout.XOR", StreamingBoth>>, <<"Checker.XOR", StreamingBoth>>,
  <<"Netgen.LVS", {"RUN_LVS"}>>, <<"Checker.LVS", {"RUN_LVS"}>>,
  <<"Yosys.EQY", {"RUN_EQY"}>>,
  <<"Verilator.Lint", {"RUN_LINTER"}>>, <<"Checker.LintErrors", {"RUN_LINTER"}>>,
  <<"Checker.LintWarnings", {"RUN_LINTER"}>>,
  <<"Checker.LintTimingConstructs", {"RUN_LINTER"}>>}

Gates(id) == UNION {g[2] : g \in {g \in Gating : g[1] = id}}

\* The gating variables that are false unless a configuration sets them.
OffByDefault == {"RUN_POST_GRT_DESIGN_REPAIR", "RUN_POST_GRT_RESIZER_TIMING",
                 "RUN_HEURISTIC_DIODE_INSERTION", "RUN_EQY"}
-----------------------------------------------------------------------------
Removal(names) == [mode |-> "remove", names |-> names, star |-> FALSE, with |-> None]
Addition(name, impl) == [mode |-> "append", names |-> {name}, star |-> FALSE, with |-> impl]
Replacement(name, impl) == [mode |-> "replace", names |-> {name}, star |-> FALSE, with |-> impl]

\* VHDLClassic.Substitutions
VHDLSubstitutions == <<
  Removal({"Verilator.Lint"}),
  [Removal({"Checker.LintTimingConstructs", "Checker.LintErrors", "Checker.LintWarnings"})
    EXCEPT !.star = TRUE],
  Removal({"Yosys.JsonHeader"}),
  Replacement("Yosys.Synthesis", "Yosys.VHDLSynthesis"),
  Removal({"Odb.SetPowerConnections"}),
  Removal({"Odb.WriteVerilogHeader"}),
  Removal({"Yosys.EQY"})>>

\* Chip.Substitutions
ChipSubstitutions == <<
  Addition("Odb.SetPowerConnections", "OpenROAD.PadRing"),
  Removal({"OpenROAD.IOPlacement"}), Removal({"Odb.CustomIOPlacement"}),
  Removal({"Magic.WriteLEF"}), Removal({"Odb.CheckDesignAntennaProperties"}),
  Addition("Checker.XOR", "KLayout.Antenna"),
  Addition("KLayout.Antenna", "Checker.KLayoutAntenna"),
  Addition("Checker.KLayoutAntenna", "KLayout.SealRing"),
  Addition("KLayout.SealRing", "KLayout.Filler"),
  Addition("KLayout.Filler", "KLayout.Density"),
  Addition("KLayout.Density", "Checker.KLayoutDensity")>>

\* meta.substituting_steps of the example of buffers inserted by hand.
EcoSubstitutions == <<Addition("OpenROAD.DetailedRouting", "Odb.InsertECOBuffers"),
                      Addition("Odb.InsertECOBuffers", "OpenROAD.DetailedRouting")>>

\* meta.substituting_steps of the designs for the signal-access cells.
AccessSubstitutions == <<
  Removal({"Magic.StreamOut"}), Removal({"Magic.WriteLEF"}), Removal({"Magic.DRC"}),
  Removal({"Magic.SpiceExtraction"}), Removal({"Netgen.LVS"}), Removal({"Checker.LVS"}),
  Removal({"Checker.MagicDRC"}), Removal({"Checker.IllegalOverlap"}),
  Removal({"Odb.CheckDesignAntennaProperties"}),
  Removal({"Odb.CheckMacroAntennaProperties"}), Removal({"KLayout.XOR"}),
  Removal({"Checker.XOR"}), Removal({"OpenROAD.IRDropReport"})>>
=============================================================================
