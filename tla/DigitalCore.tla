---------------------------- MODULE DigitalCore ----------------------------
(***************************************************************************)
(* From the Classic flow to a signed-off digital macro: the commands       *)
(*   flow    librelane alone,                                              *)
(*   direct  run_tr1um_digital.sh: librelane, then the core flow,          *)
(*   tests   run_digital_tests.sh: as direct in a run directory removed    *)
(*           first, then the macro bundle,                                 *)
(*   core    run_digital_core_flow.sh alone, on a run directory,           *)
(* one after the other on one design and run tag.  The core flow takes the *)
(* placement of librelane's run, draws supply buses and routes it again,   *)
(* checks the result with one tool after the other, and says PASS.         *)
(***************************************************************************)
EXTENDS ClassicFlow, ConnectedPower

CONSTANTS
  Access,       \* the profile of the signal-access library, the only one routed again
  Cores(_),     \* design -> what its core may be: its flaws and its power grid
  Retried(_),   \* bound: is a command run again after a core like this?
  MaxTries      \* bound: core flows in one output directory

Flaw == {"route", "drc", "supply", "lvs", "ip62", "interface"}

ASSUME CoresAssumption == \A d \in Designs : \A made \in Cores(d) : GridTyped(made.grid)
Product == {"def", "lef", "gds", "drc", "extracted", "cir", "ip62"}

\* INPUT_DEF is $RUN_DIR/31-openroad-detailedplacement/$TOP.def.
PlacementDir == 31

\* It is the 31st step of the profile's list that runs, and the list writes the GDS
\* and the netlist.
ASSUME AccessAssumption ==
  /\ Access \in Profiles
  /\ {"GDS", "PNL"} \subseteq Writes[Access]
  /\ \E i \in 1..Len(Program[Access]) :
       LET s == Program[Access][i]
       IN  /\ Works(s) /\ ~s.tacit /\ s.id = "OpenROAD.DetailedPlacement"
           /\ \A repairs \in BOOLEAN : Undisturbed(Access, repairs)[i - 1].dirs = PlacementDir - 1

VARIABLES
  script,    \* the running command, or "none"
  phase,     \* where it is
  tries,     \* core flows since the output directory was empty
  official,  \* RUN_OFFICIAL_IP62_DRC of the last command
  core,      \* the layout its core flow made
  out,       \* the files of connected_power/: the placement each stands for,
             \* the try that wrote it, and the flaws it has or tells of
  hollow,    \* the tools of this try that ended well and left nothing
  verdict,   \* how the last command ended: "none", "pass" or "fail"
  bundle     \* the files of artifacts/<tag>/<top>, and whether they are summed

coreVars == <<script, phase, tries, official, core, out, hollow, verdict, bundle>>
allVars == <<vars, coreVars>>

NoFile == [of |-> NoView, try |-> 0, flaws |-> {}]
NoFilesYet == [f \in Product |-> NoFile]
NoBundle == [files |-> [f \in {"gds", "lef", "cir"} |-> NoFile], netlist |-> NoView,
             summed |-> FALSE, official |-> FALSE]
Unmade == [flaws |-> {}, grid |-> [n |-> 0, vias |-> <<>>, labels |-> {}]]

DigitalInit ==
  /\ Init
  /\ script = "none"
  /\ phase = "none"
  /\ tries = 0
  /\ official = TRUE
  /\ core = Unmade
  /\ out = NoFilesYet
  /\ hollow = {}
  /\ verdict = "none"
  /\ bundle = NoBundle
-----------------------------------------------------------------------------
Free == script = "none" /\ Retried(core)

Command(name, first) ==
  /\ script' = name
  /\ phase' = first
  /\ verdict' = "none"
  /\ official' = TRUE
  /\ core' = Unmade
  /\ hollow' = {}

Librelane(name, p, d) ==
  /\ Begin(p, d)
  /\ Command(name, "librelane")
  /\ UNCHANGED <<tries, out, bundle>>

StartFlow == Free /\ \E p \in Profiles, d \in Designs : Librelane("flow", p, d)
StartDirect == Free /\ tries < MaxTries /\ \E d \in Designs : Librelane("direct", Access, d)

\* The run directory, the core's output directory in it, and the bundle go first.
StartTests ==
  /\ Free
  /\ \E d \in Designs : BeginAfresh(Access, d)
  /\ Command("tests", "librelane")
  /\ tries' = 0
  /\ out' = NoFilesYet
  /\ bundle' = NoBundle

StartCore ==
  /\ Free
  /\ runs > 0 /\ tries < MaxTries
  /\ profile = Access
  /\ Command("core", "inputs")
  /\ UNCHANGED <<vars, tries, out, bundle>>

InLibrelane == /\ phase = "librelane"
               /\ Loop
               /\ UNCHANGED coreVars

\* Mutant of Fails: the tests go on to the bundle.
FailsPackaging == /\ script' = (IF script = "tests" /\ phase # "package" THEN script ELSE "none")
                  /\ phase' = (IF script = "tests" /\ phase # "package" THEN "package" ELSE "none")
                  /\ verdict' = "fail"

\* set -e, and the exit of run_step: the command ends with the first of its parts
\* that fails.
Fails == /\ script' = "none"
         /\ phase' = "none"
         /\ verdict' = "fail"

At(p) == phase = p /\ pc = "idle"
GoTo(next) == phase' = next /\ UNCHANGED <<script, verdict>>

LibrelaneEnds ==
  /\ At("librelane")
  /\ CASE result # "success" -> Fails
       [] result = "success" /\ script = "flow" ->
            script' = "none" /\ phase' = "none" /\ verdict' = "none"
       [] OTHER -> GoTo("inputs")
  /\ UNCHANGED <<vars, tries, official, core, out, hollow, bundle>>

InputsPresent == /\ PlacementDir \in DOMAIN placed
                 /\ final["GDS"] # NoView
                 /\ final["PNL"] # NoView

\* A missing input ends the core flow before it has written anything.
CheckInputs ==
  /\ At("inputs")
  /\ IF InputsPresent THEN GoTo("route") /\ official' \in BOOLEAN
                      ELSE Fails /\ UNCHANGED official
  /\ UNCHANGED <<vars, tries, core, out, hollow, bundle>>

\* A file of this try that stands for the placement the core was made of.
Made(flaws) == [of |-> placed[PlacementDir], try |-> tries', flaws |-> flaws]

\* OpenROAD writes the views before its violations are looked at.
Route ==
  /\ At("route")
  /\ tries' = tries + 1
  /\ core' \in Cores(design)
  /\ out' = [out EXCEPT !["def"] = Made(core'.flaws), !["lef"] = Made(core'.flaws)]
  /\ IF "route" \in core'.flaws THEN Fails ELSE GoTo("stream")
  /\ UNCHANGED <<vars, official, hollow, bundle>>

\* A tool writes its file, or ends well and leaves what was there before.
Leaves(f, flaws) ==
  \/ out' = [out EXCEPT ![f] = Made(flaws)] /\ UNCHANGED hollow
  \/ out' = out /\ hollow' = hollow \cup {f}

\* Stream-out, pin labels, tie cells and the design's own changes: each leaves
\* its result under another name until it is whole.
Stream ==
  /\ At("stream")
  /\ out' = [out EXCEPT !["gds"] = [out["def"] EXCEPT !.flaws = core.flaws]]
  /\ GoTo("drc")
  /\ UNCHANGED <<vars, tries, official, core, hollow, bundle>>

Judge(verdictOK, next) == IF verdictOK THEN GoTo(next) ELSE Fails

Drc ==
  /\ At("drc")
  /\ UNCHANGED tries
  /\ Leaves("drc", out["gds"].flaws \cap {"drc"})
  /\ Judge(out'["drc"] # NoFile /\ out'["drc"].flaws = {}, "power")
  /\ UNCHANGED <<vars, official, core, bundle>>

Power ==
  /\ At("power")
  /\ Judge(PowerConnected(core.grid), "extract")
  /\ UNCHANGED <<vars, tries, official, core, out, hollow, bundle>>

\* test -s, and the supplies of the extracted instances.
Extract ==
  /\ At("extract")
  /\ UNCHANGED tries
  /\ Leaves("extracted", out["gds"].flaws \cap {"supply"})
  /\ Judge(out'["extracted"] # NoFile /\ out'["extracted"].flaws = {}, "lvs")
  /\ UNCHANGED <<vars, official, core, bundle>>

\* The netlists of two librelane runs may be equal.
NetlistsMatch(equal) == \/ out["gds"].of.nets = final["PNL"].nets
                        \/ out["gds"].of.nets < base /\ equal

\* The contract is built from librelane's powered netlist; the log, unlike the
\* reports, is always this try's.
Lvs ==
  /\ At("lvs")
  /\ UNCHANGED tries
  /\ out' = [out EXCEPT !["cir"] = [Made({}) EXCEPT !.of.nets = final["PNL"].nets]]
  /\ \E equal \in BOOLEAN :
       Judge(NetlistsMatch(equal) /\ "lvs" \notin out["gds"].flaws,
             IF official THEN "official" ELSE "signed")
  /\ UNCHANGED <<vars, official, core, hollow, bundle>>

\* run_official_ip62_drc.sh, where warnings count too.
Official ==
  /\ At("official")
  /\ UNCHANGED tries
  /\ Leaves("ip62", out["gds"].flaws \cap {"ip62"})
  /\ Judge(out'["ip62"] # NoFile /\ out'["ip62"].flaws = {}, "signed")
  /\ UNCHANGED <<vars, official, core, bundle>>

\* "PASS: connected, DRC-clean, LVS-clean digital core GDS"
Pass ==
  /\ At("signed")
  /\ IF script = "tests"
     THEN GoTo("package")
     ELSE script' = "none" /\ phase' = "none" /\ verdict' = "pass"
  /\ UNCHANGED <<vars, tries, official, core, out, hollow, bundle>>

Packable == final["PNL"] # NoView /\ \A f \in {"gds", "lef", "cir"} : out[f] # NoFile

Packed(summed) ==
  [files |-> [f \in {"gds", "lef", "cir"} |-> out[f]], netlist |-> final["PNL"],
   summed |-> summed, official |-> official]

\* package_digital_macro.py copies four files, compares their ports, and writes
\* the sums last.
Package ==
  /\ At("package")
  /\ \/ ~Packable /\ Fails /\ UNCHANGED bundle
     \/ Packable /\ "interface" \in core.flaws /\ Fails /\ bundle' = Packed(FALSE)
     \/ /\ Packable /\ "interface" \notin core.flaws
        /\ bundle' = Packed(TRUE)
        /\ script' = "none" /\ phase' = "none" /\ verdict' = "pass"
  /\ UNCHANGED <<vars, tries, official, core, out, hollow>>

\* Any tool may fail; then the command ends, and what it has written stays.
Breaks ==
  /\ pc = "idle" /\ phase \notin {"none", "librelane"}
  /\ Fails
  /\ UNCHANGED <<vars, tries, official, core, out, hollow, bundle>>

\* run_digital_core_flow.sh, as far as it gets by itself.
CoreFlow == \/ CheckInputs \/ Route \/ Stream \/ Drc \/ Power \/ Extract \/ Lvs \/ Official \/ Pass

DigitalNext ==
  \/ StartFlow \/ StartDirect \/ StartTests \/ StartCore
  \/ InLibrelane \/ LibrelaneEnds
  \/ CoreFlow
  \/ Package \/ Breaks

DigitalSpec == DigitalInit /\ [][DigitalNext]_allVars
-----------------------------------------------------------------------------
(* Properties                                                              *)

Signed(checkedBy62) == {"route", "drc", "supply", "lvs"} \cup IF checkedBy62 THEN {"ip62"} ELSE {}

\* A PASS is about a layout without any of the flaws the core flow looks for,
\* whose supplies are whole and whose netlist is the flow's: in an output
\* directory that was empty whatever the tools left out, and in a used one if
\* each of them wrote its report.
PassIsEarned ==
  verdict = "pass" /\ (tries = 1 \/ hollow = {}) =>
    /\ core.flaws \cap Signed(official) = {}
    /\ Supplied(core.grid)
    /\ out["gds"].of.nets = final["PNL"].nets \/ out["gds"].of.nets < base

\* A bundle with its sums holds the layout, the abstract and the contract of one
\* try that all the checks accepted, with the netlist they were compared with.
BundleIsSigned ==
  bundle.summed =>
    /\ \A f \in {"lef", "cir"} :
         /\ bundle.files[f].try = bundle.files["gds"].try
         /\ bundle.files[f].of.layout = bundle.files["gds"].of.layout
    /\ bundle.files["gds"].flaws \cap (Signed(bundle.official) \cup {"interface"}) = {}
    /\ bundle.files["gds"].of.nets = bundle.netlist.nets

\* The placement of a run in an empty directory lies where the core flow looks
\* for it: whatever the configuration adds to the list of steps or takes off it,
\* detailed placement is the 31st that runs.
PlacementIsWhereExpected ==
  result = "success" /\ profile = Access /\ base = 1 => InputsPresent

\* Whoever asks for a file finds it: no step of a run for want of another's view,
\* nor the core flow for want of a placement where it looks.
InputsAreFound == NeverStarved /\ PlacementIsWhereExpected

\* What the scripts sign is what they checked: the layout of a PASS, and the files
\* of a bundle.
SignedIsChecked == PassIsEarned /\ BundleIsSigned
=============================================================================
