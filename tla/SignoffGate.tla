---------------------------- MODULE SignoffGate ----------------------------
(***************************************************************************)
(* The tapeout gate flow/scripts/signoff/run_tr1um_signoff.sh, run again   *)
(* and again on one report directory while a designer edits the layout.    *)
(*                                                                         *)
(* The script is a chain of gates under "set -euo pipefail".  A gate runs a *)
(* tool, which writes a report, a mask layout or a netlist into the report  *)
(* directory, and then looks at what is in the directory.  Nothing clears   *)
(* the directory between runs, so a gate may look at what an earlier run    *)
(* left there.  Every artifact is known by the revisions it was made from,  *)
(* none when it is absent: a report comes of one layout, the parasitics of   *)
(* a layout, of the netlist extracted from one and of a routed DEF, which is *)
(* matched to the layout by its name alone.  Defects says which gates a      *)
(* revision deserves to fail.                                               *)
(*                                                                         *)
(* Bounds: MaxRev, the revisions of the layout.                             *)
(***************************************************************************)
EXTENDS Naturals, FiniteSets, AnalogManifest

CONSTANTS
  MaxRev,       \* bound: revisions of the layout
  Defects,      \* revision -> the gates it must not pass
  Hollow,       \* artifacts whose tool may exit 0 without writing them
  Options,      \* the command lines and environments the script is run with
  Manifests     \* what the analog manifest may hold

Revision == 1 .. MaxRev
Artifacts == {"drc", "labels", "extracted", "mdp", "ip62", "spef", "ledger"}
Gates == {"precheck", "drc", "labels", "erc", "lvs", "ip62"}

(***************************************************************************)
(* What is checked before the first tool runs (lines 54-98), in order:     *)
(* KLayout (exit 5), the manifest file and its checker (3), the ERC        *)
(* contract a manifest requires (11), the layout and the netlist (2), the  *)
(* MPW template, the runsets and the parity checkers (3, 4, 3), LVS and    *)
(* DRC parity (9).  Later gates look for the ERC contract again (11).      *)
(***************************************************************************)
Missing == {"klayout", "manifest", "input", "template", "runset", "parity", "erc"}

OptionSet ==
  [manifest    : BOOLEAN,          \* an analog manifest is given
   contract    : BOOLEAN,          \* ERC_CONTRACT is set
   missing     : SUBSET Missing,
   netlistOnly : BOOLEAN,          \* LVS_NETLIST_ONLY=1
   mixed       : BOOLEAN,          \* the top is tr_1um_mixed_counter
   def         : 0 .. MaxRev,      \* revision of RCX_DEF, 0 if not set
   defNamed    : BOOLEAN,          \* RCX_DEF is a file named after the top
   fallback    : 0 .. MaxRev,      \* revision of the digital run's DEF, 0 if none
   override    : BOOLEAN]          \* RCX_COMMAND is set

ASSUME GateAssumption ==
  /\ MaxRev \in Nat \ {0}
  /\ Defects \in [Revision -> SUBSET Gates]
  /\ Hollow \subseteq Artifacts
  /\ Options \subseteq OptionSet
  /\ Manifests \subseteq Manifest
  /\ Artifacts \subseteq Files

VARIABLES
  layout,     \* revision of the GDS on disk
  files,      \* report directory: artifact -> the revisions it was made from
  stage,      \* the gate the script is at, "idle" when it is not running
  options,    \* of the run in progress, or of the last one
  manifest,   \* the analog manifest the last run has read, if any
  disturbed,  \* the layout has changed since the last run started
  verdict     \* how the last run ended: "pass", the gate it stopped at,
              \* "tool" (a tool's own status), "none" if it was killed

vars == <<layout, files, stage, options, manifest, disturbed, verdict>>

Stages == {"inputs", "precheck", "drc", "labels", "erc", "lvs", "mdp", "ip62",
           "rcx", "manifest"}
NotRead == [read |-> FALSE]

Init ==
  /\ layout \in Revision
  /\ files = [a \in Artifacts |-> {}]
  /\ stage = "idle"
  /\ options \in Options
  /\ manifest = NotRead
  /\ disturbed = FALSE
  /\ verdict = "none"

----------------------------------------------------------------------------
\* The designer streams out another layout.
Edit ==
  /\ \E rev \in Revision \ {layout} : layout' = rev
  /\ disturbed' = TRUE
  /\ UNCHANGED <<files, stage, options, manifest, verdict>>

\* The script starts: mkdir -p leaves whatever the directory holds.
Start ==
  /\ stage = "idle"
  /\ options' \in Options
  /\ stage' = "inputs"
  /\ manifest' = NotRead
  /\ disturbed' = FALSE
  /\ verdict' = "none"
  /\ UNCHANGED <<layout, files>>

\* The script is killed.
Interrupt ==
  /\ stage # "idle"
  /\ stage' = "idle"
  /\ UNCHANGED <<layout, files, options, manifest, disturbed, verdict>>

GoTo(next) == stage' = next /\ verdict' = verdict
Exit(why) == stage' = "idle" /\ verdict' = why
Continue(ok, next, why) == IF ok THEN GoTo(next) ELSE Exit(why)

Unread == UNCHANGED <<layout, options, manifest, disturbed>>

----------------------------------------------------------------------------
\* Lines 54-98.
CheckInputs ==
  /\ stage = "inputs"
  /\ Continue(/\ options.missing \subseteq {"manifest", "erc"}
              /\ options.manifest => /\ "manifest" \notin options.missing
                                     /\ options.contract,
              "precheck", "inputs")
  /\ files' = files
  /\ Unread

\* What a is after its tool exited 0, having been run on what was made from made.
Written(a, made) == {made} \cup (IF a \in Hollow THEN {files[a]} ELSE {})

\* A gate finds fault with a report of these revisions, or has none to read.
Faulty(gate, made) == made = {} \/ \E rev \in made : gate \in Defects[rev]

\* Lines 119-120, and again 128-134: the ERC contract or its checker is gone.
ErcAbsent == options.contract /\ "erc" \in options.missing

\* Lines 178-204: the revision of the DEF the parasitics are taken from, 0 if
\* the script stops for want of one.
RcxDef(o) ==
  IF o.def # 0 THEN (IF o.defNamed THEN o.def ELSE 0)
               ELSE (IF o.mixed THEN 0 ELSE o.fallback)

\* The tool of the stage fails: pipefail ends the script with its status.  What
\* it had to write may be left as it was, or empty.
Output ==
  [s \in Stages |->
    CASE s = "lvs" -> {"extracted"}
      [] s = "rcx" -> {"spef", "ledger"}
      [] s \in Artifacts -> {s}
      [] OTHER -> {}]

ToolFails ==
  /\ stage \notin {"idle", "inputs", "manifest"}
  /\ stage = "labels" => ~ErcAbsent
  /\ stage = "rcx" => RcxDef(options) # 0
  /\ \E lost \in {{}, Output[stage]} :
        files' = [a \in Artifacts |-> IF a \in lost THEN {} ELSE files[a]]
  /\ Exit("tool")
  /\ Unread

\* Lines 102-104: the pre-check leaves nothing but its exit status.
Precheck ==
  /\ stage = "precheck"
  /\ Continue("precheck" \notin Defects[layout], "drc", "precheck")
  /\ files' = files
  /\ Unread

\* Lines 107-114.
DrawingDrc ==
  /\ stage = "drc"
  /\ \E made \in Written("drc", {layout}) :
       /\ files' = [files EXCEPT !["drc"] = made]
       /\ Continue(~Faulty("drc", made), "labels", "drc")
  /\ Unread

\* Lines 118-126.
Labels ==
  /\ stage = "labels"
  /\ IF ErcAbsent
     THEN Exit("erc") /\ files' = files
     ELSE /\ files' = [files EXCEPT !["labels"] = {layout}]
          /\ Continue("labels" \notin Defects[layout],
                      IF options.contract THEN "erc" ELSE "lvs", "labels")
  /\ Unread

\* Lines 127-142: the electrical check reads two earlier reports.  No gate
\* reads the one it writes.
Erc ==
  /\ stage = "erc"
  /\ files' = files
  /\ Continue(~Faulty("erc", files["drc"]) /\ ~Faulty("erc", files["labels"]),
              "lvs", "erc")
  /\ Unread

\* Lines 145-160: only a log with the match marker gets past.  LVS prints it
\* when it has compared (05_Compare.lvs:120), which it does not do when it
\* only extracts.
Lvs ==
  /\ stage = "lvs"
  /\ \E made \in Written("extracted", {layout}) :
       /\ files' = [files EXCEPT !["extracted"] = made]
       /\ Continue(/\ made = {layout}
                   /\ "lvs" \notin Defects[layout]
                   /\ ~options.netlistOnly,
                   "mdp", "lvs")
  /\ Unread

\* Mutant of Mdp: a mask layout that is there already is not made again.
MdpOnce ==
  /\ stage = "mdp"
  /\ \E made \in IF files["mdp"] # {} THEN {files["mdp"]} ELSE Written("mdp", {layout}) :
       /\ files' = [files EXCEPT !["mdp"] = made]
       /\ Continue(made # {}, "ip62", "mdp")
  /\ Unread

\* Lines 163-167.
Mdp ==
  /\ stage = "mdp"
  /\ \E made \in Written("mdp", {layout}) :
       /\ files' = [files EXCEPT !["mdp"] = made]
       /\ Continue(made # {}, "ip62", "mdp")
  /\ Unread

\* Lines 168-175: mask DRC of the mask layout in the directory.
Ip62 ==
  /\ stage = "ip62"
  /\ \E made \in Written("ip62", files["mdp"]) :
       /\ files' = [files EXCEPT !["ip62"] = made]
       /\ Continue(~Faulty("ip62", made), "rcx", "ip62")
  /\ Unread

\* What the parasitics are made from (run_estimated_rcx.sh:42-52): the routes of
\* the DEF, the layout, and the netlist that LVS has extracted.
RcxInputs == {RcxDef(options), layout} \cup files["extracted"]

\* Lines 205-221: the default recipe also writes the ledger and the network; an
\* override, taken to read the same, need not.
Rcx ==
  /\ stage = "rcx"
  /\ IF RcxDef(options) = 0
     THEN Exit("rcx") /\ files' = files
     ELSE \E spef \in Written("spef", RcxInputs),
             ledger \in IF options.override THEN {files["ledger"]}
                        ELSE Written("ledger", RcxInputs) :
            /\ files' = [files EXCEPT !["spef"] = spef, !["ledger"] = ledger]
            /\ IF \/ spef = {}
                  \/ ~options.override /\ ledger = {}
               THEN Exit("rcx")
               ELSE IF options.manifest THEN GoTo("manifest") ELSE Exit("pass")
  /\ Unread

Present == {a \in Artifacts : files[a] # {}}

\* Lines 222-230: the manifest is read only now.
CheckManifest ==
  /\ stage = "manifest"
  /\ \E m \in Manifests :
       /\ manifest' = [read |-> TRUE, stages |-> m.stages, ready |-> m.ready]
       /\ Exit(IF Result(m, Present) = "PASS" THEN "pass" ELSE "manifest")
  /\ UNCHANGED <<layout, files, options, disturbed>>

Next ==
  \/ Edit
  \/ Start
  \/ Interrupt
  \/ CheckInputs
  \/ ToolFails
  \/ Precheck
  \/ DrawingDrc
  \/ Labels
  \/ Erc
  \/ Lvs
  \/ Mdp
  \/ Ip62
  \/ Rcx
  \/ CheckManifest

Spec == Init /\ [][Next]_vars

----------------------------------------------------------------------------
\* The last run looked at one layout from beginning to end.
Steady == stage = "idle" /\ ~disturbed

RequiredGates == IF options.contract THEN Gates ELSE Gates \ {"erc"}

\* PASS is only printed for a layout that deserves to pass every gate of its
\* mode, whatever earlier runs left in the report directory (line 232).
PassMeansClean ==
  (Steady /\ verdict = "pass") => Defects[layout] \cap RequiredGates = {}

\* After PASS the directory holds what this run has made: the reports and the
\* mask layout are of this layout only, and under the default recipe the
\* parasitic network is of this layout and of the DEF the run was given, which
\* nobody compares with the layout: same-name routed runs can differ (184-185).
PassLeavesCurrentEvidence ==
  (Steady /\ verdict = "pass") =>
    /\ \A a \in {"drc", "labels", "extracted", "mdp", "ip62"} : files[a] = {layout}
    /\ ~options.override => files["ledger"] = {layout, RcxDef(options)}

\* The other way round: a run that stops at a gate (exit 1, 10, 11, 13) blames
\* this layout for a fault that this layout has.
BlameIsDeserved ==
  (Steady /\ verdict \in Gates \ {"lvs"}) =>
    \/ verdict \in Defects[layout]
    \/ verdict = "erc" /\ "erc" \in options.missing

\* What an undisturbed run says of a layout is what the layout deserves, whatever
\* earlier runs left: PASS is clean and leaves evidence of this layout (and of the
\* DEF given for its parasitics), and blame names a fault this layout has.
VerdictIsDeserved == PassMeansClean /\ PassLeavesCurrentEvidence /\ BlameIsDeserved

\* A manifest-backed PASS: every required stage is closed, the release status
\* is ready, and what a passing stage gives as evidence from the report
\* directory was made by this run (check_analog_signoff_manifest.py:4-8): the
\* reports from this layout, the ledger from it and the DEF that was given.
\* With an RCX_COMMAND of its own the ledger may be an earlier run's.
ReleaseIsClosed ==
  (Steady /\ verdict = "pass" /\ options.manifest) =>
    /\ manifest.read /\ manifest.ready
    /\ \A s \in RequiredStages : Closed(manifest.stages[s], Present)
    /\ \A s \in RequiredStages :
         manifest.stages[s].status = "pass" =>
           LET evidence == manifest.stages[s].evidence.items
           IN  /\ \A a \in evidence \cap {"drc", "ip62"} : files[a] = {layout}
               /\ "ledger" \in evidence /\ ~options.override =>
                    files["ledger"] = {layout, RcxDef(options)}

=============================================================================
