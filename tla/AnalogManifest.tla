--------------------------- MODULE AnalogManifest ---------------------------
(***************************************************************************)
(* The release gate on an analog evidence manifest:                        *)
(* flow/scripts/signoff/check_analog_signoff_manifest.py, mode "signoff".  *)
(*                                                                         *)
(* A manifest is a JSON object.  What the gate tells apart is kept: for a  *)
(* list of strings, whether it is a list at all and which kinds of item it *)
(* holds; for a rationale, whether it is text, blank or not a string; for  *)
(* an evidence path, whether the file is there.  A stage the manifest does *)
(* not name has listed = FALSE.                                            *)
(***************************************************************************)
CONSTANTS RequiredStages,  \* REQUIRED_STAGES
          Files            \* what an evidence path can name

Statuses == {"pass", "engineering_only", "not_run", "not_applicable",
             "blocked", "fail"}

\* An item of a list that is only white space, or not a string.
Blank == "blank"

Lists(items) == [isList : BOOLEAN, items : SUBSET (items \cup {Blank})]

Stage == [listed    : BOOLEAN,
          status    : Statuses \cup {"unknown"},
          evidence  : Lists(Files),
          limits    : Lists({"limit"}),
          rationale : {"text", "blank", "notString"}]

\* artifacts: the classifications of those whose file is absent.
Manifest == [wellFormed : BOOLEAN,
             absent     : SUBSET {"signoff", "engineering_only",
                                  "reference", "not_run"},
             stages     : [RequiredStages -> Stage],
             ready      : BOOLEAN]

\* nonempty_strings(value): a list all of whose items are non-blank strings.
NonemptyStrings(list) == list.isList /\ Blank \notin list.items

\* The loop over evidence: items of a rejected list are not looked at.
EvidenceMissing(stage, present) ==
  NonemptyStrings(stage.evidence) /\ ~(stage.evidence.items \subseteq present)

\* The stage contributes to errors.
StageInvalid(stage, present) ==
  \/ ~stage.listed
  \/ stage.status \notin Statuses
  \/ /\ stage.status \in {"pass", "engineering_only"}
     /\ ~NonemptyStrings(stage.evidence)
  \/ EvidenceMissing(stage, present)
  \/ /\ stage.status \in {"not_run", "blocked", "fail", "not_applicable"}
     /\ stage.rationale # "text"
  \/ stage.status = "pass" /\ ~NonemptyStrings(stage.limits)

\* Mutant of StageBlocks: engineering evidence closes a stage.
StageIsOpen(stage) ==
  stage.listed /\ stage.status \notin {"pass", "not_applicable", "engineering_only"}

\* The stage contributes to blockers.
StageBlocks(stage) ==
  stage.listed /\ stage.status \notin {"pass", "not_applicable"}

\* validate(path, "signoff")["status"].
Result(m, present) ==
  IF \/ ~m.wellFormed
     \/ m.absent \cap {"signoff", "engineering_only"} # {}
     \/ \E s \in RequiredStages : StageInvalid(m.stages[s], present)
  THEN "INVALID"
  ELSE IF ~m.ready \/ \E s \in RequiredStages : StageBlocks(m.stages[s])
  THEN "INCOMPLETE"
  ELSE "PASS"

(***************************************************************************)
(* The reference: the module docstring (4-8) and the messages the checker  *)
(* prints.                                                                 *)
(***************************************************************************)

\* A stage that may be released: it passed and every path it gives as evidence
\* is there, or it is declared not applicable with a justification.
Closed(stage, present) ==
  /\ stage.listed
  /\ \/ /\ stage.status = "pass"
        /\ stage.evidence.items \subseteq present
     \/ stage.status = "not_applicable" /\ stage.rationale = "text"
=============================================================================
