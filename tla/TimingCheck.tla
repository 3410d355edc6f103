----------------------------- MODULE TimingCheck -----------------------------
(***************************************************************************)
(* The timing checkers on the metrics of a multi-corner analysis:          *)
(* TimingViolations (steps/checker.py), which selects corners by the       *)
(* wildcards of its own variable, or else of TIMING_VIOLATION_CORNERS.     *)
(*                                                                         *)
(* The metrics are those of the state: this analysis' for the corners it   *)
(* submitted, and for any other corner those an earlier step or run has    *)
(* left (Step.start lays new metrics over old ones, step.py:1177-1179): of *)
(* the mid-PnR analyses, of STAPrePNR, of a run that is resumed.           *)
(*                                                                         *)
(* A wildcard is the corners it matches, and whether it is "", which is    *)
(* there to match none.                                                    *)
(***************************************************************************)
EXTENDS CornerSTA

CONSTANTS Former,      \* corners of earlier analyses that STA_CORNERS leaves out
          Selections,  \* bound: the lists of wildcards a variable may be given
          Pasts        \* bound: the slacks that earlier analyses may have left

AnyCorner == Corner \cup Former

ASSUME SelectionsAssumption ==
  /\ Selections \subseteq SUBSET [matches : SUBSET AnyCorner, blank : BOOLEAN]
  /\ \A p \in Pasts : DOMAIN p \subseteq AnyCorner /\ \A c \in DOMAIN p : p[c] \in Int

VARIABLES wildcards,  \* those the checker used
          past,       \* corner -> the slack an earlier analysis left in the state
          verdict     \* of the checker: "none", "clear" or "error"

timingVars == <<staVars, wildcards, past, verdict>>

NoPast == [c \in {} |-> 0]

\* An empty list gives way to the base variable's; "" is left out of either.
Wildcards(own, common) == {w \in IF own = {} THEN common ELSE own : ~w.blank}

Selected == UNION {w.matches : w \in wildcards'}

\* The corners that have metrics, and what theirs says.
WithMetrics == Submitted \cup DOMAIN past'
Reading(c) == IF c \in Submitted THEN slack[files[c]] ELSE past'[c]
Violating == {c \in WithMetrics : Reading(c) < 0}

\* Mutant of Erring: the corners that were not selected cause the errors.
ErringElsewhere == Violating \ Selected

\* The violations of corners that were not selected are warned of only.
Erring == Violating \cap Selected

\* Only the corners that have metrics can be matched.
Unmatched == {w \in wildcards' : w.matches \cap WithMetrics = {}}

\* Without metrics there is nothing to check.
Check ==
  /\ result.is = "metrics"
  /\ verdict = "none"
  /\ \E own, common \in Selections : wildcards' = Wildcards(own, common)
  /\ past' \in Pasts
  /\ verdict' = IF WithMetrics # {} /\ (Unmatched # {} \/ Erring # {}) THEN "error" ELSE "clear"
  /\ UNCHANGED staVars

TimingInit == StaInit /\ wildcards = {} /\ past = NoPast /\ verdict = "none"

TimingNext == (StaNext /\ UNCHANGED <<wildcards, past, verdict>>) \/ Check

TimingSpec == TimingInit /\ [][TimingNext]_timingVars /\ StaFairness
-----------------------------------------------------------------------------
\* No wildcard tells corners with the same files apart.
TwinsTogether ==
  \A w \in wildcards, c, d \in Corner : files[c] = files[d] => (c \in w.matches <=> d \in w.matches)

Analysed == {c \in Corner : answer[c] = "done"}

\* A checker that lets the flow go on has found a corner with metrics for every
\* wildcard, analysed now or else at an earlier time, and no corner selected whose
\* latest metrics show a violation.  The corners of this analysis are then all
\* clean, the skipped ones included, unless a wildcard selects a corner and not
\* the one that was analysed for it: that corner is judged by what an earlier
\* analysis found, of a design before it was routed, and is refused if none did.
SelectionIsJudged ==
  verdict = "clear" /\ NumCorners > 0 =>
    /\ \A w \in wildcards : w.matches \cap (Analysed \cup DOMAIN past) # {}
    /\ \A w \in wildcards :
         /\ \A c \in w.matches \cap Analysed : slack[files[c]] >= 0
         /\ \A c \in (w.matches \cap DOMAIN past) \ Analysed : past[c] >= 0
    /\ TwinsTogether => \A w \in wildcards : \A c \in w.matches \cap Corner : slack[files[c]] >= 0
=============================================================================
