------------------------------- MODULE PushOut -------------------------------
(* find_pushout of char_liberty.py: how close to the clock an input may move *)
(* before the flip-flop's delay grows by more than 5 %, found by bisection   *)
(* between an offset at which it does not and one at which it does.          *)
(*                                                                           *)
(* Offsets are counted on the grid that eight halvings of [0.1 ns, 25 ns]    *)
(* reach: 0 stands for 0.1 ns, 256 for 25 ns. A simulation passes at an      *)
(* offset if Q changed and was not late. Whether it does is any function of  *)
(* the offset: only Monotone says it is once and for all.                    *)
EXTENDS Integers

CONSTANTS Measurements      \* [0..Span -> BOOLEAN]: at which offsets the cell is in time

Span == 256
Halvings == 8
Grid == 0..Span
Unmeasured == -1            \* what the search has returned before it returns

ASSUME MeasurementsAssumption == Measurements \subseteq [Grid -> BOOLEAN]

VARIABLES pass, good, bad, turn, stage, constraint
searchVars == <<pass, good, bad, turn, stage, constraint>>

\* The first call asks whether Q changes at all where the input is far away;
\* that delay is the reference, so with an answer the far end passes.
SearchInit ==
  /\ pass \in Measurements
  /\ good = Span /\ bad = 0 /\ turn = 0
  /\ stage = "baseline" /\ constraint = Unmeasured

Baseline ==
  /\ stage = "baseline"
  /\ stage' = IF pass[Span] THEN "near" ELSE "no transition"
  /\ UNCHANGED <<pass, good, bad, turn, constraint>>

\* An input that may move as late as that is not constrained: 0.0, twice 0.
TryNear ==
  /\ stage = "near"
  /\ IF pass[bad] THEN stage' = "returned" /\ constraint' = 0
     ELSE stage' = "halving" /\ UNCHANGED constraint
  /\ UNCHANGED <<pass, good, bad, turn>>

Middle == (good + bad) \div 2

\* Mutant of Halve: every turn is counted twice.
HalvePatiently ==
  /\ stage = "halving" /\ turn < Halvings
  /\ IF pass[Middle] THEN good' = Middle /\ UNCHANGED bad ELSE bad' = Middle /\ UNCHANGED good
  /\ turn' = turn + 2
  /\ UNCHANGED <<pass, stage, constraint>>

Halve ==
  /\ stage = "halving" /\ turn < Halvings
  /\ IF pass[Middle] THEN good' = Middle /\ UNCHANGED bad ELSE bad' = Middle /\ UNCHANGED good
  /\ turn' = turn + 1
  /\ UNCHANGED <<pass, stage, constraint>>

\* The middle of the last interval, in half steps of the grid.
Return ==
  /\ stage = "halving" /\ turn = Halvings
  /\ stage' = "returned" /\ constraint' = good + bad
  /\ UNCHANGED <<pass, good, bad, turn>>

SearchNext == Baseline \/ TryNear \/ Halve \/ Return
SearchSpec == SearchInit /\ [][SearchNext]_searchVars
-----------------------------------------------------------------------------
SearchTypeOK ==
  /\ pass \in [Grid -> BOOLEAN]
  /\ good \in Grid /\ bad \in Grid /\ turn \in 0..Halvings
  /\ stage \in {"baseline", "near", "halving", "returned", "no transition"}
  /\ constraint \in {Unmeasured} \cup 0..(2 * Span)

\* Between two halvings the cell is in time at the one end and is not at the
\* other (find_pushout): what is looked for stays between them.
Bracketed == stage = "halving" => bad < good /\ pass[good] /\ ~pass[bad]

\* What is returned, in the halves of a step: less than a step from an offset at
\* which the cell was seen in time, and from one at which it was not.
WithinAStep ==
  stage = "returned" /\ constraint > 0 =>
    /\ good = bad + 1 /\ constraint = good + bad
    /\ pass[good] /\ ~pass[bad]

\* Being in time is a matter of being early enough.
Monotone == \A a, b \in Grid : a <= b /\ pass[a] => pass[b]

\* Then the constraint is right to half a step, whatever the cell: every offset
\* that is half a step above it is safe, every one half a step below is not.
\* It may lie in between, on the side that is not.
ConstraintIsTight ==
  stage = "returned" /\ constraint > 0 /\ Monotone =>
    \A o \in Grid : /\ 2 * o > constraint => pass[o]
                    /\ 2 * o < constraint => ~pass[o]
=============================================================================
