------------------------------ MODULE StepList ------------------------------
(***************************************************************************)
(* The list of steps of a sequential flow, and how substitutions of a flow *)
(* class or of a configuration's meta.substituting_steps change it.        *)
(*                                                                         *)
(* A step of the list is its implementation's id and the number of its     *)
(* repetition, 0 for the first: OpenROAD.STAMidPNR-1 is the second         *)
(* OpenROAD.STAMidPNR.  A pattern names implementations; with `star' it    *)
(* matches their repetitions too, as "OpenROAD.STAMidPNR*" does.           *)
(***************************************************************************)
EXTENDS Naturals, Sequences, FiniteSets, SequencesExt

\* The sequence of what `op' makes of each place of a sequence of this length.
Built(length, op(_)) ==
  LET upto[i \in 0..length] == IF i = 0 THEN <<>> ELSE Append(upto[i - 1], op(i))
  IN  upto[length]

\* __normalize_step_ids: repetitions are numbered in the order of the list.
Normalized(steps) ==
  Built(Len(steps), LAMBDA i :
    [impl |-> steps[i].impl,
     n |-> Cardinality({j \in 1..i - 1 : steps[j].impl = steps[i].impl})])

\* fnmatch of a step's id with a pattern.
Matches(step, sub) == step.impl \in sub.names /\ (sub.star \/ step.n = 0)

Matching(steps, sub) == {i \in DOMAIN steps : Matches(steps[i], sub)}

\* What becomes of a list when `op' is applied for each of its places in turn.
InTurn(list, length, op(_, _)) ==
  LET upto[i \in 0..length] == IF i = 0 THEN list ELSE op(upto[i - 1], i)
  IN  upto[length]

\* The matching steps are deleted from the last to the first.
Without(steps, sub) == SelectSeq(steps, LAMBDA step : ~Matches(step, sub))

\* The matching indices are those of the list before the first insertion.
Inserting(steps, sub, new, by) ==
  InTurn(steps, Len(steps), LAMBDA list, i :
    IF i \in Matching(steps, sub) THEN InsertAt(list, i + by, new) ELSE list)

\* __substitute_step, for a pattern that matches something.
Substitute(steps, sub) ==
  LET new == [impl |-> sub.with, n |-> 0]
  IN  Normalized(CASE sub.mode = "remove"  -> Without(steps, sub)
                   [] sub.mode = "replace" -> Built(Len(steps), LAMBDA i :
                                                IF Matches(steps[i], sub) THEN new ELSE steps[i])
                   [] sub.mode = "append"  -> Inserting(steps, sub, new, 1)
                   [] sub.mode = "prepend" -> Inserting(steps, sub, new, 0))

\* __substitute_in_place: one after the other.
SubstituteAll(impls, subs) ==
  InTurn(Normalized(Built(Len(impls), LAMBDA i : [impl |-> impls[i]])), Len(subs),
         LAMBDA list, k : Substitute(list, subs[k]))

\* A pattern that matches nothing is a FlowException: the flow does not start.
AllApply(impls, subs) ==
  \A k \in DOMAIN subs :
    Matching(SubstituteAll(impls, SubSeq(subs, 1, k - 1)), subs[k]) # {}
=============================================================================
