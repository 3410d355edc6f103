-------------------------- MODULE StrategyChoice --------------------------
(***************************************************************************)
(* What the first stage of the Optimizing flow promises, with no steps,    *)
(* futures, workers or order of arrival left: every strategy comes to one  *)
(* verdict, and the choice depends on nothing but the verdicts.            *)
(***************************************************************************)
EXTENDS Naturals

CONSTANTS NumStrategies,  \* the strategies are 1..NumStrategies, in the code's order
          Areas           \* the areas a synthesis may come to, none of them 0

Strategy == 1..NumStrategies

VARIABLES area,    \* strategy -> the area it came to, 0 as long as it did not
          failed,  \* the strategies with a step that failed
          choice,  \* the strategy chosen, 0 for none
          gaveUp   \* no strategy will be chosen

cvars == <<area, failed, choice, gaveUp>>

ChoiceInit == /\ area = [s \in Strategy |-> 0]
              /\ failed = {}
              /\ choice = 0
              /\ gaveUp = FALSE

Succeed(s) == /\ area[s] = 0 /\ s \notin failed
              /\ \E a \in Areas : area' = [area EXCEPT ![s] = a]
              /\ UNCHANGED <<failed, choice, gaveUp>>

Fail(s) == /\ area[s] = 0
           /\ failed' = failed \cup {s}
           /\ UNCHANGED <<area, choice, gaveUp>>

\* The first of the strategies with the least area.
IsBest(s) == \A t \in Strategy : /\ area[t] >= area[s]
                                 /\ t < s => area[t] > area[s]

Choose == /\ choice = 0 /\ ~gaveUp
          /\ failed = {}
          /\ \A s \in Strategy : area[s] # 0
          /\ choice' \in {s \in Strategy : IsBest(s)}
          /\ UNCHANGED <<area, failed, gaveUp>>

GiveUp == /\ choice = 0
          /\ failed # {}
          /\ gaveUp' = TRUE
          /\ UNCHANGED <<area, failed, choice>>

ChoiceNext == (\E s \in Strategy : Succeed(s) \/ Fail(s)) \/ Choose \/ GiveUp

ChoiceSpec == ChoiceInit /\ [][ChoiceNext]_cvars
=============================================================================
