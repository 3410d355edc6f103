---------------------------- MODULE Optimizing ----------------------------
(***************************************************************************)
(* The Optimizing flow: an exploration of synthesis strategies, then       *)
(* floorplanning and placement of the best of them by the flow's own       *)
(* thread, at a high utilization and, if that fails, at a low one.         *)
(***************************************************************************)
EXTENDS Exploration, Sequences

VARIABLES
  pc,         \* "submit", "collect", "place", "done", "failed" or "exited"
  collected,  \* futures whose result() has returned
  quiet,      \* the log level is ERROR
  chosen,     \* min_strat, 0 before it is known
  util,       \* "high" or "low"
  place,      \* the placement step that is next: 1, 2 or 3
  view,       \* the state handed on: the strategy and the placement steps behind it
  error       \* what ended the flow: "none", "StepError" or "Exception"

main == <<pc, collected, quiet, chosen, util, place, view, error>>
vars == <<steps, main>>

NoView == [strategy |-> 0, steps |-> <<>>]

Init == /\ StepsInit
        /\ pc = "submit"
        /\ collected = 0
        /\ quiet = TRUE
        /\ chosen = 0
        /\ util = "high"
        /\ place = 1
        /\ view = NoView
        /\ error = "none"

-----------------------------------------------------------------------------
(* Synthesis exploration                                                   *)

SubmitNext ==
  /\ pc = "submit"
  /\ SubmitStep
  /\ pc' = IF submitted' = NumTasks THEN "collect" ELSE "submit"
  /\ UNCHANGED <<collected, quiet, chosen, util, place, view, error>>

\* Mutant of Best: "<=" instead of "<", so that the last of several is kept.
BestLast == CHOOSE s \in Strategy : \A t \in Strategy :
              /\ measured[t] >= measured[s]
              /\ t > s => measured[t] > measured[s]

\* The loop that keeps the least area takes the first of several.
Best == CHOOSE s \in Strategy : \A t \in Strategy :
          /\ measured[t] >= measured[s]
          /\ t < s => measured[t] > measured[s]

\* Mutant of Collect: the futures of the SDC checks are collected.
CollectEarly ==
  /\ pc = "collect"
  /\ outcome[STA(collected + 1) - 1] = "ok"
  /\ collected' = collected + 1
  /\ IF collected' = NumStrategies
     THEN /\ pc' = "place"
          /\ quiet' = FALSE
          /\ chosen' = Best
          /\ view' = [strategy |-> Best, steps |-> <<>>]
     ELSE UNCHANGED <<pc, quiet, chosen, view>>
  /\ UNCHANGED <<steps, util, place, error>>

\* future.result() returns.  Behind the last one the log level is restored and
\* the states are compared.
Collect ==
  /\ pc = "collect"
  /\ outcome[STA(collected + 1)] = "ok"
  /\ collected' = collected + 1
  /\ IF collected' = NumStrategies
     THEN /\ pc' = "place"
          /\ quiet' = FALSE
          /\ chosen' = Best
          /\ view' = [strategy |-> Best, steps |-> <<>>]
     ELSE UNCHANGED <<pc, quiet, chosen, view>>
  /\ UNCHANGED <<steps, util, place, error>>

Raise(e) == /\ pc' = "failed"
            /\ error' = e
            /\ UNCHANGED <<steps, collected, quiet, chosen, util, place, view>>

\* future.result() raises, and nothing here catches it: the log level stays.
CollectFails == /\ pc = "collect"
                /\ outcome[STA(collected + 1)] \in Errors
                /\ Raise(outcome[STA(collected + 1)])

-----------------------------------------------------------------------------
(* Floorplanning (1), I/O placement (2) and global placement (3)           *)

PlaceStep ==
  /\ pc = "place"
  /\ view' = [view EXCEPT !.steps = Append(@, <<util, place>>)]
  /\ IF place = 3 THEN pc' = "done" /\ UNCHANGED place
                  ELSE place' = place + 1 /\ UNCHANGED pc
  /\ UNCHANGED <<steps, collected, quiet, chosen, util, error>>

\* The `try' holds the high utilization's steps but the floorplan.
InTry == util = "high" /\ place > 1

FallBack ==
  /\ pc = "place"
  /\ InTry
  /\ util' = "low"
  /\ place' = 1
  /\ view' = [strategy |-> chosen, steps |-> <<>>]
  /\ UNCHANGED <<steps, pc, collected, quiet, chosen, error>>

PlaceFails == /\ pc = "place"
              /\ \E e \in Errors : (e = "StepError" => ~InTry) /\ Raise(e)

\* The interpreter lets the pool finish what was submitted before it exits.
Exit == /\ pc \in {"done", "failed"}
        /\ Drained
        /\ pc' = "exited"
        /\ UNCHANGED <<steps, collected, quiet, chosen, util, place, view, error>>

FlowWorks == \/ SubmitNext \/ Collect \/ CollectFails
             \/ PlaceStep \/ FallBack \/ PlaceFails \/ Exit

Next == (PoolWorks /\ UNCHANGED main) \/ FlowWorks

Spec == Init /\ [][Next]_vars

\* Workers and the flow's thread are scheduled, and the tools are taken to end.
FairSpec == Spec /\ WF_vars(PoolWorks /\ UNCHANGED main) /\ WF_vars(FlowWorks)
-----------------------------------------------------------------------------
(* Properties                                                              *)

\* When floorplanning starts no strategy's step is left in the pool, queued,
\* waiting or running, and none has failed: the run directory is the flow's own.
StageEndsQuiet ==
  pc \in {"place", "done"} =>
    Drained /\ submitted = NumTasks /\ \A n \in 1..NumTasks : outcome[n] = "ok"

\* The state each placement step is given, and the one the flow returns, was made
\* from the chosen strategy by the steps before it, all of the same utilization.
OneUtilization ==
  pc \in {"place", "done"} =>
    /\ view.strategy = chosen
    /\ view.steps = [i \in 1..(IF pc = "done" THEN 3 ELSE place - 1) |-> <<util, i>>]

\* Whatever the order the pool ran the strategies in, the choice is made once all
\* are in, and made by their areas and the order of the list alone.
Choice == INSTANCE StrategyChoice WITH
            area   <- [s \in Strategy |-> IF outcome[STA(s)] = "ok" THEN measured[s] ELSE 0],
            failed <- {s \in Strategy : outcome[STA(s)] \in Errors},
            choice <- chosen,
            gaveUp <- (pc \in {"failed", "exited"} /\ chosen = 0)
ImplementsChoice == Choice!ChoiceSpec
=============================================================================
