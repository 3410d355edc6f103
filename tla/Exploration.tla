---------------------------- MODULE Exploration ----------------------------
(***************************************************************************)
(* What the Optimizing and SynthesisExploration flows share: synthesis     *)
(* strategies tried side by side in the step pool, three steps each.  A    *)
(* flow submits a strategy's synthesis, which takes the flow's initial     *)
(* state, then its SDC check and its STA, each of which takes the future   *)
(* of the step before.                                                     *)
(***************************************************************************)
EXTENDS StepPool

CONSTANTS NumStrategies,  \* the strategies are 1..NumStrategies, in the code's order
          Areas           \* the values design__instance__area may take

Synthesis(s) == 3 * s - 2
STA(s) == 3 * s
StrategyOf(n) == (n + 2) \div 3

Chains == [n \in 1..(3 * NumStrategies) |-> IF n % 3 = 1 THEN 0 ELSE n - 1]

ASSUME ExplorationAssumption ==
  /\ NumStrategies \in Nat \ {0}
  /\ Areas \subseteq Nat \ {0}
  /\ NumTasks = 3 * NumStrategies
  /\ Dep = Chains

Strategy == 1..NumStrategies

VARIABLE measured   \* strategy -> the area its synthesis found, 0 before

steps == <<submitted, taken, blocked, running, outcome, measured>>

StepsInit == /\ PoolInit
             /\ measured = [s \in Strategy |-> 0]

SubmitStep == Submit /\ UNCHANGED measured

\* A synthesis that succeeds leaves its area in the metrics.
Measure(n, how) ==
  IF how = "ok" /\ n = Synthesis(StrategyOf(n))
  THEN \E a \in Areas : measured' = [measured EXCEPT ![StrategyOf(n)] = a]
  ELSE UNCHANGED measured

PoolWorks ==
  \/ Take /\ UNCHANGED measured
  \/ \E n \in Task : GotInput(n) /\ UNCHANGED measured
  \/ \E n \in Task : InheritsError(n) /\ UNCHANGED measured
  \/ \E n \in Task, how \in {"ok"} \cup Errors :
       Return(n, how) /\ Measure(n, how)

\* All steps handed to the pool are over.
Drained == taken = submitted /\ blocked \cup running = {}
=============================================================================
