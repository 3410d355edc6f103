----------------------------- MODULE Exploring -----------------------------
(***************************************************************************)
(* The two flows that explore synthesis strategies, on one step pool: a    *)
(* process runs the Optimizing flow or the SynthesisExploration flow, and  *)
(* which it is is chosen first.                                            *)
(***************************************************************************)
EXTENDS Optimizing

VARIABLES flow,                                  \* "Optimizing" or "SynthesisExploration"
          at, gathered, condensed, results, table, trouble

S == INSTANCE SynthesisExploration WITH pc <- at, collected <- gathered, error <- trouble

exploring == <<at, gathered, condensed, results, table, trouble>>
allVars == <<flow, vars, exploring>>

FlowInit == /\ flow \in {"Optimizing", "SynthesisExploration"}
            /\ Init
            /\ S!Init

OptimizingRuns(step) == flow = "Optimizing" /\ step /\ UNCHANGED <<flow, exploring>>
ExplorationRuns(step) == flow = "SynthesisExploration" /\ step /\ UNCHANGED <<flow, main>>

FlowNext == OptimizingRuns(Next) \/ ExplorationRuns(S!Next)

PoolRuns == PoolWorks /\ UNCHANGED <<flow, main, exploring>>
FlowRuns == OptimizingRuns(FlowWorks) \/ ExplorationRuns(S!FlowWorks)

FlowSpec == FlowInit /\ [][FlowNext]_allVars /\ WF_allVars(PoolRuns) /\ WF_allVars(FlowRuns)

\* What either flow ends with is what it did: the table shows each strategy as what
\* it came to, once nothing is left over (SynthesisExploration!TableIsFaithful), and
\* the placed state was made by the steps of one strategy and one utilization.
OutcomeIsFaithful == S!TableIsFaithful /\ OneUtilization

\* Either flow's process comes to its end, with however few workers.
FlowExits == <>("exited" \in {pc, at})
=============================================================================
