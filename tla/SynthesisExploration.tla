----------------------- MODULE SynthesisExploration -----------------------
(***************************************************************************)
(* The SynthesisExploration flow: an exploration of synthesis strategies   *)
(* in which a strategy may fail, and a table of what each came to.  Of the *)
(* five figures in the table the area stands for all.                      *)
(***************************************************************************)
EXTENDS Exploration, FiniteSetsExt

VARIABLES
  pc,         \* "submit", "collect", "tabulate", "done", "failed" or "exited"
  collected,  \* futures whose result() has returned or raised a StepError
  condensed,  \* options.set_condensed_mode
  results,    \* strategy -> its area, 0 for None
  table,      \* summary.rpt: strategy -> <<its area, whether it is marked green>>
  error       \* what ended the flow: "none", "ValueError" or "Exception"

main == <<pc, collected, condensed, results, table, error>>
vars == <<steps, main>>

NoTable == [s \in {} |-> 0]

Init == /\ StepsInit
        /\ pc = "submit"
        /\ collected = 0
        /\ condensed = TRUE
        /\ results = [s \in Strategy |-> 0]
        /\ table = NoTable
        /\ error = "none"

SubmitNext ==
  /\ pc = "submit"
  /\ SubmitStep
  /\ pc' = IF submitted' = NumTasks THEN "collect" ELSE "submit"
  /\ UNCHANGED <<collected, condensed, results, table, error>>

\* Mutant of Collect: what a failed strategy's synthesis measured is kept.
CollectMeasured ==
  LET s == collected + 1 IN
  /\ pc = "collect"
  /\ outcome[STA(s)] \in {"ok", "StepError"}
  /\ results' = [results EXCEPT ![s] = measured[s]]
  /\ collected' = s
  /\ IF s = NumStrategies THEN pc' = "tabulate" /\ condensed' = FALSE
                          ELSE UNCHANGED <<pc, condensed>>
  /\ UNCHANGED <<steps, table, error>>

\* future.result() returns or raises a StepError, which leaves None.
Collect ==
  LET s == collected + 1 IN
  /\ pc = "collect"
  /\ outcome[STA(s)] \in {"ok", "StepError"}
  /\ results' = [results EXCEPT ![s] = IF outcome[STA(s)] = "ok" THEN measured[s] ELSE 0]
  /\ collected' = s
  /\ IF s = NumStrategies THEN pc' = "tabulate" /\ condensed' = FALSE
                          ELSE UNCHANGED <<pc, condensed>>
  /\ UNCHANGED <<steps, table, error>>

Raise(e) == /\ pc' = "failed"
            /\ error' = e
            /\ UNCHANGED <<steps, collected, condensed, results, table>>

\* Anything but a StepError is not caught, and a metric may be missing.
CollectFails == /\ pc = "collect"
                /\ outcome[STA(collected + 1)] \in {"ok", "Exception"}
                /\ Raise("Exception")

Successful == {s \in Strategy : results[s] # 0}

Tabulate ==
  /\ pc = "tabulate"
  /\ Successful # {}
  /\ LET least == Min({results[s] : s \in Successful})
     IN table' = [s \in Strategy |-> <<results[s], results[s] = least>>]
  /\ pc' = "done"
  /\ UNCHANGED <<steps, collected, condensed, results, error>>

\* min() of no successful result.
TabulateFails == /\ pc = "tabulate"
                 /\ Successful = {}
                 /\ Raise("ValueError")

\* The interpreter lets the pool finish what was submitted before it exits.
Exit == /\ pc \in {"done", "failed"}
        /\ Drained
        /\ pc' = "exited"
        /\ UNCHANGED <<steps, collected, condensed, results, table, error>>

FlowWorks == \/ SubmitNext \/ Collect \/ CollectFails
             \/ Tabulate \/ TabulateFails \/ Exit

Next == (PoolWorks /\ UNCHANGED main) \/ FlowWorks

Spec == Init /\ [][Next]_vars

\* Workers and the flow's thread are scheduled, and the tools are taken to end.
FairSpec == Spec /\ WF_vars(PoolWorks /\ UNCHANGED main) /\ WF_vars(FlowWorks)
-----------------------------------------------------------------------------
(* Properties                                                              *)

\* A strategy all of whose steps succeeded.
Ok(s) == \A n \in Synthesis(s)..STA(s) : outcome[n] = "ok"

\* The table is final when it is written, whoever was faster: no step is left
\* over, a strategy has a figure exactly if each of its steps succeeded, the
\* figure is its own, and the marked ones are those no other one beats.
TableIsFaithful ==
  table # NoTable =>
    /\ Drained
    /\ \A s \in Strategy :
         /\ table[s][1] = IF Ok(s) THEN measured[s] ELSE 0
         /\ table[s][2] <=> Ok(s) /\ \A t \in Strategy : Ok(t) => measured[t] >= measured[s]
=============================================================================
