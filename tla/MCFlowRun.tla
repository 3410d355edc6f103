----------------------------- MODULE MCFlowRun -----------------------------
(***************************************************************************)
(* Values for model-checking FlowRun: three steps, the second of them      *)
(* composite with two sub-steps.                                           *)
(***************************************************************************)
EXTENDS FlowRun, TLC

MCParts == 1 :> 0 @@ 2 :> 2 @@ 3 :> 0

Plain == [frm |-> 0, to |-> 0, repro |-> 0, skip |-> {}, given |-> FALSE, overwrite |-> FALSE]

\* Command lines that between them use every option, alone and in the
\* combinations the loop treats differently.
MCRequests ==
  { Plain,
    [Plain EXCEPT !.overwrite = TRUE, !.skip = {2}, !.repro = 3],
    [Plain EXCEPT !.frm = 2, !.to = 2],
    [Plain EXCEPT !.given = TRUE, !.frm = 3, !.to = 1] }

\* A state file from elsewhere has a view of the first step.
MCAbroad == {{<<1, 0>>}}
=============================================================================
