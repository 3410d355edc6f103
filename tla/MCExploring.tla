---------------------------- MODULE MCExploring ----------------------------
(***************************************************************************)
(* Three strategies, as in the code, whose areas may tie, on a pool        *)
(* smaller than the strategies are many.                                   *)
(***************************************************************************)
EXTENDS Exploring

MCAreas == {1, 2}
MCDep == <<0, 1, 2, 0, 4, 5, 0, 7, 8>>
=============================================================================
