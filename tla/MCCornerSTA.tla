---------------------------- MODULE MCCornerSTA ----------------------------
(***************************************************************************)
(* TLC instances of TimingCheck: four corners with up to three lists of    *)
(* files on two threads.  The slack is never zero in the one and may be in *)
(* the other.  The lists of wildcards: none, "", "*", two corners, one with *)
(* another that matches nothing, and a corner of an earlier analysis.      *)
(***************************************************************************)
EXTENDS TimingCheck

NonZero == {-1, 1, 2}
WithZero == {-1, 0, 1}

Wildcard(corners) == [matches |-> corners, blank |-> FALSE]
Blank == [matches |-> {}, blank |-> TRUE]
MCSelections == {{}, {Blank}, {Wildcard(AnyCorner)}, {Wildcard({2, 3} \cap Corner)},
                 {Wildcard({1}), Wildcard({})}, {Wildcard(Former)}}

\* Slacks left by an analysis of the second corner, or of one that is not in
\* STA_CORNERS any more.
MCPasts == {[c \in S |-> s] : S \in {{}, {2} \cap Corner, Former}, s \in {-1, 1}}
=============================================================================
