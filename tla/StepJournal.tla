---------------------------- MODULE StepJournal ----------------------------
(***************************************************************************)
(* What a run directory promises to the flows that share its tag, with no  *)
(* files, ordinals on disk or modification times left: a journal of step   *)
(* results that is only ever appended to, and a working state ("head")     *)
(* that a run opens from the last journal entry, blank if there is none,   *)
(* or, if the user asks for it, from views of whichever entries he names.  *)
(*                                                                         *)
(* A journal entry is named by a place <<o, k>>: the ordinal of the step   *)
(* directory and, for a part of a composite step, the number of the part   *)
(* (0 for the step itself).  A design state maps every key (a step and     *)
(* one of its parts) to the ordinal of the directory that holds the view,  *)
(* to 0 when there is no view, or to Elsewhere when the journal has not    *)
(* made it.                                                                *)
(***************************************************************************)
EXTENDS Integers

CONSTANTS Key,      \* the views a design state may hold
          Elsewhere \* where a view from outside comes from

VARIABLES journal,  \* place -> design state, for the places written so far
          head,     \* the design state the running flow hands to its next step
          live,     \* whether a flow is running in the directory
          given     \* whether that flow, or else the last, was given a state

jvars == <<journal, head, live, given>>

Blank == [key \in Key |-> 0]

\* Place f comes after place g: in a later directory, or later in the same
\* one, where a composite step's own entry closes those of its parts.
After(f, g) ==
  \/ f[1] > g[1]
  \/ /\ f[1] = g[1]
     /\ g[2] # 0
     /\ f[2] = 0 \/ f[2] > g[2]

IsLast(f) == /\ f \in DOMAIN journal
             /\ \A g \in DOMAIN journal \ {f} : After(f, g)

JInit == /\ journal = [f \in {} |-> Blank]
         /\ head = Blank
         /\ live = FALSE
         /\ given \in BOOLEAN

\* A run opens the journal with its last entry. A state that is given is put
\* together of views from outside and of any entries, old ones too.
Open == /\ ~live
        /\ live' = TRUE /\ given' \in BOOLEAN
        /\ \/ ~given' /\ DOMAIN journal = {} /\ head' = Blank
           \/ ~given' /\ \E f \in DOMAIN journal : IsLast(f) /\ head' = journal[f]
           \/ given' /\ \A key \in Key : head'[key] \in {0, Elsewhere} \cup
                                            {journal[f][key] : f \in DOMAIN journal}
        /\ UNCHANGED journal

\* A run that overwrites the tag starts over.
StartOver == /\ ~live
             /\ live' = TRUE /\ given' \in BOOLEAN
             /\ \A key \in Key : head'[key] \in {0, Elsewhere}
             /\ given' \/ head' = Blank
             /\ journal' = [f \in {} |-> Blank]

\* Entries are lost only while nobody runs, by an overwrite that was cut short.
Lose == /\ ~live
        /\ \E kept \in SUBSET DOMAIN journal :
             journal' = [f \in kept |-> journal[f]]
        /\ UNCHANGED <<head, live, given>>

\* One entry is added behind all others.  It differs from the working state
\* only in views of its own directory; the entry of a whole step becomes the
\* working state, that of a part does not.
Record(f) ==
  /\ live
  /\ \A g \in DOMAIN journal : After(f, g)
  /\ DOMAIN journal' = DOMAIN journal \cup {f}
  /\ \A g \in DOMAIN journal : journal'[g] = journal[g]
  /\ \A key \in Key : journal'[f][key] \in {f[1], head[key]}
  /\ head' = IF f[2] = 0 THEN journal'[f] ELSE head
  /\ UNCHANGED <<live, given>>

Close == /\ live
         /\ live' = FALSE
         /\ head' = Blank
         /\ UNCHANGED <<journal, given>>

JNext == Open \/ StartOver \/ Lose \/ Close \/ \E f \in DOMAIN journal' : Record(f)

JSpec == JInit /\ [][JNext]_jvars
=============================================================================
