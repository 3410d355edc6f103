--------------------------- MODULE MCSignoffGate ---------------------------
(***************************************************************************)
(* Values for model-checking SignoffGate: a clean layout, one whose faults  *)
(* show electrically and on the masks only, and one that fails at once and  *)
(* does not match its netlist either.  The routed DEF given for parasitics  *)
(* may be of any of them.                                                   *)
(***************************************************************************)
EXTENDS SignoffGate, TLC

CONSTANTS erc_electrical, sta_pvt  \* two of the required stages

MCFiles == Artifacts \cup {"nowhere"}

MCDefects == 1 :> {} @@ 2 :> {"erc", "ip62"} @@ 3 :> {"drc", "labels", "lvs"}

Plain == [manifest |-> FALSE, contract |-> FALSE, missing |-> {},
          netlistOnly |-> FALSE, mixed |-> FALSE, def |-> 0,
          defNamed |-> FALSE, fallback |-> 1, override |-> FALSE]
Release == [Plain EXCEPT !.manifest = TRUE, !.contract = TRUE]

\* Command lines that between them take every branch of the script.
MCOptions ==
  { Plain,
    Release,
    [Release EXCEPT !.missing = {"erc"}],
    [Plain EXCEPT !.manifest = TRUE, !.fallback = 2],
    [Release EXCEPT !.def = 3, !.defNamed = TRUE],
    [Release EXCEPT !.mixed = TRUE, !.def = 2, !.defNamed = TRUE, !.override = TRUE],
    [Plain EXCEPT !.netlistOnly = TRUE] }

List(items) == [isList |-> TRUE, items |-> items]

PassStage == [listed |-> TRUE, status |-> "pass", evidence |-> List({"ip62"}),
              limits |-> List({"limit"}), rationale |-> "blank"]
Waived == [PassStage EXCEPT !.status = "not_applicable", !.rationale = "text"]

\* Every status, with and without what the checker asks of it.
MCStages ==
  { [PassStage EXCEPT !.status = st, !.evidence = List(e), !.rationale = r] :
      st \in Statuses \cup {"unknown"},
      e \in {{}, {"drc", "ledger"}, {"nowhere"}, {Blank}},
      r \in {"text", "blank"} }
  \cup { [PassStage EXCEPT !.limits = l] :
           l \in {List({}), List({Blank}), [isList |-> FALSE, items |-> {}]} }
  \cup { [PassStage EXCEPT !.listed = FALSE],
         [Waived EXCEPT !.rationale = "notString"] }

MCManifests ==
  { [wellFormed |-> TRUE, absent |-> {}, ready |-> r,
     stages |-> erc_electrical :> s @@ sta_pvt :> Waived] :
       s \in MCStages, r \in BOOLEAN }
  \cup { [wellFormed |-> w, absent |-> a, ready |-> TRUE,
          stages |-> erc_electrical :> Waived @@ sta_pvt :> PassStage] :
            w \in BOOLEAN, a \in {{}, {"signoff"}, {"reference"}} }
=============================================================================
