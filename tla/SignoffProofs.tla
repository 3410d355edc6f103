---------------------------- MODULE SignoffProofs ----------------------------
(***************************************************************************)
(* What the tapeout gate and the evidence runners let pass deserves it.    *)
(* The gate judges the layout it is run on, for every layout, report       *)
(* directory, command line and manifest, if the four tools whose output is *)
(* read by a later gate, or as evidence, write it whenever they exit 0.    *)
(* The DEF that its parasitics are taken from is not judged by anything.   *)
(* What a runner lets pass has been simulated and is clean, for contracts  *)
(* of any size and whatever the tools print.                               *)
(***************************************************************************)
EXTENDS SignoffGate, Evidence, FiniteSetTheorems, WellFoundedInduction, TLAPS

(* The tapeout gate                                                        *)

\* The gate relies on these tools (see Hollow); LVS has its marker instead.
Candid == Hollow \cap {"drc", "mdp", "ip62", "ledger"} = {}

GateTypeOK ==
  /\ layout \in Revision
  /\ files \in [Artifacts -> SUBSET Revision]
  /\ stage \in Stages \cup {"idle"}
  /\ options \in OptionSet
  /\ disturbed \in BOOLEAN

\* The stages behind each gate.
PastRcx == {"manifest"}
PastIp62 == {"rcx"} \cup PastRcx
PastMdp == {"ip62"} \cup PastIp62
PastLvs == {"mdp"} \cup PastMdp
PastErc == {"lvs"} \cup PastLvs
PastLabels == {"erc"} \cup PastErc
PastDrc == {"labels"} \cup PastLabels
PastPrecheck == {"drc"} \cup PastDrc

Passes(gate) == gate \notin Defects[layout]

\* What a run over one layout has established when it stands at a stage: the
\* layout deserves every gate behind it, and their files were made from it.
Established ==
  /\ stage \in PastPrecheck => Passes("precheck")
  /\ stage \in PastDrc => Passes("drc") /\ files["drc"] = {layout}
  /\ stage \in PastLabels => Passes("labels") /\ files["labels"] = {layout}
  /\ stage \in PastErc /\ options.contract => Passes("erc")
  /\ stage \in PastLvs => Passes("lvs") /\ files["extracted"] = {layout}
  /\ stage \in PastMdp => files["mdp"] = {layout}
  /\ stage \in PastIp62 => Passes("ip62") /\ files["ip62"] = {layout}
  /\ stage \in PastRcx /\ ~options.override =>
       files["ledger"] = {layout, RcxDef(options)}

\* A run has no verdict before it ends, so a killed one leaves none.
Undecided == stage # "idle" => verdict = "none"

GateInv ==
  /\ GateTypeOK
  /\ Undecided
  /\ ~disturbed => Established
  /\ VerdictIsDeserved
  /\ ReleaseIsClosed

----------------------------------------------------------------------------
\* A file whose tool is not hollow is there, and made from what it was run on.
LEMMA NotHollow ==
  ASSUME NEW a, NEW made, NEW got \in Written(a, made), a \notin Hollow
  PROVE  got = made
  BY DEF Written

LEMMA CandidFiles ==
  ASSUME Candid
  PROVE  "drc" \notin Hollow /\ "mdp" \notin Hollow /\ "ip62" \notin Hollow
         /\ "ledger" \notin Hollow
  BY DEF Candid

\* While a run goes on, and behind one that ends without PASS and without
\* blaming the layout, there is nothing to deserve.
LEMMA NothingSaid ==
  ASSUME ~Steady' \/ verdict' \notin Gates \cup {"pass"}
  PROVE  VerdictIsDeserved' /\ ReleaseIsClosed'
  BY DEF VerdictIsDeserved, PassMeansClean, PassLeavesCurrentEvidence, BlameIsDeserved,
         ReleaseIsClosed, Gates

\* A gate that stops the run is right to, if the layout deserves it.
LEMMA DeservedBlame ==
  ASSUME Exit("precheck") \/ Exit("drc") \/ Exit("labels") \/ Exit("erc") \/ Exit("lvs")
           \/ Exit("ip62"),
         ~disturbed' => \/ verdict' = "lvs"
                        \/ verdict' \in Defects[layout']
                        \/ verdict' = "erc" /\ "erc" \in options'.missing
  PROVE  VerdictIsDeserved' /\ ReleaseIsClosed'
  BY DEF Exit, VerdictIsDeserved, PassMeansClean, PassLeavesCurrentEvidence,
         BlameIsDeserved, ReleaseIsClosed, Steady

LEMMA GateInit == Init => GateInv
<1> SUFFICES ASSUME Init PROVE GateInv
  OBVIOUS
<1>1. GateTypeOK
  <2>1. files \in [Artifacts -> SUBSET Revision]
    BY DEF Init
  <2>2. options \in OptionSet
    BY GateAssumption DEF Init
  <2>3. QED
    BY <2>1, <2>2 DEF Init, GateTypeOK
<1>2. Undecided /\ Established
  BY DEF Init, Undecided, Established, PastPrecheck, PastDrc, PastLabels, PastErc,
         PastLvs, PastMdp, PastIp62, PastRcx
<1>3. VerdictIsDeserved /\ ReleaseIsClosed
  BY DEF Init, VerdictIsDeserved, PassMeansClean, PassLeavesCurrentEvidence,
         BlameIsDeserved, ReleaseIsClosed, Gates
<1>4. QED
  BY <1>1, <1>2, <1>3 DEF GateInv

LEMMA GateTypeNext ==
  ASSUME GateTypeOK, Next
  PROVE  GateTypeOK'
<1>1. CASE Edit
  BY <1>1 DEF Edit, GateTypeOK
<1>2. CASE Start
  BY <1>2, GateAssumption DEF Start, GateTypeOK, Stages
<1>3. CASE Interrupt
  BY <1>3 DEF Interrupt, GateTypeOK
<1>4. CASE CheckInputs
  BY <1>4 DEF CheckInputs, GateTypeOK, Continue, GoTo, Exit, Unread, Stages
<1>5. CASE ToolFails
  <2>1. files' \in [Artifacts -> SUBSET Revision]
    BY <1>5, GateAssumption DEF ToolFails, GateTypeOK
  <2>2. QED
    BY <1>5, <2>1 DEF ToolFails, GateTypeOK, Exit, Unread
<1>6. CASE Precheck
  BY <1>6 DEF Precheck, GateTypeOK, Continue, GoTo, Exit, Unread, Stages
<1>7. CASE DrawingDrc
  BY <1>7, GateAssumption DEF DrawingDrc, GateTypeOK, Continue, GoTo, Exit, Unread, Stages, Written,
     Revision, Artifacts
<1>8. CASE Labels
  BY <1>8, GateAssumption DEF Labels, GateTypeOK, Continue, GoTo, Exit, Unread, Stages,
     Revision, Artifacts
<1>9. CASE Erc
  BY <1>9 DEF Erc, GateTypeOK, Continue, GoTo, Exit, Unread, Stages
<1>10. CASE Lvs
  BY <1>10, GateAssumption DEF Lvs, GateTypeOK, Continue, GoTo, Exit, Unread, Stages, Written,
     Revision, Artifacts
<1>11. CASE Mdp
  BY <1>11, GateAssumption DEF Mdp, GateTypeOK, Continue, GoTo, Exit, Unread, Stages, Written,
     Revision, Artifacts
<1>12. CASE Ip62
  BY <1>12, GateAssumption DEF Ip62, GateTypeOK, Continue, GoTo, Exit, Unread, Stages, Written,
     Revision, Artifacts
<1>13. CASE Rcx
  <2>1. RcxDef(options) # 0 => RcxInputs \in SUBSET Revision
    <3>1. RcxDef(options) \in 0 .. MaxRev
      BY GateAssumption DEF RcxDef, GateTypeOK, OptionSet
    <3>2. RcxDef(options) # 0 => RcxDef(options) \in Revision
      BY <3>1, GateAssumption DEF Revision
    <3>3. files["extracted"] \in SUBSET Revision
      BY DEF GateTypeOK, Artifacts
    <3>4. QED
      BY <3>2, <3>3 DEF RcxInputs, GateTypeOK
  <2>2. files' \in [Artifacts -> SUBSET Revision]
    <3>1. CASE RcxDef(options) = 0
      BY <1>13, <3>1 DEF Rcx, GateTypeOK
    <3>2. CASE RcxDef(options) # 0
      <4>1. PICK spef \in Written("spef", RcxInputs),
                 ledger \in IF options.override THEN {files["ledger"]}
                            ELSE Written("ledger", RcxInputs) :
              files' = [files EXCEPT !["spef"] = spef, !["ledger"] = ledger]
        BY <1>13, <3>2 DEF Rcx
      <4>2. spef \in SUBSET Revision /\ ledger \in SUBSET Revision
        BY <2>1, <3>2, <4>1 DEF Written, GateTypeOK, Artifacts
      <4>3. QED
        BY <4>1, <4>2 DEF GateTypeOK
    <3>3. QED
      BY <3>1, <3>2
  <2>3. stage' \in Stages \cup {"idle"}
    BY <1>13 DEF Rcx, GoTo, Exit, Stages
  <2>4. QED
    BY <1>13, <2>2, <2>3 DEF Rcx, GateTypeOK, Unread
<1>14. CASE CheckManifest
  BY <1>14 DEF CheckManifest, GateTypeOK, Exit
<1>15. QED
  BY <1>1, <1>2, <1>3, <1>4, <1>5, <1>6, <1>7, <1>8, <1>9, <1>10, <1>11, <1>12, <1>13,
     <1>14 DEF Next

LEMMA UndecidedNext ==
  ASSUME Undecided, Next
  PROVE  Undecided'
  BY DEF Undecided, Next, Edit, Start, Interrupt, CheckInputs, ToolFails, Precheck,
         DrawingDrc, Labels, Erc, Lvs, Mdp, Ip62, Rcx, CheckManifest, Continue, GoTo, Exit

\* The parasitics are of the netlist at hand, and disturb no other gate's file.
LEMMA RcxKeeps ==
  ASSUME GateTypeOK, Candid, Rcx, RcxDef(options) # 0
  PROVE  /\ \A a \in {"drc", "labels", "extracted", "mdp", "ip62"} : files'[a] = files[a]
         /\ ~options.override => files'["ledger"] = RcxInputs
<1>1. PICK spef \in Written("spef", RcxInputs),
           ledger \in IF options.override THEN {files["ledger"]}
                      ELSE Written("ledger", RcxInputs) :
        files' = [files EXCEPT !["spef"] = spef, !["ledger"] = ledger]
  BY DEF Rcx
<1>2. ~options.override => ledger = RcxInputs
  BY <1>1, CandidFiles, NotHollow
<1>3. QED
  BY <1>1, <1>2 DEF GateTypeOK, Artifacts

\* A gate's tool goes on only if its layout deserves it, and by then its file
\* was made from that layout.
LEMMA EstablishedNext ==
  ASSUME GateTypeOK, Candid, Next, ~disturbed => Established, ~disturbed'
  PROVE  Established'
<1> USE DEF Established, Passes, PastPrecheck, PastDrc, PastLabels, PastErc, PastLvs,
        PastMdp, PastIp62, PastRcx
<1>a. layout # 0
  BY GateAssumption DEF GateTypeOK, Revision
<1>1. CASE Edit
  BY <1>1 DEF Edit
<1>2. CASE Start
  BY <1>2 DEF Start
<1>3. CASE Interrupt
  BY <1>3 DEF Interrupt
<1>4. CASE CheckInputs
  BY <1>4 DEF CheckInputs, Continue, GoTo, Exit, Unread
<1>5. CASE ToolFails
  BY <1>5 DEF ToolFails, Exit
<1>6. CASE Precheck
  BY <1>6 DEF Precheck, Continue, GoTo, Exit, Unread
<1>7. CASE DrawingDrc
  <2>1. PICK made \in Written("drc", {layout}) :
          /\ files' = [files EXCEPT !["drc"] = made]
          /\ Continue(~Faulty("drc", made), "labels", "drc")
    BY <1>7 DEF DrawingDrc
  <2>2. made = {layout}
    BY <2>1, CandidFiles, NotHollow
  <2>3. files'["drc"] = {layout}
    BY <2>1, <2>2 DEF GateTypeOK, Artifacts
  <2>4. QED
    BY <1>7, <2>1, <2>2, <2>3 DEF DrawingDrc, Continue, GoTo, Exit, Unread, Faulty
<1>8. CASE Labels
  <2>1. CASE ErcAbsent
    BY <1>8, <2>1 DEF Labels, Exit
  <2>2. CASE ~ErcAbsent
    <3>1. files' = [files EXCEPT !["labels"] = {layout}]
      BY <1>8, <2>2 DEF Labels
    <3>2. files'["labels"] = {layout} /\ files'["drc"] = files["drc"]
      BY <3>1 DEF GateTypeOK, Artifacts
    <3>3. QED
      BY <1>8, <2>2, <3>2 DEF Labels, Continue, GoTo, Exit, Unread
  <2>3. QED
    BY <2>1, <2>2
<1>9. CASE Erc
  BY <1>9 DEF Erc, Continue, GoTo, Exit, Unread, Faulty
<1>10. CASE Lvs
  <2>1. PICK made \in Written("extracted", {layout}) :
          /\ files' = [files EXCEPT !["extracted"] = made]
          /\ Continue(/\ made = {layout}
                      /\ "lvs" \notin Defects[layout]
                      /\ ~options.netlistOnly,
                      "mdp", "lvs")
    BY <1>10 DEF Lvs
  <2>2. /\ files'["extracted"] = made /\ files'["drc"] = files["drc"]
        /\ files'["labels"] = files["labels"]
    BY <2>1 DEF GateTypeOK, Artifacts
  <2>3. QED
    BY <1>10, <2>1, <2>2 DEF Lvs, Continue, GoTo, Exit, Unread
<1>11. CASE Mdp
  <2>1. PICK made \in Written("mdp", {layout}) :
          /\ files' = [files EXCEPT !["mdp"] = made]
          /\ Continue(made # {}, "ip62", "mdp")
    BY <1>11 DEF Mdp
  <2>2. made = {layout}
    BY <2>1, CandidFiles, NotHollow
  <2>3. /\ files'["mdp"] = {layout} /\ files'["drc"] = files["drc"]
        /\ files'["labels"] = files["labels"] /\ files'["extracted"] = files["extracted"]
    BY <2>1, <2>2 DEF GateTypeOK, Artifacts
  <2>4. QED
    BY <1>11, <2>1, <2>3 DEF Mdp, Continue, GoTo, Exit, Unread
<1>12. CASE Ip62
  <2>1. PICK made \in Written("ip62", files["mdp"]) :
          /\ files' = [files EXCEPT !["ip62"] = made]
          /\ Continue(~Faulty("ip62", made), "rcx", "ip62")
    BY <1>12 DEF Ip62
  <2>2. made = files["mdp"]
    BY <2>1, CandidFiles, NotHollow
  <2>3. /\ files'["ip62"] = files["mdp"] /\ files'["drc"] = files["drc"]
        /\ files'["labels"] = files["labels"] /\ files'["extracted"] = files["extracted"]
        /\ files'["mdp"] = files["mdp"]
    BY <2>1, <2>2 DEF GateTypeOK, Artifacts
  <2>4. QED
    BY <1>12, <2>1, <2>2, <2>3 DEF Ip62, Continue, GoTo, Exit, Unread, Faulty
<1>13. CASE Rcx
  <2>1. CASE stage' = "idle"
    BY <2>1
  <2>2. CASE stage' # "idle"
    <3>1. RcxDef(options) # 0
      BY <1>13, <2>2 DEF Rcx, Exit
    <3>2. stage' = "manifest"
      BY <1>13, <2>2 DEF Rcx, GoTo, Exit
    <3>3. stage = "rcx" /\ layout' = layout /\ options' = options /\ ~disturbed
      BY <1>13 DEF Rcx, Unread
    <3>4. RcxInputs = {layout', RcxDef(options')}
      BY <3>3 DEF RcxInputs
    <3>5. ~options'.override => files'["ledger"] = {layout', RcxDef(options')}
      BY <1>13, <3>1, <3>3, <3>4, RcxKeeps
    <3>6. QED
      BY <1>13, <3>1, <3>2, <3>3, <3>5, RcxKeeps
  <2>3. QED
    BY <2>1, <2>2
<1>14. CASE CheckManifest
  BY <1>14 DEF CheckManifest, Exit
<1>15. QED
  BY <1>1, <1>2, <1>3, <1>4, <1>5, <1>6, <1>7, <1>8, <1>9, <1>10, <1>11, <1>12, <1>13,
     <1>14 DEF Next

----------------------------------------------------------------------------
\* The checker says PASS only of a manifest that is ready and closed.
LEMMA PassIsClosed ==
  ASSUME NEW m \in Manifest, NEW present, Result(m, present) = "PASS"
  PROVE  m.ready /\ \A s \in RequiredStages : Closed(m.stages[s], present)
<1>1. /\ m.ready
      /\ \A s \in RequiredStages :
           ~StageInvalid(m.stages[s], present) /\ ~StageBlocks(m.stages[s])
  BY DEF Result
<1>2. ASSUME NEW s \in RequiredStages
      PROVE  Closed(m.stages[s], present)
  BY <1>1 DEF StageInvalid, StageBlocks, EvidenceMissing, Closed
<1>3. QED
  BY <1>1, <1>2

\* What a run that stands at the manifest, or is past the parasitics without
\* one, may say.
LEMMA DeservedPass ==
  ASSUME ~disturbed' =>
           /\ \A gate \in Gates \ {"erc"} : gate \notin Defects[layout']
           /\ options'.contract => "erc" \notin Defects[layout']
           /\ \A a \in {"drc", "labels", "extracted", "mdp", "ip62"} : files'[a] = {layout'}
           /\ ~options'.override => files'["ledger"] = {layout', RcxDef(options')},
         verdict' = "pass"
  PROVE  VerdictIsDeserved'
  BY DEF VerdictIsDeserved, PassMeansClean, PassLeavesCurrentEvidence, BlameIsDeserved,
         Steady, RequiredGates, Gates

\* Each exit of the script says what its layout deserves.
LEMMA SaidNext ==
  ASSUME GateTypeOK, Candid, Undecided, Next, ~disturbed => Established,
         VerdictIsDeserved, ReleaseIsClosed
  PROVE  VerdictIsDeserved' /\ ReleaseIsClosed'
<1> USE DEF Established, Passes, PastPrecheck, PastDrc, PastLabels, PastErc, PastLvs,
        PastMdp, PastIp62, PastRcx
<1>a. layout # 0
  BY GateAssumption DEF GateTypeOK, Revision
<1>1. CASE Edit
  BY <1>1, NothingSaid DEF Edit, Steady
<1>2. CASE Start
  BY <1>2, NothingSaid DEF Start, Steady
<1>3. CASE Interrupt
  BY <1>3, NothingSaid DEF Interrupt, Undecided, Gates
<1>4. CASE CheckInputs
  BY <1>4, NothingSaid DEF CheckInputs, Continue, GoTo, Exit, Steady, Gates
<1>5. CASE ToolFails
  BY <1>5, NothingSaid DEF ToolFails, Exit, Gates
<1>6. CASE Precheck
  BY <1>6, NothingSaid, DeservedBlame
  DEF Precheck, Continue, GoTo, Exit, Unread, Steady
<1>7. CASE DrawingDrc
  <2>1. PICK made \in Written("drc", {layout}) : Continue(~Faulty("drc", made), "labels", "drc")
    BY <1>7 DEF DrawingDrc
  <2>2. made = {layout}
    BY <2>1, CandidFiles, NotHollow
  <2>3. CASE Faulty("drc", made)
    BY <1>7, <1>a, <2>1, <2>2, <2>3, DeservedBlame DEF DrawingDrc, Continue, Exit, Unread, Faulty
  <2>4. CASE ~Faulty("drc", made)
    BY <1>7, <2>1, <2>4, NothingSaid DEF DrawingDrc, Continue, GoTo, Steady
  <2>5. QED
    BY <2>3, <2>4
<1>8. CASE Labels
  <2>1. CASE ErcAbsent
    BY <1>8, <2>1, DeservedBlame DEF Labels, Exit, ErcAbsent, Unread
  <2>2. CASE ~ErcAbsent /\ "labels" \in Defects[layout]
    BY <1>8, <2>2, DeservedBlame DEF Labels, Continue, Exit, Unread
  <2>3. CASE ~ErcAbsent /\ "labels" \notin Defects[layout]
    BY <1>8, <2>3, NothingSaid DEF Labels, Continue, GoTo, Steady
  <2>4. QED
    BY <2>1, <2>2, <2>3
<1>9. CASE Erc
  <2>1. CASE Faulty("erc", files["drc"]) \/ Faulty("erc", files["labels"])
    <3>1. Exit("erc")
      BY <1>9, <2>1 DEF Erc, Continue
    <3>2. ~disturbed => files["drc"] = {layout} /\ files["labels"] = {layout}
      BY <1>9 DEF Erc
    <3>3. ~disturbed => "erc" \in Defects[layout]
      BY <1>a, <2>1, <3>2 DEF Faulty
    <3>4. QED
      BY <1>9, <3>1, <3>3, DeservedBlame DEF Erc, Exit, Unread
  <2>2. CASE ~(Faulty("erc", files["drc"]) \/ Faulty("erc", files["labels"]))
    BY <1>9, <2>2, NothingSaid DEF Erc, Continue, GoTo, Steady
  <2>3. QED
    BY <2>1, <2>2
<1>10. CASE Lvs
  BY <1>10, NothingSaid, DeservedBlame DEF Lvs, Continue, GoTo, Exit, Steady
<1>11. CASE Mdp
  BY <1>11, NothingSaid DEF Mdp, Continue, GoTo, Exit, Steady, Gates
<1>12. CASE Ip62
  <2>1. PICK made \in Written("ip62", files["mdp"]) :
          Continue(~Faulty("ip62", made), "rcx", "ip62")
    BY <1>12 DEF Ip62
  <2>2. made = files["mdp"] /\ (~disturbed => files["mdp"] = {layout})
    BY <1>12, <2>1, CandidFiles, NotHollow DEF Ip62
  <2>3. CASE Faulty("ip62", made)
    <3>1. Exit("ip62")
      BY <2>1, <2>3 DEF Continue
    <3>2. ~disturbed => "ip62" \in Defects[layout]
      BY <1>a, <2>2, <2>3 DEF Faulty
    <3>3. QED
      BY <1>12, <3>1, <3>2, DeservedBlame DEF Ip62, Exit, Unread
  <2>4. CASE ~Faulty("ip62", made)
    BY <1>12, <2>1, <2>4, NothingSaid DEF Ip62, Continue, GoTo, Steady
  <2>5. QED
    BY <2>3, <2>4
<1>13. CASE Rcx
  <2>1. CASE stage' # "idle" \/ verdict' # "pass"
    BY <1>13, <2>1, NothingSaid DEF Rcx, GoTo, Exit, Steady, Gates
  <2>2. CASE stage' = "idle" /\ verdict' = "pass"
    <3>1. RcxDef(options) # 0 /\ ~options.manifest
      BY <1>13, <2>2 DEF Rcx, GoTo, Exit
    <3>2. /\ stage = "rcx" /\ layout' = layout /\ options' = options
          /\ disturbed' = disturbed
      BY <1>13 DEF Rcx, Unread
    <3>3. ~disturbed => RcxInputs = {layout', RcxDef(options')}
      BY <3>2 DEF RcxInputs
    <3>4. ~disturbed' /\ ~options'.override =>
            files'["ledger"] = {layout', RcxDef(options')}
      BY <1>13, <3>1, <3>2, <3>3, RcxKeeps
    <3>5. VerdictIsDeserved'
      BY <1>13, <2>2, <3>1, <3>2, <3>4, RcxKeeps, DeservedPass DEF Gates
    <3>6. ReleaseIsClosed'
      BY <3>1, <3>2 DEF ReleaseIsClosed
    <3>7. QED
      BY <3>5, <3>6
  <2>3. QED
    BY <2>1, <2>2
<1>14. CASE CheckManifest
  <2>1. PICK m \in Manifests :
          /\ manifest' = [read |-> TRUE, stages |-> m.stages, ready |-> m.ready]
          /\ Exit(IF Result(m, Present) = "PASS" THEN "pass" ELSE "manifest")
    BY <1>14 DEF CheckManifest
  <2>2. CASE Result(m, Present) # "PASS"
    BY <2>1, <2>2, NothingSaid DEF Exit, Gates
  <2>3. CASE Result(m, Present) = "PASS"
    <3>1. /\ stage = "manifest" /\ files' = files /\ layout' = layout
          /\ options' = options /\ disturbed' = disturbed
      BY <1>14 DEF CheckManifest
    <3>2. verdict' = "pass"
      BY <2>1, <2>3 DEF Exit
    <3>3. VerdictIsDeserved'
      BY <3>1, <3>2, DeservedPass DEF Gates
    <3>4. m.ready /\ \A s \in RequiredStages : Closed(m.stages[s], Present)
      BY <2>3, PassIsClosed, GateAssumption
    <3>5. Present' = Present
      BY <3>1 DEF Present
    <3>6. manifest'.read /\ manifest'.ready /\ manifest'.stages = m.stages
      BY <2>1, <3>4
    <3>7. ~disturbed => /\ files["drc"] = {layout} /\ files["ip62"] = {layout}
                        /\ ~options.override => files["ledger"] = {layout, RcxDef(options)}
      BY <3>1
    <3>8. ReleaseIsClosed'
      BY <3>1, <3>4, <3>5, <3>6, <3>7 DEF ReleaseIsClosed, Steady
    <3>9. QED
      BY <3>3, <3>8
  <2>4. QED
    BY <2>2, <2>3
<1>15. QED
  BY <1>1, <1>2, <1>3, <1>4, <1>5, <1>6, <1>7, <1>8, <1>9, <1>10, <1>11, <1>12, <1>13,
     <1>14 DEF Next

----------------------------------------------------------------------------
LEMMA GateNext ==
  ASSUME Candid, GateInv, [Next]_vars
  PROVE  GateInv'
<1>1. CASE Next
  <2>1. GateTypeOK' /\ Undecided'
    BY <1>1, GateTypeNext, UndecidedNext DEF GateInv
  <2>2. ~disturbed' => Established'
    BY <1>1, EstablishedNext DEF GateInv
  <2>3. VerdictIsDeserved' /\ ReleaseIsClosed'
    BY <1>1, SaidNext DEF GateInv
  <2>4. QED
    BY <2>1, <2>2, <2>3 DEF GateInv
<1>2. CASE UNCHANGED vars
  BY <1>2 DEF vars, GateInv, GateTypeOK, Undecided, Established, Passes,
     VerdictIsDeserved, PassMeansClean, PassLeavesCurrentEvidence, BlameIsDeserved,
     ReleaseIsClosed, Steady, RequiredGates, Present
<1>3. QED
  BY <1>1, <1>2

\* The gate keeps its invariant on a report directory that is never cleared,
\* whatever layouts, options and manifests its runs are given.
THEOREM GateInvariance ==
  ASSUME Candid
  PROVE  Spec => []GateInv
<1>1. GateInv /\ [Next]_vars => GateInv'
  BY GateNext
<1>2. QED
  BY <1>1, GateInit, PTL DEF Spec

\* PASS is deserved and leaves evidence of this layout, with parasitics of it and of
\* the DEF the run was given, and blame is deserved: for every number of revisions
\* and every set of faults they have.
THEOREM VerdictsAreDeserved ==
  ASSUME Candid
  PROVE  Spec => []VerdictIsDeserved
<1>1. GateInv => VerdictIsDeserved
  BY DEF GateInv
<1>2. QED
  BY <1>1, GateInvariance, PTL

\* A release with a manifest is closed, and its evidence is of this run: for every
\* set of required stages and every manifest.
THEOREM ReleasesAreClosed ==
  ASSUME Candid
  PROVE  Spec => []ReleaseIsClosed
<1>1. GateInv => ReleaseIsClosed
  BY DEF GateInv
<1>2. QED
  BY <1>1, GateInvariance, PTL
-----------------------------------------------------------------------------
(* The evidence runners                                                    *)

(* The state a runner keeps                                                *)

\* A case has been judged by a log it may have left.
Judged(r) == \E log \in Logs(r.case) : r.passed = Verdict(r.case, log)

\* Nothing is forgotten: each case is still to run or has its result.
EvidenceInv ==
  /\ contract \in Contracts
  /\ status = "checking" => todo = {} /\ results = {}
  /\ status = "running" \/ Passing =>
       /\ ~Rejected(contract)
       /\ Cases(contract) = todo \cup {r.case : r \in results}
       /\ \A r \in results : Judged(r)
  /\ Passing => todo = {} /\ status = Overall(contract)

\* The four runners.
LEMMA Runners == ASSUME EvidenceInv
                 PROVE  Runner \in {"pvt", "analog", "temperature", "variation"} /\ WellTyped(contract)
<1>1. WellTyped(contract)
  BY ContractsAssumption DEF EvidenceInv
<1>2. QED
  BY <1>1 DEF WellTyped, Runner

\* There is a next case as long as there is one to run.
LEMMA OneIsNext == ASSUME todo # {} PROVE NextCase \in todo
<1>1. PICK a \in todo : TRUE
  OBVIOUS
<1>2. \A x : Rank(x) \in {1, 2, 3}
  BY DEF Rank
<1>3. CASE \E x \in todo : Rank(x) = 1
  <2>1. \E x \in todo : \A y \in todo : Rank(x) <= Rank(y)
    BY <1>2, <1>3
  <2>2. QED
    BY <2>1 DEF NextCase
<1>4. CASE (\A x \in todo : Rank(x) # 1) /\ \E x \in todo : Rank(x) = 2
  <2>1. \E x \in todo : \A y \in todo : Rank(x) <= Rank(y)
    BY <1>2, <1>4
  <2>2. QED
    BY <2>1 DEF NextCase
<1>5. CASE \A x \in todo : Rank(x) = 3
  <2>1. \E x \in todo : \A y \in todo : Rank(x) <= Rank(y)
    BY <1>1, <1>5
  <2>2. QED
    BY <2>1 DEF NextCase
<1>6. QED
  BY <1>2, <1>3, <1>4, <1>5

\* What a runner reports of no results, or of a contract it did not refuse, is
\* none of the states it goes through before.
LEMMA Reports ==
  ASSUME Runner \in {"pvt", "analog", "temperature", "variation"}
  PROVE  Overall(contract) \notin {"checking", "running"}
  BY DEF Overall, Runner, TemperatureStatus, VariationStatus

\* Each step keeps the cases and the judgements.
LEMMA EvidenceStep == ASSUME EvidenceInv, [EvidenceNext]_evidenceVars PROVE EvidenceInv'
<1>1. Runner \in {"pvt", "analog", "temperature", "variation"}
  BY Runners
<1>2. CASE Check /\ ~Raises
  <2>1. /\ status = "checking" /\ todo = {} /\ results = {} /\ UNCHANGED <<contract, results>>
        /\ \/ status' = "BLOCKED" /\ todo' = {}
           \/ status' = "running" /\ todo' = Cases(contract) /\ ~Rejected(contract)
    BY <1>2 DEF Check, EvidenceInv
  <2>2. QED
    BY <2>1 DEF EvidenceInv, Passing, Cases, Rejected
<1>3. CASE Raise
  <2>1. status' = "raised" /\ UNCHANGED <<contract, todo, results>>
    BY <1>3 DEF Raise
  <2>2. QED
    BY <2>1 DEF EvidenceInv, Passing
<1>4. CASE RunCase
  <2>1. PICK log \in Logs(NextCase) :
          results' = results \cup {[case |-> NextCase, passed |-> Verdict(NextCase, log)]}
    BY <1>4 DEF RunCase
  <2>2. /\ status = "running" /\ todo # {} /\ todo' = todo \ {NextCase}
        /\ UNCHANGED <<contract, status>>
    BY <1>4 DEF RunCase
  <2>3. NextCase \in todo
    BY <2>2, OneIsNext
  <2> DEFINE new == [case |-> NextCase, passed |-> Verdict(NextCase, log)]
  <2>4. new.case = NextCase /\ Judged(new) /\ results' = results \cup {new}
    BY <2>1 DEF Judged
  <2> HIDE DEF new
  <2>5. {r.case : r \in results'} = {r.case : r \in results} \cup {NextCase}
    BY <2>4
  <2>6. \A r \in results' : Judged(r)
    BY <2>2, <2>4 DEF EvidenceInv
  <2>7. /\ ~Rejected(contract) /\ Cases(contract) = todo \cup {r.case : r \in results}
    BY <2>2 DEF EvidenceInv
  <2>8. Cases(contract) = todo' \cup {r.case : r \in results'}
    BY <2>2, <2>3, <2>5, <2>7
  <2>9. contract' = contract /\ status' = "running" /\ contract \in Contracts
    BY <2>2 DEF EvidenceInv
  <2>10. \A r : Judged(r)' <=> Judged(r)
    BY <2>9 DEF Judged, Logs, Verdict, Runner
  <2>11. Cases(contract)' = Cases(contract) /\ (Rejected(contract)' <=> Rejected(contract))
    BY <2>9
  <2>12. QED
    BY <2>6, <2>7, <2>8, <2>9, <2>10, <2>11 DEF EvidenceInv, Passing
<1>5. CASE Report
  <2>1. /\ status = "running" /\ todo = {} /\ status' = Overall(contract)
        /\ UNCHANGED <<contract, todo, results>>
    BY <1>5 DEF Report
  <2>2. status' \notin {"checking", "running"}
    BY <1>1, <2>1, Reports
  <2>3. Overall(contract)' = Overall(contract)
    BY <2>1 DEF Overall, TemperatureStatus, LowTemperatures, VariationStatus, PartPasses, FactorPasses, OfFactor
  <2>4. (\A r \in results : Judged(r))'
    BY <2>1 DEF EvidenceInv, Judged, Logs, Verdict, Runner
  <2>5. QED
    BY <2>1, <2>2, <2>3, <2>4 DEF EvidenceInv, Passing
<1>6. CASE UNCHANGED evidenceVars
  <2>1. UNCHANGED <<contract, todo, results, status>>
    BY <1>6 DEF evidenceVars
  <2>2. Overall(contract)' = Overall(contract)
    BY <2>1 DEF Overall, TemperatureStatus, LowTemperatures, VariationStatus, PartPasses, FactorPasses, OfFactor
  <2>3. \A r : Judged(r)' <=> Judged(r)
    BY <2>1 DEF Judged, Logs, Verdict, Runner
  <2>4. QED
    BY <2>1, <2>2, <2>3 DEF EvidenceInv, Passing
<1>7. QED
  BY <1>2, <1>3, <1>4, <1>5, <1>6 DEF EvidenceNext

LEMMA Invariance == EvidenceSpec => []EvidenceInv
<1>1. EvidenceInit => EvidenceInv
  BY DEF EvidenceInit, EvidenceInv, Passing
<1>2. EvidenceInv /\ [EvidenceNext]_evidenceVars => EvidenceInv'
  BY EvidenceStep
<1>3. QED
  BY <1>1, <1>2, PTL DEF EvidenceSpec
-----------------------------------------------------------------------------
(* Timing and analog results                                               *)

\* A corner that passed was told of nothing bad, whatever the log broke off at.
LEMMA PvtIsClean ==
  ASSUME NEW corner, corner.bad \subseteq ToSet(Sections),
         NEW log \in PvtLogs, PvtVerdict(corner, log)
  PROVE  corner.bad = {}
<1>1. log.printed \in Int /\ log.printed > Len(Sections)
  BY DEF PvtVerdict, PvtLogs, Sections
<1>2. \A i \in DOMAIN Sections : i <= log.printed
  BY <1>1 DEF Sections
<1>3. \A i \in DOMAIN Sections : Sections[i] \notin corner.bad
  BY <1>2 DEF PvtVerdict, Told
<1>4. QED
  BY <1>3 DEF ToSet

\* An assertion of size that passed holds of every value on the way.
LEMMA SizeIsKept ==
  ASSUME NEW a, {a.low, a.high, a.limit, a.margin, a.width, a.density} \subseteq Int,
         a.mode = "absolute", ~Reaches(Observed(a), a),
         a.width > 0 => Size(Observed(a)) <= a.width * a.density
  PROVE  /\ \A value \in a.low..a.high : 100 * Size(value) < a.limit * (100 - a.margin)
         /\ a.width > 0 => Largest(a) <= a.width * a.density
<1> DEFINE top == Largest(a)
           bound == a.limit * (100 - a.margin)
           carried == a.width * a.density
<1>1. bound \in Int /\ carried \in Int /\ a.low \in Int /\ a.high \in Int /\ a.width \in Int
  OBVIOUS
<1>2. top = Observed(a) /\ top \in Int /\ top >= 0 /\ Size(top) = top
  BY <1>1 DEF Observed, Largest, Size
<1>3. \A value \in a.low..a.high : Size(value) \in Int /\ Size(value) <= top
  BY <1>1 DEF Largest, Size
<1>4. 100 * top < bound
  BY <1>1, <1>2 DEF Reaches
<1> HIDE DEF top, bound, carried
<1>5. \A value \in a.low..a.high : 100 * Size(value) < bound
  BY <1>1, <1>2, <1>3, <1>4
<1>6. a.width > 0 => top <= carried
  BY <1>2 DEF carried
<1>7. QED
  BY <1>5, <1>6 DEF top, bound, carried

\* What passes is evidence.
LEMMA EvidenceOfPass == ASSUME EvidenceInv PROVE PassIsEvidence
<1>1. ASSUME Passing, Runner = "pvt"
      PROVE  LET clean == {corner \in ToSet(contract.cases) : corner.bad = {}}
             IN  /\ \A role \in RequiredRoles(contract) : \E corner \in clean : corner.role = role
                 /\ \A t \in RequiredTemperatures(contract) : \E corner \in clean : t \in corner.temperature
                 /\ ToSet(contract.cases) \subseteq clean
                 /\ contract.evidence \/ Covers(contract.rs, contract.operating)
  <2>1. /\ ~PvtRefused(contract) /\ ToSet(contract.cases) = {r.case : r \in results}
        /\ \A r \in results : Judged(r)
        /\ AllPassed(results)
    BY <1>1 DEF EvidenceInv, Passing, Rejected, Cases, Overall, Runner
  <2>2. ASSUME NEW corner \in ToSet(contract.cases) PROVE corner.bad = {}
    <3>1. PICK r \in results : r.case = corner
      BY <2>1
    <3>2. PICK log \in PvtLogs : PvtVerdict(corner, log)
      BY <1>1, <2>1, <3>1 DEF Judged, AllPassed, Logs, Verdict
    <3>3. corner.bad \subseteq ToSet(Sections)
      BY <1>1, Runners DEF WellTyped, Runner
    <3>4. QED
      BY <3>2, <3>3, PvtIsClean
  <2>3. \A role \in RequiredRoles(contract) : \E corner \in ToSet(contract.cases) : corner.role = role
    BY <2>1 DEF PvtRefused
  <2>4. \A t \in RequiredTemperatures(contract) : \E corner \in ToSet(contract.cases) : t \in corner.temperature
    BY <2>1 DEF PvtRefused
  <2>5. contract.evidence \/ Covers(contract.rs, contract.operating)
    BY <2>1 DEF PvtRefused
  <2>6. QED
    BY <2>2, <2>3, <2>4, <2>5
<1>2. ASSUME Passing, Runner = "analog", NEW deck \in ToSet(contract.cases)
      PROVE  /\ \A m \in ToSet(deck.measures) : m.min <= m.value /\ m.value <= m.max
             /\ \A a \in ToSet(deck.assertions) : a.mode = "absolute" =>
                  /\ \A value \in a.low..a.high : 100 * Size(value) < a.limit * (100 - a.margin)
                  /\ a.width > 0 => Largest(a) <= a.width * a.density
  <2>1. /\ ToSet(contract.cases) = {r.case : r \in results}
        /\ \A r \in results : Judged(r)
        /\ AllPassed(results)
    BY <1>2 DEF EvidenceInv, Passing, Cases, Overall, Runner
  <2>2. PICK r \in results : r.case = deck
    BY <1>2, <2>1
  <2>3. PICK log \in AnalogLogs(deck) : AnalogVerdict(deck, log)
    BY <1>2, <2>1, <2>2 DEF Judged, AllPassed, Logs, Verdict
  <2>4. ASSUME NEW m \in ToSet(deck.measures) PROVE m.min <= m.value /\ m.value <= m.max
    <3>1. PICK i \in DOMAIN deck.measures : m = deck.measures[i]
      BY DEF ToSet
    <3>2. Within(m.value, <<m.min, m.max>>)
      BY <2>3, <3>1 DEF AnalogVerdict
    <3>3. QED
      BY <3>2 DEF Within
  <2>5. ASSUME NEW a \in ToSet(deck.assertions), a.mode = "absolute"
        PROVE  /\ \A value \in a.low..a.high : 100 * Size(value) < a.limit * (100 - a.margin)
               /\ a.width > 0 => Largest(a) <= a.width * a.density
    <3>1. PICK i \in DOMAIN deck.assertions : a = deck.assertions[i]
      BY DEF ToSet
    <3>2. ~Reaches(Observed(a), a) /\ (a.width > 0 => Size(Observed(a)) <= a.width * a.density)
      BY <2>3, <3>1 DEF AnalogVerdict
    <3>3. {a.low, a.high, a.limit, a.margin, a.width, a.density} \subseteq Int
      BY <1>2, Runners DEF WellTyped, Runner
    <3>4. QED
      BY <2>5, <3>2, <3>3, SizeIsKept
  <2>6. QED
    BY <2>4, <2>5
<1>3. QED
  BY <1>1, <1>2 DEF PassIsEvidence

\* The verdict of a timing or an analog run that passes is evidence: each required
\* role and temperature has a corner, no corner has a violation whatever became
\* of its log, and every measure and assertion of an analog deck holds, in any
\* contract.
THEOREM PassesAreEvidence == EvidenceSpec => []PassIsEvidence
  BY EvidenceOfPass, Invariance, PTL
-----------------------------------------------------------------------------
(* Temperature and variation results                                       *)

\* The case has a result, and that is a pass.
Passed(x) == \E r \in results : r.case = x /\ r.passed

\* What passes is whole.
LEMMA PassesWhole == ASSUME EvidenceInv PROVE PassIsWhole
<1>1. ASSUME Passing, Runner = "temperature", NEW i \in DOMAIN contract.models,
             NEW m, m = contract.models[i]
      PROVE  /\ m.sound /\ (Limited(contract, m) => m.policy = "warning_only")
             /\ m.used => \/ /\ m.kind = "static_only"
                             /\ \E n \in ToSet(contract.models) : n.name = m.name /\ Limited(contract, n)
                          \/ m.sizes # {} /\ \A t \in contract.temperatures, size \in m.sizes : Passed(Probe(i, t, size))
  <2>1. /\ Cases(contract) = {r.case : r \in results}
        /\ TemperatureStatus(contract) \in {"PASS", "PASS_WITH_WARNINGS"}
    BY <1>1 DEF EvidenceInv, Passing, Overall, Runner
  <2>2. m \in ToSet(contract.models) /\ m.used \in BOOLEAN /\ m.sound \in BOOLEAN
    <3>1. m \in ToSet(contract.models)
      BY <1>1 DEF ToSet
    <3>2. QED
      BY <1>1, <3>1, Runners DEF WellTyped, Runner
  <2>3. /\ contract.tool /\ ~Unprobed(m) /\ AllPassed(results)
        /\ AuditStatus(contract) \notin {"INVALID", "INCOMPLETE", "ENGINEERING_ONLY"}
        /\ m.used /\ m.kind = "static_only" =>
             \E n \in ToSet(contract.models) : n.name = m.name /\ ModelStatus(contract, n) = "PASS_WITH_WARNINGS"
    BY <2>1, <2>2 DEF TemperatureStatus
  <2>4. ModelStatus(contract, m) \notin {"INCOMPLETE", "ENGINEERING_ONLY"}
    BY <2>2, <2>3 DEF AuditStatus
  <2>5. m.sound /\ (Limited(contract, m) => m.policy = "warning_only")
    BY <2>2, <2>4 DEF ModelStatus
  <2>6. ASSUME m.used, m.kind = "static_only"
        PROVE  \E n \in ToSet(contract.models) : n.name = m.name /\ Limited(contract, n)
    <3>1. PICK n \in ToSet(contract.models) : n.name = m.name /\ ModelStatus(contract, n) = "PASS_WITH_WARNINGS"
      BY <2>3, <2>6
    <3>2. n.sound \in BOOLEAN
      BY <1>1, Runners DEF WellTyped, Runner
    <3>3. Limited(contract, n)
      BY <3>1, <3>2 DEF ModelStatus
    <3>4. QED
      BY <3>1, <3>3
  <2>7. ASSUME m.used, m.kind # "static_only"
        PROVE  m.sizes # {} /\ \A t \in contract.temperatures, size \in m.sizes : Passed(Probe(i, t, size))
    <3>1. Probed(m) /\ m.sizes # {}
      BY <2>3, <2>7 DEF Probed, Unprobed
    <3>2. ASSUME NEW t \in contract.temperatures, NEW size \in m.sizes PROVE Passed(Probe(i, t, size))
      <4>1. Probe(i, t, size) \in ModelProbes(contract, i)
        BY <1>1, <3>1 DEF ModelProbes
      <4>2. Probe(i, t, size) \in Cases(contract)
        BY <1>1, <2>3, <4>1 DEF Cases, Runner
      <4>3. QED
        BY <2>1, <2>3, <4>2 DEF Passed, AllPassed
    <3>3. QED
      BY <3>1, <3>2
  <2>8. QED
    BY <2>5, <2>6, <2>7
<1>2. ASSUME Passing, Runner = "variation"
      PROVE  /\ \A i \in DOMAIN contract.corners, x \in contract.voltages \X contract.temperatures :
                  Passed(Case("pvt", i, x))
             /\ \A n \in 1..contract.samples : Passed(Case("sample", n, <<>>))
             /\ \A i \in DOMAIN contract.factors : contract.factors[i].evaluation = "spice" =>
                  \A n \in 1..3 : Passed(Case("factor", i, <<n>>))
  <2>1. /\ Cases(contract) = {r.case : r \in results} /\ VariationStatus(contract) # "FAIL"
        /\ Cases(contract) = PvtCases(contract) \cup SampleCases(contract) \cup FactorCases(contract)
    BY <1>2 DEF EvidenceInv, Passing, Overall, Cases, Runner
  <2>2. /\ PartPasses("pvt") /\ PartPasses("sample")
        /\ \A i \in DOMAIN contract.factors : FactorPasses(contract, i)
    BY <2>1 DEF VariationStatus
  <2>3. ASSUME NEW i \in DOMAIN contract.corners, NEW x \in contract.voltages \X contract.temperatures
        PROVE  Passed(Case("pvt", i, x))
    <3>1. Case("pvt", i, x) \in Cases(contract)
      BY <2>1 DEF PvtCases
    <3>2. PICK r \in results : r.case = Case("pvt", i, x)
      BY <2>1, <3>1
    <3>3. r.passed
      BY <2>2, <3>2 DEF PartPasses, AllPassed, Case
    <3>4. QED
      BY <3>2, <3>3 DEF Passed
  <2>4. ASSUME NEW n \in 1..contract.samples PROVE Passed(Case("sample", n, <<>>))
    <3>1. Case("sample", n, <<>>) \in Cases(contract)
      BY <2>1 DEF SampleCases
    <3>2. PICK r \in results : r.case = Case("sample", n, <<>>)
      BY <2>1, <3>1
    <3>3. r.passed
      BY <2>2, <3>2 DEF PartPasses, AllPassed, Case
    <3>4. QED
      BY <3>2, <3>3 DEF Passed
  <2>5. ASSUME NEW i \in DOMAIN contract.factors, contract.factors[i].evaluation = "spice", NEW n \in 1..3
        PROVE  Passed(Case("factor", i, <<n>>))
    <3>1. Cardinality(OfFactor(i)) = 3 /\ AllPassed(OfFactor(i))
      BY <2>2, <2>5 DEF FactorPasses
    <3>2. PICK r \in OfFactor(i) : TRUE
      BY <3>1, FS_EmptySet
    <3>3. r.case \in Cases(contract) /\ r.case.part = "factor" /\ r.case.of = i
      BY <2>1 DEF OfFactor
    <3>4. r.case \in FactorCases(contract)
      BY <2>1, <3>3 DEF PvtCases, SampleCases, Case
    <3>5. PICK j \in DOMAIN contract.factors : r.case \in {Case("factor", j, <<k>>) : k \in 1..Points(contract.factors[j])}
      BY <3>4 DEF FactorCases
    <3>6. j = i /\ Points(contract.factors[i]) = 3
      BY <3>3, <3>5 DEF Case, Points
    <3>7. Case("factor", i, <<n>>) \in FactorCases(contract)
      BY <3>6 DEF FactorCases
    <3>8. PICK q \in results : q.case = Case("factor", i, <<n>>)
      BY <2>1, <3>7
    <3>9. q \in OfFactor(i)
      BY <3>8 DEF OfFactor, Case
    <3>10. QED
      BY <3>1, <3>8, <3>9 DEF Passed, AllPassed
  <2>6. QED
    BY <2>3, <2>4, <2>5
<1>3. QED
  BY <1>1, <1>2 DEF PassIsWhole, Passed

\* Nothing is left out of a temperature or variation run that passes: each model in
\* use at every temperature and size, each corner, sample and point of a factor,
\* in any contract.
THEOREM PassesAreWhole == EvidenceSpec => []PassIsWhole
  BY PassesWhole, Invariance, PTL
-----------------------------------------------------------------------------
(* The mobility of a card                                                  *)

\* A nonempty set of naturals has a least member.
LEMMA LeastExists ==
  ASSUME NEW S \in SUBSET Nat, S # {}
  PROVE  \E n \in S : \A m \in S : n <= m
<1>1. PICK n \in S : \A m \in Nat : <<m, n>> \in OpToRel(<, Nat) => m \notin S
  BY WFMin, NatLessThanWellFounded
<1>2. ASSUME NEW m \in S PROVE n <= m
  <2>1. m \in Nat /\ n \in Nat
    OBVIOUS
  <2>2. ~(m < n)
    BY <1>1, <2>1 DEF OpToRel
  <2>3. QED
    BY <2>1, <2>2
<1>3. QED
  BY <1>2

\* What holds of 0, and of each number up to N if of the one before, holds up to N.
LEMMA UpTo ==
  ASSUME NEW N \in Nat, NEW S, 0 \in S, \A n \in 1..N : n - 1 \in S => n \in S
  PROVE  \A n \in 0..N : n \in S
<1> DEFINE Out == {n \in 0..N : n \notin S}
<1>1. Out \in SUBSET Nat
  OBVIOUS
<1>2. SUFFICES ASSUME Out # {} PROVE FALSE
  OBVIOUS
<1>3. PICK n \in Out : \A m \in Out : n <= m
  BY <1>1, <1>2, LeastExists
<1>4. n \in 1..N /\ n - 1 \in 0..N
  OBVIOUS
<1>5. n - 1 \in S
  BY <1>3, <1>4
<1>6. QED
  BY <1>4, <1>5

Lines == [kind : {"head", "more", "note", "blank", "other"}, group : {"n", "p", ""}, u0 : BOOLEAN]

\* The group a line belongs to, after one that belongs to before.
Following(line, before) ==
  IF line.kind = "head" THEN line.group ELSE IF Leaves(line) THEN "" ELSE before

\* g tells the group of each of the first n lines.
Groups == {"n", "p", ""}
GroupsOf(g, lines, n) ==
  /\ g \in [0..n -> Groups] /\ g[0] = ""
  /\ \A i \in 1..n : g[i] = Following(lines[i], g[i - 1])

\* The group of each line can be told.
LEMMA GroupsExist ==
  ASSUME NEW lines \in Seq(Lines)
  PROVE  \E g : GroupsOf(g, lines, Len(lines))
<1> DEFINE N == Len(lines)
           S == {n \in 0..N : \E g : GroupsOf(g, lines, n)}
<1>1. N \in Nat /\ \A i \in 1..N : lines[i] \in Lines
  OBVIOUS
<1>2. \A i \in 1..N, before \in Groups : Following(lines[i], before) \in Groups
  BY <1>1 DEF Following, Lines, Groups
<1> HIDE DEF N
<1>3. 0 \in S
  <2> DEFINE g == [i \in 0..0 |-> ""]
  <2>1. GroupsOf(g, lines, 0)
    BY DEF GroupsOf, Groups
  <2> HIDE DEF g
  <2>2. QED
    BY <1>1, <2>1
<1>4. ASSUME NEW n \in 1..N, n - 1 \in S PROVE n \in S
  <2>1. PICK g : GroupsOf(g, lines, n - 1)
    BY <1>4
  <2> DEFINE next == Following(lines[n], g[n - 1])
             h == [i \in 0..n |-> IF i = n THEN next ELSE g[i]]
  <2>2. n - 1 \in 0..n - 1 /\ n \in Nat /\ n # 0
    BY <1>1
  <2>3. g[n - 1] \in Groups /\ next \in Groups
    BY <1>1, <1>2, <2>1, <2>2 DEF GroupsOf
  <2>4. \A i \in 0..n - 1 : g[i] \in Groups
    BY <2>1 DEF GroupsOf
  <2> HIDE DEF next
  <2>5. \A i \in 0..n : i = n \/ i \in 0..n - 1
    BY <2>2
  <2>6. h \in [0..n -> Groups]
    BY <2>3, <2>4, <2>5
  <2>7. \A i \in 0..n - 1 : i \in 0..n /\ i # n /\ h[i] = g[i]
    BY <2>2
  <2>8. h[0] = ""
    <3>1. g[0] = ""
      BY <2>1 DEF GroupsOf
    <3>2. 0 \in 0..n - 1
      BY <2>2
    <3> HIDE DEF h
    <3>3. QED
      BY <2>7, <3>1, <3>2
  <2>9. h[n] = next /\ h[n - 1] = g[n - 1]
    BY <2>2, <2>7
  <2>10. ASSUME NEW i \in 1..n - 1 PROVE h[i] = Following(lines[i], h[i - 1])
    <3>1. i \in 0..n - 1 /\ i - 1 \in 0..n - 1
      BY <2>2
    <3>2. g[i] = Following(lines[i], g[i - 1])
      BY <2>1 DEF GroupsOf
    <3>3. h[i] = g[i] /\ h[i - 1] = g[i - 1]
      BY <2>7, <3>1
    <3>4. QED
      BY <3>2, <3>3
  <2> HIDE DEF h
  <2>11. \A i \in 1..n : h[i] = Following(lines[i], h[i - 1])
    <3>1. \A i \in 1..n : i = n \/ i \in 1..n - 1
      BY <2>2
    <3>2. QED
      BY <2>9, <2>10, <3>1 DEF next
  <2>12. GroupsOf(h, lines, n)
    BY <2>6, <2>8, <2>11 DEF GroupsOf
  <2>13. QED
    BY <2>12
<1>5. \A n \in 1..N : n - 1 \in S => n \in S
  BY <1>4
<1> HIDE DEF S
<1>6. \A n \in 0..N : n \in S
  BY <1>1, <1>3, <1>5, UpTo
<1>7. N \in S
  BY <1>1, <1>6
<1>8. QED
  BY <1>7 DEF S, N

\* The group of a line follows from that of the line before.
LEMMA GroupFollows ==
  ASSUME NEW lines \in Seq(Lines)
  PROVE  /\ ActiveModel(lines, 0) = ""
         /\ \A n \in 1..Len(lines) :
              ActiveModel(lines, n) = Following(lines[n], ActiveModel(lines, n - 1))
<1> DEFINE L == Len(lines)
           Is(g) == g = [i \in 0..L |-> IF i = 0 THEN "" ELSE IF lines[i].kind = "head" THEN lines[i].group
                                        ELSE IF Leaves(lines[i]) THEN "" ELSE g[i - 1]]
           active == CHOOSE g : Is(g)
<1>1. L \in Nat
  OBVIOUS
<1>2. \A g : GroupsOf(g, lines, L) => Is(g)
  <2> SUFFICES ASSUME NEW g, GroupsOf(g, lines, L) PROVE Is(g)
    OBVIOUS
  <2> DEFINE body(i) == IF i = 0 THEN "" ELSE IF lines[i].kind = "head" THEN lines[i].group
                        ELSE IF Leaves(lines[i]) THEN "" ELSE g[i - 1]
  <2>1. \A i \in 0..L : g[i] = body(i)
    <3>1. \A i \in 0..L : i = 0 \/ (i \in 1..L /\ i # 0)
      BY <1>1
    <3>2. g[0] = ""
      BY Zenon DEF GroupsOf
    <3>3. \A i \in 1..L : i # 0 => g[i] = body(i)
      BY DEF GroupsOf, Following
    <3>4. body(0) = ""
      OBVIOUS
    <3> HIDE DEF body
    <3>5. QED
      BY <3>1, <3>2, <3>3, <3>4
  <2>2. g = [i \in 0..L |-> g[i]]
    BY DEF GroupsOf
  <2> HIDE DEF body
  <2>3. g = [i \in 0..L |-> body(i)]
    BY <2>1, <2>2
  <2>4. QED
    BY <2>3 DEF body
<1>3. \E g : Is(g)
  BY <1>1, <1>2, GroupsExist
<1>4. Is(active)
  BY <1>3
<1>5. \A n : ActiveModel(lines, n) = active[n]
  BY DEF ActiveModel
<1> HIDE DEF active
<1>6. active[0] = "" /\ \A n \in 1..L : active[n] = Following(lines[n], active[n - 1])
  <2> DEFINE body(i) == IF i = 0 THEN "" ELSE IF lines[i].kind = "head" THEN lines[i].group
                        ELSE IF Leaves(lines[i]) THEN "" ELSE active[i - 1]
  <2>1. active = [i \in 0..L |-> body(i)]
    BY <1>4
  <2> HIDE DEF body
  <2>2. \A i \in 0..L : active[i] = body(i)
    BY <2>1
  <2>3. \A i \in 1..L : i \in 0..L /\ i # 0
    BY <1>1
  <2>4. 0 \in 0..L
    BY <1>1
  <2>5. QED
    BY <2>2, <2>3, <2>4 DEF body, Following
<1>7. QED
  BY <1>1, <1>5, <1>6

\* The card that line h heads goes on at line n.
GoesOn(lines, h, n) ==
  lines[h].kind = "head" /\ \A i \in (h + 1)..n : lines[i].kind \in {"more", "note", "blank"}

\* A line is of a group if a card of the group goes on there.
LEMMA GroupIsOfCard ==
  ASSUME NEW lines \in Seq(Lines), NEW group \in {"n", "p"}
  PROVE  \A n \in 0..Len(lines) :
           ActiveModel(lines, n) = group <=> \E h \in 1..n : GoesOn(lines, h, n) /\ lines[h].group = group
<1> DEFINE L == Len(lines)
           Own(n) == \E h \in 1..n : GoesOn(lines, h, n) /\ lines[h].group = group
           S == {n \in 0..L : ActiveModel(lines, n) = group <=> Own(n)}
<1>1. L \in Nat /\ \A n \in 1..L : lines[n] \in Lines
  OBVIOUS
<1>2. 0 \in S
  <2>1. ActiveModel(lines, 0) # group
    BY GroupFollows
  <2>2. ~Own(0) /\ 0 \in 0..L
    BY <1>1
  <2> HIDE DEF Own
  <2>3. QED
    BY <2>1, <2>2
<1>3. ASSUME NEW n \in 1..L, n - 1 \in S PROVE n \in S
  <2>1. ActiveModel(lines, n) = Following(lines[n], ActiveModel(lines, n - 1))
    BY GroupFollows
  <2>2. (\A h \in 1..n : h = n \/ h \in 1..n - 1) /\ (\A h \in 1..n - 1 : h \in 1..n) /\ n \in 1..n
    OBVIOUS
  <2>3. \A h \in 1..n - 1 : n \in (h + 1)..n /\ \A i \in (h + 1)..n : i = n \/ i \in (h + 1)..n - 1
    OBVIOUS
  <2>4. \A h \in 1..n - 1 : \A i \in (h + 1)..n - 1 : i \in (h + 1)..n
    OBVIOUS
  <2>5. CASE lines[n].kind = "head"
    <3>1. ActiveModel(lines, n) = lines[n].group
      BY <2>1, <2>5 DEF Following
    <3>2. GoesOn(lines, n, n)
      BY <2>5 DEF GoesOn
    <3>3. \A h \in 1..n - 1 : ~GoesOn(lines, h, n)
      BY <2>3, <2>5 DEF GoesOn
    <3>4. QED
      BY <2>2, <3>1, <3>2, <3>3
  <2>6. CASE lines[n].kind = "other"
    <3>1. ActiveModel(lines, n) # group
      BY <2>1, <2>6 DEF Following, Leaves
    <3>2. \A h \in 1..n : ~GoesOn(lines, h, n)
      BY <2>2, <2>3, <2>6 DEF GoesOn
    <3>3. QED
      BY <3>1, <3>2
  <2>7. CASE lines[n].kind \in {"more", "note", "blank"}
    <3>1. ActiveModel(lines, n) = ActiveModel(lines, n - 1)
      BY <2>1, <2>7 DEF Following, Leaves
    <3>2. ~GoesOn(lines, n, n)
      BY <2>7 DEF GoesOn
    <3>3. \A h \in 1..n - 1 : GoesOn(lines, h, n) <=> GoesOn(lines, h, n - 1)
      BY <2>3, <2>4, <2>7 DEF GoesOn
    <3>4. Own(n) <=> Own(n - 1)
      BY <2>2, <3>2, <3>3
    <3>5. QED
      BY <1>3, <3>1, <3>4
  <2>8. QED
    BY <1>1, <2>5, <2>6, <2>7 DEF Lines
<1>4. \A n \in 1..L : n - 1 \in S => n \in S
  BY <1>3
<1> HIDE DEF S
<1>5. \A n \in 0..L : n \in S
  BY <1>1, <1>2, <1>4, UpTo
<1>6. QED
  BY <1>5 DEF S

\* The lines scaled are those that go on a card of their group.
LEMMA MobilityOfContract == ASSUME EvidenceInv PROVE EveryMobilityIsScaled
<1> SUFFICES ASSUME Runner = "variation" PROVE EveryMobilityIsScaled
  BY DEF EveryMobilityIsScaled
<1> DEFINE lines == contract.model
           own(h, n) == h < n /\ lines[h].kind = "head" /\ \A i \in (h + 1)..n : lines[i].kind \in {"more", "note", "blank"}
<1>1. lines \in Seq(Lines)
  BY Runners DEF WellTyped, Runner, Lines
<1> HIDE DEF lines
<1>2. Len(lines) \in Nat /\ DOMAIN lines = 1..Len(lines)
  BY <1>1
<1>3. ASSUME NEW group \in {"n", "p"}, NEW n \in DOMAIN lines, lines[n].kind = "more"
      PROVE  ActiveModel(lines, n) = group <=> \E h \in DOMAIN lines : own(h, n) /\ lines[h].group = group
  <2>1. n \in 0..Len(lines)
    BY <1>2
  <2>2. ActiveModel(lines, n) = group <=> \E h \in 1..n : GoesOn(lines, h, n) /\ lines[h].group = group
    BY <1>1, <2>1, GroupIsOfCard
  <2>3. \A h \in 1..n : GoesOn(lines, h, n) => h \in DOMAIN lines /\ own(h, n)
    BY <1>2, <1>3 DEF GoesOn
  <2>4. \A h \in DOMAIN lines : own(h, n) => h \in 1..n /\ GoesOn(lines, h, n)
    BY <1>2 DEF GoesOn
  <2> HIDE DEF own
  <2>5. QED
    BY <2>2, <2>3, <2>4
<1>4. \A group \in {"n", "p"} :
        Scaled(lines, group) = {n \in DOMAIN lines : lines[n].kind = "more" /\ lines[n].u0
                                  /\ \E h \in DOMAIN lines : own(h, n) /\ lines[h].group = group}
  BY <1>3 DEF Scaled
<1>5. QED
  BY <1>4 DEF EveryMobilityIsScaled, lines

\* In a variation run the mobility of a card of a scaled group is scaled on every
\* line the card goes on, whatever comments and empty lines it has, and no
\* other is, for a model file of any length.
THEOREM MobilitiesAreScaled == EvidenceSpec => []EveryMobilityIsScaled
  BY MobilityOfContract, Invariance, PTL
=============================================================================
