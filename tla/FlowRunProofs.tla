--------------------------- MODULE FlowRunProofs ---------------------------
(***************************************************************************)
(* Theorems about FlowRun for every number of steps, every composite       *)
(* structure, every set of command lines and every number of invocations:  *)
(* what is handed from step to step, the journal of a run directory, the   *)
(* snapshot in final/, and what "Flow complete." stands for.               *)
(***************************************************************************)
EXTENDS FlowRun, WellFoundedInduction, TLAPS

-----------------------------------------------------------------------------
(* The inductive invariant                                                 *)

\* Modification times are in the past.
ClockAhead == \A f \in DOMAIN records : records[f].mtime < clock

\* The order of the records in the directory is the order they were written in.
TimeFollowsPlace ==
  \A f, g \in DOMAIN records :
    f # g => \/ Journal!After(f, g) /\ records[f].mtime > records[g].mtime
             \/ Journal!After(g, f) /\ records[g].mtime > records[f].mtime

\* The running flow's ordinal is at or above everything in the directory, and
\* above all of it when a step is about to be started.
OrdinalAhead ==
  /\ \A o \in Ordinals : o <= ordinal
  /\ pc = "stage" /\ stage <= NumSteps => \A o \in Ordinals : o < ordinal

\* What the directory of the step being run holds.
InsideStep ==
  pc = "step" =>
    /\ ordinal \in DOMAIN entries
    /\ entries[ordinal].step = stage
    /\ entries[ordinal].done = 1..sub
    /\ sub <= Parts[stage]
    /\ \A part \in Part : <<ordinal, part>> \in DOMAIN records <=> part \in 1..sub

\* A recorded state mentions no directory behind its own.
StatesPointBack ==
  /\ \A f \in DOMAIN records : \A key \in Key : records[f].state[key] <= f[1]
  /\ \A key \in Key : cur[key] <= ordinal

\* What OnlyFinishedViews says of the running flow's state holds of recorded
\* states too, for the directories that are still there.
Grounded(es, s) ==
  \A key \in Key : s[key] > 0 /\ s[key] \in DOMAIN es =>
    es[s[key]].step = key[1] /\ key[2] \in es[s[key]].done

RecordsGrounded == \A f \in DOMAIN records : Grounded(entries, records[f].state)

IdleIsBlank == pc = "idle" => cur = NoViews

\* The directories of this run belong to steps behind the loop's place, but for
\* the one being run.
RunGoesForward ==
  pc # "idle" =>
    \A o \in DOMAIN entries :
      o >= base => \/ entries[o].step < stage
                   \/ pc = "step" /\ o = ordinal

IInv == /\ TypeOK
        /\ ClockAhead
        /\ TimeFollowsPlace
        /\ OrdinalAhead
        /\ InsideStep
        /\ StatesPointBack
        /\ RecordsGrounded
        /\ IdleIsBlank
        /\ OnlyFinishedViews
        /\ RunGoesForward
        /\ CarriesOwnResults

-----------------------------------------------------------------------------
(* Lemmas about the operators                                              *)

\* A bounded non-empty set of naturals has the maximum FiniteSetsExt chooses.
LEMMA MaxOfBounded ==
  ASSUME NEW S \in SUBSET Nat, S # {}, NEW b \in Nat, \A x \in S : x <= b
  PROVE  Max(S) \in S /\ \A y \in S : y <= Max(S)
<1> DEFINE T == {b - x : x \in S}
<1>1. T \subseteq Nat /\ T # {}
  <2>1. \A x \in S : b - x \in Nat
    OBVIOUS
  <2>2. T # {}
    OBVIOUS
  <2>3. QED
    BY ONLY <2>1, <2>2
<1>2. PICK t \in T : \A u \in T : ~ (<<u, t>> \in OpToRel(<, Nat))
  BY ONLY <1>1, NatLessThanWellFounded, WFMin
<1>3. PICK m \in S : t = b - m
  OBVIOUS
<1>4. ASSUME NEW y \in S PROVE m >= y
  <2>1. b - y \in T /\ b - y \in Nat /\ t \in Nat
    BY <1>1
  <2>2. ~(b - y < t)
    BY <1>2, <2>1 DEF OpToRel
  <2>3. QED
    BY <2>1, <2>2, <1>3
<1>5. QED
  BY <1>4 DEF Max

\* starting_ordinal is above every entry of the run directory, finished or not.
LEMMA StartingOrdinalIsFresh ==
  ASSUME TypeOK, \A o \in Ordinals : o <= ordinal
  PROVE  /\ StartingOrdinal \in Nat \ {0}
         /\ \A o \in Ordinals : o < StartingOrdinal
<1>1. Ordinals \subseteq Nat
  <2>1. DOMAIN entries \subseteq Nat /\ DOMAIN records \subseteq (Nat \ {0}) \X Part
    BY DEF TypeOK, DiskTypeOK, MemoryTypeOK
  <2>2. \A f \in DOMAIN records : f[1] \in Nat
    BY <2>1
  <2>3. QED
    BY <2>1, <2>2 DEF Ordinals
<1>2. ordinal \in Nat
  BY DEF TypeOK, DiskTypeOK, MemoryTypeOK
<1> DEFINE S == {0} \cup Ordinals
<1>3. S \in SUBSET Nat /\ S # {} /\ \A x \in S : x <= ordinal
  BY <1>1, <1>2
<1>4. Max(S) \in S /\ \A y \in S : y <= Max(S)
  BY ONLY <1>2, <1>3, MaxOfBounded
<1>5. StartingOrdinal = Max(S) + 1
  BY DEF StartingOrdinal
<1>6. Max(S) \in Nat
  BY ONLY <1>3, <1>4
<1> HIDE DEF S
<1>7. QED
  <2> DEFINE m == Max(S)
  <2>1. m \in Nat /\ StartingOrdinal = m + 1 /\ \A o \in Ordinals : o <= m
    BY <1>4, <1>5, <1>6 DEF S
  <2> HIDE DEF m
  <2>2. QED
    BY ONLY <1>1, <2>1

\* The states the loop makes are states.
LEMMA StateAfterType ==
  ASSUME TypeOK, NEW parts
  PROVE  StateAfter(parts) \in State
<1>1. ordinal \in Nat /\ cur \in [Key -> Nat \cup {Elsewhere}]
  BY DEF TypeOK, MemoryTypeOK, State
<1>2. QED
  BY <1>1 DEF StateAfter, State

\* A state without views is a state.
LEMMA NoViewsType == NoViews \in State
BY DEF NoViews, State

\* The views of a state are whole numbers.
LEMMA ViewsAreWhole ==
  ASSUME NEW s \in State PROVE \A key \in Key : s[key] \in Int
BY DEF State, Elsewhere

\* A state of views from elsewhere is a state; none of them, one without views.
LEMMA ForeignType ==
  ASSUME NEW views
  PROVE  /\ Foreign(views) \in State
         /\ \A key \in Key : Foreign(views)[key] \in {0, Elsewhere}
         /\ \A key \in Key : Foreign(views)[key] # 0 => key \in views
         /\ views = {} => Foreign(views) = NoViews
BY DEF Foreign, State, NoViews

\* Merged states hold what one of them holds.
LEMMA MergedFromFiles ==
  ASSUME NEW n \in Nat, NEW files \in [1..n -> State], NEW key \in Key
  PROVE  Merged(files)[key] = 0 \/ \E i \in 1..n : Merged(files)[key] = files[i][key]
<1> DEFINE have == {i \in 1..n : files[i][key] # 0}
<1>1. DOMAIN files = 1..n
  OBVIOUS
<1>2. Merged(files)[key] = IF have = {} THEN 0 ELSE files[Max(have)][key]
  BY <1>1 DEF Merged
<1>3. CASE have = {}
  BY <1>2, <1>3
<1>4. CASE have # {}
  <2>1. have \in SUBSET Nat /\ \A i \in have : i <= n
    OBVIOUS
  <2>2. Max(have) \in have
    BY ONLY <1>4, <2>1, n \in Nat, MaxOfBounded
  <2>3. Max(have) \in 1..n
    BY <2>2
  <2>4. QED
    BY <1>2, <1>4, <2>3
<1>5. QED
  BY <1>3, <1>4

\* Merged states are a state.
LEMMA MergedType ==
  ASSUME NEW n \in Nat, NEW files \in [1..n -> State]
  PROVE  Merged(files) \in State
<1>1. ASSUME NEW key \in Key PROVE Merged(files)[key] \in Nat \cup {Elsewhere}
  <2>1. Merged(files)[key] = 0 \/ \E i \in 1..n : Merged(files)[key] = files[i][key]
    BY MergedFromFiles
  <2>2. \A i \in 1..n : files[i] \in State
    OBVIOUS
  <2>3. \A i \in 1..n : files[i][key] \in Nat \cup {Elsewhere}
    BY <2>2 DEF State
  <2>4. QED
    BY <2>1, <2>3
<1>2. Merged(files) = [key \in Key |-> Merged(files)[key]]
  BY DEF Merged
<1>3. QED
  BY <1>1, <1>2 DEF State

\* The files a user may name hold states, of the records or from elsewhere.
LEMMA StateFilesType ==
  ASSUME TypeOK, NEW s \in StateFiles
  PROVE  /\ s \in State
         /\ \A key \in Key : \/ s[key] \in {0, Elsewhere}
                            \/ \E f \in WholeRecords : s[key] = records[f].state[key]
<1>1. CASE \E f \in WholeRecords : s = records[f].state
  BY <1>1 DEF WholeRecords, TypeOK, DiskTypeOK, Record
<1>2. CASE \E views \in Abroad : s = Foreign(views)
  BY <1>2, ForeignType
<1>3. QED
  BY <1>1, <1>2 DEF StateFiles

\* A state that is given is put together of views of records and from elsewhere.
LEMMA GivenStatesType ==
  ASSUME TypeOK, NEW s \in GivenStates
  PROVE  /\ s \in State
         /\ \A key \in Key : \/ s[key] \in {0, Elsewhere}
                            \/ \E f \in WholeRecords : s[key] = records[f].state[key]
<1>1. PICK n \in 1..MaxFiles : \E files \in [1..n -> StateFiles] : s = Merged(files)
  BY DEF GivenStates
<1>2. PICK files \in [1..n -> StateFiles] : s = Merged(files)
  BY <1>1
<1>3. n \in Nat
  BY FlowAssumption
<1>4. files \in [1..n -> State]
  BY <1>2, StateFilesType
<1>5. s \in State
  BY <1>2, <1>3, <1>4, MergedType
<1>6. ASSUME NEW key \in Key
      PROVE  \/ s[key] \in {0, Elsewhere}
             \/ \E f \in WholeRecords : s[key] = records[f].state[key]
  <2>1. s[key] = 0 \/ \E i \in 1..n : s[key] = files[i][key]
    BY <1>2, <1>3, <1>4, MergedFromFiles
  <2>2. \A i \in 1..n : files[i] \in StateFiles
    BY <1>2
  <2>3. QED
    BY <2>1, <2>2, StateFilesType
<1>7. QED
  BY <1>5, <1>6

\* What a run opens with: views of records and from elsewhere, all of them there.
LEMMA OpensWith ==
  ASSUME TypeOK, NEW r \in Requests, Loads(r), NEW s \in OpeningStates(r)
  PROVE  /\ s \in State
         /\ PathsExist(s)
         /\ \A key \in Key : \/ s[key] \in {0, Elsewhere}
                            \/ \E f \in WholeRecords : s[key] = records[f].state[key]
<1>1. CASE r.given
  <2>1. s \in GivenStates
    BY <1>1 DEF OpeningStates
  <2>2. PathsExist(s)
    BY <2>1 DEF GivenStates
  <2>3. QED
    BY <2>1, <2>2, GivenStatesType
<1>2. CASE ~r.given /\ DOMAIN records = {}
  <2>1. s = NoViews
    BY <1>2 DEF OpeningStates
  <2>2. \A key \in Key : s[key] = 0
    BY <2>1 DEF NoViews
  <2>3. QED
    BY <2>1, <2>2, NoViewsType DEF PathsExist
<1>3. CASE ~r.given /\ DOMAIN records # {}
  <2>1. PICK f \in DOMAIN records : IsLatest(f) /\ s = records[f].state
    BY <1>3 DEF OpeningStates
  <2>2. Readable(f)
    BY <1>3, <2>1 DEF Loads, LatestLoads
  <2>3. f \in WholeRecords /\ PathsExist(s) /\ s \in State
    BY <2>1, <2>2 DEF Readable, WholeRecords, TypeOK, DiskTypeOK, Record
  <2>4. QED
    BY <2>1, <2>3
<1>4. QED
  BY <1>1, <1>2, <1>3

\* The entry a step writes when it starts.
LEMMA WriteEntryType ==
  ASSUME TypeOK, stage \in Step, WriteEntry
  PROVE  /\ DOMAIN entries' = DOMAIN entries \cup {ordinal}
         /\ entries'[ordinal] = [step |-> stage, in |-> cur, done |-> {}]
         /\ \A o \in DOMAIN entries : o # ordinal => entries'[o] = entries[o]
         /\ DOMAIN entries' \subseteq Nat \ {0}
         /\ entries' \in [DOMAIN entries' -> Entry]
<1>1. /\ ordinal \in Nat \ {0}
      /\ cur \in State
      /\ DOMAIN entries \subseteq Nat \ {0}
      /\ entries \in [DOMAIN entries -> Entry]
  BY DEF TypeOK, DiskTypeOK, MemoryTypeOK
<1>2. [step |-> stage, in |-> cur, done |-> {}] \in Entry
  BY <1>1 DEF Entry
<1>3. QED
  BY <1>1, <1>2 DEF WriteEntry

\* The record a step or a part writes when it ends.
LEMMA WriteRecordType ==
  ASSUME TypeOK, NEW part \in Part, NEW torn \in BOOLEAN, NEW s \in State,
         WriteRecord(part, torn, s)
  PROVE  /\ DOMAIN records' = DOMAIN records \cup {<<ordinal, part>>}
         /\ records'[<<ordinal, part>>] = [torn |-> torn, state |-> s, mtime |-> clock]
         /\ \A f \in DOMAIN records : f # <<ordinal, part>> => records'[f] = records[f]
         /\ DOMAIN records' \subseteq (Nat \ {0}) \X Part
         /\ records' \in [DOMAIN records' -> Record]
         /\ clock' \in Nat
         /\ clock' = clock + 1
<1>1. /\ ordinal \in Nat \ {0}
      /\ clock \in Nat
      /\ DOMAIN records \subseteq (Nat \ {0}) \X Part
      /\ records \in [DOMAIN records -> Record]
  BY DEF TypeOK, DiskTypeOK, MemoryTypeOK
<1>2. [torn |-> torn, state |-> s, mtime |-> clock] \in Record
  BY <1>1 DEF Record
<1>3. QED
  BY <1>1, <1>2 DEF WriteRecord

\* Completing parts of the current directory changes nothing else in it.
LEMMA CompleteType ==
  ASSUME TypeOK, NEW parts \in SUBSET Part, ordinal \in DOMAIN entries, Complete(parts)
  PROVE  /\ DOMAIN entries' = DOMAIN entries
         /\ entries'[ordinal].step = entries[ordinal].step
         /\ entries'[ordinal].in = entries[ordinal].in
         /\ entries'[ordinal].done = entries[ordinal].done \cup parts
         /\ \A o \in DOMAIN entries : o # ordinal => entries'[o] = entries[o]
         /\ entries' \in [DOMAIN entries' -> Entry]
<1>1. entries \in [DOMAIN entries -> Entry]
  BY DEF TypeOK, DiskTypeOK, MemoryTypeOK
<1>2. QED
  BY <1>1 DEF Complete, Entry

\* Inside the loop, the place of the loop is a step.
LEMMA AtStageIsStep ==
  ASSUME TypeOK, AtStage PROVE stage \in Step
BY FlowAssumption DEF AtStage, TypeOK, MemoryTypeOK, Step

\* An overwrite that dies leaves some of the entries and of the records as they were.
LEMMA OverwriteDiesKeepsSome ==
  ASSUME NEW r, OverwriteDies(r)
  PROVE  \E D \in SUBSET DOMAIN entries, F \in SUBSET DOMAIN records :
           /\ entries' = [o \in D |-> entries[o]]
           /\ records' = [f \in F |-> records[f]]
BY DEF OverwriteDies

\* A snapshot is a state, however far it came.
LEMMA SnapshotType ==
  ASSUME TypeOK, NEW copied
  PROVE  Snapshot(copied) \in State
<1>1. final \in [Key -> Nat \cup {Elsewhere}] /\ cur \in [Key -> Nat \cup {Elsewhere}]
  BY DEF TypeOK, DiskTypeOK, MemoryTypeOK, State
<1>2. QED
  BY <1>1 DEF Snapshot, State

\* The record a dying process leaves torn.
LEMMA DyingPart ==
  ASSUME TypeOK, pc = "step"
  PROVE  (IF sub < Parts[stage] THEN sub + 1 ELSE 0) \in Part
<1>1. stage \in Step /\ sub \in Part /\ Parts[stage] \in Part
  BY FlowAssumption DEF TypeOK, MemoryTypeOK
<1>2. QED
  BY <1>1, FlowAssumption DEF Part

-----------------------------------------------------------------------------
(* Type correctness                                                        *)

\* A request names steps of the flow.
LEMMA RequestType ==
  ASSUME NEW r \in Requests
  PROVE  r.frm \in Step \cup {0} /\ r.to \in Step \cup {0} /\ r.repro \in Step \cup {0}
BY FlowAssumption DEF Request

\* What the start of an invocation does to the memory.
LEMMA TypeBeginRun ==
  ASSUME TypeOK, NEW r \in Requests, NEW from \in Nat \ {0}, NEW s \in State,
         BeginRun(r, from, s), damaged' \in BOOLEAN, named' \in SUBSET Key
  PROVE  MemoryTypeOK'
<1>1. 1 \in 1..(NumSteps + 1) /\ 0 \in Part
  BY FlowAssumption DEF Part
<1>2. runs + 1 \in Nat /\ {} \in SUBSET Step
  BY DEF TypeOK, MemoryTypeOK
<1>3. QED
  BY <1>1, <1>2 DEF BeginRun, MemoryTypeOK

\* What the end of an invocation does to the memory.
LEMMA TypeEndRun ==
  ASSUME TypeOK, NEW how \in {"none", "success", "failed"}, EndRun(how)
  PROVE  MemoryTypeOK'
<1>1. 1 \in 1..(NumSteps + 1) /\ 0 \in Part /\ NoViews \in State
  BY FlowAssumption, NoViewsType DEF Part
<1>2. QED
  BY <1>1 DEF EndRun, TypeOK, MemoryTypeOK

\* What the end of the loop's body does to the memory.
LEMMA TypeNextStage ==
  ASSUME TypeOK, stage \in Step, NEW inc \in BOOLEAN, NextStage(inc),
         cur' \in State, deferred' \in SUBSET Step, named' \in SUBSET Key
  PROVE  MemoryTypeOK'
<1>1. stage + 1 \in 1..(NumSteps + 1) /\ 0 \in Part
  BY FlowAssumption DEF Part, Step
<1>2. ordinal + 1 \in Nat \ {0}
  BY DEF TypeOK, MemoryTypeOK
<1>3. ordinal' \in Nat \ {0}
  BY <1>2 DEF NextStage, EndStage, TypeOK, MemoryTypeOK
<1>4. executing' \in BOOLEAN
  BY DEF NextStage, EndStage
<1>5. QED
  BY <1>1, <1>3, <1>4 DEF NextStage, EndStage, TypeOK, MemoryTypeOK

\* A fresh run directory and an idle process have their types.
LEMMA TypeInit == Init => TypeOK
<1> SUFFICES ASSUME Init PROVE TypeOK
  OBVIOUS
<1>1. 1 \in 1..(NumSteps + 1) /\ 0 \in Part /\ NoViews \in State
  BY FlowAssumption, NoViewsType DEF Part
<1>2. DiskTypeOK
  BY <1>1 DEF Init, DiskTypeOK
<1>3. MemoryTypeOK
  <2>1. pc = "idle" /\ executing \in BOOLEAN /\ damaged \in BOOLEAN
    BY DEF Init
  <2>2. QED
    BY <1>1, <2>1 DEF Init, MemoryTypeOK
<1>4. QED
  BY <1>2, <1>3 DEF TypeOK

\* The disk keeps its type where an action leaves all of it alone.
LEMMA DiskTypeUnchanged ==
  ASSUME TypeOK, UNCHANGED disk PROVE DiskTypeOK'
BY DEF TypeOK, DiskTypeOK, disk

\* Every step of the flow, of the user and of a death keeps every type.
LEMMA TypeNext ==
  ASSUME TypeOK, OrdinalAhead, InsideStep, [Next]_vars
  PROVE  TypeOK'
<1>1. CASE UNCHANGED vars
  <2>1. DiskTypeOK'
    BY <1>1, DiskTypeUnchanged DEF vars
  <2>2. MemoryTypeOK'
    BY <1>1 DEF TypeOK, MemoryTypeOK, vars, memory
  <2>3. QED
    BY <2>1, <2>2 DEF TypeOK
<1>2. ASSUME NEW r \in Requests, Overwrite(r) PROVE TypeOK'
  <2>1. PICK views \in SUBSET Key : BeginRun(r, 1, Foreign(views)) /\ named' = views
    BY <1>2, FlowAssumption DEF Overwrite
  <2>7. EmptyDisk /\ clock' = clock /\ damaged' = FALSE
    BY <1>2 DEF Overwrite
  <2>2. DiskTypeOK'
    BY <2>7, NoViewsType DEF EmptyDisk, TypeOK, DiskTypeOK
  <2>3. 1 \in Nat \ {0}
    OBVIOUS
  <2>4. damaged' \in BOOLEAN
    BY <2>7
  <2>8. Foreign(views) \in State /\ named' \in SUBSET Key
    BY <2>1, ForeignType
  <2>5. MemoryTypeOK'
    BY <2>1, <2>3, <2>4, <2>8, TypeBeginRun, Zenon
  <2>6. QED
    BY <2>2, <2>5 DEF TypeOK
<1>3. ASSUME NEW r \in Requests, OverwriteDies(r) PROVE TypeOK'
  <2>1. \E D \in SUBSET DOMAIN entries, F \in SUBSET DOMAIN records :
          /\ entries' = [o \in D |-> entries[o]]
          /\ records' = [f \in F |-> records[f]]
    BY <1>3, OverwriteDiesKeepsSome
  <2>2. DiskTypeOK'
    BY <1>3, <2>1, NoViewsType DEF OverwriteDies, TypeOK, DiskTypeOK
  <2>3. runs + 1 \in Nat
    BY DEF TypeOK, MemoryTypeOK
  <2>4. MemoryTypeOK'
    BY <1>3, <2>3 DEF OverwriteDies, TypeOK, MemoryTypeOK
  <2>5. QED
    BY <2>2, <2>4 DEF TypeOK
<1>4. ASSUME NEW r \in Requests, Resume(r) PROVE TypeOK'
  <2>1. StartingOrdinal \in Nat \ {0}
    BY <1>4, StartingOrdinalIsFresh DEF OrdinalAhead
  <2>2. \E s \in State : BeginRun(r, StartingOrdinal, s)
    BY <1>4, OpensWith DEF Resume
  <2>3. UNCHANGED disk /\ damaged' \in BOOLEAN /\ named' \in SUBSET Key
    BY <1>4 DEF Resume, ViewsOf, TypeOK, MemoryTypeOK
  <2>4. MemoryTypeOK'
    BY <2>1, <2>2, <2>3, TypeBeginRun
  <2>5. QED
    BY <2>3, <2>4, DiskTypeUnchanged DEF TypeOK
<1>5. ASSUME NEW r \in Requests, ResumeFails(r) PROVE TypeOK'
  <2>1. runs + 1 \in Nat
    BY DEF TypeOK, MemoryTypeOK
  <2>2. MemoryTypeOK'
    BY <1>5, <2>1 DEF ResumeFails, TypeOK, MemoryTypeOK
  <2>3. UNCHANGED disk
    BY <1>5 DEF ResumeFails
  <2>4. DiskTypeOK'
    BY <2>3, DiskTypeUnchanged
  <2>5. QED
    BY <2>2, <2>4 DEF TypeOK
<1>6. CASE SkipStep
  <2>1. NextStage(FALSE) /\ UNCHANGED <<disk, cur, deferred, named>>
    BY <1>6 DEF SkipStep
  <2>2. stage \in Step
    BY <1>6, AtStageIsStep DEF SkipStep
  <2>3. cur' \in State /\ deferred' \in SUBSET Step /\ named' \in SUBSET Key
    BY <2>1 DEF TypeOK, MemoryTypeOK
  <2>4. QED
    BY <2>1, <2>2, <2>3, TypeNextStage, DiskTypeUnchanged DEF TypeOK
<1>7. CASE CreateReproducible \/ StartStep
  <2>1. stage \in Step /\ WriteEntry /\ UNCHANGED <<records, final, clock>>
    BY <1>7, AtStageIsStep DEF CreateReproducible, WriteReproducible, StartStep
  <2>2. DOMAIN entries' \subseteq Nat \ {0} /\ entries' \in [DOMAIN entries' -> Entry]
    BY <2>1, WriteEntryType
  <2>3. DiskTypeOK'
    BY <2>1, <2>2 DEF TypeOK, DiskTypeOK
  <2>4. NumSteps + 1 \in 1..(NumSteps + 1) /\ 0 \in Part
    BY FlowAssumption DEF Part
  <2>5. MemoryTypeOK'
    BY <1>7, <2>1, <2>4 DEF CreateReproducible, WriteReproducible, StartStep, AtStage, TypeOK, MemoryTypeOK
  <2>6. QED
    BY <2>3, <2>5 DEF TypeOK
<1>8. CASE FinishPart
  <2>1. stage \in Step /\ sub + 1 \in Part
    BY <1>8, FlowAssumption DEF FinishPart, TypeOK, MemoryTypeOK, Part
  <2>2. ordinal \in DOMAIN entries
    BY <1>8 DEF FinishPart, InsideStep
  <2>3. /\ DOMAIN records' \subseteq (Nat \ {0}) \X Part
        /\ records' \in [DOMAIN records' -> Record]
        /\ clock' \in Nat
    BY <1>8, <2>1, StateAfterType, WriteRecordType DEF FinishPart
  <2>4. {sub + 1} \in SUBSET Part
    BY <2>1
  <2>5. DOMAIN entries' = DOMAIN entries /\ entries' \in [DOMAIN entries' -> Entry]
    BY <1>8, <2>2, <2>4, CompleteType DEF FinishPart
  <2>6. final' = final
    BY <1>8 DEF FinishPart
  <2>7. DiskTypeOK'
    BY <2>3, <2>5, <2>6 DEF TypeOK, DiskTypeOK
  <2>8. MemoryTypeOK'
    BY <1>8, <2>1 DEF FinishPart, TypeOK, MemoryTypeOK
  <2>9. QED
    BY <2>7, <2>8 DEF TypeOK
<1>9. CASE FinishStep
  <2>1. stage \in Step /\ ordinal \in DOMAIN entries
    BY <1>9 DEF FinishStep, InsideStep, TypeOK, MemoryTypeOK
  <2>2. 0 \in Part /\ OwnParts \in SUBSET Part
    BY <2>1, FlowAssumption DEF Part, OwnParts
  <2>3. /\ DOMAIN records' \subseteq (Nat \ {0}) \X Part
        /\ records' \in [DOMAIN records' -> Record]
        /\ clock' \in Nat
    BY <1>9, <2>2, StateAfterType, WriteRecordType DEF FinishStep
  <2>4. DOMAIN entries' = DOMAIN entries /\ entries' \in [DOMAIN entries' -> Entry]
    BY <1>9, <2>1, <2>2, CompleteType DEF FinishStep
  <2>5. cur' \in State
    BY <1>9, StateAfterType DEF FinishStep
  <2>6. NextStage(TRUE) /\ UNCHANGED <<final, deferred>>
    BY <1>9 DEF FinishStep
  <2>7. DiskTypeOK'
    BY <2>3, <2>4, <2>6 DEF TypeOK, DiskTypeOK
  <2>8. deferred' \in SUBSET Step /\ named' \in SUBSET Key
    BY <1>9, <2>6 DEF FinishStep, TypeOK, MemoryTypeOK
  <2>9. QED
    BY <2>1, <2>5, <2>6, <2>7, <2>8, TypeNextStage DEF TypeOK
<1>10. CASE DeferError
  <2>1. NextStage(TRUE) /\ stage \in Step /\ UNCHANGED <<disk, cur, named>>
        /\ deferred' = deferred \cup {stage}
    BY <1>10 DEF DeferError, TypeOK, MemoryTypeOK
  <2>2. cur' \in State /\ deferred' \in SUBSET Step /\ named' \in SUBSET Key
    BY <2>1 DEF TypeOK, MemoryTypeOK
  <2>3. QED
    BY <2>1, <2>2, TypeNextStage, DiskTypeUnchanged DEF TypeOK
<1>11. CASE StepFails \/ Die
  <2>1. EndRun("failed") /\ UNCHANGED disk
    BY <1>11 DEF StepFails, Die
  <2>2. QED
    BY <2>1, TypeEndRun, DiskTypeUnchanged DEF TypeOK
<1>12. CASE FinishRun \/ SnapshotFails
  <2>1. \E copied : final' = Snapshot(copied)
    BY <1>12 DEF FinishRun, SnapshotFails
  <2>2. \E how \in {"success", "failed"} : EndRun(how)
    BY <1>12 DEF FinishRun, SnapshotFails
  <2>3. UNCHANGED <<entries, records, clock>>
    BY <1>12 DEF FinishRun, SnapshotFails
  <2>4. DiskTypeOK'
    BY <2>1, <2>3, SnapshotType DEF TypeOK, DiskTypeOK
  <2>5. QED
    BY <2>2, <2>4, TypeEndRun DEF TypeOK
<1>13. CASE DieWriting
  <2>1. \E part \in Part : WriteRecord(part, TRUE, NoViews)
    BY <1>13, DyingPart DEF DieWriting
  <2>2. /\ DOMAIN records' \subseteq (Nat \ {0}) \X Part
        /\ records' \in [DOMAIN records' -> Record]
        /\ clock' \in Nat
    BY <2>1, NoViewsType, WriteRecordType
  <2>3. EndRun("failed") /\ UNCHANGED <<entries, final>>
    BY <1>13 DEF DieWriting
  <2>4. DiskTypeOK'
    BY <2>2, <2>3 DEF TypeOK, DiskTypeOK
  <2>5. QED
    BY <2>3, <2>4, TypeEndRun DEF TypeOK
<1>14. QED
  BY <1>1, <1>2, <1>3, <1>4, <1>5, <1>6, <1>7, <1>8, <1>9, <1>10, <1>11, <1>12, <1>13
     DEF Next, StartRun, RunSteps

-----------------------------------------------------------------------------
(* The order of the records                                                *)

\* Whatever the step being run writes next comes after all there is.
LEMMA WrittenIsLast ==
  ASSUME TypeOK, OrdinalAhead, InsideStep, pc = "step",
         NEW part, part = IF sub < Parts[stage] THEN sub + 1 ELSE 0,
         NEW g \in DOMAIN records
  PROVE  Journal!After(<<ordinal, part>>, g) /\ g # <<ordinal, part>>
<1>1. /\ ordinal \in Nat
      /\ sub \in Nat
      /\ g \in (Nat \ {0}) \X Part
      /\ Part \subseteq Nat
  BY FlowAssumption DEF TypeOK, DiskTypeOK, MemoryTypeOK, Part
<1>2. g[1] <= ordinal
  BY DEF OrdinalAhead, Ordinals
<1>3. CASE g[1] < ordinal
  BY <1>1, <1>3 DEF Journal!After
<1>4. CASE g[1] = ordinal
  <2>1. g = <<ordinal, g[2]>> /\ g[2] \in Part
    BY <1>1, <1>4
  <2>2. g[2] \in 1..sub
    BY <2>1 DEF InsideStep
  <2>3. part = 0 \/ part = sub + 1
    OBVIOUS
  <2>4. QED
    BY <1>1, <1>4, <2>2, <2>3 DEF Journal!After
<1>5. QED
  BY <1>1, <1>2, <1>3, <1>4

\* A record written after all others keeps the two orders in step.
LEMMA OrderAfterWrite ==
  ASSUME TypeOK, ClockAhead, TimeFollowsPlace,
         NEW part \in Part, NEW torn \in BOOLEAN, NEW s \in State,
         WriteRecord(part, torn, s),
         \A g \in DOMAIN records : /\ Journal!After(<<ordinal, part>>, g)
                                   /\ g # <<ordinal, part>>
  PROVE  ClockAhead' /\ TimeFollowsPlace'
<1> DEFINE n == <<ordinal, part>>
<1>1. /\ DOMAIN records' = DOMAIN records \cup {n}
      /\ records'[n].mtime = clock
      /\ \A f \in DOMAIN records : records'[f] = records[f]
      /\ clock' = clock + 1
      /\ clock \in Nat
  <2>1. /\ DOMAIN records' = DOMAIN records \cup {n}
        /\ records'[n] = [torn |-> torn, state |-> s, mtime |-> clock]
        /\ \A f \in DOMAIN records : f # n => records'[f] = records[f]
        /\ clock' = clock + 1
    BY WriteRecordType
  <2>2. \A f \in DOMAIN records : f # n
    OBVIOUS
  <2>3. clock \in Nat
    BY DEF TypeOK, DiskTypeOK
  <2>4. QED
    BY <2>1, <2>2, <2>3
<1>2. \A f \in DOMAIN records : records[f].mtime \in Nat /\ records[f].mtime < clock
  BY DEF ClockAhead, TypeOK, DiskTypeOK, Record
<1>3. ClockAhead'
  BY <1>1, <1>2 DEF ClockAhead
<1> HIDE DEF n
<1>4. TimeFollowsPlace'
  <2>1. ASSUME NEW f \in DOMAIN records', NEW g \in DOMAIN records', f # g
        PROVE  \/ Journal!After(f, g) /\ records'[f].mtime > records'[g].mtime
               \/ Journal!After(g, f) /\ records'[g].mtime > records'[f].mtime
    <3>1. CASE f = n
      BY <1>1, <1>2, <2>1, <3>1 DEF n
    <3>2. CASE g = n
      BY <1>1, <1>2, <2>1, <3>2 DEF n
    <3>3. CASE f # n /\ g # n
      BY <1>1, <2>1, <3>3 DEF TimeFollowsPlace
    <3>4. QED
      BY <3>1, <3>2, <3>3
  <2>2. QED
    BY <2>1 DEF TimeFollowsPlace, Journal!After
<1>5. QED
  BY <1>3, <1>4

\* The parts and states of the three actions that write a record.
LEMMA WritesRecord ==
  ASSUME TypeOK, FinishPart \/ FinishStep \/ DieWriting
  PROVE  \E part \in Part, torn \in BOOLEAN, s \in State :
           /\ pc = "step"
           /\ part = IF sub < Parts[stage] THEN sub + 1 ELSE 0
           /\ WriteRecord(part, torn, s)
<1>1. CASE FinishPart
  <2>1. pc = "step" /\ sub < Parts[stage]
    BY <1>1 DEF FinishPart
  <2>2. sub + 1 \in Part
    BY <2>1, DyingPart
  <2>3. StateAfter(1..(sub + 1)) \in State
    BY StateAfterType
  <2>4. WriteRecord(sub + 1, FALSE, StateAfter(1..(sub + 1)))
    BY <1>1 DEF FinishPart
  <2>5. QED
    BY <2>1, <2>2, <2>3, <2>4
<1>2. CASE FinishStep
  <2>1. pc = "step" /\ sub = Parts[stage] /\ sub \in Nat
    BY <1>2, FlowAssumption DEF FinishStep, TypeOK, MemoryTypeOK, Part
  <2>2. ~(sub < Parts[stage]) /\ 0 \in Part
    BY <2>1, FlowAssumption DEF Part
  <2>3. StateAfter(OwnParts) \in State
    BY StateAfterType
  <2>4. WriteRecord(0, FALSE, StateAfter(OwnParts))
    BY <1>2 DEF FinishStep
  <2>5. QED
    BY <2>1, <2>2, <2>3, <2>4
<1>3. CASE DieWriting
  BY <1>3, DyingPart, NoViewsType DEF DieWriting
<1>4. QED
  BY <1>1, <1>2, <1>3

\* Every other step leaves records and clock alone, or takes records away.
LEMMA OtherSteps ==
  ASSUME TypeOK, [Next]_vars, ~(FinishPart \/ FinishStep \/ DieWriting)
  PROVE  /\ clock' = clock
         /\ \E F \in SUBSET DOMAIN records : records' = [f \in F |-> records[f]]
<1>1. CASE \E r \in Requests : Overwrite(r)
  <2>1. clock' = clock /\ records' = [f \in {} |-> 0]
    BY <1>1 DEF Overwrite, EmptyDisk
  <2>2. [f \in {} |-> 0] = [f \in {} |-> records[f]]
    OBVIOUS
  <2>3. QED
    BY <2>1, <2>2
<1>2. CASE \E r \in Requests : OverwriteDies(r)
  <2>1. clock' = clock
    BY <1>2 DEF OverwriteDies
  <2>2. QED
    BY <1>2, <2>1, OverwriteDiesKeepsSome
<1>3. CASE UNCHANGED <<records, clock>>
  <2>1. records = [f \in DOMAIN records |-> records[f]]
    BY DEF TypeOK, DiskTypeOK
  <2>2. QED
    BY <1>3, <2>1
<1>4. CASE \E r \in Requests : Resume(r) \/ ResumeFails(r)
  BY <1>4, <1>3 DEF Resume, ResumeFails, disk
<1>5. QED
  BY <1>1, <1>2, <1>3, <1>4
     DEF Next, StartRun, RunSteps, SkipStep, CreateReproducible, WriteReproducible, StartStep, DeferError,
         StepFails, FinishRun, SnapshotFails, Die, vars, disk

\* Records are written one after the other, each behind all others: the two orders
\* of the directory, by place and by time, stay the same.
LEMMA OrderNext ==
  ASSUME TypeOK, OrdinalAhead, InsideStep, ClockAhead, TimeFollowsPlace, [Next]_vars
  PROVE  ClockAhead' /\ TimeFollowsPlace'
<1>1. CASE FinishPart \/ FinishStep \/ DieWriting
  <2>1. PICK part \in Part, torn \in BOOLEAN, s \in State :
           /\ pc = "step"
           /\ part = IF sub < Parts[stage] THEN sub + 1 ELSE 0
           /\ WriteRecord(part, torn, s)
    BY <1>1, WritesRecord
  <2>2. \A g \in DOMAIN records : /\ Journal!After(<<ordinal, part>>, g)
                                  /\ g # <<ordinal, part>>
    BY <2>1, WrittenIsLast
  <2>3. QED
    BY <2>1, <2>2, OrderAfterWrite
<1>2. CASE ~(FinishPart \/ FinishStep \/ DieWriting)
  <2>1. clock' = clock
    BY <1>2, OtherSteps
  <2>2. PICK F \in SUBSET DOMAIN records : records' = [f \in F |-> records[f]]
    BY <1>2, OtherSteps
  <2>3. ClockAhead'
    BY <2>1, <2>2 DEF ClockAhead
  <2>4. TimeFollowsPlace'
    BY <2>2 DEF TimeFollowsPlace, Journal!After
  <2>5. QED
    BY <2>3, <2>4
<1>3. QED
  BY <1>1, <1>2

-----------------------------------------------------------------------------
(* The running flow's ordinal and the directory of the step being run      *)

\* A step of the running flow adds to no directory but its own.
LEMMA OrdinalsGrow ==
  ASSUME DOMAIN entries' \subseteq DOMAIN entries \cup {ordinal},
         \A f \in DOMAIN records' : f \in DOMAIN records \/ f[1] = ordinal
  PROVE  Ordinals' \subseteq Ordinals \cup {ordinal}
BY DEF Ordinals

\* What the three actions that write a record add to the directory.
LEMMA WritesInOwnDirectory ==
  ASSUME TypeOK, InsideStep, FinishPart \/ FinishStep \/ DieWriting
  PROVE  /\ Ordinals' \subseteq Ordinals \cup {ordinal}
         /\ DOMAIN entries' = DOMAIN entries
         /\ \A o \in DOMAIN entries :
              /\ o # ordinal => entries'[o] = entries[o]
              /\ entries'[o].step = entries[o].step
              /\ entries[o].done \subseteq entries'[o].done
<1>1. PICK part \in Part, torn \in BOOLEAN, s \in State :
         pc = "step" /\ WriteRecord(part, torn, s)
  BY WritesRecord
<1>2. \A f \in DOMAIN records' : f \in DOMAIN records \/ f[1] = ordinal
  BY <1>1 DEF WriteRecord
<1>3. /\ DOMAIN entries' = DOMAIN entries
      /\ \A o \in DOMAIN entries :
           /\ o # ordinal => entries'[o] = entries[o]
           /\ entries'[o].step = entries[o].step
           /\ entries[o].done \subseteq entries'[o].done
  <2>1. CASE DieWriting
    BY <2>1 DEF DieWriting
  <2>2. CASE FinishPart \/ FinishStep
    <3>1. ordinal \in DOMAIN entries /\ stage \in Step
      BY <1>1 DEF InsideStep, TypeOK, MemoryTypeOK
    <3>2. {sub + 1} \in SUBSET Part \/ ~FinishPart
      <4>1. ASSUME FinishPart PROVE sub + 1 \in Part
        BY <4>1, <1>1, DyingPart DEF FinishPart
      <4>2. QED
        BY <4>1
    <3>3. OwnParts \in SUBSET Part
      BY <3>1, FlowAssumption DEF Part, OwnParts
    <3>4. \E parts \in SUBSET Part : Complete(parts)
      BY <2>2, <3>2, <3>3 DEF FinishPart, FinishStep
    <3>5. QED
      BY <3>1, <3>4, CompleteType
  <2>3. QED
    BY <2>1, <2>2
<1>4. QED
  BY <1>2, <1>3, OrdinalsGrow

\* The ordinal of the running flow never falls behind what is in the directory, so
\* a step about to be started never meets a directory with its number.
LEMMA OrdinalNext ==
  ASSUME TypeOK, OrdinalAhead, InsideStep, [Next]_vars
  PROVE  OrdinalAhead'
<1> USE DEF OrdinalAhead
<1>1. Ordinals \subseteq Nat /\ ordinal \in Nat
  <2>1. \A f \in DOMAIN records : f[1] \in Nat
    BY DEF TypeOK, DiskTypeOK
  <2>2. QED
    BY <2>1 DEF Ordinals, TypeOK, DiskTypeOK, MemoryTypeOK
<1>2. ASSUME UNCHANGED <<entries, records>> PROVE Ordinals' = Ordinals
  BY <1>2 DEF Ordinals
<1>3. CASE \E r \in Requests : Overwrite(r)
  BY <1>3 DEF Overwrite, EmptyDisk, Ordinals
<1>4. CASE \E r \in Requests : OverwriteDies(r)
  <2>1. Ordinals' \subseteq Ordinals
    BY <1>4, OverwriteDiesKeepsSome DEF Ordinals
  <2>2. pc' # "stage" /\ ordinal' = ordinal
    BY <1>4 DEF OverwriteDies
  <2>3. QED
    BY <2>1, <2>2
<1>5. CASE \E r \in Requests : Resume(r)
  <2>1. UNCHANGED <<entries, records>> /\ ordinal' = StartingOrdinal
    BY <1>5 DEF Resume, disk, BeginRun
  <2>2. StartingOrdinal \in Nat /\ \A o \in Ordinals : o < StartingOrdinal
    BY StartingOrdinalIsFresh
  <2>3. \A o \in Ordinals : o < ordinal' /\ o <= ordinal'
    BY ONLY <1>1, <2>1, <2>2
  <2>4. QED
    BY <1>2, <2>1, <2>3
<1>6. CASE SkipStep \/ DeferError
  <2>1. UNCHANGED <<entries, records>>
    BY <1>6 DEF SkipStep, DeferError, disk
  <2>2. (SkipStep /\ ordinal' = ordinal /\ \A o \in Ordinals : o < ordinal) \/ ordinal' = ordinal + 1
    BY <1>6 DEF SkipStep, DeferError, NextStage, EndStage, AtStage
  <2>3. \A o \in Ordinals : o <= ordinal
    OBVIOUS
  <2>4. \A o \in Ordinals : o < ordinal' /\ o <= ordinal'
    BY ONLY <1>1, <2>2, <2>3
  <2>5. QED
    BY <1>2, <2>1, <2>4
<1>7. CASE CreateReproducible \/ StartStep
  <2>1. WriteEntry /\ records' = records /\ ordinal' = ordinal
    BY <1>7 DEF CreateReproducible, WriteReproducible, StartStep
  <2>2. Ordinals' \subseteq Ordinals \cup {ordinal}
    BY <2>1, OrdinalsGrow DEF WriteEntry
  <2>3. ~(pc' = "stage" /\ stage' <= NumSteps)
    BY <1>7, FlowAssumption DEF CreateReproducible, WriteReproducible, StartStep
  <2>4. QED
    BY <1>1, <2>1, <2>2, <2>3
<1>8. CASE FinishPart \/ FinishStep \/ DieWriting
  <2>1. Ordinals' \subseteq Ordinals \cup {ordinal}
    BY <1>8, WritesInOwnDirectory
  <2>2. (pc' # "stage" /\ ordinal' = ordinal) \/ ordinal' = ordinal + 1
    BY <1>8 DEF FinishPart, FinishStep, DieWriting, NextStage, EndStage, EndRun
  <2>3. QED
    BY <1>1, <2>1, <2>2
<1>9. CASE StepFails \/ FinishRun \/ SnapshotFails \/ Die \/ \E r \in Requests : ResumeFails(r)
  <2>1. UNCHANGED <<entries, records>> /\ ordinal' = ordinal /\ pc' # "stage"
    BY <1>9 DEF StepFails, FinishRun, SnapshotFails, Die, ResumeFails, EndRun, disk
  <2>2. QED
    BY <1>2, <2>1
<1>10. CASE UNCHANGED vars
  BY <1>10, <1>2 DEF vars, disk, memory
<1>11. QED
  BY <1>3, <1>4, <1>5, <1>6, <1>7, <1>8, <1>9, <1>10 DEF Next, StartRun, RunSteps

\* While a step runs its directory is there, and holds what its finished parts wrote.
LEMMA InsideNext ==
  ASSUME TypeOK, OrdinalAhead, InsideStep, [Next]_vars
  PROVE  InsideStep'
<1>1. CASE pc' # "step"
  BY <1>1 DEF InsideStep
<1>2. CASE StartStep
  <2>1. stage \in Step /\ WriteEntry /\ records' = records
    BY <1>2, AtStageIsStep DEF StartStep
  <2>2. ordinal' = ordinal /\ stage' = stage /\ sub' = 0
    BY <1>2 DEF StartStep
  <2>3. entries'[ordinal] = [step |-> stage, in |-> cur, done |-> {}] /\ ordinal \in DOMAIN entries'
    BY <2>1, WriteEntryType
  <2>4. \A part \in Part : <<ordinal, part>> \notin DOMAIN records
    <3>1. ASSUME NEW part, <<ordinal, part>> \in DOMAIN records PROVE FALSE
      <4>1. ordinal \in Ordinals
        BY <3>1 DEF Ordinals
      <4>2. ordinal < ordinal
        BY <1>2, <4>1 DEF OrdinalAhead, StartStep, AtStage
      <4>3. QED
        BY <4>2 DEF TypeOK, MemoryTypeOK
    <3>2. QED
      BY <3>1
  <2>5. 0 <= Parts[stage] /\ 1..0 = {}
    BY <2>1, FlowAssumption DEF Part
  <2>6. QED
    BY <2>1, <2>2, <2>3, <2>4, <2>5 DEF InsideStep
<1>3. CASE FinishPart
  <2>1. /\ pc = "step" /\ sub < Parts[stage]
        /\ WriteRecord(sub + 1, FALSE, StateAfter(1..(sub + 1)))
        /\ Complete({sub + 1})
        /\ sub' = sub + 1 /\ ordinal' = ordinal /\ stage' = stage
    BY <1>3 DEF FinishPart
  <2>2. /\ stage \in Step /\ sub \in Nat /\ Parts[stage] \in Nat /\ sub + 1 \in Part
        /\ ordinal \in Nat
    BY <2>1, DyingPart, FlowAssumption DEF TypeOK, MemoryTypeOK, Part
  <2>3. /\ ordinal \in DOMAIN entries
        /\ entries[ordinal].step = stage
        /\ entries[ordinal].done = 1..sub
        /\ \A part \in Part : <<ordinal, part>> \in DOMAIN records <=> part \in 1..sub
    BY <2>1 DEF InsideStep
  <2>4. /\ DOMAIN entries' = DOMAIN entries
        /\ entries'[ordinal].step = stage
        /\ entries'[ordinal].done = (1..sub) \cup {sub + 1}
    BY <2>1, <2>2, <2>3, CompleteType
  <2>5. DOMAIN records' = DOMAIN records \cup {<<ordinal, sub + 1>>}
    BY <2>1 DEF WriteRecord
  <2>6. (1..sub) \cup {sub + 1} = 1..(sub + 1)
    BY <2>2
  <2>7. sub + 1 <= Parts[stage]
    BY <2>1, <2>2
  <2>8. \A part \in Part : <<ordinal, part>> \in DOMAIN records' <=> part \in (1..sub) \cup {sub + 1}
    BY <2>3, <2>5
  <2>9. QED
    BY <2>1, <2>3, <2>4, <2>6, <2>7, <2>8 DEF InsideStep
<1>4. CASE UNCHANGED vars
  BY <1>4 DEF InsideStep, vars, disk, memory
<1>5. CASE \E r \in Requests : OverwriteDies(r) \/ ResumeFails(r)
  BY <1>1, <1>5 DEF OverwriteDies, ResumeFails
<1>6. CASE \/ \E r \in Requests : Overwrite(r) \/ Resume(r)
           \/ SkipStep \/ CreateReproducible \/ FinishStep \/ DeferError
           \/ StepFails \/ FinishRun \/ SnapshotFails \/ Die \/ DieWriting
  <2>1. pc' # "step"
    BY <1>6 DEF Overwrite, Resume, BeginRun, SkipStep, CreateReproducible, FinishStep, DeferError,
                NextStage, EndStage, StepFails, FinishRun, SnapshotFails, Die, DieWriting, EndRun, AtStage
  <2>2. QED
    BY <1>1, <2>1
<1>7. QED
  BY <1>2, <1>3, <1>4, <1>5, <1>6 DEF Next, StartRun, RunSteps

-----------------------------------------------------------------------------
(* Where states point                                                      *)

\* The state written by the three actions that write a record.
LEMMA WrittenState ==
  ASSUME TypeOK, InsideStep, FinishPart \/ FinishStep \/ DieWriting
  PROVE  \E part \in Part, torn \in BOOLEAN, s \in State :
           /\ WriteRecord(part, torn, s)
           /\ \A key \in Key :
                \/ s[key] = 0
                \/ s[key] = cur[key]
                \/ s[key] = ordinal /\ key[1] = stage /\ key[2] \in entries'[ordinal].done
<1>1. ASSUME NEW part \in Part, NEW parts \in SUBSET Part, ordinal \in DOMAIN entries,
             WriteRecord(part, FALSE, StateAfter(parts)),
             parts \subseteq entries'[ordinal].done
      PROVE  \E p \in Part, torn \in BOOLEAN, s \in State :
               /\ WriteRecord(p, torn, s)
               /\ \A key \in Key :
                    \/ s[key] = 0
                    \/ s[key] = cur[key]
                    \/ s[key] = ordinal /\ key[1] = stage /\ key[2] \in entries'[ordinal].done
  <2>1. StateAfter(parts) \in State
    BY StateAfterType
  <2>2. \A key \in Key :
          \/ StateAfter(parts)[key] = cur[key]
          \/ StateAfter(parts)[key] = ordinal /\ key[1] = stage /\ key[2] \in parts
    BY DEF StateAfter
  <2>3. QED
    BY <1>1, <2>1, <2>2
<1>2. CASE FinishPart
  <2>1. /\ pc = "step" /\ sub < Parts[stage]
        /\ WriteRecord(sub + 1, FALSE, StateAfter(1..(sub + 1)))
        /\ Complete({sub + 1})
    BY <1>2 DEF FinishPart
  <2>2. /\ sub + 1 \in Part /\ sub \in Nat
        /\ ordinal \in DOMAIN entries
        /\ entries[ordinal].done = 1..sub
    BY <2>1, DyingPart, FlowAssumption DEF InsideStep, TypeOK, MemoryTypeOK, Part
  <2>3. entries'[ordinal].done = (1..sub) \cup {sub + 1}
    BY <2>1, <2>2, CompleteType
  <2>4. 1..(sub + 1) \in SUBSET Part /\ 1..(sub + 1) \subseteq (1..sub) \cup {sub + 1}
    BY <2>2, FlowAssumption DEF Part
  <2>5. QED
    BY <1>1, <2>1, <2>2, <2>3, <2>4
<1>3. CASE FinishStep
  <2>1. /\ pc = "step"
        /\ WriteRecord(0, FALSE, StateAfter(OwnParts))
        /\ Complete(OwnParts)
    BY <1>3 DEF FinishStep
  <2>2. ordinal \in DOMAIN entries /\ stage \in Step
    BY <2>1 DEF InsideStep, TypeOK, MemoryTypeOK
  <2>3. OwnParts \in SUBSET Part /\ 0 \in Part
    BY <2>2, FlowAssumption DEF Part, OwnParts
  <2>4. OwnParts \subseteq entries'[ordinal].done
    BY <2>1, <2>2, <2>3, CompleteType
  <2>5. QED
    BY <1>1, <2>1, <2>2, <2>3, <2>4
<1>4. CASE DieWriting
  <2>1. \E part \in Part : WriteRecord(part, TRUE, NoViews)
    BY <1>4, DyingPart DEF DieWriting
  <2>2. \A key \in Key : NoViews[key] = 0
    BY DEF NoViews
  <2>3. QED
    BY <2>1, <2>2, NoViewsType
<1>5. QED
  BY <1>2, <1>3, <1>4

\* The running flow's state after any step.
LEMMA HeadAfter ==
  ASSUME TypeOK, [Next]_vars
  PROVE  \/ cur' = NoViews
         \/ cur' = cur /\ (ordinal' = ordinal \/ ordinal' = ordinal + 1)
         \/ FinishStep /\ cur' = StateAfter(OwnParts) /\ ordinal' = ordinal + 1
         \/ \A key \in Key : cur'[key] \in {0, Elsewhere}
         \/ /\ \E r \in Requests : Resume(r)
            /\ \E s \in State :
                 /\ PathsExist(s)
                 /\ \A key \in Key : \/ s[key] \in {0, Elsewhere}
                                    \/ \E f \in WholeRecords : s[key] = records[f].state[key]
                 /\ cur' = s
                 /\ ordinal' = StartingOrdinal
<1>1. CASE \E r \in Requests : Overwrite(r)
  BY <1>1, ForeignType DEF Overwrite, BeginRun
<1>2. CASE \E r \in Requests : Resume(r)
  <2>1. PICK r \in Requests : Resume(r)
    BY <1>2
  <2>2. Loads(r) /\ \E s \in OpeningStates(r) : cur' = s /\ ordinal' = StartingOrdinal
    BY <2>1 DEF Resume, BeginRun
  <2>3. QED
    BY <1>2, <2>2, OpensWith
<1>3. CASE FinishStep
  BY <1>3 DEF FinishStep, NextStage, EndStage
<1>4. CASE StepFails \/ FinishRun \/ SnapshotFails \/ Die \/ DieWriting
  BY <1>4 DEF StepFails, FinishRun, SnapshotFails, Die, DieWriting, EndRun
<1>5. CASE \E r \in Requests : OverwriteDies(r) \/ ResumeFails(r)
  BY <1>5 DEF OverwriteDies, ResumeFails
<1>6. CASE SkipStep \/ CreateReproducible \/ StartStep \/ FinishPart \/ DeferError
  BY <1>6 DEF SkipStep, CreateReproducible, WriteReproducible, StartStep, FinishPart, DeferError, NextStage, EndStage
<1>7. CASE UNCHANGED vars
  BY <1>7 DEF vars, memory
<1>8. QED
  BY <1>1, <1>2, <1>3, <1>4, <1>5, <1>6, <1>7 DEF Next, StartRun, RunSteps

\* No step mentions views of directories behind its own in the state it writes.
LEMMA PointBackNext ==
  ASSUME TypeOK, OrdinalAhead, InsideStep, StatesPointBack, [Next]_vars
  PROVE  StatesPointBack'
<1>1. /\ ordinal \in Nat
      /\ \A f \in DOMAIN records : f[1] \in Nat /\ \A key \in Key : records[f].state[key] \in Int
      /\ \A key \in Key : cur[key] \in Int
  BY DEF TypeOK, DiskTypeOK, MemoryTypeOK, Record, State, Elsewhere
<1>2. \A f \in DOMAIN records' : \A key \in Key : records'[f].state[key] <= f[1]
  <2>1. CASE FinishPart \/ FinishStep \/ DieWriting
    <3>1. PICK part \in Part, torn \in BOOLEAN, s \in State :
            /\ WriteRecord(part, torn, s)
            /\ \A key \in Key : s[key] = 0 \/ s[key] = cur[key] \/ s[key] = ordinal
      BY <2>1, WrittenState
    <3>2. /\ DOMAIN records' = DOMAIN records \cup {<<ordinal, part>>}
          /\ records'[<<ordinal, part>>] = [torn |-> torn, state |-> s, mtime |-> clock]
          /\ \A f \in DOMAIN records : f # <<ordinal, part>> => records'[f] = records[f]
      BY <3>1, WriteRecordType
    <3>3. \A key \in Key : s[key] <= ordinal
      BY <1>1, <3>1 DEF StatesPointBack
    <3>4. QED
      BY <3>2, <3>3 DEF StatesPointBack
  <2>2. CASE ~(FinishPart \/ FinishStep \/ DieWriting)
    BY <2>2, OtherSteps DEF StatesPointBack
  <2>3. QED
    BY <2>1, <2>2
<1>3. \A key \in Key : cur'[key] <= ordinal'
  <2>1. CASE cur' = NoViews
    <3>1. ordinal' \in Nat
      BY TypeNext DEF TypeOK, MemoryTypeOK
    <3>2. QED
      BY <2>1, <3>1 DEF NoViews
  <2>2. CASE cur' = cur /\ (ordinal' = ordinal \/ ordinal' = ordinal + 1)
    BY <1>1, <2>2 DEF StatesPointBack
  <2>3. CASE cur' = StateAfter(OwnParts) /\ ordinal' = ordinal + 1
    <3>1. \A key \in Key : StateAfter(OwnParts)[key] \in {ordinal, cur[key]}
      BY DEF StateAfter
    <3>2. \A key \in Key : StateAfter(OwnParts)[key] <= ordinal + 1
      BY <1>1, <3>1 DEF StatesPointBack
    <3>3. QED
      BY <2>3, <3>2
  <2>4. CASE /\ ordinal' = StartingOrdinal
             /\ \A key \in Key :
                  \/ cur'[key] \in {0, Elsewhere}
                  \/ \E f \in WholeRecords : cur'[key] = records[f].state[key]
    <3>1. \A f \in WholeRecords : f \in DOMAIN records /\ f[1] < StartingOrdinal
      BY StartingOrdinalIsFresh DEF OrdinalAhead, Ordinals, WholeRecords
    <3>2. StartingOrdinal \in Nat
      BY StartingOrdinalIsFresh DEF OrdinalAhead
    <3>3. \A f \in WholeRecords : \A key \in Key : records[f].state[key] <= f[1]
      BY <3>1 DEF StatesPointBack
    <3>4. \A f \in WholeRecords : \A key \in Key : records[f].state[key] <= StartingOrdinal
      BY <1>1, <3>1, <3>2, <3>3
    <3>5. \A key \in Key : cur'[key] <= StartingOrdinal
      BY <2>4, <3>2, <3>4 DEF Elsewhere
    <3>6. QED
      BY <2>4, <3>5
  <2>6. CASE \A key \in Key : cur'[key] \in {0, Elsewhere}
    <3>1. ordinal' \in Nat
      BY TypeNext DEF TypeOK, MemoryTypeOK
    <3>2. QED
      BY <2>6, <3>1 DEF Elsewhere
  <2>5. QED
    BY <2>1, <2>2, <2>3, <2>4, <2>6, HeadAfter
<1>4. QED
  BY <1>2, <1>3 DEF StatesPointBack

-----------------------------------------------------------------------------
(* Where states come from                                                  *)

\* What a step of the flow makes of the step directories: those that stay keep
\* their step and lose no view, and only one behind all others is new.
LEMMA EntriesAfter ==
  ASSUME TypeOK, OrdinalAhead, InsideStep, [Next]_vars
  PROVE  /\ \A o \in DOMAIN entries' :
              \/ /\ o \in DOMAIN entries
                 /\ entries'[o].step = entries[o].step
                 /\ entries[o].done \subseteq entries'[o].done
              \/ AtStage /\ o = ordinal
         /\ pc # "idle" => DOMAIN entries \subseteq DOMAIN entries'
<1>1. CASE \E r \in Requests : Overwrite(r)
  BY <1>1 DEF Overwrite, EmptyDisk
<1>2. CASE \E r \in Requests : OverwriteDies(r)
  <2>1. pc = "idle"
    BY <1>2 DEF OverwriteDies
  <2>2. QED
    BY <1>2, <2>1, OverwriteDiesKeepsSome
<1>3. CASE CreateReproducible \/ StartStep
  <2>1. WriteEntry /\ AtStage
    BY <1>3 DEF CreateReproducible, WriteReproducible, StartStep
  <2>2. /\ DOMAIN entries' = DOMAIN entries \cup {ordinal}
        /\ \A o \in DOMAIN entries : o # ordinal => entries'[o] = entries[o]
    BY <2>1, AtStageIsStep, WriteEntryType
  <2>3. QED
    BY <2>1, <2>2
<1>4. CASE FinishPart \/ FinishStep \/ DieWriting
  BY <1>4, WritesInOwnDirectory
<1>5. CASE entries' = entries
  BY <1>5
<1>6. QED
  BY <1>1, <1>2, <1>3, <1>4, <1>5
     DEF Next, StartRun, RunSteps, Resume, ResumeFails, SkipStep, DeferError,
         StepFails, FinishRun, SnapshotFails, Die, vars, disk

\* A grounded state that does not mention the directory about to be made stays so.
LEMMA GroundedKept ==
  ASSUME TypeOK, OrdinalAhead, InsideStep, [Next]_vars,
         NEW s, Grounded(entries, s), AtStage => \A key \in Key : s[key] # ordinal
  PROVE  Grounded(entries', s)
BY EntriesAfter DEF Grounded

\* No state mentions the directory about to be made.
LEMMA NewDirectoryIsUnknown ==
  ASSUME TypeOK, OrdinalAhead, StatesPointBack, OnlyFinishedViews, AtStage
  PROVE  /\ \A f \in DOMAIN records : \A key \in Key : records[f].state[key] # ordinal
         /\ \A key \in Key : cur[key] # ordinal
<1>1. \A o \in Ordinals : o < ordinal
  BY DEF OrdinalAhead, AtStage
<1>2. ordinal \in Nat \ {0}
  BY DEF TypeOK, MemoryTypeOK
<1>3. ASSUME NEW f \in DOMAIN records, NEW key \in Key PROVE records[f].state[key] # ordinal
  <2>1. f[1] < ordinal /\ records[f].state[key] <= f[1]
    BY <1>1 DEF Ordinals, StatesPointBack
  <2>2. f[1] \in Nat /\ records[f].state[key] \in Int
    BY DEF TypeOK, DiskTypeOK, Record, State, Elsewhere
  <2>3. QED
    BY <1>2, <2>1, <2>2
<1>4. ASSUME NEW key \in Key PROVE cur[key] # ordinal
  <2>1. ordinal \notin DOMAIN entries
    BY <1>1, <1>2 DEF Ordinals
  <2>2. QED
    BY <1>2, <2>1 DEF OnlyFinishedViews
<1>5. QED
  BY <1>3, <1>4

\* No step writes, and no loss of directories leaves, a record with an unfinished view.
LEMMA GroundedNext ==
  ASSUME TypeOK, OrdinalAhead, InsideStep, StatesPointBack, RecordsGrounded,
         OnlyFinishedViews, [Next]_vars
  PROVE  RecordsGrounded'
<1>1. \A f \in DOMAIN records : Grounded(entries', records[f].state)
  <2>1. ASSUME NEW f \in DOMAIN records PROVE Grounded(entries', records[f].state)
    <3>1. Grounded(entries, records[f].state)
      BY DEF RecordsGrounded
    <3>2. AtStage => \A key \in Key : records[f].state[key] # ordinal
      BY NewDirectoryIsUnknown
    <3>3. QED
      BY <3>1, <3>2, GroundedKept
  <2>2. QED
    BY <2>1
<1>2. CASE FinishPart \/ FinishStep \/ DieWriting
  <2>1. PICK part \in Part, torn \in BOOLEAN, s \in State :
          /\ WriteRecord(part, torn, s)
          /\ \A key \in Key :
               \/ s[key] = 0
               \/ s[key] = cur[key]
               \/ s[key] = ordinal /\ key[1] = stage /\ key[2] \in entries'[ordinal].done
    BY <1>2, WrittenState
  <2>2. /\ DOMAIN records' = DOMAIN records \cup {<<ordinal, part>>}
        /\ records'[<<ordinal, part>>] = [torn |-> torn, state |-> s, mtime |-> clock]
        /\ \A f \in DOMAIN records : f # <<ordinal, part>> => records'[f] = records[f]
    BY <2>1, WriteRecordType
  <2>3. Grounded(entries', cur)
    <3>1. Grounded(entries, cur)
      BY DEF OnlyFinishedViews, Grounded
    <3>2. AtStage => \A key \in Key : cur[key] # ordinal
      BY NewDirectoryIsUnknown
    <3>3. QED
      BY <3>1, <3>2, GroundedKept
  <2>4. ordinal \in DOMAIN entries => entries'[ordinal].step = stage
    <3>1. pc = "step"
      BY <1>2, WritesRecord
    <3>2. QED
      BY <1>2, <3>1, WritesInOwnDirectory DEF InsideStep
  <2>5. DOMAIN entries' = DOMAIN entries
    BY <1>2, WritesInOwnDirectory
  <2>6. Grounded(entries', s)
    BY <2>1, <2>3, <2>4, <2>5 DEF Grounded
  <2>7. QED
    BY <1>1, <2>2, <2>6 DEF RecordsGrounded
<1>3. CASE ~(FinishPart \/ FinishStep \/ DieWriting)
  BY <1>1, <1>3, OtherSteps DEF RecordsGrounded
<1>4. QED
  BY <1>2, <1>3

\* The state of the running flow stays free of unfinished views.
LEMMA FinishedViewsNext ==
  ASSUME TypeOK, OrdinalAhead, InsideStep, StatesPointBack, RecordsGrounded,
         IdleIsBlank, OnlyFinishedViews, [Next]_vars
  PROVE  OnlyFinishedViews'
<1>1. ASSUME Grounded(entries', cur'),
             \A key \in Key : cur'[key] > 0 => cur'[key] \in DOMAIN entries'
      PROVE  OnlyFinishedViews'
  BY <1>1 DEF OnlyFinishedViews, Grounded
<1>2. CASE cur' = NoViews
  BY <1>2 DEF NoViews, OnlyFinishedViews
<1>3. pc # "idle" \/ cur = NoViews
  BY DEF IdleIsBlank
<1>4. Grounded(entries', cur)
  <2>1. Grounded(entries, cur)
    BY DEF OnlyFinishedViews, Grounded
  <2>2. AtStage => \A key \in Key : cur[key] # ordinal
    BY NewDirectoryIsUnknown
  <2>3. QED
    BY <2>1, <2>2, GroundedKept
<1>5. pc # "idle" => \A key \in Key : cur[key] > 0 => cur[key] \in DOMAIN entries'
  BY EntriesAfter DEF OnlyFinishedViews
<1>6. CASE cur' = cur
  BY <1>1, <1>2, <1>3, <1>4, <1>5, <1>6
<1>7. CASE FinishStep /\ cur' = StateAfter(OwnParts)
  <2>1. pc = "step" /\ Complete(OwnParts)
    BY <1>7 DEF FinishStep
  <2>2. ordinal \in DOMAIN entries /\ entries[ordinal].step = stage /\ stage \in Step
    BY <2>1 DEF InsideStep, TypeOK, MemoryTypeOK
  <2>3. OwnParts \in SUBSET Part
    BY <2>2, FlowAssumption DEF Part, OwnParts
  <2>4. /\ ordinal \in DOMAIN entries'
        /\ entries'[ordinal].step = stage
        /\ OwnParts \subseteq entries'[ordinal].done
    BY <2>1, <2>2, <2>3, CompleteType
  <2>5. \A key \in Key : \/ cur'[key] = cur[key]
                         \/ cur'[key] = ordinal /\ key[1] = stage /\ key[2] \in OwnParts
    BY <1>7 DEF StateAfter
  <2>6. Grounded(entries', cur')
    BY <1>4, <2>4, <2>5 DEF Grounded
  <2>7. \A key \in Key : cur'[key] > 0 => cur'[key] \in DOMAIN entries'
    BY <1>5, <2>1, <2>4, <2>5
  <2>8. QED
    BY <1>1, <2>6, <2>7
<1>8. CASE /\ \E r \in Requests : Resume(r)
           /\ PathsExist(cur')
           /\ \A key \in Key : \/ cur'[key] \in {0, Elsewhere}
                              \/ \E f \in WholeRecords : cur'[key] = records[f].state[key]
  <2>1. entries' = entries
    BY <1>8 DEF Resume, disk
  <2>2. \A f \in WholeRecords : Grounded(entries, records[f].state)
    BY DEF RecordsGrounded, WholeRecords
  <2>3. Grounded(entries, cur')
    BY <1>8, <2>2 DEF Grounded, Elsewhere
  <2>4. \A key \in Key : cur'[key] > 0 => cur'[key] \in DOMAIN entries
    BY <1>8 DEF PathsExist
  <2>5. QED
    BY <1>1, <2>1, <2>3, <2>4
<1>10. CASE \A key \in Key : cur'[key] \in {0, Elsewhere}
  BY <1>10 DEF OnlyFinishedViews, Elsewhere
<1>9. QED
  BY <1>2, <1>6, <1>7, <1>8, <1>10, HeadAfter

\* A process that is gone has no state.
LEMMA IdleNext ==
  ASSUME IdleIsBlank, [Next]_vars
  PROVE  IdleIsBlank'
<1>1. CASE UNCHANGED <<pc, cur>>
  BY <1>1 DEF IdleIsBlank
<1>2. CASE StepFails \/ FinishRun \/ SnapshotFails \/ Die \/ DieWriting
  BY <1>2 DEF StepFails, FinishRun, SnapshotFails, Die, DieWriting, EndRun, IdleIsBlank, NoViews
<1>3. CASE \/ \E r \in Requests : Overwrite(r) \/ Resume(r)
           \/ SkipStep \/ FinishStep \/ DeferError \/ StartStep
  <2>1. pc' # "idle"
    BY <1>3 DEF Overwrite, Resume, BeginRun, SkipStep, FinishStep, DeferError, StartStep, NextStage, EndStage
  <2>2. QED
    BY <2>1 DEF IdleIsBlank
<1>4. QED
  BY <1>1, <1>2, <1>3
     DEF Next, StartRun, RunSteps, OverwriteDies, ResumeFails, CreateReproducible, FinishPart,
         vars, memory

-----------------------------------------------------------------------------
(* What the running flow has finished so far                               *)

\* The loop goes forward: a run starts each step at most once.
LEMMA ForwardNext ==
  ASSUME TypeOK, OrdinalAhead, InsideStep, RunGoesForward, [Next]_vars
  PROVE  RunGoesForward'
<1>1. /\ DOMAIN entries \subseteq Nat
      /\ \A o \in DOMAIN entries : entries[o].step \in Nat
      /\ stage \in Nat
      /\ base \in Nat
      /\ ordinal \in Nat
  BY FlowAssumption DEF TypeOK, DiskTypeOK, MemoryTypeOK, Entry, Step
<1>2. CASE pc' = "idle"
  BY <1>2 DEF RunGoesForward
<1>3. CASE \E r \in Requests : Overwrite(r)
  BY <1>3 DEF Overwrite, EmptyDisk, RunGoesForward
<1>4. CASE \E r \in Requests : Resume(r)
  <2>1. entries' = entries /\ base' = StartingOrdinal
    BY <1>4 DEF Resume, disk, BeginRun
  <2>2. StartingOrdinal \in Nat /\ \A o \in DOMAIN entries : o < StartingOrdinal
    BY StartingOrdinalIsFresh DEF OrdinalAhead, Ordinals
  <2>3. \A o \in DOMAIN entries : ~(o >= base')
    BY <1>1, <2>1, <2>2
  <2>4. QED
    BY <2>1, <2>3 DEF RunGoesForward
<1>5. CASE SkipStep \/ DeferError
  <2>1. entries' = entries /\ base' = base /\ stage' = stage + 1 /\ pc # "idle"
    BY <1>5 DEF SkipStep, DeferError, AtStage, NextStage, EndStage, disk
  <2>2. pc = "step" => entries[ordinal].step = stage
    BY DEF InsideStep
  <2>3. \A o \in DOMAIN entries : o >= base => entries[o].step < stage \/ entries[o].step = stage
    BY <2>1, <2>2 DEF RunGoesForward
  <2>4. \A o \in DOMAIN entries : o >= base => entries[o].step < stage + 1
    BY <1>1, <2>3
  <2>5. QED
    BY <2>1, <2>4 DEF RunGoesForward
<1>6. CASE CreateReproducible \/ StartStep
  <2>1. /\ WriteEntry /\ stage \in Step /\ base' = base /\ pc = "stage" /\ ordinal' = ordinal
        /\ (stage' = NumSteps + 1 /\ stage < stage') \/ (stage' = stage /\ pc' = "step")
    BY <1>6, AtStageIsStep, FlowAssumption
       DEF CreateReproducible, WriteReproducible, StartStep, AtStage, TypeOK, MemoryTypeOK, Step
  <2>2. /\ DOMAIN entries' = DOMAIN entries \cup {ordinal}
        /\ entries'[ordinal] = [step |-> stage, in |-> cur, done |-> {}]
        /\ \A o \in DOMAIN entries : o # ordinal => entries'[o] = entries[o]
    BY <2>1, WriteEntryType
  <2>3. entries'[ordinal].step = stage
    BY <2>2
  <2>4. \A o \in DOMAIN entries : o >= base => entries[o].step < stage
    BY <2>1 DEF RunGoesForward
  <2>5. stage' \in Nat /\ stage <= stage'
    BY <1>1, <2>1, FlowAssumption
  <2>6. QED
    BY <1>1, <2>1, <2>2, <2>3, <2>4, <2>5 DEF RunGoesForward
<1>7. CASE FinishPart \/ FinishStep
  <2>1. /\ pc = "step" /\ base' = base
        /\ (FinishPart /\ stage' = stage /\ pc' = pc /\ ordinal' = ordinal) \/ stage' = stage + 1
    BY <1>7 DEF FinishPart, FinishStep, NextStage, EndStage
  <2>2. /\ DOMAIN entries' = DOMAIN entries
        /\ \A o \in DOMAIN entries : entries'[o].step = entries[o].step
    BY <1>7, WritesInOwnDirectory
  <2>3. entries[ordinal].step = stage
    BY <2>1 DEF InsideStep
  <2>4. \A o \in DOMAIN entries : o >= base => entries[o].step < stage \/ o = ordinal
    BY <2>1 DEF RunGoesForward
  <2>5. \A o \in DOMAIN entries : o >= base => entries[o].step < stage + 1
    BY <1>1, <2>3, <2>4
  <2>6. QED
    BY <2>1, <2>2, <2>4, <2>5 DEF RunGoesForward
<1>8. CASE StepFails \/ FinishRun \/ SnapshotFails \/ Die \/ DieWriting
  BY <1>2, <1>8 DEF StepFails, FinishRun, SnapshotFails, Die, DieWriting, EndRun
<1>9. CASE \E r \in Requests : OverwriteDies(r) \/ ResumeFails(r)
  BY <1>2, <1>9 DEF OverwriteDies, ResumeFails
<1>10. CASE UNCHANGED vars
  BY <1>10 DEF vars, disk, memory, RunGoesForward
<1>11. QED
  BY <1>3, <1>4, <1>5, <1>6, <1>7, <1>8, <1>9, <1>10 DEF Next, StartRun, RunSteps

\* No step of a run displaces the views of the steps it finished before.
LEMMA CarriesNext ==
  ASSUME TypeOK, OrdinalAhead, InsideStep, RunGoesForward, CarriesOwnResults, [Next]_vars
  PROVE  CarriesOwnResults'
<1>1. CASE pc' = "idle"
  BY <1>1 DEF CarriesOwnResults
<1>2. CASE \E r \in Requests : Overwrite(r)
  BY <1>2 DEF Overwrite, EmptyDisk, CarriesOwnResults
<1>3. CASE \E r \in Requests : Resume(r)
  <2>1. entries' = entries /\ base' = StartingOrdinal
    BY <1>3 DEF Resume, disk, BeginRun
  <2>2. StartingOrdinal \in Nat /\ \A o \in DOMAIN entries : o < StartingOrdinal
    BY StartingOrdinalIsFresh DEF OrdinalAhead, Ordinals
  <2>3. DOMAIN entries \subseteq Nat
    BY DEF TypeOK, DiskTypeOK
  <2>4. \A o \in DOMAIN entries : ~(o >= base')
    BY <2>1, <2>2, <2>3
  <2>5. QED
    BY <2>1, <2>4 DEF CarriesOwnResults
<1>4. CASE SkipStep \/ DeferError
  <2>1. UNCHANGED <<entries, records, base, cur>> /\ pc # "idle"
    BY <1>4 DEF SkipStep, DeferError, AtStage, NextStage, EndStage, disk
  <2>2. QED
    BY <2>1 DEF CarriesOwnResults
<1>5. CASE CreateReproducible \/ StartStep
  <2>1. WriteEntry /\ UNCHANGED <<records, base, cur>> /\ AtStage
    BY <1>5 DEF CreateReproducible, WriteReproducible, StartStep
  <2>2. /\ DOMAIN entries' = DOMAIN entries \cup {ordinal}
        /\ \A o \in DOMAIN entries : o # ordinal => entries'[o] = entries[o]
    BY <2>1, AtStageIsStep, WriteEntryType
  <2>3. <<ordinal, 0>> \notin DOMAIN records
    <3>1. \A o \in Ordinals : o < ordinal
      BY <2>1 DEF AtStage, OrdinalAhead
    <3>2. ordinal \in Nat
      BY DEF TypeOK, MemoryTypeOK
    <3>3. <<ordinal, 0>> \in DOMAIN records => ordinal \in Ordinals
      BY DEF Ordinals
    <3>4. QED
      BY <3>1, <3>2, <3>3
  <2>4. pc # "idle"
    BY <2>1 DEF AtStage
  <2>5. QED
    BY <2>1, <2>2, <2>3, <2>4 DEF CarriesOwnResults
<1>6. CASE FinishPart
  <2>1. /\ pc = "step" /\ sub < Parts[stage] /\ UNCHANGED <<base, cur>>
        /\ WriteRecord(sub + 1, FALSE, StateAfter(1..(sub + 1)))
    BY <1>6 DEF FinishPart
  <2>2. sub \in Nat /\ 0 \in Part
    BY FlowAssumption DEF TypeOK, MemoryTypeOK, Part
  <2>3. DOMAIN records' = DOMAIN records \cup {<<ordinal, sub + 1>>}
    BY <2>1 DEF WriteRecord
  <2>4. <<ordinal, 0>> \notin DOMAIN records'
    BY <2>1, <2>2, <2>3 DEF InsideStep
  <2>5. \A o \in DOMAIN entries : <<o, 0>> \in DOMAIN records' => <<o, 0>> \in DOMAIN records
    BY <2>2, <2>3
  <2>6. /\ DOMAIN entries' = DOMAIN entries
        /\ \A o \in DOMAIN entries : o # ordinal => entries'[o] = entries[o]
    BY <1>6, WritesInOwnDirectory
  <2>7. QED
    BY <2>1, <2>4, <2>5, <2>6 DEF CarriesOwnResults
<1>7. CASE FinishStep
  <2>1. /\ pc = "step" /\ base' = base /\ sub = Parts[stage]
        /\ WriteRecord(0, FALSE, StateAfter(OwnParts))
        /\ Complete(OwnParts)
        /\ cur' = StateAfter(OwnParts)
    BY <1>7 DEF FinishStep, NextStage, EndStage
  <2>2. /\ ordinal \in DOMAIN entries
        /\ entries[ordinal].step = stage
        /\ entries[ordinal].done = 1..sub
        /\ stage \in Step
    BY <2>1 DEF InsideStep, TypeOK, MemoryTypeOK
  <2>3. OwnParts \in SUBSET Part /\ 1..sub \subseteq OwnParts
    BY <2>1, <2>2, FlowAssumption DEF Part, OwnParts
  <2>4. /\ DOMAIN entries' = DOMAIN entries
        /\ entries'[ordinal].step = stage
        /\ entries'[ordinal].done \subseteq OwnParts
        /\ \A o \in DOMAIN entries : o # ordinal => entries'[o] = entries[o]
    BY <2>1, <2>2, <2>3, CompleteType
  <2>5. DOMAIN records' = DOMAIN records \cup {<<ordinal, 0>>}
    BY <2>1 DEF WriteRecord
  <2>6. \A key \in Key : cur'[key] = IF key[1] = stage /\ key[2] \in OwnParts THEN ordinal ELSE cur[key]
    BY <2>1 DEF StateAfter
  <2>7. ASSUME NEW o \in DOMAIN entries', o >= base', <<o, 0>> \in DOMAIN records',
               NEW key \in Key, key[1] = entries'[o].step, key[2] \in entries'[o].done
        PROVE  cur'[key] = o
    <3>1. CASE o = ordinal
      BY <2>4, <2>6, <2>7, <3>1
    <3>2. CASE o # ordinal
      <4>1. o \in DOMAIN entries /\ entries'[o] = entries[o] /\ <<o, 0>> \in DOMAIN records /\ o >= base
        BY <2>1, <2>4, <2>5, <2>7, <3>2
      <4>2. cur[key] = o
        BY <2>1, <2>7, <4>1 DEF CarriesOwnResults
      <4>3. entries[o].step < stage /\ entries[o].step \in Step
        BY <2>1, <3>2, <4>1 DEF RunGoesForward, TypeOK, DiskTypeOK, Entry
      <4>4. key[1] # stage
        BY <2>2, <2>7, <4>1, <4>3, FlowAssumption DEF Step
      <4>5. QED
        BY <2>6, <4>2, <4>4
    <3>3. QED
      BY <3>1, <3>2
  <2>8. QED
    BY <2>7 DEF CarriesOwnResults
<1>8. CASE StepFails \/ FinishRun \/ SnapshotFails \/ Die \/ DieWriting
  BY <1>1, <1>8 DEF StepFails, FinishRun, SnapshotFails, Die, DieWriting, EndRun
<1>9. CASE \E r \in Requests : OverwriteDies(r) \/ ResumeFails(r)
  BY <1>1, <1>9 DEF OverwriteDies, ResumeFails
<1>10. CASE UNCHANGED vars
  BY <1>10 DEF vars, disk, memory, CarriesOwnResults
<1>11. QED
  BY <1>2, <1>3, <1>4, <1>5, <1>6, <1>7, <1>8, <1>9, <1>10 DEF Next, StartRun, RunSteps

-----------------------------------------------------------------------------
(* The theorems                                                            *)

\* The inductive invariant holds in a fresh directory.
LEMMA InitInv == Init => IInv
<1> SUFFICES ASSUME Init PROVE IInv
  OBVIOUS
<1>1. TypeOK
  BY TypeInit
<1>2. DOMAIN records = {} /\ DOMAIN entries = {} /\ pc = "idle" /\ cur = NoViews
  BY DEF Init
<1>3. \A key \in Key : cur[key] = 0
  BY <1>2 DEF NoViews
<1>4. ordinal = 1
  BY DEF Init
<1>5. StatesPointBack
  BY <1>2, <1>3, <1>4 DEF StatesPointBack
<1>6. QED
  BY <1>1, <1>2, <1>3, <1>5
     DEF IInv, ClockAhead, TimeFollowsPlace, OrdinalAhead, Ordinals, InsideStep,
         RecordsGrounded, IdleIsBlank, OnlyFinishedViews, RunGoesForward, CarriesOwnResults

\* The inductive invariant is inductive.
LEMMA NextInv == IInv /\ [Next]_vars => IInv'
BY TypeNext, OrderNext, OrdinalNext, InsideNext, PointBackNext, GroundedNext,
   FinishedViewsNext, IdleNext, ForwardNext, CarriesNext
   DEF IInv

\* The inductive invariant holds in every state of every run.
THEOREM Invariance == Spec => []IInv
BY InitInv, NextInv, PTL DEF Spec

\* Every variable keeps its type, however often runs die and resume.
THEOREM TypeCorrect == Spec => []TypeOK
<1>1. IInv => TypeOK
  BY DEF IInv
<1>2. QED
  BY <1>1, Invariance, PTL

\* Nothing unfinished, misplaced or gone is ever handed from step to step.
THEOREM FinishedViewsOnly == Spec => []OnlyFinishedViews
<1>1. IInv => OnlyFinishedViews
  BY DEF IInv
<1>2. QED
  BY <1>1, Invariance, PTL

\* No step, deferred error or resumed record displaces what the running flow has
\* finished.
THEOREM CarriesResults == Spec => []CarriesOwnResults
<1>1. IInv => CarriesOwnResults
  BY DEF IInv
<1>2. QED
  BY <1>1, Invariance, PTL

-----------------------------------------------------------------------------
(* The refinement                                                          *)

\* A fresh run directory is an empty journal.
LEMMA JournalInit == Init => Journal!JInit
<1> SUFFICES ASSUME Init PROVE Journal!JInit
  OBVIOUS
<1>1. WholeRecords = {}
  BY DEF Init, WholeRecords
<1>2. Written = [f \in {} |-> Journal!Blank]
  BY <1>1 DEF Written
<1>3. cur = Journal!Blank /\ pc = "idle"
  BY DEF Init, NoViews, Journal!Blank
<1>4. req.given \in BOOLEAN
  BY FlowAssumption DEF Init, Request
<1>5. QED
  BY <1>2, <1>3, <1>4 DEF Written, Journal!JInit

\* The records of the directory are unchanged, or some are lost.
LEMMA WrittenUnchanged ==
  ASSUME records' = records PROVE Written' = Written
BY DEF Written, WholeRecords

\* The journal after a record is written: a torn one is not in it.
LEMMA WrittenAfter ==
  ASSUME IInv, NEW part, NEW torn \in BOOLEAN, NEW s \in State,
         pc = "step", part = IF sub < Parts[stage] THEN sub + 1 ELSE 0,
         WriteRecord(part, torn, s)
  PROVE  /\ torn => Written' = Written
         /\ ~torn => /\ DOMAIN Written' = DOMAIN Written \cup {<<ordinal, part>>}
                     /\ Written'[<<ordinal, part>>] = s
                     /\ \A g \in DOMAIN Written : Written'[g] = Written[g]
         /\ \A g \in DOMAIN Written : Journal!After(<<ordinal, part>>, g)
<1> DEFINE n == <<ordinal, part>>
<1>1. \A g \in DOMAIN records : Journal!After(n, g) /\ g # n
  BY WrittenIsLast DEF IInv
<1>2. part \in Part
  BY DyingPart DEF IInv
<1>3. /\ DOMAIN records' = DOMAIN records \cup {n}
      /\ records'[n] = [torn |-> torn, state |-> s, mtime |-> clock]
      /\ \A f \in DOMAIN records : f # n => records'[f] = records[f]
  BY <1>2, WriteRecordType DEF IInv
<1> HIDE DEF n
<1>4. \A f \in DOMAIN records : records'[f] = records[f]
  BY <1>1, <1>3
<1>5. records'[n].torn = torn /\ records'[n].state = s
  BY <1>3
<1>6. WholeRecords' = IF torn THEN WholeRecords ELSE WholeRecords \cup {n}
  BY <1>1, <1>3, <1>4, <1>5 DEF WholeRecords
<1>7. DOMAIN Written = WholeRecords /\ DOMAIN Written' = WholeRecords'
  BY DEF Written
<1>8. \A g \in WholeRecords : g \in DOMAIN records
  BY DEF WholeRecords
<1>9. \A g \in WholeRecords : Written[g] = records[g].state /\ records'[g] = records[g]
  BY <1>4, <1>8 DEF Written
<1>10. \A g \in WholeRecords' : Written'[g] = records'[g].state
  BY DEF Written
<1>11. torn => Written' = Written
  BY <1>6, <1>9 DEF Written
<1>12. ~torn => /\ Written'[n] = s
                /\ \A g \in WholeRecords : Written'[g] = Written[g]
  BY <1>5, <1>6, <1>9, <1>10
<1>13. QED
  BY <1>1, <1>6, <1>7, <1>8, <1>11, <1>12 DEF n

\* Every step of the flow is a step of the journal, or leaves it alone.
LEMMA JournalNext ==
  ASSUME IInv, [Next]_vars
  PROVE  [Journal!JNext]_(<<Written, cur, (pc # "idle"), req.given>>)
<1> USE DEF Journal!JNext
<1>9. \A r \in Requests : r.given \in BOOLEAN
  BY FlowAssumption DEF Request
<1>1. CASE \E r \in Requests : Overwrite(r)
  <2>1. /\ pc = "idle" /\ pc' = "stage" /\ req'.given \in BOOLEAN
        /\ records' = [f \in {} |-> 0]
        /\ \A key \in Key : cur'[key] \in {0, Elsewhere}
        /\ ~req'.given => cur' = NoViews
    BY <1>1, <1>9, ForeignType DEF Overwrite, EmptyDisk, BeginRun
  <2>2. WholeRecords' = {}
    BY <2>1 DEF WholeRecords
  <2>3. Written' = [f \in {} |-> Journal!Blank]
    BY <2>2 DEF Written
  <2>4. Journal!StartOver
    BY <2>1, <2>3 DEF Journal!StartOver, Journal!Blank, NoViews, Written
  <2>5. QED
    BY <2>4
<1>2. CASE \E r \in Requests : OverwriteDies(r)
  <2>1. pc = "idle" /\ pc' = pc /\ cur' = cur /\ req' = req
    BY <1>2 DEF OverwriteDies
  <2>2. PICK F \in SUBSET DOMAIN records : records' = [f \in F |-> records[f]]
    BY <1>2, OverwriteDiesKeepsSome
  <2>3. /\ WholeRecords' \subseteq WholeRecords
        /\ \A f \in WholeRecords' : records'[f] = records[f]
    BY <2>2 DEF WholeRecords
  <2>4. Written' = [f \in WholeRecords' |-> Written[f]]
    BY <2>3 DEF Written
  <2>5. WholeRecords' \in SUBSET DOMAIN Written
    BY <2>3 DEF Written
  <2>6. Journal!Lose
    BY <2>1, <2>4, <2>5 DEF Journal!Lose, Written
  <2>7. QED
    BY <2>6
<1>3. CASE \E r \in Requests : Resume(r)
  <2>1. PICK r \in Requests : Resume(r)
    BY <1>3
  <2>2. /\ pc = "idle" /\ pc' = "stage" /\ records' = records
        /\ req' = r /\ Loads(r) /\ r.given \in BOOLEAN
    BY <1>9, <2>1 DEF Resume, BeginRun, disk
  <2>3. PICK s \in OpeningStates(r) : cur' = s
    BY <2>1 DEF Resume, BeginRun
  <2>4. Written' = Written
    BY <2>2, WrittenUnchanged
  <2>5. DOMAIN Written = WholeRecords /\ \A f \in WholeRecords : Written[f] = records[f].state
    BY DEF Written
  <2>6. CASE r.given
    <3>1. \A key \in Key : \/ cur'[key] \in {0, Elsewhere}
                         \/ \E f \in DOMAIN Written : cur'[key] = Written[f][key]
      BY <2>2, <2>3, <2>5, OpensWith DEF IInv
    <3>2. Journal!Open
      BY <2>2, <2>4, <2>6, <3>1 DEF Journal!Open, Written
    <3>3. QED
      BY <3>2
  <2>7. CASE ~r.given /\ DOMAIN records = {}
    <3>1. cur' = NoViews
      BY <2>3, <2>7 DEF OpeningStates
    <3>2. DOMAIN Written = {}
      BY <2>5, <2>7 DEF WholeRecords
    <3>3. Journal!Open
      BY <2>2, <2>4, <2>7, <3>1, <3>2 DEF Journal!Open, Journal!Blank, NoViews, Written
    <3>4. QED
      BY <3>3
  <2>8. CASE ~r.given /\ DOMAIN records # {}
    <3>1. PICK f \in DOMAIN records : IsLatest(f) /\ cur' = records[f].state
      BY <2>3, <2>8 DEF OpeningStates
    <3>9. Readable(f)
      BY <2>2, <2>8, <3>1 DEF Loads, LatestLoads
    <3>2. f \in WholeRecords /\ WholeRecords \subseteq DOMAIN records
      BY <3>9 DEF Readable, WholeRecords
    <3>3. \A g \in DOMAIN records \ {f} : Journal!After(f, g)
      <4>1. \A g \in DOMAIN records : records[g].mtime \in Nat
        BY DEF IInv, TypeOK, DiskTypeOK, Record
      <4>2. \A g \in DOMAIN records : ~(records[g].mtime > records[f].mtime)
        BY <3>1, <4>1 DEF IsLatest
      <4>3. QED
        BY <3>1, <4>2 DEF IInv, TimeFollowsPlace
    <3>4. Written[f] = cur'
      BY <2>5, <3>1, <3>2
    <3>5. Journal!IsLast(f)
      BY <2>5, <3>2, <3>3 DEF Journal!IsLast, Written
    <3>7. Journal!Open
      BY <2>2, <2>4, <2>5, <2>8, <3>2, <3>4, <3>5 DEF Journal!Open, Written
    <3>8. QED
      BY <3>7
  <2>9. QED
    BY <2>2, <2>6, <2>7, <2>8
<1>4. CASE FinishPart \/ FinishStep
  <2>1. PICK part \in Part, s \in State :
          /\ pc = "step" /\ pc' # "idle" /\ req' = req
          /\ part = IF sub < Parts[stage] THEN sub + 1 ELSE 0
          /\ WriteRecord(part, FALSE, s)
          /\ \A key \in Key : s[key] \in {ordinal, cur[key]}
          /\ cur' = IF part = 0 THEN s ELSE cur
    <3>1. ASSUME NEW parts PROVE \A key \in Key : StateAfter(parts)[key] \in {ordinal, cur[key]}
      BY DEF StateAfter
    <3>2. \A parts : StateAfter(parts) \in State
      BY StateAfterType DEF IInv
    <3>3. CASE FinishPart
      <4>1. /\ pc = "step" /\ pc' = "step" /\ sub < Parts[stage] /\ cur' = cur /\ req' = req
            /\ WriteRecord(sub + 1, FALSE, StateAfter(1..(sub + 1)))
        BY <3>3 DEF FinishPart
      <4>2. sub + 1 \in Part /\ sub + 1 # 0
        BY <4>1, DyingPart, FlowAssumption DEF IInv, TypeOK, MemoryTypeOK, Part
      <4>3. QED
        BY <3>1, <3>2, <4>1, <4>2
    <3>4. CASE FinishStep
      <4>1. /\ pc = "step" /\ pc' = "stage" /\ sub = Parts[stage] /\ cur' = StateAfter(OwnParts)
            /\ req' = req /\ WriteRecord(0, FALSE, StateAfter(OwnParts))
        BY <3>4 DEF FinishStep, NextStage, EndStage
      <4>2. 0 \in Part /\ ~(sub < Parts[stage])
        BY <4>1, FlowAssumption DEF IInv, TypeOK, MemoryTypeOK, Part
      <4>3. QED
        BY <3>1, <3>2, <4>1, <4>2
    <3>5. QED
      BY <1>4, <3>3, <3>4
  <2> DEFINE n == <<ordinal, part>>
  <2>2. /\ DOMAIN Written' = DOMAIN Written \cup {n}
        /\ Written'[n] = s
        /\ \A g \in DOMAIN Written : Written'[g] = Written[g] /\ Journal!After(n, g)
    BY <2>1, WrittenAfter
  <2>3. n[1] = ordinal /\ n[2] = part /\ n \in DOMAIN Written'
    BY <2>2
  <2> HIDE DEF n
  <2>4. Journal!Record(n)
    BY <2>1, <2>2, <2>3 DEF Journal!Record, Written
  <2>5. QED
    BY <2>3, <2>4
<1>5. CASE DieWriting
  <2>1. /\ pc = "step" /\ pc' = "idle" /\ cur' = NoViews /\ req' = req
        /\ WriteRecord(IF sub < Parts[stage] THEN sub + 1 ELSE 0, TRUE, NoViews)
    BY <1>5 DEF DieWriting, EndRun
  <2>2. Written' = Written
    BY <2>1, NoViewsType, WrittenAfter
  <2>3. Journal!Close
    BY <2>1, <2>2 DEF Journal!Close, Journal!Blank, NoViews, Written
  <2>4. QED
    BY <2>3
<1>6. CASE StepFails \/ FinishRun \/ SnapshotFails \/ Die
  <2>1. pc # "idle" /\ pc' = "idle" /\ cur' = NoViews /\ records' = records /\ req' = req
    BY <1>6 DEF StepFails, FinishRun, SnapshotFails, Die, EndRun, disk
  <2>2. Journal!Close
    BY <2>1, WrittenUnchanged DEF Journal!Close, Journal!Blank, NoViews, Written
  <2>3. QED
    BY <2>2
<1>7. CASE \/ SkipStep \/ CreateReproducible \/ StartStep \/ DeferError
           \/ (\E r \in Requests : ResumeFails(r)) \/ UNCHANGED vars
  <2>1. /\ records' = records /\ cur' = cur /\ req' = req
        /\ (pc' = pc \/ (pc # "idle" /\ pc' # "idle"))
    BY <1>7 DEF SkipStep, CreateReproducible, WriteReproducible, StartStep, DeferError, ResumeFails, AtStage,
                NextStage, EndStage, vars, disk, memory
  <2>2. Written' = Written /\ (pc # "idle")' = (pc # "idle")
    BY <2>1, WrittenUnchanged
  <2>3. QED
    BY <2>1, <2>2
<1>8. QED
  BY <1>1, <1>2, <1>3, <1>4, <1>5, <1>6, <1>7 DEF Next, StartRun, RunSteps

\* Over every history of runs, deaths and resumed runs, the files of a run
\* directory behave as a journal that is only appended to: no record is ever
\* overwritten, and a run resumes from the last one.
THEOREM RefinesJournal == Spec => ImplementsJournal
<1>1. Init => Journal!JInit
  BY JournalInit
<1>2. IInv /\ [Next]_vars => [Journal!JNext]_Journal!jvars
  BY JournalNext DEF Written, Journal!jvars
<1>3. QED
  BY <1>1, <1>2, Invariance, PTL DEF Spec, ImplementsJournal, Journal!JSpec
-----------------------------------------------------------------------------
(* The snapshot                                                            *)

\* Where s has a view, it is not older than the one of t, but for views that an
\* initial state was given for.
NotBehind(s, t) == \A key \in Key \ named : s[key] # 0 => s[key] >= t[key]

\* The views in final/ come from elsewhere or from directories that are there.
FinalIsThere == ~damaged => \A key \in Key : final[key] > 0 => final[key] \in DOMAIN entries

\* Neither the running flow's state nor the one a next run would resume has an
\* older view than final/.
FinalBehindState == ~damaged => NotBehind(cur, final)
FinalBehindLatest ==
  ~damaged => \A f \in DOMAIN records : IsLatest(f) => NotBehind(records[f].state, final)

\* A snapshot of the running flow's state will not be ahead of the latest record.
StateBehindLatest ==
  \A f \in DOMAIN records : IsLatest(f) =>
    \A key \in Key \ named :
      records[f].state[key] # 0 /\ cur[key] # 0 => records[f].state[key] >= cur[key]

FinalInv == FinalIsThere /\ FinalBehindState /\ FinalBehindLatest /\ StateBehindLatest

\* A record that has just been written is the latest.
LEMMA WrittenIsLatest ==
  ASSUME TypeOK, ClockAhead, NEW part \in Part, NEW torn \in BOOLEAN, NEW s \in State,
         WriteRecord(part, torn, s)
  PROVE  \A f \in DOMAIN records' : IsLatest(f)' => f = <<ordinal, part>> /\ records'[f].state = s
<1> DEFINE n == <<ordinal, part>>
<1>1. /\ DOMAIN records' = DOMAIN records \cup {n}
      /\ records'[n] = [torn |-> torn, state |-> s, mtime |-> clock]
      /\ \A f \in DOMAIN records : f # n => records'[f] = records[f]
  BY WriteRecordType
<1>2. clock \in Nat /\ \A f \in DOMAIN records : records[f].mtime \in Nat /\ records[f].mtime < clock
  BY DEF ClockAhead, TypeOK, DiskTypeOK, Record
<1>3. records'[n].mtime = clock /\ records'[n].state = s
  BY <1>1
<1> HIDE DEF n
<1>4. ASSUME NEW f \in DOMAIN records', IsLatest(f)' PROVE f = n
  <2>1. records'[n].mtime <= records'[f].mtime
    BY <1>1, <1>4 DEF IsLatest
  <2>2. CASE f # n
    <3>1. f \in DOMAIN records /\ records'[f] = records[f]
      BY <1>1, <2>2
    <3>2. QED
      BY <1>2, <1>3, <2>1, <3>1
  <2>3. QED
    BY <2>2
<1>5. QED
  BY <1>3, <1>4 DEF n

\* Only one record is the latest.
LEMMA OneLatest ==
  ASSUME TypeOK, TimeFollowsPlace, NEW f \in DOMAIN records, NEW g \in DOMAIN records,
         IsLatest(f), IsLatest(g)
  PROVE  f = g
<1>1. records[f].mtime \in Nat /\ records[g].mtime \in Nat
  BY DEF TypeOK, DiskTypeOK, Record
<1>2. records[f].mtime <= records[g].mtime /\ records[g].mtime <= records[f].mtime
  BY DEF IsLatest
<1>3. f # g => records[f].mtime > records[g].mtime \/ records[g].mtime > records[f].mtime
  BY DEF TimeFollowsPlace
<1>4. QED
  BY <1>1, <1>2, <1>3

\* The views of a state are whole numbers, and a state without views is behind none.
LEMMA ViewsAreNumbers ==
  ASSUME TypeOK
  PROVE  /\ \A key \in Key : cur[key] \in Int /\ final[key] \in Int
         /\ \A f \in DOMAIN records : \A key \in Key : records[f].state[key] \in Int
         /\ ordinal \in Nat
  BY DEF TypeOK, DiskTypeOK, MemoryTypeOK, Record, State, Elsewhere

LEMMA BlankIsBehind ==
  ASSUME NEW s PROVE NotBehind(NoViews, s)
  BY DEF NotBehind, NoViews

\* What is in final/ is not ahead of the running flow's ordinal.
LEMMA FinalBehindOrdinal ==
  ASSUME TypeOK, OrdinalAhead, FinalIsThere, ~damaged
  PROVE  \A key \in Key : final[key] <= ordinal
<1>1. TAKE key \in Key
<1>2. final[key] \in Int /\ ordinal \in Nat
  BY ViewsAreNumbers
<1>3. CASE ~(final[key] > 0)
  BY <1>2, <1>3
<1>4. CASE final[key] > 0
  BY <1>4 DEF FinalIsThere, OrdinalAhead, Ordinals
<1>5. QED
  BY <1>3, <1>4

\* Steps and parts that write records leave all this as it is.
LEMMA FinalAfterWrite ==
  ASSUME IInv, FinalInv, FinishPart \/ FinishStep \/ DieWriting
  PROVE  FinalInv'
<1> USE DEF IInv
<1>1. PICK part \in Part, torn \in BOOLEAN, s \in State :
        /\ WriteRecord(part, torn, s)
        /\ \A key \in Key : s[key] = 0 \/ s[key] = cur[key] \/ s[key] = ordinal
  BY WrittenState
<1>2. \A f \in DOMAIN records' : IsLatest(f)' => records'[f].state = s
  BY <1>1, WrittenIsLatest
<1>3. final' = final /\ damaged' = damaged /\ DOMAIN entries' = DOMAIN entries
  <2>1. DOMAIN entries' = DOMAIN entries
    BY WritesInOwnDirectory
  <2>2. QED
    BY <2>1 DEF FinishPart, FinishStep, DieWriting, NextStage, EndRun
<1>4. \A key \in Key : /\ s[key] \in Int /\ cur[key] \in Int /\ final[key] \in Int
                       /\ ordinal \in Nat /\ cur[key] <= ordinal
  BY ViewsAreNumbers, ViewsAreWhole DEF StatesPointBack
<1>5. ~damaged => \A key \in Key \ named : s[key] # 0 => s[key] >= final[key]
  <2>1. SUFFICES ASSUME ~damaged, NEW key \in Key \ named, s[key] # 0 PROVE s[key] >= final[key]
    OBVIOUS
  <2>2. CASE s[key] = cur[key]
    BY <2>1, <2>2 DEF FinalInv, FinalBehindState, NotBehind
  <2>3. CASE s[key] = ordinal
    BY <1>4, <2>1, <2>3, FinalBehindOrdinal DEF FinalInv
  <2>4. QED
    BY <1>1, <2>1, <2>2, <2>3
<1>6. CASE FinishPart
  <2>1. cur' = cur /\ named' = named
    BY <1>6 DEF FinishPart
  <2>2. \A key \in Key : s[key] # 0 => s[key] >= cur[key]
    BY <1>1, <1>4
  <2>3. QED
    BY <1>2, <1>3, <1>5, <2>1, <2>2
       DEF FinalInv, FinalIsThere, FinalBehindState, FinalBehindLatest, StateBehindLatest, NotBehind
<1>7. CASE FinishStep
  <2>1. /\ WriteRecord(0, FALSE, StateAfter(OwnParts)) /\ cur' = StateAfter(OwnParts)
        /\ named' = named \ {key \in Key : key[1] = stage /\ key[2] \in OwnParts}
    BY <1>7 DEF FinishStep
  <2>2. StateAfter(OwnParts) \in State /\ 0 \in Part
    BY StateAfterType, FlowAssumption DEF Part
  <2>3. \A f \in DOMAIN records' : IsLatest(f)' => records'[f].state = cur'
    BY <2>1, <2>2, WrittenIsLatest
  <2>4. \A key \in Key : cur'[key] >= cur'[key]
    BY <2>1, <2>2, ViewsAreWhole
  <2>5. ~damaged => \A key \in Key \ named' : cur'[key] # 0 => cur'[key] >= final[key]
    <3>1. SUFFICES ASSUME ~damaged, NEW key \in Key \ named', cur'[key] # 0
                   PROVE  cur'[key] >= final[key]
      OBVIOUS
    <3>2. cur'[key] = ordinal \/ (cur'[key] = cur[key] /\ key \notin named)
      BY <2>1 DEF StateAfter
    <3>3. final[key] <= ordinal
      BY <3>1, FinalBehindOrdinal DEF FinalInv
    <3>4. key \notin named /\ cur[key] # 0 => cur[key] >= final[key]
      BY <3>1 DEF FinalInv, FinalBehindState, NotBehind
    <3>5. QED
      BY <1>4, <3>1, <3>2, <3>3, <3>4
  <2>6. QED
    BY <1>3, <2>3, <2>4, <2>5
       DEF FinalInv, FinalIsThere, FinalBehindState, FinalBehindLatest, StateBehindLatest, NotBehind
<1>8. CASE DieWriting
  <2>1. cur' = NoViews /\ named' = named
    BY <1>8 DEF DieWriting, EndRun
  <2>2. \A key \in Key : NoViews[key] = 0
    BY DEF NoViews
  <2>3. QED
    BY <1>2, <1>3, <1>5, <2>1, <2>2
       DEF FinalInv, FinalIsThere, FinalBehindState, FinalBehindLatest, StateBehindLatest, NotBehind
<1>9. QED
  BY <1>6, <1>7, <1>8

\* A snapshot takes over views of the running flow's state only, none of them
\* older than the one it replaces unless an initial state was given for it.
LEMMA SnapshotGoesForward ==
  ASSUME TypeOK, FinalInv, OnlyFinishedViews, NEW copied \in SUBSET Views,
         final' = Snapshot(copied)
  PROVE  /\ \A key \in Key :
              /\ final'[key] = final[key] \/ (final'[key] = cur[key] /\ cur[key] # 0)
              /\ ~damaged /\ final'[key] > 0 => final'[key] \in DOMAIN entries
         /\ \A key \in Key \ named : ~damaged => final'[key] >= final[key]
<1>1. ASSUME NEW key \in Key
      PROVE  /\ final'[key] = final[key] \/ (final'[key] = cur[key] /\ cur[key] # 0)
             /\ ~damaged /\ final'[key] > 0 => final'[key] \in DOMAIN entries
             /\ ~damaged /\ key \notin named => final'[key] >= final[key]
  <2>2. final'[key] = IF key \in copied THEN cur[key] ELSE final[key]
    BY DEF Snapshot
  <2>3. cur[key] \in Int /\ final[key] \in Int
    BY ViewsAreNumbers
  <2>4. key \in copied => cur[key] # 0
    BY DEF Views, ViewsOf
  <2>5. ~damaged /\ key \notin named /\ cur[key] # 0 => cur[key] >= final[key]
    BY DEF FinalInv, FinalBehindState, NotBehind
  <2>6. cur[key] > 0 => cur[key] \in DOMAIN entries
    BY DEF OnlyFinishedViews
  <2>7. ~damaged /\ final[key] > 0 => final[key] \in DOMAIN entries
    BY DEF FinalInv, FinalIsThere
  <2>8. QED
    BY <2>2, <2>3, <2>4, <2>5, <2>6, <2>7
<1>2. QED
  BY <1>1

\* What FinishRun and SnapshotFails do.
LEMMA TakesSnapshot ==
  ASSUME FinishRun \/ SnapshotFails
  PROVE  /\ \E copied \in SUBSET Views : final' = Snapshot(copied)
         /\ cur' = NoViews /\ UNCHANGED <<entries, records, damaged, named>>
<1>1. CASE FinishRun
  BY <1>1 DEF FinishRun, EndRun
<1>2. CASE SnapshotFails
  <2>1. PICK i \in {0, 1} : final' = Snapshot({key \in Views : key[1] = i})
    BY <1>2 DEF SnapshotFails
  <2>2. {key \in Views : key[1] = i} \in SUBSET Views
    OBVIOUS
  <2>3. cur' = NoViews /\ UNCHANGED <<entries, records, damaged, named>>
    BY <1>2 DEF SnapshotFails, EndRun
  <2>4. QED
    BY <2>1, <2>2, <2>3
<1>3. QED
  BY <1>1, <1>2

\* A snapshot keeps final/ behind the records, which are at least as new as the
\* running flow's state.
LEMMA FinalAfterSnapshot ==
  ASSUME IInv, FinalInv, FinishRun \/ SnapshotFails
  PROVE  FinalInv'
<1> USE DEF IInv
<1>1. /\ \A key \in Key :
           /\ final'[key] = final[key] \/ (final'[key] = cur[key] /\ cur[key] # 0)
           /\ ~damaged /\ final'[key] > 0 => final'[key] \in DOMAIN entries
      /\ cur' = NoViews /\ UNCHANGED <<entries, records, damaged, named>>
  BY TakesSnapshot, SnapshotGoesForward
<1>2. FinalIsThere'
  BY <1>1 DEF FinalIsThere
<1>3. FinalBehindState'
  BY <1>1 DEF FinalBehindState, NotBehind, NoViews
<1>4. FinalBehindLatest'
  <2>1. SUFFICES ASSUME ~damaged, NEW f \in DOMAIN records, IsLatest(f),
                        NEW key \in Key \ named, records[f].state[key] # 0
                 PROVE  records[f].state[key] >= final'[key]
    BY <1>1 DEF FinalBehindLatest, NotBehind, IsLatest
  <2>2. /\ records[f].state[key] >= final[key]
        /\ cur[key] # 0 => records[f].state[key] >= cur[key]
    BY <2>1 DEF FinalInv, FinalBehindLatest, StateBehindLatest, NotBehind
  <2>3. QED
    BY <1>1, <2>2
<1>5. StateBehindLatest'
  BY <1>1 DEF StateBehindLatest, NoViews
<1>6. QED
  BY <1>2, <1>3, <1>4, <1>5 DEF FinalInv

\* Steps that touch neither records nor final/.
LEMMA FinalAfterOther ==
  ASSUME IInv, FinalInv, UNCHANGED <<records, final, damaged, named>>,
         DOMAIN entries \subseteq DOMAIN entries', cur' \in {cur, NoViews}
  PROVE  FinalInv'
<1> USE DEF IInv
<1>1. FinalIsThere'
  BY DEF FinalInv, FinalIsThere
<1>2. CASE cur' = cur
  BY <1>1, <1>2
     DEF FinalInv, FinalBehindState, FinalBehindLatest, StateBehindLatest, NotBehind, IsLatest
<1>3. CASE cur' = NoViews
  <2>1. \A key \in Key : NoViews[key] = 0
    BY DEF NoViews
  <2>2. QED
    BY <1>1, <1>3, <2>1
       DEF FinalInv, FinalBehindState, FinalBehindLatest, StateBehindLatest, NotBehind, IsLatest
<1>4. QED
  BY <1>2, <1>3

\* A run starts with the latest record's state, or blank, or with views that are
\* known to have been given.
LEMMA FinalAfterStart ==
  ASSUME IInv, FinalInv, NEW r \in Requests, Overwrite(r) \/ OverwriteDies(r) \/ Resume(r),
         TypeOK'
  PROVE  FinalInv'
<1> USE DEF IInv
<1>5. \A key \in Key : NoViews[key] = 0
  BY DEF NoViews
<1>1. CASE Overwrite(r)
  <2>1. PICK views \in SUBSET Key : BeginRun(r, 1, Foreign(views)) /\ named' = views
    BY <1>1, FlowAssumption DEF Overwrite
  <2>2. records' = [f \in {} |-> 0] /\ final' = NoViews
    BY <1>1 DEF Overwrite, EmptyDisk
  <2>3. \A key \in Key \ named' : cur'[key] = 0
    BY <2>1, ForeignType DEF BeginRun
  <2>4. QED
    BY <1>5, <2>2, <2>3
       DEF FinalInv, FinalIsThere, FinalBehindState, FinalBehindLatest, StateBehindLatest,
           NotBehind
<1>2. CASE OverwriteDies(r)
  <2>1. damaged' = TRUE /\ cur' = NoViews
    BY <1>2 DEF OverwriteDies, IdleIsBlank
  <2>2. QED
    BY <1>5, <2>1 DEF FinalInv, FinalIsThere, FinalBehindState, FinalBehindLatest, StateBehindLatest
<1>3. CASE Resume(r)
  <2>1. UNCHANGED <<entries, records, final, damaged>>
    BY <1>3 DEF Resume, disk
  <2>2. PICK s \in OpeningStates(r) :
          cur' = s /\ named' = IF r.given THEN named \cup ViewsOf(s) ELSE named
    BY <1>3 DEF Resume, BeginRun
  <2>3. CASE r.given \/ DOMAIN records = {}
    <3>1. \A key \in Key \ named' : key \notin named /\ cur'[key] = 0
      BY <1>5, <2>2, <2>3 DEF ViewsOf, OpeningStates
    <3>2. QED
      BY <2>1, <3>1
         DEF FinalInv, FinalIsThere, FinalBehindState, FinalBehindLatest, StateBehindLatest,
             NotBehind, IsLatest
  <2>4. CASE ~(r.given \/ DOMAIN records = {})
    <3>1. PICK f \in DOMAIN records : IsLatest(f) /\ cur' = records[f].state
      BY <2>2, <2>4 DEF OpeningStates
    <3>2. \A g \in DOMAIN records : IsLatest(g) => g = f
      BY <3>1, OneLatest
    <3>3. \A key \in Key : cur'[key] >= cur'[key]
      BY <3>1, ViewsAreNumbers
    <3>4. ~damaged => NotBehind(cur', final)
      BY <3>1 DEF FinalInv, FinalBehindLatest
    <3>7. named' = named
      BY <2>2, <2>4
    <3>5. StateBehindLatest'
      BY <2>1, <3>1, <3>2, <3>3 DEF StateBehindLatest, IsLatest
    <3>6. QED
      BY <2>1, <3>4, <3>5, <3>7
         DEF FinalInv, FinalIsThere, FinalBehindState, FinalBehindLatest, NotBehind, IsLatest
  <2>5. QED
    BY <2>3, <2>4
<1>4. QED
  BY <1>1, <1>2, <1>3

LEMMA FinalNext ==
  ASSUME IInv, FinalInv, [Next]_vars
  PROVE  FinalInv'
<1>1. CASE FinishPart \/ FinishStep \/ DieWriting
  BY <1>1, FinalAfterWrite
<1>2. CASE FinishRun \/ SnapshotFails
  BY <1>2, FinalAfterSnapshot
<1>3. CASE \E r \in Requests : Overwrite(r) \/ OverwriteDies(r) \/ Resume(r)
  BY <1>3, FinalAfterStart, TypeNext DEF IInv
<1>4. CASE SkipStep \/ DeferError \/ StepFails \/ Die \/ (\E r \in Requests : ResumeFails(r))
  BY <1>4, FinalAfterOther
     DEF SkipStep, DeferError, StepFails, Die, ResumeFails, NextStage, EndRun, disk
<1>5. CASE CreateReproducible \/ StartStep
  <2>1. DOMAIN entries \subseteq DOMAIN entries'
    BY <1>5 DEF CreateReproducible, StartStep, WriteReproducible, WriteEntry
  <2>2. QED
    BY <1>5, <2>1, FinalAfterOther DEF CreateReproducible, StartStep
<1>6. CASE UNCHANGED vars
  BY <1>6, FinalAfterOther DEF vars, disk, memory
<1>7. QED
  BY <1>1, <1>2, <1>3, <1>4, <1>5, <1>6 DEF Next, StartRun, RunSteps

LEMMA FinalInit == Init => FinalInv
  BY DEF Init, FinalInv, FinalIsThere, FinalBehindState, FinalBehindLatest, StateBehindLatest,
         NotBehind, NoViews

\* No step puts an older view over a newer one, unless the older one was given.
LEMMA FinalStep ==
  ASSUME IInv, FinalInv, [Next]_vars, final' # NoViews, ~damaged, NEW key \in Key \ named
  PROVE  final'[key] >= final[key]
<1> USE DEF IInv
<1>1. CASE FinishRun \/ SnapshotFails
  BY <1>1, TakesSnapshot, SnapshotGoesForward
<1>2. CASE ~(FinishRun \/ SnapshotFails)
  <2>1. final' = final
    BY <1>2
       DEF Next, StartRun, RunSteps, Overwrite, EmptyDisk, OverwriteDies, Resume, ResumeFails,
           SkipStep, CreateReproducible, StartStep, FinishPart, FinishStep, DeferError,
           StepFails, Die, DieWriting, vars, disk
  <2>2. QED
    BY <2>1, ViewsAreNumbers
<1>3. QED
  BY <1>1, <1>2

\* final/ never goes back, for every flow and every sequence of runs with a tag, but
\* for views an initial state was given for and no step has made since.
THEOREM FinalGoesForward == Spec => FinalNeverGoesBack
<1>1. IInv /\ FinalInv /\ [Next]_vars => FinalInv'
  BY FinalNext
<1>2. Spec => []FinalInv
  BY <1>1, FinalInit, Invariance, PTL DEF Spec
<1>3. IInv /\ FinalInv /\ [Next]_vars =>
        [final' # NoViews /\ ~damaged =>
           \A key \in Key \ named : final'[key] >= final[key]]_final
  BY FinalStep
<1>4. QED
  BY <1>2, <1>3, Invariance, PTL DEF Spec, FinalNeverGoesBack

-----------------------------------------------------------------------------
(* The steps a run executes                                                *)

Running == pc # "idle"
InLoop == Running /\ stage <= NumSteps

\* The loop's flag, in terms of the options.
LoopFlag ==
  InLoop => (executing <=> /\ req.frm < stage
                           /\ ~(req.to # 0 /\ req.to >= req.frm /\ req.to < stage))

\* The loop does not get past a step to be reproduced that is in the window.
BeforeRepro == InLoop /\ req.repro # 0 /\ InWindow(req, req.repro) => stage <= req.repro

\* A step that is run was asked for.
StepSelected == pc = "step" => stage \in Selection(req)

\* The run's own directories begin at base, and its deferred steps are behind.
RunBegins == Running => base <= ordinal /\ \A i \in deferred : i < stage

\* Of the steps asked for, those behind the loop's place are recorded in order,
\* but for the deferred ones.
Recorded == {entries[o].step : o \in RecordedNow}
RecordedSoFar ==
  Running => /\ Recorded = {i \in Selection(req) : i < stage} \ deferred
             /\ \A o1, o2 \in RecordedNow : o1 < o2 => entries[o1].step < entries[o2].step

LoopInv == /\ LoopFlag
           /\ BeforeRepro
           /\ StepSelected
           /\ RunBegins
           /\ RecordedSoFar
           /\ SuccessRunsSelection

\* The numbers the loop works with.
LEMMA LoopNumbers ==
  ASSUME TypeOK
  PROVE  /\ stage \in Nat /\ stage >= 1 /\ NumSteps \in Nat /\ base \in Nat /\ ordinal \in Nat
         /\ req.frm \in Nat /\ req.to \in Nat /\ req.repro \in Nat
         /\ req.repro # 0 => req.repro \in Step
         /\ Step \subseteq Nat /\ Selection(req) \subseteq Step
         /\ \A o \in DOMAIN entries : o \in Nat /\ entries[o].step \in Step
<1>1. req \in Requests
  BY DEF TypeOK, MemoryTypeOK
<1>2. req.frm \in Step \cup {0} /\ req.to \in Step \cup {0} /\ req.repro \in Step \cup {0}
  BY <1>1, RequestType
<1>3. Step \subseteq Nat /\ NumSteps \in Nat
  BY FlowAssumption DEF Step
<1>4. \A o \in DOMAIN entries : o \in Nat /\ entries[o].step \in Step
  BY DEF TypeOK, DiskTypeOK, Entry
<1>5. stage \in Nat /\ stage >= 1 /\ base \in Nat /\ ordinal \in Nat
  <2>1. stage \in 1..(NumSteps + 1) /\ base \in Nat /\ ordinal \in Nat
    BY DEF TypeOK, MemoryTypeOK
  <2>2. QED
    BY <1>3, <2>1
<1>6. Selection(req) \subseteq Step
  BY DEF Selection
<1>7. req.frm \in Nat /\ req.to \in Nat /\ req.repro \in Nat
  <2>1. \A i \in Step \cup {0} : i \in Nat
    BY <1>3
  <2>2. QED
    BY ONLY <1>2, <2>1
<1>8. QED
  BY <1>2, <1>3, <1>4, <1>5, <1>6, <1>7

\* The loop executes the steps of the window, and the flag is right for the next.
LEMMA FlagMeansWindow ==
  ASSUME TypeOK, LoopFlag, InLoop
  PROVE  /\ Skipped <=> ~InWindow(req, stage)
         /\ (ExecutingNow /\ req.to # stage) <=>
               /\ req.frm < stage + 1
               /\ ~(req.to # 0 /\ req.to >= req.frm /\ req.to < stage + 1)
<1>1. /\ stage \in Nat /\ stage >= 1 /\ req.frm \in Nat /\ req.to \in Nat
  BY LoopNumbers
<1>2. executing <=> /\ req.frm < stage
                    /\ ~(req.to # 0 /\ req.to >= req.frm /\ req.to < stage)
  BY DEF LoopFlag
<1>3. ExecutingNow <=> /\ req.frm <= stage
                       /\ ~(req.to # 0 /\ req.to >= req.frm /\ req.to < stage)
  BY <1>1, <1>2 DEF ExecutingNow
<1>4. Skipped <=> ~InWindow(req, stage)
  BY <1>1, <1>3 DEF Skipped, InWindow
<1>5. (ExecutingNow /\ req.to # stage) <=>
               /\ req.frm < stage + 1
               /\ ~(req.to # 0 /\ req.to >= req.frm /\ req.to < stage + 1)
  BY <1>1, <1>3
<1>6. QED
  BY <1>4, <1>5

\* A step that is not skipped and is not reproduced was asked for.
LEMMA NotSkippedIsSelected ==
  ASSUME TypeOK, LoopFlag, BeforeRepro, AtStage, ~Skipped, stage # req.repro
  PROVE  stage \in Selection(req)
<1>1. InLoop /\ stage \in Step
  BY AtStageIsStep DEF InLoop, Running, AtStage
<1>2. InWindow(req, stage)
  BY <1>1, FlagMeansWindow
<1>3. req.repro # 0 /\ InWindow(req, req.repro) => stage < req.repro
  BY <1>1, LoopNumbers DEF BeforeRepro
<1>4. QED
  BY <1>1, <1>2, <1>3 DEF Selection

\* What each step of the loop makes of this run's records.
LEMMA RecordsStay ==
  ASSUME TypeOK, OrdinalAhead, InsideStep,
         SkipStep \/ CreateReproducible \/ StartStep \/ FinishPart \/ DeferError
  PROVE  /\ RecordedNow' = RecordedNow
         /\ \A o \in RecordedNow : entries'[o].step = entries[o].step
<1>1. CASE SkipStep \/ DeferError
  BY <1>1 DEF SkipStep, DeferError, NextStage, disk, RecordedNow
<1>2. CASE CreateReproducible \/ StartStep
  <2>1. WriteEntry /\ UNCHANGED <<records, base>> /\ AtStage
    BY <1>2 DEF CreateReproducible, WriteReproducible, StartStep
  <2>2. /\ DOMAIN entries' = DOMAIN entries \cup {ordinal}
        /\ \A o \in DOMAIN entries : o # ordinal => entries'[o] = entries[o]
    BY <2>1, AtStageIsStep, WriteEntryType
  <2>3. ordinal \notin Ordinals
    <3>1. \A o \in Ordinals : o < ordinal
      BY <2>1 DEF AtStage, OrdinalAhead
    <3>2. QED
      BY <3>1, LoopNumbers
  <2>4. <<ordinal, 0>> \notin DOMAIN records /\ ordinal \notin DOMAIN entries
    BY <2>3 DEF Ordinals
  <2>5. QED
    BY <2>1, <2>2, <2>4 DEF RecordedNow
<1>3. CASE FinishPart
  <2>1. /\ base' = base /\ sub \in Nat
        /\ WriteRecord(sub + 1, FALSE, StateAfter(1..(sub + 1)))
    <3>1. sub \in Part /\ Part \subseteq Nat
      BY FlowAssumption DEF TypeOK, MemoryTypeOK, Part
    <3>2. QED
      BY <1>3, <3>1 DEF FinishPart
  <2>2. \A o \in DOMAIN entries : <<o, 0>> \in DOMAIN records' <=> <<o, 0>> \in DOMAIN records
    <3>1. DOMAIN records' = DOMAIN records \cup {<<ordinal, sub + 1>>}
      BY <2>1 DEF WriteRecord
    <3>2. \A o \in DOMAIN entries : <<o, 0>> # <<ordinal, sub + 1>>
      BY <2>1
    <3>3. QED
      BY <3>1, <3>2
  <2>3. /\ DOMAIN entries' = DOMAIN entries
        /\ \A o \in DOMAIN entries : entries'[o].step = entries[o].step
    BY <1>3, WritesInOwnDirectory
  <2>4. QED
    BY <2>1, <2>2, <2>3 DEF RecordedNow
<1>4. QED
  BY <1>1, <1>2, <1>3

LEMMA RecordsGrow ==
  ASSUME TypeOK, InsideStep, RunBegins, FinishStep
  PROVE  /\ RecordedNow' = RecordedNow \cup {ordinal}
         /\ \A o \in RecordedNow' : entries'[o].step = entries[o].step
         /\ entries[ordinal].step = stage
<1>1. /\ pc = "step" /\ base' = base
      /\ WriteRecord(0, FALSE, StateAfter(OwnParts))
  BY DEF FinishStep, NextStage
<1>2. DOMAIN records' = DOMAIN records \cup {<<ordinal, 0>>}
  BY <1>1 DEF WriteRecord
<1>3. /\ DOMAIN entries' = DOMAIN entries
      /\ \A o \in DOMAIN entries : entries'[o].step = entries[o].step
  BY WritesInOwnDirectory
<1>4. ordinal \in DOMAIN entries /\ entries[ordinal].step = stage
  BY <1>1 DEF InsideStep
<1>5. base <= ordinal /\ base \in Nat /\ ordinal \in Nat
  BY <1>1, LoopNumbers DEF RunBegins, Running
<1>6. \A o : <<o, 0>> \in DOMAIN records' <=> o = ordinal \/ <<o, 0>> \in DOMAIN records
  BY <1>2
<1>7. RecordedNow' = RecordedNow \cup {ordinal}
  BY <1>1, <1>3, <1>4, <1>5, <1>6 DEF RecordedNow
<1>8. RecordedNow' \subseteq DOMAIN entries
  BY <1>3 DEF RecordedNow
<1>9. QED
  BY <1>3, <1>4, <1>7, <1>8

-----------------------------------------------------------------------------
(* The loop's invariant                                                    *)

\* Where the loop stands after NextStage it will stand right.
LEMMA FlagAfterStage ==
  ASSUME TypeOK, LoopFlag, InLoop, NEW inc \in BOOLEAN, NextStage(inc)
  PROVE  LoopFlag'
<1>1. (ExecutingNow /\ req.to # stage) <=>
               /\ req.frm < stage + 1
               /\ ~(req.to # 0 /\ req.to >= req.frm /\ req.to < stage + 1)
  BY FlagMeansWindow
<1>2. /\ stage' = stage + 1 /\ req' = req
      /\ executing' = (ExecutingNow /\ req.to # stage)
  BY DEF NextStage
<1>3. QED
  BY <1>1, <1>2 DEF LoopFlag

LEMMA LoopAfterSkip ==
  ASSUME IInv, LoopInv, SkipStep
  PROVE  LoopInv'
<1> USE DEF IInv, LoopInv
<1>1. /\ InLoop /\ Skipped /\ stage \in Step /\ NextStage(FALSE) /\ deferred' = deferred
      /\ stage' = stage + 1 /\ pc' = "stage" /\ req' = req /\ base' = base /\ ordinal' = ordinal
  BY AtStageIsStep DEF SkipStep, InLoop, Running, AtStage, NextStage, EndStage
<1>2. ~InWindow(req, stage)
  BY <1>1, FlagMeansWindow
<1>3. LoopFlag'
  BY <1>1, FlagAfterStage
<1>4. BeforeRepro'
  <2>1. req.repro # 0 /\ InWindow(req, req.repro) => stage <= req.repro /\ stage # req.repro
    BY <1>1, <1>2 DEF BeforeRepro
  <2>2. req.repro # 0 /\ InWindow(req, req.repro) => stage + 1 <= req.repro
    BY <2>1, LoopNumbers
  <2>3. QED
    BY <1>1, <2>2 DEF BeforeRepro, InWindow
<1>5. StepSelected' /\ SuccessRunsSelection'
  BY <1>1 DEF StepSelected, SuccessRunsSelection
<1>6. RunBegins'
  <2>1. \A i \in deferred : i \in Nat /\ i < stage
    BY <1>1, LoopNumbers DEF RunBegins, InLoop, TypeOK, MemoryTypeOK
  <2>2. \A i \in deferred : i < stage + 1
    BY <2>1, LoopNumbers
  <2>3. QED
    BY <1>1, <2>2 DEF RunBegins, InLoop
<1>7. RecordedSoFar'
  <2>1. RecordedNow' = RecordedNow /\ \A o \in RecordedNow : entries'[o].step = entries[o].step
    BY RecordsStay
  <2>2. stage \notin Selection(req)
    BY <1>2 DEF Selection
  <2>3. {i \in Selection(req) : i < stage + 1} = {i \in Selection(req) : i < stage}
    <3>1. \A i \in Selection(req) : i \in Nat /\ i # stage
      BY <2>2, LoopNumbers
    <3>2. QED
      BY <3>1, LoopNumbers
  <2>4. Selection(req)' = Selection(req)
    BY <1>1 DEF Selection, InWindow
  <2>5. Recorded' = Recorded
    BY <2>1 DEF Recorded
  <2>6. QED
    BY <1>1, <2>1, <2>3, <2>4, <2>5 DEF RecordedSoFar, InLoop
<1>8. QED
  BY <1>3, <1>4, <1>5, <1>6, <1>7

LEMMA LoopAfterReproducible ==
  ASSUME IInv, LoopInv, CreateReproducible
  PROVE  LoopInv'
<1> USE DEF IInv, LoopInv
<1>1. /\ InLoop /\ ~Skipped /\ stage = req.repro /\ stage \in Step /\ pc = "stage"
      /\ stage' = NumSteps + 1
      /\ UNCHANGED <<pc, req, base, ordinal, deferred, result>>
  BY AtStageIsStep DEF CreateReproducible, InLoop, Running, AtStage
<1>2. ~InLoop' /\ pc' # "step" /\ pc' # "idle"
  BY <1>1, LoopNumbers DEF InLoop
<1>3. LoopFlag' /\ BeforeRepro' /\ StepSelected' /\ SuccessRunsSelection'
  BY <1>2 DEF LoopFlag, BeforeRepro, StepSelected, SuccessRunsSelection
<1>4. RunBegins'
  <2>1. \A i \in deferred : i \in Nat /\ i < stage
    BY <1>1, LoopNumbers DEF RunBegins, InLoop, TypeOK, MemoryTypeOK
  <2>2. stage <= NumSteps
    BY <1>1 DEF InLoop
  <2>3. \A i \in deferred : i < NumSteps + 1
    BY <2>1, <2>2, LoopNumbers
  <2>4. QED
    BY <1>1, <2>3 DEF RunBegins, InLoop
<1>5. RecordedSoFar'
  <2>1. RecordedNow' = RecordedNow /\ \A o \in RecordedNow : entries'[o].step = entries[o].step
    BY RecordsStay
  <2>2. InWindow(req, req.repro) /\ req.repro # 0
    BY <1>1, FlagMeansWindow, LoopNumbers
  <2>3. \A i \in Selection(req) : i \in Nat /\ i < stage
    BY <1>1, <2>2, LoopNumbers DEF Selection
  <2>4. \A i \in Selection(req) : i < NumSteps + 1
    BY <1>1, <2>3, LoopNumbers DEF InLoop
  <2>5. {i \in Selection(req) : i < stage'} = {i \in Selection(req) : i < stage}
    BY <1>1, <2>3, <2>4
  <2>6. Selection(req)' = Selection(req)
    BY <1>1 DEF Selection, InWindow
  <2>7. Recorded' = Recorded
    BY <2>1 DEF Recorded
  <2>8. QED
    BY <1>1, <2>1, <2>5, <2>6, <2>7 DEF RecordedSoFar, InLoop, Running
<1>6. QED
  BY <1>3, <1>4, <1>5

LEMMA LoopInsideStep ==
  ASSUME IInv, LoopInv, StartStep \/ FinishPart
  PROVE  LoopInv'
<1> USE DEF IInv, LoopInv
<1>1. /\ Running /\ pc' = "step"
      /\ UNCHANGED <<stage, req, base, ordinal, executing, deferred, result>>
  BY DEF StartStep, FinishPart, AtStage, Running
<1>2. stage \in Selection(req)
  BY NotSkippedIsSelected DEF StartStep, FinishPart, StepSelected
<1>3. Selection(req)' = Selection(req)
  BY <1>1 DEF Selection, InWindow
<1>4. LoopFlag' /\ BeforeRepro'
  BY <1>1 DEF LoopFlag, BeforeRepro, InLoop, Running, InWindow
<1>5. StepSelected' /\ RunBegins' /\ SuccessRunsSelection'
  BY <1>1, <1>2, <1>3 DEF StepSelected, RunBegins, Running, SuccessRunsSelection
<1>6. RecordedSoFar'
  <2>1. RecordedNow' = RecordedNow /\ \A o \in RecordedNow : entries'[o].step = entries[o].step
    BY RecordsStay
  <2>2. Recorded' = Recorded
    BY <2>1 DEF Recorded
  <2>3. QED
    BY <1>1, <1>3, <2>1, <2>2 DEF RecordedSoFar, Running
<1>7. QED
  BY <1>4, <1>5, <1>6

\* The step that ends was asked for, and is recorded or deferred.
LEMMA LoopAfterStep ==
  ASSUME IInv, LoopInv, FinishStep \/ DeferError
  PROVE  LoopInv'
<1> USE DEF IInv, LoopInv
<1>1. /\ InLoop /\ pc = "step" /\ stage \in Step /\ NextStage(TRUE)
      /\ stage' = stage + 1 /\ pc' = "stage" /\ req' = req /\ base' = base
      /\ ordinal' = ordinal + 1
  <2>1. pc = "step" /\ NextStage(TRUE)
    BY DEF FinishStep, DeferError
  <2>2. stage \in Step
    BY <2>1 DEF TypeOK, MemoryTypeOK
  <2>3. stage <= NumSteps
    BY <2>2, FlowAssumption DEF Step
  <2>4. QED
    BY <2>1, <2>2, <2>3 DEF InLoop, Running, NextStage, EndStage
<1>2. stage \in Selection(req)
  BY <1>1 DEF StepSelected
<1>3. LoopFlag'
  BY <1>1, FlagAfterStage
<1>4. BeforeRepro'
  <2>1. req.repro # 0 /\ InWindow(req, req.repro) => stage < req.repro
    BY <1>2 DEF Selection
  <2>2. req.repro # 0 /\ InWindow(req, req.repro) => stage + 1 <= req.repro
    BY <2>1, LoopNumbers
  <2>3. QED
    BY <1>1, <2>2 DEF BeforeRepro, InWindow
<1>5. StepSelected' /\ SuccessRunsSelection'
  BY <1>1 DEF StepSelected, SuccessRunsSelection
<1>6. deferred \subseteq Step /\ \A i \in deferred : i < stage
  BY <1>1 DEF RunBegins, InLoop, TypeOK, MemoryTypeOK
<1>7. deferred' = deferred \/ deferred' = deferred \cup {stage}
  BY DEF FinishStep, DeferError
<1>8. RunBegins'
  <2>1. \A i \in deferred' : i < stage + 1
    BY <1>6, <1>7, LoopNumbers
  <2>2. base <= ordinal + 1
    BY <1>1, LoopNumbers DEF RunBegins, InLoop
  <2>3. QED
    BY <1>1, <2>1, <2>2 DEF RunBegins
<1>9. Selection(req)' = Selection(req)
  BY <1>1 DEF Selection, InWindow
<1>10. {i \in Selection(req) : i < stage + 1} = {i \in Selection(req) : i < stage} \cup {stage}
  <2>1. \A i \in Selection(req) : i < stage + 1 <=> i < stage \/ i = stage
    BY LoopNumbers
  <2>2. QED
    BY <1>2, <2>1
<1>11. stage \notin deferred /\ ~(stage < stage)
  BY <1>6, LoopNumbers
<1>12. Recorded = {i \in Selection(req) : i < stage} \ deferred
  BY <1>1 DEF RecordedSoFar, InLoop
<1>13. RecordedSoFar'
  <2>1. CASE FinishStep
    <3>1. /\ RecordedNow' = RecordedNow \cup {ordinal}
          /\ \A o \in RecordedNow' : entries'[o].step = entries[o].step
          /\ entries[ordinal].step = stage
      BY <2>1, RecordsGrow
    <3>2. Recorded' = Recorded \cup {stage}
      BY <3>1 DEF Recorded
    <3>3. deferred' = deferred
      BY <2>1 DEF FinishStep
    <3>4. Recorded' = {i \in Selection(req) : i < stage + 1} \ deferred
      BY <1>10, <1>11, <1>12, <3>2
    <3>5. ASSUME NEW o1 \in RecordedNow', NEW o2 \in RecordedNow', o1 < o2
          PROVE  entries'[o1].step < entries'[o2].step
      <4>1. o1 \in Nat /\ o2 \in Nat /\ o1 <= ordinal /\ o2 <= ordinal /\ ordinal \in Nat
        <5>1. RecordedNow' \subseteq DOMAIN entries \cup {ordinal}
          BY <3>1 DEF RecordedNow
        <5>2. QED
          BY <5>1, LoopNumbers DEF OrdinalAhead, Ordinals
      <4>2. o1 # ordinal /\ o1 \in RecordedNow
        BY <3>1, <3>5, <4>1
      <4>3. CASE o2 = ordinal
        BY <1>1, <3>1, <4>2, <4>3 DEF RunGoesForward, RecordedNow
      <4>4. CASE o2 # ordinal
        <5>1. o2 \in RecordedNow
          BY <3>1, <4>4
        <5>2. entries[o1].step < entries[o2].step
          BY <1>1, <3>5, <4>2, <5>1 DEF RecordedSoFar, InLoop
        <5>3. QED
          BY <3>1, <5>2
      <4>5. QED
        BY <4>3, <4>4
    <3>6. QED
      BY <1>1, <1>9, <3>3, <3>4, <3>5 DEF RecordedSoFar
  <2>2. CASE DeferError
    <3>1. RecordedNow' = RecordedNow /\ \A o \in RecordedNow : entries'[o].step = entries[o].step
      BY <2>2, RecordsStay
    <3>2. Recorded' = Recorded
      BY <3>1 DEF Recorded
    <3>3. deferred' = deferred \cup {stage}
      BY <2>2 DEF DeferError
    <3>4. Recorded' = {i \in Selection(req) : i < stage + 1} \ deferred'
      BY <1>10, <1>11, <1>12, <3>2, <3>3
    <3>5. QED
      BY <1>1, <1>9, <3>1, <3>4 DEF RecordedSoFar, InLoop
  <2>3. QED
    BY <2>1, <2>2
<1>14. QED
  BY <1>3, <1>4, <1>5, <1>8, <1>13

\* A run starts with nothing recorded: its directories begin above all others.
LEMMA LoopAfterStart ==
  ASSUME IInv, LoopInv, NEW r \in Requests, Overwrite(r) \/ Resume(r)
  PROVE  LoopInv'
<1> USE DEF IInv, LoopInv
<1>1. \E from \in Nat : \E s : /\ BeginRun(r, from, s)
                               /\ \A o \in DOMAIN entries' : o \in Nat /\ o < from
  <2>1. CASE Overwrite(r)
    BY <2>1 DEF Overwrite, EmptyDisk
  <2>2. CASE Resume(r)
    <3>1. StartingOrdinal \in Nat /\ \A o \in DOMAIN entries : o < StartingOrdinal
      BY StartingOrdinalIsFresh DEF OrdinalAhead, Ordinals
    <3>2. entries' = entries
      BY <2>2 DEF Resume, disk
    <3>3. \E s : BeginRun(r, StartingOrdinal, s)
      BY <2>2 DEF Resume
    <3>4. QED
      BY <3>1, <3>2, <3>3, LoopNumbers
  <2>3. QED
    BY <2>1, <2>2
<1>2. PICK from \in Nat : \E s : /\ BeginRun(r, from, s)
                                 /\ \A o \in DOMAIN entries' : o \in Nat /\ o < from
  BY <1>1
<1>3. /\ pc' = "stage" /\ req' = r /\ stage' = 1 /\ ordinal' = from /\ base' = from
      /\ executing' = (r.frm = 0) /\ deferred' = {} /\ result' = "none"
  BY <1>2 DEF BeginRun
<1>4. /\ r.frm \in Nat /\ r.to \in Nat /\ r.repro \in Nat /\ Step \subseteq Nat
      /\ \A i \in Step : i >= 1
  <2>1. r.frm \in Step \cup {0} /\ r.to \in Step \cup {0} /\ r.repro \in Step \cup {0}
    BY RequestType
  <2>2. \A i \in Step \cup {0} : i \in Nat
    BY FlowAssumption DEF Step
  <2>3. \A i \in Step : i >= 1
    BY FlowAssumption DEF Step
  <2>4. QED
    BY ONLY <2>1, <2>2, <2>3
<1>5. LoopFlag'
  <2>1. (r.frm = 0) <=> r.frm < 1 /\ ~(r.to # 0 /\ r.to >= r.frm /\ r.to < 1)
    BY <1>4
  <2>2. executing' <=> r.frm < 1 /\ ~(r.to # 0 /\ r.to >= r.frm /\ r.to < 1)
    BY <1>3, <2>1
  <2>3. QED
    BY <1>3, <2>2 DEF LoopFlag
<1>6. BeforeRepro'
  <2>1. r.repro # 0 => 1 <= r.repro
    BY <1>4
  <2>2. QED
    BY <1>3, <2>1 DEF BeforeRepro
<1>7. StepSelected' /\ RunBegins' /\ SuccessRunsSelection'
  BY <1>3 DEF StepSelected, RunBegins, SuccessRunsSelection
<1>8. RecordedSoFar'
  <2>1. RecordedNow' = {}
    BY <1>2, <1>3 DEF RecordedNow
  <2>2. Recorded' = {}
    BY <2>1 DEF Recorded
  <2>3. {i \in Selection(r) : i < 1} = {}
    <3>1. \A i \in Step : ~(i < 1)
      BY <1>4
    <3>2. QED
      BY <3>1 DEF Selection
  <2>4. QED
    BY <1>3, <2>1, <2>2, <2>3 DEF RecordedSoFar
<1>9. QED
  BY <1>5, <1>6, <1>7, <1>8

\* Success means that the loop got to its end and nothing was deferred.
LEMMA LoopAtEnd ==
  ASSUME IInv, LoopInv, FinishRun
  PROVE  LoopInv'
<1> USE DEF IInv, LoopInv
<1>1. /\ Running /\ stage = NumSteps + 1 /\ pc' = "idle"
      /\ UNCHANGED <<entries, records, req, base>>
      /\ result' = "success" => deferred = {}
  BY DEF FinishRun, EndRun, Running
<1>2. LoopFlag' /\ BeforeRepro' /\ StepSelected' /\ RunBegins' /\ RecordedSoFar'
  BY <1>1 DEF LoopFlag, BeforeRepro, StepSelected, RunBegins, RecordedSoFar, InLoop, Running
<1>3. ASSUME result' = "success" PROVE Recorded = Selection(req)
  <2>1. Recorded = {i \in Selection(req) : i < stage}
    BY <1>1, <1>3 DEF RecordedSoFar
  <2>2. \A i \in Selection(req) : i < NumSteps + 1
    BY FlowAssumption DEF Selection, Step
  <2>3. QED
    BY <1>1, <2>1, <2>2
<1>4. SuccessRunsSelection'
  <2>1. RecordedNow' = RecordedNow /\ Selection(req)' = Selection(req)
    BY <1>1 DEF RecordedNow, Selection, InWindow
  <2>2. QED
    BY <1>1, <1>3, <2>1 DEF SuccessRunsSelection, RecordedSoFar, Recorded
<1>5. QED
  BY <1>2, <1>4

LEMMA LoopNext ==
  ASSUME IInv, LoopInv, [Next]_vars
  PROVE  LoopInv'
<1>1. CASE SkipStep
  BY <1>1, LoopAfterSkip
<1>2. CASE CreateReproducible
  BY <1>2, LoopAfterReproducible
<1>3. CASE StartStep \/ FinishPart
  BY <1>3, LoopInsideStep
<1>4. CASE FinishStep \/ DeferError
  BY <1>4, LoopAfterStep
<1>5. CASE \E r \in Requests : Overwrite(r) \/ Resume(r)
  BY <1>5, LoopAfterStart
<1>6. CASE FinishRun
  BY <1>6, LoopAtEnd
<1>7. CASE StepFails \/ SnapshotFails \/ Die \/ DieWriting
             \/ (\E r \in Requests : OverwriteDies(r) \/ ResumeFails(r))
  <2>1. pc' = "idle" /\ result' = "failed"
    BY <1>7 DEF StepFails, SnapshotFails, Die, DieWriting, OverwriteDies, ResumeFails, EndRun
  <2>2. QED
    BY <2>1
       DEF LoopInv, LoopFlag, BeforeRepro, StepSelected, RunBegins, RecordedSoFar, InLoop,
           Running, SuccessRunsSelection
<1>8. CASE UNCHANGED vars
  BY <1>8
     DEF vars, disk, memory, LoopInv, LoopFlag, BeforeRepro, StepSelected, RunBegins,
         RecordedSoFar, InLoop, Running, SuccessRunsSelection, Recorded, RecordedNow,
         Selection, InWindow
<1>9. QED
  BY <1>1, <1>2, <1>3, <1>4, <1>5, <1>6, <1>7, <1>8 DEF Next, StartRun, RunSteps

LEMMA LoopInit == Init => LoopInv
  BY DEF Init, LoopInv, LoopFlag, BeforeRepro, StepSelected, RunBegins, RecordedSoFar,
         InLoop, Running, SuccessRunsSelection

\* "Flow complete." stands for exactly the steps that were asked for, for every flow,
\* every command line and whatever earlier runs left behind.
THEOREM SuccessIsWhatWasAsked == Spec => []SuccessRunsSelection
<1>1. IInv /\ LoopInv /\ [Next]_vars => LoopInv'
  BY LoopNext
<1>2. Spec => []LoopInv
  BY <1>1, LoopInit, Invariance, PTL DEF Spec
<1>3. LoopInv => SuccessRunsSelection
  BY DEF LoopInv
<1>4. QED
  BY <1>2, <1>3, PTL

=============================================================================
