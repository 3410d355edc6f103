------------------------------ MODULE FlowRun ------------------------------
(***************************************************************************)
(* A LibreLane sequential flow working in a run directory: Flow.start,     *)
(* SequentialFlow.run, Step.start and CompositeStep.run, over as many      *)
(* invocations with the same tag as the user makes, any of which may die   *)
(* at any point.                                                           *)
(*                                                                         *)
(* The run directory survives a death.  What it holds is `entries' (the    *)
(* step directories "<ordinal>-<step>", each with config.json, its         *)
(* state_in.json and its view files), `records' (the state_out.json files  *)
(* of the steps and of the parts of composite steps) and `final' (the      *)
(* snapshot).  Everything else is the memory of the running process.       *)
(***************************************************************************)
EXTENDS Integers, FiniteSets, FiniteSetsExt

CONSTANTS NumSteps,   \* len(self.Steps); step ids are 1..NumSteps
          MaxParts,   \* the most sub-steps any composite step has
          Parts,      \* step -> number of its sub-steps, 0 if not composite
          Requests,   \* the command lines a user may give
          Abroad,     \* which views a state file from elsewhere may hold: sets of views
          MaxFiles,   \* bound: files that --with-initial-state is given
          MaxRuns     \* bound: invocations with this tag

Step == 1..NumSteps
Part == 0..MaxParts

\* A view of the design: the output of a step (part 0) or of a sub-step.
Key == Step \X Part

\* A State maps each view to the ordinal of the step directory its file lies
\* in, to 0 if it has no such view, and to Elsewhere if the file is none the
\* runs with this tag have made.
Elsewhere == -1
State == [Key -> Nat \cup {Elsewhere}]
NoViews == [key \in Key |-> 0]

\* frm, to and repro are 0 when the option is not given; skip holds the steps
\* named by --skip and those a gating variable turns off. given: an initial
\* state is (--with-initial-state).
Request == [frm : Step \cup {0}, to : Step \cup {0}, repro : Step \cup {0},
            skip : SUBSET Step, given : BOOLEAN, overwrite : BOOLEAN]

ASSUME FlowAssumption ==
  /\ NumSteps \in Nat \ {0}
  /\ MaxParts \in Nat
  /\ Parts \in [Step -> Part]
  /\ Requests \subseteq Request
  /\ Abroad \subseteq SUBSET Key /\ MaxFiles \in Nat
  /\ MaxRuns \in Nat

VARIABLES
  entries,    \* ordinal -> [step, in, done]: a step directory; `done' are the
              \* parts whose views are complete
  records,    \* <<ordinal, part>> -> [torn, state, mtime]: a state_out.json
  final,      \* views copied to final/
  clock,      \* the file system's clock
  pc,         \* "idle", "stage" (between steps) or "step" (inside Step.start)
  req,        \* the arguments of the current, or else the last, invocation
  stage,      \* the step the loop is at
  ordinal,    \* FlowProgressBar.__ordinal
  base,       \* starting_ordinal of this invocation
  executing,  \* the loop's flag of the same name
  sub,        \* sub-steps of the current composite step already done
  cur,        \* current_state
  deferred,   \* steps of this invocation that raised a DeferredStepError
  result,     \* how the last invocation ended: "success", or "failed" for a
              \* non-zero exit or a death
  runs,       \* invocations so far
  damaged,    \* for the properties: an overwrite was cut short, and none completed since
  named       \* for the properties: views an initial state was given for, and no step
              \* has made since

disk == <<entries, records, final, clock>>
memory == <<pc, req, stage, ordinal, base, executing, sub, cur, deferred, result, runs>>
vars == <<disk, memory, damaged, named>>

-----------------------------------------------------------------------------
(* Reading a run directory                                                 *)

\* The ordinals of the entries os.listdir shows: a directory is there as long
\* as anything is left in it.
Ordinals == DOMAIN entries \cup {f[1] : f \in DOMAIN records}

\* Mutant of StartingOrdinal: one above the finished step directories only.
AboveFinished == Max({0} \cup {f[1] : f \in {f \in DOMAIN records : f[2] = 0}}) + 1

\* starting_ordinal: one above every entry, finished or not.
StartingOrdinal == Max({0} \cup Ordinals) + 1

\* State.loads refuses a state with a path that does not exist.
PathsExist(s) == \A key \in Key : s[key] > 0 => s[key] \in DOMAIN entries

Readable(f) == ~records[f].torn /\ PathsExist(records[f].state)

\* Step.load_finished succeeds, or finds the step unfinished and is ignored.
EntryLoads(o) ==
  <<o, 0>> \in DOMAIN records => Readable(<<o, 0>>) /\ PathsExist(entries[o].in)

\* Mutant of IsLatest: the comparison the wrong way round.
IsOldest(f) == /\ f \in DOMAIN records
               /\ \A g \in DOMAIN records : records[f].mtime <= records[g].mtime

\* get_latest_file(run_dir, "state_out.json"): by modification time, at any depth.
IsLatest(f) == /\ f \in DOMAIN records
               /\ \A g \in DOMAIN records : records[g].mtime <= records[f].mtime

LatestLoads == \A f \in DOMAIN records : IsLatest(f) => Readable(f)

Loads(r) == /\ \A o \in DOMAIN entries : EntryLoads(o)
            /\ r.given \/ LatestLoads

WholeRecords == {f \in DOMAIN records : ~records[f].torn}

-----------------------------------------------------------------------------
(* The state a run opens with                                              *)

ViewsOf(s) == {key \in Key : s[key] # 0}

\* A state file from elsewhere, and a path named by hand
\* (--initial-state-element-override), wherever that lies.
Foreign(views) == [key \in Key |-> IF key \in views THEN Elsewhere ELSE 0]

\* The state files a user can name: any record of the run directory, however
\* old, and those from elsewhere.
StateFiles == {records[f].state : f \in WholeRecords} \cup {Foreign(views) : views \in Abroad}

\* initial_state_cb: a view is taken from the last of the files that has it.
Merged(files) ==
  [key \in Key |-> LET have == {i \in DOMAIN files : files[i][key] # 0}
                   IN  IF have = {} THEN 0 ELSE files[Max(have)][key]]

\* State.load refuses the merged state if a path does not exist: the program
\* then ends before the flow is started.
GivenStates == {s \in {Merged(files) : files \in UNION {[1..n -> StateFiles] : n \in 1..MaxFiles}} :
                  PathsExist(s)}

OpeningStates(r) ==
  IF r.given THEN GivenStates
  ELSE IF DOMAIN records = {} THEN {NoViews}
  ELSE {records[f].state : f \in {f \in DOMAIN records : IsLatest(f)}}

-----------------------------------------------------------------------------
(* Starting and ending an invocation                                       *)

EmptyDisk == /\ entries' = [o \in {} |-> 0]
             /\ records' = [f \in {} |-> 0]
             /\ final' = NoViews

\* The part of an invocation's start that follows once the directory is read.
BeginRun(r, from, initial) ==
  /\ pc' = "stage"
  /\ req' = r
  /\ stage' = 1
  /\ ordinal' = from
  /\ base' = from
  /\ executing' = (r.frm = 0)
  /\ sub' = 0
  /\ cur' = initial
  /\ deferred' = {}
  /\ result' = "none"
  /\ runs' = runs + 1

\* The process is gone, with everything it held in memory.  (What it was asked
\* for and the ordinals it used stay behind for the properties.)
EndRun(how) ==
  /\ pc' = "idle"
  /\ stage' = 1
  /\ executing' = FALSE
  /\ sub' = 0
  /\ cur' = NoViews
  /\ deferred' = {}
  /\ result' = how
  /\ UNCHANGED <<req, ordinal, base, runs, damaged, named>>

\* --overwrite: the directory is removed and the run starts afresh. (Bound: the
\* initial state it may be given has no views in the directory it removes.)
Overwrite(r) == /\ pc = "idle" /\ runs < MaxRuns
                /\ r.overwrite
                /\ EmptyDisk
                /\ \E views \in IF r.given THEN Abroad ELSE {{}} :
                     BeginRun(r, 1, Foreign(views)) /\ named' = views
                /\ damaged' = FALSE
                /\ UNCHANGED clock

\* shutil.rmtree dies on its way: some entries are gone, and at most one has
\* lost its files or its records only.  (Bound: it is never the last of the
\* MaxRuns invocations, where nothing would come after it.)
OverwriteDies(r) ==
  /\ pc = "idle" /\ runs + 1 < MaxRuns
  /\ r.overwrite
  /\ \E gone \in SUBSET Ordinals, half \in Ordinals \cup {0}, kept \in {"files", "records"} :
       LET stays(o, what) == o \notin gone /\ (o = half => kept = what)
       IN /\ entries' = [o \in {o \in DOMAIN entries : stays(o, "files")} |-> entries[o]]
          /\ records' = [f \in {f \in DOMAIN records : stays(f[1], "records")} |-> records[f]]
  /\ final' \in {final, NoViews}
  /\ damaged' = TRUE
  /\ result' = "failed"
  /\ runs' = runs + 1
  /\ UNCHANGED <<clock, pc, req, stage, ordinal, base, executing, sub, cur, deferred, named>>

\* A run in a directory that is empty, or holds what earlier runs left.
Resume(r) ==
  /\ pc = "idle" /\ runs < MaxRuns
  /\ ~r.overwrite
  /\ Loads(r)
  /\ \E s \in OpeningStates(r) :
       /\ BeginRun(r, StartingOrdinal, s)
       /\ named' = IF r.given THEN named \cup ViewsOf(s) ELSE named
  /\ UNCHANGED <<disk, damaged>>

\* An InvalidState or ValueError while loading escapes Flow.start, as does an
\* error of rmtree.
ResumeFails(r) ==
  /\ pc = "idle" /\ runs < MaxRuns
  /\ ~r.overwrite
  /\ ~Loads(r)
  /\ result' = "failed"
  /\ runs' = runs + 1
  /\ UNCHANGED <<disk, pc, req, stage, ordinal, base, executing, sub, cur, deferred, damaged, named>>

-----------------------------------------------------------------------------
(* The loop over the steps                                                 *)

ExecutingNow == executing \/ req.frm = stage
Skipped == ~ExecutingNow \/ stage \in req.skip

\* FlowProgressBar.end_stage: a stage that was skipped leaves the ordinal.
EndStage(increment) == ordinal' = IF increment THEN ordinal + 1 ELSE ordinal

\* The end of the loop's body.
NextStage(increment) ==
  /\ pc' = "stage"
  /\ stage' = stage + 1
  /\ EndStage(increment)
  /\ executing' = (ExecutingNow /\ req.to # stage)
  /\ sub' = 0
  /\ UNCHANGED <<req, base, result, runs, damaged>>

AtStage == pc = "stage" /\ stage <= NumSteps

\* Mutant of SkipStep: the loop is continued without going on to the next step.
SkipStepStays == AtStage /\ Skipped /\ UNCHANGED vars

SkipStep == /\ AtStage
            /\ Skipped
            /\ NextStage(FALSE)
            /\ UNCHANGED <<disk, cur, deferred, named>>

\* mkdirp(step_dir), state_in.json and config.json.  They are one action: until
\* state_out.json is there, a step directory is loaded by nobody.
WriteEntry ==
  entries' = [o \in DOMAIN entries \cup {ordinal} |->
                IF o = ordinal THEN [step |-> stage, in |-> cur, done |-> {}]
                               ELSE entries[o]]

\* Step.create_reproducible fills a directory of its own inside the step's, so the
\* step's holds neither a record nor views.
WriteReproducible == WriteEntry

\* --reproducible: files for the step are written to its directory, then `break'.
\* (Should that fail, the run ends as if it died behind this action.)
CreateReproducible ==
  /\ AtStage
  /\ ~Skipped
  /\ stage = req.repro
  /\ WriteReproducible
  /\ stage' = NumSteps + 1
  /\ UNCHANGED <<records, final, clock, pc, req, ordinal, base, executing, sub, cur,
                 deferred, result, runs, damaged, named>>

StartStep == /\ AtStage
             /\ ~Skipped
             /\ stage # req.repro
             /\ WriteEntry
             /\ pc' = "step"
             /\ sub' = 0
             /\ UNCHANGED <<records, final, clock, req, stage, ordinal, base, executing,
                            cur, deferred, result, runs, damaged, named>>

\* The state after the given parts of the current step.
StateAfter(parts) ==
  [key \in Key |-> IF key[1] = stage /\ key[2] \in parts THEN ordinal ELSE cur[key]]

OwnParts == IF Parts[stage] = 0 THEN {0} ELSE 1..Parts[stage]

WriteRecord(part, is_torn, s) ==
  /\ records' = [f \in DOMAIN records \cup {<<ordinal, part>>} |->
                   IF f = <<ordinal, part>>
                   THEN [torn |-> is_torn, state |-> s, mtime |-> clock]
                   ELSE records[f]]
  /\ clock' = clock + 1

\* `parts' of the current directory's views are now complete.
Complete(parts) ==
  entries' = [entries EXCEPT ![ordinal].done = @ \cup parts]

\* CompositeStep.run: the next sub-step succeeds and writes its own state_out.json
\* in a directory inside this one.
FinishPart ==
  /\ pc = "step"
  /\ sub < Parts[stage]
  /\ WriteRecord(sub + 1, FALSE, StateAfter(1..(sub + 1)))
  /\ Complete({sub + 1})
  /\ sub' = sub + 1
  /\ UNCHANGED <<final, pc, req, stage, ordinal, base, executing, cur, deferred, result,
                 runs, damaged, named>>

\* Mutant of FinishStep: the flow's state is not replaced by the step's.
FinishStepForgets ==
  /\ pc = "step"
  /\ sub = Parts[stage]
  /\ WriteRecord(0, FALSE, StateAfter(OwnParts))
  /\ Complete(OwnParts)
  /\ NextStage(TRUE)
  /\ UNCHANGED <<cur, final, deferred, named>>

\* Step.run returned: the new state is written, and is the flow's from now on.
FinishStep ==
  /\ pc = "step"
  /\ sub = Parts[stage]
  /\ WriteRecord(0, FALSE, StateAfter(OwnParts))
  /\ Complete(OwnParts)
  /\ cur' = StateAfter(OwnParts)
  /\ named' = named \ {key \in Key : key[1] = stage /\ key[2] \in OwnParts}
  /\ NextStage(TRUE)
  /\ UNCHANGED <<final, deferred>>

\* Mutant of DeferError: the state of the step that failed is taken over.
DeferErrorTakesState ==
  /\ pc = "step"
  /\ deferred' = deferred \cup {stage}
  /\ cur' = StateAfter(OwnParts)
  /\ NextStage(TRUE)
  /\ UNCHANGED <<disk, named>>

\* A DeferredStepError is noted and the loop goes on with the state it had.
DeferError ==
  /\ pc = "step"
  /\ deferred' = deferred \cup {stage}
  /\ NextStage(TRUE)
  /\ UNCHANGED <<disk, cur, named>>

\* Any other StepError ends the run, as a FlowException for a StepException and
\* a FlowError for the rest; so does any other exception, as itself.
StepFails == /\ pc = "step"
             /\ EndRun("failed")
             /\ UNCHANGED disk

\* State.save_snapshot, when it has come as far as the given views: each is copied
\* over what final/ holds of it, and nothing is removed.
Snapshot(copied) == [key \in Key |-> IF key \in copied THEN cur[key] ELSE final[key]]

Views == ViewsOf(cur)

\* Mutant of FinishRun: the deferred errors are never raised.
FinishRunAnyway ==
  /\ pc = "stage"
  /\ stage = NumSteps + 1
  /\ final' = Snapshot(Views)
  /\ EndRun("success")
  /\ UNCHANGED <<entries, records, clock>>

\* After the loop: the snapshot is saved over whatever final/ holds, even when
\* deferred errors then turn the result into a FlowError.
FinishRun ==
  /\ pc = "stage"
  /\ stage = NumSteps + 1
  /\ final' = Snapshot(Views)
  /\ EndRun(IF deferred = {} THEN "success" ELSE "failed")
  /\ UNCHANGED <<entries, records, clock>>

\* save_snapshot raises or dies on its way.  (Bound: behind none of the views, or
\* behind those of the first step.)
SnapshotFails ==
  /\ pc = "stage"
  /\ stage = NumSteps + 1
  /\ \E i \in {0, 1} : final' = Snapshot({key \in Views : key[1] = i})
  /\ EndRun("failed")
  /\ UNCHANGED <<entries, records, clock>>

-----------------------------------------------------------------------------
(* The process dies.  A state_out.json being written is left truncated:    *)
(* Step.start opens it for writing in place.                               *)

Die == /\ pc # "idle"
       /\ EndRun("failed")
       /\ UNCHANGED disk

DieWriting ==
  /\ pc = "step"
  /\ LET part == IF sub < Parts[stage] THEN sub + 1 ELSE 0
     IN WriteRecord(part, TRUE, NoViews)
  /\ EndRun("failed")
  /\ UNCHANGED <<entries, final>>

-----------------------------------------------------------------------------
Init ==
  /\ entries = [o \in {} |-> 0]
  /\ records = [f \in {} |-> 0]
  /\ final = NoViews
  /\ clock = 1
  /\ pc = "idle"
  /\ req \in Requests
  /\ stage = 1
  /\ ordinal = 1
  /\ base = 1
  /\ executing = FALSE
  /\ sub = 0
  /\ cur = NoViews
  /\ deferred = {}
  /\ result = "none"
  /\ runs = 0
  /\ damaged = FALSE
  /\ named = {}

StartRun == \E r \in Requests :
  Overwrite(r) \/ OverwriteDies(r) \/ Resume(r) \/ ResumeFails(r)

RunSteps == \/ SkipStep \/ CreateReproducible \/ StartStep
            \/ FinishPart \/ FinishStep \/ DeferError \/ StepFails
            \/ FinishRun \/ SnapshotFails

Next == StartRun \/ RunSteps \/ Die \/ DieWriting

Spec == Init /\ [][Next]_vars

\* The loop itself never blocks, and the tools a step runs are taken to end.
FairSpec == Spec /\ WF_vars(RunSteps)
-----------------------------------------------------------------------------
(* Properties                                                              *)

Record == [torn : BOOLEAN, state : State, mtime : Nat]
Entry == [step : Step, in : State, done : SUBSET Part]

DiskTypeOK ==
  /\ DOMAIN entries \subseteq Nat \ {0}
  /\ entries \in [DOMAIN entries -> Entry]
  /\ DOMAIN records \subseteq (Nat \ {0}) \X Part
  /\ records \in [DOMAIN records -> Record]
  /\ final \in State
  /\ clock \in Nat

MemoryTypeOK ==
  /\ pc \in {"idle", "stage", "step"}
  /\ req \in Requests
  /\ stage \in 1..(NumSteps + 1)
  /\ pc = "step" => stage \in Step
  /\ ordinal \in Nat \ {0}
  /\ base \in Nat \ {0}
  /\ executing \in BOOLEAN
  /\ sub \in Part
  /\ cur \in State
  /\ deferred \in SUBSET Step
  /\ result \in {"none", "success", "failed"}
  /\ runs \in Nat
  /\ damaged \in BOOLEAN
  /\ named \in SUBSET Key

\* Every variable keeps its type (Flow.start, SequentialFlow.run).
TypeOK == DiskTypeOK /\ MemoryTypeOK

\* The state handed from step to step holds no view of this run directory whose
\* step or sub-step did not finish (one that failed, deferred its error or died,
\* in this run or an earlier one), of another step, or in a directory that is
\* gone: whatever records it was opened from.
OnlyFinishedViews ==
  \A key \in Key : cur[key] > 0 =>
    /\ cur[key] \in DOMAIN entries
    /\ entries[cur[key]].step = key[1]
    /\ key[2] \in entries[cur[key]].done

\* While a flow runs, every step it has finished is visible in its state: no
\* later step, deferred error or resumed record displaces it.
CarriesOwnResults ==
  pc # "idle" =>
    \A o \in DOMAIN entries :
      o >= base /\ <<o, 0>> \in DOMAIN records =>
        \A key \in Key : key[1] = entries[o].step /\ key[2] \in entries[o].done
                           => cur[key] = o

\* What a command line asks for, read off its options and not off the loop: the
\* steps from `frm' to `to' (`to' counts only when it does not precede `frm'),
\* less the skipped ones, and only those before a step to be reproduced.
InWindow(r, i) == /\ i >= r.frm
                  /\ r.to >= r.frm /\ r.to # 0 => i <= r.to
                  /\ i \notin r.skip

Selection(r) == {i \in Step : /\ InWindow(r, i)
                              /\ r.repro # 0 /\ InWindow(r, r.repro) => i < r.repro}

RecordedNow == {o \in DOMAIN entries : o >= base /\ <<o, 0>> \in DOMAIN records}

\* "Flow complete." is only printed when every step asked for was recorded by
\* this run, in the flow's order, and nothing else was: not after a deferred
\* error, and whatever earlier runs left behind.
SuccessRunsSelection ==
  result = "success" /\ pc = "idle" =>
    /\ {entries[o].step : o \in RecordedNow} = Selection(req)
    /\ \A o1, o2 \in RecordedNow : o1 < o2 => entries[o1].step < entries[o2].step

\* A snapshot never puts an older view over a newer one in final/, over all runs
\* with the tag; only an overwrite takes views away, and only one that was cut
\* short, so that final/ outlives the directories it was copied from, lets them
\* be followed by views with lower ordinals. A view the user gave an initial
\* state for is copied over a newer one as well (State.save_snapshot compares
\* nothing): until its step has finished again, nothing is said of that view.
FinalNeverGoesBack ==
  [][final' # NoViews /\ ~damaged =>
       \A key \in Key \ named : final'[key] >= final[key]]_final

\* Without a death and with tools that end, a run ends.
RunConcludes == pc # "idle" ~> pc = "idle"

\* The files of a run directory implement the journal.
Written == [f \in WholeRecords |-> records[f].state]
Journal == INSTANCE StepJournal WITH
             journal <- Written,
             head    <- cur,
             live    <- (pc # "idle"),
             given   <- req.given
ImplementsJournal == Journal!JSpec
=============================================================================
