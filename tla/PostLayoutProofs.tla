-------------------------- MODULE PostLayoutProofs --------------------------
(* What the post-layout runner leaves behind agrees with what it ran: proofs *)
(* for any manifest, any faults and revisions of its designs, and any number *)
(* of calls, of which any may die anywhere.                                  *)
EXTENDS PostLayout, WellFoundedInduction, TLAPS

Verdicts == {"none", "pass", "fail"}
Result == [status : {"pass", "error"}, rtl : Verdicts, slow : Verdicts, strict : Verdicts]
CaseResult == [name : Names, is : Result]
Directory == [made : BOOLEAN, sdf : Nat, reports : [ToSet(Classes) -> Nat],
              result : [run : Nat, is : Result]]

TypeOK ==
  /\ design \in [Names -> [rev : Nat, fault : AllFaults]]
  /\ dir \in [Names -> Directory]
  /\ summary \in [run : Nat, cases : Seq(CaseResult)]
  /\ runs \in Nat /\ run \in Options
  /\ phase \in {"idle", "case", "sta", "views", "rtl", "gate", "write", "summary"}
  /\ todo \in SUBSET Names
  /\ timing \in [Names -> Nat]
  /\ result \in Result
  /\ results \in Seq(CaseResult)
  /\ exit \in {"none", "0", "1", "2", "traceback", "killed"}

Ran == {results[i].name : i \in 1..Len(results)}

\* Nothing is told of a run that has not been.
Earlier == summary.run <= runs /\ \A n \in Names : dir[n].result.run <= runs

\* While a run goes on, the cases that are left and those that were run are the ones
\* that were asked for, each of them once; the directory of each that was run holds
\* this run's result, and the summary is an earlier run's.
Underway ==
  phase # "idle" =>
    /\ exit = "none" /\ run.cases \subseteq Names
    /\ summary.run < runs
    /\ todo \cup Ran = Chosen /\ todo \cap Ran = {}
    /\ todo = {} <=> phase = "summary"
    /\ \A i \in 1..Len(results) :
         dir[results[i].name].result = [run |-> runs, is |-> results[i].is]

Inv == TypeOK /\ Earlier /\ Underway /\ SummaryAgrees /\ ExitZeroIsEarned
-----------------------------------------------------------------------------
\* A nonempty set of naturals has a least member.
LEMMA LeastExists ==
  ASSUME NEW S \in SUBSET Nat, S # {}
  PROVE  \E n \in S : \A m \in S : n <= m
<1>1. PICK n \in S : \A m \in Nat : <<m, n>> \in OpToRel(<, Nat) => m \notin S
  BY WFMin, NatLessThanWellFounded
<1>2. ASSUME NEW m \in S PROVE n <= m
  <2>1. m \in Nat /\ n \in Nat  OBVIOUS
  <2>2. ~(m < n)  BY <1>1, <2>1 DEF OpToRel
  <2>. QED  BY <2>1, <2>2
<1>. QED  BY <1>2

\* While a case is left, the one at hand is one of those left.
LEMMA AtHandIsLeft == ASSUME TypeOK, todo # {} PROVE c \in todo
<1>. DEFINE Left == {i \in DOMAIN Cases : Cases[i] \in todo}
<1>1. DOMAIN Cases = 1..Len(Cases) /\ Names = {Cases[i] : i \in DOMAIN Cases}
  BY PostLayoutAssumption DEF Names, ToSet
<1>2. Left \in SUBSET Nat /\ Left # {}  BY <1>1 DEF TypeOK
<1>. HIDE DEF Left
<1>3. PICK i \in Left : \A j \in Left : i <= j  BY <1>2, LeastExists
<1>4. \A j \in 1..(i - 1) : Cases[j] \notin todo  BY <1>1, <1>3 DEF Left
<1>5. \E k \in DOMAIN Cases : Cases[k] \in todo /\ \A j \in 1..(k - 1) : Cases[j] \notin todo
  BY <1>3, <1>4 DEF Left
<1>. QED  BY <1>5 DEF c, first

\* The results of a list are results of cases of the manifest.
LEMMA Listed ==
  ASSUME NEW s \in Seq(CaseResult), NEW i \in 1..Len(s)
  PROVE  s[i] \in CaseResult /\ s[i].name \in Names /\ s[i].is \in Result
<1>1. s[i] \in CaseResult  OBVIOUS
<1>. QED  BY <1>1 DEF CaseResult

LEMMA InitInv == Init => Inv
<1>. SUFFICES ASSUME Init PROVE Inv  OBVIOUS
<1>1. dir = [n \in Names |-> EmptyDir] /\ summary = NoSummary /\ runs = 0 /\ phase = "idle"
      /\ results = <<>> /\ exit = "none" /\ todo = {} /\ result = Blank /\ timing = [n \in Names |-> 0]
      /\ run \in Options
  BY DEF Init
<1>2. Blank \in Result  BY DEF Blank, Result, Verdicts
<1>3. EmptyDir \in Directory  BY <1>2 DEF EmptyDir, Directory
<1>4. \A n \in Names : Faults[n] \subseteq AllFaults  BY PostLayoutAssumption DEF Names
<1>5. design \in [Names -> [rev : Nat, fault : AllFaults]]  BY <1>4 DEF Init
<1>6. summary \in [run : Nat, cases : Seq(CaseResult)] /\ summary.run = 0 /\ summary.cases = <<>>
  BY <1>1 DEF NoSummary
<1>7. TypeOK  BY <1>1, <1>2, <1>3, <1>5, <1>6 DEF TypeOK
<1>8. \A n \in Names : dir[n].result.run = 0  BY <1>1 DEF EmptyDir
<1>9. Earlier  BY <1>1, <1>6, <1>8 DEF Earlier
<1>10. Underway /\ ExitZeroIsEarned  BY <1>1 DEF Underway, ExitZeroIsEarned
<1>11. SummaryAgrees  BY <1>6 DEF SummaryAgrees
<1>. QED  BY <1>7, <1>9, <1>10, <1>11 DEF Inv
-----------------------------------------------------------------------------
\* A step inside a case keeps the results of all cases, and what is left of the run.
LEMMA InsideACase ==
  ASSUME Inv, phase \notin {"idle", "summary"}, phase' \notin {"idle", "summary"}, TypeOK',
         \A n \in Names : dir'[n].result = dir[n].result,
         UNCHANGED <<summary, runs, run, todo, results, exit>>
  PROVE  Inv'
<1>. USE DEF Inv
<1>0. results \in Seq(CaseResult) /\ summary.cases \in Seq(CaseResult)  BY DEF TypeOK
<1>1. \A i \in 1..Len(results) : results[i].name \in Names  BY <1>0, Listed
<1>2. \A i \in 1..Len(summary.cases) : summary.cases[i].name \in Names  BY <1>0, Listed
<1>3. Earlier'  BY DEF Earlier
<1>4. Ran' = Ran /\ Chosen' = Chosen  BY DEF Ran, Chosen
<1>5. Underway'  BY <1>1, <1>4 DEF Underway
<1>6. SummaryAgrees'  BY <1>2 DEF SummaryAgrees
<1>7. ExitZeroIsEarned'  BY DEF ExitZeroIsEarned, Underway
<1>. QED  BY <1>3, <1>5, <1>6, <1>7

\* So does one that ends the run other than well, or comes between two runs.
LEMMA AsideFromACase ==
  ASSUME Inv, phase' = "idle", exit' # "0", TypeOK',
         \A n \in Names : dir'[n].result = dir[n].result,
         summary' = summary, runs' \in Nat, runs <= runs'
  PROVE  Inv'
<1>. USE DEF Inv
<1>1. summary.cases \in Seq(CaseResult) /\ summary.run \in Nat /\ runs \in Nat  BY DEF TypeOK
<1>2. \A i \in 1..Len(summary.cases) : summary.cases[i].name \in Names  BY <1>1, Listed
<1>3. \A n \in Names : dir[n].result.run \in Nat  BY DEF TypeOK, Directory
<1>4. Earlier'  BY <1>1, <1>3 DEF Earlier
<1>5. Underway' /\ ExitZeroIsEarned'  BY DEF Underway, ExitZeroIsEarned
<1>6. SummaryAgrees'  BY <1>2 DEF SummaryAgrees
<1>. QED  BY <1>4, <1>5, <1>6

LEMMA ReviseInv == ASSUME Inv, Revise PROVE Inv'
<1>. USE DEF Inv
<1>0. PICK n \in Names : \E f \in Faults[n] :
        design' = [design EXCEPT ![n] = [rev |-> design[n].rev + 1, fault |-> f]]
  BY DEF Revise
<1>1. PICK f \in Faults[n] : design' = [design EXCEPT ![n] = [rev |-> design[n].rev + 1, fault |-> f]]
  BY <1>0
<1>2. f \in AllFaults  BY PostLayoutAssumption DEF Names
<1>3. design' \in [Names -> [rev : Nat, fault : AllFaults]]  BY <1>1, <1>2 DEF TypeOK
<1>4. UNCHANGED <<dir, summary, runs, run, phase, todo, timing, result, results>> /\ exit' = "none" /\ phase = "idle"
  BY DEF Revise
<1>5. TypeOK'  BY <1>3, <1>4 DEF TypeOK
<1>. QED  BY <1>4, <1>5, AsideFromACase DEF TypeOK

LEMMA InvokeInv == ASSUME Inv, Invoke PROVE Inv'
<1>. USE DEF Inv
<1>1. /\ phase = "idle" /\ runs' = runs + 1 /\ run' \in Options
      /\ timing' = [n \in Names |-> 0] /\ result' = Blank /\ results' = <<>>
      /\ UNCHANGED <<design, dir, summary>>
  BY DEF Invoke
<1>2. runs \in Nat /\ summary \in [run : Nat, cases : Seq(CaseResult)]
      /\ \A n \in Names : dir[n].result.run \in Nat
  BY DEF TypeOK, Directory
<1>3. result' \in Result /\ timing' \in [Names -> Nat] /\ results' \in Seq(CaseResult)
  BY <1>1 DEF Blank, Result, Verdicts
<1>4. CASE exit' = "2" /\ phase' = "idle" /\ todo' = {}
  <2>1. TypeOK'  BY <1>1, <1>2, <1>3, <1>4 DEF TypeOK
  <2>. QED  BY <1>1, <1>2, <1>4, <2>1, AsideFromACase
<1>5. CASE run'.cases \subseteq Names /\ exit' = "none" /\ todo' = Chosen' /\ phase' = "case"
  <2>1. todo' \in SUBSET Names  BY <1>5 DEF Chosen
  <2>2. TypeOK'  BY <1>1, <1>2, <1>3, <1>5, <2>1 DEF TypeOK
  <2>3. Earlier'  BY <1>1, <1>2 DEF Earlier
  <2>4. summary'.run < runs'  BY <1>1, <1>2 DEF Earlier
  <2>5. Len(results') = 0  BY <1>1
  <2>6. Ran' = {}  BY <2>5 DEF Ran
  <2>7. todo' # {}
    <3>1. Cases \in Seq(Names) /\ Cases # <<>>  BY PostLayoutAssumption DEF Names
    <3>2. Head(Cases) \in Names  BY <3>1
    <3>. QED  BY <1>5, <3>2 DEF Chosen
  <2>8. Underway'  BY <1>5, <2>4, <2>5, <2>6, <2>7 DEF Underway
  <2>9. SummaryAgrees'  BY <1>1, <1>2 DEF SummaryAgrees
  <2>10. ExitZeroIsEarned'  BY <1>5 DEF ExitZeroIsEarned
  <2>. QED  BY <2>2, <2>3, <2>8, <2>9, <2>10
<1>. QED  BY <1>4, <1>5 DEF Invoke

\* A run is at a case as long as it is neither over nor at its summary.
LEMMA ACaseIsAtHand ==
  ASSUME Inv, phase \notin {"idle", "summary"}
  PROVE  /\ c \in todo /\ c \in Names /\ exit = "none"
         /\ dir[c] \in Directory /\ design[c] \in [rev : Nat, fault : AllFaults]
<1>1. todo # {} /\ todo \in SUBSET Names /\ exit = "none"  BY DEF Inv, Underway, TypeOK
<1>2. c \in todo  BY <1>1, AtHandIsLeft DEF Inv
<1>. QED  BY <1>1, <1>2 DEF Inv, TypeOK

LEMMA ErrorIsAResult == ErrorResult \in Result /\ Blank \in Result
BY DEF ErrorResult, Blank, Result, Verdicts

LEMMA BeginCaseInv == ASSUME Inv, BeginCase PROVE Inv'
<1>1. phase = "case" /\ UNCHANGED <<design, summary, runs, run, todo, timing, results, exit>>
  BY DEF BeginCase
<1>2. c \in Names /\ dir[c] \in Directory  BY <1>1, ACaseIsAtHand
<1>3. dir \in [Names -> Directory] /\ result \in Result  BY DEF Inv, TypeOK
<1>4. [dir[c] EXCEPT !.made = TRUE] \in Directory /\ [dir[c] EXCEPT !.made = TRUE].result = dir[c].result
  BY <1>2 DEF Directory
<1>5. dir' \in [Names -> Directory] /\ \A n \in Names : dir'[n].result = dir[n].result
  <2>1. CASE dir' = dir  BY <1>3, <2>1
  <2>2. CASE dir' = [dir EXCEPT ![c].made = TRUE]
    <3>1. dir' = [dir EXCEPT ![c] = [dir[c] EXCEPT !.made = TRUE]]  BY <2>2
    <3>. QED  BY <1>2, <1>3, <1>4, <3>1
  <2>. QED  BY <2>1, <2>2 DEF BeginCase
<1>6. phase' \in {"sta", "write"} /\ result' \in Result
  BY ErrorIsAResult DEF BeginCase, Errored
<1>7. TypeOK'  BY <1>1, <1>5, <1>6 DEF Inv, TypeOK
<1>. QED  BY <1>1, <1>5, <1>6, <1>7, InsideACase

LEMMA RunStaInv == ASSUME Inv, RunSta PROVE Inv'
<1>1. phase = "sta" /\ UNCHANGED <<design, summary, runs, run, todo, results, exit>>
  BY DEF RunSta
<1>2. c \in Names /\ dir[c] \in Directory /\ design[c].rev \in Nat  BY <1>1, ACaseIsAtHand
<1>3. dir \in [Names -> Directory] /\ result \in Result /\ timing \in [Names -> Nat]  BY DEF Inv, TypeOK
<1>. DEFINE Had(written) ==
       [dir[c] EXCEPT
          !.sdf = IF written > 0 THEN design[c].rev ELSE dir[c].sdf,
          !.reports = [k \in ToSet(Classes) |->
                         IF k \in ToSet(SubSeq(Classes, 1, written - 1)) THEN design[c].rev ELSE dir[c].reports[k]]]
<1>4. PICK written \in 0..(Len(Classes) + 1) :
        /\ dir' = [dir EXCEPT ![c] = Had(written)]
        /\ \/ Errored /\ UNCHANGED timing
           \/ timing' = [timing EXCEPT ![c] = Had(written).sdf] /\ phase' = "views" /\ UNCHANGED result
  BY DEF RunSta
<1>5. Had(written) \in Directory /\ Had(written).result = dir[c].result /\ Had(written).sdf \in Nat
  BY <1>2 DEF Directory
<1>. HIDE DEF Had
<1>6. dir' \in [Names -> Directory] /\ \A n \in Names : dir'[n].result = dir[n].result
  BY <1>2, <1>3, <1>4, <1>5
<1>7. timing' \in [Names -> Nat] /\ phase' \in {"views", "write"} /\ result' \in Result
  BY <1>2, <1>3, <1>4, <1>5, ErrorIsAResult DEF Errored
<1>8. TypeOK'  BY <1>1, <1>6, <1>7 DEF Inv, TypeOK
<1>. QED  BY <1>1, <1>6, <1>7, <1>8, InsideACase

LEMMA DeriveViewsInv == ASSUME Inv, DeriveViews PROVE Inv'
<1>1. /\ phase = "views" /\ UNCHANGED <<design, dir, summary, runs, run, todo, timing, results, exit>>
      /\ phase' \in {"rtl", "gate", "write"} /\ result' \in {ErrorResult, result}
  BY DEF DeriveViews, Errored
<1>2. TypeOK'  BY <1>1, ErrorIsAResult DEF Inv, TypeOK
<1>. QED  BY <1>1, <1>2, InsideACase

LEMMA VerdictIsOne == ASSUME NEW code, NEW marker PROVE Verdict(code, marker) \in Verdicts
BY DEF Verdict, Verdicts

\* A result with a verdict in it is a result.
LEMMA Judged == ASSUME NEW r \in Result, NEW v \in Verdicts
                PROVE  /\ [r EXCEPT !.rtl = v] \in Result
                       /\ \A m \in {"slow", "strict"} : [r EXCEPT ![m] = v] \in Result
<1>1. [r EXCEPT !.rtl = v] \in Result  BY DEF Result
<1>2. [r EXCEPT !["slow"] = v] \in Result  BY DEF Result
<1>3. [r EXCEPT !["strict"] = v] \in Result  BY DEF Result
<1>4. ASSUME NEW m \in {"slow", "strict"} PROVE [r EXCEPT ![m] = v] \in Result
  <2>1. CASE m = "slow"  BY <1>2, <2>1
  <2>2. CASE m = "strict"  BY <1>3, <2>2
  <2>. QED  BY <2>1, <2>2
<1>. QED  BY <1>1, <1>4

LEMMA RunRtlInv == ASSUME Inv, RunRtl PROVE Inv'
<1>1. phase = "rtl" /\ UNCHANGED <<design, dir, summary, runs, run, timing, results>>  BY DEF RunRtl
<1>2. result \in Result  BY DEF Inv, TypeOK
<1>3. CASE phase' \in {"gate", "write"} /\ UNCHANGED <<todo, exit>>
  <2>1. result' \in Result
    <3>1. CASE Errored  BY <3>1, ErrorIsAResult DEF Errored
    <3>2. ASSUME NEW code, NEW marker, result' = [result EXCEPT !.rtl = Verdict(code, marker)]
          PROVE  result' \in Result
      BY <1>2, <3>2, VerdictIsOne, Judged
    <3>. QED  BY <1>3, <3>1, <3>2 DEF RunRtl, Gone
  <2>2. TypeOK'  BY <1>1, <1>3, <2>1 DEF Inv, TypeOK
  <2>. QED  BY <1>1, <1>3, <2>2, InsideACase
<1>4. CASE Gone("traceback") /\ UNCHANGED result
  <2>1. TypeOK'  BY <1>1, <1>4 DEF Inv, TypeOK, Gone
  <2>2. phase' = "idle" /\ exit' # "0" /\ runs \in Nat  BY <1>4 DEF Gone, Inv, TypeOK
  <2>. QED  BY <1>1, <2>1, <2>2, AsideFromACase
<1>. QED  BY <1>3, <1>4 DEF RunRtl, Errored

LEMMA RunGateInv == ASSUME Inv, RunGate PROVE Inv'
<1>1. phase = "gate" /\ UNCHANGED <<design, dir, summary, runs, run, todo, timing, results, exit>>
  BY DEF RunGate
<1>2. result \in Result  BY DEF Inv, TypeOK
<1>3. phase' \in {"gate", "write"} /\ result' \in Result
  <2>1. CASE Errored  BY <2>1, ErrorIsAResult DEF Errored
  <2>2. ASSUME NEW m \in {"slow", "strict"}, NEW code, NEW marker,
               result' = [result EXCEPT ![m] = Verdict(code, marker)], phase' \in {"gate", "write"}
        PROVE  phase' \in {"gate", "write"} /\ result' \in Result
    BY <1>2, <2>2, VerdictIsOne, Judged
  <2>. QED  BY <2>1, <2>2 DEF RunGate
<1>4. TypeOK'  BY <1>1, <1>3 DEF Inv, TypeOK
<1>. QED  BY <1>1, <1>3, <1>4, InsideACase

LEMMA CrashInv == ASSUME Inv, Crash \/ Die PROVE Inv'
<1>1. /\ phase' = "idle" /\ todo' = {} /\ exit' \in {"traceback", "killed"}
      /\ UNCHANGED <<design, dir, summary, runs, run, timing, result, results>>
  BY DEF Crash, Die, Gone
<1>2. TypeOK' /\ runs \in Nat  BY <1>1 DEF Inv, TypeOK
<1>. QED  BY <1>1, <1>2, AsideFromACase
-----------------------------------------------------------------------------
\* What is told of a case is a result.
LEMMA ToldIsAResult == ASSUME NEW r \in Result PROVE Told(r) \in Result
BY DEF Told, Result

\* The result at hand goes to the end of the run's results, the case leaves those left,
\* and its directory is the only one that is written.
LEMMA WriteResultInv == ASSUME Inv, WriteResult PROVE Inv'
<1>. DEFINE told == Told(result)
            item == [name |-> c, is |-> told]
<1>1. phase = "write" /\ results' = Append(results, item) /\ UNCHANGED <<design, summary, runs, run, timing, result>>
  BY DEF WriteResult
<1>2. c \in todo /\ c \in Names /\ dir[c] \in Directory /\ exit = "none"  BY <1>1, ACaseIsAtHand
<1>3. told \in Result  BY ToldIsAResult DEF Inv, TypeOK
<1>4. /\ dir \in [Names -> Directory] /\ results \in Seq(CaseResult) /\ todo \in SUBSET Names
      /\ runs \in Nat /\ summary \in [run : Nat, cases : Seq(CaseResult)]
  BY DEF Inv, TypeOK
<1>5. item \in CaseResult  BY <1>2, <1>3 DEF CaseResult
<1>. HIDE DEF item, told
<1>6. /\ results' \in Seq(CaseResult) /\ Len(results') = Len(results) + 1
      /\ results'[Len(results) + 1] = item
      /\ \A i \in 1..Len(results) : results'[i] = results[i]
  BY <1>1, <1>4, <1>5
<1>7. CASE Gone("traceback") /\ UNCHANGED dir
  <2>1. TypeOK'  BY <1>1, <1>6, <1>7 DEF Inv, TypeOK, Gone
  <2>2. phase' = "idle" /\ exit' # "0"  BY <1>7 DEF Gone
  <2>. QED  BY <1>1, <1>4, <1>7, <2>1, <2>2, AsideFromACase
<1>8. CASE /\ dir' = [dir EXCEPT ![c].result = KeptResult(told)]
           /\ todo' = todo \ {c}
           /\ phase' = IF todo = {c} THEN "summary" ELSE "case"
           /\ UNCHANGED exit
  <2>1. dir' = [dir EXCEPT ![c] = [dir[c] EXCEPT !.result = [run |-> runs, is |-> told]]]
    BY <1>8 DEF KeptResult
  <2>2. [dir[c] EXCEPT !.result = [run |-> runs, is |-> told]] \in Directory
        /\ [dir[c] EXCEPT !.result = [run |-> runs, is |-> told]].result = [run |-> runs, is |-> told]
    BY <1>2, <1>3, <1>4 DEF Directory
  <2>3. /\ dir' \in [Names -> Directory] /\ dir'[c].result = [run |-> runs, is |-> told]
        /\ \A n \in Names \ {c} : dir'[n] = dir[n]
    BY <1>2, <1>4, <2>1, <2>2
  <2>4. TypeOK'  BY <1>1, <1>4, <1>6, <1>8, <2>3 DEF Inv, TypeOK
  <2>5. Earlier'  BY <1>1, <1>4, <2>3 DEF Inv, Earlier
  <2>6. /\ run.cases \subseteq Names /\ summary.run < runs
        /\ todo \cup Ran = Chosen /\ todo \cap Ran = {}
        /\ \A i \in 1..Len(results) :
             dir[results[i].name].result = [run |-> runs, is |-> results[i].is]
    BY <1>1 DEF Inv, Underway
  <2>7. \A i \in 1..Len(results) : results[i].name \in Names /\ results[i].name # c
    BY <1>2, <1>4, <2>6, Listed DEF Ran
  <2>8. item.name = c /\ item.is = told  BY DEF item
  <2>9. Ran' = Ran \cup {c}
    <3>1. Len(results) \in Nat  BY <1>4
    <3>2. 1..Len(results') = (1..Len(results)) \cup {Len(results) + 1}  BY <1>6, <3>1
    <3>3. Ran' = {results'[i].name : i \in 1..Len(results')}  BY DEF Ran
    <3>4. Ran' = {results'[i].name : i \in 1..Len(results)} \cup {results'[Len(results) + 1].name}
      BY <3>2, <3>3
    <3>5. {results'[i].name : i \in 1..Len(results)} = {results[i].name : i \in 1..Len(results)}
      BY <1>6
    <3>6. results'[Len(results) + 1].name = c  BY <1>6, <2>8
    <3>7. Ran = {results[i].name : i \in 1..Len(results)}  BY DEF Ran
    <3>. QED  BY <3>4, <3>5, <3>6, <3>7
  <2>10. Chosen' = Chosen  BY <1>1 DEF Chosen
  <2>11. todo' \cup Ran' = Chosen' /\ todo' \cap Ran' = {}  BY <1>2, <1>8, <2>6, <2>9, <2>10
  <2>12. todo' = {} <=> phase' = "summary"  BY <1>2, <1>8
  <2>13. \A i \in 1..Len(results') : dir'[results'[i].name].result = [run |-> runs', is |-> results'[i].is]
    <3>1. ASSUME NEW i \in 1..Len(results) 
          PROVE  dir'[results'[i].name].result = [run |-> runs', is |-> results'[i].is]
      BY <1>1, <1>6, <2>3, <2>6, <2>7
    <3>2. dir'[item.name].result = [run |-> runs', is |-> item.is]  BY <1>1, <2>3, <2>8
    <3>3. Len(results) \in Nat  BY <1>4
    <3>4. 1..Len(results') = (1..Len(results)) \cup {Len(results) + 1}  BY <1>6, <3>3
    <3>5. dir'[results'[Len(results) + 1].name].result = [run |-> runs', is |-> results'[Len(results) + 1].is]
      <4>1. results'[Len(results) + 1] = item  BY <1>6
      <4>. QED  BY <3>2, <4>1
    <3>. QED  BY <3>1, <3>4, <3>5
  <2>14. exit' = "none"  BY <1>2, <1>8
  <2>15. Underway'  BY <1>1, <2>6, <2>11, <2>12, <2>13, <2>14 DEF Underway
  <2>16. SummaryAgrees'
    <3>1. ASSUME NEW i \in 1..Len(summary.cases)
          PROVE  /\ dir'[summary.cases[i].name].result.run >= summary.run
                 /\ dir'[summary.cases[i].name].result.run = summary.run
                      => dir'[summary.cases[i].name].result.is = summary.cases[i].is
      <4>1. summary.cases[i].name \in Names  BY <1>4, Listed
      <4>2. summary.run \in Nat  BY <1>4
      <4>3. CASE summary.cases[i].name = c  BY <1>4, <2>3, <2>6, <4>2, <4>3
      <4>4. CASE summary.cases[i].name # c  BY <2>3, <4>1, <4>4 DEF Inv, SummaryAgrees
      <4>. QED  BY <4>3, <4>4
    <3>. QED  BY <1>1, <3>1 DEF SummaryAgrees
  <2>17. ExitZeroIsEarned'  BY <2>14 DEF ExitZeroIsEarned
  <2>. QED  BY <2>4, <2>5, <2>15, <2>16, <2>17 DEF Inv
<1>. QED  BY <1>7, <1>8 DEF WriteResult, told

\* The run is over: what is summed up is what the directories hold.
LEMMA SummariseInv == ASSUME Inv, Summarise PROVE Inv'
<1>. DEFINE a == Aggregate(results)
<1>1. /\ phase = "summary" /\ phase' = "idle" /\ todo' = {}
      /\ summary' = [run |-> runs, cases |-> results]
      /\ exit' = IF a.execution /\ a.functional /\ (run.strictCounts => a.timing) THEN "0" ELSE "1"
      /\ UNCHANGED <<design, dir, runs, run, timing, result, results>>
  BY DEF Summarise, Gone
<1>2. /\ runs \in Nat /\ results \in Seq(CaseResult) /\ run \in Options
      /\ \A n \in Names : dir[n] \in Directory
  BY DEF Inv, TypeOK
<1>3. /\ run.cases \subseteq Names /\ Ran = Chosen
      /\ \A i \in 1..Len(results) :
           dir[results[i].name].result = [run |-> runs, is |-> results[i].is]
  BY <1>1 DEF Inv, Underway
<1>4. TypeOK'
  <2>1. summary' \in [run : Nat, cases : Seq(CaseResult)]  BY <1>1, <1>2
  <2>2. exit' \in {"0", "1"}  BY <1>1
  <2>. QED  BY <1>1, <2>1, <2>2 DEF Inv, TypeOK
<1>5. Earlier'  BY <1>1, <1>2 DEF Inv, Earlier
<1>6. Underway'  BY <1>1 DEF Underway
<1>7. SummaryAgrees'
  <2>1. summary'.run = runs /\ summary'.cases = results /\ dir' = dir  BY <1>1
  <2>2. ASSUME NEW i \in 1..Len(results)
        PROVE  /\ dir[results[i].name].result.run >= runs
               /\ dir[results[i].name].result.run = runs => dir[results[i].name].result.is = results[i].is
    <3>1. dir[results[i].name].result = [run |-> runs, is |-> results[i].is]  BY <1>3
    <3>2. dir[results[i].name].result.run = runs /\ dir[results[i].name].result.is = results[i].is
      BY <3>1
    <3>3. runs >= runs  BY <1>2
    <3>. QED  BY <3>2, <3>3
  <2>. QED  BY <2>1, <2>2 DEF SummaryAgrees
<1>8. ExitZeroIsEarned'
  <2>. SUFFICES ASSUME exit' = "0", NEW n \in Chosen
                PROVE  LET r == dir[n].result
                       IN  /\ r.run = runs
                           /\ "slow" \in run.modes => r.is.slow = "pass"
                           /\ run.modes = {"strict"} \/ ("strict" \in run.modes /\ run.strictCounts)
                                => r.is.strict = "pass"
                           /\ run.rtl => r.is.rtl = "pass"
    BY <1>1 DEF ExitZeroIsEarned, Chosen
  <2>1. a.functional /\ (run.strictCounts => a.timing)  BY <1>1
  <2>2. PICK i \in 1..Len(results) : results[i].name = n  BY <1>3 DEF Ran
  <2>3. dir[n].result = [run |-> runs, is |-> results[i].is]  BY <1>3, <2>2
  <2>. DEFINE R == {results[j].is : j \in 1..Len(results)}
  <2>4. results[i].is \in R  OBVIOUS
  <2>. HIDE DEF R
  <2>5. Functional(results[i].is)
    <3>1. \A r \in R : Functional(r)  BY <2>1 DEF Aggregate, R
    <3>. QED  BY <2>4, <3>1
  <2>6. run.strictCounts /\ "strict" \in run.modes => results[i].is.strict = "pass"
    <3>1. a.timing => ("strict" \in run.modes => \A r \in R : r.strict = "pass")  BY DEF Aggregate, R
    <3>. QED  BY <2>1, <2>4, <3>1
  <2>7. /\ "slow" \in run.modes => results[i].is.slow = "pass"
        /\ "slow" \notin run.modes => results[i].is.strict = "pass"
        /\ run.rtl => results[i].is.rtl = "pass"
    BY <2>5 DEF Functional
  <2>. QED  BY <2>3, <2>6, <2>7
<1>. QED  BY <1>4, <1>5, <1>6, <1>7, <1>8 DEF Inv
-----------------------------------------------------------------------------
LEMMA NextInv == Inv /\ [Next]_vars => Inv'
<1>. SUFFICES ASSUME Inv, [Next]_vars PROVE Inv'  OBVIOUS
<1>1. CASE UNCHANGED vars
  BY <1>1 DEF vars, Inv, TypeOK, Earlier, Underway, Ran, Chosen, SummaryAgrees, ExitZeroIsEarned
<1>2. CASE Revise  BY <1>2, ReviseInv
<1>3. CASE Invoke  BY <1>3, InvokeInv
<1>4. CASE BeginCase  BY <1>4, BeginCaseInv
<1>5. CASE RunSta  BY <1>5, RunStaInv
<1>6. CASE DeriveViews  BY <1>6, DeriveViewsInv
<1>7. CASE RunRtl  BY <1>7, RunRtlInv
<1>8. CASE RunGate  BY <1>8, RunGateInv
<1>9. CASE WriteResult  BY <1>9, WriteResultInv
<1>10. CASE Summarise  BY <1>10, SummariseInv
<1>11. CASE Crash \/ Die  BY <1>11, CrashInv
<1>. QED
  BY <1>1, <1>2, <1>3, <1>4, <1>5, <1>6, <1>7, <1>8, <1>9, <1>10, <1>11 DEF Next, Main, Record, RunCase

LEMMA InvHolds == Spec => []Inv
BY InitInv, NextInv, PTL DEF Spec

\* Every variable stays in its set, whatever is found, revised or killed.
THEOREM TypeCorrect == Spec => []TypeOK
BY InvHolds, PTL DEF Inv

\* Exit code 0 is earned in the run that gives it, by every case that was asked for:
\* no result of an earlier run, of a refused case or of another mode stands in.
THEOREM ExitZero == Spec => []ExitZeroIsEarned
BY InvHolds, PTL DEF Inv

\* The summary is never ahead of the cases' results, and agrees with those of its run,
\* however many runs died in between.
THEOREM SummaryAndResults == Spec => []SummaryAgrees
BY InvHolds, PTL DEF Inv
=============================================================================
