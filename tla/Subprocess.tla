----------------------------- MODULE Subprocess -----------------------------
(***************************************************************************)
(* How a step runs a tool: Step.run_subprocess (steps/step.py), the output *)
(* processors it hands each line to, the thread that samples the process,  *)
(* and what Step.start and OpenROADStep.run make of the exit code.         *)
(*                                                                         *)
(* Three parties take steps: the tool, which prints into a pipe and exits  *)
(* or is killed; the step's thread, which reads the pipe, joins the        *)
(* sampling thread and waits for the tool; and the sampling thread.  A     *)
(* line is known by its number, so that what ended up where can be told;   *)
(* output[n] is the kind of line n.                                        *)
(***************************************************************************)
EXTENDS Integers, Sequences, FiniteSets

CONSTANTS Report,      \* names in %OL_CREATE_REPORT lines
          Metric,      \* names in %OL_METRIC lines
          NoReport,    \* no report is open
          MaxLines,    \* bound: lines the tool prints
          PipeSize,    \* lines the pipe holds before the tool blocks
          BufferSize   \* lines kept for the error message (10 in the code)

ASSUME SubprocessAssumption ==
  /\ NoReport \notin Report
  /\ MaxLines \in Nat
  /\ PipeSize \in Nat \ {0}
  /\ BufferSize \in Nat \ {0}

Creates == {"create"} \X Report
Measures == {"metric"} \X Metric
Plain == {<<"text">>, <<"error">>, <<"warning">>, <<"end">>}
Breaks == {<<"badMetric">>, <<"notUTF8">>}
Kind == Creates \cup Measures \cup Plain \cup Breaks

\* run_subprocess raises nothing (Ok), or Step.start or the step raises.
Verdict == {"Ok", "StepError", "StepSignalled", "StepException"}

VARIABLES output,    \* the lines the tool printed
          open,      \* the tool's end of the pipe is open
          child,     \* none, running, zombie (exited, not waited for), reaped
          code,      \* its exit code: none, zero, positive, negative (a signal)
          tracker,   \* ProcessStatsThread: none, sampling, done
          pc,        \* where the step is
          listens,   \* OpenROADOutputProcessor comes first
          check,     \* a non-zero exit raises CalledProcessError
          read,      \* lines read
          current,   \* DefaultOutputProcessor.current_rpt
          reports,   \* report -> the lines in its file
          metrics,   \* metric -> the line that set it, 0 if none did
          alerts,    \* OpenROADOutputProcessor.alerts
          ring       \* RingBuffer: its store, head, tail and length

tool == <<output, open, child, code>>
processors == <<current, reports, metrics, alerts>>
options == <<listens, check>>
vars == <<tool, tracker, pc, options, read, processors, ring>>

Ended == Verdict \cup {"notStarted", "broken"}
-----------------------------------------------------------------------------
(* The ring buffer of the last lines (common/ring_buffer.py)               *)

Empty == [store |-> [i \in 0..BufferSize - 1 |-> 0], head |-> 0, tail |-> 0, len |-> 0]

Pop(r) == [r EXCEPT !.head = (@ + 1) % BufferSize, !.len = @ - 1]

Put(r, n) == [r EXCEPT !.store[r.tail] = n, !.tail = (@ + 1) % BufferSize, !.len = @ + 1]

\* Mutant of Push: a full buffer is written over without moving its head.
PushOver(r, n) == IF r.len = BufferSize THEN [Put(r, n) EXCEPT !.len = @ - 1] ELSE Put(r, n)

Push(r, n) == Put(IF r.len = BufferSize THEN Pop(r) ELSE r, n)

\* Iterating over it.
Contents(r) == [i \in 1..r.len |-> r.store[(r.head + i - 1) % BufferSize]]
-----------------------------------------------------------------------------
(* The output processors                                                   *)

\* OpenROADOutputProcessor takes alert lines, and later ones never see them.
Taken(line) == listens /\ line \in {<<"error">>, <<"warning">>}

\* Mutant of InReports: a report that is created again is appended to.
AppendReports(line, n) ==
  IF current # NoReport /\ ~Taken(line) /\ line \in Plain \ {<<"end">>}
  THEN [reports EXCEPT ![current] = Append(@, n)]
  ELSE reports

\* The report files after line n: opening one truncates it.
InReports(line, n) ==
  CASE line \in Creates -> [reports EXCEPT ![line[2]] = <<>>]
    [] current # NoReport /\ ~Taken(line) /\ line \in Plain \ {<<"end">>} ->
         [reports EXCEPT ![current] = Append(@, n)]
    [] OTHER -> reports

CurrentReport(line) == CASE line \in Creates -> line[2]
                         [] line = <<"end">> -> NoReport
                         [] OTHER -> current

ProcessLine(line, n) ==
  /\ alerts' = IF Taken(line) THEN Append(alerts, n) ELSE alerts
  /\ metrics' = IF line \in Measures THEN [metrics EXCEPT ![line[2]] = n] ELSE metrics
  /\ reports' = InReports(line, n)
  /\ current' = CurrentReport(line)
-----------------------------------------------------------------------------
(* The tool                                                                *)

HasRoom == Len(output) - read < PipeSize

Write(line) == /\ child = "running" /\ open
               /\ HasRoom
               /\ Len(output) < MaxLines
               /\ output' = Append(output, line)
               /\ UNCHANGED <<open, child, code, tracker, pc, options, read, processors, ring>>

\* It may close its output long before it exits.
CloseOutput == /\ child = "running" /\ open
               /\ open' = FALSE
               /\ UNCHANGED <<output, child, code, tracker, pc, options, read, processors, ring>>

\* It exits or is killed, and stays a zombie until it is waited for.
Exit(status) == /\ child = "running"
                /\ child' = "zombie"
                /\ code' = status
                /\ open' = FALSE
                /\ UNCHANGED <<output, tracker, pc, options, read, processors, ring>>
-----------------------------------------------------------------------------
(* The sampling thread                                                     *)

\* It stops at a zombie, or earlier when psutil raises an error.  What it
\* measures is left out.
TrackerStops == /\ tracker = "sampling"
                /\ child # "running"
                /\ tracker' = "done"
                /\ UNCHANGED <<tool, pc, options, read, processors, ring>>

TrackerFails == /\ tracker = "sampling"
                /\ tracker' = "done"
                /\ UNCHANGED <<tool, pc, options, read, processors, ring>>
-----------------------------------------------------------------------------
(* The step                                                                *)

Init ==
  /\ output = <<>> /\ open = FALSE
  /\ child = "none" /\ code = "none"
  /\ tracker = "none"
  /\ pc = "idle"
  /\ listens \in BOOLEAN /\ check \in BOOLEAN /\ (listens \/ check)
  /\ read = 0
  /\ current = NoReport
  /\ reports = [r \in Report |-> <<>>]
  /\ metrics = [m \in Metric |-> 0]
  /\ alerts = <<>>
  /\ ring = Empty

Launch == /\ pc = "idle"
          /\ pc' = "reading"
          /\ child' = "running" /\ open' = TRUE
          /\ tracker' = "sampling"
          /\ UNCHANGED <<output, code, options, read, processors, ring>>

\* A value in the environment that is no string, or a program that is not there.
LaunchFails == /\ pc = "idle"
               /\ pc' = "notStarted"
               /\ UNCHANGED <<tool, tracker, options, read, processors, ring>>

Receive == /\ read' = read + 1
           /\ ring' = Push(ring, read + 1)

\* Mutant of ReadLine: the step waits for the tool before it reads its output.
ReadAfterExit == LET line == output[read + 1]
                 IN  /\ pc = "reading" /\ child # "running"
                     /\ read < Len(output)
                     /\ line \notin Breaks
                     /\ Receive
                     /\ ProcessLine(line, read + 1)
                     /\ UNCHANGED <<tool, tracker, pc, options>>

\* A line goes to the log, to the ring buffer and to the processors.
ReadLine == LET line == output[read + 1]
            IN  /\ pc = "reading"
                /\ read < Len(output)
                /\ line \notin Breaks
                /\ Receive
                /\ ProcessLine(line, read + 1)
                /\ UNCHANGED <<tool, tracker, pc, options>>

\* A metric whose value is no number, or that has more fields than three.
ReadBadMetric == /\ pc = "reading"
                 /\ read < Len(output)
                 /\ output[read + 1] = <<"badMetric">>
                 /\ Receive
                 /\ pc' = "broken"
                 /\ UNCHANGED <<tool, tracker, options, processors>>

\* The pipe is decoded a chunk at a time: a byte that is not UTF-8 may take
\* lines before it along.
ReadNotUTF8 == /\ pc = "reading"
               /\ \E n \in read + 1..Len(output) : output[n] = <<"notUTF8">>
               /\ pc' = "broken"
               /\ UNCHANGED <<tool, tracker, options, read, processors, ring>>

EndOfOutput == /\ pc = "reading"
               /\ ~open /\ read = Len(output)
               /\ pc' = "joining"
               /\ UNCHANGED <<tool, tracker, options, read, processors, ring>>

\* Mutant of Join: the step does not wait for the sampling thread.
GoOn == /\ pc = "joining"
        /\ pc' = "waiting"
        /\ UNCHANGED <<tool, tracker, options, read, processors, ring>>

Join == /\ pc = "joining"
        /\ tracker = "done"
        /\ pc' = "waiting"
        /\ UNCHANGED <<tool, tracker, options, read, processors, ring>>

HasErrors == \E i \in 1..Len(alerts) : output[alerts[i]] = <<"error">>

\* Mutant of VerdictOf: the alerts alone decide where the code is not checked.
VerdictOfAlerts == CASE check /\ code = "positive" -> "StepError"
                     [] check /\ code = "negative" -> "StepSignalled"
                     [] ~check /\ HasErrors -> "StepError"
                     [] OTHER -> "Ok"

\* Step.start's reading of CalledProcessError, and OpenROADStep.run's of an
\* exit code that was not checked.
VerdictOf == CASE code = "zero" -> "Ok"
               [] check /\ code = "positive" -> "StepError"
               [] check /\ code = "negative" -> "StepSignalled"
               [] ~check /\ code # "zero" /\ HasErrors -> "StepError"
               [] OTHER -> "StepException"

Wait == /\ pc = "waiting"
        /\ child = "zombie"
        /\ child' = "reaped"
        /\ pc' = VerdictOf
        /\ UNCHANGED <<output, open, code, tracker, options, read, processors, ring>>

Step == \/ Launch \/ LaunchFails
        \/ ReadLine \/ ReadBadMetric \/ ReadNotUTF8 \/ EndOfOutput
        \/ Join \/ Wait

Next == \/ Step
        \/ TrackerStops \/ TrackerFails
        \/ CloseOutput
        \/ \E line \in Kind : Write(line)
        \/ \E status \in {"zero", "positive", "negative"} : Exit(status)

\* The step's threads are scheduled.  A tool that has room in the pipe exits
\* some day; one that is blocked in a write need not.
Fairness ==
  /\ WF_vars(Step)
  /\ WF_vars(TrackerStops)
  /\ WF_vars(HasRoom /\ \E status \in {"zero", "positive", "negative"} : Exit(status))

Spec == Init /\ [][Next]_vars

FairSpec == Spec /\ Fairness
-----------------------------------------------------------------------------
(* Properties                                                              *)

Ring == [store : [0..BufferSize - 1 -> Nat], head : 0..BufferSize - 1,
         tail : 0..BufferSize - 1, len : 0..BufferSize]

\* Every variable keeps its type.
TypeOK == /\ output \in Seq(Kind) /\ open \in BOOLEAN
          /\ child \in {"none", "running", "zombie", "reaped"}
          /\ code \in {"none", "zero", "positive", "negative"}
          /\ tracker \in {"none", "sampling", "done"}
          /\ pc \in {"idle", "reading", "joining", "waiting"} \cup Ended
          /\ listens \in BOOLEAN /\ check \in BOOLEAN
          /\ read \in 0..Len(output)
          /\ current \in Report \cup {NoReport}
          /\ reports \in [Report -> Seq(Nat)]
          /\ metrics \in [Metric -> Nat]
          /\ alerts \in Seq(Nat)
          /\ ring \in Ring

\* What should be in report r once the first m lines are read, said without
\* following the processors: every line printed between the last line that
\* creates r and the next line that ends it or creates another, except
\* the lines that are metrics or that OpenROADOutputProcessor took.
BelongsTo(n, r, m) ==
  \E c \in 1..n - 1 :
    /\ output[c] = <<"create", r>>
    /\ \A k \in c + 1..m : output[k] # <<"create", r>>
    /\ \A k \in c + 1..n - 1 : output[k] \notin Creates \cup {<<"end">>}
    /\ output[n] \in Plain \ {<<"end">>} /\ ~Taken(output[n])

Ascending(s) == \A i, j \in 1..Len(s) : i < j => s[i] < s[j]

Lines(s) == {s[i] : i \in 1..Len(s)}

\* Whatever the tool and the pipe do, the reports, the metrics and the alerts
\* are those of the lines read so far, each line once and in order; and a step
\* that gets its results read everything the tool printed.
ResultReflectsOutput ==
  /\ pc # "broken" =>
       /\ \A r \in Report : /\ Ascending(reports[r])
                            /\ Lines(reports[r]) = {n \in 1..read : BelongsTo(n, r, read)}
       /\ \A m \in Metric : LET sets == {n \in 1..read : output[n] = <<"metric", m>>}
                            IN  IF sets = {} THEN metrics[m] = 0
                                ELSE metrics[m] \in sets /\ \A n \in sets : n <= metrics[m]
       /\ Ascending(alerts) /\ Lines(alerts) = {n \in 1..read : Taken(output[n])}
  /\ pc \in Verdict => read = Len(output)

\* The lines shown when a tool fails are the last ones it printed, in order.
TailIsLast ==
  LET size == IF read < BufferSize THEN read ELSE BufferSize
  IN  Contents(ring) = [i \in 1..size |-> read - size + i]

\* The process is waited for only after its sampling thread ended (it could
\* sample a process that has taken over the number), and a step that ends in
\* a verdict leaves neither behind.
NothingLeftRunning ==
  /\ child = "reaped" => tracker = "done"
  /\ pc \in Verdict => child = "reaped"

\* The verdict tells why: a step succeeds exactly if its tool exited with zero;
\* where the exit code is checked, a signal is told from a failure; and where it
\* is not, a failure that the tool explained, in any line of its output, is told
\* from one that it did not.
VerdictTellsWhy ==
  pc \in Verdict =>
    /\ pc = "Ok" <=> code = "zero"
    /\ check => (pc = "StepSignalled" <=> code = "negative")
    /\ ~check => (pc = "StepError" <=> /\ code # "zero"
                                       /\ \E n \in 1..Len(output) : output[n] = <<"error">>)

\* The tool, the step and the sampling thread never wait for each other for
\* good: every run ends with nothing left running, unless a line broke the
\* reader, which then leaves the tool and the sampling thread to themselves.
Ends == <>(pc \in Ended /\ (pc # "broken" => tracker # "sampling" /\ child # "running"))

=============================================================================
