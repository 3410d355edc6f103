---------------------------- MODULE ToolsProofs ----------------------------
(***************************************************************************)
(* Running a tool, and many of them: how a step runs one, for every pipe,  *)
(* ring buffer and set of reports, however much the tool prints; and that  *)
(* the metrics of a multi-corner analysis are those of the corners, on any *)
(* number of corners and threads and whichever analysis ends first, and    *)
(* the timing checker judges every corner it selects, for any slacks and   *)
(* wildcards.                                                              *)
(***************************************************************************)
EXTENDS Subprocess, TimingCheck, FiniteSetTheorems, WellFoundedInduction, TLAPS

-----------------------------------------------------------------------------
(* One tool.                                                               *)

\* The remainder of a sum is the one its parts say it is.
LEMMA ModOf ==
  ASSUME NEW b \in Nat \ {0}, NEW q \in Nat, NEW r \in 0..b - 1, NEW a \in Nat, a = b * q + r
  PROVE  a % b = r
<1> DEFINE p == a \div b
           s == a % b
<1>1. p \in Nat /\ s \in 0..b - 1 /\ a = b * p + s
  BY SMT
<1> HIDE DEF p, s
<1>2. b * (q - p) = s - r
  BY <1>1, SMT
<1>3. CASE q - p >= 1
  BY <1>1, <1>2, <1>3, SMT
<1>4. CASE p - q >= 1
  <2>1. b * (p - q) = r - s
    BY <1>1, SMT
  <2>2. QED
    BY <1>1, <2>1, <1>4, SMT
<1>5. CASE q = p
  BY <1>1, <1>2, <1>5, SMT DEF s
<1>6. QED
  BY <1>1, <1>3, <1>4, <1>5, SMT

\* A remainder may be taken before an addition.
LEMMA ModAdd ==
  ASSUME NEW b \in Nat \ {0}, NEW x \in Nat, NEW y \in Nat
  PROVE  ((x % b) + y) % b = (x + y) % b
<1> DEFINE q == x \div b
           s == x % b
           p == (s + y) \div b
           t == (s + y) % b
<1>1. q \in Nat /\ s \in 0..b - 1 /\ x = b * q + s
  BY SMT
<1> HIDE DEF q, s
<1>2. p \in Nat /\ t \in 0..b - 1 /\ s + y = b * p + t
  BY <1>1, SMT
<1> HIDE DEF p, t
<1>3. x + y = b * (q + p) + t /\ q + p \in Nat /\ x + y \in Nat
  BY <1>1, <1>2, SMT
<1> HIDE DEF q, s, p, t
<1>4. (x + y) % b = t
  <2>1. \A c \in Nat, a \in Nat : a = b * c + t => a % b = t
    BY <1>2, ModOf
  <2>2. QED
    BY <1>3, <2>1, Zenon
<1>5. QED
  BY <1>4 DEF s, t

\* Numbers less than b apart have different remainders.
LEMMA ModDistinct ==
  ASSUME NEW b \in Nat \ {0}, NEW x \in Nat, NEW y \in Nat, x < y, y < x + b
  PROVE  x % b # y % b
<1> DEFINE q == x \div b
           p == y \div b
           s == x % b
           t == y % b
<1>1. q \in Nat /\ s \in 0..b - 1 /\ x = b * q + s
  BY SMT
<1>2. p \in Nat /\ t \in 0..b - 1 /\ y = b * p + t
  BY SMT
<1> HIDE DEF q, p, s, t
<1> SUFFICES ASSUME s = t PROVE FALSE
  BY DEF s, t
<1>3. y - x = b * (p - q)
  BY <1>1, <1>2, SMT
<1>4. CASE p - q <= 0
  BY <1>1, <1>2, <1>3, <1>4, SMT
<1>5. CASE p - q >= 1
  BY <1>1, <1>2, <1>3, <1>5, SMT
<1>6. QED
  BY <1>1, <1>2, <1>4, <1>5, SMT
-----------------------------------------------------------------------------
(* The ring buffer                                                         *)

Size(n) == IF n < BufferSize THEN n ELSE BufferSize

\* The ring buffer after n lines.
Holds(r, n) ==
  /\ r \in Ring
  /\ r.len = Size(n)
  /\ r.head = (n - Size(n)) % BufferSize
  /\ r.tail = n % BufferSize
  /\ \A m \in n - Size(n) + 1..n : r.store[(m - 1) % BufferSize] = m

\* A new buffer holds no line.
LEMMA EmptyHolds == Holds(Empty, 0)
<1> USE SubprocessAssumption
<1>1. 0 % BufferSize = 0
  BY SMT
<1>2. Size(0) = 0
  BY DEF Size
<1>3. Empty \in Ring
  BY DEF Empty, Ring
<1>4. Empty.len = 0 /\ Empty.head = 0 /\ Empty.tail = 0
  BY DEF Empty
<1>5. QED
  BY <1>1, <1>2, <1>3, <1>4 DEF Holds

\* Pushing the next line keeps the last BufferSize lines, at the places where
\* the buffer's head and tail say they are.
LEMMA PushHolds ==
  ASSUME NEW n \in Nat, NEW r, Holds(r, n), NEW pushed, pushed = Push(r, n + 1)
  PROVE  Holds(pushed, n + 1)
<1> USE SubprocessAssumption
<1> DEFINE B == BufferSize
           kept == IF r.len = B THEN Pop(r) ELSE r
<1>1. /\ B \in Nat \ {0} /\ Size(n) \in 0..B /\ Size(n) <= n
      /\ Size(n + 1) = IF Size(n) = B THEN B ELSE Size(n) + 1
  BY DEF Size
<1>2. r \in Ring /\ r.len = Size(n) /\ r.head = (n - Size(n)) % B /\ r.tail = n % B
  BY DEF Holds
<1>3. \A x \in Nat : x % B \in 0..B - 1
  BY <1>1, SMT
<1>4. \A x \in Nat : ((x % B) + 1) % B = (x + 1) % B
  BY <1>1, ModAdd
<1>5. /\ kept \in Ring /\ kept.store = r.store /\ kept.tail = n % B
      /\ kept.len = Size(n + 1) - 1 /\ kept.head = ((n + 1) - Size(n + 1)) % B
  <2>1. CASE r.len = B
    <3>1. kept = [store |-> r.store, head |-> (r.head + 1) % B,
                  tail |-> r.tail, len |-> r.len - 1]
      BY <2>1, <1>2 DEF Pop, Ring
    <3>2. (r.head + 1) % B = (n - Size(n) + 1) % B
      BY <1>1, <1>2, <1>4
    <3>3. (r.head + 1) % B \in 0..B - 1
      BY <1>1, <1>3, <3>2
    <3>4. Size(n + 1) = B /\ r.len - 1 \in 0..B /\ n - Size(n) + 1 = (n + 1) - Size(n + 1)
      BY <2>1, <1>1, <1>2
    <3>5. r.store \in [0..B - 1 -> Nat] /\ r.tail \in 0..B - 1
      BY <1>2 DEF Ring
    <3>6. kept \in Ring
      BY <3>1, <3>2, <3>3, <3>4, <3>5 DEF Ring
    <3>7. kept.store = r.store /\ kept.tail = r.tail
      BY <3>1
    <3>8. kept.len = r.len - 1 /\ kept.head = (r.head + 1) % B
      BY <3>1
    <3>9. r.len - 1 = Size(n + 1) - 1
      BY <2>1, <3>4
    <3>10. QED
      BY <3>2, <3>4, <3>6, <3>7, <3>8, <3>9, <1>2, Zenon
  <2>2. CASE r.len # B
    BY <2>2, <1>1, <1>2
  <2>3. QED
    BY <2>1, <2>2
<1>6. pushed = [store |-> [kept.store EXCEPT ![kept.tail] = n + 1], head |-> kept.head,
               tail |-> (kept.tail + 1) % B, len |-> kept.len + 1]
  BY <1>5 DEF Push, Put, Ring
<1> HIDE DEF kept
<1>7. (kept.tail + 1) % B = (n + 1) % B /\ (n + 1) % B \in 0..B - 1
  <2>1. n + 1 \in Nat
    OBVIOUS
  <2>2. QED
    BY <2>1, <1>3, <1>4, <1>5
<1>8. /\ pushed \in Ring
      /\ pushed.len = Size(n + 1)
      /\ pushed.head = ((n + 1) - Size(n + 1)) % B
      /\ pushed.tail = (n + 1) % B
      /\ pushed.store = [r.store EXCEPT ![n % B] = n + 1]
  <2>1. /\ pushed.store = [r.store EXCEPT ![n % B] = n + 1]
        /\ pushed.head = kept.head
        /\ pushed.tail = (n + 1) % B
        /\ pushed.len = kept.len + 1
    BY <1>5, <1>6, <1>7
  <2>2. pushed.len = Size(n + 1) /\ Size(n + 1) \in 0..B
    BY <2>1, <1>1, <1>5
  <2>3. [r.store EXCEPT ![n % B] = n + 1] \in [0..B - 1 -> Nat]
    BY <1>2 DEF Ring
  <2>4. kept.head \in 0..B - 1
    BY <1>5 DEF Ring
  <2>5. pushed \in Ring
    BY <1>5, <1>6, <1>7, <2>1, <2>2, <2>3, <2>4 DEF Ring
  <2>6. QED
    BY <2>1, <2>2, <2>5, <1>5
<1>9. ASSUME NEW m \in (n + 1) - Size(n + 1) + 1..n + 1
      PROVE  pushed.store[(m - 1) % B] = m
  <2>1. m - 1 \in Nat /\ (m - 1) % B \in 0..B - 1 /\ n % B \in 0..B - 1
    BY <1>1, <1>3
  <2>2. r.store \in [0..B - 1 -> Nat]
    BY <1>2 DEF Ring
  <2>3. CASE m = n + 1
    BY <2>1, <2>2, <2>3, <1>8
  <2>4. CASE m # n + 1
    <3>1. m \in n - Size(n) + 1..n /\ m - 1 < n /\ n < m - 1 + B
      BY <2>4, <1>1
    <3>2. (m - 1) % B # n % B
      BY <3>1, <2>1, <1>1, ModDistinct
    <3>3. r.store[(m - 1) % B] = m
      BY <3>1 DEF Holds
    <3>4. QED
      BY <2>1, <2>2, <3>2, <3>3, <1>8
  <2>5. QED
    BY <2>3, <2>4
<1>10. QED
  <2>1. \A m \in (n + 1) - Size(n + 1) + 1..n + 1 : pushed.store[(m - 1) % B] = m
    BY <1>9
  <2>2. QED
    BY <1>8, <2>1, Zenon DEF Holds

\* What a buffer gives back is the last lines, oldest first.
LEMMA HoldsLast ==
  ASSUME NEW n \in Nat, NEW r, Holds(r, n)
  PROVE  Contents(r) = [i \in 1..Size(n) |-> n - Size(n) + i]
<1> USE SubprocessAssumption
<1>1. BufferSize \in Nat \ {0} /\ Size(n) \in 0..BufferSize /\ Size(n) <= n
  BY DEF Size
<1>2. r.len = Size(n) /\ r.head = (n - Size(n)) % BufferSize
  BY DEF Holds
<1>3. ASSUME NEW i \in 1..Size(n)
      PROVE  r.store[(r.head + i - 1) % BufferSize] = n - Size(n) + i
  <2>1. n - Size(n) \in Nat /\ i - 1 \in Nat
    BY <1>1
  <2>2. (r.head + (i - 1)) % BufferSize = ((n - Size(n)) + (i - 1)) % BufferSize
    <3>1. \A x \in Nat, y \in Nat : ((x % BufferSize) + y) % BufferSize = (x + y) % BufferSize
      BY <1>1, ModAdd
    <3>2. (((n - Size(n)) % BufferSize) + (i - 1)) % BufferSize
            = ((n - Size(n)) + (i - 1)) % BufferSize
      BY <2>1, <3>1, Zenon
    <3>3. QED
      BY <1>2, <3>2
  <2>3. (n - Size(n)) + (i - 1) = (n - Size(n) + i) - 1
    BY <2>1
  <2>4. n - Size(n) + i \in n - Size(n) + 1..n
    BY <1>1
  <2>5. \A m \in n - Size(n) + 1..n : r.store[(m - 1) % BufferSize] = m
    BY DEF Holds
  <2>6. r.store[((n - Size(n) + i) - 1) % BufferSize] = n - Size(n) + i
    BY <2>4, <2>5, Zenon
  <2>7. QED
    BY <2>2, <2>3, <2>6, Zenon
<1>4. QED
  BY <1>2, <1>3 DEF Contents
-----------------------------------------------------------------------------
(* The step, the tool and the sampling thread                              *)

\* Where each of the three is, seen from the others.
InStep ==
  /\ child = "none" <=> pc \in {"idle", "notStarted"}
  /\ child = "none" <=> tracker = "none"
  /\ child = "reaped" <=> pc \in Verdict
  /\ pc = "waiting" \/ child = "reaped" => tracker = "done"
  /\ code = "none" <=> child \in {"none", "running"}

\* The alerts are the alert lines of what was read, and everything was read
\* before the step turns to the sampling thread.
AlertsRead ==
  /\ listens \/ check
  /\ open => child = "running"
  /\ pc \in {"joining", "waiting"} \cup Verdict => ~open /\ read = Len(output)
  /\ \A i \in 1..Len(alerts) : alerts[i] \in 1..read /\ Taken(output[alerts[i]])
  /\ \A n \in 1..read : Taken(output[n]) => \E i \in 1..Len(alerts) : alerts[i] = n

\* Report r is open after line m: its last creating line is the last line that
\* creates or ends any.
OpenAfter(r, m) ==
  \E c \in 1..m : /\ output[c] = <<"create", r>>
                  /\ \A k \in c + 1..m : output[k] \notin Creates \cup {<<"end">>}

\* The open report is the one the lines read left open, and each report holds
\* what those lines put there.
ReportsRead ==
  \A r \in Report : /\ current = r => OpenAfter(r, read)
                    /\ OpenAfter(r, read) => current = r
                    /\ Ascending(reports[r])
                    /\ Lines(reports[r]) = {n \in 1..read : BelongsTo(n, r, read)}

\* metrics[m] is the last line that sets metric m, 0 if none does.
MetricsRead ==
  \A m \in Metric :
    /\ metrics[m] \in 0..read
    /\ metrics[m] # 0 => output[metrics[m]] = <<"metric", m>>
    /\ \A n \in 1..read : output[n] = <<"metric", m>> => n <= metrics[m]

\* What the processors made of the lines read, until one of them fails.
Filed == pc # "broken" => ReportsRead /\ MetricsRead /\ Ascending(alerts)

Inv == TypeOK /\ InStep /\ AlertsRead /\ VerdictTellsWhy /\ Holds(ring, read) /\ Filed

\* Nothing is started, nothing is read.
LEMMA InitInv == Init => Inv
<1> SUFFICES ASSUME Init PROVE Inv
  OBVIOUS
<1>1. Holds(ring, read)
  BY EmptyHolds DEF Init
<1>2. TypeOK
  <2>1. ring \in Ring
    BY <1>1 DEF Holds
  <2>2. output \in Seq(Kind) /\ Len(output) = 0 /\ alerts \in Seq(Nat)
    BY DEF Init
  <2>3. reports \in [Report -> Seq(Nat)] /\ metrics \in [Metric -> Nat]
    <3>1. <<>> \in Seq(Nat)
      OBVIOUS
    <3>2. QED
      BY <3>1 DEF Init
  <2>4. QED
    <3>1. read \in 0..Len(output)
      BY <2>2 DEF Init
    <3>2. /\ open \in BOOLEAN /\ child = "none" /\ code = "none" /\ tracker = "none"
          /\ pc = "idle" /\ listens \in BOOLEAN /\ check \in BOOLEAN /\ current = NoReport
      BY DEF Init
    <3>3. QED
      BY <2>1, <2>2, <2>3, <3>1, <3>2 DEF TypeOK
<1>3. InStep /\ AlertsRead /\ VerdictTellsWhy
  BY DEF Init, InStep, AlertsRead, VerdictTellsWhy, Verdict
<1>4. Filed
  <2>1. read = 0 /\ 1..read = {} /\ current = NoReport /\ NoReport \notin Report
    BY SubprocessAssumption DEF Init
  <2>2. ASSUME NEW r \in Report
        PROVE  reports[r] = <<>> /\ Ascending(<<>>) /\ Lines(<<>>) = {}
    BY DEF Init, Ascending, Lines
  <2>3. ReportsRead
    BY <2>1, <2>2 DEF ReportsRead, OpenAfter
  <2>4. MetricsRead /\ Ascending(alerts)
    BY <2>1 DEF Init, MetricsRead, Ascending
  <2>5. QED
    BY <2>3, <2>4 DEF Filed
<1>5. QED
  BY <1>1, <1>2, <1>3, <1>4 DEF Inv

\* A line that is read keeps the types of what the processors made of it.
LEMMA ProcessType ==
  ASSUME TypeOK, NEW line \in Kind, NEW n \in Nat, ProcessLine(line, n)
  PROVE  /\ current' \in Report \cup {NoReport}
         /\ reports' \in [Report -> Seq(Nat)]
         /\ metrics' \in [Metric -> Nat]
         /\ alerts' \in Seq(Nat)
<1> USE DEF TypeOK
<1>1. line \in Creates => line[2] \in Report
  BY DEF Creates
<1>2. line \in Measures => line[2] \in Metric
  BY DEF Measures
<1>3. current' \in Report \cup {NoReport}
  BY <1>1 DEF ProcessLine, CurrentReport
<1>4. reports' \in [Report -> Seq(Nat)]
  <2>1. current # NoReport => Append(reports[current], n) \in Seq(Nat)
    OBVIOUS
  <2>2. <<>> \in Seq(Nat)
    OBVIOUS
  <2>3. QED
    BY <1>1, <2>1, <2>2 DEF ProcessLine, InReports
<1>5. metrics' \in [Metric -> Nat]
  BY <1>2 DEF ProcessLine
<1>6. alerts' \in Seq(Nat)
  BY DEF ProcessLine
<1>7. QED
  BY <1>3, <1>4, <1>5, <1>6

\* Every step keeps every variable's type, and the ring buffer that of the
\* last lines read.
LEMMA TypeNext ==
  ASSUME Inv, [Next]_vars
  PROVE  TypeOK' /\ Holds(ring, read)'
<1>1. TypeOK /\ Holds(ring, read) /\ read \in Nat /\ Len(output) \in Nat /\ output \in Seq(Kind)
  BY DEF Inv, TypeOK
<1>2. ASSUME Receive, read < Len(output)
      PROVE  read' \in 0..Len(output) /\ ring' \in Ring /\ Holds(ring, read)'
  <2>1. read' = read + 1 /\ ring' = Push(ring, read + 1)
    BY <1>2 DEF Receive
  <2>2. Holds(Push(ring, read + 1), read + 1)
    BY <1>1, PushHolds
  <2>3. Holds(ring, read)'
    BY <2>1, <2>2 DEF Holds
  <2>4. QED
    BY <1>1, <1>2, <2>1, <2>3 DEF Holds
<1>3. CASE Launch \/ LaunchFails
  BY <1>1, <1>3 DEF Launch, LaunchFails, TypeOK, Ended, Holds, tool, options, processors
<1>4. CASE ReadLine
  <2>1. read + 1 \in 1..Len(output) /\ output[read + 1] \in Kind
    BY <1>1, <1>4 DEF ReadLine
  <2>2. ProcessLine(output[read + 1], read + 1) /\ Receive /\ read < Len(output)
    BY <1>4 DEF ReadLine
  <2>3. /\ current' \in Report \cup {NoReport} /\ reports' \in [Report -> Seq(Nat)]
        /\ metrics' \in [Metric -> Nat] /\ alerts' \in Seq(Nat)
    BY <1>1, <2>1, <2>2, ProcessType
  <2>4. read' \in 0..Len(output) /\ ring' \in Ring /\ Holds(ring, read)'
    BY <1>2, <2>2
  <2>5. QED
    BY <1>1, <1>4, <2>3, <2>4 DEF ReadLine, TypeOK, tool, options
<1>5. CASE ReadBadMetric
  <2>1. read' \in 0..Len(output) /\ ring' \in Ring /\ Holds(ring, read)'
    BY <1>2, <1>5 DEF ReadBadMetric
  <2>2. QED
    BY <1>1, <1>5, <2>1 DEF ReadBadMetric, TypeOK, tool, options, processors, Ended
<1>6. CASE ReadNotUTF8 \/ EndOfOutput \/ Join
  BY <1>1, <1>6 DEF ReadNotUTF8, EndOfOutput, Join, TypeOK, Ended, Holds, tool, options, processors
<1>7. CASE Wait
  <2>1. VerdictOf \in Verdict
    BY DEF VerdictOf, Verdict
  <2>2. QED
    BY <1>1, <1>7, <2>1 DEF Wait, TypeOK, Ended, Holds, options, processors
<1>8. CASE TrackerStops \/ TrackerFails \/ CloseOutput
  BY <1>1, <1>8 DEF TrackerStops, TrackerFails, CloseOutput, TypeOK, Holds, tool, options, processors
<1>9. ASSUME NEW line \in Kind, Write(line) PROVE TypeOK' /\ Holds(ring, read)'
  <2>1. output' \in Seq(Kind) /\ Len(output') = Len(output) + 1
    BY <1>1, <1>9 DEF Write
  <2>2. read \in 0..Len(output)
    BY <1>1 DEF TypeOK
  <2>3. read' \in 0..Len(output')
    BY <1>1, <1>9, <2>1, <2>2 DEF Write
  <2>4. QED
    BY <1>1, <1>9, <2>1, <2>3 DEF Write, TypeOK, Holds, options, processors
<1>10. ASSUME NEW status \in {"zero", "positive", "negative"}, Exit(status)
       PROVE  TypeOK' /\ Holds(ring, read)'
  BY <1>1, <1>10 DEF Exit, TypeOK, Holds, options, processors
<1>11. CASE UNCHANGED vars
  BY <1>1, <1>11 DEF vars, TypeOK, Holds, tool, options, processors
<1>12. QED
  BY <1>3, <1>4, <1>5, <1>6, <1>7, <1>8, <1>9, <1>10, <1>11 DEF Next, Step

\* Lines are read in order, and each alert is kept; the tool's further output
\* changes nothing that was read.
LEMMA AlertsNext ==
  ASSUME Inv, [Next]_vars
  PROVE  AlertsRead'
<1> USE DEF Verdict, tool, options, processors, Taken
<1>1. /\ AlertsRead /\ InStep
      /\ alerts \in Seq(Nat) /\ output \in Seq(Kind) /\ read \in 0..Len(output)
  BY DEF Inv, TypeOK
<1>2. ASSUME UNCHANGED <<output, read, alerts, listens, check>>,
             open' => child' = "running",
             pc' \in {"joining", "waiting"} \cup Verdict => ~open' /\ read = Len(output)
      PROVE  AlertsRead'
  BY <1>1, <1>2 DEF AlertsRead
<1>3. CASE Launch \/ LaunchFails
  BY <1>1, <1>2, <1>3 DEF Launch, LaunchFails, AlertsRead, InStep
<1>4. CASE ReadLine
  <2> DEFINE n == read + 1
  <2>1. /\ pc = "reading" /\ n \in 1..Len(output) /\ read' = n
        /\ alerts' = IF Taken(output[n]) THEN Append(alerts, n) ELSE alerts
        /\ UNCHANGED <<output, open, child, pc, listens, check>>
    BY <1>1, <1>4 DEF ReadLine, Receive, ProcessLine
  <2>2. ASSUME NEW i \in 1..Len(alerts')
        PROVE  alerts'[i] \in 1..n /\ Taken(output[alerts'[i]])
    BY <1>1, <2>1 DEF AlertsRead
  <2>3. ASSUME NEW k \in 1..n, Taken(output[k])
        PROVE  \E i \in 1..Len(alerts') : alerts'[i] = k
    <3>1. CASE k = n
      <4>1. alerts' = Append(alerts, n)
        BY <2>1, <2>3, <3>1
      <4>2. Len(alerts') = Len(alerts) + 1 /\ alerts'[Len(alerts) + 1] = n
        BY <1>1, <4>1
      <4>3. QED
        BY <1>1, <3>1, <4>2
    <3>2. CASE k # n
      <4>1. k \in 1..read
        BY <1>1, <3>2
      <4>2. PICK i \in 1..Len(alerts) : alerts[i] = k
        BY <2>3, <4>1, <1>1 DEF AlertsRead
      <4>3. i \in 1..Len(alerts') /\ alerts'[i] = k
        BY <1>1, <2>1, <4>2
      <4>4. QED
        BY <4>3
    <3>3. QED
      BY <3>1, <3>2
  <2>4. QED
    BY <1>1, <2>1, <2>2, <2>3 DEF AlertsRead
<1>5. CASE ReadBadMetric
  <2>1. /\ read' = read + 1 /\ output[read + 1] = <<"badMetric">> /\ pc' = "broken"
        /\ read < Len(output) /\ UNCHANGED <<output, open, child, alerts, listens, check>>
    BY <1>5 DEF ReadBadMetric, Receive
  <2>2. ~Taken(output[read + 1])
    BY <2>1
  <2>3. \A k \in 1..read + 1 : k \in 1..read \/ k = read + 1
    BY <1>1
  <2>4. QED
    BY <1>1, <2>1, <2>2, <2>3 DEF AlertsRead
<1>6. CASE ReadNotUTF8 \/ EndOfOutput \/ Join \/ Wait
  BY <1>1, <1>2, <1>6 DEF ReadNotUTF8, EndOfOutput, Join, Wait, AlertsRead, InStep
<1>7. CASE TrackerStops \/ TrackerFails \/ CloseOutput
  BY <1>1, <1>2, <1>7 DEF TrackerStops, TrackerFails, CloseOutput, AlertsRead, InStep
<1>8. ASSUME NEW line \in Kind, Write(line) PROVE AlertsRead'
  <2>1. /\ open /\ output' = Append(output, line)
        /\ UNCHANGED <<open, child, pc, read, alerts, listens, check>>
    BY <1>8 DEF Write
  <2>2. \A k \in 1..read : output'[k] = output[k]
    BY <1>1, <2>1
  <2>3. QED
    BY <1>1, <2>1, <2>2 DEF AlertsRead
<1>9. ASSUME NEW status \in {"zero", "positive", "negative"}, Exit(status) PROVE AlertsRead'
  BY <1>1, <1>2, <1>9 DEF Exit, AlertsRead, InStep
<1>10. CASE UNCHANGED vars
  BY <1>1, <1>2, <1>10 DEF vars, AlertsRead
<1>11. QED
  BY <1>3, <1>4, <1>5, <1>6, <1>7, <1>8, <1>9, <1>10 DEF Next, Step

\* A later line keeps a list of lines ascending and adds nothing else to it.
LEMMA AppendLine ==
  ASSUME NEW s \in Seq(Nat), NEW n \in Nat, Ascending(s), \A i \in 1..Len(s) : s[i] < n
  PROVE  Ascending(Append(s, n)) /\ Lines(Append(s, n)) = Lines(s) \cup {n}
<1>1. /\ Len(Append(s, n)) = Len(s) + 1 /\ Len(s) \in Nat
      /\ Append(s, n)[Len(s) + 1] = n
      /\ \A i \in 1..Len(s) : Append(s, n)[i] = s[i]
  OBVIOUS
<1>2. \A i \in 1..Len(s) + 1 : i \in 1..Len(s) \/ i = Len(s) + 1
  BY <1>1
<1>3. Ascending(Append(s, n))
  <2> SUFFICES ASSUME NEW i \in 1..Len(s) + 1, NEW j \in 1..Len(s) + 1, i < j
               PROVE  Append(s, n)[i] < Append(s, n)[j]
    BY <1>1 DEF Ascending
  <2>1. i \in 1..Len(s)
    BY <1>1
  <2>2. CASE j = Len(s) + 1
    BY <1>1, <2>1, <2>2
  <2>3. CASE j \in 1..Len(s)
    BY <1>1, <2>1, <2>3 DEF Ascending
  <2>4. QED
    BY <1>2, <2>2, <2>3
<1>4. Lines(Append(s, n)) = Lines(s) \cup {n}
  <2>1. ASSUME NEW x \in Lines(Append(s, n)) PROVE x \in Lines(s) \cup {n}
    BY <1>1, <1>2, <2>1 DEF Lines
  <2>2. ASSUME NEW x \in Lines(s) PROVE x \in Lines(Append(s, n))
    <3>1. PICK i \in 1..Len(s) : x = s[i]
      BY <2>2 DEF Lines
    <3>2. i \in 1..Len(s) + 1 /\ Append(s, n)[i] = x
      BY <1>1, <3>1
    <3>3. QED
      BY <1>1, <3>2 DEF Lines
  <2>3. n \in Lines(Append(s, n))
    <3>1. Len(s) + 1 \in 1..Len(s) + 1
      BY <1>1
    <3>2. QED
      BY <1>1, <3>1 DEF Lines
  <2>4. QED
    BY <2>1, <2>2, <2>3
<1>5. QED
  BY <1>3, <1>4

\* What one more line means for report r: its creation empties it; any other
\* line adds itself if r is open and the line is for it, and changes nothing
\* about the earlier ones.
LEMMA OneMoreLine ==
  ASSUME TypeOK, NEW r \in Report, NEW m \in Nat, m + 1 <= Len(output)
  PROVE  /\ output[m + 1] = <<"create", r>> =>
              \A n \in 1..m + 1 : ~BelongsTo(n, r, m + 1)
         /\ output[m + 1] # <<"create", r>> =>
              /\ \A n \in 1..m : BelongsTo(n, r, m + 1) <=> BelongsTo(n, r, m)
              /\ BelongsTo(m + 1, r, m + 1) <=>
                   /\ OpenAfter(r, m)
                   /\ output[m + 1] \in Plain \ {<<"end">>} /\ ~Taken(output[m + 1])
<1> DEFINE m1 == m + 1
<1>1. m1 \in Nat /\ m1 = m + 1 /\ m1 - 1 = m
  OBVIOUS
<1>2. \A c \in 1..m : \A k \in c + 1..m1 : k \in c + 1..m \/ k = m1
  BY <1>1
<1>3. \A c \in 1..m : \A k \in c + 1..m : k \in c + 1..m1
  BY <1>1
<1>4. CASE output[m1] = <<"create", r>>
  <2>1. ASSUME NEW n \in 1..m1, NEW c \in 1..n - 1 PROVE m1 \in c + 1..m1
    BY <1>1, <2>1
  <2>2. \A n \in 1..m1 : ~BelongsTo(n, r, m1)
    BY <1>4, <2>1 DEF BelongsTo
  <2>3. QED
    BY <1>4, <2>2
<1>5. CASE output[m1] # <<"create", r>>
  <2>1. ASSUME NEW n \in 1..m PROVE BelongsTo(n, r, m1) <=> BelongsTo(n, r, m)
    <3>1. \A c \in 1..n - 1 : c \in 1..m
      BY <2>1
    <3>2. \A c \in 1..n - 1 : (\A k \in c + 1..m1 : output[k] # <<"create", r>>)
                         <=> (\A k \in c + 1..m : output[k] # <<"create", r>>)
      BY <1>2, <1>3, <1>5, <3>1
    <3>3. QED
      BY <3>2, Zenon DEF BelongsTo
  <2>2. ASSUME BelongsTo(m1, r, m1)
        PROVE  /\ OpenAfter(r, m)
               /\ output[m1] \in Plain \ {<<"end">>} /\ ~Taken(output[m1])
    <3>1. PICK c \in 1..m1 - 1 :
            /\ output[c] = <<"create", r>>
            /\ \A k \in c + 1..m1 - 1 : output[k] \notin Creates \cup {<<"end">>}
            /\ output[m1] \in Plain \ {<<"end">>} /\ ~Taken(output[m1])
      BY <2>2, Zenon DEF BelongsTo
    <3>2. c \in 1..m /\ \A k \in c + 1..m : output[k] \notin Creates \cup {<<"end">>}
      BY <1>1, <3>1
    <3>3. QED
      BY <3>1, <3>2, Zenon DEF OpenAfter
  <2>3. ASSUME OpenAfter(r, m), output[m1] \in Plain \ {<<"end">>}, ~Taken(output[m1])
        PROVE  BelongsTo(m1, r, m1)
    <3>1. PICK c \in 1..m :
            /\ output[c] = <<"create", r>>
            /\ \A k \in c + 1..m : output[k] \notin Creates \cup {<<"end">>}
      BY <2>3, Zenon DEF OpenAfter
    <3>2. <<"create", r>> \in Creates
      BY DEF Creates
    <3>3. \A k \in c + 1..m1 : output[k] # <<"create", r>>
      BY <1>2, <1>5, <3>1, <3>2
    <3>4. c \in 1..m1 - 1 /\ \A k \in c + 1..m1 - 1 : output[k] \notin Creates \cup {<<"end">>}
      BY <1>1, <3>1
    <3>5. QED
      BY <2>3, <3>1, <3>3, <3>4, Zenon DEF BelongsTo
  <2>4. QED
    BY <1>5, <2>1, <2>2, <2>3
<1>6. QED
  BY <1>4, <1>5

\* A report is open after a line that creates it, and after any other that
\* neither creates nor ends one if it was open before.
LEMMA OpenAfterLine ==
  ASSUME TypeOK, NEW r \in Report, NEW m \in Nat, m + 1 <= Len(output)
  PROVE  OpenAfter(r, m + 1) <=>
           \/ output[m + 1] = <<"create", r>>
           \/ OpenAfter(r, m) /\ output[m + 1] \notin Creates \cup {<<"end">>}
<1> DEFINE m1 == m + 1
<1>1. \A c \in 1..m : \A k \in c + 1..m1 : k \in c + 1..m \/ k = m1
  OBVIOUS
<1>2. \A c \in 1..m : /\ m1 \in c + 1..m1
                      /\ \A k \in c + 1..m : k \in c + 1..m1
  OBVIOUS
<1>3. ASSUME OpenAfter(r, m1), output[m1] # <<"create", r>>
      PROVE  OpenAfter(r, m) /\ output[m1] \notin Creates \cup {<<"end">>}
  <2>1. PICK c \in 1..m1 :
          /\ output[c] = <<"create", r>>
          /\ \A k \in c + 1..m1 : output[k] \notin Creates \cup {<<"end">>}
    BY <1>3, Zenon DEF OpenAfter
  <2>2. c # m1
    BY <1>3, <2>1
  <2>3. c \in 1..m
    BY <2>2
  <2>4. QED
    BY <1>2, <2>1, <2>3 DEF OpenAfter
<1>4. ASSUME output[m1] = <<"create", r>> PROVE OpenAfter(r, m1)
  <2>1. m1 \in 1..m1 /\ m1 + 1..m1 = {}
    OBVIOUS
  <2>2. QED
    BY <1>4, <2>1 DEF OpenAfter
<1>5. ASSUME OpenAfter(r, m), output[m1] \notin Creates \cup {<<"end">>}
      PROVE  OpenAfter(r, m1)
  <2>1. PICK c \in 1..m :
          /\ output[c] = <<"create", r>>
          /\ \A k \in c + 1..m : output[k] \notin Creates \cup {<<"end">>}
    BY <1>5, Zenon DEF OpenAfter
  <2>2. c \in 1..m1 /\ \A k \in c + 1..m1 : output[k] \notin Creates \cup {<<"end">>}
    BY <1>1, <1>5, <2>1
  <2>3. QED
    BY <2>1, <2>2, Zenon DEF OpenAfter
<1>6. QED
  BY <1>3, <1>4, <1>5

\* A line that is read goes to the reports, the metrics and the alerts it is for.
LEMMA FiledLine == ASSUME Inv, ReadLine PROVE Filed'
<1> DEFINE n == read + 1
           line == output[n]
<1> USE DEF TypeOK
<1>1. /\ TypeOK /\ AlertsRead /\ ReportsRead /\ MetricsRead /\ Ascending(alerts)
      /\ read \in Nat /\ n \in 1..Len(output) /\ n <= Len(output) /\ line \in Kind
  BY DEF Inv, Filed, ReadLine
<1>2. /\ read' = n /\ ProcessLine(line, n)
      /\ UNCHANGED <<output, pc, listens>>
  BY DEF ReadLine, Receive, tool, options
<1>3. \A k \in 1..n : k \in 1..read \/ k = n
  BY <1>1
<1>4. \A k \in 1..read : k \in 1..n /\ k < n
  BY <1>1
<1>5. Ascending(alerts)'
  <2>1. \A i \in 1..Len(alerts) : alerts[i] < n
    BY <1>1, <1>4 DEF AlertsRead
  <2>2. Ascending(Append(alerts, n))
    BY <1>1, <2>1, AppendLine
  <2>3. alerts' = Append(alerts, n) \/ alerts' = alerts
    BY <1>2 DEF ProcessLine
  <2>4. QED
    BY <1>1, <2>2, <2>3 DEF Ascending
<1>6. MetricsRead'
  <2> SUFFICES ASSUME NEW m \in Metric
               PROVE  /\ metrics'[m] \in 0..n
                      /\ metrics'[m] # 0 => output[metrics'[m]] = <<"metric", m>>
                      /\ \A k \in 1..n : output[k] = <<"metric", m>> => k <= metrics'[m]
    BY <1>2 DEF MetricsRead
  <2>1. metrics[m] \in 0..read /\ metrics[m] \in Nat
    BY <1>1 DEF MetricsRead
  <2>2. CASE line = <<"metric", m>>
    <3>1. line \in Measures /\ line[2] = m
      BY <2>2 DEF Measures
    <3>2. metrics'[m] = n
      BY <1>1, <1>2, <3>1 DEF ProcessLine
    <3>3. QED
      BY <1>1, <2>2, <3>2
  <2>3. CASE line # <<"metric", m>>
    <3>1. line \in Measures => line[2] # m /\ line[2] \in Metric
      BY <2>3 DEF Measures
    <3>2. metrics'[m] = metrics[m]
      BY <1>1, <1>2, <3>1 DEF ProcessLine
    <3>3. metrics[m] \in 0..n
      BY <1>1, <2>1
    <3>4. QED
      BY <1>1, <1>3, <2>3, <3>2, <3>3 DEF MetricsRead
  <2>4. QED
    BY <2>2, <2>3
<1>7. ReportsRead'
  <2> SUFFICES ASSUME NEW r \in Report
               PROVE  /\ current' = r => OpenAfter(r, n)
                      /\ OpenAfter(r, n) => current' = r
                      /\ Ascending(reports'[r])
                      /\ Lines(reports'[r]) = {k \in 1..n : BelongsTo(k, r, n)}
    BY <1>2, Zenon DEF ReportsRead, OpenAfter, BelongsTo, Taken, Ascending, Lines
  <2> DEFINE before == {k \in 1..read : BelongsTo(k, r, read)}
  <2>1. /\ r # NoReport /\ r \in Report
        /\ current = r => OpenAfter(r, read)
        /\ OpenAfter(r, read) => current = r
    BY <1>1, SubprocessAssumption DEF ReportsRead
  <2>2. Ascending(reports[r]) /\ Lines(reports[r]) = before
    BY <1>1 DEF ReportsRead
  <2>3. OpenAfter(r, n) <=>
          \/ line = <<"create", r>>
          \/ OpenAfter(r, read) /\ line \notin Creates \cup {<<"end">>}
    BY <1>1, OpenAfterLine
  <2>4. <<"create", r>> \in Creates /\ <<"end">> \notin Creates
    BY DEF Creates
  <2>5. line \in Creates => line = <<"create", line[2]>> /\ line[2] \in Report
                            /\ line # <<"end">> /\ line \notin Plain
    BY DEF Creates, Plain
  <2>6. /\ current' = r => OpenAfter(r, n)
        /\ OpenAfter(r, n) => current' = r
    <3>1. current' = CurrentReport(line)
      BY <1>2 DEF ProcessLine
    <3>2. CASE line \in Creates
      <4>1. current' = line[2]
        BY <2>5, <3>1, <3>2 DEF CurrentReport
      <4>2. line[2] = r => line = <<"create", r>>
        BY <2>5, <3>2
      <4>3. line = <<"create", r>> => line[2] = r
        OBVIOUS
      <4>4. QED
        BY <2>3, <3>2, <4>1, <4>2, <4>3
    <3>3. CASE line = <<"end">>
      <4>1. current' = NoReport
        BY <2>4, <3>1, <3>3 DEF CurrentReport
      <4>2. QED
        BY <2>1, <2>3, <2>4, <3>3, <4>1
    <3>4. CASE line \notin Creates \cup {<<"end">>}
      <4>1. current' = current
        BY <3>1, <3>4 DEF CurrentReport
      <4>2. QED
        BY <2>1, <2>3, <2>4, <3>4, <4>1
    <3>5. QED
      BY <3>2, <3>3, <3>4
  <2>7. reports' = InReports(line, n)
    BY <1>2 DEF ProcessLine
  <2>8. CASE line = <<"create", r>>
    <3>1. line \in Creates /\ line[2] = r
      BY <2>4, <2>8
    <3>2. reports'[r] = <<>>
      BY <1>1, <2>5, <2>7, <3>1 DEF InReports
    <3>3. Ascending(<<>>) /\ Lines(<<>>) = {}
      BY DEF Ascending, Lines
    <3>4. \A k \in 1..n : ~BelongsTo(k, r, n)
      BY <1>1, <2>8, OneMoreLine
    <3>5. {k \in 1..n : BelongsTo(k, r, n)} = {}
      BY <3>4
    <3>6. QED
      BY <2>6, <3>2, <3>3, <3>5
  <2>9. CASE line # <<"create", r>>
    <3> DEFINE Added == OpenAfter(r, read) /\ line \in Plain \ {<<"end">>} /\ ~Taken(line)
    <3>1. \A k \in 1..read : BelongsTo(k, r, n) <=> BelongsTo(k, r, read)
      BY <1>1, <2>9, OneMoreLine
    <3>2. BelongsTo(n, r, n) <=> Added
      BY <1>1, <2>9, OneMoreLine
    <3>3. CASE Added
      <4>1. current = r /\ line \notin Creates
        BY <2>1, <2>4, <3>3 DEF Plain, Creates
      <4>2. reports'[r] = Append(reports[r], n)
        BY <1>1, <2>1, <2>7, <3>3, <4>1 DEF InReports
      <4>3. \A i \in 1..Len(reports[r]) : reports[r][i] \in before
        BY <2>2 DEF Lines
      <4>4. \A i \in 1..Len(reports[r]) : reports[r][i] < n
        BY <1>4, <4>3
      <4>5. reports[r] \in Seq(Nat) /\ n \in Nat
        BY <1>1
      <4>6. /\ Ascending(Append(reports[r], n))
            /\ Lines(Append(reports[r], n)) = Lines(reports[r]) \cup {n}
        <5> HIDE DEF n
        <5>1. QED
          BY <2>2, <4>4, <4>5, AppendLine
      <4>7. {k \in 1..n : BelongsTo(k, r, n)} = before \cup {n}
        BY <1>1, <1>3, <1>4, <3>1, <3>2, <3>3
      <4>8. QED
        BY <2>2, <2>6, <4>2, <4>6, <4>7
    <3>4. CASE ~Added
      <4>1. reports'[r] = reports[r]
        <5>1. CASE line \in Creates
          BY <1>1, <2>5, <2>7, <2>9, <5>1 DEF InReports
        <5>2. CASE line \notin Creates /\ line \in Plain \ {<<"end">>} /\ ~Taken(line)
          <6>1. current # r
            BY <2>1, <3>4, <5>2
          <6>2. QED
            BY <1>1, <2>7, <5>2, <6>1 DEF InReports
        <5>3. CASE line \notin Creates /\ ~(line \in Plain \ {<<"end">>} /\ ~Taken(line))
          BY <1>1, <2>7, <5>3 DEF InReports
        <5>4. QED
          BY <5>1, <5>2, <5>3
      <4>2. {k \in 1..n : BelongsTo(k, r, n)} = before
        BY <1>1, <1>3, <1>4, <3>1, <3>2, <3>4
      <4>3. QED
        BY <2>2, <2>6, <4>1, <4>2
    <3>5. QED
      BY <3>3, <3>4
  <2>10. QED
    BY <2>8, <2>9
<1>8. QED
  BY <1>5, <1>6, <1>7 DEF Filed

\* Nothing but reading changes what the lines read mean: what the tool prints
\* comes after them.
LEMMA FiledNext == ASSUME Inv, [Next]_vars PROVE Filed'
<1> USE DEF tool, options, processors
<1>1. Filed /\ output \in Seq(Kind) /\ read \in 0..Len(output)
  BY DEF Inv, TypeOK
<1>2. ASSUME UNCHANGED <<read, listens, current, reports, metrics, alerts>>,
             \A k \in 1..read : output'[k] = output[k],
             pc' # "broken" => pc # "broken"
      PROVE  Filed'
  <2> SUFFICES ASSUME pc' # "broken" PROVE ReportsRead' /\ MetricsRead' /\ Ascending(alerts)'
    BY DEF Filed
  <2>1. ReportsRead /\ MetricsRead /\ Ascending(alerts)
    BY <1>1, <1>2 DEF Filed
  <2>2. Ascending(alerts)'
    BY <1>2, <2>1 DEF Ascending
  <2>3. MetricsRead'
    <3>1. ASSUME NEW m \in Metric, metrics[m] # 0 PROVE metrics[m] \in 1..read
      BY <1>1, <2>1, <3>1 DEF MetricsRead
    <3>2. QED
      BY <1>2, <2>1, <3>1 DEF MetricsRead
  <2>4. ASSUME NEW r \in Report
        PROVE  /\ OpenAfter(r, read)' <=> OpenAfter(r, read)
               /\ \A n \in 1..read : BelongsTo(n, r, read)' <=> BelongsTo(n, r, read)
    <3>1. \A c \in 1..read : \A k \in c + 1..read : k \in 1..read
      BY <1>1
    <3>2. OpenAfter(r, read)' <=> OpenAfter(r, read)
      BY <1>2, <3>1 DEF OpenAfter
    <3>3. ASSUME NEW n \in 1..read PROVE BelongsTo(n, r, read)' <=> BelongsTo(n, r, read)
      <4>1. \A c \in 1..n - 1 : /\ c \in 1..read
                                /\ \A k \in c + 1..read : k \in 1..read
                                /\ \A k \in c + 1..n - 1 : k \in 1..read
        BY <1>1
      <4>2. QED
        BY <1>2, <4>1 DEF BelongsTo, Taken
    <3>4. QED
      BY <3>2, <3>3
  <2>5. ReportsRead'
    <3> SUFFICES ASSUME NEW r \in Report
                 PROVE  /\ current = r => OpenAfter(r, read)'
                        /\ OpenAfter(r, read)' => current = r
                        /\ Ascending(reports[r])
                        /\ Lines(reports[r]) = {n \in 1..read : BelongsTo(n, r, read)'}
      BY <1>2 DEF ReportsRead, Ascending, Lines
    <3>1. {n \in 1..read : BelongsTo(n, r, read)'} = {n \in 1..read : BelongsTo(n, r, read)}
      BY <2>4
    <3>2. QED
      BY <2>1, <2>4, <3>1 DEF ReportsRead
  <2>6. QED
    BY <2>2, <2>3, <2>5
<1>3. CASE ReadLine
  BY <1>3, FiledLine
<1>4. CASE ReadBadMetric \/ ReadNotUTF8
  BY <1>4 DEF ReadBadMetric, ReadNotUTF8, Filed
<1>5. CASE Launch \/ LaunchFails \/ EndOfOutput \/ Join
  BY <1>2, <1>5 DEF Launch, LaunchFails, EndOfOutput, Join
<1>6. CASE Wait
  <2>1. pc = "waiting" /\ UNCHANGED <<output, read, listens, processors>>
    BY <1>6 DEF Wait
  <2>2. QED
    BY <1>2, <2>1
<1>7. CASE TrackerStops \/ TrackerFails \/ CloseOutput
  BY <1>2, <1>7 DEF TrackerStops, TrackerFails, CloseOutput
<1>8. ASSUME NEW line \in Kind, Write(line) PROVE Filed'
  <2>1. output' = Append(output, line) /\ UNCHANGED <<pc, read, listens, processors>>
    BY <1>8 DEF Write
  <2>2. \A k \in 1..read : output'[k] = output[k]
    BY <1>1, <2>1
  <2>3. QED
    BY <1>2, <2>1, <2>2
<1>9. ASSUME NEW status \in {"zero", "positive", "negative"}, Exit(status) PROVE Filed'
  BY <1>2, <1>9 DEF Exit
<1>10. CASE UNCHANGED vars
  BY <1>2, <1>10 DEF vars
<1>11. QED
  BY <1>3, <1>4, <1>5, <1>6, <1>7, <1>8, <1>9, <1>10 DEF Next, Step

\* The step waits for the tool last, when the sampling thread is over and all
\* output is read; only that decides the verdict.
LEMMA InStepNext ==
  ASSUME Inv, [Next]_vars
  PROVE  InStep' /\ VerdictTellsWhy'
<1> USE DEF InStep, Verdict, tool, options
<1>1. TypeOK /\ InStep /\ VerdictTellsWhy
  BY DEF Inv
<1>2. ASSUME UNCHANGED <<code, check, output>>, pc' \in Verdict => pc' = pc
      PROVE  VerdictTellsWhy'
  BY <1>1, <1>2 DEF VerdictTellsWhy
<1>3. CASE Launch \/ LaunchFails
  BY <1>1, <1>2, <1>3 DEF Launch, LaunchFails
<1>4. CASE ReadLine \/ ReadBadMetric \/ ReadNotUTF8 \/ EndOfOutput
  BY <1>1, <1>2, <1>4 DEF ReadLine, ReadBadMetric, ReadNotUTF8, EndOfOutput
<1>5. CASE Join
  BY <1>1, <1>2, <1>5 DEF Join
<1>6. CASE Wait
  <2>1. code \in {"zero", "positive", "negative"} /\ tracker = "done" /\ check \in BOOLEAN
    BY <1>1, <1>6 DEF Wait, TypeOK
  <2>2. ~check => (HasErrors <=> \E n \in 1..Len(output) : output[n] = <<"error">>)
    <3>1. AlertsRead /\ read = Len(output)
      BY <1>6 DEF Inv, AlertsRead, Wait
    <3>2. \A n \in 1..Len(output) : listens /\ output[n] = <<"error">> => Taken(output[n])
      BY DEF Taken
    <3>3. QED
      BY <3>1, <3>2 DEF HasErrors, AlertsRead
  <2>3. VerdictOf \in Verdict
    BY DEF VerdictOf
  <2>4. VerdictOf = "Ok" <=> code = "zero"
    <3>1. CASE code = "zero"
      <4>1. VerdictOf = "Ok"
        BY <3>1 DEF VerdictOf
      <4>2. QED
        BY <3>1, <4>1
    <3>2. CASE code # "zero"
      BY <2>1, <3>2 DEF VerdictOf
    <3>3. QED
      BY <3>1, <3>2
  <2>5. check => (VerdictOf = "StepSignalled" <=> code = "negative")
    BY <2>1, <2>4 DEF VerdictOf
  <2>6. ~check => (VerdictOf = "StepError" <=> code # "zero" /\ HasErrors)
    BY <2>1, <2>4 DEF VerdictOf
  <2>7. pc' = VerdictOf /\ child' = "reaped" /\ UNCHANGED <<output, code, check, tracker>>
    BY <1>6 DEF Wait
  <2>8. VerdictTellsWhy'
    BY <2>2, <2>4, <2>5, <2>6, <2>7 DEF VerdictTellsWhy
  <2>9. InStep'
    BY <2>1, <2>3, <2>7
  <2>10. QED
    BY <2>8, <2>9
<1>7. CASE TrackerStops \/ TrackerFails \/ CloseOutput
  BY <1>1, <1>2, <1>7 DEF TrackerStops, TrackerFails, CloseOutput
<1>8. ASSUME NEW line \in Kind, Write(line) PROVE InStep' /\ VerdictTellsWhy'
  BY <1>1, <1>8 DEF Write, VerdictTellsWhy
<1>9. ASSUME NEW status \in {"zero", "positive", "negative"}, Exit(status)
      PROVE  InStep' /\ VerdictTellsWhy'
  BY <1>1, <1>9 DEF Exit, VerdictTellsWhy
<1>10. CASE UNCHANGED vars
  BY <1>1, <1>2, <1>10 DEF vars
<1>11. QED
  BY <1>3, <1>4, <1>5, <1>6, <1>7, <1>8, <1>9, <1>10 DEF Next, Step

\* The inductive invariant holds in every reachable state.
THEOREM Invariance == Spec => []Inv
<1>1. Init => Inv
  BY InitInv
<1>2. Inv /\ [Next]_vars => Inv'
  BY TypeNext, InStepNext, AlertsNext, FiledNext DEF Inv
<1>3. QED
  BY <1>1, <1>2, PTL DEF Spec

\* Every variable keeps its type, however long a tool prints.
THEOREM TypeCorrect == Spec => []TypeOK
<1>1. Inv => TypeOK
  BY DEF Inv
<1>2. QED
  BY <1>1, Invariance, PTL

\* The ring buffer always holds the last lines that were read, for a buffer of
\* any size: what a failing tool's message shows.
THEOREM LastLines == Spec => []TailIsLast
<1>1. Inv => TailIsLast
  <2> SUFFICES ASSUME Inv PROVE TailIsLast
    OBVIOUS
  <2>1. read \in Nat /\ Holds(ring, read)
    BY DEF Inv, TypeOK
  <2>2. Contents(ring) = [i \in 1..Size(read) |-> read - Size(read) + i]
    BY <2>1, HoldsLast
  <2>3. QED
    BY <2>2, Zenon DEF TailIsLast, Size
<1>2. QED
  BY <1>1, Invariance, PTL

\* run_subprocess leaves no tool and no sampling thread behind when it ends in
\* a verdict, and never waits for a tool that is still sampled.
THEOREM NoneLeft == Spec => []NothingLeftRunning
<1>1. Inv => NothingLeftRunning
  BY DEF Inv, InStep, NothingLeftRunning
<1>2. QED
  BY <1>1, Invariance, PTL

\* A step's verdict says why its tool failed, and nothing but exit code zero is
\* a success.
THEOREM VerdictsTellWhy == Spec => []VerdictTellsWhy
<1>1. Inv => VerdictTellsWhy
  BY DEF Inv
<1>2. QED
  BY <1>1, Invariance, PTL

\* Whatever the tool prints and however its output and its end interleave with
\* the step's reading: the reports, the metrics and the alerts are those of the
\* lines read, each once and in order, and a verdict is given on all of them.
THEOREM ResultsOfTheOutput == Spec => []ResultReflectsOutput
<1>1. Inv => ResultReflectsOutput
  <2> SUFFICES ASSUME Inv PROVE ResultReflectsOutput
    OBVIOUS
  <2>1. pc \in Verdict => read = Len(output)
    BY DEF Inv, AlertsRead
  <2>2. Lines(alerts) = {n \in 1..read : Taken(output[n])}
    <3>1. /\ \A i \in 1..Len(alerts) : alerts[i] \in 1..read /\ Taken(output[alerts[i]])
          /\ \A n \in 1..read : Taken(output[n]) => \E i \in 1..Len(alerts) : alerts[i] = n
      BY DEF Inv, AlertsRead
    <3>2. QED
      BY <3>1 DEF Lines
  <2>3. ASSUME MetricsRead, read \in Nat, NEW m \in Metric,
               NEW sets, sets = {n \in 1..read : output[n] = <<"metric", m>>}
        PROVE  IF sets = {} THEN metrics[m] = 0
               ELSE metrics[m] \in sets /\ \A n \in sets : n <= metrics[m]
    <3>1. metrics[m] # 0 => metrics[m] \in sets
      BY <2>3 DEF MetricsRead
    <3>2. \A n \in sets : n <= metrics[m] /\ n \in 1..read
      BY <2>3 DEF MetricsRead
    <3>3. sets # {} => metrics[m] # 0
      BY <2>3, <3>2
    <3>4. QED
      BY <3>1, <3>2, <3>3
  <2>4. ASSUME pc # "broken"
        PROVE  /\ \A r \in Report : /\ Ascending(reports[r])
                                    /\ Lines(reports[r]) = {n \in 1..read : BelongsTo(n, r, read)}
               /\ \A m \in Metric : LET sets == {n \in 1..read : output[n] = <<"metric", m>>}
                                    IN  IF sets = {} THEN metrics[m] = 0
                                        ELSE metrics[m] \in sets /\ \A n \in sets : n <= metrics[m]
               /\ Ascending(alerts)
    <3>1. ReportsRead /\ MetricsRead /\ Ascending(alerts) /\ read \in Nat
      BY <2>4 DEF Inv, Filed, TypeOK
    <3>2. QED
      BY <2>3, <3>1 DEF ReportsRead
  <2>5. QED
    BY <2>1, <2>2, <2>4 DEF ResultReflectsOutput
<1>2. QED
  BY <1>1, Invariance, PTL

-----------------------------------------------------------------------------
(* Many analyses.                                                          *)

(* Numbers: induction with a set in the place of a predicate.              *)

\* A nonempty set of naturals has a least member.
LEMMA LeastExists ==
  ASSUME NEW S \in SUBSET Nat, S # {}
  PROVE  \E n \in S : \A m \in S : n <= m
<1>1. PICK n \in S : \A m \in Nat : <<m, n>> \in OpToRel(<, Nat) => m \notin S
  BY WFMin, NatLessThanWellFounded
<1>2. ASSUME NEW m \in S PROVE n <= m
  <2>1. m \in Nat /\ n \in Nat
    OBVIOUS
  <2>2. ~(m < n)
    BY <1>1, <2>1 DEF OpToRel
  <2>3. QED
    BY <2>1, <2>2
<1>3. QED
  BY <1>2

\* What holds of 0, and of each number up to N if of the one before, holds up to N.
LEMMA UpTo ==
  ASSUME NEW N \in Nat, NEW S, 0 \in S, \A n \in 1..N : n - 1 \in S => n \in S
  PROVE  \A n \in 0..N : n \in S
<1> DEFINE Out == {n \in 0..N : n \notin S}
<1>1. Out \in SUBSET Nat
  OBVIOUS
<1>2. SUFFICES ASSUME Out # {} PROVE FALSE
  OBVIOUS
<1>3. PICK n \in Out : \A m \in Out : n <= m
  BY <1>1, <1>2, LeastExists
<1>4. n \in 1..N /\ n - 1 \in 0..N
  OBVIOUS
<1>5. n - 1 \in S
  BY <1>3, <1>4
<1>6. QED
  BY <1>4, <1>5

\* g[n] is what n times of op make of first.
Iterated(g, n, D, first, op) ==
  /\ g \in [0..n -> D] /\ g[0] = first
  /\ \A i \in 1..n : g[i] = op[i][g[i - 1]]

\* A value can be made from the one before N times over.
LEMMA Iterates ==
  ASSUME NEW N \in Nat, NEW D, NEW first \in D, NEW op \in [1..N -> [D -> D]]
  PROVE  \E g : Iterated(g, N, D, first, op)
<1> DEFINE Good(g, n) == Iterated(g, n, D, first, op)
           S == {n \in 0..N : \E g : Good(g, n)}
<1>1. 0 \in S
  <2> DEFINE g == [i \in 0..0 |-> first]
  <2>1. Good(g, 0)
    BY DEF Iterated
  <2> HIDE DEF Good, g
  <2>2. QED
    BY <2>1
<1>2. ASSUME NEW n \in 1..N, n - 1 \in S PROVE n \in S
  <2>1. PICK g : Good(g, n - 1)
    BY <1>2
  <2> DEFINE h == [i \in 0..n |-> IF i = n THEN op[n][g[n - 1]] ELSE g[i]]
  <2>2. n - 1 \in 0..n - 1 /\ g[n - 1] \in D
    BY <2>1 DEF Iterated
  <2>3. h[n] = op[n][g[n - 1]] /\ h[n] \in D
    BY <2>2
  <2>4. \A i \in 0..n - 1 : h[i] = g[i] /\ i \in 0..n
    OBVIOUS
  <2>5. h \in [0..n -> D]
    BY <2>1, <2>3, <2>4 DEF Iterated
  <2>6. ASSUME NEW i \in 1..n PROVE h[i] = op[i][h[i - 1]]
    <3>1. i - 1 \in 0..n - 1 /\ h[i - 1] = g[i - 1]
      BY <2>4
    <3>2. CASE i = n
      BY <2>3, <3>1, <3>2
    <3>3. CASE i # n
      <4>1. i \in 1..n - 1
        BY <3>3
      <4>2. h[i] = g[i]
        BY <2>4, <4>1
      <4>3. QED
        BY <2>1, <3>1, <4>1, <4>2 DEF Iterated
    <3>4. QED
      BY <3>2, <3>3
  <2>7. h[0] = first
    BY <2>1, <2>4 DEF Iterated
  <2>8. Good(h, n)
    <3> HIDE DEF h
    <3>1. QED
      BY <2>5, <2>6, <2>7 DEF Iterated
  <2> HIDE DEF Good, h
  <2>9. QED
    BY <2>8
<1>3. N \in S
  <2> HIDE DEF S
  <2>1. \A n \in 0..N : n \in S
    BY <1>1, <1>2, UpTo
  <2>2. QED
    BY <2>1
<1>4. QED
  BY <1>3

\* The lesser of two numbers.
LEMMA MinOfTwo ==
  ASSUME NEW a \in Int, NEW b \in Int
  PROVE  Min({a, b}) = IF a <= b THEN a ELSE b
  BY DEF Min
-----------------------------------------------------------------------------
(* The aggregates                                                          *)

\* min_aggregator, one corner after the other.
LEMMA WorstSteps ==
  ASSUME NEW cs \in Seq(Corner), NEW s \in [1..Len(cs) -> Int], Infinity \in Int,
         \A n \in 1..Len(cs) : s[n] = slack[files[cs[n]]]
  PROVE  \E w \in [0..Len(cs) -> Int] :
           /\ w[0] = 0 /\ Worst(cs) = w[Len(cs)]
           /\ \A n \in 1..Len(cs) : w[n] = Min({OrStart(w[n - 1], Infinity), s[n]})
<1> DEFINE L == Len(cs)
           op == [n \in 1..L |-> [x \in Int |-> Min({OrStart(x, Infinity), s[n]})]]
           Is(w) == w = [n \in 0..L |-> IF n = 0 THEN 0
                                        ELSE Min({OrStart(w[n - 1], Infinity), slack[files[cs[n]]]})]
           worst == CHOOSE w : Is(w)
<1>1. L \in Nat
  OBVIOUS
<1>2. \A x \in Int : OrStart(x, Infinity) \in Int
  BY DEF OrStart
<1>3. op \in [1..L -> [Int -> Int]]
  <2>1. ASSUME NEW n \in 1..L, NEW x \in Int PROVE Min({OrStart(x, Infinity), s[n]}) \in Int
    <3>1. OrStart(x, Infinity) \in Int /\ s[n] \in Int
      BY <1>2
    <3>2. \A a, b \in Int : Min({a, b}) \in Int
      BY MinOfTwo
    <3>3. QED
      BY <3>1, <3>2, Zenon
  <2>2. QED
    BY <2>1
<1>4. PICK g : Iterated(g, L, Int, 0, op)
  <2> HIDE DEF op, L
  <2>1. 0 \in Int
    OBVIOUS
  <2>2. QED
    BY <1>1, <1>3, <2>1, Iterates, Zenon
<1>5. \A i \in 1..L : g[i - 1] \in Int /\ g[i] = Min({OrStart(g[i - 1], Infinity), s[i]})
  <2>1. ASSUME NEW i \in 1..L
        PROVE  /\ i - 1 \in 0..L /\ g[i - 1] \in Int
               /\ g[i] = op[i][g[i - 1]]
    <3>1. i - 1 \in 0..L
      BY <1>1
    <3> HIDE DEF op, L
    <3>2. QED
      BY <1>4, <3>1 DEF Iterated
  <2>2. ASSUME NEW i \in 1..L, NEW x \in Int PROVE op[i][x] = Min({OrStart(x, Infinity), s[i]})
    OBVIOUS
  <2> HIDE DEF op
  <2>3. QED
    BY <2>1, <2>2
<1>6. Is(g)
  <2>1. \A i \in 0..L : g[i] = IF i = 0 THEN 0
                               ELSE Min({OrStart(g[i - 1], Infinity), slack[files[cs[i]]]})
    BY <1>1, <1>4, <1>5 DEF Iterated
  <2>2. g = [i \in 0..L |-> g[i]]
    BY <1>4 DEF Iterated
  <2>3. QED
    BY <2>1, <2>2
<1>7. Is(worst)
  <2> HIDE DEF Is
  <2>1. QED
    BY <1>6
<1>8. Worst(cs) = worst[L]
  BY DEF Worst
<1>9. worst[0] = 0 /\ \A n \in 1..L : worst[n] = Min({OrStart(worst[n - 1], Infinity), s[n]})
  <2> HIDE DEF worst
  <2>1. QED
    BY <1>1, <1>7
<1>10. \A n \in 0..L : worst[n] \in Int
  <2> DEFINE S == {n \in 0..L : worst[n] \in Int}
  <2> HIDE DEF worst
  <2>1. 0 \in S
    BY <1>1, <1>9
  <2>2. ASSUME NEW n \in 1..L, n - 1 \in S PROVE n \in S
    <3>1. OrStart(worst[n - 1], Infinity) \in Int /\ s[n] \in Int
      BY <1>2, <2>2
    <3>2. \A a, b \in Int : Min({a, b}) \in Int
      BY MinOfTwo
    <3>3. worst[n] \in Int
      BY <1>9, <3>1, <3>2
    <3>4. QED
      BY <3>3
  <2> HIDE DEF S
  <2>3. \A n \in 0..L : n \in S
    BY <1>1, <2>1, <2>2, UpTo
  <2>4. QED
    BY <2>3 DEF S
<1>11. worst \in [0..L -> Int]
  <2> HIDE DEF worst
  <2>1. worst = [n \in 0..L |-> worst[n]]
    BY <1>7
  <2>2. QED
    BY <1>10, <2>1
<1>12. QED
  <2> HIDE DEF worst
  <2>1. QED
    BY <1>8, <1>9, <1>11

\* The worst slack is one of the corners', and none of theirs is worse, unless a
\* slack of zero is taken for none.
LEMMA WorstOfAll ==
  ASSUME NEW cs \in Seq(Corner), cs # <<>>,
         \A n \in 1..Len(cs) : slack[files[cs[n]]] \in Slacks \ {0}
  PROVE  /\ \E i \in 1..Len(cs) : Worst(cs) = slack[files[cs[i]]]
         /\ \A i \in 1..Len(cs) : Worst(cs) <= slack[files[cs[i]]]
<1> DEFINE L == Len(cs)
           s == [n \in 1..L |-> slack[files[cs[n]]]]
<1>1. L \in Nat /\ L > 0
  OBVIOUS
<1>2. \A n \in 1..L : s[n] \in Int /\ s[n] # 0 /\ s[n] < Infinity
  BY CornerAssumption
<1>3. Infinity \in Int /\ s \in [1..L -> Int] /\ \A n \in 1..L : s[n] = slack[files[cs[n]]]
  BY <1>2, CornerAssumption
<1> HIDE DEF s
<1>4. PICK w \in [0..L -> Int] :
        /\ w[0] = 0 /\ Worst(cs) = w[L]
        /\ \A n \in 1..L : w[n] = Min({OrStart(w[n - 1], Infinity), s[n]})
  BY <1>3, WorstSteps
<1> DEFINE Least(n) == /\ \E i \in 1..n : w[n] = s[i]
                       /\ \A i \in 1..n : w[n] <= s[i]
           S == {n \in 0..L : n = 0 \/ Least(n)}
<1>5. 0 \in S
  BY <1>1
<1>6. ASSUME NEW n \in 1..L, n - 1 \in S PROVE n \in S
  <2> DEFINE before == OrStart(w[n - 1], Infinity)
  <2>1. /\ n - 1 \in 0..L /\ w[n - 1] \in Int /\ s[n] \in Int /\ s[n] < Infinity
        /\ n = 1 => w[n - 1] = 0
    BY <1>2, <1>4
  <2>2. before \in Int /\ w[n] = Min({before, s[n]})
    BY <1>3, <1>4, <2>1 DEF OrStart
  <2>3. w[n] = IF before <= s[n] THEN before ELSE s[n]
    <3> HIDE DEF before
    <3>1. QED
      BY <2>1, <2>2, MinOfTwo
  <2>4. CASE n = 1
    <3>1. before = Infinity
      BY <2>1, <2>4 DEF OrStart
    <3>2. w[n] = s[n]
      BY <2>1, <2>3, <3>1
    <3>3. Least(n)
      BY <1>2, <2>4, <3>2
    <3>4. QED
      BY <3>3
  <2>5. CASE n # 1
    <3>1. Least(n - 1) /\ n - 1 \in 1..L
      BY <1>6, <2>5
    <3>2. before = w[n - 1]
      BY <1>2, <3>1 DEF OrStart
    <3>3. \A i \in 1..n : i \in 1..n - 1 \/ i = n
      OBVIOUS
    <3>4. \A i \in 1..n : w[n] <= s[i]
      BY <1>2, <2>1, <2>3, <3>1, <3>2, <3>3
    <3>5. \E i \in 1..n : w[n] = s[i]
      <4>1. PICK k \in 1..n - 1 : w[n - 1] = s[k]
        BY <3>1
      <4>2. k \in 1..n /\ n \in 1..n
        OBVIOUS
      <4>3. w[n] = s[k] \/ w[n] = s[n]
        BY <2>3, <3>2, <4>1
      <4>4. QED
        BY <4>2, <4>3
    <3>6. QED
      BY <3>4, <3>5
  <2>6. QED
    BY <2>4, <2>5
<1>7. Least(L)
  <2> HIDE DEF S, Least
  <2>1. \A n \in 0..L : n \in S
    BY <1>1, <1>5, <1>6, UpTo
  <2>2. QED
    BY <1>1, <2>1 DEF S
<1>8. QED
  BY <1>3, <1>4, <1>7

\* sum_aggregator, one corner after the other.
LEMMA TotalSteps ==
  ASSUME NEW cs \in Seq(Corner), NEW v \in [1..Len(cs) -> Nat],
         \A n \in 1..Len(cs) : v[n] = Violations(cs[n])
  PROVE  \E t \in [0..Len(cs) -> Nat] :
           /\ t[0] = 0 /\ Total(cs) = t[Len(cs)]
           /\ \A n \in 1..Len(cs) : t[n] = t[n - 1] + v[n]
<1> DEFINE L == Len(cs)
           op == [n \in 1..L |-> [x \in Nat |-> OrStart(x, 0) + v[n]]]
           Is(t) == t = [n \in 0..L |-> IF n = 0 THEN 0
                                        ELSE OrStart(t[n - 1], 0) + Violations(cs[n])]
           total == CHOOSE t : Is(t)
<1>1. L \in Nat
  OBVIOUS
<1>2. \A x : OrStart(x, 0) = x
  BY DEF OrStart
<1>3. op \in [1..L -> [Nat -> Nat]]
  BY <1>2
<1>4. PICK g : Iterated(g, L, Nat, 0, op)
  <2> HIDE DEF op, L
  <2>1. 0 \in Nat
    OBVIOUS
  <2>2. QED
    BY <1>1, <1>3, <2>1, Iterates, Zenon
<1>5. \A i \in 1..L : g[i - 1] \in Nat /\ g[i] = OrStart(g[i - 1], 0) + v[i]
  <2>1. ASSUME NEW i \in 1..L
        PROVE  /\ i - 1 \in 0..L /\ g[i - 1] \in Nat
               /\ g[i] = op[i][g[i - 1]]
    <3>1. i - 1 \in 0..L
      BY <1>1
    <3> HIDE DEF op, L
    <3>2. QED
      BY <1>4, <3>1 DEF Iterated
  <2>2. ASSUME NEW i \in 1..L, NEW x \in Nat PROVE op[i][x] = OrStart(x, 0) + v[i]
    OBVIOUS
  <2> HIDE DEF op
  <2>3. QED
    BY <2>1, <2>2
<1>6. Is(g)
  <2>1. \A i \in 0..L : g[i] = IF i = 0 THEN 0 ELSE OrStart(g[i - 1], 0) + Violations(cs[i])
    BY <1>1, <1>4, <1>5 DEF Iterated
  <2>2. g = [i \in 0..L |-> g[i]]
    BY <1>4 DEF Iterated
  <2>3. QED
    BY <2>1, <2>2
<1>7. Is(total)
  <2> HIDE DEF Is
  <2>1. QED
    BY <1>6
<1>8. Total(cs) = total[L]
  BY DEF Total
<1>9. total[0] = 0 /\ \A n \in 1..L : total[n] = total[n - 1] + v[n]
  <2> HIDE DEF total
  <2>1. QED
    BY <1>1, <1>2, <1>7
<1>10. \A n \in 0..L : total[n] \in Nat
  <2> DEFINE S == {n \in 0..L : total[n] \in Nat}
  <2> HIDE DEF total
  <2>1. 0 \in S
    BY <1>1, <1>9
  <2>2. ASSUME NEW n \in 1..L, n - 1 \in S PROVE n \in S
    BY <1>9, <2>2
  <2> HIDE DEF S
  <2>3. \A n \in 0..L : n \in S
    BY <1>1, <2>1, <2>2, UpTo
  <2>4. QED
    BY <2>3 DEF S
<1>11. total \in [0..L -> Nat]
  <2> HIDE DEF total
  <2>1. total = [n \in 0..L |-> total[n]]
    BY <1>7
  <2>2. QED
    BY <1>10, <2>1
<1>12. QED
  <2> HIDE DEF total
  <2>1. QED
    BY <1>8, <1>9, <1>11

\* The total counts the corners with a negative slack, if each is there once.
LEMMA TotalCounts ==
  ASSUME NEW cs \in Seq(Corner), \A i, j \in 1..Len(cs) : cs[i] = cs[j] => i = j
  PROVE  Total(cs) = Cardinality({cs[i] : i \in {k \in 1..Len(cs) : slack[files[cs[k]]] < 0}})
<1> DEFINE L == Len(cs)
           Bad(n) == {cs[i] : i \in {k \in 1..n : slack[files[cs[k]]] < 0}}
           v == [n \in 1..L |-> Violations(cs[n])]
<1>1. L \in Nat
  OBVIOUS
<1>2. v \in [1..L -> Nat] /\ \A n \in 1..L : v[n] = Violations(cs[n])
  BY DEF Violations
<1> HIDE DEF v
<1>3. PICK t \in [0..L -> Nat] : /\ t[0] = 0 /\ Total(cs) = t[L]
                                 /\ \A n \in 1..L : t[n] = t[n - 1] + v[n]
  BY <1>2, TotalSteps
<1> DEFINE S == {n \in 0..L : IsFiniteSet(Bad(n)) /\ t[n] = Cardinality(Bad(n))}
<1>4. 0 \in S
  <2>1. Bad(0) = {}
    OBVIOUS
  <2>2. QED
    BY <1>1, <1>3, <2>1, FS_EmptySet
<1>5. ASSUME NEW n \in 1..L, n - 1 \in S PROVE n \in S
  <2>1. \A k \in 1..n : k \in 1..n - 1 \/ k = n
    OBVIOUS
  <2>2. \A k \in 1..n - 1 : k \in 1..n /\ k \in 1..L /\ k # n
    BY <1>1
  <2>3. cs[n] \notin Bad(n - 1)
    BY <2>2
  <2>4. n - 1 \in 0..L /\ t[n - 1] \in Nat
    BY <1>1
  <2>5. IsFiniteSet(Bad(n - 1)) /\ t[n - 1] = Cardinality(Bad(n - 1))
    BY <1>5
  <2>6. CASE slack[files[cs[n]]] < 0
    <3>1. Bad(n) = Bad(n - 1) \cup {cs[n]}
      <4>1. ASSUME NEW x \in Bad(n) PROVE x \in Bad(n - 1) \cup {cs[n]}
        BY <2>1
      <4>2. ASSUME NEW x \in Bad(n - 1) PROVE x \in Bad(n)
        BY <2>2
      <4>3. n \in 1..n
        OBVIOUS
      <4>4. cs[n] \in Bad(n)
        BY <2>6, <4>3
      <4> HIDE DEF Bad
      <4>5. QED
        BY <4>1, <4>2, <4>4
    <3>2. v[n] = 1
      BY <1>2, <2>6 DEF Violations
    <3>3. t[n] = t[n - 1] + 1
      BY <1>3, <3>2
    <3> HIDE DEF Bad
    <3>4. IsFiniteSet(Bad(n)) /\ Cardinality(Bad(n)) = Cardinality(Bad(n - 1)) + 1
      <4>1. ASSUME NEW B, NEW x, IsFiniteSet(B), x \notin B
            PROVE  IsFiniteSet(B \cup {x}) /\ Cardinality(B \cup {x}) = Cardinality(B) + 1
        BY <4>1, FS_AddElement
      <4>2. QED
        BY <2>3, <2>5, <3>1, <4>1
    <3>5. QED
      BY <2>5, <3>3, <3>4
  <2>7. CASE ~(slack[files[cs[n]]] < 0)
    <3>1. Bad(n) = Bad(n - 1)
      <4>1. ASSUME NEW x \in Bad(n) PROVE x \in Bad(n - 1)
        BY <2>1, <2>7
      <4>2. ASSUME NEW x \in Bad(n - 1) PROVE x \in Bad(n)
        BY <2>2
      <4> HIDE DEF Bad
      <4>3. QED
        BY <4>1, <4>2
    <3>2. v[n] = 0
      BY <1>2, <2>7 DEF Violations
    <3>3. t[n] = t[n - 1]
      BY <1>3, <2>4, <3>2
    <3> HIDE DEF Bad
    <3>4. QED
      BY <2>5, <3>1, <3>3
  <2>8. QED
    BY <2>6, <2>7
<1>6. t[L] = Cardinality(Bad(L))
  <2> HIDE DEF S, Bad
  <2>1. \A n \in 0..L : n \in S
    BY <1>1, <1>4, <1>5, UpTo
  <2>2. QED
    BY <1>1, <2>1 DEF S
<1>7. QED
  BY <1>3, <1>6
-----------------------------------------------------------------------------
(* The analyses                                                            *)

StaTypeOK ==
  /\ files \in [Corner -> Files \cup {NoFiles}]
  /\ slack \in [Files -> Slacks]
  /\ next \in 1..NumCorners + 1
  /\ futures \in Seq(Corner)
  /\ taken \in 0..Len(futures)
  /\ answer \in [Corner -> {"waiting", "running", "done", "failed"}]
  /\ result.is \in {"undecided", "metrics", "StepException", "StepError"}

\* The first n corners that have files no earlier one has.
Firsts(n) == {c \in 1..n : \A d \in 1..c - 1 : files[d] # files[c]}

\* What was submitted is what is new among the corners that were looked at, in
\* order; a worker takes them in that order, too.
InOrder ==
  /\ \A i, j \in 1..Len(futures) : i < j => futures[i] < futures[j]
  /\ \A c \in 1..next - 1 : files[c] \in Files
  /\ \A i \in taken + 1..Len(futures) : answer[futures[i]] = "waiting"
  /\ \A c \in Corner : c \notin Submitted => answer[c] = "waiting"
  /\ Submitted = Firsts(next - 1)

\* What was raised is the error of the first analysis that failed; the metrics
\* are all corners'.
Concluded ==
  /\ result.is = "undecided" => result = Undecided
  /\ result.is = "metrics" => next = NumCorners + 1 /\ AllDone
  /\ result.is = "StepError" =>
       /\ result.corner \in Submitted /\ answer[result.corner] = "failed"
       /\ \A c \in Submitted : c < result.corner => answer[c] = "done"

\* What the metrics are.
MetricsAreTheCorners ==
  result.is = "metrics" =>
    /\ result.corner = [c \in Firsts(NumCorners) |-> slack[files[c]]]
    /\ result.violations = Cardinality({c \in Firsts(NumCorners) : slack[files[c]] < 0})
    /\ Firsts(NumCorners) # {} => result.power = files[Max(Firsts(NumCorners))]

WorstUnlessZero == 0 \notin Slacks => WorstIsWorst

AnalysisInv == StaTypeOK /\ InOrder /\ Concluded /\ MetricsAreTheCorners /\ WorstUnlessZero

\* The wildcards are among those that may be given, and what a checker said
\* stays true.
Judged == /\ wildcards \in SUBSET [matches : SUBSET AnyCorner, blank : BOOLEAN]
          /\ verdict # "none" => result.is = "metrics"
          /\ SelectionIsJudged

\* Every corner shares its files with one that is new, and not after it.
LEMMA Representative ==
  ASSUME NEW n \in Nat, NEW c \in 1..n
  PROVE  \E d \in Firsts(n) : d <= c /\ files[d] = files[c]
<1> DEFINE Same == {d \in 1..n : files[d] = files[c]}
<1>1. Same \in SUBSET Nat /\ c \in Same
  OBVIOUS
<1>2. PICK d \in Same : \A e \in Same : d <= e
  <2> HIDE DEF Same
  <2>1. QED
    BY <1>1, LeastExists
<1>3. ASSUME NEW e \in 1..d - 1 PROVE files[e] # files[d]
  <2>1. e \in 1..n /\ ~(d <= e)
    BY <1>3
  <2>2. QED
    BY <1>2, <2>1
<1>4. d \in Firsts(n)
  BY <1>3 DEF Firsts
<1>5. QED
  BY <1>1, <1>2, <1>4

\* The next corner is new exactly if no submitted one has its files.
LEMMA OneMoreCorner ==
  ASSUME NEW n \in Nat \ {0}
  PROVE  Firsts(n) = Firsts(n - 1) \cup
                     (IF \E d \in Firsts(n - 1) : files[d] = files[n] THEN {} ELSE {n})
<1>1. \A c \in 1..n : c \in 1..n - 1 \/ c = n
  OBVIOUS
<1>2. Firsts(n - 1) \subseteq Firsts(n)
  BY DEF Firsts
<1>3. \A c \in Firsts(n) : c \in Firsts(n - 1) \/ c = n
  BY <1>1 DEF Firsts
<1>4. n \notin Firsts(n - 1)
  BY DEF Firsts
<1>5. n \in Firsts(n) <=> \A d \in 1..n - 1 : files[d] # files[n]
  BY DEF Firsts
<1>6. (\E d \in 1..n - 1 : files[d] = files[n]) <=> (\E d \in Firsts(n - 1) : files[d] = files[n])
  <2>1. ASSUME NEW d \in 1..n - 1, files[d] = files[n]
        PROVE  \E e \in Firsts(n - 1) : files[e] = files[n]
    <3>1. n - 1 \in Nat
      OBVIOUS
    <3>2. \E e \in Firsts(n - 1) : e <= d /\ files[e] = files[d]
      BY <3>1, Representative
    <3>3. QED
      BY <2>1, <3>2
  <2>2. Firsts(n - 1) \subseteq 1..n - 1
    BY DEF Firsts
  <2>3. QED
    BY <2>1, <2>2
<1>7. QED
  BY <1>2, <1>3, <1>5, <1>6

\* The greatest number of a set is the one that no other exceeds.
LEMMA MaxIs ==
  ASSUME NEW S \in SUBSET Int, NEW m \in S, \A n \in S : n <= m
  PROVE  Max(S) = m
<1>1. Max(S) = CHOOSE x \in S : \A y \in S : x >= y
  BY DEF Max
<1>2. \A x \in S : (\A y \in S : x >= y) <=> x = m
  OBVIOUS
<1>3. QED
  BY <1>1, <1>2

\* The least number of a set is the one that no other undercuts.
LEMMA MinIs ==
  ASSUME NEW S \in SUBSET Int, NEW m \in S, \A n \in S : m <= n
  PROVE  Min(S) = m
<1>1. Min(S) = CHOOSE x \in S : \A y \in S : x <= y
  BY DEF Min
<1>2. \A x \in S : (\A y \in S : x <= y) <=> x = m
  OBVIOUS
<1>3. QED
  BY <1>1, <1>2

\* Before anything is submitted.
LEMMA AnalysisInit == StaInit => AnalysisInv
<1> SUFFICES ASSUME StaInit PROVE AnalysisInv
  OBVIOUS
<1>1. NumCorners \in Nat /\ Len(futures) = 0 /\ 1..0 = {} /\ next - 1 = 0
  BY CornerAssumption DEF StaInit
<1>2. StaTypeOK
  BY <1>1 DEF StaInit, StaTypeOK, Undecided
<1>3. Submitted = {} /\ Firsts(0) = {}
  BY <1>1 DEF Submitted, Firsts
<1>4. InOrder
  BY <1>1, <1>3 DEF StaInit, InOrder
<1>5. Concluded /\ MetricsAreTheCorners /\ WorstUnlessZero
  BY DEF StaInit, Concluded, MetricsAreTheCorners, WorstUnlessZero, WorstIsWorst, Undecided
<1>6. QED
  BY <1>2, <1>4, <1>5 DEF AnalysisInv

\* The metrics that are merged when all analyses are done are those of the corners.
LEMMA MergedIsRight ==
  ASSUME StaTypeOK, InOrder, next = NumCorners + 1,
         NEW r, r = Merged(futures)
  PROVE  /\ r.is = "metrics"
         /\ r.corner = [c \in Firsts(NumCorners) |-> slack[files[c]]]
         /\ r.violations = Cardinality({c \in Firsts(NumCorners) : slack[files[c]] < 0})
         /\ Firsts(NumCorners) # {} => r.power = files[Max(Firsts(NumCorners))]
         /\ 0 \notin Slacks /\ NumCorners > 0 =>
              r.worst = Min({slack[files[c]] : c \in Corner})
<1>1. /\ NumCorners \in Nat /\ next - 1 = NumCorners /\ futures \in Seq(Corner)
      /\ Slacks \subseteq Int
  BY CornerAssumption DEF StaTypeOK
<1>2. Submitted = Firsts(NumCorners) /\ Submitted \subseteq Corner
  BY <1>1 DEF InOrder, Submitted
<1>3. \A c \in Corner : files[c] \in Files /\ slack[files[c]] \in Slacks
  BY <1>1 DEF InOrder, Corner, StaTypeOK
<1>4. \A i \in 1..Len(futures) : futures[i] \in Submitted /\ futures[i] \in Corner
  BY <1>1 DEF Submitted
<1>5. \A i, j \in 1..Len(futures) : futures[i] = futures[j] => i = j
  <2>1. \A c \in Corner : c \in Int
    BY DEF Corner
  <2>2. \A i, j \in 1..Len(futures) : i < j => futures[i] < futures[j]
    BY DEF InOrder
  <2>3. QED
    BY <1>4, <2>1, <2>2
<1>6. /\ r.is = "metrics" /\ r.corner = [c \in Submitted |-> slack[files[c]]]
      /\ r.worst = Worst(futures) /\ r.violations = Total(futures)
      /\ r.power = IF futures = <<>> THEN 0 ELSE files[Last(futures)]
  BY DEF Merged
<1>7. r.violations = Cardinality({c \in Firsts(NumCorners) : slack[files[c]] < 0})
  <2> DEFINE Found == {futures[i] : i \in {k \in 1..Len(futures) : slack[files[futures[k]]] < 0}}
             Wanted == {c \in Submitted : slack[files[c]] < 0}
  <2>1. Total(futures) = Cardinality(Found)
    <3> HIDE DEF Found
    <3>1. QED
      BY <1>1, <1>5, TotalCounts DEF Found
  <2>2. ASSUME NEW c \in Found PROVE c \in Wanted
    BY <1>4
  <2>3. ASSUME NEW c \in Wanted PROVE c \in Found
    BY DEF Submitted
  <2>4. Found = Wanted
    <3> HIDE DEF Found, Wanted
    <3>1. QED
      BY <2>2, <2>3
  <2>5. QED
    BY <1>2, <1>6, <2>1, <2>4
<1>8. ASSUME Firsts(NumCorners) # {} PROVE r.power = files[Max(Firsts(NumCorners))]
  <2>1. Len(futures) \in 1..Len(futures) /\ futures # <<>>
    BY <1>1, <1>2, <1>8 DEF Submitted
  <2>2. Last(futures) = futures[Len(futures)]
    BY DEF Last
  <2> DEFINE last == futures[Len(futures)]
  <2>3. last \in Submitted /\ Submitted \subseteq Int
    BY <1>2, <1>4, <2>1 DEF Corner
  <2>4. ASSUME NEW c \in Submitted PROVE c <= last
    <3>1. PICK i \in 1..Len(futures) : c = futures[i]
      BY DEF Submitted
    <3>2. i = Len(futures) \/ i < Len(futures)
      OBVIOUS
    <3>3. c = last \/ c < last
      BY <2>1, <3>1, <3>2 DEF InOrder
    <3> HIDE DEF last
    <3>4. QED
      BY <2>3, <3>3
  <2>5. Max(Submitted) = last
    <3> HIDE DEF last
    <3>1. QED
      BY <2>3, <2>4, MaxIs
  <2>6. QED
    BY <1>2, <1>6, <2>1, <2>2, <2>5
<1>9. ASSUME 0 \notin Slacks, NumCorners > 0
      PROVE  r.worst = Min({slack[files[c]] : c \in Corner})
  <2>1. 1 \in Firsts(NumCorners)
    BY <1>1, <1>9 DEF Firsts
  <2>2. futures # <<>> /\ \A n \in 1..Len(futures) : slack[files[futures[n]]] \in Slacks \ {0}
    BY <1>2, <1>3, <1>4, <1>9, <2>1 DEF Submitted
  <2>3. /\ \E i \in 1..Len(futures) : r.worst = slack[files[futures[i]]]
        /\ \A i \in 1..Len(futures) : r.worst <= slack[files[futures[i]]]
    BY <1>1, <1>6, <2>2, WorstOfAll
  <2> DEFINE All == {slack[files[c]] : c \in Corner}
  <2>4. All \in SUBSET Int
    BY <1>1, <1>3
  <2>5. r.worst \in All
    BY <1>4, <2>3
  <2>6. ASSUME NEW c \in Corner PROVE r.worst <= slack[files[c]]
    <3>1. PICK d \in Submitted : files[d] = files[c]
      BY <1>1, <1>2, Representative DEF Corner
    <3>2. PICK i \in 1..Len(futures) : d = futures[i]
      BY DEF Submitted
    <3>3. QED
      BY <2>3, <3>1, <3>2
  <2>7. \A x \in All : r.worst <= x
    BY <2>6
  <2> HIDE DEF All
  <2>8. Min(All) = r.worst
    BY <2>4, <2>5, <2>7, MinIs
  <2>9. QED
    BY <2>8 DEF All
<1>10. QED
  BY <1>2, <1>6, <1>7, <1>8, <1>9

\* Workers only move corners that were submitted, in order, and what is done or
\* failed stays so; run() decides once.
LEMMA AnalysisNext == ASSUME AnalysisInv, [StaNext]_staVars PROVE AnalysisInv'
<1>1. /\ StaTypeOK /\ InOrder /\ Concluded /\ MetricsAreTheCorners /\ WorstUnlessZero
      /\ NumCorners \in Nat /\ Len(futures) \in Nat /\ futures \in Seq(Corner)
      /\ taken \in 0..Len(futures) /\ next \in 1..NumCorners + 1
  BY CornerAssumption DEF AnalysisInv, StaTypeOK
<1>2. ASSUME UNCHANGED <<files, slack, result>>
      PROVE  MetricsAreTheCorners' /\ WorstUnlessZero'
  BY <1>1, <1>2 DEF MetricsAreTheCorners, WorstUnlessZero, WorstIsWorst, Firsts
<1>3. ASSUME result'.is \notin {"undecided", "metrics"}
      PROVE  MetricsAreTheCorners' /\ WorstUnlessZero'
  BY <1>3 DEF MetricsAreTheCorners, WorstUnlessZero, WorstIsWorst
<1>4. CASE NoSpef
  <2>1. /\ result'.is = "StepException" /\ UNCHANGED <<inputs, next, futures, taken, answer>>
    BY <1>4 DEF NoSpef
  <2>2. StaTypeOK' /\ InOrder' /\ Concluded'
    BY <1>1, <2>1 DEF inputs, StaTypeOK, InOrder, Submitted, Firsts, Concluded
  <2>3. QED
    BY <1>3, <2>1, <2>2 DEF AnalysisInv
<1>5. CASE Skip
  <2>1. /\ next <= NumCorners /\ result = Undecided /\ files[next] # NoFiles
        /\ \E d \in Submitted : files[d] = files[next]
        /\ next' = next + 1 /\ UNCHANGED <<files, slack, futures, taken, answer, result>>
    BY <1>5 DEF Skip, Submitting, Identical, inputs
  <2>2. Firsts(next) = Firsts(next - 1) /\ Submitted = Firsts(next)
    <3>1. next \in Nat \ {0} /\ Submitted = Firsts(next - 1)
      BY <1>1 DEF InOrder
    <3>2. \E d \in Firsts(next - 1) : files[d] = files[next]
      BY <2>1, <3>1
    <3>3. QED
      BY <3>1, <3>2, OneMoreCorner
  <2>3. StaTypeOK' /\ next' - 1 = next
    BY <1>1, <2>1 DEF StaTypeOK
  <2>4. InOrder'
    <3>1. \A c \in 1..next : c \in 1..next - 1 \/ c = next
      BY <1>1
    <3>2. files[next] \in Files
      BY <1>1, <2>1 DEF StaTypeOK, Corner
    <3>3. \A c \in 1..next' - 1 : files'[c] \in Files
      BY <1>1, <2>1, <2>3, <3>1, <3>2 DEF InOrder
    <3>4. (Submitted = Firsts(next - 1))'
      BY <2>1, <2>2, <2>3 DEF Submitted, Firsts
    <3>5. Submitted' = Submitted
      BY <2>1 DEF Submitted
    <3>6. (\A c \in Corner : c \notin Submitted => answer[c] = "waiting")'
      BY <1>1, <2>1, <3>5 DEF InOrder
    <3>7. (\A c \in 1..next - 1 : files[c] \in Files)'
      BY <3>3
    <3>8. (\A i, j \in 1..Len(futures) : i < j => futures[i] < futures[j])'
      BY <1>1, <2>1 DEF InOrder
    <3>9. (\A i \in taken + 1..Len(futures) : answer[futures[i]] = "waiting")'
      BY <1>1, <2>1 DEF InOrder
    <3>10. QED
      BY <3>4, <3>6, <3>7, <3>8, <3>9 DEF InOrder
  <2>5. Concluded'
    BY <1>1, <2>1 DEF Concluded, Undecided
  <2>6. QED
    BY <1>2, <2>1, <2>3, <2>4, <2>5 DEF AnalysisInv
<1>6. CASE Submit
  <2>1. /\ next <= NumCorners /\ result = Undecided /\ files[next] # NoFiles
        /\ ~ \E d \in Submitted : files[d] = files[next]
        /\ futures' = Append(futures, next)
        /\ next' = next + 1 /\ UNCHANGED <<files, slack, taken, answer, result>>
    BY <1>6 DEF Submit, Submitting, Identical, inputs
  <2>2. Firsts(next) = Firsts(next - 1) \cup {next}
    <3>1. next \in Nat \ {0} /\ Submitted = Firsts(next - 1)
      BY <1>1 DEF InOrder
    <3>2. ~ \E d \in Firsts(next - 1) : files[d] = files[next]
      BY <2>1, <3>1
    <3>3. QED
      BY <3>1, <3>2, OneMoreCorner
  <2>3. next \in Corner /\ next' - 1 = next /\ next' \in 1..NumCorners + 1
    BY <1>1, <2>1 DEF Corner
  <2>4. /\ futures' \in Seq(Corner) /\ Len(futures') = Len(futures) + 1
        /\ futures'[Len(futures) + 1] = next
        /\ \A i \in 1..Len(futures) : futures'[i] = futures[i]
    BY <1>1, <2>1, <2>3
  <2>5. \A i \in 1..Len(futures) + 1 : i \in 1..Len(futures) \/ i = Len(futures) + 1
    BY <1>1
  <2>6. StaTypeOK'
    BY <1>1, <2>1, <2>3, <2>4 DEF StaTypeOK
  <2>7. \A i \in 1..Len(futures) : futures[i] \in Firsts(next - 1) /\ futures[i] \in Submitted
    BY <1>1 DEF InOrder, Submitted
  <2>8. next \notin Submitted /\ Firsts(next - 1) \subseteq 1..next - 1
    BY <1>1 DEF InOrder, Firsts
  <2>9. Submitted' = Submitted \cup {next}
    <3>1. ASSUME NEW c \in Submitted' PROVE c \in Submitted \cup {next}
      BY <2>4, <2>5 DEF Submitted
    <3>2. ASSUME NEW c \in Submitted PROVE c \in Submitted'
      <4>1. PICK i \in 1..Len(futures) : c = futures[i]
        BY DEF Submitted
      <4>2. i \in 1..Len(futures') /\ c = futures'[i]
        BY <1>1, <2>4, <4>1
      <4>3. QED
        BY <4>2 DEF Submitted
    <3>3. next \in Submitted'
      <4>1. Len(futures) + 1 \in 1..Len(futures')
        BY <1>1, <2>4
      <4>2. QED
        BY <2>4, <4>1 DEF Submitted
    <3>4. QED
      BY <3>1, <3>2, <3>3
  <2>10. InOrder'
    <3>1. ASSUME NEW i \in 1..Len(futures'), NEW j \in 1..Len(futures'), i < j
          PROVE  futures'[i] < futures'[j]
      <4>1. i \in 1..Len(futures)
        BY <1>1, <2>4, <3>1
      <4>2. CASE j \in 1..Len(futures)
        BY <1>1, <2>4, <3>1, <4>1, <4>2 DEF InOrder
      <4>3. CASE j = Len(futures) + 1
        <5>1. futures[i] \in 1..next - 1
          BY <2>7, <2>8, <4>1
        <5>2. QED
          BY <1>1, <2>4, <4>1, <4>3, <5>1
      <4>4. QED
        BY <2>4, <2>5, <4>2, <4>3
    <3>2. \A c \in 1..next' - 1 : files'[c] \in Files
      <4>1. \A c \in 1..next : c \in 1..next - 1 \/ c = next
        BY <1>1
      <4>2. files[next] \in Files
        BY <1>1, <2>1, <2>3 DEF StaTypeOK
      <4>3. QED
        BY <1>1, <2>1, <2>3, <4>1, <4>2 DEF InOrder
    <3>3. answer[next] = "waiting"
      BY <1>1, <2>3, <2>8 DEF InOrder
    <3>4. \A i \in taken + 1..Len(futures') : answer[futures'[i]] = "waiting"
      <4>1. \A i \in taken + 1..Len(futures) + 1 :
              (i \in taken + 1..Len(futures) /\ i \in 1..Len(futures)) \/ i = Len(futures) + 1
        BY <1>1
      <4>2. QED
        BY <1>1, <2>4, <3>3, <4>1 DEF InOrder
    <3>5. \A c \in Corner : c \notin Submitted' => answer[c] = "waiting"
      BY <1>1, <2>9 DEF InOrder
    <3>6. (Submitted = Firsts(next - 1))'
      <4>1. Submitted' = Firsts(next)
        BY <1>1, <2>2, <2>9 DEF InOrder
      <4>2. QED
        BY <2>1, <2>3, <4>1 DEF Firsts
    <3>7. (\A i, j \in 1..Len(futures) : i < j => futures[i] < futures[j])'
      BY <3>1
    <3>8. (\A c \in 1..next - 1 : files[c] \in Files)'
      BY <3>2
    <3>9. (\A i \in taken + 1..Len(futures) : answer[futures[i]] = "waiting")'
      BY <2>1, <3>4
    <3>10. (\A c \in Corner : c \notin Submitted => answer[c] = "waiting")'
      BY <2>1, <3>5
    <3>11. QED
      BY <3>6, <3>7, <3>8, <3>9, <3>10 DEF InOrder
  <2>11. Concluded'
    BY <1>1, <2>1 DEF Concluded, Undecided
  <2>12. QED
    BY <1>2, <2>1, <2>6, <2>10, <2>11 DEF AnalysisInv
<1>7. CASE Collect
  <2>1. /\ next = NumCorners + 1 /\ AllDone /\ result' = Merged(futures)
        /\ UNCHANGED <<files, slack, next, futures, taken, answer>>
    BY <1>1, <1>7 DEF Collect, Collecting, inputs
  <2>2. /\ result'.is = "metrics"
        /\ result'.corner = [c \in Firsts(NumCorners) |-> slack[files[c]]]
        /\ result'.violations = Cardinality({c \in Firsts(NumCorners) : slack[files[c]] < 0})
        /\ Firsts(NumCorners) # {} => result'.power = files[Max(Firsts(NumCorners))]
        /\ 0 \notin Slacks /\ NumCorners > 0 =>
             result'.worst = Min({slack[files[c]] : c \in Corner})
    BY <1>1, <2>1, MergedIsRight
  <2>3. StaTypeOK' /\ InOrder' /\ Concluded'
    BY <1>1, <2>1, <2>2 DEF StaTypeOK, InOrder, Submitted, Firsts, Concluded, AllDone
  <2>4. MetricsAreTheCorners'
    BY <2>1, <2>2 DEF MetricsAreTheCorners, Firsts
  <2>5. WorstUnlessZero'
    BY <2>1, <2>2 DEF WorstUnlessZero, WorstIsWorst
  <2>6. QED
    BY <2>3, <2>4, <2>5 DEF AnalysisInv
<1>8. ASSUME NEW i \in 1..Len(futures), Raise(i) PROVE AnalysisInv'
  <2>1. /\ answer[futures[i]] = "failed" /\ \A j \in 1..i - 1 : answer[futures[j]] = "done"
        /\ result' = [is |-> "StepError", corner |-> futures[i]]
        /\ UNCHANGED <<files, slack, next, futures, taken, answer>>
    BY <1>8 DEF Raise, inputs
  <2>2. StaTypeOK' /\ InOrder'
    BY <1>1, <2>1 DEF StaTypeOK, InOrder, Submitted, Firsts
  <2>3. ASSUME NEW c \in Submitted, c < futures[i] PROVE answer[c] = "done"
    <3>1. PICK j \in 1..Len(futures) : c = futures[j]
      BY DEF Submitted
    <3>2. \A d \in Corner : d \in Int
      BY DEF Corner
    <3>3. c \in Int /\ futures[i] \in Int
      BY <1>1, <3>1, <3>2
    <3>4. j = i \/ i < j \/ j \in 1..i - 1
      OBVIOUS
    <3>5. i < j => futures[i] < futures[j]
      BY <1>1 DEF InOrder
    <3>6. j \in 1..i - 1
      BY <2>3, <3>1, <3>3, <3>4, <3>5
    <3>7. QED
      BY <2>1, <3>1, <3>6
  <2>4. Concluded'
    BY <2>1, <2>3 DEF Concluded, Submitted
  <2>5. QED
    BY <1>3, <2>1, <2>2, <2>4 DEF AnalysisInv
<1>9. CASE Take
  <2> DEFINE c == futures[taken + 1]
  <2>1. /\ taken < Len(futures) /\ taken' = taken + 1
        /\ answer' = [answer EXCEPT ![c] = "running"]
        /\ UNCHANGED <<files, slack, next, futures, result>>
    BY <1>9 DEF Take, inputs
  <2>2. taken + 1 \in 1..Len(futures) /\ taken + 1 \in taken + 1..Len(futures)
    BY <1>1, <2>1
  <2>3. c \in Corner /\ c \in Submitted /\ answer[c] = "waiting"
    BY <1>1, <2>2 DEF InOrder, Submitted
  <2>4. \A d \in Corner : answer'[d] = IF d = c THEN "running" ELSE answer[d]
    BY <1>1, <2>1 DEF StaTypeOK
  <2>5. StaTypeOK'
    BY <1>1, <2>1, <2>2 DEF StaTypeOK
  <2>6. ASSUME NEW i \in taken + 2..Len(futures) PROVE answer'[futures[i]] = "waiting"
    <3>1. i \in 1..Len(futures) /\ i \in taken + 1..Len(futures) /\ taken + 1 < i
      BY <1>1
    <3>2. c < futures[i] /\ answer[futures[i]] = "waiting" /\ futures[i] \in Corner
      BY <1>1, <2>2, <3>1 DEF InOrder
    <3>3. \A d \in Corner : d \in Int
      BY DEF Corner
    <3>4. c # futures[i]
      <4> HIDE DEF c
      <4>1. QED
        BY <2>3, <3>2, <3>3
    <3>5. QED
      BY <2>4, <3>2, <3>4
  <2>7. \A d \in Corner : d \notin Submitted => answer'[d] = "waiting"
    BY <1>1, <2>3, <2>4 DEF InOrder
  <2> HIDE DEF c
  <2>8. InOrder'
    <3>1. (\A i \in taken + 1..Len(futures) : answer[futures[i]] = "waiting")'
      <4>1. taken' + 1 = taken + 2
        BY <1>1, <2>1
      <4>2. QED
        BY <2>1, <2>6, <4>1
    <3>2. Submitted' = Submitted /\ Firsts(next - 1)' = Firsts(next - 1)
      BY <2>1 DEF Submitted, Firsts
    <3>3. (\A d \in Corner : d \notin Submitted => answer[d] = "waiting")'
      BY <2>7, <3>2
    <3>4. QED
      BY <1>1, <2>1, <3>1, <3>2, <3>3 DEF InOrder
  <2>9. \A d \in Corner : answer[d] \in {"done", "failed"} => answer'[d] = answer[d]
    BY <2>3, <2>4
  <2>10. Submitted \subseteq Corner
    BY <1>1 DEF Submitted
  <2>11. Concluded'
    BY <1>1, <2>1, <2>9, <2>10 DEF Concluded, AllDone, Submitted, Undecided
  <2>12. QED
    BY <1>2, <2>1, <2>5, <2>8, <2>11 DEF AnalysisInv
<1>10. ASSUME NEW c \in Corner, NEW how \in {"done", "failed"}, Finish(c, how)
       PROVE  AnalysisInv'
  <2>1. /\ answer[c] = "running" /\ answer' = [answer EXCEPT ![c] = how]
        /\ UNCHANGED <<files, slack, next, futures, taken, result>>
    BY <1>10 DEF Finish, Running, inputs
  <2>2. \A d \in Corner : answer'[d] = IF d = c THEN how ELSE answer[d]
    BY <1>1, <2>1 DEF StaTypeOK
  <2>3. StaTypeOK'
    BY <1>1, <2>1, <2>2 DEF StaTypeOK
  <2>4. \A d \in Corner : answer[d] \in {"waiting", "done", "failed"} => answer'[d] = answer[d]
    BY <2>1, <2>2
  <2>5. \A i \in 1..Len(futures) : futures[i] \in Corner
    BY <1>1
  <2>6. \A i \in taken + 1..Len(futures) : i \in 1..Len(futures)
    BY <1>1
  <2>7. InOrder'
    BY <1>1, <2>1, <2>4, <2>5, <2>6 DEF InOrder, Submitted, Firsts
  <2>8. Submitted \subseteq Corner
    BY <2>5 DEF Submitted
  <2>9. Concluded'
    BY <1>1, <2>1, <2>4, <2>8 DEF Concluded, AllDone, Submitted, Undecided
  <2>10. QED
    BY <1>2, <2>1, <2>3, <2>7, <2>9 DEF AnalysisInv
<1>11. CASE UNCHANGED staVars
  <2>1. UNCHANGED <<files, slack, next, futures, taken, answer, result>>
    BY <1>11 DEF staVars, inputs
  <2>2. StaTypeOK' /\ InOrder' /\ Concluded'
    BY <1>1, <2>1 DEF StaTypeOK, InOrder, Submitted, Firsts, Concluded, AllDone, Undecided
  <2>3. QED
    BY <1>2, <2>1, <2>2 DEF AnalysisInv
<1>12. QED
  BY <1>4, <1>5, <1>6, <1>7, <1>8, <1>9, <1>10, <1>11 DEF StaNext, Run, Work
-----------------------------------------------------------------------------
(* The checker                                                             *)

\* What the checker looks at when it looks.
LEMMA MetricsOfAll ==
  ASSUME AnalysisInv, result.is = "metrics"
  PROVE  /\ Submitted = Firsts(NumCorners) /\ Submitted \subseteq Corner
         /\ \A c \in Submitted : answer[c] = "done"
         /\ NumCorners > 0 => Submitted # {}
         /\ \A c \in Corner : slack[files[c]] \in Int
<1>1. next - 1 = NumCorners /\ AllDone /\ NumCorners \in Nat
  BY CornerAssumption DEF AnalysisInv, Concluded
<1>2. Submitted = Firsts(NumCorners)
  BY <1>1 DEF AnalysisInv, InOrder
<1>3. NumCorners > 0 => 1 \in Firsts(NumCorners)
  BY <1>1 DEF Firsts
<1>4. \A c \in Corner : files[c] \in Files
  BY <1>1 DEF AnalysisInv, InOrder, Corner
<1>5. \A c \in Corner : slack[files[c]] \in Int
  BY <1>4, CornerAssumption DEF AnalysisInv, StaTypeOK
<1>6. QED
  BY <1>1, <1>2, <1>3, <1>5 DEF AllDone, Firsts, Corner

\* The checker's own step.
LEMMA CheckJudges == ASSUME AnalysisInv, Judged, Check PROVE Judged'
<1>1. /\ result.is = "metrics"
      /\ verdict' = IF WithMetrics # {} /\ (Unmatched # {} \/ Erring # {}) THEN "error" ELSE "clear"
      /\ past' \in Pasts
      /\ UNCHANGED <<files, slack, next, futures, taken, answer, result>>
  BY DEF Check, staVars, inputs
<1>2. wildcards' \in SUBSET [matches : SUBSET AnyCorner, blank : BOOLEAN]
  <2>1. PICK own \in Selections, common \in Selections : wildcards' = Wildcards(own, common)
    BY DEF Check
  <2>2. wildcards' \subseteq own \/ wildcards' \subseteq common
    BY <2>1 DEF Wildcards
  <2>3. QED
    BY <2>2, SelectionsAssumption
<1>3. /\ Submitted = Firsts(NumCorners) /\ Submitted \subseteq Corner
      /\ \A c \in Submitted : answer[c] = "done"
      /\ NumCorners > 0 => Submitted # {}
      /\ \A c \in Corner : slack[files[c]] \in Int
  BY <1>1, MetricsOfAll
<1>4. Analysed' = Submitted
  <2>1. \A c \in Corner : c \notin Submitted => answer[c] = "waiting"
    BY DEF AnalysisInv, InOrder
  <2>2. QED
    BY <1>1, <1>3, <2>1 DEF Analysed
<1>5. \A c \in DOMAIN past' : past'[c] \in Int
  BY <1>1, SelectionsAssumption
<1>6. ASSUME verdict' = "clear", NumCorners > 0 PROVE Unmatched = {} /\ Erring = {}
  BY <1>1, <1>3, <1>6 DEF WithMetrics
<1>7. ASSUME verdict' = "clear", NumCorners > 0, NEW w \in wildcards',
             NEW c \in w.matches \cap WithMetrics
      PROVE  ~(Reading(c) < 0)
  <2>1. c \in Selected
    BY <1>7 DEF Selected
  <2>2. QED
    BY <1>6, <1>7, <2>1 DEF Erring, Violating
<1>8. ASSUME verdict' = "clear", NumCorners > 0, NEW w \in wildcards'
      PROVE  /\ w.matches \cap (Analysed' \cup DOMAIN past') # {}
             /\ \A c \in w.matches \cap Analysed' : (slack[files[c]] >= 0)'
             /\ \A c \in (w.matches \cap DOMAIN past') \ Analysed' : (past[c] >= 0)'
  <2>1. w.matches \cap WithMetrics # {}
    BY <1>6, <1>8 DEF Unmatched
  <2>2. ASSUME NEW c \in w.matches \cap Analysed'
        PROVE  (slack[files[c]] >= 0)'
    <3>1. c \in WithMetrics /\ c \in Submitted /\ c \in Corner
      BY <1>3, <1>4, <2>2 DEF WithMetrics
    <3>2. ~(slack[files[c]] < 0)
      BY <1>7, <1>8, <2>2, <3>1 DEF Reading
    <3>3. QED
      BY <1>1, <1>3, <3>1, <3>2
  <2>3. ASSUME NEW c \in (w.matches \cap DOMAIN past') \ Analysed'
        PROVE  (past[c] >= 0)'
    <3>1. c \in WithMetrics /\ c \notin Submitted
      BY <1>4, <2>3 DEF WithMetrics
    <3>2. ~(past'[c] < 0)
      BY <1>7, <1>8, <2>3, <3>1 DEF Reading
    <3>3. QED
      BY <1>5, <2>3, <3>2
  <2>4. QED
    BY <1>4, <2>1, <2>2, <2>3 DEF WithMetrics
<1>9. ASSUME verdict' = "clear", NumCorners > 0, TwinsTogether',
             NEW w \in wildcards', NEW c \in w.matches \cap Corner
      PROVE  (slack[files[c]] >= 0)'
  <2>1. c \in Corner /\ NumCorners \in Nat
    BY CornerAssumption
  <2>2. PICK d \in Submitted : files[d] = files[c]
    BY <1>3, <2>1, Representative DEF Corner
  <2>3. d \in w.matches
    BY <1>1, <1>3, <1>9, <2>1, <2>2 DEF TwinsTogether
  <2>4. (slack[files[d]] >= 0)'
    BY <1>4, <1>8, <1>9, <2>2, <2>3
  <2>5. QED
    BY <1>1, <2>2, <2>4
<1>10. SelectionIsJudged'
  BY <1>1, <1>8, <1>9 DEF SelectionIsJudged
<1>11. QED
  BY <1>1, <1>2, <1>10 DEF Judged

\* After the metrics are returned the analyses change nothing a checker saw.
LEMMA JudgedStays ==
  ASSUME AnalysisInv, Judged, [StaNext]_staVars, UNCHANGED <<wildcards, past, verdict>>
  PROVE  Judged'
<1>1. CASE verdict = "none"
  BY <1>1 DEF Judged, SelectionIsJudged
<1>2. CASE verdict # "none"
  <2>1. result.is = "metrics" /\ next = NumCorners + 1 /\ AllDone
    BY <1>2 DEF Judged, AnalysisInv, Concluded
  <2>2. result # Undecided
    BY <2>1 DEF Undecided
  <2>3. UNCHANGED <<files, slack, result>>
    BY <2>2 DEF StaNext, Run, Work, Submit, Skip, NoSpef, Collect, Raise, Take, Finish,
              Submitting, Collecting, inputs, staVars
  <2>4. answer' = answer
    <3>1. \A d \in Corner : answer[d] \in {"waiting", "done"}
      <4>1. \A d \in Submitted : answer[d] = "done"
        BY <2>1 DEF AllDone
      <4>2. QED
        BY <4>1 DEF AnalysisInv, InOrder
    <3>2. ASSUME NEW i \in 1..Len(futures) PROVE answer[futures[i]] = "done"
      BY <2>1 DEF AllDone, Submitted
    <3>3. CASE Take
      <4>1. taken + 1 \in 1..Len(futures) /\ taken + 1 \in taken + 1..Len(futures)
        BY <3>3 DEF Take, AnalysisInv, StaTypeOK
      <4>2. answer[futures[taken + 1]] = "waiting"
        BY <4>1 DEF AnalysisInv, InOrder
      <4>3. QED
        BY <3>2, <4>1, <4>2
    <3>4. ASSUME NEW c \in Corner, NEW how \in {"done", "failed"}, Finish(c, how)
          PROVE  FALSE
      BY <3>1, <3>4 DEF Finish, Running
    <3>5. CASE Run \/ UNCHANGED staVars
      BY <2>2, <3>5 DEF Run, Submit, Skip, NoSpef, Collect, Raise, Submitting, Collecting, staVars
    <3>6. QED
      BY <3>3, <3>4, <3>5 DEF StaNext, Work
  <2>5. SelectionIsJudged'
    BY <2>3, <2>4 DEF Judged, SelectionIsJudged, TwinsTogether, Analysed
  <2>6. QED
    BY <2>1, <2>3, <2>5 DEF Judged
<1>3. QED
  BY <1>1, <1>2
-----------------------------------------------------------------------------
(* What holds of every run                                                 *)

TimingInv == AnalysisInv /\ Judged

\* run(), its workers and the checker keep the invariant.
LEMMA TimingInvariance == TimingSpec => []TimingInv
<1>1. TimingInit => TimingInv
  <2>1. TimingInit => StaInit /\ AnalysisInv
    BY AnalysisInit DEF TimingInit
  <2>2. TimingInit => Judged
    BY DEF TimingInit, Judged, SelectionIsJudged
  <2>3. QED
    BY <2>1, <2>2 DEF TimingInv
<1>2. TimingInv /\ [TimingNext]_timingVars => TimingInv'
  <2> SUFFICES ASSUME TimingInv, [TimingNext]_timingVars PROVE TimingInv'
    OBVIOUS
  <2>1. AnalysisInv /\ Judged
    BY DEF TimingInv
  <2>2. CASE Check
    <3>1. [StaNext]_staVars
      BY <2>2 DEF Check
    <3>2. AnalysisInv'
      BY <2>1, <3>1, AnalysisNext
    <3>3. Judged'
      BY <2>1, <2>2, CheckJudges
    <3>4. QED
      BY <3>2, <3>3 DEF TimingInv
  <2>3. CASE [StaNext]_staVars /\ UNCHANGED <<wildcards, past, verdict>>
    <3>1. AnalysisInv'
      BY <2>1, <2>3, AnalysisNext
    <3>2. Judged'
      BY <2>1, <2>3, JudgedStays
    <3>3. QED
      BY <3>1, <3>2 DEF TimingInv
  <2>4. QED
    BY <2>2, <2>3 DEF TimingNext, timingVars
<1>3. QED
  BY <1>1, <1>2, PTL DEF TimingSpec

\* Each corner has one list of files, one analysis at most and one answer, for
\* any number of corners, lists of files, threads and wildcards.
THEOREM StaTypeCorrect == TimingSpec => []StaTypeOK
<1>1. TimingInv => StaTypeOK
  BY DEF TimingInv, AnalysisInv
<1>2. QED
  BY <1>1, TimingInvariance, PTL

\* MultiCornerSTA.run answers the same whichever analysis ends first, on any
\* number of threads: the metrics are those of the first corner with each list
\* of files, and the error is that of the first corner that failed.
THEOREM AnyOrderAnswersTheSame == TimingSpec => []SameWhateverTheOrder
<1>1. ASSUME TimingInv PROVE SameWhateverTheOrder
  <2>1. AnalysisInv /\ StaTypeOK /\ InOrder /\ Concluded /\ MetricsAreTheCorners
    BY <1>1 DEF TimingInv, AnalysisInv
  <2>2. {c \in Corner : \A d \in 1..c - 1 : files[d] # files[c]} = Firsts(NumCorners)
    BY DEF Firsts, Corner
  <2>3. ASSUME result.is = "metrics"
        PROVE  LET first == {c \in Corner : \A d \in 1..c - 1 : files[d] # files[c]}
               IN  /\ AllDone
                   /\ result.corner = [c \in first |-> slack[files[c]]]
                   /\ result.violations = Cardinality({c \in first : slack[files[c]] < 0})
                   /\ first # {} => result.power = files[Max(first)]
    BY <2>1, <2>2, <2>3 DEF Concluded, MetricsAreTheCorners
  <2>4. ASSUME result.is = "StepError"
        PROVE  /\ answer[result.corner] = "failed"
               /\ \A c \in 1..result.corner - 1 : answer[c] # "failed"
    <3>1. /\ result.corner \in Corner /\ answer[result.corner] = "failed"
          /\ \A c \in Submitted : c < result.corner => answer[c] = "done"
      BY <2>1, <2>4 DEF Concluded, Submitted, StaTypeOK
    <3>2. ASSUME NEW c \in 1..result.corner - 1 PROVE answer[c] # "failed"
      <4>1. c \in Corner /\ c < result.corner
        BY <3>1, CornerAssumption DEF Corner
      <4>2. CASE c \in Submitted
        BY <3>1, <4>1, <4>2
      <4>3. CASE c \notin Submitted
        BY <2>1, <4>1, <4>3 DEF InOrder
      <4>4. QED
        BY <4>2, <4>3
    <3>3. QED
      BY <3>1, <3>2
  <2>5. QED
    BY <2>3, <2>4 DEF SameWhateverTheOrder
<1>2. QED
  BY <1>1, TimingInvariance, PTL

\* A checker that lets the flow go on has found metrics for every wildcard, of this
\* analysis or an earlier one, and no violation in the latest metrics of any corner
\* it selects, for any wildcards and whatever earlier analyses have left behind.
THEOREM WildcardsAreJudged == TimingSpec => []SelectionIsJudged
<1>1. TimingInv => SelectionIsJudged
  BY DEF TimingInv, Judged
<1>2. QED
  BY <1>1, TimingInvariance, PTL

\* The worst slack that is reported is the worst of all corners, however many and
\* whichever were skipped, as long as no analysis finds a slack of exactly zero,
\* which the accumulator takes for a value that is missing.
THEOREM WorstSlackIsWorst ==
  ASSUME 0 \notin Slacks
  PROVE  TimingSpec => []WorstIsWorst
<1>1. TimingInv => WorstIsWorst
  BY DEF TimingInv, AnalysisInv, WorstUnlessZero
<1>2. QED
  BY <1>1, TimingInvariance, PTL
=============================================================================
