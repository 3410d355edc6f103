------------------------------- MODULE MCTools -------------------------------
(***************************************************************************)
(* Running a tool, and many of them, one case at a time: Subprocess with a *)
(* pipe of two lines and a ring buffer of two, so that four lines fill and *)
(* wrap both, or the analyses and checkers of MCCornerSTA.                 *)
(***************************************************************************)
EXTENDS Subprocess, MCCornerSTA

\* The program was not there; the first corner had no files.
ToolOver ==
  /\ output = <<>> /\ open = FALSE /\ child = "none" /\ code = "none" /\ tracker = "none"
  /\ pc = "notStarted" /\ listens = TRUE /\ check = TRUE /\ read = 0 /\ current = NoReport
  /\ reports = [r \in Report |-> <<>>] /\ metrics = [m \in Metric |-> 0] /\ alerts = <<>> /\ ring = Empty
AnalysesOver ==
  /\ files = [c \in Corner |-> NoFiles] /\ slack = [f \in Files |-> 1]
  /\ next = 1 /\ futures = <<>> /\ taken = 0 /\ answer = [c \in Corner |-> "waiting"]
  /\ result = [is |-> "StepException", corner |-> 1] /\ wildcards = {} /\ past = NoPast /\ verdict = "none"

MCInit == (Init /\ AnalysesOver) \/ (ToolOver /\ TimingInit)
RunningTool == Next /\ UNCHANGED timingVars
RunningAnalyses == TimingNext /\ UNCHANGED vars
MCSpec == MCInit /\ [][RunningTool \/ RunningAnalyses]_<<vars, timingVars>> /\ Fairness /\ StaFairness
=============================================================================
