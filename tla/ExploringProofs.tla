-------------------------- MODULE ExploringProofs --------------------------
(***************************************************************************)
(* Theorems about the step pool, for every number of workers and tasks and *)
(* every way the tasks depend on earlier ones, and about the two flows     *)
(* that explore strategies on it, for every number of strategies.          *)
(***************************************************************************)
EXTENDS Exploring, WellFoundedInduction, TLAPS

\* Where each task is: not taken, with a worker, or over.
TasksInPlace ==
  /\ blocked \cap running = {}
  /\ \A n \in blocked \cup running : n <= taken /\ outcome[n] = "pending"
  /\ \A n \in Task : n > taken => outcome[n] = "pending"
  /\ \A n \in Task : n <= taken /\ outcome[n] = "pending" => n \in blocked \cup running

PoolInv == PoolTypeOK /\ TasksInPlace /\ SuccessHasInput

\* An empty pool satisfies its inductive invariant.
LEMMA PoolInitInv == PoolInit => PoolInv
<1> SUFFICES ASSUME PoolInit PROVE PoolInv
  OBVIOUS
<1>1. PoolTypeOK
  BY PoolAssumption DEF PoolInit, PoolTypeOK, Outcome
<1>2. TasksInPlace
  BY DEF PoolInit, TasksInPlace, Task
<1>3. SuccessHasInput
  BY DEF PoolInit, SuccessHasInput
<1>4. QED
  BY <1>1, <1>2, <1>3 DEF PoolInv

\* Every step of the pool keeps the types of queue, workers and futures.
LEMMA PoolTypeNext ==
  ASSUME PoolTypeOK, [PoolNext]_pool
  PROVE  PoolTypeOK'
<1> USE PoolAssumption DEF PoolTypeOK
<1>1. CASE Submit
  BY <1>1 DEF Submit
<1>2. CASE Take
  BY <1>2 DEF Take, Task
<1>3. CASE \E n \in Task : GotInput(n)
  BY <1>3 DEF GotInput
<1>4. ASSUME NEW n \in Task, InheritsError(n) PROVE PoolTypeOK'
  BY <1>4 DEF InheritsError, Outcome
<1>5. ASSUME NEW n \in Task, NEW how \in {"ok"} \cup Errors, Return(n, how) PROVE PoolTypeOK'
  BY <1>5 DEF Return, Outcome
<1>6. CASE UNCHANGED pool
  BY <1>6 DEF pool
<1>7. QED
  BY <1>1, <1>2, <1>3, <1>4, <1>5, <1>6 DEF PoolNext, Work

\* Every submitted task stays in exactly one place, and none overtakes in the queue a
\* task it waits for.
LEMMA TasksInPlaceNext ==
  ASSUME PoolTypeOK, TasksInPlace, [PoolNext]_pool
  PROVE  TasksInPlace'
<1> USE PoolAssumption DEF PoolTypeOK, TasksInPlace
<1>1. CASE Submit
  BY <1>1 DEF Submit
<1>2. CASE Take
  <2>1. taken + 1 \in Task /\ taken \in Nat
    BY <1>2 DEF Take, Task
  <2>2. taken + 1 \notin blocked \cup running /\ outcome[taken + 1] = "pending"
    BY <2>1
  <2>3. QED
    BY <1>2, <2>1, <2>2 DEF Take, Task
<1>3. CASE \E n \in Task : GotInput(n)
  BY <1>3 DEF GotInput
<1>4. ASSUME NEW n \in blocked \cup running, NEW v \in {"ok"} \cup Errors,
             outcome' = [outcome EXCEPT ![n] = v], blocked' \cup running' = (blocked \cup running) \ {n},
             blocked' \subseteq blocked, running' \subseteq running,
             UNCHANGED <<submitted, taken>>
      PROVE  TasksInPlace'
  <2>1. v # "pending"
    BY DEF Errors
  <2>2. n \in Task /\ n <= taken /\ taken \in Nat /\ n \in Nat
    BY DEF Task
  <2>3. \A m \in Task : outcome'[m] = IF m = n THEN v ELSE outcome[m]
    BY <1>4
  <2>4. \A m \in Task : m > taken => outcome'[m] = "pending"
    BY <2>2, <2>3
  <2>5. \A m \in Task : m <= taken /\ outcome'[m] = "pending" => m \in (blocked \cup running) \ {n}
    BY <2>1, <2>3
  <2>6. \A m \in blocked' \cup running' : m <= taken /\ outcome'[m] = "pending"
    BY <1>4, <2>3
  <2>7. QED
    BY <1>4, <2>4, <2>5, <2>6
<1>5. CASE \E n \in Task : InheritsError(n) \/ \E how \in {"ok"} \cup Errors : Return(n, how)
  <2>1. PICK n \in Task : InheritsError(n) \/ \E how \in {"ok"} \cup Errors : Return(n, how)
    BY <1>5
  <2>2. CASE InheritsError(n)
    <3>1. /\ n \in blocked \cup running /\ InputOf(n) \in {"ok"} \cup Errors
          /\ outcome' = [outcome EXCEPT ![n] = InputOf(n)]
          /\ UNCHANGED <<submitted, taken>>
      BY <2>2 DEF InheritsError
    <3>2. /\ blocked' \cup running' = (blocked \cup running) \ {n}
          /\ blocked' \subseteq blocked /\ running' \subseteq running
      BY <2>2 DEF InheritsError
    <3>3. QED
      BY <1>4, <3>1, <3>2
  <2>3. ASSUME NEW how \in {"ok"} \cup Errors, Return(n, how) PROVE TasksInPlace'
    <3>1. /\ n \in blocked \cup running
          /\ outcome' = [outcome EXCEPT ![n] = how]
          /\ UNCHANGED <<submitted, taken>>
      BY <2>3 DEF Return
    <3>2. /\ blocked' \cup running' = (blocked \cup running) \ {n}
          /\ blocked' \subseteq blocked /\ running' \subseteq running
      BY <2>3 DEF Return
    <3>3. QED
      BY <1>4, <3>1, <3>2
  <2>4. QED
    BY <2>1, <2>2, <2>3
<1>6. CASE UNCHANGED pool
  BY <1>6 DEF pool
<1>7. QED
  BY <1>1, <1>2, <1>3, <1>4, <1>5, <1>6 DEF PoolNext, Work

\* What a future holds stays.
LEMMA VerdictStays ==
  ASSUME PoolTypeOK, TasksInPlace, [PoolNext]_pool
  PROVE  \A n \in Task : outcome[n] # "pending" => outcome'[n] = outcome[n]
<1>1. ASSUME NEW n \in blocked \cup running PROVE outcome[n] = "pending"
  BY DEF TasksInPlace
<1>2. QED
  BY <1>1 DEF PoolTypeOK, PoolNext, Work, Submit, Take, GotInput, InheritsError, Return, pool

\* No task succeeds without the task it waits for having succeeded.
LEMMA SuccessHasInputNext ==
  ASSUME PoolTypeOK, TasksInPlace, SuccessHasInput, [PoolNext]_pool
  PROVE  SuccessHasInput'
<1>1. \A n \in Task : Dep[n] # 0 => Dep[n] \in Task
  BY PoolAssumption DEF Task
<1>2. \A n \in Task : InputOf(n) = "ok" => InputOf(n)' = "ok"
  BY <1>1, VerdictStays DEF InputOf
<1>3. \A n \in Task : outcome'[n] = "ok" \/ n \in running' =>
        \/ outcome[n] = "ok" \/ n \in running
        \/ InputOf(n) = "ok"
  BY DEF PoolTypeOK, PoolNext, Work, Submit, Take, GotInput, InheritsError, Return, pool, Errors
<1>4. QED
  BY <1>2, <1>3 DEF SuccessHasInput

\* The inductive invariant of the pool is inductive.
LEMMA PoolNextInv == PoolInv /\ [PoolNext]_pool => PoolInv'
BY PoolTypeNext, TasksInPlaceNext, SuccessHasInputNext DEF PoolInv

\* It holds in every state of the pool.
THEOREM PoolInvariance == PoolSpec => []PoolInv
BY PoolInitInv, PoolNextInv, PTL DEF PoolSpec

\* The first of the waiting tasks is not kept waiting by another waiting one.
LEMMA InvNeverStuck == PoolInv => NeverStuck
<1> SUFFICES ASSUME PoolInv, blocked # {}
             PROVE  running # {} \/ \E n \in blocked : InputOf(n) # "pending"
  BY DEF NeverStuck
<1>1. blocked \subseteq Nat
  BY DEF PoolInv, PoolTypeOK, Task
<1>2. PICK n \in blocked : \A m \in blocked : ~(<<m, n>> \in OpToRel(<, Nat))
  BY <1>1, NatLessThanWellFounded, WFMin
<1>3. \A m \in blocked : ~(m < n)
  BY <1>1, <1>2 DEF OpToRel
<1>4. n \in Task /\ n <= taken /\ taken \in Nat
  BY DEF PoolInv, PoolTypeOK, TasksInPlace
<1>5. CASE Dep[n] = 0
  BY <1>5 DEF InputOf
<1>6. CASE Dep[n] # 0
  <2>1. Dep[n] \in Task /\ Dep[n] < n /\ Dep[n] <= taken
    BY <1>4, <1>6, PoolAssumption DEF Task
  <2>2. Dep[n] \notin blocked
    BY <1>3, <2>1
  <2>3. outcome[Dep[n]] = "pending" => running # {}
    BY <2>1, <2>2 DEF PoolInv, TasksInPlace
  <2>4. QED
    BY <1>6, <2>3 DEF InputOf
<1>7. QED
  BY <1>5, <1>6

\* With any number of workers the pool never comes to a halt with all of them
\* waiting for steps that nobody runs.
THEOREM PoolNeverStuck == PoolSpec => []NeverStuck
BY PoolInvariance, InvNeverStuck, PTL
-----------------------------------------------------------------------------
(* The Optimizing flow                                                     *)

\* Every step of the flow is a step of the pool, or leaves it alone.
LEMMA FlowUsesPool ==
  ASSUME [Next]_vars
  PROVE  [PoolNext]_pool
BY DEF Next, FlowWorks, PoolWorks, PoolNext, Work, SubmitNext, SubmitStep, Collect, CollectFails,
       Raise, PlaceStep, FallBack, PlaceFails, Exit, vars, steps, pool

\* Neither flow nor pool comes to a halt with every worker waiting.
THEOREM OptimizingNeverStuck == Spec => []NeverStuck
<1>1. Init => PoolInv
  BY PoolInitInv DEF Init, StepsInit
<1>2. PoolInv /\ [Next]_vars => PoolInv'
  BY PoolNextInv, FlowUsesPool
<1>3. QED
  BY <1>1, <1>2, InvNeverStuck, PTL DEF Spec

-----------------------------------------------------------------------------
(* The first stage                                                         *)

\* The flow has seen the results it counts as collected.
Collecting ==
  /\ collected \in 0..NumStrategies
  /\ \A s \in 1..collected : outcome[STA(s)] = "ok"
  /\ pc = "collect" => collected < NumStrategies
  /\ pc \in {"place", "done"} => collected = NumStrategies
  /\ pc = "submit" => collected = 0

\* The link between the flow and its strategies is kept by every step.
LEMMA CollectingNext ==
  ASSUME PoolInv, Collecting, [Next]_vars
  PROVE  Collecting'
<1> USE ExplorationAssumption
<1>1. \A s \in 1..collected' : s <= collected => outcome'[STA(s)] = "ok"
  <2>1. \A s \in 1..collected : STA(s) \in Task
    BY DEF STA, Task, Collecting
  <2>2. \A s \in 1..collected : outcome'[STA(s)] = "ok"
    BY <2>1, VerdictStays, FlowUsesPool DEF PoolInv, Collecting
  <2>3. QED
    BY <2>2 DEF Collecting
<1>2. CASE SubmitNext
  BY <1>1, <1>2 DEF SubmitNext, Collecting
<1>3. CASE Collect
  <2>1. /\ pc = "collect" /\ collected' = collected + 1
        /\ outcome' = outcome /\ outcome[STA(collected + 1)] = "ok"
        /\ IF collected' = NumStrategies THEN pc' = "place" ELSE pc' = pc
    BY <1>3 DEF Collect, steps
  <2>2. collected \in Nat /\ collected < NumStrategies
    BY <2>1 DEF Collecting
  <2>3. \A s \in 1..collected' : outcome'[STA(s)] = "ok"
    BY <1>1, <2>1, <2>2
  <2>4. collected' \in 0..NumStrategies
    BY <2>1, <2>2
  <2>5. pc' = "collect" => collected' < NumStrategies
    BY <2>1, <2>2
  <2>6. QED
    BY <2>1, <2>3, <2>4, <2>5 DEF Collecting
<1>4. CASE collected' = collected /\ (pc' = pc \/ pc' \in {"failed", "exited"} \/ (pc = "place" /\ pc' = "done"))
  <2>1. \A s \in 1..collected' : outcome'[STA(s)] = "ok"
    BY <1>1, <1>4 DEF Collecting
  <2>2. QED
    BY <1>4, <2>1 DEF Collecting
<1>5. CASE (PoolWorks /\ UNCHANGED main) \/ UNCHANGED vars
  BY <1>4, <1>5 DEF main, vars
<1>6. CASE CollectFails \/ PlaceStep \/ FallBack \/ PlaceFails \/ Exit
  BY <1>4, <1>6 DEF CollectFails, PlaceStep, FallBack, PlaceFails, Exit, Raise
<1>7. QED
  BY <1>2, <1>3, <1>5, <1>6 DEF Next, FlowWorks

\* If every task has come to an outcome, there are none left to submit, take or run.
LEMMA NothingLeft ==
  ASSUME PoolInv, \A n \in 1..NumTasks : outcome[n] # "pending"
  PROVE  Drained /\ submitted = NumTasks
<1>1. blocked \cup running = {}
  BY DEF PoolInv, PoolTypeOK, TasksInPlace, Task
<1>2. taken \in Nat /\ submitted \in Nat /\ taken <= submitted /\ submitted <= NumTasks
      /\ NumTasks \in Nat \ {0}
  BY ExplorationAssumption DEF PoolInv, PoolTypeOK
<1>3. ~(NumTasks > taken)
  BY <1>2 DEF PoolInv, TasksInPlace, Task
<1>4. QED
  BY <1>1, <1>2, <1>3 DEF Drained

\* With every strategy's STA over, everything is.
LEMMA AllOver ==
  ASSUME PoolInv, \A s \in 1..NumStrategies : outcome[STA(s)] = "ok"
  PROVE  Drained /\ submitted = NumTasks /\ \A n \in 1..NumTasks : outcome[n] = "ok"
<1> USE ExplorationAssumption
<1>1. ASSUME NEW s \in 1..NumStrategies
      PROVE  outcome[3 * s] = "ok" /\ outcome[3 * s - 1] = "ok" /\ outcome[3 * s - 2] = "ok"
  <2>1. outcome[3 * s] = "ok"
    BY DEF STA
  <2>2. /\ 3 * s \in Task /\ 3 * s - 1 \in Task
        /\ Dep[3 * s] = 3 * s - 1 /\ Dep[3 * s - 1] = 3 * s - 2
        /\ 3 * s - 1 # 0 /\ 3 * s - 2 # 0
    BY DEF Task, Chains
  <2>3. outcome[3 * s - 1] = "ok"
    BY <2>1, <2>2 DEF PoolInv, SuccessHasInput, InputOf
  <2>4. QED
    BY <2>1, <2>2, <2>3 DEF PoolInv, SuccessHasInput, InputOf
<1>2. ASSUME NEW n \in 1..NumTasks PROVE outcome[n] = "ok"
  <2>1. PICK s \in 1..NumStrategies : n = 3 * s \/ n = 3 * s - 1 \/ n = 3 * s - 2
    <3>1. (n + 2) \div 3 \in 1..NumStrategies
      OBVIOUS
    <3>2. LET s == (n + 2) \div 3 IN n = 3 * s \/ n = 3 * s - 1 \/ n = 3 * s - 2
      OBVIOUS
    <3>3. QED
      BY <3>1, <3>2
  <2>2. QED
    BY <1>1, <2>1
<1>3. QED
  BY <1>2, NothingLeft

\* When floorplanning starts, the pool has nothing left to do in the run directory.
THEOREM OptimizingStageEndsQuiet == Spec => []StageEndsQuiet
<1>1. Init => PoolInv /\ Collecting
  <2> SUFFICES ASSUME Init PROVE PoolInv /\ Collecting
    OBVIOUS
  <2>1. PoolInv
    BY PoolInitInv DEF Init, StepsInit
  <2>2. collected = 0 /\ pc = "submit"
    BY DEF Init
  <2>3. QED
    BY <2>1, <2>2, ExplorationAssumption DEF Collecting
<1>2. PoolInv /\ Collecting /\ [Next]_vars => PoolInv' /\ Collecting'
  BY PoolNextInv, FlowUsesPool, CollectingNext
<1>3. PoolInv /\ Collecting => StageEndsQuiet
  BY AllOver DEF Collecting, StageEndsQuiet
<1>4. QED
  BY <1>1, <1>2, <1>3, PTL DEF Spec
-----------------------------------------------------------------------------
(* The choice                                                              *)

\* A synthesis that is over has left its area, and only such a one has.
Measured ==
  /\ measured \in [Strategy -> Areas \cup {0}]
  /\ \A s \in Strategy : outcome[Synthesis(s)] = "ok" => measured[s] \in Areas

\* There is a choice behind the exploration and none before.
Chosen ==
  /\ pc \in {"submit", "collect"} => chosen = 0
  /\ pc \in {"place", "done"} => chosen # 0

ChoiceInv == PoolInv /\ Collecting /\ Measured /\ Chosen

\* The tasks of a strategy.
LEMMA TasksOf ==
  ASSUME NEW s \in Strategy
  PROVE  /\ STA(s) \in Task /\ Synthesis(s) \in Task /\ STA(s) - 1 \in Task
         /\ Dep[STA(s)] = STA(s) - 1 /\ Dep[STA(s) - 1] = Synthesis(s)
         /\ Dep[STA(s)] # 0 /\ Dep[STA(s) - 1] # 0
         /\ \A t \in Strategy : STA(s) # Synthesis(t)
         /\ \A t \in Strategy : STA(s) = STA(t) \/ Synthesis(s) = Synthesis(t) => s = t
         /\ StrategyOf(STA(s)) = s /\ StrategyOf(Synthesis(s)) = s
<1> USE ExplorationAssumption DEF STA, Synthesis, Strategy
<1>1. s \in Nat /\ s >= 1 /\ s <= NumStrategies /\ NumStrategies \in Nat
  OBVIOUS
<1>2. 3 * s \in 1..(3 * NumStrategies) /\ 3 * s - 1 \in 1..(3 * NumStrategies)
      /\ 3 * s - 2 \in 1..(3 * NumStrategies)
  BY <1>1
<1>3. (3 * s) % 3 # 1 /\ (3 * s - 1) % 3 # 1
  BY <1>1
<1>4. Dep[3 * s] = 3 * s - 1 /\ Dep[3 * s - 1] = 3 * s - 2
  BY <1>1, <1>2, <1>3 DEF Chains
<1>5. StrategyOf(3 * s) = s /\ StrategyOf(3 * s - 2) = s
  BY <1>1 DEF StrategyOf
<1>6. \A t \in Strategy : /\ 3 * s # 3 * t - 2
                          /\ 3 * s = 3 * t \/ 3 * s - 2 = 3 * t - 2 => s = t
  BY <1>1
<1>7. QED
  BY <1>1, <1>2, <1>4, <1>5, <1>6 DEF Task

\* A strategy whose STA has its input has an area.
LEMMA SuccessIsMeasured ==
  ASSUME PoolInv, Measured, NEW s \in Strategy,
         outcome[STA(s)] = "ok" \/ STA(s) \in running
  PROVE  outcome[Synthesis(s)] = "ok" /\ measured[s] \in Areas
<1>1. outcome[STA(s) - 1] = "ok"
  BY TasksOf DEF PoolInv, SuccessHasInput, InputOf
<1>2. outcome[Synthesis(s)] = "ok"
  BY <1>1, TasksOf DEF PoolInv, SuccessHasInput, InputOf
<1>3. QED
  BY <1>2 DEF Measured

\* Every step of the flow is one of the exploration's, or leaves its steps alone.
LEMMA FlowUsesSteps ==
  ASSUME [Next]_vars
  PROVE  [PoolWorks \/ SubmitStep]_steps
BY DEF Next, FlowWorks, SubmitNext, Collect, CollectFails, Raise, PlaceStep, FallBack,
       PlaceFails, Exit, vars

\* An area is only written by the synthesis it is about, while that is running.
LEMMA AreaIsWrittenOnce ==
  ASSUME PoolInv, Measured, [PoolWorks \/ SubmitStep]_steps
  PROVE  \/ measured' = measured
         \/ \E t \in Strategy, a \in Areas :
              /\ Synthesis(t) \in running
              /\ outcome[Synthesis(t)] = "pending"
              /\ outcome' = [outcome EXCEPT ![Synthesis(t)] = "ok"]
              /\ measured' = [measured EXCEPT ![t] = a]
<1>1. CASE \E n \in Task, how \in {"ok"} \cup Errors : Return(n, how) /\ Measure(n, how)
  <2>1. PICK n \in Task, how \in {"ok"} \cup Errors : Return(n, how) /\ Measure(n, how)
    BY <1>1
  <2>2. CASE how = "ok" /\ n = Synthesis(StrategyOf(n))
    <3>1. PICK a \in Areas : measured' = [measured EXCEPT ![StrategyOf(n)] = a]
      BY <2>1, <2>2 DEF Measure
    <3>2. StrategyOf(n) \in Strategy
      BY ExplorationAssumption DEF Task, StrategyOf, Strategy
    <3>3. n \in running /\ outcome' = [outcome EXCEPT ![n] = "ok"]
      BY <2>1, <2>2 DEF Return
    <3>4. outcome[n] = "pending"
      BY <3>3 DEF PoolInv, TasksInPlace
    <3>5. QED
      BY <2>2, <3>1, <3>2, <3>3, <3>4
  <2>3. CASE ~(how = "ok" /\ n = Synthesis(StrategyOf(n)))
    BY <2>1, <2>3 DEF Measure
  <2>4. QED
    BY <2>2, <2>3
<1>2. CASE ~(\E n \in Task, how \in {"ok"} \cup Errors : Return(n, how) /\ Measure(n, how))
  BY <1>2 DEF PoolWorks, SubmitStep, steps
<1>3. QED
  BY <1>1, <1>2

LEMMA MeasuredNext ==
  ASSUME PoolInv, Measured, [PoolWorks \/ SubmitStep]_steps
  PROVE  Measured'
<1>1. CASE \E t \in Strategy, a \in Areas :
              /\ outcome' = [outcome EXCEPT ![Synthesis(t)] = "ok"]
              /\ measured' = [measured EXCEPT ![t] = a]
  <2>1. PICK t \in Strategy, a \in Areas :
              /\ outcome' = [outcome EXCEPT ![Synthesis(t)] = "ok"]
              /\ measured' = [measured EXCEPT ![t] = a]
    BY <1>1
  <2>2. \A s \in Strategy : s # t => Synthesis(s) # Synthesis(t) /\ Synthesis(s) \in Task
    BY TasksOf
  <2>3. QED
    BY <2>1, <2>2 DEF Measured, PoolInv, PoolTypeOK
<1>2. CASE measured' = measured
  <2>1. ASSUME NEW s \in Strategy, outcome'[Synthesis(s)] = "ok", outcome[Synthesis(s)] # "ok"
        PROVE  measured'[s] \in Areas
    <3>1. Synthesis(s) \in Task
      BY TasksOf
    <3>2. PICK n \in Task, how \in {"ok"} \cup Errors : Return(n, how) /\ Measure(n, how)
      BY <2>1, <3>1
      DEF PoolWorks, SubmitStep, Submit, Take, GotInput, InheritsError, Errors, steps,
          PoolInv, PoolTypeOK
    <3>3. n = Synthesis(s) /\ how = "ok"
      BY <2>1, <3>1, <3>2 DEF Return, PoolInv, PoolTypeOK
    <3>4. StrategyOf(n) = s
      BY <3>3, TasksOf
    <3>5. PICK a \in Areas : measured' = [measured EXCEPT ![s] = a]
      BY <3>2, <3>3, <3>4 DEF Measure
    <3>6. QED
      BY <3>5 DEF Measured
  <2>2. QED
    BY <1>2, <2>1 DEF Measured
<1>3. QED
  BY <1>1, <1>2, AreaIsWrittenOnce

\* The comparison of Best ends at a strategy: the first of those with the least area.
LEMMA BestIsBest ==
  ASSUME \A s \in Strategy : measured[s] \in Nat
  PROVE  /\ Best \in Strategy
         /\ \A t \in Strategy : /\ measured[t] >= measured[Best]
                                /\ t < Best => measured[t] > measured[Best]
<1> DEFINE A == {measured[s] : s \in Strategy}
<1>1. A \subseteq Nat /\ A # {}
  BY ExplorationAssumption DEF Strategy
<1>2. PICK a \in A : \A b \in A : ~(<<b, a>> \in OpToRel(<, Nat))
  BY ONLY <1>1, NatLessThanWellFounded, WFMin
<1>3. \A b \in A : b >= a
  <2>1. A \subseteq Nat /\ a \in A
    BY <1>1
  <2>2. \A b \in A : ~(b < a)
    BY ONLY <1>2, <2>1 DEF OpToRel
  <2>3. QED
    BY ONLY <2>1, <2>2
<1> DEFINE F == {s \in Strategy : measured[s] = a}
<1>4. F \subseteq Nat /\ F # {}
  <2>1. PICK s \in Strategy : measured[s] = a
    BY <1>2
  <2>2. QED
    BY <2>1 DEF Strategy
<1>5. PICK f \in F : \A s \in F : ~(<<s, f>> \in OpToRel(<, Nat))
  BY ONLY <1>4, NatLessThanWellFounded, WFMin
<1>6. \A s \in F : ~(s < f)
  <2>1. F \subseteq Nat /\ f \in F
    BY <1>4
  <2>2. QED
    BY ONLY <1>5, <2>1 DEF OpToRel
<1>7. f \in Strategy /\ measured[f] = a
  OBVIOUS
<1>8. ASSUME NEW t \in Strategy
      PROVE  measured[t] >= measured[f] /\ (t < f => measured[t] > measured[f])
  <2>1. measured[t] >= a /\ measured[t] \in Nat /\ a \in Nat
    BY <1>1, <1>3
  <2>2. measured[t] = a => ~(t < f)
    BY <1>6
  <2>3. QED
    BY <1>7, <2>1, <2>2
<1>9. QED
  BY <1>7, <1>8 DEF Best

LEMMA ChosenNext ==
  ASSUME PoolInv, Collecting, Measured, Chosen, [Next]_vars
  PROVE  Chosen'
<1>1. CASE Collect
  <2>1. CASE collected' = NumStrategies
    <3>1. \A s \in Strategy : outcome[STA(s)] = "ok"
      BY <1>1, <2>1, ExplorationAssumption DEF Collect, Collecting, Strategy
    <3>2. \A s \in Strategy : measured[s] \in Nat
      BY <3>1, SuccessIsMeasured, ExplorationAssumption
    <3>3. Best \in Strategy
      BY <3>2, BestIsBest
    <3>4. pc' = "place" /\ chosen' = Best
      BY <1>1, <2>1 DEF Collect
    <3>5. QED
      BY <3>3, <3>4 DEF Chosen, Strategy
  <2>2. CASE collected' # NumStrategies
    BY <1>1, <2>2 DEF Collect, Chosen
  <2>3. QED
    BY <2>1, <2>2
<1>2. CASE ~Collect
  BY <1>2
  DEF Next, FlowWorks, SubmitNext, CollectFails, Raise, PlaceStep, FallBack, PlaceFails, Exit,
      main, vars, Chosen
<1>3. QED
  BY <1>1, <1>2

LEMMA ChoiceInvNext ==
  ASSUME ChoiceInv, [Next]_vars
  PROVE  ChoiceInv'
BY PoolNextInv, FlowUsesPool, FlowUsesSteps, CollectingNext, MeasuredNext, ChosenNext DEF ChoiceInv

-----------------------------------------------------------------------------
(* The first stage implements the choice                                   *)

AreaOf == [s \in Strategy |-> IF outcome[STA(s)] = "ok" THEN measured[s] ELSE 0]
FailedOf == {s \in Strategy : outcome[STA(s)] \in Errors}
GaveUp == pc \in {"failed", "exited"} /\ chosen = 0

\* A task that ends is no STA, and the abstract state stays, or it is one, and its
\* strategy comes to its verdict.
LEMMA VerdictMaps ==
  ASSUME ChoiceInv, UNCHANGED main,
         NEW n \in Task, NEW how \in {"ok"} \cup Errors,
         how = "ok" => n \in running,
         outcome[n] = "pending", outcome' = [outcome EXCEPT ![n] = how],
         Measure(n, how)
  PROVE  [Choice!ChoiceNext]_(Choice!cvars)
<1>1. /\ pc' = pc /\ chosen' = chosen
      /\ outcome \in [Task -> Outcome]
  BY DEF main, ChoiceInv, PoolInv, PoolTypeOK
<1>2. CASE \E s \in Strategy : n = STA(s)
  <2>1. PICK s \in Strategy : n = STA(s)
    BY <1>2
  <2>2. /\ outcome[STA(s)] = "pending"
        /\ outcome'[STA(s)] = how
        /\ \A t \in Strategy : t # s => outcome'[STA(t)] = outcome[STA(t)]
    BY <1>1, <2>1, TasksOf
  <2>3. measured' = measured
    BY <2>1, TasksOf DEF Measure
  <2>4. CASE how = "ok"
    <3>1. measured[s] \in Areas
      BY <2>1, <2>4, SuccessIsMeasured DEF ChoiceInv
    <3>2. QED
      BY <1>1, <2>2, <2>3, <2>4, <3>1
      DEF Choice!ChoiceNext, Choice!Succeed, Choice!Strategy, Strategy, Errors
  <2>5. CASE how \in Errors
    BY <1>1, <2>2, <2>3, <2>5
    DEF Choice!ChoiceNext, Choice!Fail, Choice!Strategy, Strategy, Errors
  <2>6. QED
    BY <2>4, <2>5
<1>3. CASE \A s \in Strategy : n # STA(s)
  <2>1. \A s \in Strategy : outcome'[STA(s)] = outcome[STA(s)]
    BY <1>1, <1>3, TasksOf
  <2>2. \A s \in Strategy : outcome[STA(s)] = "ok" => measured'[s] = measured[s]
    <3>1. ASSUME NEW s \in Strategy, outcome[STA(s)] = "ok"
          PROVE  measured'[s] = measured[s]
      <4>1. outcome[Synthesis(s)] = "ok"
        BY <3>1, SuccessIsMeasured DEF ChoiceInv
      <4>2. n # Synthesis(s)
        BY <4>1
      <4>3. CASE how = "ok" /\ n = Synthesis(StrategyOf(n))
        <5>1. PICK a \in Areas : measured' = [measured EXCEPT ![StrategyOf(n)] = a]
          BY <4>3 DEF Measure
        <5>2. StrategyOf(n) # s
          BY <4>2, <4>3
        <5>3. QED
          BY <5>1, <5>2 DEF ChoiceInv, Measured
      <4>4. CASE ~(how = "ok" /\ n = Synthesis(StrategyOf(n)))
        BY <4>4 DEF Measure
      <4>5. QED
        BY <4>3, <4>4
    <3>2. QED
      BY <3>1
  <2>3. QED
    BY <1>1, <2>1, <2>2 DEF Choice!cvars
<1>4. QED
  BY <1>2, <1>3

\* A step of the pool that ends no task leaves the abstract state, and so does every
\* step of the flow's thread but the last Collect and CollectFails.
LEMMA ChoiceStep ==
  ASSUME ChoiceInv, ChoiceInv', [Next]_vars
  PROVE  [Choice!ChoiceNext]_(Choice!cvars)
<1>1. CASE UNCHANGED <<outcome, measured, chosen>> /\ GaveUp' = GaveUp
  BY <1>1 DEF GaveUp, Choice!cvars
<1>2. CASE PoolWorks /\ UNCHANGED main
  <2>1. CASE outcome' = outcome /\ measured' = measured
    BY <1>1, <1>2, <2>1 DEF main, GaveUp
  <2>2. ASSUME NEW n \in Task, InheritsError(n), UNCHANGED measured
        PROVE  [Choice!ChoiceNext]_(Choice!cvars)
    <3>1. /\ InputOf(n) \in Errors /\ outcome[n] = "pending"
          /\ outcome' = [outcome EXCEPT ![n] = InputOf(n)]
      BY <2>2 DEF InheritsError, ChoiceInv, PoolInv, TasksInPlace
    <3>2. InputOf(n) # "ok" /\ Measure(n, InputOf(n))
      BY <2>2, <3>1 DEF Measure, Errors
    <3>3. QED
      BY <1>2, <3>1, <3>2, VerdictMaps
  <2>3. ASSUME NEW n \in Task, NEW how \in {"ok"} \cup Errors, Return(n, how), Measure(n, how)
        PROVE  [Choice!ChoiceNext]_(Choice!cvars)
    <3>1. n \in running /\ outcome[n] = "pending" /\ outcome' = [outcome EXCEPT ![n] = how]
      BY <2>3 DEF Return, ChoiceInv, PoolInv, TasksInPlace
    <3>2. QED
      BY <1>2, <2>3, <3>1, VerdictMaps
  <2>4. QED
    BY <1>2, <2>1, <2>2, <2>3 DEF PoolWorks, Take, GotInput
<1>3. CASE Collect
  <2>1. CASE collected' = NumStrategies
    <3>1. \A s \in Strategy : outcome[STA(s)] = "ok"
      BY <1>3, <2>1, ExplorationAssumption DEF Collect, ChoiceInv, Collecting, Strategy
    <3>2. \A s \in Strategy : measured[s] \in Nat \ {0}
      BY <3>1, SuccessIsMeasured, ExplorationAssumption DEF ChoiceInv
    <3>3. /\ Best \in Strategy
          /\ \A t \in Strategy : /\ measured[t] >= measured[Best]
                                 /\ t < Best => measured[t] > measured[Best]
      BY <3>2, BestIsBest
    <3>4. /\ pc = "collect" /\ chosen = 0
          /\ pc' = "place" /\ chosen' = Best
          /\ outcome' = outcome /\ measured' = measured
      BY <1>3, <2>1 DEF Collect, steps, ChoiceInv, Chosen
    <3>5. AreaOf = measured /\ AreaOf' = AreaOf /\ FailedOf = {} /\ FailedOf' = {}
          /\ ~GaveUp /\ ~GaveUp'
      BY <3>1, <3>4 DEF AreaOf, FailedOf, GaveUp, ChoiceInv, Measured, Errors
    <3>6. Choice!IsBest(Best)
      <4>1. \A t \in Strategy : AreaOf[t] = measured[t]
        BY <3>5
      <4>2. \A t \in Strategy : /\ AreaOf[t] >= AreaOf[Best]
                                /\ t < Best => AreaOf[t] > AreaOf[Best]
        BY <3>3, <4>1
      <4>3. QED
        BY <4>2 DEF Choice!IsBest, Choice!Strategy, Strategy, AreaOf
    <3>7. \A t \in Strategy : AreaOf[t] # 0
      BY <3>2, <3>5
    <3>8. Choice!Choose
      BY <3>3, <3>4, <3>5, <3>6, <3>7
      DEF Choice!Choose, Choice!Strategy, Strategy, AreaOf, FailedOf, GaveUp
    <3>9. QED
      BY <3>8 DEF Choice!ChoiceNext
  <2>2. CASE collected' # NumStrategies
    BY <1>1, <1>3, <2>2 DEF Collect, steps, GaveUp
  <2>3. QED
    BY <2>1, <2>2
<1>4. CASE CollectFails
  <2>1. /\ pc = "collect" /\ chosen = 0
        /\ pc' = "failed" /\ chosen' = chosen
        /\ outcome' = outcome /\ measured' = measured
        /\ outcome[STA(collected + 1)] \in Errors
    BY <1>4 DEF CollectFails, Raise, steps, ChoiceInv, Chosen
  <2>2. collected + 1 \in Strategy
    BY <2>1, ExplorationAssumption DEF ChoiceInv, Collecting, Strategy
  <2>3. Choice!GiveUp
    BY <2>1, <2>2 DEF Choice!GiveUp, Choice!Strategy, Strategy
  <2>4. QED
    BY <2>3 DEF Choice!ChoiceNext
<1>5. CASE SubmitNext \/ PlaceStep \/ FallBack \/ UNCHANGED vars
  BY <1>1, <1>5 DEF SubmitNext, SubmitStep, Submit, PlaceStep, FallBack, vars, main, steps, GaveUp
<1>6. CASE PlaceFails \/ Exit
  <2>1. GaveUp' = GaveUp /\ chosen' = chosen /\ outcome' = outcome /\ measured' = measured
    BY <1>6 DEF PlaceFails, Raise, Exit, steps, GaveUp, ChoiceInv, Chosen
  <2>2. QED
    BY <1>1, <2>1
<1>7. QED
  BY <1>2, <1>3, <1>4, <1>5, <1>6 DEF Next, FlowWorks

\* Whatever the order the pool ran the strategies in, the flow does what the choice
\* promises: it waits for all of them, and takes the first of those with the least area.
THEOREM OptimizingImplementsChoice == Spec => ImplementsChoice
<1>1. Init => ChoiceInv /\ Choice!ChoiceInit
  <2> SUFFICES ASSUME Init PROVE ChoiceInv /\ Choice!ChoiceInit
    OBVIOUS
  <2>1. PoolInv
    BY PoolInitInv DEF Init, StepsInit
  <2>2. /\ collected = 0 /\ pc = "submit" /\ chosen = 0
        /\ measured = [s \in Strategy |-> 0]
        /\ outcome = [n \in Task |-> "pending"]
    BY DEF Init, StepsInit, PoolInit
  <2>3. \A s \in Strategy : outcome[STA(s)] = "pending" /\ outcome[Synthesis(s)] = "pending"
    BY <2>2, TasksOf
  <2>4. ChoiceInv
    BY <2>1, <2>2, <2>3, ExplorationAssumption DEF ChoiceInv, Collecting, Measured, Chosen
  <2>5. Choice!ChoiceInit
    BY <2>2, <2>3 DEF Choice!ChoiceInit, Choice!Strategy, Strategy, Errors
  <2>6. QED
    BY <2>4, <2>5
<1>2. ChoiceInv /\ [Next]_vars => ChoiceInv'
  BY ChoiceInvNext
<1>3. ChoiceInv /\ ChoiceInv' /\ [Next]_vars => [Choice!ChoiceNext]_(Choice!cvars)
  BY ChoiceStep
<1>4. QED
  BY <1>1, <1>2, <1>3, PTL DEF Spec, ImplementsChoice, Choice!ChoiceSpec
-----------------------------------------------------------------------------
(* The SynthesisExploration flow, and what either flow ends with           *)

\* No task has an outcome before the one it waits for.
OverHasInput == \A n \in Task : outcome[n] # "pending" => InputOf(n) # "pending"

LEMMA OverHasInputNext ==
  ASSUME PoolInv, OverHasInput, [PoolNext]_pool
  PROVE  OverHasInput'
<1>1. \A n \in Task : Dep[n] # 0 => Dep[n] \in Task
  BY PoolAssumption DEF Task
<1>2. \A n \in Task : InputOf(n) # "pending" => InputOf(n)' # "pending"
  BY <1>1, VerdictStays DEF InputOf, PoolInv
<1>3. \A n \in Task : outcome'[n] # "pending" =>
        \/ outcome[n] # "pending" \/ n \in running
        \/ InputOf(n) # "pending"
  BY DEF PoolInv, PoolTypeOK, PoolNext, Work, Submit, Take, GotInput, InheritsError, Return, pool, Errors
<1>4. \A n \in Task : n \in running => InputOf(n) # "pending"
  BY DEF PoolInv, SuccessHasInput
<1>5. QED
  BY <1>2, <1>3, <1>4 DEF OverHasInput

\* Both flows run their steps in the same pool, by the same rules.
LEMMA ExplorationUsesSteps ==
  ASSUME [FlowNext]_allVars
  PROVE  [PoolWorks \/ SubmitStep]_steps /\ [PoolNext]_pool
<1>1. S!PoolWorks => PoolWorks
  <2>1. S!Task = Task /\ S!Errors = Errors
    BY DEF S!Task, Task, S!Errors, Errors
  <2>2. S!Take => Take
    BY DEF S!Take, Take, S!Cardinality, Cardinality, S!IsFiniteSet, IsFiniteSet
  <2>3. ASSUME NEW n \in Task PROVE S!InputOf(n) = InputOf(n)
    BY DEF S!InputOf, InputOf
  <2>4. ASSUME NEW n \in Task PROVE S!GotInput(n) => GotInput(n)
    BY <2>3 DEF S!GotInput, GotInput
  <2>5. ASSUME NEW n \in Task PROVE S!InheritsError(n) => InheritsError(n)
    BY <2>1, <2>3 DEF S!InheritsError, InheritsError
  <2>6. ASSUME NEW n \in Task, NEW how PROVE S!Return(n, how) => Return(n, how)
    BY DEF S!Return, Return
  <2>7. ASSUME NEW n \in Task, NEW how PROVE S!Measure(n, how) => Measure(n, how)
    BY DEF S!Measure, Measure, S!StrategyOf, StrategyOf, S!Synthesis, Synthesis
  <2>8. QED
    BY <2>1, <2>2, <2>4, <2>5, <2>6, <2>7 DEF S!PoolWorks, PoolWorks
<1>2. S!SubmitStep => SubmitStep
  BY DEF S!SubmitStep, SubmitStep, S!Submit, Submit
<1>3. [PoolWorks \/ SubmitStep]_steps
  <2>1. CASE OptimizingRuns(Next)
    BY <2>1, FlowUsesSteps DEF OptimizingRuns
  <2>2. CASE ExplorationRuns(S!Next)
    BY <1>1, <1>2, <2>2
    DEF ExplorationRuns, S!Next, S!FlowWorks, S!SubmitNext, S!Collect, S!CollectFails, S!Raise,
        S!Tabulate, S!TabulateFails, S!Exit, S!steps, steps
  <2>3. CASE UNCHANGED allVars
    BY <2>3 DEF allVars, vars
  <2>4. QED
    BY <2>1, <2>2, <2>3 DEF FlowNext
<1>4. QED
  BY <1>3 DEF PoolWorks, SubmitStep, PoolNext, Work, steps, pool

\* The futures that are gathered are over, and what they left is in the results; there
\* is a table only behind the last of them, and it is faithful.
Gathering ==
  /\ gathered \in 0..NumStrategies
  /\ at = "submit" => gathered = 0
  /\ at = "collect" => gathered < NumStrategies
  /\ at = "tabulate" => gathered = NumStrategies
  /\ results \in [Strategy -> Nat]
  /\ \A s \in 1..gathered :
       /\ outcome[STA(s)] # "pending"
       /\ results[s] = IF outcome[STA(s)] = "ok" THEN measured[s] ELSE 0
  /\ table # S!NoTable => gathered = NumStrategies /\ submitted = NumTasks /\ S!TableIsFaithful

ExploringInv == PoolInv /\ OverHasInput /\ Measured /\ Gathering

\* Nothing moves in a pool that is done.
LEMMA DoneStays ==
  ASSUME PoolInv, Drained, submitted = NumTasks, [PoolWorks \/ SubmitStep]_steps
  PROVE  UNCHANGED steps
BY DEF Drained, PoolWorks, SubmitStep, Submit, Take, GotInput, InheritsError, Return, steps,
       PoolInv, PoolTypeOK

\* The pool's own steps leave what was gathered as it is.
LEMMA GatheringStays ==
  ASSUME ExploringInv, [PoolWorks \/ SubmitStep]_steps, [PoolNext]_pool,
         UNCHANGED <<gathered, results, table>>, at' = at
  PROVE  Gathering'
<1>1. ASSUME NEW s \in 1..gathered
      PROVE  /\ outcome'[STA(s)] # "pending"
             /\ results[s] = IF outcome'[STA(s)] = "ok" THEN measured'[s] ELSE 0
  <2>1. s \in Strategy
    BY ExplorationAssumption DEF ExploringInv, Gathering, Strategy
  <2>2. outcome[STA(s)] # "pending" /\ STA(s) \in Task
    BY <2>1, TasksOf DEF ExploringInv, Gathering
  <2>3. outcome'[STA(s)] = outcome[STA(s)]
    BY <2>2, VerdictStays DEF ExploringInv, PoolInv
  <2>4. outcome[STA(s)] = "ok" => measured'[s] = measured[s]
    <3>1. SUFFICES ASSUME outcome[STA(s)] = "ok" PROVE measured'[s] = measured[s]
      OBVIOUS
    <3>2. outcome[Synthesis(s)] = "ok"
      BY <2>1, <3>1, SuccessIsMeasured DEF ExploringInv
    <3>3. QED
      BY <2>1, <3>2, AreaIsWrittenOnce DEF ExploringInv, Measured
  <2>5. QED
    BY <2>2, <2>3, <2>4 DEF ExploringInv, Gathering
<1>2. table # S!NoTable => UNCHANGED steps
  BY DoneStays DEF ExploringInv, Gathering, S!TableIsFaithful, S!Drained, Drained
<1>3. table # S!NoTable => submitted' = NumTasks /\ S!TableIsFaithful'
  <2>1. SUFFICES ASSUME table # S!NoTable PROVE submitted' = NumTasks /\ S!TableIsFaithful'
    OBVIOUS
  <2>2. /\ submitted = NumTasks /\ S!TableIsFaithful
        /\ UNCHANGED <<submitted, taken, blocked, running, outcome, measured, table>>
    BY <1>2, <2>1 DEF ExploringInv, Gathering, steps
  <2>3. QED
    BY <2>2 DEF S!TableIsFaithful, S!Drained, S!Ok, S!Strategy, S!Synthesis, S!STA
<1>4. S!NoTable' = S!NoTable
  BY DEF S!NoTable
<1>5. QED
  BY <1>1, <1>3, <1>4 DEF ExploringInv, Gathering

\* A strategy's steps succeeded exactly if its STA did.
LEMMA OkIsSTA ==
  ASSUME PoolInv, NEW s \in Strategy
  PROVE  S!Ok(s) <=> outcome[STA(s)] = "ok"
<1>1. outcome[STA(s)] = "ok" => outcome[STA(s) - 1] = "ok"
  BY TasksOf DEF PoolInv, SuccessHasInput, InputOf
<1>2. outcome[STA(s) - 1] = "ok" => outcome[Synthesis(s)] = "ok"
  BY TasksOf DEF PoolInv, SuccessHasInput, InputOf
<1>3. S!Synthesis(s)..S!STA(s) = {Synthesis(s), STA(s) - 1, STA(s)}
  BY ExplorationAssumption DEF S!Synthesis, S!STA, Synthesis, STA, Strategy
<1>4. QED
  BY <1>1, <1>2, <1>3 DEF S!Ok

\* When the last future is gathered, every task is over.
LEMMA GatheredIsAll ==
  ASSUME ExploringInv, gathered = NumStrategies
  PROVE  Drained /\ submitted = NumTasks
<1>1. ASSUME NEW s \in Strategy
      PROVE  /\ outcome[3 * s] # "pending" /\ outcome[3 * s - 1] # "pending"
             /\ outcome[3 * s - 2] # "pending"
  <2>1. outcome[STA(s)] # "pending"
    BY DEF ExploringInv, Gathering, Strategy
  <2>2. outcome[STA(s) - 1] # "pending"
    BY <2>1, TasksOf DEF ExploringInv, OverHasInput, InputOf
  <2>3. outcome[Synthesis(s)] # "pending"
    BY <2>2, TasksOf DEF ExploringInv, OverHasInput, InputOf
  <2>4. QED
    BY <2>1, <2>2, <2>3 DEF STA, Synthesis
<1>2. ASSUME NEW n \in 1..NumTasks PROVE outcome[n] # "pending"
  <2>1. (n + 2) \div 3 \in Strategy
    BY ExplorationAssumption DEF Strategy
  <2>2. LET s == (n + 2) \div 3 IN n = 3 * s \/ n = 3 * s - 1 \/ n = 3 * s - 2
    BY ExplorationAssumption
  <2>3. QED
    BY <1>1, <2>1, <2>2
<1>3. QED
  BY <1>2, NothingLeft DEF ExploringInv

\* A nonempty set of naturals has a least member, and it is its minimum.
LEMMA MinIsLeast ==
  ASSUME NEW A \in SUBSET Nat, A # {}
  PROVE  S!Min(A) \in A /\ \A a \in A : S!Min(A) <= a
<1>1. PICK n \in A : \A m \in A : ~(<<m, n>> \in OpToRel(<, Nat))
  BY ONLY A \in SUBSET Nat, A # {}, NatLessThanWellFounded, WFMin
<1>2. \A m \in A : n <= m
  <2>1. \A m \in A : ~(m < n) /\ m \in Nat /\ n \in Nat
    BY <1>1 DEF OpToRel
  <2>2. QED
    BY <2>1
<1>3. QED
  BY <1>2 DEF S!Min

\* The table shows what was gathered.
LEMMA TableIsWritten ==
  ASSUME ExploringInv, S!Tabulate
  PROVE  submitted = NumTasks /\ S!TableIsFaithful'
<1>1. /\ at = "tabulate" /\ gathered = NumStrategies /\ S!Successful # {}
      /\ table' = [s \in Strategy |->
                     <<results[s], results[s] = S!Min({results[t] : t \in S!Successful})>>]
      /\ UNCHANGED <<submitted, taken, blocked, running, outcome, measured, results>>
  BY DEF S!Tabulate, ExploringInv, Gathering, S!Strategy, Strategy, S!steps
<1>2. Drained /\ submitted = NumTasks
  BY <1>1, GatheredIsAll
<1>3. ASSUME NEW s \in Strategy
      PROVE  /\ results[s] = IF S!Ok(s) THEN measured[s] ELSE 0
             /\ results[s] \in Nat
             /\ S!Ok(s) <=> results[s] # 0
  <2>1. results[s] = IF outcome[STA(s)] = "ok" THEN measured[s] ELSE 0
    BY <1>1 DEF ExploringInv, Gathering, Strategy
  <2>2. outcome[STA(s)] = "ok" => measured[s] \in Nat \ {0}
    BY SuccessIsMeasured, ExplorationAssumption DEF ExploringInv
  <2>3. QED
    BY <2>1, <2>2, OkIsSTA DEF ExploringInv
<1>. DEFINE A == {results[t] : t \in S!Successful}
            least == S!Min(A)
<1>4. S!Successful = {s \in Strategy : S!Ok(s)}
  BY <1>3 DEF S!Successful, S!Strategy, Strategy
<1>5. A \in SUBSET Nat /\ A # {}
  BY <1>1, <1>3, <1>4
<1>6. least \in A /\ \A a \in A : least <= a
  BY <1>5, MinIsLeast
<1>. HIDE DEF least
<1>7. ASSUME NEW s \in Strategy
      PROVE  results[s] = least <=> S!Ok(s) /\ \A t \in Strategy : S!Ok(t) => measured[t] >= measured[s]
  <2>1. CASE results[s] = least
    <3>1. S!Ok(s)
      BY <1>3, <1>4, <1>6, <2>1
    <3>2. \A t \in Strategy : S!Ok(t) => results[t] \in A
      BY <1>4
    <3>3. QED
      BY <1>3, <1>6, <2>1, <3>1, <3>2
  <2>2. CASE S!Ok(s) /\ \A t \in Strategy : S!Ok(t) => measured[t] >= measured[s]
    <3>1. PICK t \in Strategy : S!Ok(t) /\ results[t] = least
      BY <1>4, <1>6
    <3>2. results[s] \in A
      BY <1>4, <2>2
    <3>3. least <= results[s] /\ results[t] >= results[s] /\ results[s] \in Nat /\ results[t] \in Nat
      BY <1>3, <1>6, <2>2, <3>1, <3>2
    <3>4. least \in Nat /\ results[t] = least
      BY <3>1, <3>3
    <3>5. QED
      BY <2>2, <3>3, <3>4
  <2>3. QED
    BY <2>1, <2>2
<1>8. ASSUME NEW s \in Strategy
      PROVE  /\ table'[s][1] = IF S!Ok(s) THEN measured[s] ELSE 0
             /\ table'[s][2] <=> S!Ok(s) /\ \A t \in Strategy : S!Ok(t) => measured[t] >= measured[s]
  <2>1. table'[s] = <<results[s], results[s] = least>>
    BY <1>1 DEF least
  <2>2. table'[s][1] = results[s] /\ table'[s][2] = (results[s] = least)
    <3>. DEFINE marked == (results[s] = least)
    <3>1. table'[s] = <<results[s], marked>>
      BY <2>1
    <3>. HIDE DEF marked
    <3>2. table'[s][1] = results[s] /\ table'[s][2] = marked
      BY <3>1
    <3>3. QED
      BY <3>2 DEF marked
  <2>3. QED
    BY <1>3, <1>7, <2>2
<1>9. QED
  BY <1>1, <1>2, <1>8 DEF S!TableIsFaithful, S!Drained, Drained, S!Ok, S!Strategy, Strategy

LEMMA GatheringNext ==
  ASSUME ExploringInv, [FlowNext]_allVars
  PROVE  Gathering'
<1>1. [PoolWorks \/ SubmitStep]_steps /\ [PoolNext]_pool
  BY ExplorationUsesSteps
<1>2. CASE UNCHANGED exploring
  BY <1>1, <1>2, GatheringStays DEF exploring
<1>3. CASE S!SubmitNext
  <2>1. /\ at = "submit" /\ at' \in {"submit", "collect"}
        /\ UNCHANGED <<gathered, results, table, blocked, running, outcome, measured, taken>>
        /\ submitted < NumTasks
    BY <1>3 DEF S!SubmitNext, S!SubmitStep, S!Submit
  <2>2. table = S!NoTable /\ gathered = 0
    BY <2>1, ExplorationAssumption DEF ExploringInv, Gathering
  <2>3. S!NoTable' = S!NoTable
    BY DEF S!NoTable
  <2>4. QED
    BY <2>1, <2>2, <2>3, ExplorationAssumption DEF ExploringInv, Gathering
<1>4. CASE S!Collect
  <2>1. /\ at = "collect" /\ gathered < NumStrategies /\ gathered' = gathered + 1
        /\ outcome[STA(gathered + 1)] \in {"ok", "StepError"}
        /\ results' = [results EXCEPT ![gathered + 1] =
                         IF outcome[STA(gathered + 1)] = "ok" THEN measured[gathered + 1] ELSE 0]
        /\ at' = IF gathered + 1 = NumStrategies THEN "tabulate" ELSE "collect"
        /\ UNCHANGED <<submitted, taken, blocked, running, outcome, measured, table>>
    BY <1>4 DEF S!Collect, S!STA, STA, S!steps, ExploringInv, Gathering
  <2>2. gathered \in Nat /\ NumStrategies \in Nat /\ gathered + 1 \in Strategy
    BY <2>1, ExplorationAssumption DEF ExploringInv, Gathering, Strategy
  <2>3. table = S!NoTable
    BY <2>1, <2>2 DEF ExploringInv, Gathering
  <2>4. measured[gathered + 1] \in Nat
    <3>1. measured[gathered + 1] \in Areas \cup {0}
      <4>1. measured \in [Strategy -> Areas \cup {0}]
        BY DEF ExploringInv, Measured
      <4>2. QED
        BY <2>2, <4>1
    <3>2. QED
      <4>1. \A a \in Areas \cup {0} : a \in Nat
        BY ExplorationAssumption
      <4>2. QED
        BY <3>1, <4>1
  <2>5. results' \in [Strategy -> Nat]
    BY <2>1, <2>2, <2>4 DEF ExploringInv, Gathering
  <2>6. ASSUME NEW s \in 1..gathered'
        PROVE  /\ outcome'[STA(s)] # "pending"
               /\ results'[s] = IF outcome'[STA(s)] = "ok" THEN measured'[s] ELSE 0
    <3>1. CASE s = gathered + 1
      BY <2>1, <2>2, <3>1 DEF ExploringInv, Gathering
    <3>2. CASE s # gathered + 1
      <4>1. s \in 1..gathered /\ s \in Strategy
        BY <2>1, <2>2, <3>2 DEF Strategy
      <4>2. QED
        BY <2>1, <3>2, <4>1 DEF ExploringInv, Gathering
    <3>3. QED
      BY <3>1, <3>2
  <2>7. S!NoTable' = S!NoTable
    BY DEF S!NoTable
  <2>8. QED
    BY <2>1, <2>2, <2>3, <2>5, <2>6, <2>7 DEF Gathering
<1>5. CASE S!Tabulate
  <2>1. submitted = NumTasks /\ S!TableIsFaithful'
    BY <1>5, TableIsWritten
  <2>2. /\ at' = "done"
        /\ UNCHANGED <<gathered, results, submitted, outcome, measured>>
    BY <1>5 DEF S!Tabulate, S!steps
  <2>3. gathered = NumStrategies
    BY <1>5 DEF S!Tabulate, ExploringInv, Gathering
  <2>4. QED
    BY <2>1, <2>2, <2>3 DEF ExploringInv, Gathering
<1>6. CASE S!CollectFails \/ S!TabulateFails \/ S!Exit
  <2>1. /\ at' \in {"failed", "exited"}
        /\ UNCHANGED <<gathered, results, table, submitted, taken, blocked, running, outcome, measured>>
    BY <1>6 DEF S!CollectFails, S!TabulateFails, S!Exit, S!Raise, S!steps
  <2>2. S!NoTable' = S!NoTable /\ S!TableIsFaithful' = S!TableIsFaithful
    BY <2>1 DEF S!NoTable, S!TableIsFaithful, S!Drained, S!Ok, S!Strategy, S!Synthesis, S!STA
  <2>3. QED
    BY <2>1, <2>2 DEF ExploringInv, Gathering
<1>7. QED
  BY <1>2, <1>3, <1>4, <1>5, <1>6
  DEF FlowNext, OptimizingRuns, ExplorationRuns, S!Next, S!FlowWorks, S!main, exploring, allVars

\* The state at hand in the placement was made by the steps so far.
Placing ==
  /\ pc \in {"submit", "collect"} => place = 1
  /\ pc \in {"place", "done"} =>
       /\ place \in 1..3 /\ (pc = "done" => place = 3)
       /\ view = [strategy |-> chosen,
                  steps |-> [i \in 1..(IF pc = "done" THEN 3 ELSE place - 1) |-> <<util, i>>]]

\* One step more.
LEMMA OneMore ==
  ASSUME NEW u, NEW n \in Nat
  PROVE  Append([i \in 1..n |-> <<u, i>>], <<u, n + 1>>) = [i \in 1..(n + 1) |-> <<u, i>>]
<1>. DEFINE before == [i \in 1..n |-> <<u, i>>]
            after == [i \in 1..(n + 1) |-> <<u, i>>]
<1>1. before \in Seq({<<u, i>> : i \in Nat}) /\ after \in Seq({<<u, i>> : i \in Nat})
  OBVIOUS
<1>2. Len(before) = n /\ Len(after) = n + 1
  OBVIOUS
<1>3. QED
  BY <1>1, <1>2

LEMMA PlacingNext ==
  ASSUME Placing, [Next]_vars
  PROVE  Placing'
<1>1. CASE SubmitNext
  BY <1>1 DEF SubmitNext, Placing
<1>2. CASE Collect
  <2>1. place' = 1 /\ [i \in 1..(1 - 1) |-> <<util', i>>] = <<>>
    BY <1>2 DEF Collect, Placing
  <2>2. pc' = "collect" \/ (pc' = "place" /\ view' = [strategy |-> chosen', steps |-> <<>>])
    BY <1>2 DEF Collect
  <2>3. CASE pc' = "collect"
    BY <2>1, <2>3 DEF Placing
  <2>4. CASE pc' = "place" /\ view' = [strategy |-> chosen', steps |-> <<>>]
    BY <2>1, <2>4 DEF Placing
  <2>5. QED
    BY <2>2, <2>3, <2>4
<1>3. CASE PlaceStep
  <2>1. /\ pc = "place" /\ place \in 1..3
        /\ view = [strategy |-> chosen, steps |-> [i \in 1..(place - 1) |-> <<util, i>>]]
    BY <1>3 DEF PlaceStep, Placing
  <2>2. view' = [strategy |-> chosen, steps |-> Append([i \in 1..(place - 1) |-> <<util, i>>], <<util, place>>)]
    BY <1>3, <2>1 DEF PlaceStep
  <2>3. place - 1 \in Nat /\ (place - 1) + 1 = place
    BY <2>1
  <2>4. view' = [strategy |-> chosen, steps |-> [i \in 1..place |-> <<util, i>>]]
    BY <2>2, <2>3, OneMore
  <2>5. chosen' = chosen /\ util' = util
    BY <1>3 DEF PlaceStep
  <2>6. CASE place = 3
    BY <1>3, <2>4, <2>5, <2>6 DEF PlaceStep, Placing
  <2>7. CASE place # 3
    <3>1. pc' = "place" /\ place' = place + 1 /\ place' \in 1..3 /\ place' - 1 = place
      BY <1>3, <2>1, <2>7 DEF PlaceStep
    <3>2. QED
      BY <2>4, <2>5, <3>1 DEF Placing
  <2>8. QED
    BY <2>6, <2>7
<1>4. CASE FallBack
  <2>1. /\ pc' = "place" /\ place' = 1 /\ chosen' = chosen
        /\ view' = [strategy |-> chosen, steps |-> <<>>]
    BY <1>4 DEF FallBack
  <2>2. [i \in 1..(place' - 1) |-> <<util', i>>] = <<>>
    BY <2>1
  <2>3. QED
    BY <2>1, <2>2 DEF Placing
<1>5. CASE CollectFails \/ PlaceFails \/ Exit
  BY <1>5 DEF CollectFails, PlaceFails, Exit, Raise, Placing
<1>6. CASE UNCHANGED main
  BY <1>6 DEF main, Placing
<1>7. QED
  BY <1>1, <1>2, <1>3, <1>4, <1>5, <1>6 DEF Next, FlowWorks, vars

LEMMA ExploringInvHolds == FlowSpec => [](ExploringInv /\ Placing)
<1>1. FlowInit => ExploringInv /\ Placing
  <2> SUFFICES ASSUME FlowInit PROVE ExploringInv /\ Placing
    OBVIOUS
  <2>2. PoolInv
    BY PoolInitInv DEF FlowInit, Init, StepsInit
  <2>3. /\ pc = "submit" /\ place = 1 /\ measured = [s \in Strategy |-> 0]
        /\ outcome = [n \in Task |-> "pending"]
        /\ at = "submit" /\ gathered = 0 /\ table = S!NoTable
        /\ results = [s \in Strategy |-> 0]
    BY DEF FlowInit, Init, StepsInit, PoolInit, S!Init, S!Strategy, Strategy
  <2>4. \A s \in Strategy : outcome[Synthesis(s)] = "pending"
    BY <2>3, TasksOf
  <2>5. OverHasInput /\ Measured
    BY <2>3, <2>4 DEF OverHasInput, Measured
  <2>6. Gathering /\ Placing
    BY <2>3, ExplorationAssumption DEF Gathering, Placing
  <2>7. QED
    BY <2>2, <2>5, <2>6 DEF ExploringInv
<1>2. ExploringInv /\ Placing /\ [FlowNext]_allVars => ExploringInv' /\ Placing'
  <2> SUFFICES ASSUME ExploringInv, Placing, [FlowNext]_allVars PROVE ExploringInv' /\ Placing'
    OBVIOUS
  <2>2. ExploringInv'
    BY ExplorationUsesSteps, PoolNextInv, OverHasInputNext, MeasuredNext, GatheringNext DEF ExploringInv
  <2>3. [Next]_vars \/ UNCHANGED main
    BY DEF FlowNext, OptimizingRuns, ExplorationRuns, allVars, vars
  <2>4. Placing'
    <3>1. CASE UNCHANGED main
      BY <3>1 DEF main, Placing
    <3>2. QED
      BY <2>3, <3>1, PlacingNext
  <2>5. QED
    BY <2>2, <2>4
<1>3. QED
  BY <1>1, <1>2, PTL DEF FlowSpec

\* Whichever of the two flows runs, the pool never comes to a halt with every worker waiting.
THEOREM ExploringNeverStuck == FlowSpec => []NeverStuck
<1>1. ExploringInv => NeverStuck
  BY InvNeverStuck DEF ExploringInv
<1>2. QED
  BY <1>1, ExploringInvHolds, PTL

\* Whichever of the two flows runs, and in whatever order the pool runs its steps, the
\* table shows each strategy as what it came to with nothing left over, and the placed
\* state is one strategy's at one utilization, for every number of strategies and workers.
THEOREM OutcomesAreFaithful == FlowSpec => []OutcomeIsFaithful
<1>1. ExploringInv /\ Placing => OutcomeIsFaithful
  <2> SUFFICES ASSUME ExploringInv, Placing PROVE S!TableIsFaithful /\ OneUtilization
    BY DEF OutcomeIsFaithful
  <2>1. S!TableIsFaithful
    BY DEF ExploringInv, Gathering, S!TableIsFaithful
  <2>2. OneUtilization
    BY DEF Placing, OneUtilization
  <2>3. QED
    BY <2>1, <2>2
<1>2. QED
  BY <1>1, ExploringInvHolds, PTL
=============================================================================
