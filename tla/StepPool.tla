----------------------------- MODULE StepPool -----------------------------
(***************************************************************************)
(* The thread pool that flows hand steps to (common/tpe.py) and what a     *)
(* step does in it: Flow.start_step_async submits step.start, which first  *)
(* waits for the state of the step before (Step.start on a future).        *)
(*                                                                         *)
(* Tasks are numbered in the order they are submitted in; the pool's queue *)
(* is first-in first-out, so two counters stand for it.                    *)
(***************************************************************************)
EXTENDS Naturals, FiniteSets

CONSTANTS NumTasks,  \* the tasks the flow submits
          Dep,       \* task -> the task whose future is its state_in, 0 if it has a State
          Workers    \* max_workers

Task == 1..NumTasks

Errors == {"StepError", "Exception"}    \* a StepError, or anything else
Outcome == {"pending", "ok"} \cup Errors

ASSUME PoolAssumption ==
  /\ NumTasks \in Nat
  /\ Dep \in [Task -> Nat]
  /\ \A n \in Task : Dep[n] < n
  /\ Workers \in Nat \ {0}

VARIABLES submitted,  \* tasks submitted so far
          taken,      \* tasks a worker has taken off the queue
          blocked,    \* tasks of workers inside state_in.result()
          running,    \* tasks of workers behind it
          outcome     \* what each task's future holds

pool == <<submitted, taken, blocked, running, outcome>>

PoolInit ==
  /\ submitted = 0
  /\ taken = 0
  /\ blocked = {}
  /\ running = {}
  /\ outcome = [n \in Task |-> "pending"]

Submit == /\ submitted < NumTasks
          /\ submitted' = submitted + 1
          /\ UNCHANGED <<taken, blocked, running, outcome>>

\* A free worker takes the oldest task and asks for its input state.
Take == /\ taken < submitted
        /\ Cardinality(blocked \cup running) < Workers
        /\ taken' = taken + 1
        /\ blocked' = blocked \cup {taken + 1}
        /\ UNCHANGED <<submitted, running, outcome>>

\* Mutant of InputOf: the future is looked up when it is asked for.
InputOfNewest(n) == IF Dep[n] = 0 THEN "ok" ELSE outcome[submitted]

\* state_in: a State, or the future of an earlier step.
InputOf(n) == IF Dep[n] = 0 THEN "ok" ELSE outcome[Dep[n]]

\* state_in.result() returns a state.
GotInput(n) == /\ n \in blocked
               /\ InputOf(n) = "ok"
               /\ blocked' = blocked \ {n}
               /\ running' = running \cup {n}
               /\ UNCHANGED <<submitted, taken, outcome>>

\* Mutant of InheritsError: an exception that is no StepError is swallowed.
InheritsStepError(n) == /\ n \in blocked
                        /\ InputOf(n) = "StepError"
                        /\ blocked' = blocked \ {n}
                        /\ outcome' = [outcome EXCEPT ![n] = "StepError"]
                        /\ UNCHANGED <<submitted, taken, running>>

\* state_in.result() raises what the step before raised, and so does this one.
InheritsError(n) == /\ n \in blocked
                    /\ InputOf(n) \in Errors
                    /\ blocked' = blocked \ {n}
                    /\ outcome' = [outcome EXCEPT ![n] = InputOf(n)]
                    /\ UNCHANGED <<submitted, taken, running>>

\* The step writes its directory, runs its tool, and returns or raises.
Return(n, how) == /\ n \in running
                  /\ running' = running \ {n}
                  /\ outcome' = [outcome EXCEPT ![n] = how]
                  /\ UNCHANGED <<submitted, taken, blocked>>

Work == \/ Take
        \/ \E n \in Task : GotInput(n) \/ InheritsError(n)
        \/ \E n \in Task, how \in {"ok"} \cup Errors : Return(n, how)

PoolNext == Submit \/ Work

PoolSpec == PoolInit /\ [][PoolNext]_pool
-----------------------------------------------------------------------------
(* Properties                                                              *)

\* Every variable keeps its type.
PoolTypeOK == /\ submitted \in 0..NumTasks
              /\ taken \in 0..submitted
              /\ blocked \in SUBSET Task
              /\ running \in SUBSET Task
              /\ outcome \in [Task -> Outcome]

\* Whatever the number of workers, even one: the workers never all wait for
\* steps that nobody is running and nobody ran, as get_tpe's comment warns of
\* for tasks submitted from inside steps.
NeverStuck ==
  blocked # {} => running # {} \/ \E n \in blocked : InputOf(n) # "pending"

\* A step returned a state only if the step it takes its input from did.
SuccessHasInput ==
  \A n \in Task : outcome[n] = "ok" \/ n \in running => InputOf(n) = "ok"

=============================================================================
