------------------------------- MODULE Runner -------------------------------
(***************************************************************************)
(* The runner of approved tasks (internal/auto/runner.go).  Its users      *)
(* append a task and then call Run in a goroutine of their own, as         *)
(* TransitionManager.TransitionToAutoAndRun and                            *)
(* AutoPlanHandler.handleApproval do.  Run picks, marks and finishes a     *)
(* task in separate critical sections and looks at no state in between.    *)
(***************************************************************************)
EXTENDS Naturals, FiniteSets

CONSTANTS Loops,     \* the goroutines that call Run
          MaxTasks,  \* bound: tasks ever appended
          MaxBatch,  \* bound: tasks appended at once
          Checker,   \* whether an issue checker may end the run early
          Cancels,   \* whether the context of Run may be cancelled
          Commands   \* which of "stop", "pause", "reset" the owner uses

ASSUME RunnerBounds ==
    /\ MaxTasks \in Nat \ {0} /\ MaxBatch \in Nat \ {0}
    /\ Checker \in BOOLEAN /\ Cancels \in BOOLEAN
    /\ Commands \subseteq {"stop", "pause", "reset"}

TaskIds == 1 .. MaxTasks

VARIABLES state,   \* Runner.state
          first,   \* Runner.tasks is the tasks from first to added, in order;
          added,   \* ... Reset drops those appended so far
          task,    \* the state of each task
          loop,    \* where each goroutine is, and the task it has
          runs,    \* history: how often each task was executed
          freed    \* history: a Run went on when the state was no longer running

runnerVars == <<state, first, added, task, loop, runs, freed>>

Ready == [pc |-> "idle", task |-> 0]

RunnerInit ==
    /\ state = "idle"
    /\ first = 1 /\ added = 0
    /\ task = [t \in TaskIds |-> "none"]
    /\ loop = [l \in Loops |-> Ready]
    /\ runs = [t \in TaskIds |-> 0]
    /\ freed = FALSE

Pending == {t \in first .. added : task[t] = "pending"}

\* AddTask and AddTasks: n tasks are appended.
Append(n) ==
    /\ added + n <= MaxTasks
    /\ added' = added + n
    /\ task' = [t \in TaskIds |->
                   IF t \in added + 1 .. added + n THEN "pending" ELSE task[t]]
    /\ UNCHANGED <<state, first, runs, freed>>

\* A user appends tasks and starts the goroutine that will call Run.
Submit(l) ==
    /\ loop[l].pc = "idle"
    /\ \E n \in 1 .. MaxBatch : Append(n)
    /\ loop' = [loop EXCEPT ![l].pc = "call"]

----------------------------------------------------------------------------
(* Run, as goroutine l goes through it *)

Goto(l, pc) == loop' = [loop EXCEPT ![l] = [pc |-> pc, task |-> @.task]]
Leave(l) == loop' = [loop EXCEPT ![l] = Ready]

\* Mutant: the running state is not looked at.
RunCallAnyway(l) ==
    /\ loop[l].pc = "call"
    /\ state' = "running" /\ Goto(l, "next")
    /\ UNCHANGED <<first, added, task, runs, freed>>

\* Run fails if the runner is running: "runner is already running".
RunCall(l) ==
    /\ loop[l].pc = "call"
    /\ \/ state = "running" /\ Leave(l)
       \/ state # "running" /\ Goto(l, "next")
    /\ state' = "running"
    /\ UNCHANGED <<first, added, task, runs, freed>>

\* Mutant: the index of the next task is one too high.
RunNextTooFar(l) ==
    /\ loop[l].pc = "next"
    /\ IF Pending = {} THEN Goto(l, "exit")
       ELSE \E t \in Pending : /\ \A u \in Pending : t <= u
                               /\ loop' = [loop EXCEPT ![l] = [pc |-> "start", task |-> t + 1]]
    /\ UNCHANGED <<state, first, added, task, runs, freed>>

\* nextPendingTask: the first pending task, which stays pending for now.
RunNext(l) ==
    /\ loop[l].pc = "next"
    /\ IF Pending = {} THEN Goto(l, "exit")
       ELSE \E t \in Pending : /\ \A u \in Pending : t <= u
                               /\ loop' = [loop EXCEPT ![l] = [pc |-> "start", task |-> t]]
    /\ UNCHANGED <<state, first, added, task, runs, freed>>

RunCancelled(l) ==
    /\ Cancels /\ loop[l].pc = "next"
    /\ Goto(l, "exit")
    /\ UNCHANGED <<state, first, added, task, runs, freed>>

RunStart(l) ==
    /\ loop[l].pc = "start"
    /\ task' = [task EXCEPT ![loop[l].task] = "running"]
    /\ runs' = [runs EXCEPT ![loop[l].task] = @ + 1]
    /\ Goto(l, "execute")
    /\ UNCHANGED <<state, first, added, freed>>

\* Mutant: a task that failed is pending again.
RunFinishPending(l) ==
    /\ loop[l].pc = "execute"
    /\ \E result \in {"completed", "pending"} :
          task' = [task EXCEPT ![loop[l].task] = result]
    /\ Goto(l, "finished")
    /\ UNCHANGED <<state, first, added, runs, freed>>

\* The executor returned, with an error or not.
RunFinish(l) ==
    /\ loop[l].pc = "execute"
    /\ \E result \in {"completed", "failed"} :
          task' = [task EXCEPT ![loop[l].task] = result]
    /\ Goto(l, "finished")
    /\ UNCHANGED <<state, first, added, runs, freed>>

\* The task's state is read again, without the lock, and the open issues counted.
RunContinue(l) ==
    /\ loop[l].pc = "finished"
    /\ Goto(l, "next")
    /\ UNCHANGED <<state, first, added, task, runs, freed>>

RunNoOpenIssues(l) ==
    /\ Checker /\ loop[l].pc = "finished" /\ task[loop[l].task] = "completed"
    /\ state' = "completed" /\ freed' = TRUE
    /\ Goto(l, "exit")
    /\ UNCHANGED <<first, added, task, runs>>

\* The deferred function, after the callback with a copy of the tasks.
RunExit(l) ==
    /\ loop[l].pc = "exit"
    /\ state' = IF state = "running" THEN "completed" ELSE state
    /\ Leave(l)
    /\ UNCHANGED <<first, added, task, runs, freed>>

RunStep(l) ==
    \/ RunCall(l) \/ RunNext(l) \/ RunCancelled(l) \/ RunStart(l) \/ RunFinish(l)
    \/ RunContinue(l) \/ RunNoOpenIssues(l) \/ RunExit(l)

----------------------------------------------------------------------------
(* Stop, Pause, Resume and Reset *)

\* What a command does to the history: a Run may still be going on.
FreeIfRunning == IF state = "running" THEN freed' = TRUE ELSE freed' = freed

StopRunner ==
    /\ "stop" \in Commands
    /\ state' = "idle" /\ FreeIfRunning
    /\ UNCHANGED <<first, added, task, loop, runs>>

Pause ==
    /\ "pause" \in Commands /\ state = "running"
    /\ state' = "paused" /\ freed' = TRUE
    /\ UNCHANGED <<first, added, task, loop, runs>>

Resume ==
    /\ "pause" \in Commands /\ state = "paused"
    /\ state' = "running"
    /\ UNCHANGED <<first, added, task, loop, runs, freed>>

\* The list is new: a loop may still have a task of the old one.
Reset ==
    /\ "reset" \in Commands
    /\ first' = added + 1
    /\ state' = "idle" /\ FreeIfRunning
    /\ UNCHANGED <<added, task, loop, runs>>

Command == StopRunner \/ Pause \/ Resume \/ Reset

Next == (\E l \in Loops : Submit(l) \/ RunStep(l)) \/ Command

Spec == RunnerInit /\ [][Next]_runnerVars

\* A goroutine goes on: the executor and the issue checker return.
Fairness == \A l \in Loops : WF_runnerVars(RunStep(l))
FairSpec == Spec /\ Fairness

----------------------------------------------------------------------------
(* Properties *)

RunTypeOK ==
    /\ state \in {"idle", "running", "paused", "completed"}
    /\ first \in 1 .. MaxTasks + 1 /\ added \in 0 .. MaxTasks
    /\ task \in [TaskIds -> {"none", "pending", "running", "completed", "failed"}]
    /\ loop \in [Loops -> [pc : {"idle", "call", "next", "start", "execute", "finished",
                                 "exit"},
                           task : 0 .. MaxTasks]]
    /\ runs \in [TaskIds -> Nat]

\* Every variable keeps its type.
RunnerTypeOK == RunTypeOK /\ freed \in BOOLEAN

\* A task is executed at most once, although picking and marking it are two
\* critical sections, because a second Run is refused: "runner is already
\* running" (runner.go, Run).  True until a command, or a Run that found no
\* open issue, takes the running state away from a Run that goes on.
RunOnce == ~freed => \A t \in TaskIds : runs[t] <= 1

\* A completed runner executes nothing: "RunnerStateCompleted means all tasks are
\* done" (runner.go); the deferred function of Run sets it.  True under the
\* same condition.
CompletedIsQuiet ==
    state = "completed" /\ ~freed => \A t \in TaskIds : task[t] # "running"

\* A submitted task is executed: "Run starts executing all pending tasks"
\* (runner.go, Run).
SubmittedIsRun == \A t \in TaskIds : (task[t] = "pending") ~> (runs[t] > 0)

(* Claims of the code's comments that runs refute *)

\* A stopped or paused runner starts no task: "Stop stops the runner", "Pause
\* pauses the runner" (runner.go).
StartsWhileRunning ==
    [][\A t \in TaskIds : runs'[t] # runs[t] => state \notin {"idle", "paused"}]_runnerVars
=============================================================================
