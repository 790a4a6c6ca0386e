---------------------------- MODULE RunnerProofs ----------------------------
(***************************************************************************)
(* Theorems of Runner, for every set of callers, number of tasks and set   *)
(* of commands, and of AutoPlan, which uses it, for every set of issues    *)
(* and of goroutines that look for approvals.                              *)
(***************************************************************************)
EXTENDS MCRuns, TLAPS

USE RunnerBounds DEF RunnerBounds, TaskIds

-----------------------------------------------------------------------------
(* Types.  A caller that starts or executes a task has one.                *)

HasTask == \A l \in Loops : loop[l].pc \in {"start", "execute", "finished"}
                                => loop[l].task \in TaskIds
TypeInv == RunTypeOK /\ HasTask

LEMMA InitType == RunnerInit => TypeInv
BY DEF RunnerInit, TypeInv, RunTypeOK, HasTask, Ready

LEMMA RunType ==
  ASSUME NEW l \in Loops, TypeInv, RunStep(l)
  PROVE  TypeInv'
<1> USE DEF TypeInv, RunTypeOK, HasTask, Goto, Leave, Ready
<1>1. CASE RunCall(l)
  <2>1. CASE Leave(l)
    BY <1>1, <2>1 DEF RunCall
  <2>2. CASE Goto(l, "next")
    BY <1>1, <2>2 DEF RunCall
  <2> QED
    BY <1>1, <2>1, <2>2 DEF RunCall
<1>2. CASE RunNext(l)
  <2>1. CASE Goto(l, "exit")
    BY <1>2, <2>1 DEF RunNext
  <2>2. ASSUME NEW t \in Pending, loop' = [loop EXCEPT ![l] = [pc |-> "start", task |-> t]]
        PROVE  TypeInv'
    BY <1>2, <2>2 DEF RunNext, Pending
  <2> QED
    BY <1>2, <2>1, <2>2 DEF RunNext
<1>3. CASE RunCancelled(l)
  BY <1>3 DEF RunCancelled
<1>4. CASE RunStart(l)
  BY <1>4 DEF RunStart
<1>5. CASE RunFinish(l)
  BY <1>5 DEF RunFinish
<1>6. CASE RunContinue(l)
  BY <1>6 DEF RunContinue
<1>7. CASE RunNoOpenIssues(l)
  BY <1>7 DEF RunNoOpenIssues
<1>8. CASE RunExit(l)
  BY <1>8 DEF RunExit
<1> QED
  BY <1>1, <1>2, <1>3, <1>4, <1>5, <1>6, <1>7, <1>8 DEF RunStep

LEMMA SubmitType ==
  ASSUME NEW l \in Loops, TypeInv, Submit(l)
  PROVE  TypeInv'
BY DEF TypeInv, RunTypeOK, HasTask, Submit, Append

LEMMA CommandType == ASSUME TypeInv, Command PROVE TypeInv'
BY DEF TypeInv, RunTypeOK, HasTask, Command, StopRunner, Pause, Resume, Reset

LEMMA TypeStep == TypeInv /\ [Next]_runnerVars => TypeInv'
<1>1. TypeInv /\ UNCHANGED runnerVars => TypeInv'
  BY DEF TypeInv, RunTypeOK, HasTask, runnerVars
<1> QED
  BY <1>1, RunType, SubmitType, CommandType DEF Next

(* Only the commands and the run that found no open issue change freed.     *)

LEMMA SubmitFreed == ASSUME NEW l \in Loops, Submit(l) PROVE freed' = freed
BY DEF Submit, Append

LEMMA RunFreed ==
  ASSUME NEW l \in Loops, RunStep(l)
  PROVE  \/ ~RunNoOpenIssues(l) /\ freed' = freed
         \/ RunNoOpenIssues(l) /\ freed' = TRUE
<1>1. RunNoOpenIssues(l) => freed' = TRUE
  BY DEF RunNoOpenIssues
<1>2. RunCall(l) \/ RunNext(l) \/ RunCancelled(l) \/ RunStart(l) => freed' = freed
  BY DEF RunCall, RunNext, RunCancelled, RunStart
<1>3. RunFinish(l) \/ RunContinue(l) \/ RunExit(l) => freed' = freed
  BY DEF RunFinish, RunContinue, RunExit
<1> QED
  BY <1>1, <1>2, <1>3, Zenon DEF RunStep

LEMMA CommandFreed ==
  ASSUME Command
  PROVE  \/ freed' = TRUE
         \/ (state # "running" \/ Resume) /\ freed' = freed
<1>1. FreeIfRunning => freed' = TRUE \/ (state # "running" /\ freed' = freed)
  BY DEF FreeIfRunning
<1>2. StopRunner \/ Reset => FreeIfRunning
  BY DEF StopRunner, Reset
<1>4. Pause => freed' = TRUE
  BY DEF Pause
<1>3. Resume => freed' = freed
  BY DEF Resume
<1> QED
  BY <1>1, <1>2, <1>3, <1>4, Zenon DEF Command

LEMMA FreedStep == freed \in BOOLEAN /\ [Next]_runnerVars => freed' \in BOOLEAN
<1> SUFFICES ASSUME freed \in BOOLEAN, [Next]_runnerVars PROVE freed' \in BOOLEAN
  OBVIOUS
<1>1. ASSUME NEW l \in Loops, Submit(l) \/ RunStep(l) PROVE freed' \in BOOLEAN
  BY <1>1, SubmitFreed, RunFreed, Zenon
<1>2. CASE Command
  BY <1>2, CommandFreed, Zenon
<1>3. CASE UNCHANGED runnerVars
  BY <1>3 DEF runnerVars
<1> QED
  BY <1>1, <1>2, <1>3, Zenon DEF Next

\* Every variable keeps its type, and a caller that executes a task has one.
THEOREM RunnerTypeCorrect == Spec => []RunnerTypeOK
<1> DEFINE Inv == TypeInv /\ freed \in BOOLEAN
<1>1. RunnerInit => Inv
  BY InitType, Zenon DEF RunnerInit
<1>2. Inv /\ [Next]_runnerVars => Inv'
  BY TypeStep, FreedStep, Zenon
<1>3. Inv => RunnerTypeOK
  BY Zenon DEF TypeInv, RunnerTypeOK
<1> QED
  BY <1>1, <1>2, <1>3, PTL DEF Spec

-----------------------------------------------------------------------------
(* While the running state is not taken from a Run that goes on, it is the *)
(* lock of Run: one caller at a time is between its entry and its exit,    *)
(* and only that caller has a task that is marked but not finished.        *)

Inside(l) == loop[l].pc \in {"next", "start", "execute", "finished", "exit"}

RunningIsLock ==
  /\ state # "running" => \A l \in Loops : ~Inside(l)
  /\ \A l, k \in Loops : Inside(l) /\ Inside(k) => l = k

\* What the caller has picked is still pending.
PickIsPending == \A l \in Loops : loop[l].pc = "start" => task[loop[l].task] = "pending"

RunningHasCaller ==
  \A t \in TaskIds : task[t] = "running" =>
    \E l \in Loops : loop[l].pc = "execute" /\ loop[l].task = t

FutureIsNone ==
  /\ \A t \in TaskIds : t > added => task[t] = "none"
  /\ \A l \in Loops : loop[l].pc \in {"start", "execute", "finished"}
                         => loop[l].task <= added
UnrunYet ==
  \A t \in TaskIds : runs[t] <= 1 /\ (task[t] \in {"none", "pending"} => runs[t] = 0)

Exclusive == /\ RunningIsLock /\ PickIsPending /\ RunningHasCaller
          /\ UnrunYet /\ state # "paused"

ListInv == TypeInv /\ FutureIsNone
LockInv == ListInv /\ (~freed => Exclusive)

LEMMA LockInit == RunnerInit => ListInv /\ Exclusive
<1> SUFFICES ASSUME RunnerInit PROVE ListInv /\ Exclusive
  OBVIOUS
<1>1. FutureIsNone
  BY DEF RunnerInit, FutureIsNone, Ready
<1>2. Exclusive
  BY DEF RunnerInit, Exclusive, RunningIsLock, Inside, Ready, PickIsPending,
         RunningHasCaller, UnrunYet
<1> QED
  BY <1>1, <1>2, InitType DEF ListInv

\* Only appending makes a future task pending, and nothing else a task of the
\* future leave "none".
LEMMA ListStep == ListInv /\ [Next]_runnerVars => ListInv'
<1> SUFFICES ASSUME ListInv, [Next]_runnerVars PROVE FutureIsNone'
  BY TypeStep DEF ListInv
<1> USE DEF ListInv, TypeInv, RunTypeOK, HasTask, FutureIsNone
<1>1. ASSUME NEW l \in Loops, Submit(l) PROVE FutureIsNone'
  BY <1>1 DEF Submit, Append
<1>2. ASSUME NEW l \in Loops, RunStep(l) PROVE FutureIsNone'
  <2> USE DEF Goto, Leave, Ready
  <2>1. CASE RunNext(l)
    <3>1. CASE Goto(l, "exit")
      BY <2>1, <3>1 DEF RunNext
    <3>2. ASSUME NEW t \in Pending,
                 loop' = [loop EXCEPT ![l] = [pc |-> "start", task |-> t]]
          PROVE  FutureIsNone'
      BY <2>1, <3>2 DEF RunNext, Pending
    <3> QED
      BY <2>1, <3>1, <3>2 DEF RunNext
  <2>2. CASE RunStart(l)
    BY <2>2 DEF RunStart
  <2>3. CASE RunFinish(l)
    BY <2>3 DEF RunFinish
  <2>4. CASE RunCall(l)
    <3>1. CASE Leave(l)
      BY <2>4, <3>1 DEF RunCall
    <3>2. CASE Goto(l, "next")
      BY <2>4, <3>2 DEF RunCall
    <3> QED
      BY <2>4, <3>1, <3>2 DEF RunCall
  <2>6. CASE RunCancelled(l)
    BY <2>6 DEF RunCancelled
  <2>5. CASE RunContinue(l) \/ RunNoOpenIssues(l) \/ RunExit(l)
    BY <2>5 DEF RunContinue, RunNoOpenIssues, RunExit
  <2> QED
    BY <1>2, <2>1, <2>2, <2>3, <2>4, <2>5, <2>6 DEF RunStep
<1>3. CASE Command
  BY <1>3 DEF Command, StopRunner, Pause, Resume, Reset
<1>4. CASE UNCHANGED runnerVars
  BY <1>4 DEF runnerVars
<1> QED
  BY <1>1, <1>2, <1>3, <1>4, Zenon DEF Next

LEMMA SubmitLock ==
  ASSUME NEW l \in Loops, ListInv, Exclusive, Submit(l)
  PROVE  Exclusive'
<1> USE DEF ListInv, Exclusive, TypeInv, RunTypeOK, HasTask, Submit, Append
<1>1. RunningIsLock'
  BY DEF RunningIsLock, Inside
<1>2. PickIsPending'
  BY DEF PickIsPending
<1>3. RunningHasCaller'
  BY DEF RunningHasCaller
<1>4. UnrunYet'
  BY DEF UnrunYet, FutureIsNone
<1> QED
  BY <1>1, <1>2, <1>3, <1>4

LEMMA RunLock ==
  ASSUME NEW l \in Loops, ListInv, Exclusive, RunStep(l), ~RunNoOpenIssues(l)
  PROVE  Exclusive'
<1> USE DEF ListInv, Exclusive, TypeInv, RunTypeOK, HasTask, Goto, Leave, Ready
<1>1. CASE RunCall(l)
  <2>1. CASE Leave(l)
    BY <1>1, <2>1 DEF RunCall, RunningIsLock, Inside, PickIsPending, RunningHasCaller,
                      UnrunYet
  <2>2. CASE state # "running" /\ Goto(l, "next")
    BY <1>1, <2>2 DEF RunCall, RunningIsLock, Inside, PickIsPending, RunningHasCaller,
                      UnrunYet
  <2> QED
    BY <1>1, <2>1, <2>2 DEF RunCall
<1>2. CASE RunNext(l)
  <2>1. CASE Goto(l, "exit")
    BY <1>2, <2>1 DEF RunNext, RunningIsLock, Inside, PickIsPending, RunningHasCaller,
                      UnrunYet
  <2>2. ASSUME NEW t \in Pending, loop' = [loop EXCEPT ![l] = [pc |-> "start", task |-> t]]
        PROVE  Exclusive'
    BY <1>2, <2>2 DEF RunNext, Pending, RunningIsLock, Inside, PickIsPending,
                      RunningHasCaller, UnrunYet
  <2> QED
    BY <1>2, <2>1, <2>2 DEF RunNext
<1>3. CASE RunCancelled(l)
  BY <1>3 DEF RunCancelled, RunningIsLock, Inside, PickIsPending, RunningHasCaller, UnrunYet
<1>4. CASE RunStart(l)
  <2>1. RunningIsLock' /\ \A k \in Loops : loop'[k].pc = "start" => FALSE
    BY <1>4 DEF RunStart, RunningIsLock, Inside
  <2>2. RunningHasCaller'
    BY <1>4 DEF RunStart, RunningHasCaller
  <2>3. UnrunYet'
    BY <1>4 DEF RunStart, PickIsPending, UnrunYet
  <2> QED
    BY <1>4, <2>1, <2>2, <2>3 DEF RunStart, PickIsPending
<1>5. CASE RunFinish(l)
  <2>1. RunningIsLock' /\ \A k \in Loops : loop'[k].pc = "start" => FALSE
    BY <1>5 DEF RunFinish, RunningIsLock, Inside
  <2>2. RunningHasCaller'
    BY <1>5 DEF RunFinish, RunningHasCaller, RunningIsLock, Inside
  <2>3. UnrunYet'
    BY <1>5 DEF RunFinish, UnrunYet
  <2> QED
    BY <1>5, <2>1, <2>2, <2>3 DEF RunFinish, PickIsPending
<1>6. CASE RunContinue(l)
  BY <1>6 DEF RunContinue, RunningIsLock, Inside, PickIsPending, RunningHasCaller, UnrunYet
<1>7. CASE RunExit(l)
  BY <1>7 DEF RunExit, RunningIsLock, Inside, PickIsPending, RunningHasCaller, UnrunYet
<1> QED
  BY <1>1, <1>2, <1>3, <1>4, <1>5, <1>6, <1>7 DEF RunStep

\* A command leaves the lock as it is unless it comes while a Run goes on.
LEMMA CommandLock ==
  ASSUME Exclusive, Command, state # "running"
  PROVE  Exclusive'
BY DEF Exclusive, RunningIsLock, Inside, PickIsPending, RunningHasCaller, UnrunYet,
       Command, StopRunner, Pause, Resume, Reset

LEMMA LockStep == LockInv /\ [Next]_runnerVars => LockInv'
<1> SUFFICES ASSUME LockInv, [Next]_runnerVars, ~freed' PROVE Exclusive'
  BY ListStep, Zenon DEF LockInv
<1>1. ASSUME NEW l \in Loops, Submit(l) PROVE Exclusive'
  <2>1. ~freed
    BY <1>1, SubmitFreed, Zenon
  <2> QED
    BY <1>1, <2>1, SubmitLock, Zenon DEF LockInv
<1>2. ASSUME NEW l \in Loops, RunStep(l) PROVE Exclusive'
  <2>1. ~freed /\ ~RunNoOpenIssues(l)
    BY <1>2, RunFreed, Zenon
  <2> QED
    BY <1>2, <2>1, RunLock, Zenon DEF LockInv
<1>3. CASE Command
  <2>0. freed' = freed /\ (state # "running" \/ Resume)
    BY <1>3, CommandFreed, Zenon
  <2>1. ~freed /\ (state # "running" \/ Resume)
    BY <2>0, Zenon
  <2>2. ~Resume
    <3>1. Exclusive
      BY <2>1, Zenon DEF LockInv
    <3> QED
      BY <3>1 DEF Exclusive, Resume
  <2> QED
    BY <1>3, <2>1, <2>2, CommandLock, Zenon DEF LockInv
<1>4. CASE UNCHANGED runnerVars
  <2>1. ~freed
    <3>1. freed' = freed
      BY <1>4 DEF runnerVars
    <3> QED
      BY <3>1, Zenon
  <2>2. Exclusive
    BY <2>1, Zenon DEF LockInv
  <2> QED
    BY <1>4, <2>2 DEF runnerVars, Exclusive, RunningIsLock, Inside, PickIsPending,
                      RunningHasCaller, UnrunYet
<1> QED
  BY <1>1, <1>2, <1>3, <1>4, Zenon DEF Next

LEMMA LockAlways == Spec => []LockInv
<1>1. RunnerInit => LockInv
  BY LockInit, Zenon DEF LockInv
<1> QED
  BY <1>1, LockStep, PTL DEF Spec

\* A task is executed at most once although picking and marking it are two
\* critical sections (Run, nextPendingTask, executeTask), until a command or a
\* Run that found no open issue takes the running state from a Run that goes on.
THEOREM TasksRunOnce == Spec => []RunOnce
<1>1. Exclusive => \A t \in TaskIds : runs[t] <= 1
  BY DEF Exclusive, UnrunYet
<1>2. LockInv => RunOnce
  BY <1>1, Zenon DEF LockInv, RunOnce
<1> QED
  BY <1>2, LockAlways, PTL

\* A completed runner executes nothing (the deferred function of Run), under
\* the same condition.
THEOREM CompletedRunnerIsQuiet == Spec => []CompletedIsQuiet
<1>1. Exclusive /\ state = "completed" => \A t \in TaskIds : task[t] # "running"
  BY DEF Exclusive, RunningIsLock, RunningHasCaller, Inside
<1>2. LockInv => CompletedIsQuiet
  BY <1>1, Zenon DEF LockInv, CompletedIsQuiet
<1> QED
  BY <1>2, LockAlways, PTL

-----------------------------------------------------------------------------
(* The plan handler.  As long as it is not stopped it leads one plan from  *)
(* its issue to the runner: it is idle until a plan is posted and never    *)
(* again, so that an approval found for an issue is one of its plan.       *)

CheckerShape == [pc : {"idle", "ask", "fetch", "compare", "approve"},
                 issue : Issues \cup {NoIssue}, left : SUBSET (Issues \X (0 .. MaxStarts))]

PlanTypes ==
    /\ mode \in {"interactive", "plan", "auto"}
    /\ plan \in [state : {"idle", "waiting", "approved", "executing"},
                 issue : Issues \cup {NoIssue},
                 context : {"none", "unapproved", "approved"}]
    /\ posting \in Issues \cup {NoIssue}
    /\ starts \in 0 .. MaxStarts
    /\ watchedAt \in [Issues -> 0 .. MaxStarts] /\ approvedAt \in [Issues -> 0 .. MaxStarts]
    /\ checker \in [Checkers -> CheckerShape]
    /\ issue \in [TaskIds -> Issues \cup {NoIssue}]

\* A plan is posted by a handler that is idle, in plan mode.
PostsWhenIdle ==
    /\ Locked => plan.state = "idle" /\ mode = "plan"
    /\ plan.state = "idle" => plan.issue = NoIssue

\* There is nothing to watch, to check or to run before the plan is posted, and the last
\* start is the one that posted it.
WatchesThisPlan ==
    /\ \A i \in Issues : Watched(i) => watchedAt[i] = starts /\ plan.state # "idle"
    /\ \A c \in Checkers : \A q \in checker[c].left : q[2] = starts /\ plan.state # "idle"

ApprovedNow(i) == i \in Issues /\ approvedAt[i] >= starts /\ plan.state # "idle"

\* What a goroutine goes by is the issue of the plan, and the approval it found is its own.
FoundIsApproved ==
    \A c \in Checkers :
        /\ c \notin Pollers /\ checker[c].pc \in {"ask", "fetch", "compare"} =>
              checker[c].issue = plan.issue /\ plan.issue # NoIssue
        /\ checker[c].pc = "compare" => \A q \in checker[c].left : ApprovedNow(q[1])
        /\ checker[c].pc = "approve" => ApprovedNow(plan.issue)

GivenIsApproved == \A t \in TaskIds : t <= added => ApprovedNow(issue[t])

PlanIsOne == WatchesThisPlan /\ FoundIsApproved /\ GivenIsApproved

PlanInv == PlanTypes /\ PostsWhenIdle /\ StateFollowsMode
GivenInv == ListInv /\ (~stopped => PlanIsOne)
SuiteInv == PlanInv /\ (part = "autoplan" => GivenInv)

LEMMA PlanStart == Init => PlanTypes /\ PostsWhenIdle /\ StateFollowsMode
BY AutoPlanBounds DEF Init, NoPlan, Resting, PlanTypes, CheckerShape, PostsWhenIdle,
   StateFollowsMode, Locked, AutoPlanBounds

\* A goroutine that looks for approvals keeps what it read, loses some of it or rests.
LEMMA CheckerMoves ==
  ASSUME PlanTypes, NEW c \in Checkers,
         CheckRead(c) \/ CheckAsk(c) \/ CheckFetch(c) \/ CheckError(c) \/ CheckCompare(c)
  PROVE  \E k \in CheckerShape :
            /\ checker' = [checker EXCEPT ![c] = k]
            /\ \/ k.left \subseteq checker[c].left
               \/ k.left = {<<i, watchedAt[i]>> : i \in {j \in Issues : Watched(j)}}
<1> USE DEF PlanTypes, CheckerShape
<1>1. CASE CheckRead(c)
  <2> DEFINE k == [checker[c] EXCEPT !.pc = "ask", !.issue = plan.issue]
  <2>1. k \in CheckerShape /\ k.left = checker[c].left
    OBVIOUS
  <2> QED
    BY <1>1, <2>1 DEF CheckRead
<1>2. CASE CheckAsk(c)
  <2> DEFINE pairs == {<<i, watchedAt[i]>> : i \in {j \in Issues : Watched(j)}}
             k == [checker[c] EXCEPT !.pc = "fetch", !.left = pairs]
  <2>0. pairs \in SUBSET (Issues \X (0 .. MaxStarts))
    OBVIOUS
  <2> HIDE DEF pairs
  <2>1. k \in CheckerShape /\ k.left = pairs
    BY <2>0
  <2> USE DEF pairs
  <2>2. checker' = [checker EXCEPT ![c] = k]
    BY <1>2 DEF CheckAsk
  <2> QED
    BY <2>1, <2>2
<1>3. CASE CheckFetch(c)
  <2> DEFINE events == {q \in checker[c].left : approvedAt[q[1]] >= q[2]}
             k == [checker[c] EXCEPT !.pc = "compare", !.left = events]
  <2>0. /\ events \subseteq checker[c].left
        /\ checker[c].left \in SUBSET (Issues \X (0 .. MaxStarts))
    OBVIOUS
  <2> HIDE DEF events
  <2>3. events \in SUBSET (Issues \X (0 .. MaxStarts))
    BY <2>0, Zenon
  <2>4. k \in CheckerShape /\ k.left = events
    BY <2>3
  <2>1. k \in CheckerShape /\ k.left \subseteq checker[c].left
    BY <2>0, <2>4, Zenon
  <2> USE DEF events
  <2>2. checker' = [checker EXCEPT ![c] = k]
    BY <1>3 DEF CheckFetch
  <2> QED
    BY <2>1, <2>2
<1>4. CASE CheckError(c)
  <2>1. PICK q \in checker[c].left : checker' = [checker EXCEPT ![c].left = @ \ {q}]
    BY <1>4 DEF CheckError
  <2> DEFINE rest == checker[c].left \ {q}
             k == [checker[c] EXCEPT !.left = rest]
  <2>0. /\ rest \subseteq checker[c].left
        /\ checker[c].left \in SUBSET (Issues \X (0 .. MaxStarts))
    OBVIOUS
  <2>3. checker' = [checker EXCEPT ![c] = k]
    BY <2>1
  <2> HIDE DEF rest
  <2>4. rest \in SUBSET (Issues \X (0 .. MaxStarts))
    BY <2>0, Zenon
  <2>5. k \in CheckerShape /\ k.left = rest
    BY <2>4
  <2>2. k \in CheckerShape /\ k.left \subseteq checker[c].left
    BY <2>0, <2>5, Zenon
  <2> QED
    BY <2>2, <2>3
<1>5. CASE CheckCompare(c)
  <2>1. PICK pc \in {"idle", "approve"} : checker' = [checker EXCEPT ![c] = [Resting EXCEPT !.pc = pc]]
    BY <1>5 DEF CheckCompare, Resting
  <2>2. [Resting EXCEPT !.pc = pc] \in CheckerShape /\ [Resting EXCEPT !.pc = pc].left = {}
    BY DEF Resting
  <2> QED
    BY <2>1, <2>2
<1> QED
  BY <1>1, <1>2, <1>3, <1>4, <1>5

LEMMA UnwatchTypes ==
  ASSUME PlanTypes, NEW X, Unwatch(X)
  PROVE  watchedAt' \in [Issues -> 0 .. MaxStarts]
<1>1. 0 \in 0 .. MaxStarts
  BY AutoPlanBounds DEF AutoPlanBounds
<1> QED
  BY <1>1 DEF PlanTypes, Unwatch

LEMMA PlanTypesStep == ListInv /\ PlanTypes /\ PlanNext => PlanTypes'
<1> SUFFICES ASSUME ListInv, PlanTypes, PlanNext PROVE PlanTypes'
  OBVIOUS
<1> USE DEF PlanTypes
<1>1. ASSUME NEW i \in Issues, StartPlan(i) \/ Approve(i) PROVE PlanTypes'
  <2>1. CASE StartPlan(i)
    <3>1. starts' \in 0 .. MaxStarts
      BY <2>1, AutoPlanBounds DEF StartPlan, AutoPlanBounds
    <3> QED
      BY <2>1, <3>1 DEF StartPlan
  <2>2. CASE Approve(i)
    <3>1. PICK t \in approvedAt[i] + 1 .. Clock : approvedAt' = [approvedAt EXCEPT ![i] = t]
      BY <2>2 DEF Approve
    <3>2. t \in 0 .. MaxStarts
      BY <3>1, AutoPlanBounds DEF Clock, AutoPlanBounds
    <3> QED
      BY <2>2, <3>1, <3>2 DEF Approve
  <2> QED
    BY <1>1, <2>1, <2>2
<1>2. CASE StartPosted \/ StartFailed \/ StopPlan
  <2>1. CASE StartPosted
    BY <2>1 DEF StartPosted, Locked
  <2>2. CASE StartFailed \/ StopPlan
    <3>1. NoPlan \in [state : {"idle", "waiting", "approved", "executing"},
                    issue : Issues \cup {NoIssue},
                    context : {"none", "unapproved", "approved"}]
      BY DEF NoPlan
    <3>2. watchedAt' \in [Issues -> 0 .. MaxStarts]
      BY <2>2, UnwatchTypes DEF StartFailed, StopPlan
    <3> QED
      BY <2>2, <3>1, <3>2 DEF StartFailed, StopPlan
  <2> QED
    BY <1>2, <2>1, <2>2
<1>3. ASSUME NEW c \in Checkers,
             CheckRead(c) \/ CheckAsk(c) \/ CheckFetch(c) \/ CheckError(c) \/ CheckCompare(c)
      PROVE  PlanTypes'
  <2>1. PICK k \in CheckerShape : checker' = [checker EXCEPT ![c] = k]
    BY <1>3, CheckerMoves
  <2>2. checker' \in [Checkers -> CheckerShape]
    BY <2>1
  <2>3. watchedAt' \in [Issues -> 0 .. MaxStarts]
    BY <1>3, UnwatchTypes DEF CheckRead, CheckAsk, CheckFetch, CheckError, CheckCompare
  <2> QED
    BY <1>3, <2>2, <2>3 DEF CheckRead, CheckAsk, CheckFetch, CheckError, CheckCompare
<1>5. ASSUME NEW c \in Checkers, NEW l \in Loops, HandleApproval(c, l) PROVE PlanTypes'
  <2>1. checker' \in [Checkers -> CheckerShape]
    BY <1>5 DEF HandleApproval, Resting, CheckerShape
  <2>2. plan' \in [state : {"idle", "waiting", "approved", "executing"},
                   issue : Issues \cup {NoIssue}, context : {"none", "unapproved", "approved"}]
    BY <1>5 DEF HandleApproval
  <2>3. mode' \in {"interactive", "plan", "auto"} /\ issue' \in [TaskIds -> Issues \cup {NoIssue}]
    BY <1>5 DEF HandleApproval
  <2> QED
    BY <1>5, <2>1, <2>2, <2>3 DEF HandleApproval
<1>6. ASSUME NEW l \in Loops, Run(l) PROVE PlanTypes'
  BY <1>6 DEF Run, planVars
<1> QED
  BY <1>1, <1>2, <1>3, <1>5, <1>6 DEF PlanNext, CheckStep

LEMMA PlanStep == ListInv /\ PlanInv /\ PlanNext => PlanInv'
<1> SUFFICES ASSUME ListInv, PlanInv, PlanNext PROVE PlanInv'
  OBVIOUS
<1>1. PlanTypes'
  BY PlanTypesStep DEF PlanInv
<1> USE DEF PlanInv, PostsWhenIdle, StateFollowsMode, Locked, PlanTypes
<1>2. ASSUME NEW i \in Issues, StartPlan(i) \/ Approve(i) PROVE PlanInv'
  BY <1>1, <1>2 DEF StartPlan, Approve
<1>3. CASE StartPosted \/ StartFailed \/ StopPlan
  <2>1. CASE StartPosted
    BY <1>1, <2>1, AutoPlanBounds DEF StartPosted, AutoPlanBounds
  <2>2. CASE StartFailed
    BY <1>1, <2>2 DEF StartFailed, NoPlan
  <2>3. CASE StopPlan
    BY <1>1, <2>3 DEF StopPlan, NoPlan
  <2> QED
    BY <1>3, <2>1, <2>2, <2>3
<1>4. ASSUME NEW c \in Checkers,
             CheckRead(c) \/ CheckAsk(c) \/ CheckFetch(c) \/ CheckError(c) \/ CheckCompare(c)
      PROVE  PlanInv'
  <2>1. UNCHANGED <<mode, plan, posting>>
    BY <1>4 DEF CheckRead, CheckAsk, CheckFetch, CheckError, CheckCompare
  <2> HIDE DEF PlanTypes
  <2> QED
    BY <1>1, <2>1
<1>5. ASSUME NEW c \in Checkers, NEW l \in Loops, HandleApproval(c, l) PROVE PlanInv'
  <2>1. /\ posting = NoIssue /\ posting' = posting /\ plan'.issue = plan.issue
        /\ \/ plan'.state = "executing" /\ mode' = "auto"
           \/ plan'.state = "approved" /\ mode' = mode
    BY <1>5 DEF HandleApproval
  <2> HIDE DEF PlanTypes
  <2> QED
    BY <1>1, <2>1
<1>6. ASSUME NEW l \in Loops, Run(l) PROVE PlanInv'
  <2>1. UNCHANGED <<mode, plan, posting>>
    BY <1>6 DEF Run, planVars
  <2> HIDE DEF PlanTypes
  <2> QED
    BY <1>1, <2>1
<1> HIDE DEF PlanInv
<1> QED
  BY <1>2, <1>3, <1>4, <1>5, <1>6 DEF PlanNext, CheckStep

\* The handler uses the runner as its users do.
LEMMA PlanRuns == PlanNext => [Next]_runnerVars
<1>1. ASSUME NEW c \in Checkers, NEW l \in Loops, HandleApproval(c, l) PROVE Next
  BY <1>1 DEF HandleApproval, Next
<1>2. ASSUME NEW l \in Loops, Run(l) PROVE Next
  BY <1>2 DEF Run, Next
<1>3. ASSUME PlanNext,
             \A l \in Loops : ~Run(l) /\ \A c \in Checkers : ~HandleApproval(c, l)
      PROVE  UNCHANGED runnerVars
  BY <1>3 DEF PlanNext, CheckStep, StartPlan, Approve, StartPosted, StartFailed, StopPlan,
     CheckRead, CheckAsk, CheckFetch, CheckError, CheckCompare
<1> QED
  BY <1>1, <1>2, <1>3

\* Before the plan is posted there is nothing; afterwards no start can come.
LEMMA IdleIsEmpty ==
  ASSUME PlanInv, ListInv, AutoPlanBounds, PlanIsOne, plan.state = "idle"
  PROVE  /\ \A i \in Issues : ~Watched(i)
         /\ \A c \in Checkers : checker[c].left = {} /\ checker[c].pc # "approve"
         /\ \A c \in Checkers \ Pollers : checker[c].pc \notin {"ask", "fetch", "compare"}
         /\ \A t \in TaskIds : ~(t <= added)
<1>1. plan.issue = NoIssue
  BY DEF PlanInv, PostsWhenIdle
<1> QED
  BY <1>1 DEF PlanIsOne, WatchesThisPlan, FoundIsApproved, GivenIsApproved, ApprovedNow

LEMMA WatchesStep ==
  ASSUME PlanInv, ListInv, AutoPlanBounds, PlanIsOne, PlanNext, ~stopped'
  PROVE  WatchesThisPlan'
<1> USE DEF WatchesThisPlan, Watched
<1>1. ASSUME NEW i \in Issues, StartPlan(i) PROVE WatchesThisPlan'
  BY <1>1, IdleIsEmpty DEF StartPlan
<1>2. ASSUME NEW i \in Issues, Approve(i) PROVE WatchesThisPlan'
  BY <1>2 DEF Approve, PlanIsOne
<1>3. CASE StartPosted
  <2>1. plan.state = "idle" /\ plan'.state = "waiting" /\ starts' = starts /\ checker' = checker
    BY <1>3 DEF StartPosted, PlanInv, PostsWhenIdle, PlanTypes
  <2>2. \A i \in Issues : watchedAt'[i] > 0 => watchedAt'[i] = starts
    BY <1>3, <2>1, IdleIsEmpty DEF StartPosted, PlanInv, PlanTypes, Locked
  <2> QED
    BY <2>1, <2>2, IdleIsEmpty
<1>4. CASE StartFailed
  <2>1. plan.state = "idle" /\ UNCHANGED <<watchedAt, starts, checker>>
    BY <1>4 DEF StartFailed, PlanInv, PostsWhenIdle
  <2> QED
    BY <2>1, IdleIsEmpty
<1>5. ~StopPlan
  BY DEF StopPlan
<1>6. ASSUME NEW c \in Checkers,
             CheckRead(c) \/ CheckAsk(c) \/ CheckFetch(c) \/ CheckError(c) \/ CheckCompare(c)
      PROVE  WatchesThisPlan'
  <2>1. PICK k \in CheckerShape :
            /\ checker' = [checker EXCEPT ![c] = k]
            /\ \/ k.left \subseteq checker[c].left
               \/ k.left = {<<i, watchedAt[i]>> : i \in {j \in Issues : Watched(j)}}
    BY <1>6, CheckerMoves DEF PlanInv
  <2>2. UNCHANGED <<plan, starts>>
    BY <1>6 DEF CheckRead, CheckAsk, CheckFetch, CheckError, CheckCompare
  <2>3. \A i \in Issues : watchedAt'[i] = watchedAt[i] \/ watchedAt'[i] = 0
    BY <1>6 DEF CheckRead, CheckAsk, CheckFetch, CheckError, CheckCompare, Unwatch
  <2>4. \A d \in Checkers : \A q \in checker'[d].left : q[2] = starts /\ plan.state # "idle"
    <3> SUFFICES ASSUME NEW d \in Checkers, NEW q \in checker'[d].left
                 PROVE  q[2] = starts /\ plan.state # "idle"
      OBVIOUS
    <3>1. CASE d = c
      <4>1. q \in k.left
        BY <2>1, <3>1 DEF PlanInv, PlanTypes
      <4>2. CASE k.left \subseteq checker[c].left
        BY <4>1, <4>2 DEF PlanIsOne
      <4>3. CASE k.left = {<<i, watchedAt[i]>> : i \in {j \in Issues : Watched(j)}}
        <5>1. PICK i \in Issues : Watched(i) /\ q = <<i, watchedAt[i]>>
          BY <4>1, <4>3, Zenon
        <5> QED
          BY <5>1 DEF PlanIsOne
      <4> QED
        BY <2>1, <4>2, <4>3
    <3>2. CASE d # c
      BY <2>1, <3>2 DEF PlanIsOne, PlanInv, PlanTypes
    <3> QED
      BY <3>1, <3>2
  <2> QED
    BY <2>2, <2>3, <2>4 DEF PlanIsOne
<1>7. ASSUME NEW c \in Checkers, NEW l \in Loops, HandleApproval(c, l) PROVE WatchesThisPlan'
  <2>1. /\ checker' = [checker EXCEPT ![c] = Resting] /\ UNCHANGED <<watchedAt, starts>>
        /\ plan'.state # "idle"
    BY <1>7 DEF HandleApproval, PlanInv, PlanTypes
  <2> QED
    BY <2>1 DEF PlanIsOne, Resting, PlanInv, PlanTypes
<1>8. ASSUME NEW l \in Loops, Run(l) PROVE WatchesThisPlan'
  BY <1>8 DEF Run, planVars, PlanIsOne
<1> QED
  BY <1>1, <1>2, <1>3, <1>4, <1>5, <1>6, <1>7, <1>8 DEF PlanNext, CheckStep

\* What is approved stays so: approvals only get younger, and no start follows.
LEMMA StaysApproved ==
  ASSUME PlanInv, ListInv, AutoPlanBounds, PlanIsOne, PlanNext, ~stopped', NEW i, ApprovedNow(i)
  PROVE  ApprovedNow(i)'
<1> USE DEF ApprovedNow, PlanInv, PlanTypes
<1>1. ASSUME NEW j \in Issues, StartPlan(j) PROVE FALSE
  BY <1>1 DEF StartPlan
<1>2. ASSUME NEW j \in Issues, Approve(j) PROVE ApprovedNow(i)'
  <2>1. PICK t \in approvedAt[j] + 1 .. Clock : approvedAt' = [approvedAt EXCEPT ![j] = t]
    BY <1>2 DEF Approve
  <2>2. t \in Nat /\ t >= approvedAt[j] /\ approvedAt[j] \in Nat
    BY <2>1, AutoPlanBounds DEF Clock, AutoPlanBounds
  <2> QED
    BY <1>2, <2>1, <2>2 DEF Approve
<1>3. CASE StartPosted \/ StartFailed
  BY <1>3 DEF StartPosted, StartFailed, PostsWhenIdle
<1>4. ~StopPlan
  BY DEF StopPlan
<1>5. ASSUME NEW c \in Checkers,
             CheckRead(c) \/ CheckAsk(c) \/ CheckFetch(c) \/ CheckError(c) \/ CheckCompare(c)
      PROVE  ApprovedNow(i)'
  BY <1>5 DEF CheckRead, CheckAsk, CheckFetch, CheckError, CheckCompare
<1>6. ASSUME NEW c \in Checkers, NEW l \in Loops, HandleApproval(c, l) PROVE ApprovedNow(i)'
  BY <1>6 DEF HandleApproval
<1>7. ASSUME NEW l \in Loops, Run(l) PROVE ApprovedNow(i)'
  BY <1>7 DEF Run, planVars
<1> QED
  BY <1>1, <1>2, <1>3, <1>4, <1>5, <1>6, <1>7 DEF PlanNext, CheckStep

LEMMA FoundStep ==
  ASSUME PlanInv, ListInv, AutoPlanBounds, PlanIsOne, PlanNext, ~stopped'
  PROVE  FoundIsApproved'
<1> USE DEF PlanInv, PlanTypes, CheckerShape, FoundIsApproved
<1>0. \A i : ApprovedNow(i) => ApprovedNow(i)'
  BY StaysApproved
<1>1. ASSUME NEW i \in Issues, StartPlan(i) \/ Approve(i) PROVE FoundIsApproved'
  <2>1. checker' = checker /\ plan'.issue = plan.issue
    BY <1>1 DEF StartPlan, Approve
  <2>2. ASSUME NEW x PROVE (ApprovedNow(x) => ApprovedNow(x)')
    BY <1>0
  <2> QED
    BY <2>1, <2>2 DEF PlanIsOne, ApprovedNow
<1>2. CASE StartPosted \/ StartFailed
  <2>1. plan.state = "idle" /\ checker' = checker
    BY <1>2 DEF StartPosted, StartFailed, PostsWhenIdle
  <2> QED
    BY <2>1, IdleIsEmpty
<1>3. ~StopPlan
  BY DEF StopPlan
<1>4. ASSUME NEW c \in Checkers, CheckRead(c) \/ CheckAsk(c) PROVE FoundIsApproved'
  <2>1. UNCHANGED <<plan, starts, approvedAt>>
    BY <1>4 DEF CheckRead, CheckAsk
  <2>2. \A d \in Checkers \ {c} : checker'[d] = checker[d]
    BY <1>4 DEF CheckRead, CheckAsk
  <2>3. /\ checker'[c].pc \in {"ask", "fetch"}
        /\ c \notin Pollers => checker'[c].issue = plan.issue /\ plan.issue # NoIssue
    BY <1>4 DEF CheckRead, CheckAsk, StateFollowsMode, PlanIsOne
  <2> QED
    BY <2>1, <2>2, <2>3 DEF PlanIsOne, ApprovedNow
<1>5. ASSUME NEW c \in Checkers, CheckFetch(c) \/ CheckError(c) PROVE FoundIsApproved'
  <2>1. UNCHANGED <<plan, starts, approvedAt>>
    BY <1>5 DEF CheckFetch, CheckError
  <2>2. \A d \in Checkers \ {c} : checker'[d] = checker[d]
    BY <1>5 DEF CheckFetch, CheckError
  <2>3. /\ checker[c].pc = "fetch" /\ checker'[c].issue = checker[c].issue
        /\ checker'[c].pc \in {"fetch", "compare"}
        /\ checker'[c].pc = "compare" =>
              \A q \in checker'[c].left : q \in checker[c].left /\ approvedAt[q[1]] >= q[2]
    BY <1>5 DEF CheckFetch, CheckError
  <2>4. ASSUME checker'[c].pc = "compare", NEW q \in checker'[c].left PROVE ApprovedNow(q[1])
    BY <2>3, <2>4 DEF PlanIsOne, WatchesThisPlan, ApprovedNow
  <2>5. \A i : ApprovedNow(i)' <=> ApprovedNow(i)
    BY <2>1 DEF ApprovedNow
  <2> HIDE DEF ApprovedNow
  <2>6. ASSUME NEW d \in Checkers
        PROVE  /\ d \notin Pollers /\ checker'[d].pc \in {"ask", "fetch", "compare"} =>
                     checker'[d].issue = plan.issue /\ plan.issue # NoIssue
               /\ checker'[d].pc = "compare" => \A q \in checker'[d].left : ApprovedNow(q[1])
               /\ checker'[d].pc = "approve" => ApprovedNow(plan.issue)
    <3>1. CASE d = c
      BY <2>3, <2>4, <3>1 DEF PlanIsOne
    <3>2. CASE d # c
      BY <2>2, <3>2 DEF PlanIsOne
    <3> QED
      BY <3>1, <3>2
  <2> QED
    BY <2>1, <2>5, <2>6 DEF ApprovedNow
<1>7. ASSUME NEW c \in Checkers, CheckCompare(c) PROVE FoundIsApproved'
  <2>1. checker[c].pc = "compare" /\ UNCHANGED <<plan, starts, approvedAt>>
    BY <1>7 DEF CheckCompare
  <2>2. Expected(c) = plan.issue
    BY <2>1 DEF Expected, PlanIsOne
  <2>3. Expected(c) \in IssuesOf(checker[c].left) => ApprovedNow(plan.issue)
    BY <2>1, <2>2 DEF IssuesOf, PlanIsOne
  <2>4. \A d \in Checkers \ {c} : checker'[d] = checker[d]
    BY <1>7 DEF CheckCompare
  <2>5. /\ checker'[c].pc \in {"idle", "approve"}
        /\ checker'[c].pc = "approve" => ApprovedNow(plan.issue)
    BY <1>7, <2>3 DEF CheckCompare, Resting
  <2> QED
    BY <2>1, <2>4, <2>5 DEF PlanIsOne, ApprovedNow
<1>8. ASSUME NEW c \in Checkers, NEW l \in Loops, HandleApproval(c, l) PROVE FoundIsApproved'
  <2>1. checker' = [checker EXCEPT ![c] = Resting] /\ plan'.issue = plan.issue
    BY <1>8 DEF HandleApproval
  <2>2. ASSUME NEW x PROVE (ApprovedNow(x) => ApprovedNow(x)')
    BY <1>0
  <2> QED
    BY <2>1, <2>2 DEF Resting, PlanIsOne, ApprovedNow
<1>9. ASSUME NEW l \in Loops, Run(l) PROVE FoundIsApproved'
  BY <1>9 DEF Run, planVars, PlanIsOne, ApprovedNow
<1> HIDE DEF PlanInv, PlanTypes, CheckerShape, FoundIsApproved
<1> QED
  BY <1>1, <1>2, <1>3, <1>4, <1>5, <1>7, <1>8, <1>9 DEF PlanNext, CheckStep

LEMMA GivenStep ==
  ASSUME PlanInv, ListInv, AutoPlanBounds, PlanIsOne, PlanNext, ~stopped'
  PROVE  GivenIsApproved'
<1> USE DEF GivenIsApproved
<1>0. ASSUME NEW x, ApprovedNow(x) PROVE ApprovedNow(x)'
  BY <1>0, StaysApproved
<1>1. ASSUME NEW c \in Checkers, NEW l \in Loops, HandleApproval(c, l) PROVE GivenIsApproved'
  <2>1. added' = added + 1 /\ added' <= MaxTasks /\ added \in Nat
    BY <1>1 DEF HandleApproval, Submit, Append, ListInv, TypeInv, RunTypeOK
  <2>2. issue' = [issue EXCEPT ![added + 1] = plan.issue] /\ ApprovedNow(plan.issue)
    BY <1>1 DEF HandleApproval, FoundIsApproved, PlanIsOne
  <2>3. ASSUME NEW t \in TaskIds, t <= added' PROVE ApprovedNow(issue'[t])
    <3>1. CASE t = added + 1
      BY <2>1, <2>2, <3>1 DEF PlanInv, PlanTypes
    <3>2. CASE t # added + 1
      BY <2>1, <2>2, <2>3, <3>2 DEF PlanIsOne, PlanInv, PlanTypes, TaskIds
    <3> QED
      BY <3>1, <3>2
  <2>4. ASSUME NEW t \in TaskIds, t <= added' PROVE ApprovedNow(issue[t])'
    <3>1. \A x : ApprovedNow(x) <=>
                    x \in Issues /\ approvedAt[x] >= starts /\ plan.state # "idle"
      BY DEF ApprovedNow
    <3>2. UNCHANGED <<approvedAt, starts>> /\ plan'.state # "idle"
      BY <1>1 DEF HandleApproval, PlanInv, PlanTypes
    <3> QED
      BY <2>3, <2>4, <3>1, <3>2 DEF ApprovedNow
  <2> QED
    BY <2>4
<1>2. ASSUME NEW l \in Loops, Run(l) PROVE GivenIsApproved'
  <2>1. added' = added
    BY <1>2 DEF Run, RunStep, RunCall, RunNext, RunCancelled, RunStart, RunFinish, RunContinue,
       RunNoOpenIssues, RunExit
  <2> QED
    BY <1>2, <2>1 DEF Run, planVars, PlanIsOne, ApprovedNow
<1>3. ASSUME \A l \in Loops : ~Run(l) /\ \A c \in Checkers : ~HandleApproval(c, l)
      PROVE  added' = added /\ issue' = issue
  BY <1>3 DEF PlanNext, CheckStep, StartPlan, Approve, StartPosted, StartFailed, StopPlan,
     CheckRead, CheckAsk, CheckFetch, CheckError, CheckCompare, runnerVars
<1>4. ASSUME added' = added, issue' = issue PROVE GivenIsApproved'
  <2> SUFFICES ASSUME NEW t \in TaskIds, t <= added PROVE ApprovedNow(issue[t])'
    BY <1>4
  <2>1. ApprovedNow(issue[t])
    BY DEF PlanIsOne
  <2> QED
    BY <1>4, <2>1, <1>0 DEF ApprovedNow
<1> QED
  BY <1>1, <1>2, <1>3, <1>4

LEMMA SuiteStart == SuiteInit => SuiteInv
<1> SUFFICES ASSUME SuiteInit PROVE SuiteInv
  OBVIOUS
<1>1. ListInv /\ PlanInv
  BY LockInit, PlanStart DEF SuiteInit, Init, PlanInv
<1>2. PlanIsOne
  BY DEF SuiteInit, Init, RunnerInit, Resting, PlanIsOne, WatchesThisPlan, Watched,
         FoundIsApproved, GivenIsApproved, TaskIds
<1> QED
  BY <1>1, <1>2 DEF SuiteInv, GivenInv

LEMMA SuiteStep == SuiteInv /\ [SuiteNext]_<<allVars, part>> => SuiteInv'
<1> SUFFICES ASSUME SuiteInv, [SuiteNext]_<<allVars, part>> PROVE SuiteInv'
  OBVIOUS
<1>1. PlanInv /\ UNCHANGED planVars => PlanInv'
  BY DEF PlanInv, planVars, PlanTypes, PostsWhenIdle, StateFollowsMode, Locked
<1>2. CASE part = "runner" /\ part' = part /\ UNCHANGED planVars
  BY <1>1, <1>2 DEF SuiteInv
<1>3. CASE part = "autoplan" /\ part' = part /\ PlanNext
  <2>1. ListInv /\ PlanInv /\ PlanInv'
    BY <1>3, PlanStep DEF SuiteInv, GivenInv
  <2>2. ListInv'
    BY <1>3, <2>1, PlanRuns, ListStep
  <2>3. ASSUME ~stopped' PROVE PlanIsOne'
    <3>1. ~stopped
      BY <1>3, <2>3 DEF PlanNext, CheckStep, StartPlan, Approve, StartPosted, StartFailed,
         StopPlan, CheckRead, CheckAsk, CheckFetch, CheckError, CheckCompare, HandleApproval,
         Run, planVars
    <3>2. PlanIsOne
      BY <1>3, <3>1 DEF SuiteInv, GivenInv
    <3> QED
      BY <1>3, <2>1, <2>3, <3>2, WatchesStep, FoundStep, GivenStep, AutoPlanBounds DEF PlanIsOne
  <2> QED
    BY <2>1, <2>2, <2>3 DEF SuiteInv, GivenInv
<1>4. CASE UNCHANGED <<allVars, part>>
  <2>1. UNCHANGED planVars /\ UNCHANGED runnerVars
    BY <1>4 DEF allVars, planVars
  <2>2. ListInv => ListInv'
    BY <2>1, ListStep
  <2>3. PlanIsOne => PlanIsOne'
    BY <2>1 DEF PlanIsOne, WatchesThisPlan, Watched, FoundIsApproved, GivenIsApproved,
                ApprovedNow, planVars, runnerVars
  <2> QED
    BY <1>1, <1>4, <2>1, <2>2, <2>3 DEF SuiteInv, GivenInv, planVars
<1> QED
  BY <1>2, <1>3, <1>4 DEF SuiteNext

LEMMA SuiteAlways == SuiteSpec => []SuiteInv
BY SuiteStart, SuiteStep, PTL DEF SuiteSpec

\* The handler executes a plan in auto mode only and waits for an approval in plan mode with
\* the number of its issue, whatever starts, stops, failures to post and approvals come
\* together (StartPlanWorkflow, handleApproval and Stop of auto_plan.go).
THEOREM PlanStateFollowsMode == SuiteSpec => []StateFollowsMode
<1>1. SuiteInv => StateFollowsMode
  BY DEF SuiteInv, PlanInv
<1> QED
  BY <1>1, SuiteAlways, PTL

\* The runner is given plans that the owner approved, as long as no workflow was stopped:
\* without a stop the handler leads one plan to its end, and an approval found before the
\* lock is taken (CheckApproval, StartPolling) is still one of the current plan.
THEOREM OnlyApprovedAreGiven == SuiteSpec => []OnlyApprovedPlansRun
<1>1. SuiteInv => OnlyApprovedPlansRun
  <2> SUFFICES ASSUME SuiteInv, part = "autoplan", ~stopped, NEW t \in TaskIds, task[t] # "none"
               PROVE  issue[t] \in Issues /\ approvedAt[issue[t]] >= starts
    BY DEF OnlyApprovedPlansRun, OnlyApprovedRuns
  <2>1. ListInv /\ GivenIsApproved
    BY DEF SuiteInv, GivenInv, PlanIsOne
  <2>2. t <= added
    BY <2>1 DEF ListInv, FutureIsNone, TypeInv, RunTypeOK
  <2> QED
    BY <2>1, <2>2 DEF GivenIsApproved, ApprovedNow
<1> QED
  BY <1>1, SuiteAlways, PTL

\* AutoPlan uses the runner as Runner lets its users: every behaviour of the handler is one
\* of the runner, so that what holds of the runner holds under the handler.
THEOREM PlanImplementsRunner == PlanSpec => Spec
<1>1. Init => RunnerInit
  BY DEF Init
<1>2. [PlanNext]_allVars => [Next]_runnerVars
  <2>1. UNCHANGED allVars => UNCHANGED runnerVars
    BY DEF allVars
  <2> QED
    BY <2>1, PlanRuns
<1> QED
  BY <1>1, <1>2, PTL DEF PlanSpec, Spec

\* Under the handler a task is executed at most once.
THEOREM PlansRunOnce == PlanSpec => []RunOnce
BY PlanImplementsRunner, TasksRunOnce
=============================================================================
