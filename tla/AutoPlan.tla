------------------------------ MODULE AutoPlan ------------------------------
(***************************************************************************)
(* AutoPlanHandler (internal/mode/auto_plan.go): a plan is posted on an    *)
(* issue, its approval is watched for, and the approved plan is given to   *)
(* the runner, which this module composes with the handler, the mode       *)
(* manager and the approval watcher.  The handler's lock is held during a  *)
(* whole start, stop or approval, but not while comments are fetched.      *)
(***************************************************************************)
EXTENDS Runner

CONSTANTS Issues,     \* the plan issues
          CheckCalls, \* goroutines in CheckApproval
          Pollers,    \* goroutines of StartPolling
          MaxStarts   \* bound: workflows started

NoIssue == 0

\* GitHub numbers the issues from 1, and the handler has 0 when it has none.
ASSUME AutoPlanBounds ==
    /\ MaxStarts \in Nat \ {0} /\ CheckCalls \cap Pollers = {}
    /\ NoIssue \notin Issues

VARIABLES mode,     \* Manager.currentMode
          plan,     \* the handler's state, its planIssueNumber and whether its
                    \* plan context is there and approved
          posting,  \* a start holds the lock while the plan is posted
          starts,   \* how many workflows were started
          watchedAt,  \* Watcher.issues: the WatchedAt of an issue, counted in starts
                      \* (0: it is not watched)
          approvedAt, \* GitHub: the start up to which the last approval counts (0: none)
          checker,  \* where each goroutine that looks for approvals is
          issue,    \* the issue number of each of the runner's tasks
          stopped   \* history: the owner stopped a workflow

planVars == <<mode, plan, posting, starts, watchedAt, approvedAt, checker, issue, stopped>>
allVars == <<mode, plan, posting, starts, watchedAt, approvedAt, checker, issue,
             stopped, runnerVars>>

Checkers == CheckCalls \cup Pollers
NoPlan == [state |-> "idle", issue |-> NoIssue, context |-> "none"]
Resting == [pc |-> "idle", issue |-> NoIssue, left |-> {}]

Init ==
    /\ RunnerInit
    /\ mode = "interactive"
    /\ plan = NoPlan
    /\ posting = NoIssue
    /\ starts = 0
    /\ watchedAt = [i \in Issues |-> 0] /\ approvedAt = [i \in Issues |-> 0]
    /\ checker = [c \in Checkers |-> Resting]
    /\ issue = [t \in TaskIds |-> NoIssue]
    /\ stopped = FALSE

Locked == posting # NoIssue
Watched(i) == watchedAt[i] > 0
Unwatch(issues) == watchedAt' = [i \in Issues |-> IF i \in issues THEN 0 ELSE watchedAt[i]]

\* Who posts does not watch yet.
Clock == IF Locked THEN starts - 1 ELSE starts

----------------------------------------------------------------------------
(* StartPlanWorkflow and Stop *)

\* The handler must be idle, and EnterPlanMode asks for interactive mode.
StartPlan(i) ==
    /\ ~Locked /\ starts < MaxStarts
    /\ plan.state = "idle" /\ mode = "interactive"
    /\ starts' = starts + 1
    /\ mode' = "plan"
    /\ plan' = [plan EXCEPT !.context = "unapproved"]
    /\ posting' = i
    /\ UNCHANGED <<watchedAt, approvedAt, checker, issue, stopped,
                   runnerVars>>

\* Watch leaves an entry that is there alone.
StartPosted ==
    /\ Locked
    /\ watchedAt' = [watchedAt EXCEPT ![posting] = IF Watched(posting) THEN @ ELSE starts]
    /\ plan' = [plan EXCEPT !.state = "waiting", !.issue = posting]
    /\ posting' = NoIssue
    /\ UNCHANGED <<mode, starts, approvedAt, checker, issue, stopped,
                   runnerVars>>

\* The post failed: the mode is rolled back.
StartFailed ==
    /\ Locked
    /\ mode' = "interactive" /\ plan' = NoPlan
    /\ posting' = NoIssue
    /\ UNCHANGED <<starts, watchedAt, approvedAt, checker, issue, stopped,
                   runnerVars>>

\* Mutant: the handler stays in the state it had.
StopPlanKeepsState ==
    /\ ~Locked
    /\ stopped' = TRUE
    /\ Unwatch({plan.issue})
    /\ mode' = "interactive"
    /\ plan' = [NoPlan EXCEPT !.state = plan.state]
    /\ UNCHANGED <<posting, starts, approvedAt, checker, issue, runnerVars>>

\* Stop leaves the runner and its tasks alone.
StopPlan ==
    /\ ~Locked
    /\ stopped' = TRUE
    /\ Unwatch({plan.issue})
    /\ mode' = "interactive" /\ plan' = NoPlan
    /\ UNCHANGED <<posting, starts, approvedAt, checker, issue, runnerVars>>

----------------------------------------------------------------------------
(* CheckApproval and StartPolling *)

\* CheckApproval reads the state and the issue before it asks the watcher.
CheckRead(c) ==
    /\ c \in CheckCalls /\ checker[c].pc = "idle" /\ ~Locked
    /\ plan.state = "waiting"
    /\ checker' = [checker EXCEPT ![c].pc = "ask", ![c].issue = plan.issue]
    /\ UNCHANGED <<mode, plan, posting, starts, watchedAt, approvedAt, issue, stopped,
                   runnerVars>>

\* Watcher.CheckOnce copies the watched issues with their times.  The polling loop
\* calls it whenever its timer fires.
CheckAsk(c) ==
    /\ checker[c].pc = IF c \in Pollers THEN "idle" ELSE "ask"
    /\ checker' = [checker EXCEPT ![c].pc = "fetch",
                                  ![c].left = {<<i, watchedAt[i]>> : i \in {j \in Issues : Watched(j)}}]
    /\ UNCHANGED <<mode, plan, posting, starts, watchedAt, approvedAt, issue, stopped,
                   runnerVars>>

IssuesOf(pairs) == {p[1] : p \in pairs}

\* Mutant: an approval counts whenever it was given.
CheckFetchAny(c) ==
    /\ checker[c].pc = "fetch"
    /\ LET events == {p \in checker[c].left : approvedAt[p[1]] > 0}
       IN /\ Unwatch(IssuesOf(events))
          /\ checker' = [checker EXCEPT ![c].left = events, ![c].pc = "compare"]
    /\ UNCHANGED <<mode, plan, posting, starts, approvedAt, issue, stopped, runnerVars>>

\* The comments of the issues are fetched (FindApprovalSince): issues with an approval
\* that is not older than their entry are watched no longer, by their number.
CheckFetch(c) ==
    /\ checker[c].pc = "fetch"
    /\ LET events == {p \in checker[c].left : approvedAt[p[1]] >= p[2]}
       IN /\ Unwatch(IssuesOf(events))
          /\ checker' = [checker EXCEPT ![c].left = events, ![c].pc = "compare"]
    /\ UNCHANGED <<mode, plan, posting, starts, approvedAt, issue, stopped, runnerVars>>

\* An issue whose comments cannot be fetched is skipped.
CheckError(c) ==
    /\ checker[c].pc = "fetch"
    /\ \E p \in checker[c].left : checker' = [checker EXCEPT ![c].left = @ \ {p}]
    /\ UNCHANGED <<mode, plan, posting, starts, watchedAt, approvedAt, issue, stopped,
                   runnerVars>>

\* An event counts if it is of the issue read before the fetch (CheckApproval)
\* or of the current one (StartPolling, which reads it under the lock).
Expected(c) == IF c \in Pollers THEN plan.issue ELSE checker[c].issue
CheckCompare(c) ==
    /\ checker[c].pc = "compare"
    /\ c \in Pollers => ~Locked
    /\ checker' = [checker EXCEPT ![c] =
           IF Expected(c) \in IssuesOf(checker[c].left)
           THEN [Resting EXCEPT !.pc = "approve"] ELSE Resting]
    /\ UNCHANGED <<mode, plan, posting, starts, watchedAt, approvedAt, issue, stopped,
                   runnerVars>>

\* Mutant: the runner is given the task but not started.
HandleApprovalNoRun(c, l) ==
    /\ checker[c].pc = "approve" /\ ~Locked /\ loop[l].pc = "idle"
    /\ checker' = [checker EXCEPT ![c] = Resting]
    /\ plan' = [plan EXCEPT !.state = "executing"] /\ mode' = "auto"
    /\ Append(1)
    /\ issue' = [issue EXCEPT ![added + 1] = plan.issue]
    /\ UNCHANGED <<posting, starts, watchedAt, approvedAt, loop, stopped>>

\* handleApproval: whichever plan is current is marked approved, auto mode is
\* entered from plan mode, and the runner gets the current issue.
HandleApproval(c, l) ==
    /\ checker[c].pc = "approve" /\ ~Locked
    /\ checker' = [checker EXCEPT ![c] = Resting]
    /\ LET enters == plan.context # "none" /\ mode = "plan"
       IN /\ mode' = IF enters THEN "auto" ELSE mode
          /\ plan' = [plan EXCEPT !.state = IF enters THEN "executing" ELSE "approved",
                                  !.context = IF @ = "none" THEN @ ELSE "approved"]
    /\ Submit(l) /\ added' = added + 1
    /\ issue' = [issue EXCEPT ![added + 1] = plan.issue]
    /\ UNCHANGED <<posting, starts, watchedAt, approvedAt, stopped>>

\* The owner approves an issue.  GitHub's time has whole seconds: a comment of the
\* second in which a watch began may count as older than the watch.
Approve(i) ==
    /\ \E t \in approvedAt[i] + 1 .. Clock : approvedAt' = [approvedAt EXCEPT ![i] = t]
    /\ UNCHANGED <<mode, plan, posting, starts, watchedAt, checker, issue, stopped,
                   runnerVars>>

CheckStep(c) ==
    \/ CheckAsk(c) \/ CheckFetch(c) \/ CheckError(c) \/ CheckCompare(c)
    \/ \E l \in Loops : HandleApproval(c, l)
Run(l) == RunStep(l) /\ UNCHANGED planVars

PlanNext ==
    \/ \E i \in Issues : StartPlan(i) \/ Approve(i)
    \/ StartPosted \/ StartFailed \/ StopPlan
    \/ \E c \in Checkers : CheckRead(c) \/ CheckStep(c)
    \/ \E l \in Loops : Run(l)

PlanSpec == Init /\ [][PlanNext]_allVars

\* The poller's timer fires again and again, what goes on goes on, and fetching
\* the comments does not fail for ever.
PlanFairness ==
    /\ \A c \in Checkers :
          /\ WF_allVars(CheckStep(c))
          /\ SF_allVars(CheckFetch(c) /\ \E i \in IssuesOf(checker[c].left) : Watched(i))
    /\ \A l \in Loops : WF_allVars(Run(l))
FairPlanSpec == PlanSpec /\ PlanFairness

----------------------------------------------------------------------------
(* Properties *)

\* Every variable keeps its type.
PlanTypeOK ==
    /\ RunnerTypeOK
    /\ mode \in {"interactive", "plan", "auto"}
    /\ plan \in [state : {"idle", "waiting", "approved", "executing"},
                 issue : Issues \cup {NoIssue},
                 context : {"none", "unapproved", "approved"}]
    /\ posting \in Issues \cup {NoIssue} /\ starts \in 0 .. MaxStarts
    /\ watchedAt \in [Issues -> 0 .. MaxStarts] /\ approvedAt \in [Issues -> 0 .. MaxStarts]
    /\ checker \in [Checkers -> [pc : {"idle", "ask", "fetch", "compare", "approve"},
                                 issue : Issues \cup {NoIssue},
                                 left : SUBSET (Issues \X (0 .. MaxStarts))]]
    /\ issue \in [TaskIds -> Issues \cup {NoIssue}] /\ stopped \in BOOLEAN

\* The handler executes a plan in auto mode and waits for one in plan mode
\* (StateExecuting, StateWaitingApproval in auto_plan.go).
StateFollowsMode ==
    /\ plan.state = "executing" => mode = "auto"
    /\ plan.state = "waiting" => mode = "plan" /\ plan.issue # NoIssue

\* The runner is given approved plans only: "When approved, transitions to auto
\* mode" (StartPlanWorkflow).  The approval is not older than the watch, which the last
\* start began.  A Stop between the fetch of an approval and its handling gives it the
\* next plan, so only as long as nothing was stopped.
OnlyApprovedRuns ==
    ~stopped => \A t \in TaskIds :
                    task[t] # "none" => issue[t] \in Issues /\ approvedAt[issue[t]] >= starts

\* An approval of the plan that is waited for that is not older than the watch is
\* acted upon, and the plan is executed unless the owner stops it (StartPolling,
\* handleApproval and Run).  An older one, or one of the watch's own second, is not
\* seen: PlanMode!EveryApprovalCounts.
Approved(i) == Watched(i) /\ approvedAt[i] >= watchedAt[i]
ApprovedIsRun ==
    \A i \in Issues :
        (plan.state = "waiting" /\ plan.issue = i /\ Approved(i))
        ~> (stopped \/ \E t \in TaskIds : issue[t] = i /\ runs[t] > 0)
=============================================================================
